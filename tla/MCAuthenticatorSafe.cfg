SPECIFICATION Spec
CONSTANTS
    Secure = TRUE
    Ops = {"Enroll","ExtractEnroll","Authenticate","ExtractAuth"}
    Loops = {"Authenticate","ExtractAuth"}
    MaxDown = 2
    MaxLine = 1
INVARIANT TypeOK
INVARIANT ErrorIsTold
INVARIANT FaceprintsAreExpected
