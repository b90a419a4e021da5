SPECIFICATION Spec
CONSTANTS
    Users <- MCUsers
    Features <- MCFeatures
    Samples <- MCSamples
    NoVector = NoVector
    MaxCommands = 3
    MaxRepeats = 16
INVARIANT HostTypeOK
INVARIANT VectorsInRange
INVARIANT AdaptiveNearEnrolled
INVARIANT WinnerIsBest
INVARIANT ScoresAreSound
PROPERTY AuthenticationKeepsEnrolled
