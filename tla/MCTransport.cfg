SPECIFICATION TransportSpec
CONSTANTS
    Ports = {"android", "linux", "windows"}
    Payloads <- MCPayloads
    MaxPayload = 4
    BufferSize = 3
    MaxRequest = 4
    MaxStream = 24
    Transfer = 4
    MaxLosses = 1
INVARIANT TransportTypeOK
INVARIANT BackInStep
PROPERTY ImplementsQueue
PROPERTY RecvReturns
