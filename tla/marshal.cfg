SPECIFICATION MarshalSpec
CONSTANTS
    Json <- MCJson
    Av <- MCAv
    Depth <- MCDepth
    MaxDepth = 9
    Documents <- MCDocuments
    ForeignItems <- MCForeignItems
INVARIANTS
    Lossless
    EchoIsAccepted
PROPERTIES
    EchoChangesNothing
