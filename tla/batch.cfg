SPECIFICATION FairSpec
CONSTANTS
    put1 = put1
    delete1 = delete1
    put2 = put2
    Entry <- MCEntry
    KeyOf <- MCKeyOf
    Deletes <- MCDeletes
    BatchMaxItems = 2
    MaxLate = 1
    Other = Other
    OtherDeleted = OtherDeleted
INVARIANTS
    NothingLost
    OnceUnlessGivenUp
    EachItemRead
PROPERTIES
    AcknowledgedStaysDone
    AtLeastOnceSpec
    Drains
