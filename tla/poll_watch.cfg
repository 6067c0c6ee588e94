SPECIFICATION FairSpec
CONSTANTS
    Slots = 2
    MaxCursor = 2
    MaxFires = 6
    Routes = {{q1}, {q1, q2}}
    None = None
INVARIANTS
    FiresHaveChanges
PROPERTIES
    NotifierSpec
    AdvanceIsNoticed
    FallsSilent
