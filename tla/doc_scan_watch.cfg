SPECIFICATION FairSpec
CONSTANTS
    Slots = 2
    MaxCursor = 3
    MaxFires = 9
    Routes = {{q1}}
    None = None
PROPERTIES ScanAdvanceIsNoticed
