SPECIFICATION Spec
CONSTANTS
    Keys = 4
    Matching = {1, 3, 4}
    WithUri = {1, 2, 4}
    MaxPageSize = 2
    ListPageSize = 3
    Asked <- MCAsked
    Half = 8
    None = None
INVARIANTS LimitIsClamped
