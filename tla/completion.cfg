SPECIFICATION Spec
CONSTANTS
    Positions = 3
    Typed = 1
    Completing <- MCBindings
    Megabyte = 2
    None = None
INVARIANTS
    WithinCap
    OnlyMatches
    NoneWithheld
PROPERTIES
    NarrowingKeeps
