SPECIFICATION Spec
CONSTANTS
    Placeholder = {p1, p2}
    CallerValues = {v}
    Literals <- MCLiterals
    IntMax = 7
    UIntMax = 15
    Floats <- MCFloats
    Decimals <- MCDecimals
    Length <- MCLength
    Threshold = 5
    None = None
INVARIANTS
    OperatorDecides
    IntegersArrive
    FloatsArrive
