SPECIFICATION FairSpec
CONSTANTS
    Attr = {pk, other}
    ParamArg = {p}
    BatchMaxItems = 2
    pk = pk
    other = other
    p = p
    Name = {n1}
    Reg = {r1, r2}
    Call = {c1}
    Binding <- AllBindings
    Args <- AllArgs
    MaxAttempts = 2
    None = None
INVARIANTS
    ObservedOnce
    RejectedNeverSent
    AcknowledgedWasExecuted
PROPERTIES
    StragglerExplained
    NeverMissesARegisteredName
    ServiceSpec
    EveryCallAnswered
    RegistrationTakesEffect
