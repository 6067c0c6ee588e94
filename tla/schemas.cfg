SPECIFICATION SchemasSpec
CONSTANTS
    Nil = Nil
    pk = pk
    sk = sk
    other = other
    who = who
    Attr = {pk, sk, other}
    ParamArg = {who}
    BatchMaxItems = 2
    Offered <- MCOffered
    Sendable <- MCSendable
INVARIANTS ConformingCallsAreTaken TakenCallsConform
