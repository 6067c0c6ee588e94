SPECIFICATION Spec
CONSTANTS
    Keys = 3
    orders = orders
    archive = archive
    users = users
    Table <- MCTable
    Room <- MCRoom
    SchemaOf <- MCSchemaOf
    Place <- MCPlace
    Bindings <- MCBindings
    None = None
    Garbled = Garbled
INVARIANTS
    OnceFromOneTable
    CompleteFromOneTable
    SchemasNeverMix
