\* Every request against every model, with ciphertexts that are damaged.
SPECIFICATION Spec
CONSTANTS
    Models <- MCModels
    Requests <- MCRequests
    Slots = 2
    MaxDepth = 2
    NoBlock = NoBlock
    None = None
INVARIANTS
    TypeOK
    AgreesWithPlain
    OutcomeHasCause
    DepthBounded
\* A behaviour is one inference; it ends.
CHECK_DEADLOCK FALSE
