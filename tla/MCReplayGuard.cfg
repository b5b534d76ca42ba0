SPECIFICATION Spec
CONSTANTS
    Origins = {o1, o2, o3}
    RelayIds = {i1, i2}
    Hlcs <- MCHlcs
    WindowSize = 2
    MaxOrigins = 2
    MaxImageBytes <- MCImageBytes
    NoCapsule = NoCapsule
    Damaged = Damaged
INVARIANTS AtMostOnce GreatestWindow DuplicateIsProof AcceptedIsRemembered EveryStateSeals GuardInv ArraysAgree
PROPERTY WatermarkNeverFalls
