SPECIFICATION Spec
CONSTANTS
    MaxParticipants = 2
    Writers = {1}
    Roots = {"names", "members"}
    n1 = n1
    n2 = n2
    n3 = n3
    n4 = n4
    Nodes <- MCNodes
    NoNode = NoNode
    MaxEpoch = 4
SYMMETRY NodeSymmetry
CHECK_DEADLOCK FALSE
INVARIANTS NoUseAfterFree OnePlace FreedOnTime ReclaimInv
