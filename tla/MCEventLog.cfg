SPECIFICATION Spec
CONSTANTS
    Ids <- MCIds
    OriginOf <- MCOriginOf
    HlcOf <- MCHlcOf
    Nodes <- MCNodes
    Memberships <- MCMemberships
    Self = "self"
    NoNode = "none"
    PageSize = 1
    MaxRows = 3
    MaxNodesPerRow = 3
    MaxCursors = 2
    MaxAggregate = 16
    WireCost = 2
    NodeCost = 1
    CursorCost = 2
    RowPrefix = 1
    MaxBody = 18
INVARIANTS TypeOK DebtIsExact EveryStateSeals PlanIsCurrent NeverOvertakes
PROPERTY SnapshotOnlyShrinks
