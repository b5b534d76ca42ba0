SPECIFICATION DeliverySpec
CONSTANTS
    Ids <- MCIds
    OriginOf <- MCOriginOf
    HlcOf <- MCHlcOf
    Nodes <- MCPair
    Memberships <- MCBoth
    Self = "self"
    NoNode = "none"
    Courses <- MCTwo
    PageSize = 1
    MaxRows = 2
    MaxNodesPerRow = 3
    MaxCursors = 2
    MaxAggregate = 14
    WireCost = 2
    NodeCost = 1
    CursorCost = 2
    RowPrefix = 1
    MaxBody = 20
PROPERTIES OriginsAreServed
