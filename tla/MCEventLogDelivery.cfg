SPECIFICATION DeliverySpec
CONSTANTS
    Ids <- MCIds
    OriginOf <- MCOriginOf
    HlcOf <- MCHlcOf
    Nodes <- MCPair
    Memberships <- MCBoth
    Self = "self"
    NoNode = "none"
    Courses <- MCCourses
    PageSize = 2
    MaxRows = 3
    MaxNodesPerRow = 3
    MaxCursors = 2
    MaxAggregate = 20
    WireCost = 2
    NodeCost = 1
    CursorCost = 2
    RowPrefix = 1
    MaxBody = 24
PROPERTIES EveryRowRetires AuthorsTakeTurns
