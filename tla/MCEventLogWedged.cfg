SPECIFICATION DeliverySpec
CONSTANTS
    Ids <- MCOneId
    OriginOf <- MCOne
    HlcOf <- MCOne
    Nodes <- MCThree
    Memberships <- MCAllThree
    Self = "self"
    NoNode = "none"
    Courses <- MCSingle
    PageSize = 2
    MaxRows = 2
    MaxNodesPerRow = 3
    MaxCursors = 2
    MaxAggregate = 10
    WireCost = 2
    NodeCost = 1
    CursorCost = 2
    RowPrefix = 1
    MaxBody = 20
PROPERTIES AcknowledgedRowsRetire
