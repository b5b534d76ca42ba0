SPECIFICATION FairSpec
CONSTANTS
    Ends = {"a", "b"}
    Ids <- MCIds
    AuthorOf <- MCByA
    MaxFrames = 1
    MaxWire = 2
    Courses <- MCCourses
INVARIANTS TypeOK NegotiatedBeforeUse DroppedIsAccepted ReceiptWhileOwed
CHECK_DEADLOCK FALSE
PROPERTY BooksClose
