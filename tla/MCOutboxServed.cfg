SPECIFICATION Spec
CONSTANTS
    Peers = {"b", "c"}
    Unbound = "unbound"
    LocalOrigin = "local"
    NoPeer = "none"
    Ids = {1, 2}
    Calls <- MCCalls
    MaxEntries = 3
    MaxReceipts = 3
    MaxBytes = 9
    EntryBytes = 3
    ReceiptBytes = 2
    Budget = 1

PROPERTY ServedPeerAbsorbsNothing
