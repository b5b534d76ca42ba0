------------------------------- MODULE Outbox -------------------------------
(***************************************************************************)
(* The per-hop retransmission authority RVO2 (src/daemon/relay_v2_outbox.zig): *)
(* the exact wires owed to each immediate peer until that peer acknowledges *)
(* them, the obligations towards a hop that is not chosen yet, and the      *)
(* receipts whose acknowledgement is repeated until the peer confirms it.   *)
(*                                                                         *)
(* An id stands for its wire.  retry_after_ms is kept as whether it has     *)
(* passed; attempts and the allocation failures, which leave the outbox as  *)
(* it was, are left out.                                                   *)
(***************************************************************************)
EXTENDS Integers, FiniteSets, SequencesExt

CONSTANTS
    Peers,          \* the immediate peers
    Unbound,        \* unbound_peer: a hop not chosen yet
    LocalOrigin,    \* local_origin_exclusion
    NoPeer,         \* an admission without a receipt
    Ids,            \* relay identities
    Calls,          \* the arguments of putBatchExcluding: peers, receipt, exclusion
    MaxEntries, MaxReceipts,           \* max_entries, maxReceiptEntries()
    MaxBytes, EntryBytes, ReceiptBytes, \* hard_max_checkpoint_bytes, and rows
    Budget          \* out.len of a collection

ASSUME OutboxAssumption ==
    /\ {Unbound, LocalOrigin, NoPeer} \cap Peers = {}
    /\ Unbound # LocalOrigin
    /\ Calls \subseteq [peers : Seq(Peers \cup {Unbound}), receipt : Peers \cup {NoPeer},
                        excluded : Peers \cup {LocalOrigin}]
    /\ {MaxEntries, MaxReceipts, MaxBytes, Budget} \subseteq Nat \ {0}
    /\ {EntryBytes, ReceiptBytes} \subseteq Nat

VARIABLES
    entries,       \* Outbox.entries: a sequence of Entry
    receipts,      \* Outbox.receipts
    entryCursor,   \* Outbox.entry_retry_cursor
    receiptCursor, \* Outbox.receipt_retry_cursor
    page,          \* the rows collected by this step, in order
    served,        \* history: <<peer, id>> if the peer acknowledged the id while
                   \* an obligation of it waits for a hop to be chosen
    passed         \* history: <<r, e>> if e was collected since r, which was
                   \* due all along, was last collected

vars == <<entries, receipts, entryCursor, receiptCursor, page, served, passed>>

Init ==
    /\ entries = <<>> /\ receipts = <<>>
    /\ entryCursor = 0 /\ receiptCursor = 0
    /\ page = <<>>
    /\ served = {} /\ passed = {}

\* A row is known by its kind, its peer and its id.
EntryKey(e)   == <<"entry", e.peer, e.id>>
ReceiptKey(r) == <<"receipt", r.peer, r.id>>

ContainsRow(list, peer, id) == \E e \in ToSet(list) : e.peer = peer /\ e.id = id

IndexOfRow(list, peer, id) == CHOOSE i \in DOMAIN list : list[i].peer = peer /\ list[i].id = id

Bytes(entryCount, receiptCount) == EntryBytes * entryCount + ReceiptBytes * receiptCount

\* The keys of a history pair that a row leaving takes with it.
Without(key) == {p \in passed : key \notin {p[1], p[2]}}

\* The history pairs of ids that still wait for a hop among these rows.
StillWaiting(pairs, list) == {p \in pairs : ContainsRow(list, Unbound, p[2])}

-----------------------------------------------------------------------------
(* Admission. *)

\* The distinct peers of a batch that do not hold the id.
NewPeers(call, id) == {p \in ToSet(call.peers) : ~ContainsRow(entries, p, id)}

NeedsReceipt(call, id) == call.receipt # NoPeer /\ ~ContainsRow(receipts, call.receipt, id)

\* Where a batch names a peer first.
FirstNamed(call, p) ==
    CHOOSE k \in DOMAIN call.peers :
      call.peers[k] = p /\ \A j \in 1..k - 1 : call.peers[j] # p

\* How many of the peers are named before this one.
NamedBefore(call, peers, p) ==
    Cardinality({q \in peers : FirstNamed(call, q) < FirstNamed(call, p)})

\* The rows of the new peers, in the order in which they are first named.
Staged(call, id) ==
    LET new    == NewPeers(call, id)
        nth(k) == CHOOSE p \in new : NamedBefore(call, new, p) = k - 1
    IN  [k \in 1..Cardinality(new) |->
           [peer |-> nth(k), id |-> id, due |-> FALSE,
            excluded |-> IF nth(k) = Unbound THEN call.excluded ELSE Unbound]]

\* putBatchExcluding, and putBatch, whose exclusion is the receipt peer or the
\* local origin: every row of the batch and its receipt, or none.
PutBatch(call, id) ==
    LET added == IF NeedsReceipt(call, id) THEN 1 ELSE 0
        new   == Staged(call, id)
    IN  /\ Len(new) + added > 0
        /\ Len(entries) + Len(new) <= MaxEntries
        /\ Len(receipts) + added <= MaxReceipts
        /\ Bytes(Len(entries) + Len(new), Len(receipts) + added) <= MaxBytes
        /\ entries' = entries \o new
        /\ receipts' = IF added = 0 THEN receipts
                       ELSE Append(receipts, [peer |-> call.receipt, id |-> id, due |-> FALSE])
        /\ page' = <<>>
        /\ UNCHANGED <<entryCursor, receiptCursor, served, passed>>

\* Slip: an id the peer holds already is bound to it again.
MayBindTwice(e, peer) == e.peer = Unbound /\ e.excluded # peer

\* bindUnbound takes an unbound row unless the peer is its ingress or holds
\* its id.
MayBind(e, peer) ==
    /\ e.peer = Unbound
    /\ e.excluded # peer
    /\ ~ContainsRow(entries, peer, e.id)

\* bindUnbound.  Unbound rows have different ids, so the rows bound on the way
\* do not keep each other out.
BindUnbound(peer) ==
    /\ \E e \in ToSet(entries) : MayBind(e, peer)
    /\ entries' = [i \in DOMAIN entries |->
                     IF MayBind(entries[i], peer) THEN [entries[i] EXCEPT !.peer = peer]
                                                  ELSE entries[i]]
    /\ page' = <<>>
    /\ served' = StillWaiting(served, entries')
    /\ UNCHANGED <<receipts, entryCursor, receiptCursor, passed>>

-----------------------------------------------------------------------------
(* Removal. *)

\* Slip: a cursor past the removed row stays where it is.
UnrepairedCursor(cursor, removed, left) == IF left = 0 THEN 0 ELSE cursor

\* Slip: every removal moves the cursor back.
AlwaysMovedBack(cursor, removed, left) == IF left = 0 THEN 0 ELSE cursor - 1

\* repairEntryCursor, repairReceiptCursor.  removed counts from 0.
RepairedCursor(cursor, removed, left) ==
    IF left = 0 THEN 0 ELSE IF removed < cursor THEN cursor - 1 ELSE cursor

DropEntry(i) ==
    /\ entries' = RemoveAt(entries, i)
    /\ entryCursor' = RepairedCursor(entryCursor, i - 1, Len(entries) - 1)
    /\ passed' = Without(EntryKey(entries[i]))
    /\ page' = <<>>
    /\ UNCHANGED <<receipts, receiptCursor>>

\* acknowledge.
Acknowledge(peer, id) ==
    /\ ContainsRow(entries, peer, id)
    /\ DropEntry(IndexOfRow(entries, peer, id))
    /\ served' = StillWaiting(served \cup {<<peer, id>>}, entries')

\* removeAt.
RemoveEntry(i) == DropEntry(i) /\ served' = StillWaiting(served, entries')

\* confirmReceipt.
ConfirmReceipt(peer, id) ==
    /\ ContainsRow(receipts, peer, id)
    /\ LET i == IndexOfRow(receipts, peer, id)
       IN  /\ receipts' = RemoveAt(receipts, i)
           /\ receiptCursor' = RepairedCursor(receiptCursor, i - 1, Len(receipts) - 1)
           /\ passed' = Without(ReceiptKey(receipts[i]))
    /\ page' = <<>>
    /\ UNCHANGED <<entries, entryCursor, served>>

-----------------------------------------------------------------------------
(* Sweeps. *)

\* The k-th row that a sweep from the cursor looks at.
ScanAt(cursor, total, k) == ((cursor + k - 1) % total) + 1

\* How many rows it looks at: until it has its budget, or all of them.
Scanned(cursor, total, ready) ==
    Cardinality({k \in 1..total :
                   Cardinality({j \in 1..k - 1 : ScanAt(cursor, total, j) \in ready}) < Budget})

\* The rows it takes, in order.
Taken(cursor, total, ready) ==
    LET hits == {k \in 1..Scanned(cursor, total, ready) : ScanAt(cursor, total, k) \in ready}
        nth  == CHOOSE f \in [1..Cardinality(hits) -> hits] :
                  \A i, j \in 1..Cardinality(hits) : i < j => f[i] < f[j]
    IN  [m \in 1..Cardinality(hits) |-> ScanAt(cursor, total, nth[m])]

\* The history of a sweep that takes the rows of keys, when those of due are due.
PassedAfter(keys, due) ==
    LET at(key) == CHOOSE k \in DOMAIN keys : keys[k] = key
        all     == ToSet(keys)
    IN  {p \in passed : p[1] \notin all}
        \cup {p \in due \X all : p[1] # p[2] /\ (p[1] \in all => at(p[1]) < at(p[2]))}

\* collectDueEntries: the bound rows whose retry time has passed.
CollectDueEntries ==
    LET total == Len(entries)
        ready == {i \in DOMAIN entries : entries[i].due /\ entries[i].peer # Unbound}
        taken == Taken(entryCursor, total, ready)
        keys  == [k \in DOMAIN taken |-> EntryKey(entries[taken[k]])]
    IN  /\ total > 0
        /\ entryCursor' = (entryCursor + Scanned(entryCursor, total, ready)) % total
        /\ page' = keys
        /\ passed' = PassedAfter(keys, {EntryKey(entries[i]) : i \in ready})
        /\ UNCHANGED <<entries, receipts, receiptCursor, served>>

\* collectDueReceipts.
CollectDueReceipts ==
    LET total == Len(receipts)
        ready == {i \in DOMAIN receipts : receipts[i].due}
        taken == Taken(receiptCursor, total, ready)
        keys  == [k \in DOMAIN taken |-> ReceiptKey(receipts[taken[k]])]
    IN  /\ total > 0
        /\ receiptCursor' = (receiptCursor + Scanned(receiptCursor, total, ready)) % total
        /\ page' = keys
        /\ passed' = PassedAfter(keys, {ReceiptKey(receipts[i]) : i \in ready})
        /\ UNCHANGED <<entries, receipts, entryCursor, served>>

\* Time passes the retry_after_ms of a row.
EntryElapses(i) ==
    /\ ~entries[i].due
    /\ entries' = [entries EXCEPT ![i].due = TRUE]
    /\ page' = <<>>
    /\ UNCHANGED <<receipts, entryCursor, receiptCursor, served, passed>>

ReceiptElapses(i) ==
    /\ ~receipts[i].due
    /\ receipts' = [receipts EXCEPT ![i].due = TRUE]
    /\ page' = <<>>
    /\ UNCHANGED <<entries, entryCursor, receiptCursor, served, passed>>

\* The caller sent the page and set the next retry of one of its rows
\* (mutableItems, mutableReceiptItems).
Backoff(key) ==
    /\ key \in ToSet(page)
    /\ entries' = [i \in DOMAIN entries |->
                     IF EntryKey(entries[i]) = key THEN [entries[i] EXCEPT !.due = FALSE]
                                                   ELSE entries[i]]
    /\ receipts' = [i \in DOMAIN receipts |->
                     IF ReceiptKey(receipts[i]) = key THEN [receipts[i] EXCEPT !.due = FALSE]
                                                      ELSE receipts[i]]
    /\ passed' = {p \in passed : p[1] # key}
    /\ page' = <<>>
    /\ UNCHANGED <<entryCursor, receiptCursor, served>>

-----------------------------------------------------------------------------
(* Checkpoints. *)

\* What encodeCheckpoint writes and validateCheckpoint takes.
Restorable ==
    /\ Len(entries) <= MaxEntries /\ Len(receipts) <= MaxReceipts
    /\ Bytes(Len(entries), Len(receipts)) <= MaxBytes
    /\ \A i \in DOMAIN entries : entries[i].excluded # entries[i].peer
    /\ \A i, j \in DOMAIN entries : EntryKey(entries[i]) = EntryKey(entries[j]) => i = j
    /\ \A i, j \in DOMAIN receipts : ReceiptKey(receipts[i]) = ReceiptKey(receipts[j]) => i = j

\* A process takes over with the checkpoint of the one before: its sweeps
\* start again at the first row.
Restart ==
    /\ Restorable
    /\ entryCursor' = 0 /\ receiptCursor' = 0
    /\ passed' = {}
    /\ page' = <<>>
    /\ UNCHANGED <<entries, receipts, served>>

Next ==
    \/ \E call \in Calls, id \in Ids : PutBatch(call, id)
    \/ \E peer \in Peers : BindUnbound(peer)
    \/ \E peer \in Peers, id \in Ids : Acknowledge(peer, id)
    \/ \E i \in DOMAIN entries : RemoveEntry(i)
    \/ \E peer \in Peers, id \in Ids : ConfirmReceipt(peer, id)
    \/ CollectDueEntries
    \/ CollectDueReceipts
    \/ \E i \in DOMAIN entries : EntryElapses(i)
    \/ \E i \in DOMAIN receipts : ReceiptElapses(i)
    \/ \E key \in ToSet(page) : Backoff(key)
    \/ Restart

Spec == Init /\ [][Next]_vars

-----------------------------------------------------------------------------

\* The type invariant.
TypeOK ==
    /\ entries \in Seq([peer : Peers \cup {Unbound}, id : Ids, due : BOOLEAN,
                        excluded : Peers \cup {Unbound, LocalOrigin}])
    /\ receipts \in Seq([peer : Peers, id : Ids, due : BOOLEAN])
    /\ entryCursor \in 0..MaxEntries /\ receiptCursor \in 0..MaxReceipts
    /\ served \subseteq Peers \X Ids

\* "Every admitted state seals": after any sequence of admissions, bindings and
\* removals the checkpoint of the outbox is one that a successor takes, so no
\* peer is owed an id twice and none is its own exclusion.
EveryStateRestores == Restorable

\* A sweep resumes fairly: no row is collected for the second time while a row
\* that was due all along, and is not before it on the page, has waited.  Rows
\* "are neither skipped nor served twice within a round", whatever was
\* acknowledged, bound or admitted in between.
NoRowIsSkipped ==
    [][\A p \in passed, k \in DOMAIN page' :
          (p[2] = page'[k]) => \E j \in 1..k - 1 : page'[j] = p[1]]_vars

\* An obligation stays away from a peer that acknowledged its id meanwhile: "a
\* reconnecting already-served peer cannot absorb a future-hop obligation".
ServedPeerAbsorbsNothing ==
    [][\A i \in DOMAIN entries \cap DOMAIN entries' :
          (entries[i].peer = Unbound /\ entries'[i].id = entries[i].id
             /\ entries'[i].peer # Unbound)
          => <<entries'[i].peer, entries[i].id>> \notin served]_vars

=============================================================================
