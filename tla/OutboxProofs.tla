---------------------------- MODULE OutboxProofs ----------------------------
(***************************************************************************)
(* The outbox, for any number of peers, events and rows, any batches and   *)
(* any bounds: every state of it can be carried over a hot upgrade, and its *)
(* sweeps skip no row.                                                     *)
(***************************************************************************)
EXTENDS Outbox, FiniteSetTheorems, SequenceTheorems, WellFoundedInduction, DataInduction, TLAPS

Entry   == [peer : Peers \cup {Unbound}, id : Ids, due : BOOLEAN,
            excluded : Peers \cup {Unbound, LocalOrigin}]
Receipt == [peer : Peers, id : Ids, due : BOOLEAN]

\* No two rows of a list have one peer and one id.
Distinct(list) ==
    \A i, j \in 1..Len(list) : list[i].peer = list[j].peer /\ list[i].id = list[j].id => i = j

\* No row is its own exclusion.
Away(list) == \A i \in 1..Len(list) : list[i].excluded # list[i].peer

Rows ==
    /\ entries \in Seq(Entry) /\ Distinct(entries) /\ Away(entries)
    /\ receipts \in Seq(Receipt) /\ Distinct(receipts)

Bounds ==
    /\ Len(entries) <= MaxEntries /\ Len(receipts) <= MaxReceipts
    /\ Bytes(Len(entries), Len(receipts)) <= MaxBytes

Cursors ==
    /\ entryCursor \in 0..MaxEntries /\ receiptCursor \in 0..MaxReceipts
    /\ served \subseteq Peers \X Ids

OutboxInv == Rows /\ Bounds /\ Cursors

LEMMA Sizes ==
    /\ MaxEntries \in Nat \ {0} /\ MaxReceipts \in Nat \ {0} /\ MaxBytes \in Nat
    /\ EntryBytes \in Nat /\ ReceiptBytes \in Nat /\ Budget \in Nat
BY OutboxAssumption

LEMMA Names == /\ Unbound \notin Peers /\ LocalOrigin \notin Peers /\ NoPeer \notin Peers
               /\ Unbound # LocalOrigin
BY OutboxAssumption

-----------------------------------------------------------------------------
(* Lists. *)

LEMMA Removing ==
    ASSUME NEW S, NEW s \in Seq(S), NEW i \in 1..Len(s)
    PROVE  /\ RemoveAt(s, i) \in Seq(S)
           /\ Len(RemoveAt(s, i)) = Len(s) - 1
           /\ \A k \in 1..(Len(s) - 1) : RemoveAt(s, i)[k] = s[IF k < i THEN k ELSE k + 1]
<1> DEFINE a == SubSeq(s, 1, i - 1)
           b == SubSeq(s, i + 1, Len(s))
<1>1. a \in Seq(S) /\ Len(a) = i - 1 /\ \A k \in 1..(i - 1) : a[k] = s[k]
  BY SubSeqProperties
<1>2. b \in Seq(S) /\ Len(b) = Len(s) - i /\ \A k \in 1..(Len(s) - i) : b[k] = s[k + i]
  BY SubSeqProperties
<1> HIDE DEF a, b
<1>3. RemoveAt(s, i) = a \o b
  BY DEF RemoveAt, a, b
<1>4. /\ a \o b \in Seq(S) /\ Len(a \o b) = Len(s) - 1
      /\ \A k \in 1..(Len(s) - 1) : (a \o b)[k] = IF k <= i - 1 THEN a[k] ELSE b[k - (i - 1)]
  <2>1. Len(a) + Len(b) = Len(s) - 1
    BY <1>1, <1>2
  <2>2. /\ a \o b \in Seq(S) /\ Len(a \o b) = Len(a) + Len(b)
        /\ \A k \in 1..(Len(a) + Len(b)) : (a \o b)[k] = IF k <= Len(a) THEN a[k] ELSE b[k - Len(a)]
    BY <1>1, <1>2, ConcatProperties
  <2> QED BY <1>1, <2>1, <2>2
<1>5. ASSUME NEW k \in 1..(Len(s) - 1)
      PROVE  (a \o b)[k] = s[IF k < i THEN k ELSE k + 1]
  <2>1. CASE k < i
    BY <1>1, <1>4, <2>1
  <2>2. CASE ~(k < i)
    <3>1. k - (i - 1) \in 1..(Len(s) - i) /\ (k - (i - 1)) + i = k + 1
      BY <2>2
    <3>2. b[k - (i - 1)] = s[(k - (i - 1)) + i]
      BY <1>2, <3>1
    <3>3. b[k - (i - 1)] = s[k + 1]
      BY <3>1, <3>2
    <3>4. ~(k <= i - 1)
      BY <2>2
    <3>5. (a \o b)[k] = b[k - (i - 1)]
      BY <1>4, <3>4
    <3> QED BY <2>2, <3>3, <3>5
  <2> QED BY <2>1, <2>2
<1> QED BY <1>3, <1>4, <1>5

LEMMA RemovingKeeps ==
    ASSUME NEW S, NEW s \in Seq(S), NEW i \in 1..Len(s), Distinct(s)
    PROVE  Distinct(RemoveAt(s, i)) /\ (Away(s) => Away(RemoveAt(s, i)))
<1> DEFINE r    == RemoveAt(s, i)
           old(k) == IF k < i THEN k ELSE k + 1
<1>0. /\ Len(s) \in Nat /\ Len(r) = Len(s) - 1
      /\ \A k \in 1..(Len(s) - 1) : r[k] = s[old(k)]
  BY Removing
<1> HIDE DEF r
<1>1. \A k \in 1..Len(r) : old(k) \in 1..Len(s) /\ r[k] = s[old(k)]
  <2> TAKE k \in 1..Len(r)
  <2>1. k \in 1..(Len(s) - 1)
    BY <1>0
  <2>2. old(k) \in 1..Len(s)
    BY <2>1
  <2> HIDE DEF old
  <2> QED BY <1>0, <2>1, <2>2
<1>2. \A j, k \in 1..Len(r) : old(j) = old(k) => j = k
  BY <1>0
<1> HIDE DEF old
<1>3. Distinct(r)
  BY <1>1, <1>2 DEF Distinct
<1>4. Away(s) => Away(r)
  BY <1>1 DEF Away
<1> QED BY <1>3, <1>4 DEF r

\* A row taken from a list is one of its rows.
LEMMA RowFound ==
    ASSUME NEW S, NEW list \in Seq(S), NEW peer, NEW id, ContainsRow(list, peer, id)
    PROVE  IndexOfRow(list, peer, id) \in 1..Len(list)
<1>1. \E i \in DOMAIN list : list[i].peer = peer /\ list[i].id = id
  BY DEF ContainsRow, ToSet
<1> QED BY <1>1 DEF IndexOfRow

LEMMA Repaired ==
    ASSUME NEW max \in Nat, NEW cursor \in 0..max, NEW i \in Nat \ {0}, NEW left \in Nat
    PROVE  RepairedCursor(cursor, i - 1, left) \in 0..max
BY DEF RepairedCursor

LEMMA FewerBytes ==
    ASSUME NEW n \in Nat, NEW m \in Nat, Bytes(n, m) <= MaxBytes
    PROVE  /\ n # 0 => Bytes(n - 1, m) <= MaxBytes
           /\ m # 0 => Bytes(n, m - 1) <= MaxBytes
<1>1. EntryBytes * (n - 1) = EntryBytes * n - EntryBytes
  BY Sizes
<1>2. ReceiptBytes * (m - 1) = ReceiptBytes * m - ReceiptBytes
  BY Sizes
<1>3. EntryBytes * n \in Nat /\ ReceiptBytes * m \in Nat
  BY Sizes
<1> QED BY <1>1, <1>2, <1>3, Sizes DEF Bytes

-----------------------------------------------------------------------------
(* Batches. *)

LEMMA FirstNaming ==
    ASSUME NEW call \in Calls, NEW p \in ToSet(call.peers)
    PROVE  FirstNamed(call, p) \in 1..Len(call.peers) /\ call.peers[FirstNamed(call, p)] = p
<1> DEFINE at == {k \in 1..Len(call.peers) : call.peers[k] = p}
           lt == OpToRel(<, Nat)
<1>1. call.peers \in Seq(Peers \cup {Unbound})
  BY OutboxAssumption
<1>2. at \subseteq Nat /\ at # {}
  BY <1>1 DEF ToSet
<1>3. IsWellFoundedOn(lt, Nat)
  BY NatLessThanWellFounded
<1>4. \A i, j \in Nat : i < j => <<i, j>> \in lt
  BY DEF OpToRel
<1>5. \E k \in at : \A j \in at : ~(j < k)
  <2> HIDE DEF at, lt
  <2>1. PICK k \in at : \A j \in at : ~(<<j, k>> \in lt)
    BY <1>2, <1>3, WFMin
  <2> QED BY <1>2, <1>4, <2>1
<1>6. \E k \in DOMAIN call.peers : /\ call.peers[k] = p
                                  /\ \A j \in 1..k - 1 : call.peers[j] # p
  BY <1>1, <1>5
<1> QED BY <1>1, <1>6 DEF FirstNamed

LEMMA NamedPeers ==
    ASSUME NEW call \in Calls
    PROVE  IsFiniteSet(ToSet(call.peers)) /\ ToSet(call.peers) \subseteq Peers \cup {Unbound}
<1>1. call.peers \in Seq(Peers \cup {Unbound})
  BY OutboxAssumption
<1>2. call.peers \in Surjection(1..Len(call.peers), ToSet(call.peers))
  BY <1>1 DEF Surjection, ToSet
<1>3. IsFiniteSet(1..Len(call.peers))
  BY <1>1, FS_Interval
<1> QED BY <1>1, <1>2, <1>3, FS_Surjection DEF ToSet

\* The peers of a batch are numbered without gaps: each number below their
\* count belongs to one of them.
LEMMA Numbering ==
    ASSUME NEW call \in Calls, NEW new \in SUBSET ToSet(call.peers)
    PROVE  /\ Cardinality(new) \in Nat
           /\ \A k \in 1..Cardinality(new) : \E p \in new : NamedBefore(call, new, p) = k - 1
<1> DEFINE n         == Cardinality(new)
           before(p) == {q \in new : FirstNamed(call, q) < FirstNamed(call, p)}
           rank      == [p \in new |-> NamedBefore(call, new, p)]
<1>1. IsFiniteSet(new) /\ n \in Nat
  BY NamedPeers, FS_Subset, FS_CardinalityType
<1>2. \A p \in new : FirstNamed(call, p) \in Nat /\ call.peers[FirstNamed(call, p)] = p
  BY FirstNaming
<1>3. ASSUME NEW p \in new
      PROVE  /\ IsFiniteSet(before(p)) /\ Cardinality(before(p)) \in Nat
             /\ Cardinality(before(p)) < n
  <2>1. IsFiniteSet(before(p)) /\ Cardinality(before(p)) \in Nat /\ Cardinality(before(p)) <= n
    BY <1>1, FS_Subset, FS_CardinalityType
  <2>2. p \notin before(p)
    BY <1>2
  <2>3. before(p) # new
    BY <2>2
  <2>4. n # Cardinality(before(p))
    BY <1>1, <2>3, FS_Subset
  <2> QED BY <1>1, <2>1, <2>4
<1>4. ASSUME NEW p \in new, NEW q \in new, FirstNamed(call, p) < FirstNamed(call, q)
      PROVE  Cardinality(before(p)) # Cardinality(before(q))
  <2>1. before(p) \in SUBSET before(q)
    BY <1>2, <1>4
  <2>2. p \in before(q) /\ p \notin before(p)
    BY <1>2, <1>4
  <2>3. before(p) # before(q)
    BY <2>2
  <2> QED BY <1>3, <2>1, <2>3, FS_Subset
<1>5. rank \in [new -> 0..(n - 1)]
  <2>1. \A p \in new : NamedBefore(call, new, p) = Cardinality(before(p))
    BY DEF NamedBefore
  <2> HIDE DEF before
  <2>2. \A p \in new : NamedBefore(call, new, p) \in 0..(n - 1)
    BY <1>1, <1>3, <2>1
  <2> QED BY <2>2
<1>6. ASSUME NEW p \in new, NEW q \in new, rank[p] = rank[q]
      PROVE  p = q
  <2>1. Cardinality(before(p)) = Cardinality(before(q))
    BY <1>6 DEF NamedBefore
  <2>2. ~(FirstNamed(call, p) < FirstNamed(call, q)) /\ ~(FirstNamed(call, q) < FirstNamed(call, p))
    BY <1>4, <2>1
  <2>3. FirstNamed(call, p) = FirstNamed(call, q)
    BY <1>2, <2>2
  <2> QED BY <1>2, <2>3
<1>7. rank \in Injection(new, 0..(n - 1))
  <2> HIDE DEF rank
  <2> QED BY <1>5, <1>6 DEF Injection, IsInjective
<1>8. IsFiniteSet(0..(n - 1)) /\ Cardinality(0..(n - 1)) = n
  <2>1. 0 \in Int /\ n - 1 \in Int
    BY <1>1
  <2>2. /\ IsFiniteSet(0..(n - 1))
        /\ Cardinality(0..(n - 1)) = IF 0 > n - 1 THEN 0 ELSE (n - 1) - 0 + 1
    BY <2>1, FS_Interval
  <2> QED BY <1>1, <2>2
<1>9. rank \in Surjection(new, 0..(n - 1))
  <2> HIDE DEF rank, n
  <2> QED BY <1>7, <1>8, FS_Injection DEF n
<1>10. ASSUME NEW k \in 1..n PROVE \E p \in new : NamedBefore(call, new, p) = k - 1
  <2>1. k - 1 \in 0..(n - 1)
    BY <1>1
  <2>2. PICK p \in new : rank[p] = k - 1
    <3> HIDE DEF rank
    <3> QED BY <1>9, <2>1 DEF Surjection
  <2> QED BY <2>2
<1> QED BY <1>1, <1>10

\* The rows of a batch are well formed, no two are for one peer, and none is
\* for a peer that holds the id.
LEMMA Staging ==
    ASSUME NEW call \in Calls, NEW id \in Ids
    PROVE  /\ Staged(call, id) \in Seq(Entry)
           /\ Distinct(Staged(call, id)) /\ Away(Staged(call, id))
           /\ \A k \in 1..Len(Staged(call, id)) :
                /\ Staged(call, id)[k].id = id
                /\ ~ContainsRow(entries, Staged(call, id)[k].peer, id)
<1> DEFINE new    == NewPeers(call, id)
           nth(k) == CHOOSE p \in new : NamedBefore(call, new, p) = k - 1
           row(k) == [peer |-> nth(k), id |-> id, due |-> FALSE,
                      excluded |-> IF nth(k) = Unbound THEN call.excluded ELSE Unbound]
<1>1. new \in SUBSET ToSet(call.peers)
  BY DEF NewPeers
<1>2. /\ Cardinality(new) \in Nat
      /\ \A k \in 1..Cardinality(new) : nth(k) \in new /\ NamedBefore(call, new, nth(k)) = k - 1
  <2> HIDE DEF new
  <2> QED BY <1>1, Numbering
<1>3. new \subseteq Peers \cup {Unbound} /\ \A p \in new : ~ContainsRow(entries, p, id)
  BY NamedPeers DEF NewPeers
<1>4. call.excluded \in Peers \cup {LocalOrigin}
  BY OutboxAssumption
<1>5. Staged(call, id) = [k \in 1..Cardinality(new) |-> row(k)]
  BY DEF Staged
<1> HIDE DEF new, nth
<1>6. ASSUME NEW k \in 1..Cardinality(new)
      PROVE  row(k) \in Entry /\ row(k).peer = nth(k) /\ row(k).id = id
             /\ row(k).excluded # row(k).peer
  BY <1>2, <1>3, <1>4, Names DEF Entry
<1> HIDE DEF row
<1>7. Staged(call, id) \in Seq(Entry) /\ Len(Staged(call, id)) = Cardinality(new)
  BY <1>2, <1>5, <1>6
<1>8. \A k \in 1..Len(Staged(call, id)) : Staged(call, id)[k] = row(k)
  BY <1>5, <1>7
<1>9. \A j, k \in 1..Cardinality(new) : nth(j) = nth(k) => j = k
  BY <1>2
<1>10. Distinct(Staged(call, id)) /\ Away(Staged(call, id))
  BY <1>6, <1>7, <1>8, <1>9 DEF Distinct, Away
<1> QED BY <1>2, <1>3, <1>6, <1>7, <1>8, <1>10

-----------------------------------------------------------------------------
(* The operations. *)

LEMMA OutboxInit == Init => OutboxInv
BY Sizes DEF Init, OutboxInv, Rows, Bounds, Cursors, Distinct, Away, Bytes

LEMMA BatchAdmitted ==
    ASSUME OutboxInv, NEW call \in Calls, NEW id \in Ids, PutBatch(call, id)
    PROVE  OutboxInv'
<1> DEFINE new   == Staged(call, id)
           added == IF NeedsReceipt(call, id) THEN 1 ELSE 0
           row   == [peer |-> call.receipt, id |-> id, due |-> FALSE]
<1>1. /\ new \in Seq(Entry) /\ Distinct(new) /\ Away(new)
      /\ \A k \in 1..Len(new) : new[k].id = id /\ ~ContainsRow(entries, new[k].peer, id)
  BY Staging
<1>2. /\ Len(entries) + Len(new) <= MaxEntries
      /\ Len(receipts) + added <= MaxReceipts
      /\ Bytes(Len(entries) + Len(new), Len(receipts) + added) <= MaxBytes
      /\ entries' = entries \o new
      /\ receipts' = IF added = 0 THEN receipts ELSE Append(receipts, row)
      /\ UNCHANGED <<entryCursor, receiptCursor, served>>
  BY DEF PutBatch
<1> HIDE DEF new
<1>3. entries \in Seq(Entry) /\ Distinct(entries) /\ Away(entries)
  BY DEF OutboxInv, Rows
<1>4. /\ entries' \in Seq(Entry) /\ Len(entries') = Len(entries) + Len(new)
      /\ \A k \in 1..Len(entries') :
           entries'[k] = IF k <= Len(entries) THEN entries[k] ELSE new[k - Len(entries)]
  BY <1>1, <1>2, <1>3, ConcatProperties
<1>5. \A k \in 1..Len(entries) : ContainsRow(entries, entries[k].peer, entries[k].id)
  BY <1>3 DEF ContainsRow, ToSet
<1>6. Distinct(entries')
  <2> SUFFICES ASSUME NEW i \in 1..Len(entries'), NEW j \in 1..Len(entries'), i <= j,
                      entries'[i].peer = entries'[j].peer, entries'[i].id = entries'[j].id
               PROVE  i = j
    BY <1>4 DEF Distinct
  <2>1. CASE j <= Len(entries)
    BY <1>3, <1>4, <2>1 DEF Distinct
  <2>2. CASE i > Len(entries)
    <3>1. i - Len(entries) \in 1..Len(new) /\ j - Len(entries) \in 1..Len(new)
      BY <1>1, <1>3, <1>4, <2>2
    <3>2. entries'[i] = new[i - Len(entries)] /\ entries'[j] = new[j - Len(entries)]
      BY <1>3, <1>4, <2>2
    <3>3. i - Len(entries) = j - Len(entries)
      BY <1>1, <3>1, <3>2 DEF Distinct
    <3> QED BY <1>3, <3>3
  <2>3. CASE i <= Len(entries) /\ j > Len(entries)
    <3>1. j - Len(entries) \in 1..Len(new) /\ entries'[j] = new[j - Len(entries)]
      BY <1>1, <1>3, <1>4, <2>3
    <3>2. i \in 1..Len(entries) /\ entries'[i] = entries[i]
      BY <1>3, <1>4, <2>3
    <3> QED BY <1>1, <1>5, <3>1, <3>2
  <2> QED BY <1>3, <2>1, <2>2, <2>3
<1>7. Away(entries')
  <2> SUFFICES ASSUME NEW k \in 1..Len(entries') PROVE entries'[k].excluded # entries'[k].peer
    BY DEF Away
  <2>1. CASE k <= Len(entries)
    BY <1>3, <1>4, <2>1 DEF Away
  <2>2. CASE k > Len(entries)
    <3>1. k - Len(entries) \in 1..Len(new) /\ entries'[k] = new[k - Len(entries)]
      BY <1>1, <1>3, <1>4, <2>2
    <3> QED BY <1>1, <3>1 DEF Away
  <2> QED BY <1>3, <2>1, <2>2
<1>8. /\ receipts' \in Seq(Receipt) /\ Distinct(receipts')
      /\ Len(receipts') = Len(receipts) + added
  <2>1. receipts \in Seq(Receipt) /\ Distinct(receipts)
    BY DEF OutboxInv, Rows
  <2>2. CASE ~NeedsReceipt(call, id)
    BY <1>2, <2>1, <2>2
  <2>3. CASE NeedsReceipt(call, id)
    <3>1. row \in Receipt /\ ~ContainsRow(receipts, call.receipt, id)
      BY <2>3, OutboxAssumption DEF NeedsReceipt, Receipt
    <3>2. receipts' = Append(receipts, row)
      BY <1>2, <2>3
    <3>3. \A k \in 1..Len(receipts) : ~(receipts[k].peer = row.peer /\ receipts[k].id = row.id)
      BY <2>1, <3>1 DEF ContainsRow, ToSet
    <3> HIDE DEF row
    <3>4. /\ receipts' \in Seq(Receipt) /\ Len(receipts') = Len(receipts) + 1
          /\ \A k \in 1..Len(receipts) : receipts'[k] = receipts[k]
          /\ receipts'[Len(receipts) + 1] = row
      BY <2>1, <3>1, <3>2
    <3>5. Distinct(receipts')
      BY <2>1, <3>3, <3>4 DEF Distinct
    <3> QED BY <2>3, <3>4, <3>5
  <2> QED BY <2>2, <2>3
<1> QED BY <1>2, <1>4, <1>6, <1>7, <1>8 DEF OutboxInv, Rows, Bounds, Cursors

LEMMA Bound ==
    ASSUME OutboxInv, NEW peer \in Peers, BindUnbound(peer)
    PROVE  OutboxInv'
<1>1. /\ entries \in Seq(Entry) /\ Distinct(entries) /\ Away(entries)
      /\ UNCHANGED <<receipts, entryCursor, receiptCursor>> /\ served' \subseteq served
      /\ entries' = [i \in DOMAIN entries |->
                       IF MayBind(entries[i], peer) THEN [entries[i] EXCEPT !.peer = peer]
                                                    ELSE entries[i]]
  BY DEF OutboxInv, Rows, BindUnbound, StillWaiting
<1>2. ASSUME NEW i \in 1..Len(entries)
      PROVE  /\ entries[i] \in Entry
             /\ entries'[i] = IF MayBind(entries[i], peer) THEN [entries[i] EXCEPT !.peer = peer]
                                                           ELSE entries[i]
  BY <1>1
<1>3. ASSUME NEW i \in 1..Len(entries)
      PROVE  /\ entries'[i] \in Entry /\ entries'[i].id = entries[i].id
             /\ entries'[i].excluded = entries[i].excluded
             /\ entries'[i].peer = IF MayBind(entries[i], peer) THEN peer ELSE entries[i].peer
  BY <1>2 DEF Entry
<1>4. entries' \in Seq(Entry) /\ Len(entries') = Len(entries)
  <2>1. DOMAIN entries = 1..Len(entries) /\ Len(entries) \in Nat
    BY <1>1
  <2>2. entries' \in [1..Len(entries) -> Entry]
    BY <1>1, <1>3, <2>1
  <2> QED BY <2>1, <2>2
<1>5. Away(entries')
  BY <1>1, <1>3, <1>4 DEF Away, MayBind
<1>6. \A k \in 1..Len(entries) : ContainsRow(entries, entries[k].peer, entries[k].id)
  BY <1>1 DEF ContainsRow, ToSet
<1>7. Distinct(entries')
  <2> SUFFICES ASSUME NEW i \in 1..Len(entries), NEW j \in 1..Len(entries),
                      entries'[i].peer = entries'[j].peer, entries'[i].id = entries'[j].id
               PROVE  i = j
    BY <1>4 DEF Distinct
  <2>1. entries[i].id = entries[j].id
    BY <1>3
  <2>2. CASE MayBind(entries[i], peer) <=> MayBind(entries[j], peer)
    BY <1>1, <1>3, <2>1, <2>2 DEF Distinct, MayBind
  <2>3. CASE MayBind(entries[i], peer) /\ ~MayBind(entries[j], peer)
    BY <1>3, <1>6, <2>1, <2>3 DEF MayBind
  <2>4. CASE MayBind(entries[j], peer) /\ ~MayBind(entries[i], peer)
    BY <1>3, <1>6, <2>1, <2>4 DEF MayBind
  <2> QED BY <2>2, <2>3, <2>4
<1> QED BY <1>1, <1>4, <1>5, <1>7 DEF OutboxInv, Rows, Bounds, Cursors

LEMMA EntryDropped ==
    ASSUME OutboxInv, NEW i \in 1..Len(entries), DropEntry(i), served' \subseteq Peers \X Ids
    PROVE  OutboxInv'
<1>1. /\ entries \in Seq(Entry) /\ Distinct(entries) /\ Away(entries)
      /\ receipts \in Seq(Receipt) /\ entryCursor \in 0..MaxEntries
  BY DEF OutboxInv, Rows, Cursors
<1>2. /\ entries' = RemoveAt(entries, i) /\ UNCHANGED <<receipts, receiptCursor>>
      /\ entryCursor' = RepairedCursor(entryCursor, i - 1, Len(entries) - 1)
  BY DEF DropEntry
<1>3. /\ entries' \in Seq(Entry) /\ Distinct(entries') /\ Away(entries')
      /\ Len(entries') = Len(entries) - 1
  BY <1>1, <1>2, Removing, RemovingKeeps
<1>4. entryCursor' \in 0..MaxEntries
  <2>1. Len(entries) - 1 \in Nat /\ i \in Nat \ {0} /\ MaxEntries \in Nat
    BY <1>1, Sizes
  <2> QED BY <1>1, <1>2, <2>1, Repaired
<1>5. Bounds'
  <2>1. Len(entries) \in Nat /\ Len(receipts) \in Nat /\ Len(entries) # 0
    BY <1>1
  <2>2. Bytes(Len(entries) - 1, Len(receipts)) <= MaxBytes
    BY <2>1, FewerBytes DEF OutboxInv, Bounds
  <2> QED BY <1>2, <1>3, <2>1, <2>2, Sizes DEF OutboxInv, Bounds
<1> QED BY <1>2, <1>3, <1>4, <1>5 DEF OutboxInv, Rows, Cursors

LEMMA EntryRemoved ==
    ASSUME OutboxInv, \/ \E peer \in Peers, id \in Ids : Acknowledge(peer, id)
                      \/ \E i \in DOMAIN entries : RemoveEntry(i)
    PROVE  OutboxInv'
<1>1. entries \in Seq(Entry) /\ served \subseteq Peers \X Ids
  BY DEF OutboxInv, Rows, Cursors
<1>2. CASE \E peer \in Peers, id \in Ids : Acknowledge(peer, id)
  <2>1. PICK peer \in Peers, id \in Ids : Acknowledge(peer, id)
    BY <1>2
  <2>2. IndexOfRow(entries, peer, id) \in 1..Len(entries)
    BY <1>1, <2>1, RowFound DEF Acknowledge
  <2>3. served' \subseteq Peers \X Ids
    BY <1>1, <2>1 DEF Acknowledge, StillWaiting
  <2> QED BY <2>1, <2>2, <2>3, EntryDropped DEF Acknowledge
<1>3. CASE \E i \in DOMAIN entries : RemoveEntry(i)
  <2>1. PICK i \in 1..Len(entries) : RemoveEntry(i)
    BY <1>1, <1>3
  <2>2. served' \subseteq Peers \X Ids
    BY <1>1, <2>1 DEF RemoveEntry, StillWaiting
  <2> QED BY <2>1, <2>2, EntryDropped DEF RemoveEntry
<1> QED BY <1>2, <1>3

LEMMA ReceiptConfirmed ==
    ASSUME OutboxInv, NEW peer \in Peers, NEW id \in Ids, ConfirmReceipt(peer, id)
    PROVE  OutboxInv'
<1> DEFINE i == IndexOfRow(receipts, peer, id)
<1>1. /\ receipts \in Seq(Receipt) /\ Distinct(receipts)
      /\ entries \in Seq(Entry) /\ receiptCursor \in 0..MaxReceipts
  BY DEF OutboxInv, Rows, Cursors
<1>2. i \in 1..Len(receipts)
  BY <1>1, RowFound DEF ConfirmReceipt
<1>3. /\ receipts' = RemoveAt(receipts, i) /\ UNCHANGED <<entries, entryCursor, served>>
      /\ receiptCursor' = RepairedCursor(receiptCursor, i - 1, Len(receipts) - 1)
  BY DEF ConfirmReceipt
<1> HIDE DEF i
<1>4. /\ receipts' \in Seq(Receipt) /\ Distinct(receipts') /\ Len(receipts') = Len(receipts) - 1
  BY <1>1, <1>2, <1>3, Removing, RemovingKeeps
<1>5. receiptCursor' \in 0..MaxReceipts
  <2>1. Len(receipts) - 1 \in Nat /\ i \in Nat \ {0} /\ MaxReceipts \in Nat
    BY <1>1, <1>2, Sizes
  <2> QED BY <1>1, <1>3, <2>1, Repaired
<1>6. Bounds'
  <2>1. Len(entries) \in Nat /\ Len(receipts) \in Nat /\ Len(receipts) # 0
    BY <1>1, <1>2
  <2>2. Bytes(Len(entries), Len(receipts) - 1) <= MaxBytes
    BY <2>1, FewerBytes DEF OutboxInv, Bounds
  <2> QED BY <1>3, <1>4, <2>1, <2>2, Sizes DEF OutboxInv, Bounds
<1> QED BY <1>3, <1>4, <1>5, <1>6 DEF OutboxInv, Rows, Cursors

LEMMA Advanced ==
    ASSUME NEW max \in Nat, NEW total \in 1..max, NEW cursor \in Nat, NEW ready
    PROVE  (cursor + Scanned(cursor, total, ready)) % total \in 0..max
<1> DEFINE looked == {k \in 1..total :
                        Cardinality({j \in 1..k - 1 : ScanAt(cursor, total, j) \in ready}) < Budget}
<1>1. Scanned(cursor, total, ready) \in Nat
  <2>1. looked \in SUBSET (1..total) /\ IsFiniteSet(1..total)
    BY FS_Interval
  <2>2. Scanned(cursor, total, ready) = Cardinality(looked)
    BY DEF Scanned
  <2> HIDE DEF looked
  <2>3. IsFiniteSet(looked)
    BY <2>1, FS_Subset
  <2> QED BY <2>2, <2>3, FS_CardinalityType
<1> HIDE DEF looked
<1> QED BY <1>1

LEMMA Swept ==
    ASSUME OutboxInv, CollectDueEntries \/ CollectDueReceipts
    PROVE  OutboxInv'
<1>1. /\ entries \in Seq(Entry) /\ receipts \in Seq(Receipt)
      /\ Len(entries) <= MaxEntries /\ Len(receipts) <= MaxReceipts
      /\ entryCursor \in Nat /\ receiptCursor \in Nat
  BY DEF OutboxInv, Rows, Bounds, Cursors
<1>2. UNCHANGED <<entries, receipts, served>>
  BY DEF CollectDueEntries, CollectDueReceipts
<1>3. entryCursor' \in 0..MaxEntries /\ receiptCursor' \in 0..MaxReceipts
  <2>1. CASE CollectDueEntries
    <3>1. PICK ready : /\ Len(entries) > 0 /\ UNCHANGED receiptCursor
                       /\ entryCursor' = (entryCursor + Scanned(entryCursor, Len(entries), ready))
                                           % Len(entries)
      BY <2>1 DEF CollectDueEntries
    <3>2. MaxEntries \in Nat /\ Len(entries) \in 1..MaxEntries
      BY <1>1, <3>1, Sizes
    <3> QED BY <1>1, <3>1, <3>2, Advanced DEF OutboxInv, Cursors
  <2>2. CASE CollectDueReceipts
    <3>1. PICK ready : /\ Len(receipts) > 0 /\ UNCHANGED entryCursor
                       /\ receiptCursor' =
                            (receiptCursor + Scanned(receiptCursor, Len(receipts), ready))
                              % Len(receipts)
      BY <2>2 DEF CollectDueReceipts
    <3>2. MaxReceipts \in Nat /\ Len(receipts) \in 1..MaxReceipts
      BY <1>1, <3>1, Sizes
    <3> QED BY <1>1, <3>1, <3>2, Advanced DEF OutboxInv, Cursors
  <2> QED BY <2>1, <2>2
<1> QED BY <1>2, <1>3 DEF OutboxInv, Rows, Bounds, Cursors

\* Steps that change nothing of a row but whether it is due.
LEMMA OnlyDue ==
    ASSUME OutboxInv, UNCHANGED <<entryCursor, receiptCursor, served>>,
           DOMAIN entries' = DOMAIN entries, DOMAIN receipts' = DOMAIN receipts,
           \A i \in DOMAIN entries :
             \E d \in BOOLEAN : entries'[i] = [entries[i] EXCEPT !.due = d],
           \A i \in DOMAIN receipts :
             \E d \in BOOLEAN : receipts'[i] = [receipts[i] EXCEPT !.due = d],
           entries' = [i \in DOMAIN entries |-> entries'[i]],
           receipts' = [i \in DOMAIN receipts |-> receipts'[i]]
    PROVE  OutboxInv'
<1>1. entries \in Seq(Entry) /\ receipts \in Seq(Receipt)
  BY DEF OutboxInv, Rows
<1>2. /\ DOMAIN entries = 1..Len(entries) /\ Len(entries) \in Nat
      /\ DOMAIN receipts = 1..Len(receipts) /\ Len(receipts) \in Nat
  BY <1>1
<1>3. ASSUME NEW i \in 1..Len(entries)
      PROVE  /\ entries'[i] \in Entry /\ entries'[i].id = entries[i].id
             /\ entries'[i].peer = entries[i].peer /\ entries'[i].excluded = entries[i].excluded
  <2>1. entries[i] \in Entry
    BY <1>1
  <2>2. PICK d \in BOOLEAN : entries'[i] = [entries[i] EXCEPT !.due = d]
    BY <1>2
  <2> QED BY <2>1, <2>2 DEF Entry
<1>4. ASSUME NEW i \in 1..Len(receipts)
      PROVE  /\ receipts'[i] \in Receipt /\ receipts'[i].id = receipts[i].id
             /\ receipts'[i].peer = receipts[i].peer
  <2>1. receipts[i] \in Receipt
    BY <1>1
  <2>2. PICK d \in BOOLEAN : receipts'[i] = [receipts[i] EXCEPT !.due = d]
    BY <1>2
  <2> QED BY <2>1, <2>2 DEF Receipt
<1>5. entries' \in Seq(Entry) /\ Len(entries') = Len(entries)
  <2>1. entries' \in [1..Len(entries) -> Entry]
    BY <1>2, <1>3
  <2> QED BY <1>2, <2>1
<1>6. receipts' \in Seq(Receipt) /\ Len(receipts') = Len(receipts)
  <2>1. receipts' \in [1..Len(receipts) -> Receipt]
    BY <1>2, <1>4
  <2> QED BY <1>2, <2>1
<1>7. Distinct(entries') /\ Away(entries') /\ Distinct(receipts')
  BY <1>3, <1>4, <1>5, <1>6 DEF OutboxInv, Rows, Distinct, Away
<1> QED BY <1>5, <1>6, <1>7 DEF OutboxInv, Rows, Bounds, Cursors

LEMMA SameRows ==
    ASSUME OutboxInv
    PROVE  /\ entries = [i \in DOMAIN entries |-> entries[i]]
           /\ receipts = [i \in DOMAIN receipts |-> receipts[i]]
           /\ \A i \in DOMAIN entries :
                \E d \in BOOLEAN : entries[i] = [entries[i] EXCEPT !.due = d]
           /\ \A i \in DOMAIN receipts :
                \E d \in BOOLEAN : receipts[i] = [receipts[i] EXCEPT !.due = d]
<1>1. entries \in Seq(Entry) /\ receipts \in Seq(Receipt)
  BY DEF OutboxInv, Rows
<1>2. \A i \in DOMAIN entries : entries[i] \in Entry
  BY <1>1
<1>3. \A i \in DOMAIN receipts : receipts[i] \in Receipt
  BY <1>1
<1>4. ASSUME NEW e \in Entry PROVE e.due \in BOOLEAN /\ e = [e EXCEPT !.due = e.due]
  BY DEF Entry
<1>5. ASSUME NEW r \in Receipt PROVE r.due \in BOOLEAN /\ r = [r EXCEPT !.due = r.due]
  BY DEF Receipt
<1> QED BY <1>1, <1>2, <1>3, <1>4, <1>5

LEMMA TimePasses ==
    ASSUME OutboxInv, \/ \E i \in DOMAIN entries : EntryElapses(i)
                      \/ \E i \in DOMAIN receipts : ReceiptElapses(i)
                      \/ \E key \in ToSet(page) : Backoff(key)
    PROVE  OutboxInv'
<1>1. UNCHANGED <<entryCursor, receiptCursor, served>>
  BY DEF EntryElapses, ReceiptElapses, Backoff
<1>2. CASE \E i \in DOMAIN entries : EntryElapses(i)
  <2>1. PICK i \in DOMAIN entries :
           /\ entries' = [entries EXCEPT ![i] = [@ EXCEPT !.due = TRUE]] /\ receipts' = receipts
    BY <1>2 DEF EntryElapses
  <2>2. \A k \in DOMAIN entries :
          entries'[k] = IF k = i THEN [entries[k] EXCEPT !.due = TRUE] ELSE entries[k]
    BY <2>1
  <2>3. DOMAIN entries' = DOMAIN entries /\ entries' = [k \in DOMAIN entries |-> entries'[k]]
    BY <2>1
  <2> QED BY <1>1, <2>1, <2>2, <2>3, SameRows, OnlyDue
<1>3. CASE \E i \in DOMAIN receipts : ReceiptElapses(i)
  <2>1. PICK i \in DOMAIN receipts :
           /\ receipts' = [receipts EXCEPT ![i] = [@ EXCEPT !.due = TRUE]] /\ entries' = entries
    BY <1>3 DEF ReceiptElapses
  <2>2. \A k \in DOMAIN receipts :
          receipts'[k] = IF k = i THEN [receipts[k] EXCEPT !.due = TRUE] ELSE receipts[k]
    BY <2>1
  <2>3. DOMAIN receipts' = DOMAIN receipts /\ receipts' = [k \in DOMAIN receipts |-> receipts'[k]]
    BY <2>1
  <2> QED BY <1>1, <2>1, <2>2, <2>3, SameRows, OnlyDue
<1>4. CASE \E key \in ToSet(page) : Backoff(key)
  <2>1. PICK key : Backoff(key)
    BY <1>4
  <2>2. /\ DOMAIN entries' = DOMAIN entries /\ DOMAIN receipts' = DOMAIN receipts
        /\ entries' = [k \in DOMAIN entries |-> entries'[k]]
        /\ receipts' = [k \in DOMAIN receipts |-> receipts'[k]]
    BY <2>1 DEF Backoff
  <2>3. \A k \in DOMAIN entries :
          entries'[k] = [entries[k] EXCEPT !.due = FALSE] \/ entries'[k] = entries[k]
    BY <2>1 DEF Backoff
  <2>4. \A k \in DOMAIN receipts :
          receipts'[k] = [receipts[k] EXCEPT !.due = FALSE] \/ receipts'[k] = receipts[k]
    BY <2>1 DEF Backoff
  <2> QED BY <1>1, <2>2, <2>3, <2>4, SameRows, OnlyDue
<1> QED BY <1>2, <1>3, <1>4

LEMMA OutboxStep == OutboxInv /\ [Next]_vars => OutboxInv'
<1> SUFFICES ASSUME OutboxInv, [Next]_vars PROVE OutboxInv'
  OBVIOUS
<1>1. CASE Restart
  BY <1>1, Sizes DEF Restart, OutboxInv, Rows, Bounds, Cursors
<1>2. CASE UNCHANGED vars
  BY <1>2 DEF vars, OutboxInv, Rows, Bounds, Cursors
<1>3. CASE \E call \in Calls, id \in Ids : PutBatch(call, id)
  BY <1>3, BatchAdmitted
<1>4. CASE \E peer \in Peers : BindUnbound(peer)
  BY <1>4, Bound
<1>5. CASE \E peer \in Peers, id \in Ids : ConfirmReceipt(peer, id)
  BY <1>5, ReceiptConfirmed
<1> QED BY <1>1, <1>2, <1>3, <1>4, <1>5, EntryRemoved, Swept, TimePasses DEF Next

-----------------------------------------------------------------------------
(* The order of a sweep. *)

\* How many rows a sweep from the cursor looks at until it has seen the i-th.
Distance(cursor, total, i) == IF i > cursor THEN i - cursor ELSE i - cursor + total

\* Of two rows the first is ready and comes first in the next sweep.
Ahead(keys, ready, fixed, total, cursor, p) ==
    \E i \in ready, j \in fixed :
        /\ keys[i] = p[1] /\ keys[j] = p[2]
        /\ Distance(cursor, total, i) < Distance(cursor, total, j)

EntryKeys    == [i \in 1..Len(entries) |-> EntryKey(entries[i])]
BoundEntries == {i \in 1..Len(entries) : entries[i].peer # Unbound}
DueEntries   == {i \in 1..Len(entries) : entries[i].due /\ entries[i].peer # Unbound}
ReceiptKeys  == [i \in 1..Len(receipts) |-> ReceiptKey(receipts[i])]
DueReceipts  == {i \in 1..Len(receipts) : receipts[i].due}

EntryAhead(p) == Ahead(EntryKeys, DueEntries, BoundEntries, Len(entries), entryCursor, p)
ReceiptAhead(p) ==
    Ahead(ReceiptKeys, DueReceipts, 1..Len(receipts), Len(receipts), receiptCursor, p)

\* A row that was passed over is ready, and comes in the next sweep before each
\* row that was collected meanwhile.
SweepInv ==
    /\ entryCursor <= Len(entries) /\ receiptCursor <= Len(receipts)
    /\ \A p \in passed : EntryAhead(p) \/ ReceiptAhead(p)

LEMMA Wraps ==
    ASSUME NEW t \in Nat, t > 0, NEW x \in Nat
    PROVE  /\ x < t => x % t = x
           /\ t <= x /\ x < t + t => x % t = x - t
           /\ x = t + t => x % t = 0
<1>1. x < t => x % t = x
  BY Z3
<1>2. t <= x /\ x < t + t => x % t = x - t
  BY Z3
<1>3. x = t + t => x % t = 0
  BY Z3
<1> QED BY <1>1, <1>2, <1>3

\* The k-th row that a sweep looks at is the one at the distance k.
LEMMA ScanDistance ==
    ASSUME NEW t \in Nat, t > 0, NEW c \in 0..t
    PROVE  /\ \A i \in 1..t : Distance(c, t, i) \in 1..t
           /\ \A k \in 1..t : ScanAt(c, t, k) \in 1..t /\ Distance(c, t, ScanAt(c, t, k)) = k
           /\ \A i, j \in 1..t : Distance(c, t, i) = Distance(c, t, j) => i = j
<1>1. \A i \in 1..t : Distance(c, t, i) \in 1..t
  BY DEF Distance
<1>2. ASSUME NEW k \in 1..t
      PROVE  ScanAt(c, t, k) \in 1..t /\ Distance(c, t, ScanAt(c, t, k)) = k
  <2>1. c + k - 1 \in Nat /\ (c + k - 1 < t \/ (t <= c + k - 1 /\ c + k - 1 < t + t))
    OBVIOUS
  <2>2. CASE c + k - 1 < t
    <3>1. ScanAt(c, t, k) = c + k
      BY <2>1, <2>2, Wraps DEF ScanAt
    <3> QED BY <2>2, <3>1 DEF Distance
  <2>3. CASE t <= c + k - 1 /\ c + k - 1 < t + t
    <3>1. (c + k - 1) % t = c + k - 1 - t
      BY <2>1, <2>3, Wraps
    <3>2. ScanAt(c, t, k) = c + k - t
      BY <3>1 DEF ScanAt
    <3> QED BY <2>3, <3>2 DEF Distance
  <2> QED BY <2>1, <2>2, <2>3
<1>3. \A i, j \in 1..t : Distance(c, t, i) = Distance(c, t, j) => i = j
  BY DEF Distance
<1> QED BY <1>1, <1>2, <1>3

\* Where a sweep that looked at n rows leaves the others.
LEMMA SweepDistance ==
    ASSUME NEW t \in Nat, t > 0, NEW c \in 0..t, NEW n \in 0..t, NEW i \in 1..t
    PROVE  /\ (c + n) % t \in 0..t
           /\ Distance((c + n) % t, t, i) = IF Distance(c, t, i) > n THEN Distance(c, t, i) - n
                                            ELSE Distance(c, t, i) - n + t
<1>1. c + n \in Nat /\ (c + n < t \/ (t <= c + n /\ c + n < t + t) \/ c + n = t + t)
  OBVIOUS
<1>2. CASE c + n < t
  <2>1. (c + n) % t = c + n
    BY <1>1, <1>2, Wraps
  <2> QED BY <1>2, <2>1 DEF Distance
<1>3. CASE t <= c + n /\ c + n < t + t
  <2>1. (c + n) % t = c + n - t
    BY <1>1, <1>3, Wraps
  <2> QED BY <1>3, <2>1 DEF Distance
<1>4. CASE c + n = t + t
  <2>1. (c + n) % t = 0
    BY <1>1, <1>4, Wraps
  <2> QED BY <1>4, <2>1 DEF Distance
<1> QED BY <1>1, <1>2, <1>3, <1>4

LEMMA ScannedMost ==
    ASSUME NEW t \in Nat, NEW c, NEW ready
    PROVE  Scanned(c, t, ready) \in 0..t
<1> DEFINE looked == {k \in 1..t : Cardinality({j \in 1..k - 1 : ScanAt(c, t, j) \in ready}) < Budget}
<1>1. IsFiniteSet(1..t) /\ Cardinality(1..t) = t
  <2>1. 1 \in Int /\ t \in Int
    OBVIOUS
  <2>2. IsFiniteSet(1..t) /\ Cardinality(1..t) = IF 1 > t THEN 0 ELSE t - 1 + 1
    BY <2>1, FS_Interval
  <2> QED BY <2>2
<1>2. looked \in SUBSET (1..t)
  OBVIOUS
<1>3. Scanned(c, t, ready) = Cardinality(looked)
  BY DEF Scanned
<1> HIDE DEF looked
<1>4. IsFiniteSet(looked) /\ Cardinality(looked) <= t /\ Cardinality(looked) \in Nat
  BY <1>1, <1>2, FS_Subset, FS_CardinalityType
<1> QED BY <1>3, <1>4

\* What a sweep takes: the ready rows among those it looks at, each once, in
\* the order of their distance.
TakesInOrder(taken, c, t, n, ready) ==
    /\ Len(taken) \in Nat
    /\ \A m \in 1..Len(taken) : taken[m] \in ready /\ Distance(c, t, taken[m]) <= n
    /\ \A i \in ready : Distance(c, t, i) <= n => \E m \in 1..Len(taken) : taken[m] = i
    /\ \A l, m \in 1..Len(taken) : l < m => Distance(c, t, taken[l]) < Distance(c, t, taken[m])

LEMMA TakenInOrder ==
    ASSUME NEW t \in Nat, t > 0, NEW c \in 0..t, NEW ready \in SUBSET (1..t)
    PROVE  /\ Taken(c, t, ready) \in Seq(1..t)
           /\ TakesInOrder(Taken(c, t, ready), c, t, Scanned(c, t, ready), ready)
<1> DEFINE n     == Scanned(c, t, ready)
           hits  == {k \in 1..n : ScanAt(c, t, k) \in ready}
           size  == Cardinality(hits)
           Up(f) == \A i, j \in 1..size : i < j => f[i] < f[j]
           nth   == CHOOSE f \in [1..size -> hits] : Up(f)
           taken == [m \in 1..size |-> ScanAt(c, t, nth[m])]
<1>1. n \in 0..t
  BY ScannedMost
<1>2. Taken(c, t, ready) = taken
  BY DEF Taken
<1> HIDE DEF n
<1>3. hits \in SUBSET Nat /\ IsFiniteSet(hits) /\ size \in Nat
  <2>1. hits \in SUBSET (1..n)
    OBVIOUS
  <2>2. IsFiniteSet(1..n)
    BY <1>1, FS_Interval
  <2>3. IsFiniteSet(hits)
    BY <2>1, <2>2, FS_Subset
  <2> QED BY <1>1, <2>1, <2>3, FS_CardinalityType
<1>4. nth \in [1..size -> hits] /\ Up(nth)
  <2>1. \E f \in [1..size -> hits] : Up(f)
    <3> HIDE DEF hits
    <3> QED BY <1>3, Enumerated
  <2> HIDE DEF Up, hits, size
  <2> QED BY <2>1
<1>5. \A x \in hits : \E i \in 1..size : nth[i] = x
  <2> HIDE DEF hits, nth
  <2> QED BY <1>3, <1>4, EnumerationCovers
<1> HIDE DEF size, nth
<1>6. \A m \in 1..size : nth[m] \in 1..t /\ nth[m] <= n /\ ScanAt(c, t, nth[m]) \in ready
  <2> TAKE m \in 1..size
  <2>1. nth[m] \in 1..n /\ ScanAt(c, t, nth[m]) \in ready
    BY <1>4
  <2> QED BY <1>1, <2>1
<1> HIDE DEF hits
<1>7. \A m \in 1..size : taken[m] = ScanAt(c, t, nth[m]) /\ taken[m] \in 1..t
                         /\ Distance(c, t, taken[m]) = nth[m]
  BY <1>6, ScanDistance
<1>8. taken \in Seq(1..t) /\ Len(taken) = size
  <2>1. taken \in [1..size -> 1..t]
    BY <1>7
  <2> HIDE DEF taken
  <2> QED BY <1>3, <2>1
<1> HIDE DEF taken
<1>9. \A m \in 1..size : taken[m] \in ready /\ Distance(c, t, taken[m]) <= n
  BY <1>6, <1>7
<1>10. ASSUME NEW i \in ready, Distance(c, t, i) <= n PROVE \E m \in 1..size : taken[m] = i
  <2>1. i \in 1..t /\ Distance(c, t, i) \in 1..t /\ Distance(c, t, i) \in 1..n
    BY <1>1, <1>10, ScanDistance
  <2>2. ScanAt(c, t, Distance(c, t, i)) = i
    BY <2>1, ScanDistance
  <2>3. Distance(c, t, i) \in hits
    BY <2>1, <2>2 DEF hits
  <2>4. PICK m \in 1..size : nth[m] = Distance(c, t, i)
    BY <1>5, <2>3
  <2> QED BY <1>7, <2>2, <2>4
<1>11. \A l, m \in 1..size : l < m => Distance(c, t, taken[l]) < Distance(c, t, taken[m])
  BY <1>4, <1>7
<1> QED BY <1>2, <1>3, <1>8, <1>9, <1>10, <1>11 DEF TakesInOrder, n

\* Two rows keep their order when rows are added behind them.
LEMMA AheadGrows ==
    ASSUME NEW t \in Nat, NEW m \in Nat, NEW c \in 0..t,
           NEW ready \in SUBSET (1..t), NEW fixed \in SUBSET (1..t), NEW ready2, NEW fixed2,
           NEW keys, NEW keys2, NEW p, Ahead(keys, ready, fixed, t, c, p),
           \A i \in ready : keys[i] = p[1] => i \in ready2 /\ keys2[i] = p[1],
           \A j \in fixed : keys[j] = p[2] => j \in fixed2 /\ keys2[j] = p[2]
    PROVE  Ahead(keys2, ready2, fixed2, t + m, c, p)
<1>1. PICK i \in ready, j \in fixed : /\ keys[i] = p[1] /\ keys[j] = p[2]
                                     /\ Distance(c, t, i) < Distance(c, t, j)
  BY DEF Ahead
<1>2. i \in 1..t /\ j \in 1..t
  OBVIOUS
<1>3. Distance(c, t + m, i) < Distance(c, t + m, j)
  BY <1>1, <1>2 DEF Distance
<1> QED BY <1>1, <1>3 DEF Ahead

\* They keep it when another row is removed and the cursor is repaired.
LEMMA AheadCloses ==
    ASSUME NEW t \in Nat, NEW c \in 0..t, NEW r \in 1..t,
           NEW ready \in SUBSET (1..t), NEW fixed \in SUBSET (1..t), NEW ready2, NEW fixed2,
           NEW keys, NEW keys2, NEW p, Ahead(keys, ready, fixed, t, c, p),
           keys[r] # p[1], keys[r] # p[2],
           \A i \in ready : i < r /\ keys[i] = p[1] => i \in ready2 /\ keys2[i] = p[1],
           \A i \in ready : i > r /\ keys[i] = p[1] => i - 1 \in ready2 /\ keys2[i - 1] = p[1],
           \A j \in fixed : j < r /\ keys[j] = p[2] => j \in fixed2 /\ keys2[j] = p[2],
           \A j \in fixed : j > r /\ keys[j] = p[2] => j - 1 \in fixed2 /\ keys2[j - 1] = p[2]
    PROVE  Ahead(keys2, ready2, fixed2, t - 1, RepairedCursor(c, r - 1, t - 1), p)
<1> DEFINE d    == RepairedCursor(c, r - 1, t - 1)
           x(i) == IF i < r THEN i ELSE i - 1
<1>1. PICK i \in ready, j \in fixed : /\ keys[i] = p[1] /\ keys[j] = p[2]
                                     /\ Distance(c, t, i) < Distance(c, t, j)
  BY DEF Ahead
<1>2. i \in 1..t /\ j \in 1..t /\ i # r /\ j # r
  BY <1>1
<1>3. x(i) \in ready2 /\ keys2[x(i)] = p[1] /\ x(j) \in fixed2 /\ keys2[x(j)] = p[2]
  <2>1. (i < r \/ i > r) /\ (j < r \/ j > r)
    BY <1>2
  <2> QED BY <1>1, <1>2, <2>1
<1>4. Distance(d, t - 1, x(i)) < Distance(d, t - 1, x(j))
  <2>1. d = IF r - 1 < c THEN c - 1 ELSE c
    BY <1>2 DEF RepairedCursor
  <2> HIDE DEF d
  <2> QED BY <1>1, <1>2, <2>1 DEF Distance
<1> HIDE DEF d, x
<1> QED BY <1>3, <1>4 DEF Ahead, d

\* The rows of a sweep, by their keys.
KeysOf(keys, taken) == [k \in DOMAIN taken |-> keys[taken[k]]]

\* A sweep that takes the second of two rows takes the first before it.
FirstOnPage(keys, taken, p) ==
    \A k \in 1..Len(taken) : keys[taken[k]] = p[2] => \E l \in 1..k - 1 : keys[taken[l]] = p[1]

\* A sweep collects every ready row that is ahead of one it collects, and before it.
LEMMA AheadFirst ==
    ASSUME NEW t \in Nat, t > 0, NEW c \in 0..t,
           NEW ready \in SUBSET (1..t), NEW fixed \in SUBSET (1..t),
           NEW keys, \A i, j \in 1..t : keys[i] = keys[j] => i = j,
           NEW p, Ahead(keys, ready, fixed, t, c, p)
    PROVE  FirstOnPage(keys, Taken(c, t, ready), p)
<1> SUFFICES ASSUME NEW k \in 1..Len(Taken(c, t, ready)), keys[Taken(c, t, ready)[k]] = p[2]
             PROVE  \E l \in 1..k - 1 : keys[Taken(c, t, ready)[l]] = p[1]
  BY DEF FirstOnPage
<1> DEFINE n == Scanned(c, t, ready)
           taken == Taken(c, t, ready)
<1>1. taken \in Seq(1..t) /\ TakesInOrder(taken, c, t, n, ready)
  BY TakenInOrder
<1>2. PICK i \in ready, j \in fixed : /\ keys[i] = p[1] /\ keys[j] = p[2]
                                     /\ Distance(c, t, i) < Distance(c, t, j)
  BY DEF Ahead
<1>3. n \in Nat /\ \A x \in 1..t : Distance(c, t, x) \in Nat
  <2>1. n \in 0..t
    BY ScannedMost
  <2>2. \A x \in 1..t : Distance(c, t, x) \in 1..t
    BY ScanDistance
  <2> HIDE DEF n
  <2>3. n \in Nat
    BY <2>1
  <2>4. ASSUME NEW x \in 1..t PROVE Distance(c, t, x) \in Nat
    <3>1. Distance(c, t, x) \in 1..t
      BY <2>2
    <3> QED BY <3>1
  <2> QED BY <2>3, <2>4
<1> HIDE DEF n, taken
<1>4. k \in 1..Len(taken) /\ keys[taken[k]] = p[2] /\ Len(taken) \in Nat
  BY <1>1 DEF taken
<1>5. taken[k] \in 1..t /\ i \in 1..t /\ j \in 1..t
  BY <1>1, <1>4
<1>6. taken[k] = j
  BY <1>2, <1>4, <1>5
<1>7. Distance(c, t, j) <= n
  BY <1>1, <1>4, <1>6 DEF TakesInOrder
<1>8. Distance(c, t, i) <= n
  BY <1>2, <1>3, <1>5, <1>7
<1>9. PICK l \in 1..Len(taken) : taken[l] = i
  BY <1>1, <1>2, <1>8 DEF TakesInOrder
<1>10. ~(k < l) /\ k # l
  <2>1. ~(Distance(c, t, j) < Distance(c, t, i)) /\ j # i
    BY <1>2, <1>3, <1>5
  <2>2. k < l => Distance(c, t, taken[k]) < Distance(c, t, taken[l])
    BY <1>1, <1>4 DEF TakesInOrder
  <2> QED BY <1>6, <1>9, <2>1, <2>2
<1>11. l \in 1..k - 1
  BY <1>4, <1>10
<1> QED BY <1>2, <1>9, <1>11 DEF taken

\* After a sweep, a row that was ready and was passed over, or was collected
\* earlier than another, is ahead of it.
LEMMA AheadSwept ==
    ASSUME NEW t \in Nat, t > 0, NEW c \in 0..t,
           NEW fixed \in SUBSET (1..t), NEW ready \in SUBSET fixed,
           NEW keys, \A i, j \in 1..t : keys[i] = keys[j] => i = j,
           NEW p \in PassedAfter(KeysOf(keys, Taken(c, t, ready)), {keys[i] : i \in ready}),
           p \in passed => Ahead(keys, ready, fixed, t, c, p)
    PROVE  Ahead(keys, ready, fixed, t, (c + Scanned(c, t, ready)) % t, p)
<1> DEFINE n     == Scanned(c, t, ready)
           taken == Taken(c, t, ready)
           d     == (c + n) % t
           rows  == KeysOf(keys, taken)
<1>1. taken \in Seq(1..t) /\ TakesInOrder(taken, c, t, n, ready) /\ n \in 0..t
  BY TakenInOrder, ScannedMost
<1> HIDE DEF n, taken
<1>2. /\ \A i \in 1..t : Distance(d, t, i) = IF Distance(c, t, i) > n THEN Distance(c, t, i) - n
                                             ELSE Distance(c, t, i) - n + t
      /\ \A i \in 1..t : Distance(c, t, i) \in 1..t
  <2>1. \A i \in 1..t : Distance(c, t, i) \in 1..t
    BY ScanDistance
  <2>2. ASSUME NEW i \in 1..t
        PROVE  Distance(d, t, i) = IF Distance(c, t, i) > n THEN Distance(c, t, i) - n
                                   ELSE Distance(c, t, i) - n + t
    BY <1>1, SweepDistance
  <2> QED BY <2>1, <2>2
<1> HIDE DEF d
<1> DEFINE Near(i) == Distance(c, t, i)
           Far(i)  == Distance(d, t, i)
<1>3. ASSUME NEW i \in 1..t, NEW j \in 1..t,
             \/ ~(Near(i) <= n) /\ Near(i) < Near(j)
             \/ ~(Near(i) <= n) /\ Near(j) <= n
             \/ Near(i) < Near(j) /\ Near(j) <= n
      PROVE  Far(i) < Far(j)
  <2>1. /\ Near(i) \in 1..t /\ Near(j) \in 1..t
        /\ Far(i) = IF Near(i) > n THEN Near(i) - n ELSE Near(i) - n + t
        /\ Far(j) = IF Near(j) > n THEN Near(j) - n ELSE Near(j) - n + t
    BY <1>2
  <2> HIDE DEF Near, Far
  <2>2. n \in 0..t
    BY <1>1
  <2> QED BY <1>3, <2>1, <2>2
<1>4. /\ DOMAIN taken = 1..Len(taken) /\ DOMAIN rows = 1..Len(taken)
      /\ \A m \in 1..Len(taken) : taken[m] \in ready /\ taken[m] \in 1..t
                                  /\ rows[m] = keys[taken[m]] /\ Distance(c, t, taken[m]) <= n
  BY <1>1 DEF KeysOf, TakesInOrder
<1>5. \A i \in ready : Distance(c, t, i) <= n => keys[i] \in ToSet(rows)
  <2> TAKE i \in ready
  <2> HAVE Distance(c, t, i) <= n
  <2>1. PICK m \in 1..Len(taken) : taken[m] = i
    BY <1>1 DEF TakesInOrder
  <2> QED BY <1>4, <2>1 DEF ToSet
<1> HIDE DEF rows
<1>6. \/ p \in passed /\ p[1] \notin ToSet(rows)
      \/ /\ p \in {keys[i] : i \in ready} \X ToSet(rows) /\ p[1] # p[2]
         /\ LET at(key) == CHOOSE k \in DOMAIN rows : rows[k] = key
            IN  p[1] \in ToSet(rows) => at(p[1]) < at(p[2])
  BY DEF PassedAfter, rows, taken
<1>7. CASE p \in passed /\ p[1] \notin ToSet(rows)
  <2>1. PICK i \in ready, j \in fixed : /\ keys[i] = p[1] /\ keys[j] = p[2]
                                       /\ Distance(c, t, i) < Distance(c, t, j)
    BY <1>7 DEF Ahead
  <2>2. i \in 1..t /\ j \in 1..t /\ ~(Distance(c, t, i) <= n)
    BY <1>5, <1>7, <2>1
  <2>3. Distance(d, t, i) < Distance(d, t, j)
    BY <1>3, <2>1, <2>2
  <2> QED BY <2>1, <2>3 DEF Ahead, d, n
<1>8. CASE /\ p \in {keys[i] : i \in ready} \X ToSet(rows) /\ p[1] # p[2]
           /\ LET at(key) == CHOOSE k \in DOMAIN rows : rows[k] = key
              IN  p[1] \in ToSet(rows) => at(p[1]) < at(p[2])
  <2> DEFINE at(key) == CHOOSE k \in DOMAIN rows : rows[k] = key
  <2>1. PICK i \in ready : p[1] = keys[i]
    BY <1>8
  <2>2. \A k \in 1..Len(taken) : at(rows[k]) = k
    <3> TAKE k \in 1..Len(taken)
    <3>1. at(rows[k]) \in 1..Len(taken) /\ rows[at(rows[k])] = rows[k]
      BY <1>4
    <3> DEFINE a == at(rows[k])
    <3> HIDE DEF at
    <3>2. taken[a] = taken[k]
      BY <1>4, <3>1
    <3> HIDE DEF a
    <3>3. ~(a < k) /\ ~(k < a) /\ a \in Nat /\ k \in Nat
      <4>1. a \in 1..Len(taken) /\ Distance(c, t, taken[k]) \in Nat
        BY <1>2, <1>4, <3>1 DEF a
      <4> QED BY <1>1, <3>2, <4>1 DEF TakesInOrder
    <3> QED BY <3>3 DEF a
  <2>3. PICK m \in 1..Len(taken) : p[2] = rows[m]
    BY <1>4, <1>8 DEF ToSet
  <2>4. i \in 1..t /\ taken[m] \in 1..t /\ taken[m] \in fixed /\ keys[taken[m]] = p[2]
        /\ Distance(c, t, taken[m]) <= n
    BY <1>4, <2>3
  <2>5. CASE ~(Distance(c, t, i) <= n)
    <3>1. Distance(d, t, i) < Distance(d, t, taken[m])
      BY <1>3, <2>4, <2>5
    <3> QED BY <2>1, <2>4, <3>1 DEF Ahead, d, n
  <2>6. CASE Distance(c, t, i) <= n
    <3>1. PICK l \in 1..Len(taken) : taken[l] = i
      BY <1>1, <2>6 DEF TakesInOrder
    <3>2. p[1] = rows[l] /\ p[1] \in ToSet(rows)
      BY <1>4, <2>1, <3>1 DEF ToSet
    <3>3. at(p[1]) < at(p[2])
      BY <1>8, <3>2
    <3>4. at(p[1]) = l /\ at(p[2]) = m
      BY <2>2, <2>3, <3>2
    <3> HIDE DEF at
    <3>5. Distance(c, t, i) < Distance(c, t, taken[m])
      BY <1>1, <3>1, <3>3, <3>4 DEF TakesInOrder
    <3>6. Distance(d, t, i) < Distance(d, t, taken[m])
      BY <1>3, <2>4, <3>5
    <3> QED BY <2>1, <2>4, <3>6 DEF Ahead, d, n
  <2> QED BY <2>5, <2>6
<1> QED BY <1>6, <1>7, <1>8

-----------------------------------------------------------------------------
(* The order of the rows, operation by operation. *)

LEMMA ListsKnown ==
    ASSUME OutboxInv, SweepInv
    PROVE  /\ entries \in Seq(Entry) /\ Len(entries) \in Nat /\ DOMAIN entries = 1..Len(entries)
           /\ receipts \in Seq(Receipt) /\ Len(receipts) \in Nat
           /\ DOMAIN receipts = 1..Len(receipts)
           /\ BoundEntries \in SUBSET (1..Len(entries)) /\ DueEntries \in SUBSET BoundEntries
           /\ DueReceipts \in SUBSET (1..Len(receipts))
           /\ \A i \in 1..Len(entries) : EntryKeys[i] = EntryKey(entries[i])
           /\ \A i \in 1..Len(receipts) : ReceiptKeys[i] = ReceiptKey(receipts[i])
           /\ entryCursor \in 0..Len(entries) /\ receiptCursor \in 0..Len(receipts)
<1>1. /\ entries \in Seq(Entry) /\ Len(entries) \in Nat /\ DOMAIN entries = 1..Len(entries)
      /\ receipts \in Seq(Receipt) /\ Len(receipts) \in Nat
      /\ DOMAIN receipts = 1..Len(receipts)
  BY DEF OutboxInv, Rows
<1>2. /\ BoundEntries \in SUBSET (1..Len(entries)) /\ DueEntries \in SUBSET BoundEntries
      /\ DueReceipts \in SUBSET (1..Len(receipts))
  BY DEF BoundEntries, DueEntries, DueReceipts
<1>3. /\ \A i \in 1..Len(entries) : EntryKeys[i] = EntryKey(entries[i])
      /\ \A i \in 1..Len(receipts) : ReceiptKeys[i] = ReceiptKey(receipts[i])
  BY DEF EntryKeys, ReceiptKeys
<1>4. entryCursor \in 0..Len(entries) /\ receiptCursor \in 0..Len(receipts)
  <2>1. entryCursor \in Nat /\ receiptCursor \in Nat
    BY Sizes DEF OutboxInv, Cursors
  <2> QED BY <1>1, <2>1 DEF SweepInv
<1> QED BY <1>1, <1>2, <1>3, <1>4

\* Keys tell rows apart.
LEMMA KeysDiffer ==
    ASSUME OutboxInv
    PROVE  /\ \A i, j \in 1..Len(entries) : EntryKeys[i] = EntryKeys[j] => i = j
           /\ \A i, j \in 1..Len(receipts) : ReceiptKeys[i] = ReceiptKeys[j] => i = j
<1>1. ASSUME NEW i \in 1..Len(entries), NEW j \in 1..Len(entries), EntryKeys[i] = EntryKeys[j]
      PROVE  i = j
  <2>1. EntryKey(entries[i]) = EntryKey(entries[j])
    BY <1>1 DEF EntryKeys
  <2>2. entries[i].peer = entries[j].peer /\ entries[i].id = entries[j].id
    BY <2>1 DEF EntryKey
  <2> QED BY <2>2 DEF OutboxInv, Rows, Distinct
<1>2. ASSUME NEW i \in 1..Len(receipts), NEW j \in 1..Len(receipts),
             ReceiptKeys[i] = ReceiptKeys[j]
      PROVE  i = j
  <2>1. ReceiptKey(receipts[i]) = ReceiptKey(receipts[j])
    BY <1>2 DEF ReceiptKeys
  <2>2. receipts[i].peer = receipts[j].peer /\ receipts[i].id = receipts[j].id
    BY <2>1 DEF ReceiptKey
  <2> QED BY <2>2 DEF OutboxInv, Rows, Distinct
<1> QED BY <1>1, <1>2

LEMMA EntriesGrow ==
    ASSUME OutboxInv, SweepInv, NEW p, EntryAhead(p), entryCursor' = entryCursor,
           Len(entries') \in Nat, Len(entries) <= Len(entries'),
           \A i \in 1..Len(entries) : EntryKeys[i] \in {p[1], p[2]} /\ entries[i].peer # Unbound =>
             entries'[i].peer = entries[i].peer /\ entries'[i].id = entries[i].id,
           \A i \in 1..Len(entries) :
             EntryKeys[i] = p[1] /\ entries[i].peer # Unbound /\ entries[i].due => entries'[i].due
    PROVE  EntryAhead(p)'
<1> DEFINE t == Len(entries)
           m == Len(entries') - t
<1>1. /\ t \in Nat /\ m \in Nat /\ Len(entries') = t + m /\ entryCursor \in 0..t
      /\ BoundEntries \in SUBSET (1..t) /\ DueEntries \in SUBSET (1..t)
      /\ \A i \in 1..t : i \in 1..Len(entries')
  BY ListsKnown
<1>2. \A i \in 1..t : EntryKeys[i] \in {p[1], p[2]} /\ entries[i].peer # Unbound =>
        /\ EntryKeys'[i] = EntryKeys[i]
        /\ i \in BoundEntries'
        /\ (EntryKeys[i] = p[1] /\ i \in DueEntries => i \in DueEntries')
  BY <1>1 DEF EntryKeys, BoundEntries, DueEntries, EntryKey
<1>3. /\ \A i \in DueEntries : i \in 1..t /\ entries[i].peer # Unbound
      /\ \A i \in BoundEntries : i \in 1..t /\ entries[i].peer # Unbound
  BY DEF DueEntries, BoundEntries
<1>4. /\ \A i \in DueEntries : EntryKeys[i] = p[1] => i \in DueEntries' /\ EntryKeys'[i] = p[1]
      /\ \A j \in BoundEntries : EntryKeys[j] = p[2] => j \in BoundEntries' /\ EntryKeys'[j] = p[2]
  BY <1>2, <1>3
<1>5. Ahead(EntryKeys, DueEntries, BoundEntries, t, entryCursor, p)
  BY DEF EntryAhead
<1> HIDE DEF t, m
<1>6. Ahead(EntryKeys', DueEntries', BoundEntries', t + m, entryCursor, p)
  BY <1>1, <1>4, <1>5, AheadGrows
<1> QED BY <1>1, <1>6 DEF EntryAhead

LEMMA ReceiptsGrow ==
    ASSUME OutboxInv, SweepInv, NEW p, ReceiptAhead(p), receiptCursor' = receiptCursor,
           Len(receipts') \in Nat, Len(receipts) <= Len(receipts'),
           \A i \in 1..Len(receipts) : receipts'[i].peer = receipts[i].peer
                                       /\ receipts'[i].id = receipts[i].id,
           \A i \in 1..Len(receipts) :
             ReceiptKeys[i] = p[1] /\ receipts[i].due => receipts'[i].due
    PROVE  ReceiptAhead(p)'
<1> DEFINE t == Len(receipts)
           m == Len(receipts') - t
<1>1. /\ t \in Nat /\ m \in Nat /\ Len(receipts') = t + m /\ receiptCursor \in 0..t
      /\ 1..t \in SUBSET (1..t) /\ DueReceipts \in SUBSET (1..t)
      /\ \A i \in 1..t : i \in 1..Len(receipts')
  BY ListsKnown
<1>2. \A i \in 1..t : /\ ReceiptKeys'[i] = ReceiptKeys[i]
                      /\ (ReceiptKeys[i] = p[1] /\ i \in DueReceipts => i \in DueReceipts')
  BY <1>1 DEF ReceiptKeys, DueReceipts, ReceiptKey
<1>4. /\ \A i \in DueReceipts : ReceiptKeys[i] = p[1] => i \in DueReceipts' /\ ReceiptKeys'[i] = p[1]
      /\ \A j \in 1..t : ReceiptKeys[j] = p[2] => j \in 1..Len(receipts') /\ ReceiptKeys'[j] = p[2]
  BY <1>1, <1>2
<1>5. Ahead(ReceiptKeys, DueReceipts, 1..t, t, receiptCursor, p)
  BY DEF ReceiptAhead
<1> HIDE DEF t, m
<1>6. Ahead(ReceiptKeys', DueReceipts', 1..Len(receipts'), t + m, receiptCursor, p)
  BY <1>1, <1>4, <1>5, AheadGrows
<1> QED BY <1>1, <1>6 DEF ReceiptAhead

LEMMA EntriesClose ==
    ASSUME OutboxInv, SweepInv, NEW r \in 1..Len(entries), entries' = RemoveAt(entries, r),
           entryCursor' = RepairedCursor(entryCursor, r - 1, Len(entries) - 1)
    PROVE  /\ entryCursor' <= Len(entries')
           /\ \A p : EntryAhead(p) /\ EntryKey(entries[r]) \notin {p[1], p[2]} => EntryAhead(p)'
<1> DEFINE t == Len(entries)
<1>1. /\ t \in Nat /\ entryCursor \in 0..t /\ r \in 1..t
      /\ BoundEntries \in SUBSET (1..t) /\ DueEntries \in SUBSET (1..t)
      /\ EntryKeys[r] = EntryKey(entries[r])
  BY ListsKnown
<1>2. /\ entries' \in Seq(Entry) /\ Len(entries') = t - 1
      /\ \A k \in 1..(t - 1) : entries'[k] = entries[IF k < r THEN k ELSE k + 1]
  BY ListsKnown, Removing
<1>3. entryCursor' <= t - 1
  BY <1>1 DEF RepairedCursor
<1>4. \A i \in 1..t : i < r => i \in 1..(t - 1) /\ entries'[i] = entries[i]
  BY <1>1, <1>2
<1>5. \A i \in 1..t : i > r => i - 1 \in 1..(t - 1) /\ entries'[i - 1] = entries[i]
  <2> TAKE i \in 1..t
  <2> HAVE i > r
  <2>1. i - 1 \in 1..(t - 1) /\ ~(i - 1 < r) /\ (i - 1) + 1 = i
    BY <1>1
  <2> QED BY <1>2, <2>1
<1>6. /\ \A i \in 1..t : i < r => EntryKeys'[i] = EntryKeys[i]
      /\ \A i \in 1..t : i < r /\ i \in DueEntries => i \in DueEntries'
      /\ \A i \in 1..t : i < r /\ i \in BoundEntries => i \in BoundEntries'
  BY <1>2, <1>4 DEF EntryKeys, DueEntries, BoundEntries
<1>7. /\ \A i \in 1..t : i > r => EntryKeys'[i - 1] = EntryKeys[i]
      /\ \A i \in 1..t : i > r /\ i \in DueEntries => i - 1 \in DueEntries'
      /\ \A i \in 1..t : i > r /\ i \in BoundEntries => i - 1 \in BoundEntries'
  BY <1>2, <1>5 DEF EntryKeys, DueEntries, BoundEntries
<1> HIDE DEF t
<1>8. ASSUME NEW p, EntryAhead(p), EntryKey(entries[r]) \notin {p[1], p[2]}
      PROVE  EntryAhead(p)'
  <2>1. Ahead(EntryKeys, DueEntries, BoundEntries, t, entryCursor, p)
    BY <1>8 DEF EntryAhead, t
  <2>2. EntryKeys[r] # p[1] /\ EntryKeys[r] # p[2]
    BY <1>1, <1>8
  <2>3. /\ \A i \in DueEntries : i < r /\ EntryKeys[i] = p[1] =>
             i \in DueEntries' /\ EntryKeys'[i] = p[1]
        /\ \A i \in DueEntries : i > r /\ EntryKeys[i] = p[1] =>
             i - 1 \in DueEntries' /\ EntryKeys'[i - 1] = p[1]
        /\ \A j \in BoundEntries : j < r /\ EntryKeys[j] = p[2] =>
             j \in BoundEntries' /\ EntryKeys'[j] = p[2]
        /\ \A j \in BoundEntries : j > r /\ EntryKeys[j] = p[2] =>
             j - 1 \in BoundEntries' /\ EntryKeys'[j - 1] = p[2]
    BY <1>1, <1>6, <1>7
  <2>4. Ahead(EntryKeys', DueEntries', BoundEntries', t - 1, 
              RepairedCursor(entryCursor, r - 1, t - 1), p)
    BY <1>1, <2>1, <2>2, <2>3, AheadCloses
  <2> QED BY <1>2, <2>4 DEF EntryAhead, t
<1> QED BY <1>2, <1>3, <1>8

LEMMA ReceiptsClose ==
    ASSUME OutboxInv, SweepInv, NEW r \in 1..Len(receipts), receipts' = RemoveAt(receipts, r),
           receiptCursor' = RepairedCursor(receiptCursor, r - 1, Len(receipts) - 1)
    PROVE  /\ receiptCursor' <= Len(receipts')
           /\ \A p : ReceiptAhead(p) /\ ReceiptKey(receipts[r]) \notin {p[1], p[2]}
                       => ReceiptAhead(p)'
<1> DEFINE t == Len(receipts)
<1>1. /\ t \in Nat /\ receiptCursor \in 0..t /\ r \in 1..t
      /\ 1..t \in SUBSET (1..t) /\ DueReceipts \in SUBSET (1..t)
      /\ ReceiptKeys[r] = ReceiptKey(receipts[r])
  BY ListsKnown
<1>2. /\ receipts' \in Seq(Receipt) /\ Len(receipts') = t - 1
      /\ \A k \in 1..(t - 1) : receipts'[k] = receipts[IF k < r THEN k ELSE k + 1]
  BY ListsKnown, Removing
<1>3. receiptCursor' <= t - 1
  BY <1>1 DEF RepairedCursor
<1>4. \A i \in 1..t : i < r => i \in 1..(t - 1) /\ receipts'[i] = receipts[i]
  BY <1>1, <1>2
<1>5. \A i \in 1..t : i > r => i - 1 \in 1..(t - 1) /\ receipts'[i - 1] = receipts[i]
  <2> TAKE i \in 1..t
  <2> HAVE i > r
  <2>1. i - 1 \in 1..(t - 1) /\ ~(i - 1 < r) /\ (i - 1) + 1 = i
    BY <1>1
  <2> QED BY <1>2, <2>1
<1>6. /\ \A i \in 1..t : i < r => ReceiptKeys'[i] = ReceiptKeys[i]
      /\ \A i \in 1..t : i < r /\ i \in DueReceipts => i \in DueReceipts'
  BY <1>2, <1>4 DEF ReceiptKeys, DueReceipts
<1>7. /\ \A i \in 1..t : i > r => ReceiptKeys'[i - 1] = ReceiptKeys[i]
      /\ \A i \in 1..t : i > r /\ i \in DueReceipts => i - 1 \in DueReceipts'
  BY <1>2, <1>5 DEF ReceiptKeys, DueReceipts
<1> HIDE DEF t
<1>8. ASSUME NEW p, ReceiptAhead(p), ReceiptKey(receipts[r]) \notin {p[1], p[2]}
      PROVE  ReceiptAhead(p)'
  <2>1. Ahead(ReceiptKeys, DueReceipts, 1..t, t, receiptCursor, p)
    BY <1>8 DEF ReceiptAhead, t
  <2>2. ReceiptKeys[r] # p[1] /\ ReceiptKeys[r] # p[2]
    BY <1>1, <1>8
  <2>3. /\ \A i \in DueReceipts : i < r /\ ReceiptKeys[i] = p[1] =>
             i \in DueReceipts' /\ ReceiptKeys'[i] = p[1]
        /\ \A i \in DueReceipts : i > r /\ ReceiptKeys[i] = p[1] =>
             i - 1 \in DueReceipts' /\ ReceiptKeys'[i - 1] = p[1]
        /\ \A j \in 1..t : j < r /\ ReceiptKeys[j] = p[2] =>
             j \in 1..(t - 1) /\ ReceiptKeys'[j] = p[2]
        /\ \A j \in 1..t : j > r /\ ReceiptKeys[j] = p[2] =>
             j - 1 \in 1..(t - 1) /\ ReceiptKeys'[j - 1] = p[2]
    BY <1>1, <1>4, <1>5, <1>6, <1>7
  <2>4. Ahead(ReceiptKeys', DueReceipts', 1..(t - 1), t - 1,
              RepairedCursor(receiptCursor, r - 1, t - 1), p)
    BY <1>1, <2>1, <2>2, <2>3, AheadCloses
  <2> QED BY <1>2, <2>4 DEF ReceiptAhead, t
<1> QED BY <1>2, <1>3, <1>8

\* Rows of one kind are not among those of the other.
LEMMA KindsDiffer ==
    ASSUME OutboxInv, SweepInv, NEW p
    PROVE  /\ EntryAhead(p) => p[1][1] = "entry" /\ p[2][1] = "entry"
           /\ ReceiptAhead(p) => p[1][1] = "receipt" /\ p[2][1] = "receipt"
           /\ \A e : EntryKey(e)[1] = "entry" /\ ReceiptKey(e)[1] = "receipt"
<1>1. \A e : EntryKey(e)[1] = "entry" /\ ReceiptKey(e)[1] = "receipt"
  BY DEF EntryKey, ReceiptKey
<1>2. ASSUME EntryAhead(p) PROVE p[1][1] = "entry" /\ p[2][1] = "entry"
  <2>1. PICK i \in DueEntries, j \in BoundEntries : EntryKeys[i] = p[1] /\ EntryKeys[j] = p[2]
    BY <1>2 DEF EntryAhead, Ahead
  <2>2. p[1] = EntryKey(entries[i]) /\ p[2] = EntryKey(entries[j])
    BY <2>1, ListsKnown
  <2> QED BY <1>1, <2>2
<1>3. ASSUME ReceiptAhead(p) PROVE p[1][1] = "receipt" /\ p[2][1] = "receipt"
  <2>1. PICK i \in DueReceipts, j \in 1..Len(receipts) :
               ReceiptKeys[i] = p[1] /\ ReceiptKeys[j] = p[2]
    BY <1>3 DEF ReceiptAhead, Ahead
  <2>2. p[1] = ReceiptKey(receipts[i]) /\ p[2] = ReceiptKey(receipts[j])
    BY <2>1, ListsKnown
  <2> QED BY <1>1, <2>2
<1> QED BY <1>1, <1>2, <1>3

LEMMA EntriesSwept ==
    ASSUME OutboxInv, SweepInv, CollectDueEntries
    PROVE  /\ SweepInv'
           /\ \A p \in passed, k \in DOMAIN page' : p[2] = page'[k] =>
                \E j \in 1..k - 1 : page'[j] = p[1]
<1> DEFINE t     == Len(entries)
           taken == Taken(entryCursor, t, DueEntries)
<1>1. /\ t \in Nat /\ t > 0 /\ entryCursor \in 0..t
      /\ BoundEntries \in SUBSET (1..t) /\ DueEntries \in SUBSET BoundEntries
      /\ DueEntries \in SUBSET (1..t)
      /\ \A i \in 1..t : EntryKeys[i] = EntryKey(entries[i])
      /\ \A i, j \in 1..t : EntryKeys[i] = EntryKeys[j] => i = j
  BY ListsKnown, KeysDiffer DEF CollectDueEntries
<1>2. taken \in Seq(1..t) /\ DOMAIN taken = 1..Len(taken)
  BY <1>1, TakenInOrder
<1>3. DueEntries = {i \in DOMAIN entries : entries[i].due /\ entries[i].peer # Unbound}
  BY ListsKnown DEF DueEntries
<1>4. /\ entryCursor' = (entryCursor + Scanned(entryCursor, t, DueEntries)) % t
      /\ page' = [k \in DOMAIN taken |-> EntryKey(entries[taken[k]])]
      /\ passed' = PassedAfter([k \in DOMAIN taken |-> EntryKey(entries[taken[k]])],
                               {EntryKey(entries[i]) : i \in DueEntries})
      /\ UNCHANGED <<entries, receipts, receiptCursor, served>>
  BY <1>3 DEF CollectDueEntries
<1> HIDE DEF taken, t
<1>5. [k \in DOMAIN taken |-> EntryKey(entries[taken[k]])] = KeysOf(EntryKeys, taken)
  BY <1>1, <1>2 DEF KeysOf
<1>6. {EntryKey(entries[i]) : i \in DueEntries} = {EntryKeys[i] : i \in DueEntries}
  BY <1>1
<1>7. page' = KeysOf(EntryKeys, taken)
      /\ passed' = PassedAfter(KeysOf(EntryKeys, taken), {EntryKeys[i] : i \in DueEntries})
  BY <1>4, <1>5, <1>6
<1>8. /\ UNCHANGED <<EntryKeys, DueEntries, BoundEntries, ReceiptKeys, DueReceipts>>
      /\ Len(entries') = t
  BY <1>4 DEF EntryKeys, DueEntries, BoundEntries, ReceiptKeys, DueReceipts, t
<1>9. entryCursor' <= Len(entries') /\ receiptCursor' <= Len(receipts')
  <2>1. Scanned(entryCursor, t, DueEntries) \in 0..t
    BY <1>1, ScannedMost
  <2>2. (entryCursor + Scanned(entryCursor, t, DueEntries)) % t \in 0..t
    <3>1. 1 \in 1..t
      BY <1>1
    <3> QED BY <1>1, <2>1, <3>1, SweepDistance
  <2> QED BY <1>1, <1>4, <1>8, <2>2 DEF SweepInv
<1>10. ASSUME NEW p \in passed' PROVE EntryAhead(p)' \/ ReceiptAhead(p)'
  <2>1. CASE p \in passed /\ ReceiptAhead(p)
    BY <1>4, <1>8, <2>1 DEF ReceiptAhead
  <2>2. CASE p \in passed => EntryAhead(p)
    <3>1. p \in passed => Ahead(EntryKeys, DueEntries, BoundEntries, t, entryCursor, p)
      BY <2>2 DEF EntryAhead, t
    <3>2. p \in PassedAfter(KeysOf(EntryKeys, Taken(entryCursor, t, DueEntries)),
                            {EntryKeys[i] : i \in DueEntries})
      BY <1>7 DEF taken
    <3>3. Ahead(EntryKeys, DueEntries, BoundEntries, t,
                (entryCursor + Scanned(entryCursor, t, DueEntries)) % t, p)
      BY <1>1, <3>1, <3>2, AheadSwept
    <3> QED BY <1>4, <1>8, <3>3 DEF EntryAhead
  <2> QED BY <2>1, <2>2 DEF SweepInv
<1>11. ASSUME NEW p \in passed, NEW k \in DOMAIN page', p[2] = page'[k]
       PROVE  \E j \in 1..k - 1 : page'[j] = p[1]
  <2>1. k \in 1..Len(taken) /\ EntryKeys[taken[k]] = p[2] /\ page'[k] = EntryKey(entries[taken[k]])
    BY <1>2, <1>4, <1>7, <1>11 DEF KeysOf
  <2>2. EntryAhead(p)
    BY <1>11, <2>1, KindsDiffer DEF SweepInv
  <2>3. Ahead(EntryKeys, DueEntries, BoundEntries, t, entryCursor, p)
    BY <2>2 DEF EntryAhead, t
  <2>4. PICK l \in 1..k - 1 : EntryKeys[taken[l]] = p[1]
    <3>1. FirstOnPage(EntryKeys, Taken(entryCursor, t, DueEntries), p)
      BY <1>1, <2>3, AheadFirst
    <3> QED BY <2>1, <3>1 DEF FirstOnPage, taken
  <2>5. l \in 1..Len(taken)
    BY <1>2, <2>1
  <2> QED BY <1>2, <1>7, <2>4, <2>5 DEF KeysOf
<1> QED BY <1>9, <1>10, <1>11 DEF SweepInv

LEMMA ReceiptsSwept ==
    ASSUME OutboxInv, SweepInv, CollectDueReceipts
    PROVE  /\ SweepInv'
           /\ \A p \in passed, k \in DOMAIN page' : p[2] = page'[k] =>
                \E j \in 1..k - 1 : page'[j] = p[1]
<1> DEFINE t     == Len(receipts)
           taken == Taken(receiptCursor, t, DueReceipts)
<1>1. /\ t \in Nat /\ t > 0 /\ receiptCursor \in 0..t
      /\ 1..t \in SUBSET (1..t) /\ DueReceipts \in SUBSET (1..t)
      /\ \A i \in 1..t : ReceiptKeys[i] = ReceiptKey(receipts[i])
      /\ \A i, j \in 1..t : ReceiptKeys[i] = ReceiptKeys[j] => i = j
  BY ListsKnown, KeysDiffer DEF CollectDueReceipts
<1>2. taken \in Seq(1..t) /\ DOMAIN taken = 1..Len(taken)
  BY <1>1, TakenInOrder
<1>3. DueReceipts = {i \in DOMAIN receipts : receipts[i].due}
  BY ListsKnown DEF DueReceipts
<1>4. /\ receiptCursor' = (receiptCursor + Scanned(receiptCursor, t, DueReceipts)) % t
      /\ page' = [k \in DOMAIN taken |-> ReceiptKey(receipts[taken[k]])]
      /\ passed' = PassedAfter([k \in DOMAIN taken |-> ReceiptKey(receipts[taken[k]])],
                               {ReceiptKey(receipts[i]) : i \in DueReceipts})
      /\ UNCHANGED <<entries, receipts, entryCursor, served>>
  BY <1>3 DEF CollectDueReceipts
<1> HIDE DEF taken, t
<1>5. [k \in DOMAIN taken |-> ReceiptKey(receipts[taken[k]])] = KeysOf(ReceiptKeys, taken)
  BY <1>1, <1>2 DEF KeysOf
<1>6. {ReceiptKey(receipts[i]) : i \in DueReceipts} = {ReceiptKeys[i] : i \in DueReceipts}
  BY <1>1
<1>7. page' = KeysOf(ReceiptKeys, taken)
      /\ passed' = PassedAfter(KeysOf(ReceiptKeys, taken), {ReceiptKeys[i] : i \in DueReceipts})
  BY <1>4, <1>5, <1>6
<1>8. /\ UNCHANGED <<EntryKeys, DueEntries, BoundEntries, ReceiptKeys, DueReceipts>>
      /\ Len(receipts') = t
  BY <1>4 DEF EntryKeys, DueEntries, BoundEntries, ReceiptKeys, DueReceipts, t
<1>9. entryCursor' <= Len(entries') /\ receiptCursor' <= Len(receipts')
  <2>1. Scanned(receiptCursor, t, DueReceipts) \in 0..t
    BY <1>1, ScannedMost
  <2>2. (receiptCursor + Scanned(receiptCursor, t, DueReceipts)) % t \in 0..t
    <3>1. 1 \in 1..t
      BY <1>1
    <3> QED BY <1>1, <2>1, <3>1, SweepDistance
  <2> QED BY <1>1, <1>4, <1>8, <2>2 DEF SweepInv
<1>10. ASSUME NEW p \in passed' PROVE EntryAhead(p)' \/ ReceiptAhead(p)'
  <2>1. CASE p \in passed /\ EntryAhead(p)
    BY <1>4, <1>8, <2>1 DEF EntryAhead
  <2>2. CASE p \in passed => ReceiptAhead(p)
    <3>1. p \in passed => Ahead(ReceiptKeys, DueReceipts, 1..t, t, receiptCursor, p)
      BY <2>2 DEF ReceiptAhead, t
    <3>2. p \in PassedAfter(KeysOf(ReceiptKeys, Taken(receiptCursor, t, DueReceipts)),
                            {ReceiptKeys[i] : i \in DueReceipts})
      BY <1>7 DEF taken
    <3>3. Ahead(ReceiptKeys, DueReceipts, 1..t, t,
                (receiptCursor + Scanned(receiptCursor, t, DueReceipts)) % t, p)
      BY <1>1, <3>1, <3>2, AheadSwept
    <3> QED BY <1>4, <1>8, <3>3 DEF ReceiptAhead
  <2> QED BY <2>1, <2>2 DEF SweepInv
<1>11. ASSUME NEW p \in passed, NEW k \in DOMAIN page', p[2] = page'[k]
       PROVE  \E j \in 1..k - 1 : page'[j] = p[1]
  <2>1. /\ k \in 1..Len(taken) /\ ReceiptKeys[taken[k]] = p[2]
        /\ page'[k] = ReceiptKey(receipts[taken[k]])
    BY <1>2, <1>4, <1>7, <1>11 DEF KeysOf
  <2>2. ReceiptAhead(p)
    BY <1>11, <2>1, KindsDiffer DEF SweepInv
  <2>3. Ahead(ReceiptKeys, DueReceipts, 1..t, t, receiptCursor, p)
    BY <2>2 DEF ReceiptAhead, t
  <2>4. PICK l \in 1..k - 1 : ReceiptKeys[taken[l]] = p[1]
    <3>1. FirstOnPage(ReceiptKeys, Taken(receiptCursor, t, DueReceipts), p)
      BY <1>1, <2>3, AheadFirst
    <3> QED BY <2>1, <3>1 DEF FirstOnPage, taken
  <2>5. l \in 1..Len(taken)
    BY <1>2, <2>1
  <2> QED BY <1>2, <1>7, <2>4, <2>5 DEF KeysOf
<1> QED BY <1>9, <1>10, <1>11 DEF SweepInv

LEMMA RowsAppended ==
    ASSUME OutboxInv, SweepInv, NEW call \in Calls, NEW id \in Ids, PutBatch(call, id)
    PROVE  SweepInv'
<1> DEFINE row == [peer |-> call.receipt, id |-> id, due |-> FALSE]
<1>1. /\ Staged(call, id) \in Seq(Entry) /\ entries' = entries \o Staged(call, id)
      /\ receipts' = receipts \/ receipts' = Append(receipts, row)
      /\ UNCHANGED <<entryCursor, receiptCursor, passed>>
  BY Staging DEF PutBatch
<1>2. /\ entries \in Seq(Entry) /\ receipts \in Seq(Receipt)
      /\ Len(entries) \in Nat /\ Len(receipts) \in Nat
      /\ entryCursor \in 0..Len(entries) /\ receiptCursor \in 0..Len(receipts)
  BY ListsKnown
<1>3. /\ Len(entries') \in Nat /\ Len(entries) <= Len(entries')
      /\ \A i \in 1..Len(entries) : entries'[i] = entries[i]
  BY <1>1, <1>2, ConcatProperties
<1> HIDE DEF row
<1>4. /\ Len(receipts') \in Nat /\ Len(receipts) <= Len(receipts')
      /\ \A i \in 1..Len(receipts) : receipts'[i] = receipts[i]
  <2>1. receipts \in Seq(Receipt \cup {row}) /\ row \in Receipt \cup {row}
    BY <1>2
  <2> QED BY <1>1, <1>2, <2>1, AppendProperties
<1>5. entryCursor' <= Len(entries') /\ receiptCursor' <= Len(receipts')
  BY <1>1, <1>2, <1>3, <1>4
<1>6. ASSUME NEW p \in passed PROVE EntryAhead(p)' \/ ReceiptAhead(p)'
  <2>1. EntryAhead(p) => EntryAhead(p)'
    BY <1>1, <1>3, EntriesGrow
  <2>2. ReceiptAhead(p) => ReceiptAhead(p)'
    BY <1>1, <1>4, ReceiptsGrow
  <2> QED BY <2>1, <2>2 DEF SweepInv
<1> QED BY <1>1, <1>5, <1>6 DEF SweepInv

LEMMA RowsBound ==
    ASSUME OutboxInv, SweepInv, NEW peer \in Peers, BindUnbound(peer)
    PROVE  SweepInv'
<1>1. /\ UNCHANGED <<receipts, entryCursor, receiptCursor, passed>>
      /\ entries' = [i \in DOMAIN entries |->
                       IF MayBind(entries[i], peer) THEN [entries[i] EXCEPT !.peer = peer]
                                                    ELSE entries[i]]
  BY DEF BindUnbound
<1>2. /\ entries \in Seq(Entry) /\ Len(entries) \in Nat /\ DOMAIN entries = 1..Len(entries)
      /\ receipts \in Seq(Receipt) /\ Len(receipts) \in Nat
      /\ entryCursor \in 0..Len(entries) /\ receiptCursor \in 0..Len(receipts)
  BY ListsKnown
<1>3. Len(entries') = Len(entries)
  BY <1>1, <1>2
<1>4. \A i \in 1..Len(entries) : entries[i].peer # Unbound =>
        /\ entries'[i].peer = entries[i].peer /\ entries'[i].id = entries[i].id
        /\ entries[i].due => entries'[i].due
  BY <1>1, <1>2 DEF MayBind
<1>5. ASSUME NEW p \in passed PROVE EntryAhead(p)' \/ ReceiptAhead(p)'
  <2>1. EntryAhead(p) => EntryAhead(p)'
    BY <1>1, <1>2, <1>3, <1>4, EntriesGrow
  <2>2. ReceiptAhead(p) => ReceiptAhead(p)'
    BY <1>1, <1>2, ReceiptsGrow
  <2> QED BY <2>1, <2>2 DEF SweepInv
<1> QED BY <1>1, <1>2, <1>3, <1>5 DEF SweepInv

LEMMA RowsDropped ==
    ASSUME OutboxInv, SweepInv, NEW r \in 1..Len(entries), DropEntry(r)
    PROVE  SweepInv'
<1>1. /\ entries' = RemoveAt(entries, r) /\ UNCHANGED <<receipts, receiptCursor>>
      /\ entryCursor' = RepairedCursor(entryCursor, r - 1, Len(entries) - 1)
      /\ passed' = Without(EntryKey(entries[r]))
  BY DEF DropEntry
<1>2. /\ receipts \in Seq(Receipt) /\ Len(receipts) \in Nat
      /\ receiptCursor \in 0..Len(receipts)
  BY ListsKnown
<1>3. /\ entryCursor' <= Len(entries')
      /\ \A p : EntryAhead(p) /\ EntryKey(entries[r]) \notin {p[1], p[2]} => EntryAhead(p)'
  BY <1>1, EntriesClose
<1>4. ASSUME NEW p \in passed' PROVE EntryAhead(p)' \/ ReceiptAhead(p)'
  <2>1. p \in passed /\ EntryKey(entries[r]) \notin {p[1], p[2]}
    BY <1>1 DEF Without
  <2>2. ReceiptAhead(p) => ReceiptAhead(p)'
    BY <1>1, <1>2, ReceiptsGrow
  <2> QED BY <1>3, <2>1, <2>2 DEF SweepInv
<1> QED BY <1>1, <1>2, <1>3, <1>4 DEF SweepInv

LEMMA RowsConfirmed ==
    ASSUME OutboxInv, SweepInv, NEW peer \in Peers, NEW id \in Ids, ConfirmReceipt(peer, id)
    PROVE  SweepInv'
<1> DEFINE r == IndexOfRow(receipts, peer, id)
<1>1. /\ receipts' = RemoveAt(receipts, r) /\ UNCHANGED <<entries, entryCursor>>
      /\ receiptCursor' = RepairedCursor(receiptCursor, r - 1, Len(receipts) - 1)
      /\ passed' = Without(ReceiptKey(receipts[r]))
  BY DEF ConfirmReceipt
<1>2. /\ entries \in Seq(Entry) /\ Len(entries) \in Nat
      /\ receipts \in Seq(Receipt) /\ entryCursor \in 0..Len(entries)
  BY ListsKnown
<1>3. r \in 1..Len(receipts)
  BY <1>2, RowFound DEF ConfirmReceipt
<1> HIDE DEF r
<1>4. /\ receiptCursor' <= Len(receipts')
      /\ \A p : ReceiptAhead(p) /\ ReceiptKey(receipts[r]) \notin {p[1], p[2]}
                  => ReceiptAhead(p)'
  BY <1>1, <1>3, ReceiptsClose
<1>5. ASSUME NEW p \in passed' PROVE EntryAhead(p)' \/ ReceiptAhead(p)'
  <2>1. p \in passed /\ ReceiptKey(receipts[r]) \notin {p[1], p[2]}
    BY <1>1 DEF Without
  <2>2. EntryAhead(p) => EntryAhead(p)'
    BY <1>1, <1>2, EntriesGrow
  <2> QED BY <1>4, <2>1, <2>2 DEF SweepInv
<1> QED BY <1>1, <1>2, <1>4, <1>5 DEF SweepInv

\* Steps that change nothing of a row but whether it is due, and forget the
\* history of one that is due no longer.
LEMMA RowsElapse ==
    ASSUME OutboxInv, SweepInv, UNCHANGED <<entryCursor, receiptCursor>>,
           Len(entries') = Len(entries), Len(receipts') = Len(receipts),
           \A i \in 1..Len(entries) : entries'[i].peer = entries[i].peer
                                      /\ entries'[i].id = entries[i].id,
           \A i \in 1..Len(receipts) : receipts'[i].peer = receipts[i].peer
                                       /\ receipts'[i].id = receipts[i].id,
           NEW key, passed' \subseteq passed,
           \A p \in passed' : p[1] # key,
           \A i \in 1..Len(entries) : entries[i].due => entries'[i].due \/ EntryKeys[i] = key,
           \A i \in 1..Len(receipts) : receipts[i].due => receipts'[i].due \/ ReceiptKeys[i] = key
    PROVE  SweepInv'
<1>1. /\ Len(entries) \in Nat /\ Len(receipts) \in Nat
      /\ entryCursor \in 0..Len(entries) /\ receiptCursor \in 0..Len(receipts)
  BY ListsKnown
<1>2. ASSUME NEW p \in passed' PROVE EntryAhead(p)' \/ ReceiptAhead(p)'
  <2>1. EntryAhead(p) => EntryAhead(p)'
    BY <1>1, EntriesGrow
  <2>2. ReceiptAhead(p) => ReceiptAhead(p)'
    BY <1>1, ReceiptsGrow
  <2> QED BY <2>1, <2>2 DEF SweepInv
<1> QED BY <1>1, <1>2 DEF SweepInv

LEMMA RowsTimed ==
    ASSUME OutboxInv, SweepInv, \/ \E i \in DOMAIN entries : EntryElapses(i)
                                \/ \E i \in DOMAIN receipts : ReceiptElapses(i)
                                \/ \E key \in ToSet(page) : Backoff(key)
    PROVE  SweepInv'
<1>1. /\ entries \in Seq(Entry) /\ DOMAIN entries = 1..Len(entries)
      /\ receipts \in Seq(Receipt) /\ DOMAIN receipts = 1..Len(receipts)
      /\ \A i \in 1..Len(entries) : entries[i] \in Entry /\ EntryKeys[i] = EntryKey(entries[i])
      /\ \A i \in 1..Len(receipts) :
           receipts[i] \in Receipt /\ ReceiptKeys[i] = ReceiptKey(receipts[i])
  <2>1. \A i \in 1..Len(entries) : entries[i] \in Entry
    BY ListsKnown
  <2>2. \A i \in 1..Len(receipts) : receipts[i] \in Receipt
    BY ListsKnown
  <2> QED BY <2>1, <2>2, ListsKnown
<1>2. \E key : \A p \in passed : p[1] # key
  <2> DEFINE key == CHOOSE k : k \notin {p[1] : p \in passed}
  <2>1. \E k : k \notin {p[1] : p \in passed}
    BY NoSetContainsEverything
  <2> QED BY <2>1
<1>3. PICK none : \A p \in passed : p[1] # none
  BY <1>2
<1>4. CASE \E i \in DOMAIN entries : EntryElapses(i)
  <2>1. PICK i \in DOMAIN entries :
           /\ entries' = [entries EXCEPT ![i] = [@ EXCEPT !.due = TRUE]]
           /\ UNCHANGED <<receipts, entryCursor, receiptCursor, passed>>
    BY <1>4 DEF EntryElapses
  <2>2. Len(entries') = Len(entries)
    BY <1>1, <2>1
  <2>3. \A k \in 1..Len(entries) :
          /\ entries'[k].peer = entries[k].peer /\ entries'[k].id = entries[k].id
          /\ entries[k].due => entries'[k].due
    BY <1>1, <2>1 DEF Entry
  <2> QED BY <1>3, <2>1, <2>2, <2>3, RowsElapse
<1>5. CASE \E i \in DOMAIN receipts : ReceiptElapses(i)
  <2>1. PICK i \in DOMAIN receipts :
           /\ receipts' = [receipts EXCEPT ![i] = [@ EXCEPT !.due = TRUE]]
           /\ UNCHANGED <<entries, entryCursor, receiptCursor, passed>>
    BY <1>5 DEF ReceiptElapses
  <2>2. Len(receipts') = Len(receipts)
    BY <1>1, <2>1
  <2>3. \A k \in 1..Len(receipts) :
          /\ receipts'[k].peer = receipts[k].peer /\ receipts'[k].id = receipts[k].id
          /\ receipts[k].due => receipts'[k].due
    BY <1>1, <2>1 DEF Receipt
  <2> QED BY <1>3, <2>1, <2>2, <2>3, RowsElapse
<1>6. CASE \E key \in ToSet(page) : Backoff(key)
  <2>1. PICK key : Backoff(key)
    BY <1>6
  <2>2. /\ UNCHANGED <<entryCursor, receiptCursor>> /\ passed' = {p \in passed : p[1] # key}
        /\ entries' = [i \in DOMAIN entries |->
                         IF EntryKey(entries[i]) = key THEN [entries[i] EXCEPT !.due = FALSE]
                                                       ELSE entries[i]]
        /\ receipts' = [i \in DOMAIN receipts |->
                          IF ReceiptKey(receipts[i]) = key THEN [receipts[i] EXCEPT !.due = FALSE]
                                                           ELSE receipts[i]]
    BY <2>1 DEF Backoff
  <2>3. Len(entries') = Len(entries) /\ Len(receipts') = Len(receipts)
    BY <1>1, <2>2
  <2>4. \A k \in 1..Len(entries) :
          /\ entries'[k].peer = entries[k].peer /\ entries'[k].id = entries[k].id
          /\ entries[k].due => entries'[k].due \/ EntryKeys[k] = key
    BY <1>1, <2>2 DEF Entry
  <2>5. \A k \in 1..Len(receipts) :
          /\ receipts'[k].peer = receipts[k].peer /\ receipts'[k].id = receipts[k].id
          /\ receipts[k].due => receipts'[k].due \/ ReceiptKeys[k] = key
    BY <1>1, <2>2 DEF Receipt
  <2> QED BY <2>2, <2>3, <2>4, <2>5, RowsElapse
<1> QED BY <1>4, <1>5, <1>6

LEMMA SweepInit == Init => SweepInv
BY DEF Init, SweepInv

LEMMA SweepStep == OutboxInv /\ SweepInv /\ [Next]_vars => SweepInv'
<1> SUFFICES ASSUME OutboxInv, SweepInv, [Next]_vars PROVE SweepInv'
  OBVIOUS
<1>1. CASE \E call \in Calls, id \in Ids : PutBatch(call, id)
  BY <1>1, RowsAppended
<1>2. CASE \E peer \in Peers : BindUnbound(peer)
  BY <1>2, RowsBound
<1>3. CASE \E peer \in Peers, id \in Ids : Acknowledge(peer, id)
  <2>1. PICK peer \in Peers, id \in Ids : Acknowledge(peer, id)
    BY <1>3
  <2>2. IndexOfRow(entries, peer, id) \in 1..Len(entries)
    BY <2>1, ListsKnown, RowFound DEF Acknowledge
  <2> QED BY <2>1, <2>2, RowsDropped DEF Acknowledge
<1>4. CASE \E i \in DOMAIN entries : RemoveEntry(i)
  BY <1>4, ListsKnown, RowsDropped DEF RemoveEntry
<1>5. CASE \E peer \in Peers, id \in Ids : ConfirmReceipt(peer, id)
  BY <1>5, RowsConfirmed
<1>6. CASE Restart
  <2>1. Len(entries) \in Nat /\ Len(receipts) \in Nat
    BY ListsKnown
  <2> QED BY <1>6, <2>1 DEF Restart, SweepInv
<1>7. CASE UNCHANGED vars
  <2>1. \A p : (EntryAhead(p) => EntryAhead(p)') /\ (ReceiptAhead(p) => ReceiptAhead(p)')
    BY <1>7 DEF vars, EntryAhead, ReceiptAhead, EntryKeys, BoundEntries, DueEntries, ReceiptKeys,
                DueReceipts
  <2> QED BY <1>7, <2>1 DEF vars, SweepInv
<1> QED BY <1>1, <1>2, <1>3, <1>4, <1>5, <1>6, <1>7, EntriesSwept, ReceiptsSwept, RowsTimed DEF Next

LEMMA SweepsInOrder ==
    ASSUME OutboxInv, SweepInv, Next
    PROVE  \A p \in passed, k \in DOMAIN page' : p[2] = page'[k] =>
             \E j \in 1..k - 1 : page'[j] = p[1]
<1>1. CASE CollectDueEntries
  BY <1>1, EntriesSwept
<1>2. CASE CollectDueReceipts
  BY <1>2, ReceiptsSwept
<1>3. CASE page' = <<>>
  BY <1>3
<1>4. CollectDueEntries \/ CollectDueReceipts \/ page' = <<>>
  BY DEF Next, PutBatch, BindUnbound, Acknowledge, RemoveEntry, DropEntry, ConfirmReceipt,
         EntryElapses, ReceiptElapses, Backoff, Restart
<1> QED BY <1>1, <1>2, <1>3, <1>4

-----------------------------------------------------------------------------
(* The theorems. *)

\* RVO2 keeps its rows, its bounds and its cursors through every operation.
THEOREM OutboxInvariant == Spec => []OutboxInv
<1> QED BY OutboxInit, OutboxStep, PTL DEF Spec

\* The type invariant, with the bounds of the cursors.
THEOREM OutboxTypes == Spec => []TypeOK
<1>1. OutboxInv => TypeOK
  BY DEF OutboxInv, Rows, Cursors, TypeOK, Entry, Receipt
<1> QED BY <1>1, OutboxInvariant, PTL

\* encodeCheckpoint and validateCheckpoint: what any sequence of admissions,
\* bindings, removals and sweeps leaves is a checkpoint that a successor takes.
THEOREM CheckpointsRestore == Spec => []EveryStateRestores
<1>1. OutboxInv => EveryStateRestores
  BY DEF OutboxInv, Rows, Bounds, EveryStateRestores, Restorable, Distinct, Away, EntryKey,
         ReceiptKey
<1> QED BY <1>1, OutboxInvariant, PTL

\* What a sweep passed over waits before what it took, through every operation.
THEOREM SweepInvariant == Spec => []SweepInv
<1>1. SweepInv /\ []OutboxInv /\ [][Next]_vars => []SweepInv
  BY SweepStep, PTL
<1> QED BY <1>1, SweepInit, OutboxInvariant, PTL DEF Spec

\* collectDueEntries and collectDueReceipts: whatever was acknowledged, bound or
\* admitted since, no row is collected again while one that was due all along waits.
THEOREM RowsAreNeverSkipped == Spec => NoRowIsSkipped
<1>1. OutboxInv /\ SweepInv /\ [Next]_vars
        => [\A p \in passed, k \in DOMAIN page' :
              (p[2] = page'[k]) => \E j \in 1..k - 1 : page'[j] = p[1]]_vars
  BY SweepsInOrder
<1> QED BY <1>1, OutboxInvariant, SweepInvariant, PTL DEF Spec, NoRowIsSkipped

=============================================================================
