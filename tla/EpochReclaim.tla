---------------------------- MODULE EpochReclaim ----------------------------
(***************************************************************************)
(* Epoch-based reclamation (substrate/ebr.zig) under the copy-on-write     *)
(* registries that use it (substrate/rcu_map.zig, daemon/world_rcu.zig):   *)
(* readers pin, load the published root and unpin without a lock; writers  *)
(* and the advance of the epoch exclude each other.  A step is one atomic  *)
(* access to memory that another thread may access.  Epochs count on; the  *)
(* code takes them modulo three to choose a bag.                           *)
(***************************************************************************)
EXTENDS Integers, FiniteSets

CONSTANTS
    MaxParticipants,   \* max_participants
    Writers,           \* the participants that also write
    Roots,             \* the registries that share the domain
    Nodes,             \* addresses of boxes with an immutable snapshot
    NoNode,
    MaxEpoch           \* bound of this model on global_epoch

Participants == 1..MaxParticipants

ASSUME SizeAssumption == MaxParticipants \in Nat \ {0}
ASSUME WriterAssumption == Writers \subseteq Participants
ASSUME NodeAssumption == NoNode \notin Nodes
ASSUME EpochAssumption == MaxEpoch \in Nat

VARIABLES
    epoch,       \* Domain.global_epoch
    count,       \* Domain.participant_count
    local,       \* Participant.local_epoch
    active,      \* Participant.active
    bags,        \* Participant.bags: the nodes that await reclamation
    pc,          \* where a participant is: out, idle, in pin, pinned, or gone (in_use is neither
                 \* out nor gone)
    seen,        \* the epoch that pin has loaded
    held,        \* the roots a pinned reader has loaded
    published,   \* what each registry publishes
    free,        \* addresses the allocator may give out
    job,         \* the writer that holds the lock, if any, and where it is
    adv,         \* the advance that holds the lock, if any, and where it is
    retiredAt    \* history: the epoch whose bag a node was put in

participantVars == <<local, active, pc, seen, held>>
memoryVars == <<bags, published, free, retiredAt>>
vars == <<epoch, count, participantVars, memoryVars, job, adv>>

BagIndex(e) == e % 3

NoJob == [stage |-> "none", by |-> 0, epoch |-> 0, node |-> NoNode]
NoAdvance == [stage |-> "none", current |-> 0, at |-> 0, last |-> 0]

Holds(p) == job.stage # "none" /\ job.by = p

\* The lock that writers and advances share: RcuMap.writer_lock, the World lock.
LockFree == job.stage = "none" /\ adv.stage = "none"

Init ==
    /\ epoch = 0 /\ count = 0
    /\ local = [p \in Participants |-> 0]
    /\ active = [p \in Participants |-> FALSE]
    /\ bags = [p \in Participants |-> [b \in 0..2 |-> {}]]
    /\ pc = [p \in Participants |-> "out"]
    /\ seen = [p \in Participants |-> 0]
    /\ held = [p \in Participants |-> {}]
    /\ published \in [Roots -> Nodes]
    /\ \A r1, r2 \in Roots : published[r1] = published[r2] => r1 = r2
    /\ free = Nodes \ {published[r] : r \in Roots}
    /\ job = NoJob /\ adv = NoAdvance
    /\ retiredAt = [n \in Nodes |-> 0]

-----------------------------------------------------------------------------
(* Registration: slots are given out in order and never given out again.   *)

Register(p) ==
    /\ p = count + 1
    /\ count' = p
    /\ pc' = [pc EXCEPT ![p] = "idle"]
    /\ UNCHANGED <<epoch, local, active, seen, held, memoryVars, job, adv>>

Unregister(p) ==
    /\ pc[p] = "idle" /\ ~ Holds(p)
    /\ pc' = [pc EXCEPT ![p] = "gone"]
    /\ UNCHANGED <<epoch, count, local, active, seen, held, memoryVars, job, adv>>

-----------------------------------------------------------------------------
(* pin and unpin.  A writer that holds the lock pins to reserve; otherwise *)
(* it may read as any participant does.                                    *)

PinLoad(p) ==
    /\ pc[p] = "idle" /\ (Holds(p) => job.stage = "begun")
    /\ pc' = [pc EXCEPT ![p] = "loaded"]
    /\ seen' = [seen EXCEPT ![p] = epoch]
    /\ UNCHANGED <<epoch, count, local, active, held, memoryVars, job, adv>>

PinLocal(p) ==
    /\ pc[p] = "loaded"
    /\ pc' = [pc EXCEPT ![p] = "stored"]
    /\ local' = [local EXCEPT ![p] = seen[p]]
    /\ seen' = [seen EXCEPT ![p] = 0]
    /\ UNCHANGED <<epoch, count, active, held, memoryVars, job, adv>>

\* The store of active and the fence that keeps later loads after it.
PinActive(p) ==
    /\ pc[p] = "stored"
    /\ pc' = [pc EXCEPT ![p] = "pinned"]
    /\ active' = [active EXCEPT ![p] = TRUE]
    /\ UNCHANGED <<epoch, count, local, seen, held, memoryVars, job, adv>>

\* Slip: no fence, so the load of the root may come before the store of active.
ReadEarly(p, r) ==
    /\ pc[p] \in {"stored", "pinned"} /\ ~ Holds(p)
    /\ held' = [held EXCEPT ![p] = @ \union {published[r]}]
    /\ UNCHANGED <<epoch, count, local, active, pc, seen, memoryVars, job, adv>>

\* RcuMap.read, lookup, count, iterate: the load of a root, whose snapshot is
\* then used until the guard is released.
Read(p, r) ==
    /\ pc[p] = "pinned" /\ ~ Holds(p)
    /\ held' = [held EXCEPT ![p] = @ \union {published[r]}]
    /\ UNCHANGED <<epoch, count, local, active, pc, seen, memoryVars, job, adv>>

\* Slip: the guard is closed and the participant stays active.
UnpinnedActive(p) ==
    /\ pc' = [pc EXCEPT ![p] = "idle"]
    /\ held' = [held EXCEPT ![p] = {}]
    /\ UNCHANGED active

Unpinned(p) ==
    /\ pc' = [pc EXCEPT ![p] = "idle"]
    /\ active' = [active EXCEPT ![p] = FALSE]
    /\ held' = [held EXCEPT ![p] = {}]

Unpin(p) ==
    /\ pc[p] = "pinned" /\ ~ Holds(p)
    /\ Unpinned(p)
    /\ UNCHANGED <<epoch, count, local, seen, memoryVars, job, adv>>

-----------------------------------------------------------------------------
(* Writers.  The new snapshot and its box are made before the root is      *)
(* stored; a failure to allocate gives the lock back.                      *)

LockWriter(w) ==
    /\ LockFree /\ pc[w] = "idle"
    /\ job' = [NoJob EXCEPT !.stage = "begun", !.by = w]
    /\ UNCHANGED <<epoch, count, participantVars, memoryVars, adv>>

\* reserveRetireCapacity after its pin: the bag is that of the epoch it loads now.
Reserve(w) ==
    /\ Holds(w) /\ job.stage = "begun" /\ pc[w] = "pinned"
    /\ job' = [job EXCEPT !.stage = "reserved", !.epoch = epoch]
    /\ UNCHANGED <<epoch, count, participantVars, memoryVars, adv>>

\* The store of the new root, after which readers can no longer find the old one.
\* Under a reservation several registries may be stored in turn (the staged
\* edits of World); without one (RcuMap.replace) just one.
Publish(w, r, n) ==
    /\ Holds(w) /\ n \in free
    /\ \/ job.stage = "reserved"
       \/ job.stage = "begun" /\ pc[w] = "idle"
    /\ free' = free \ {n}
    /\ published' = [published EXCEPT ![r] = n]
    /\ job' = [job EXCEPT !.stage = IF @ = "reserved" THEN "owed" ELSE "unlinked",
                          !.node = published[r]]
    /\ UNCHANGED <<epoch, count, participantVars, bags, retiredAt, adv>>

PutInBag(w) ==
    /\ bags' = [bags EXCEPT ![w][BagIndex(job.epoch)] = @ \union {job.node}]
    /\ retiredAt' = [retiredAt EXCEPT ![job.node] = job.epoch]

\* Participant.retireErased loads the epoch, and then appends.
LoadRetireEpoch(w) ==
    /\ Holds(w) /\ job.stage = "unlinked"
    /\ job' = [job EXCEPT !.stage = "dated", !.epoch = epoch]
    /\ UNCHANGED <<epoch, count, participantVars, memoryVars, adv>>

Retire(w) ==
    /\ Holds(w) /\ job.stage = "dated"
    /\ PutInBag(w)
    /\ job' = NoJob
    /\ UNCHANGED <<epoch, count, participantVars, published, free, adv>>

\* RetireReservation.retireErased: into the reserved bag.
RetireReserved(w) ==
    /\ Holds(w) /\ job.stage = "owed"
    /\ PutInBag(w)
    /\ job' = [job EXCEPT !.stage = "reserved", !.node = NoNode]
    /\ UNCHANGED <<epoch, count, participantVars, published, free, adv>>

\* RetireReservation.finish, on commit and on abort.
Finish(w) ==
    /\ Holds(w) /\ job.stage = "reserved"
    /\ Unpinned(w)
    /\ job' = NoJob
    /\ UNCHANGED <<epoch, count, local, seen, memoryVars, adv>>

\* A write that could not allocate its snapshot, box or reservation.
GiveUp(w) ==
    /\ Holds(w) /\ job.stage = "begun"
    /\ \/ pc[w] = "idle" /\ UNCHANGED <<pc, active, held>>
       \/ pc[w] = "pinned" /\ Unpinned(w)
    /\ job' = NoJob
    /\ UNCHANGED <<epoch, count, local, seen, memoryVars, adv>>

-----------------------------------------------------------------------------
(* Domain.advance, with the lock held (RcuMap.advance, World's writes).    *)

Begun == [stage |-> "scan", current |-> epoch, at |-> 1, last |-> count]

\* Slip: the domain is advanced by a thread without the writers' lock.
AdvanceUnlocked ==
    /\ adv.stage = "none" /\ epoch < MaxEpoch
    /\ adv' = Begun
    /\ UNCHANGED <<epoch, count, participantVars, memoryVars, job>>

BeginAdvance ==
    /\ LockFree /\ epoch < MaxEpoch
    /\ adv' = Begun
    /\ UNCHANGED <<epoch, count, participantVars, memoryVars, job>>

\* A participant that is not active is passed over ...
ScanActive ==
    /\ adv.stage = "scan" /\ adv.at <= adv.last
    /\ adv' = IF active[adv.at] THEN [adv EXCEPT !.stage = "compare"]
                                ELSE [adv EXCEPT !.at = @ + 1]
    /\ UNCHANGED <<epoch, count, participantVars, memoryVars, job>>

\* ... and an active one in another epoch ends the attempt.
CompareLocal ==
    /\ adv.stage = "compare"
    /\ adv' = IF local[adv.at] = adv.current
              THEN [adv EXCEPT !.stage = "scan", !.at = @ + 1]
              ELSE NoAdvance
    /\ UNCHANGED <<epoch, count, participantVars, memoryVars, job>>

StoreEpoch ==
    /\ adv.stage = "scan" /\ adv.at > adv.last
    /\ epoch' = adv.current + 1
    /\ adv' = [adv EXCEPT !.stage = "reclaim", !.at = 1, !.last = count]
    /\ UNCHANGED <<count, participantVars, memoryVars, job>>

Freed(nodes) ==
    /\ free' = free \union nodes
    /\ retiredAt' = [n \in Nodes |-> IF n \in nodes THEN 0 ELSE retiredAt[n]]

\* Slip: the bag is not cleared when its nodes are freed.
ReclaimUncleared ==
    /\ adv.stage = "reclaim" /\ adv.at <= adv.last
    /\ Freed(bags[adv.at][BagIndex(adv.current + 1)])
    /\ adv' = [adv EXCEPT !.at = @ + 1]
    /\ UNCHANGED <<epoch, count, participantVars, bags, published, job>>

\* reclaimBagAcrossParticipants, one participant's bag at a time.
ReclaimBag ==
    /\ adv.stage = "reclaim" /\ adv.at <= adv.last
    /\ LET b == BagIndex(adv.current + 1)
       IN  /\ Freed(bags[adv.at][b])
           /\ bags' = [bags EXCEPT ![adv.at][b] = {}]
    /\ adv' = [adv EXCEPT !.at = @ + 1]
    /\ UNCHANGED <<epoch, count, participantVars, published, job>>

EndAdvance ==
    /\ adv.stage = "reclaim" /\ adv.at > adv.last
    /\ adv' = NoAdvance
    /\ UNCHANGED <<epoch, count, participantVars, memoryVars, job>>

Limbo == {n \in Nodes : \E p \in Participants, b \in 0..2 : n \in bags[p][b]}

\* drainAll: what the owner does before it tears the domain down, once every
\* reader is gone.
DrainAll ==
    /\ LockFree
    /\ \A p \in Participants : pc[p] \in {"out", "gone"} \/ (p \in Writers /\ pc[p] = "idle")
    /\ Freed(Limbo)
    /\ bags' = [p \in Participants |-> [b \in 0..2 |-> {}]]
    /\ UNCHANGED <<epoch, count, participantVars, published, job, adv>>

-----------------------------------------------------------------------------

Pin(p) == PinLoad(p) \/ PinLocal(p) \/ PinActive(p)

Write(w) ==
    \/ LockWriter(w) \/ Reserve(w)
    \/ \E r \in Roots, n \in Nodes : Publish(w, r, n)
    \/ LoadRetireEpoch(w) \/ Retire(w) \/ RetireReserved(w)
    \/ Finish(w) \/ GiveUp(w)

Advance ==
    \/ BeginAdvance \/ ScanActive \/ CompareLocal \/ StoreEpoch
    \/ ReclaimBag \/ EndAdvance

Next ==
    \/ \E p \in Participants :
          \/ Register(p) \/ Unregister(p) \/ Pin(p) \/ Unpin(p)
          \/ \E r \in Roots : Read(p, r)
    \/ \E w \in Writers : Write(w)
    \/ Advance
    \/ DrainAll

Spec == Init /\ [][Next]_vars

-----------------------------------------------------------------------------

Stages == {"none", "begun", "reserved", "unlinked", "dated", "owed"}

Types ==
    /\ epoch \in Nat /\ count \in 0..MaxParticipants
    /\ local \in [Participants -> Nat]
    /\ active \in [Participants -> BOOLEAN]
    /\ pc \in [Participants -> {"out", "idle", "loaded", "stored", "pinned", "gone"}]
    /\ seen \in [Participants -> Nat]
    /\ held \in [Participants -> SUBSET Nodes]
    /\ bags \in [Participants -> [0..2 -> SUBSET Nodes]]
    /\ published \in [Roots -> Nodes]
    /\ free \subseteq Nodes
    /\ job \in [stage : Stages, by : Participants \union {0}, epoch : Nat,
                node : Nodes \union {NoNode}]
    /\ adv \in [stage : {"none", "scan", "compare", "reclaim"}, current : Nat,
                at : 0..(MaxParticipants + 1), last : 0..MaxParticipants]
    /\ retiredAt \in [Nodes -> Nat]

ActiveWhilePinned == \A p \in Participants : active[p] <=> pc[p] = "pinned"

\* Type invariant.  A participant is active exactly while its guard is open.
TypeOK == Types /\ ActiveWhilePinned

\* No snapshot that a reader still uses has been freed, whenever it pinned and
\* however often the epoch has advanced since.
NoUseAfterFree == \A p \in Participants : held[p] \cap free = {}

Current == {published[r] : r \in Roots}

\* Unlinked, and not yet in a bag.
Pending == IF job.stage \in {"unlinked", "dated", "owed"} THEN {job.node} ELSE {}

\* A node is in one place: published, unlinked and owed to a bag, in one bag of
\* one participant, or free.  So none is freed twice or reused while listed.
OnePlace ==
    /\ \A r1, r2 \in Roots : published[r1] = published[r2] => r1 = r2
    /\ \A p1, p2 \in Participants, b1, b2 \in 0..2 :
          bags[p1][b1] \cap bags[p2][b2] # {} => p1 = p2 /\ b1 = b2
    /\ Current \cap (free \union Limbo \union Pending) = {}
    /\ Limbo \cap (free \union Pending) = {}
    /\ free \cap Pending = {}
    /\ Current \union Limbo \union Pending \union free = Nodes

\* The bag that is being emptied and the participants it was not yet taken from.
Emptying(p, b) ==
    adv.stage = "reclaim" /\ b = BagIndex(adv.current + 1) /\ adv.at <= p

\* A node is freed by the third advance after its retirement: every bag has only
\* nodes of its index, at most two epochs old, or three in the bag being emptied.
FreedOnTime ==
    \A p \in Participants, b \in 0..2 : \A n \in bags[p][b] :
       /\ BagIndex(retiredAt[n]) = b
       /\ retiredAt[n] <= epoch
       /\ epoch <= retiredAt[n] + (IF Emptying(p, b) THEN 3 ELSE 2)

-----------------------------------------------------------------------------
(* The inductive invariant: why the grace period protects a reader.        *)

Scanning == adv.stage \in {"scan", "compare"}

\* The lock has one holder, whose reservation is of the present epoch, as no
\* advance happens under it.
OneHolder ==
    /\ \A p \in Participants : (pc[p] = "out" <=> p > count) /\ (pc[p] # "pinned" => held[p] = {})
    /\ job.stage # "none" => job.by \in 1..count /\ adv.stage = "none"
    /\ job.stage \in {"reserved", "dated", "owed"} => job.epoch = epoch
    /\ job.stage \in {"unlinked", "dated", "owed"} => job.node \in Nodes

\* An advance works on the epoch it loaded and on participants that exist.
OneAdvance ==
    /\ adv.stage # "none" => adv.at \in 1..(adv.last + 1) /\ adv.last <= count
    /\ Scanning => adv.current = epoch
    /\ adv.stage = "compare" => adv.at <= adv.last
    /\ adv.stage = "reclaim" => epoch = adv.current + 1

\* What awaits reclamation belongs to participants the advance goes through, and
\* nothing of the epoch just stored is there while its bag is emptied.
BagsInReach ==
    \A p \in Participants, b \in 0..2 : \A n \in bags[p][b] :
       /\ p <= count
       /\ adv.stage # "none" => p <= adv.last
       /\ adv.stage = "reclaim" => retiredAt[n] < epoch

\* A reader of a retired node lets the epoch leave the node's own once, and not
\* again: it is pinned in that epoch or an older one.  A scan that has passed it
\* found it in the present one.
ReadersHoldBack ==
    \A p \in Participants : \A n \in held[p] \cap Limbo :
       /\ \/ epoch = retiredAt[n]
          \/ epoch = retiredAt[n] + 1 /\ local[p] = retiredAt[n]
       /\ Scanning => p <= adv.last /\ (p < adv.at => local[p] = epoch)

\* With a reader pinned the epoch is at most one ahead of what the reader uses, so
\* that its bag is not the next to be emptied; and the bookkeeping that this rests on.
ReclaimInv ==
    /\ TypeOK /\ NoUseAfterFree /\ OnePlace /\ FreedOnTime
    /\ OneHolder /\ OneAdvance /\ BagsInReach /\ ReadersHoldBack
=============================================================================
