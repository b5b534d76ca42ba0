------------------------- MODULE EpochReclaimProofs -------------------------
(***************************************************************************)
(* No reader uses a node after it was freed: for any number of             *)
(* participants, writers, registries and nodes, ReclaimInv is inductive.   *)
(* One lemma per action; actions that move no node and do not advance the  *)
(* epoch are instances of QuietStep, those of the scan of ScanFrame, the   *)
(* two ways to retire of RetireFrame.                                      *)
(***************************************************************************)
EXTENDS EpochReclaim, TLAPS

USE SizeAssumption, WriterAssumption, NodeAssumption DEF Participants

-----------------------------------------------------------------------------
(* Registration, pins and the steps of writers that move no node.          *)

\* A step that moves no node.
LEMMA OnePlaceFrame ==
    ASSUME OnePlace, UNCHANGED <<bags, published, free>>, Pending' = Pending
    PROVE  OnePlace'
<1>1. Limbo' = Limbo BY DEF Limbo
<1>2. Current' = Current BY DEF Current
<1> QED BY <1>1, <1>2 DEF OnePlace

\* A step that moves no node, leaves the advance alone, and after which a reader
\* uses at most a root more that is published now.
LEMMA QuietStep ==
    ASSUME ReclaimInv, TypeOK', OneHolder', Pending' = Pending,
           UNCHANGED <<epoch, memoryVars, adv>>, count' >= count,
           \A p \in Participants : \A n \in held'[p] :
              (n \in held[p] /\ local'[p] = local[p]) \/ n \in Current
    PROVE  ReclaimInv'
<1> USE DEF ReclaimInv, memoryVars
<1>1. OnePlace' BY OnePlaceFrame
<1>2. FreedOnTime' BY DEF FreedOnTime, Emptying
<1>3. OneAdvance' BY DEF OneAdvance, Scanning, TypeOK, Types
<1>4. BagsInReach'
  <2>1. count \in Int /\ count' \in Int BY DEF TypeOK, Types
  <2> QED BY <2>1 DEF BagsInReach
<1>5. ReadersHoldBack'
  <2>1. Limbo' = Limbo BY DEF Limbo
  <2>2. \A n \in Current : n \notin Limbo BY DEF OnePlace
  <2> QED BY <2>1, <2>2 DEF ReadersHoldBack, Scanning
<1>6. NoUseAfterFree'
  <2>1. \A n \in Current : n \notin free BY DEF OnePlace
  <2> QED BY <2>1 DEF NoUseAfterFree
<1> QED BY <1>1, <1>2, <1>3, <1>4, <1>5, <1>6

\* Registration, pin and unpin, reading.
LEMMA RegisterStep ==
    ASSUME NEW p \in Participants,
           ReclaimInv, Register(p)
    PROVE  ReclaimInv'
<1> USE DEF ReclaimInv
<1>1. Types'
  <2>1. count' \in 0..MaxParticipants BY DEF Register
  <2>2. pc' \in [Participants -> {"out", "idle", "loaded", "stored", "pinned", "gone"}]
    BY DEF TypeOK, Types, Register
  <2> QED BY <2>1, <2>2 DEF Types, TypeOK, Register, memoryVars
<1>2. ActiveWhilePinned' BY DEF TypeOK, Types, ActiveWhilePinned, OneHolder, Register, memoryVars, participantVars
<1>3. OneHolder'
  <2>1. count \in Nat /\ count' = count + 1 /\ p = count + 1 BY DEF TypeOK, Types, Register
  <2>2. ASSUME NEW q \in Participants PROVE pc'[q] = IF q = p THEN "idle" ELSE pc[q]
    BY DEF TypeOK, Types, Register
  <2>3. \A q \in Participants : pc'[q] = "out" <=> q > count'
    BY <2>1, <2>2 DEF OneHolder
  <2>4. \A q \in Participants : pc'[q] # "pinned" => held'[q] = {}
    BY <2>1, <2>2 DEF OneHolder, Register
  <2>5. UNCHANGED <<epoch, job, adv>> BY DEF Register
  <2> QED BY <2>1, <2>3, <2>4, <2>5 DEF OneHolder
<1>4. Pending' = Pending BY DEF TypeOK, Types, Stages, OneHolder, Pending, Register, memoryVars, participantVars
<1>5. UNCHANGED <<epoch, memoryVars, adv>> /\ count' >= count BY DEF TypeOK, Types, Register, memoryVars, participantVars
<1>6. \A q \in Participants : \A n \in held'[q] :
         (n \in held[q] /\ local'[q] = local[q]) \/ n \in Current
  BY DEF TypeOK, Types, OneHolder, Current, Register, memoryVars, participantVars
<1>7. TypeOK' BY <1>1, <1>2 DEF TypeOK, Types
<1> QED BY <1>3, <1>4, <1>5, <1>6, <1>7, QuietStep DEF memoryVars

LEMMA UnregisterStep ==
    ASSUME NEW p \in Participants,
           ReclaimInv, Unregister(p)
    PROVE  ReclaimInv'
<1> USE DEF ReclaimInv
<1>1. Types' BY DEF Types, TypeOK, Stages, Unregister, Holds, memoryVars, participantVars
<1>2. ActiveWhilePinned' BY DEF TypeOK, Types, ActiveWhilePinned, OneHolder, Unregister, Holds, memoryVars, participantVars
<1>3. OneHolder' BY DEF OneHolder, TypeOK, Types, Stages, Unregister, Holds, memoryVars, participantVars
<1>4. Pending' = Pending BY DEF TypeOK, Types, Stages, OneHolder, Pending, Unregister, Holds, memoryVars, participantVars
<1>5. UNCHANGED <<epoch, memoryVars, adv>> /\ count' >= count BY DEF TypeOK, Types, Unregister, Holds, memoryVars, participantVars
<1>6. \A q \in Participants : \A n \in held'[q] :
         (n \in held[q] /\ local'[q] = local[q]) \/ n \in Current
  BY DEF TypeOK, Types, OneHolder, Current, Unregister, Holds, memoryVars, participantVars
<1>7. TypeOK' BY <1>1, <1>2 DEF TypeOK, Types
<1> QED BY <1>3, <1>4, <1>5, <1>6, <1>7, QuietStep DEF memoryVars

LEMMA PinLoadStep ==
    ASSUME NEW p \in Participants,
           ReclaimInv, PinLoad(p)
    PROVE  ReclaimInv'
<1> USE DEF ReclaimInv
<1>1. Types' BY DEF Types, TypeOK, Stages, PinLoad, Holds, memoryVars, participantVars
<1>2. ActiveWhilePinned' BY DEF TypeOK, Types, ActiveWhilePinned, OneHolder, PinLoad, Holds, memoryVars, participantVars
<1>3. OneHolder' BY DEF OneHolder, TypeOK, Types, Stages, PinLoad, Holds, memoryVars, participantVars
<1>4. Pending' = Pending BY DEF TypeOK, Types, Stages, OneHolder, Pending, PinLoad, Holds, memoryVars, participantVars
<1>5. UNCHANGED <<epoch, memoryVars, adv>> /\ count' >= count BY DEF TypeOK, Types, PinLoad, Holds, memoryVars, participantVars
<1>6. \A q \in Participants : \A n \in held'[q] :
         (n \in held[q] /\ local'[q] = local[q]) \/ n \in Current
  BY DEF TypeOK, Types, OneHolder, Current, PinLoad, Holds, memoryVars, participantVars
<1>7. TypeOK' BY <1>1, <1>2 DEF TypeOK, Types
<1> QED BY <1>3, <1>4, <1>5, <1>6, <1>7, QuietStep DEF memoryVars

LEMMA PinLocalStep ==
    ASSUME NEW p \in Participants,
           ReclaimInv, PinLocal(p)
    PROVE  ReclaimInv'
<1> USE DEF ReclaimInv
<1>1. Types' BY DEF Types, TypeOK, Stages, PinLocal, memoryVars, participantVars
<1>2. ActiveWhilePinned' BY DEF TypeOK, Types, ActiveWhilePinned, OneHolder, PinLocal, memoryVars, participantVars
<1>3. OneHolder' BY DEF OneHolder, TypeOK, Types, Stages, PinLocal, memoryVars, participantVars
<1>4. Pending' = Pending BY DEF TypeOK, Types, Stages, OneHolder, Pending, PinLocal, memoryVars, participantVars
<1>5. UNCHANGED <<epoch, memoryVars, adv>> /\ count' >= count BY DEF TypeOK, Types, PinLocal, memoryVars, participantVars
<1>6. \A q \in Participants : \A n \in held'[q] :
         (n \in held[q] /\ local'[q] = local[q]) \/ n \in Current
  BY DEF TypeOK, Types, OneHolder, Current, PinLocal, memoryVars, participantVars
<1>7. TypeOK' BY <1>1, <1>2 DEF TypeOK, Types
<1> QED BY <1>3, <1>4, <1>5, <1>6, <1>7, QuietStep DEF memoryVars

LEMMA PinActiveStep ==
    ASSUME NEW p \in Participants,
           ReclaimInv, PinActive(p)
    PROVE  ReclaimInv'
<1> USE DEF ReclaimInv
<1>1. Types' BY DEF Types, TypeOK, Stages, PinActive, memoryVars, participantVars
<1>2. ActiveWhilePinned' BY DEF TypeOK, Types, ActiveWhilePinned, OneHolder, PinActive, memoryVars, participantVars
<1>3. OneHolder' BY DEF OneHolder, TypeOK, Types, Stages, PinActive, memoryVars, participantVars
<1>4. Pending' = Pending BY DEF TypeOK, Types, Stages, OneHolder, Pending, PinActive, memoryVars, participantVars
<1>5. UNCHANGED <<epoch, memoryVars, adv>> /\ count' >= count BY DEF TypeOK, Types, PinActive, memoryVars, participantVars
<1>6. \A q \in Participants : \A n \in held'[q] :
         (n \in held[q] /\ local'[q] = local[q]) \/ n \in Current
  BY DEF TypeOK, Types, OneHolder, Current, PinActive, memoryVars, participantVars
<1>7. TypeOK' BY <1>1, <1>2 DEF TypeOK, Types
<1> QED BY <1>3, <1>4, <1>5, <1>6, <1>7, QuietStep DEF memoryVars

LEMMA ReadStep ==
    ASSUME NEW p \in Participants, NEW r \in Roots,
           ReclaimInv, Read(p, r)
    PROVE  ReclaimInv'
<1> USE DEF ReclaimInv
<1>1. Types' BY DEF Types, TypeOK, Stages, Read, Holds, memoryVars, participantVars
<1>2. ActiveWhilePinned' BY DEF TypeOK, Types, ActiveWhilePinned, OneHolder, Read, Holds, memoryVars, participantVars
<1>3. OneHolder' BY DEF OneHolder, TypeOK, Types, Stages, Read, Holds, memoryVars, participantVars
<1>4. Pending' = Pending BY DEF TypeOK, Types, Stages, OneHolder, Pending, Read, Holds, memoryVars, participantVars
<1>5. UNCHANGED <<epoch, memoryVars, adv>> /\ count' >= count BY DEF TypeOK, Types, Read, Holds, memoryVars, participantVars
<1>6. \A q \in Participants : \A n \in held'[q] :
         (n \in held[q] /\ local'[q] = local[q]) \/ n \in Current
  BY DEF TypeOK, Types, OneHolder, Current, Read, Holds, memoryVars, participantVars
<1>7. TypeOK' BY <1>1, <1>2 DEF TypeOK, Types
<1> QED BY <1>3, <1>4, <1>5, <1>6, <1>7, QuietStep DEF memoryVars

LEMMA UnpinStep ==
    ASSUME NEW p \in Participants,
           ReclaimInv, Unpin(p)
    PROVE  ReclaimInv'
<1> USE DEF ReclaimInv
<1>1. Types' BY DEF Types, TypeOK, Stages, Unpin, Holds, Unpinned, memoryVars, participantVars
<1>2. ActiveWhilePinned' BY DEF TypeOK, Types, ActiveWhilePinned, OneHolder, Unpin, Holds, Unpinned, memoryVars, participantVars
<1>3. OneHolder' BY DEF OneHolder, TypeOK, Types, Stages, Unpin, Holds, Unpinned, memoryVars, participantVars
<1>4. Pending' = Pending BY DEF TypeOK, Types, Stages, OneHolder, Pending, Unpin, Holds, Unpinned, memoryVars, participantVars
<1>5. UNCHANGED <<epoch, memoryVars, adv>> /\ count' >= count BY DEF TypeOK, Types, Unpin, Holds, Unpinned, memoryVars, participantVars
<1>6. \A q \in Participants : \A n \in held'[q] :
         (n \in held[q] /\ local'[q] = local[q]) \/ n \in Current
  BY DEF TypeOK, Types, OneHolder, Current, Unpin, Holds, Unpinned, memoryVars, participantVars
<1>7. TypeOK' BY <1>1, <1>2 DEF TypeOK, Types
<1> QED BY <1>3, <1>4, <1>5, <1>6, <1>7, QuietStep DEF memoryVars

\* A writer that takes the lock, reserves, loads the epoch, or is done.
LEMMA LockWriterStep ==
    ASSUME NEW w \in Writers,
           ReclaimInv, LockWriter(w)
    PROVE  ReclaimInv'
<1> USE DEF ReclaimInv
<1>1. Types' BY DEF Types, TypeOK, Stages, LockWriter, LockFree, NoJob, memoryVars, participantVars
<1>2. ActiveWhilePinned' BY DEF TypeOK, Types, ActiveWhilePinned, OneHolder, LockWriter, LockFree, NoJob, memoryVars, participantVars
<1>3. OneHolder' BY DEF OneHolder, TypeOK, Types, Stages, LockWriter, LockFree, NoJob, memoryVars, participantVars
<1>4. Pending' = Pending BY DEF TypeOK, Types, Stages, OneHolder, Pending, LockWriter, LockFree, NoJob, memoryVars, participantVars
<1>5. UNCHANGED <<epoch, memoryVars, adv>> /\ count' >= count BY DEF TypeOK, Types, LockWriter, LockFree, NoJob, memoryVars, participantVars
<1>6. \A q \in Participants : \A n \in held'[q] :
         (n \in held[q] /\ local'[q] = local[q]) \/ n \in Current
  BY DEF TypeOK, Types, OneHolder, Current, LockWriter, LockFree, NoJob, memoryVars, participantVars
<1>7. TypeOK' BY <1>1, <1>2 DEF TypeOK, Types
<1> QED BY <1>3, <1>4, <1>5, <1>6, <1>7, QuietStep DEF memoryVars

LEMMA ReserveStep ==
    ASSUME NEW w \in Writers,
           ReclaimInv, Reserve(w)
    PROVE  ReclaimInv'
<1> USE DEF ReclaimInv
<1>1. Types' BY DEF Types, TypeOK, Stages, Reserve, Holds, memoryVars, participantVars
<1>2. ActiveWhilePinned' BY DEF TypeOK, Types, ActiveWhilePinned, OneHolder, Reserve, Holds, memoryVars, participantVars
<1>3. OneHolder' BY DEF OneHolder, TypeOK, Types, Stages, Reserve, Holds, memoryVars, participantVars
<1>4. Pending' = Pending BY DEF TypeOK, Types, Stages, OneHolder, Pending, Reserve, Holds, memoryVars, participantVars
<1>5. UNCHANGED <<epoch, memoryVars, adv>> /\ count' >= count BY DEF TypeOK, Types, Reserve, Holds, memoryVars, participantVars
<1>6. \A q \in Participants : \A n \in held'[q] :
         (n \in held[q] /\ local'[q] = local[q]) \/ n \in Current
  BY DEF TypeOK, Types, OneHolder, Current, Reserve, Holds, memoryVars, participantVars
<1>7. TypeOK' BY <1>1, <1>2 DEF TypeOK, Types
<1> QED BY <1>3, <1>4, <1>5, <1>6, <1>7, QuietStep DEF memoryVars

LEMMA LoadRetireEpochStep ==
    ASSUME NEW w \in Writers,
           ReclaimInv, LoadRetireEpoch(w)
    PROVE  ReclaimInv'
<1> USE DEF ReclaimInv
<1>1. Types' BY DEF Types, TypeOK, Stages, LoadRetireEpoch, Holds, memoryVars, participantVars
<1>2. ActiveWhilePinned' BY DEF TypeOK, Types, ActiveWhilePinned, OneHolder, LoadRetireEpoch, Holds, memoryVars, participantVars
<1>3. OneHolder' BY DEF OneHolder, TypeOK, Types, Stages, LoadRetireEpoch, Holds, memoryVars, participantVars
<1>4. Pending' = Pending BY DEF TypeOK, Types, Stages, OneHolder, Pending, LoadRetireEpoch, Holds, memoryVars, participantVars
<1>5. UNCHANGED <<epoch, memoryVars, adv>> /\ count' >= count BY DEF TypeOK, Types, LoadRetireEpoch, Holds, memoryVars, participantVars
<1>6. \A q \in Participants : \A n \in held'[q] :
         (n \in held[q] /\ local'[q] = local[q]) \/ n \in Current
  BY DEF TypeOK, Types, OneHolder, Current, LoadRetireEpoch, Holds, memoryVars, participantVars
<1>7. TypeOK' BY <1>1, <1>2 DEF TypeOK, Types
<1> QED BY <1>3, <1>4, <1>5, <1>6, <1>7, QuietStep DEF memoryVars

LEMMA FinishStep ==
    ASSUME NEW w \in Writers,
           ReclaimInv, Finish(w)
    PROVE  ReclaimInv'
<1> USE DEF ReclaimInv
<1>1. Types' BY DEF Types, TypeOK, Stages, Finish, Holds, Unpinned, NoJob, memoryVars, participantVars
<1>2. ActiveWhilePinned' BY DEF TypeOK, Types, ActiveWhilePinned, OneHolder, Finish, Holds, Unpinned, NoJob, memoryVars, participantVars
<1>3. OneHolder' BY DEF OneHolder, TypeOK, Types, Stages, Finish, Holds, Unpinned, NoJob, memoryVars, participantVars
<1>4. Pending' = Pending BY DEF TypeOK, Types, Stages, OneHolder, Pending, Finish, Holds, Unpinned, NoJob, memoryVars, participantVars
<1>5. UNCHANGED <<epoch, memoryVars, adv>> /\ count' >= count BY DEF TypeOK, Types, Finish, Holds, Unpinned, NoJob, memoryVars, participantVars
<1>6. \A q \in Participants : \A n \in held'[q] :
         (n \in held[q] /\ local'[q] = local[q]) \/ n \in Current
  BY DEF TypeOK, Types, OneHolder, Current, Finish, Holds, Unpinned, NoJob, memoryVars, participantVars
<1>7. TypeOK' BY <1>1, <1>2 DEF TypeOK, Types
<1> QED BY <1>3, <1>4, <1>5, <1>6, <1>7, QuietStep DEF memoryVars

LEMMA GiveUpStep ==
    ASSUME NEW w \in Writers,
           ReclaimInv, GiveUp(w)
    PROVE  ReclaimInv'
<1> USE DEF ReclaimInv
<1>1. UNCHANGED <<epoch, count, local, seen, memoryVars, adv>> /\ job' = NoJob BY DEF GiveUp
<1>count. count' >= count BY <1>1 DEF TypeOK, Types
<1>2. CASE UNCHANGED <<pc, active, held>>
  <2>1. TypeOK' BY <1>1, <1>2 DEF TypeOK, Types, Stages, NoJob, memoryVars, ActiveWhilePinned
  <2>2. OneHolder' BY <1>1, <1>2 DEF OneHolder, NoJob
  <2>3. Pending' = Pending BY <1>1 DEF Pending, NoJob, GiveUp, Holds
  <2> QED BY <1>1, <1>2, <1>count, <2>1, <2>2, <2>3, QuietStep
<1>3. CASE pc[w] = "pinned" /\ Unpinned(w)
  <2>1. Types' BY <1>1, <1>3 DEF Types, TypeOK, Stages, NoJob, memoryVars, Unpinned
  <2>2. ActiveWhilePinned' BY <1>3 DEF TypeOK, Types, ActiveWhilePinned, Unpinned
  <2>3. OneHolder' BY <1>1, <1>3 DEF OneHolder, TypeOK, Types, NoJob, Unpinned
  <2>4. Pending' = Pending BY <1>1 DEF Pending, NoJob, GiveUp, Holds
  <2>5. \A q \in Participants : \A n \in held'[q] : n \in held[q]
    BY <1>3 DEF TypeOK, Types, Unpinned
  <2>6. TypeOK' BY <2>1, <2>2 DEF TypeOK, Types
  <2> QED BY <1>1, <1>count, <2>3, <2>4, <2>5, <2>6, QuietStep
<1> QED BY <1>2, <1>3 DEF GiveUp

-----------------------------------------------------------------------------
(* The steps of writers that move a node.                                  *)

\* The old root becomes pending and the new one leaves the free nodes.
LEMMA PublishStep ==
    ASSUME NEW w \in Writers, NEW r \in Roots, NEW n \in Nodes,
           ReclaimInv, Publish(w, r, n)
    PROVE  ReclaimInv'
<1> USE DEF ReclaimInv
<1>1. UNCHANGED <<epoch, count, participantVars, bags, retiredAt, adv>> BY DEF Publish
<1>2. /\ n \in free /\ free' = free \ {n}
      /\ \A q \in Roots : published'[q] = IF q = r THEN n ELSE published[q]
      /\ job' = [job EXCEPT !.stage = IF @ = "reserved" THEN "owed" ELSE "unlinked",
                            !.node = published[r]]
  BY DEF Publish, TypeOK, Types
<1>3. job.stage \in {"begun", "reserved"} BY DEF Publish
<1>4. TypeOK'
  <2>1. published' \in [Roots -> Nodes] BY DEF TypeOK, Types, Publish
  <2>2. job' \in [stage : Stages, by : Participants \union {0}, epoch : Nat,
                node : Nodes \union {NoNode}] BY <1>2, <1>3 DEF TypeOK, Types, Stages
  <2> QED BY <1>1, <1>2, <2>1, <2>2 DEF TypeOK, Types, ActiveWhilePinned, participantVars
<1>5. job'.node = published[r] /\ job'.by = job.by /\ job'.epoch = job.epoch
      /\ job'.stage = IF job.stage = "reserved" THEN "owed" ELSE "unlinked"
  BY <1>2 DEF TypeOK, Types
<1>6. OnePlace'
  <2>1. Limbo' = Limbo BY <1>1 DEF Limbo
  <2>2. Pending = {} BY <1>3 DEF Pending
  <2>3. Pending' = {published[r]} BY <1>3, <1>5 DEF Pending
  <2>4. published[r] \in Current /\ n \notin Current BY <1>2 DEF Current, OnePlace
  <2>5. Current' = (Current \ {published[r]}) \union {n}
    <3>1. \A q \in Roots : q # r => published[q] # published[r] BY DEF OnePlace
    <3>2. \A m \in Current' : m \in (Current \ {published[r]}) \union {n}
      BY <1>2, <3>1 DEF Current
    <3>3. \A m \in (Current \ {published[r]}) \union {n} : m \in Current'
      BY <1>2 DEF Current
    <3> QED BY <3>2, <3>3
  <2>6. \A r1, r2 \in Roots : published'[r1] = published'[r2] => r1 = r2
    BY <1>2, <2>4 DEF OnePlace, Current
  <2>7. \A p1, p2 \in Participants, b1, b2 \in 0..2 :
          bags'[p1][b1] \cap bags'[p2][b2] # {} => p1 = p2 /\ b1 = b2
    BY <1>1 DEF OnePlace
  <2>8. Current \subseteq Nodes BY DEF OnePlace
  <2> QED BY <1>2, <2>1, <2>2, <2>3, <2>4, <2>5, <2>6, <2>7, <2>8 DEF OnePlace
<1>7. FreedOnTime' BY <1>1 DEF FreedOnTime, Emptying
<1>8. OneHolder' BY <1>1, <1>3, <1>5 DEF OneHolder, participantVars, TypeOK, Types
<1>9. OneAdvance' BY <1>1 DEF OneAdvance, Scanning
<1>10. BagsInReach' BY <1>1 DEF BagsInReach
<1>11. ReadersHoldBack'
  <2>1. Limbo' = Limbo BY <1>1 DEF Limbo
  <2> QED BY <1>1, <2>1 DEF ReadersHoldBack, Scanning, participantVars
<1>12. NoUseAfterFree' BY <1>1, <1>2 DEF NoUseAfterFree, participantVars
<1> QED BY <1>4, <1>6, <1>7, <1>8, <1>9, <1>10, <1>11, <1>12

\* The pending node enters the bag of the present epoch; no advance is under way.
LEMMA RetireFrame ==
    ASSUME NEW w \in Writers, ReclaimInv, Holds(w), job.stage \in {"dated", "owed"},
           PutInBag(w), UNCHANGED <<epoch, count, participantVars, published, free, adv>>,
           job' \in [stage : {"none", "reserved"}, by : Participants \union {0}, epoch : Nat,
                     node : {NoNode}],
           job'.stage = "reserved" => job'.epoch = epoch /\ job'.by = w
    PROVE  ReclaimInv'
<1> USE DEF ReclaimInv
<1> DEFINE x == job.node  e == job.epoch
<1>1. e = epoch /\ x \in Nodes /\ adv.stage = "none" /\ w \in 1..count /\ w \in Participants
  BY DEF OneHolder, Holds
<1>2. BagIndex(e) \in 0..2 /\ e \in Nat BY <1>1 DEF TypeOK, Types, BagIndex
<1>3. \A p \in Participants, b \in 0..2 :
         bags'[p][b] = IF p = w /\ b = BagIndex(e) THEN bags[p][b] \union {x} ELSE bags[p][b]
  BY <1>1, <1>2 DEF TypeOK, Types, PutInBag
<1>4. \A n \in Nodes : retiredAt'[n] = IF n = x THEN e ELSE retiredAt[n]
  BY <1>1 DEF TypeOK, Types, PutInBag
<1>5. Pending = {x} /\ Pending' = {} BY DEF Pending
<1>6. x \notin Limbo /\ x \notin free /\ x \notin Current BY <1>5 DEF OnePlace
<1>7. Limbo' = Limbo \union {x}
  <2>1. ASSUME NEW n \in Limbo' PROVE n \in Limbo \/ n = x
    <3>1. PICK p \in Participants, b \in 0..2 : n \in bags'[p][b] BY DEF Limbo
    <3>2. n \in Nodes BY DEF Limbo
    <3>3. n = x \/ n \in bags[p][b] BY <1>3, <3>1
    <3> QED BY <3>1, <3>2, <3>3 DEF Limbo
  <2>2. \A n \in Limbo : n \in Limbo' BY <1>3 DEF Limbo
  <2>3. x \in Limbo' BY <1>1, <1>2, <1>3 DEF Limbo
  <2> QED BY <2>1, <2>2, <2>3
<1>8. \A p \in Participants, b \in 0..2 : x \notin bags[p][b] BY <1>1, <1>6 DEF Limbo
<1> HIDE DEF x, e
<1>9. TypeOK'
  <2>1. bags' \in [Participants -> [0..2 -> SUBSET Nodes]]
    <3>1. bags[w][BagIndex(e)] \union {x} \in SUBSET Nodes BY <1>1, <1>2 DEF TypeOK, Types
    <3>2. bags' = [bags EXCEPT ![w][BagIndex(e)] = @ \union {x}] BY DEF PutInBag, x, e
    <3>3. bags \in [Participants -> [0..2 -> SUBSET Nodes]] BY DEF TypeOK, Types
    <3> QED BY <1>1, <1>2, <3>1, <3>2, <3>3
  <2>2. retiredAt' \in [Nodes -> Nat] BY <1>1, <1>2 DEF TypeOK, Types, PutInBag, x, e
  <2>3. job' \in [stage : Stages, by : Participants \union {0}, epoch : Nat,
                node : Nodes \union {NoNode}] BY DEF Stages
  <2> QED BY <2>1, <2>2, <2>3 DEF TypeOK, Types, ActiveWhilePinned, participantVars
<1>10. OnePlace'
  <2>1. Current' = Current BY DEF Current
  <2>2. \A p1, p2 \in Participants, b1, b2 \in 0..2 :
          bags'[p1][b1] \cap bags'[p2][b2] # {} => p1 = p2 /\ b1 = b2
    <3> SUFFICES ASSUME NEW p1 \in Participants, NEW p2 \in Participants,
                        NEW b1 \in 0..2, NEW b2 \in 0..2, NEW n,
                        n \in bags'[p1][b1], n \in bags'[p2][b2]
                 PROVE  p1 = p2 /\ b1 = b2
      OBVIOUS
    <3>1. /\ n \in bags[p1][b1] \/ (n = x /\ p1 = w /\ b1 = BagIndex(e))
          /\ n \in bags[p2][b2] \/ (n = x /\ p2 = w /\ b2 = BagIndex(e))
      <4>1. bags'[p1][b1] = IF p1 = w /\ b1 = BagIndex(e) THEN bags[p1][b1] \union {x} ELSE bags[p1][b1]
        BY <1>3
      <4>2. bags'[p2][b2] = IF p2 = w /\ b2 = BagIndex(e) THEN bags[p2][b2] \union {x} ELSE bags[p2][b2]
        BY <1>3
      <4> QED BY <4>1, <4>2
    <3>2. CASE n = x
      <4>1. n \notin bags[p1][b1] /\ n \notin bags[p2][b2] BY <1>8, <3>2
      <4> QED BY <3>1, <4>1
    <3>3. CASE n # x
      <4>1. n \in bags[p1][b1] /\ n \in bags[p2][b2] BY <3>1, <3>3
      <4> QED BY <4>1 DEF OnePlace
    <3> QED BY <3>2, <3>3
  <2> QED BY <1>5, <1>6, <1>7, <2>1, <2>2 DEF OnePlace
<1>11. FreedOnTime'
  <2> SUFFICES ASSUME NEW p \in Participants, NEW b \in 0..2, NEW n \in bags'[p][b]
               PROVE  /\ BagIndex(retiredAt'[n]) = b
                      /\ retiredAt'[n] <= epoch
                      /\ epoch <= retiredAt'[n] + 2
    BY <1>1 DEF FreedOnTime, Emptying
  <2>1. n \in Nodes
    <3>1. bags' \in [Participants -> [0..2 -> SUBSET Nodes]] BY <1>9 DEF TypeOK, Types
    <3> QED BY <3>1
  <2>2. CASE n = x
    <3>1. p = w /\ b = BagIndex(e) BY <1>3, <1>8, <2>2
    <3>2. retiredAt'[n] = epoch BY <1>1, <1>4, <2>1, <2>2
    <3> QED BY <1>1, <1>2, <3>1, <3>2
  <2>3. CASE n # x
    <3>1. n \in bags[p][b] /\ retiredAt'[n] = retiredAt[n] BY <1>3, <1>4, <2>1, <2>3
    <3> QED BY <1>1, <3>1 DEF FreedOnTime, Emptying
  <2> QED BY <2>2, <2>3
<1>12. OneHolder' BY <1>1 DEF OneHolder, participantVars
<1>13. OneAdvance' BY DEF OneAdvance, Scanning
<1>14. BagsInReach'
  <2>1. ASSUME NEW p \in Participants, NEW b \in 0..2, NEW n \in bags'[p][b]
        PROVE  p <= count
    <3>1. CASE p = w BY <1>1, <3>1 DEF TypeOK, Types
    <3>2. CASE p # w BY <1>3, <3>2 DEF BagsInReach
    <3> QED BY <3>1, <3>2
  <2> QED BY <1>1, <2>1 DEF BagsInReach
<1>15. ReadersHoldBack'
  <2> SUFFICES ASSUME NEW p \in Participants, NEW n \in held[p], n \in Limbo'
               PROVE  \/ epoch = retiredAt'[n]
                      \/ epoch = retiredAt'[n] + 1 /\ local[p] = retiredAt'[n]
    BY <1>1 DEF ReadersHoldBack, Scanning, participantVars
  <2>1. n \in Nodes BY DEF TypeOK, Types
  <2>2. CASE n = x BY <1>1, <1>4, <2>1, <2>2
  <2>3. CASE n # x BY <1>4, <1>7, <2>1, <2>3 DEF ReadersHoldBack
  <2> QED BY <2>2, <2>3
<1>16. NoUseAfterFree' BY DEF NoUseAfterFree, participantVars
<1> QED BY <1>9, <1>10, <1>11, <1>12, <1>13, <1>14, <1>15, <1>16

\* The two ways to retire.
LEMMA RetireStep ==
    ASSUME NEW w \in Writers, ReclaimInv, Retire(w)
    PROVE  ReclaimInv'
BY RetireFrame DEF Retire, NoJob

LEMMA RetireReservedStep ==
    ASSUME NEW w \in Writers, ReclaimInv, RetireReserved(w)
    PROVE  ReclaimInv'
<1>1. job' \in [stage : {"none", "reserved"}, by : Participants \union {0}, epoch : Nat,
                     node : {NoNode}]
      /\ job'.epoch = job.epoch /\ job'.by = job.by
  BY DEF RetireReserved, ReclaimInv, TypeOK, Types
<1> QED BY <1>1, RetireFrame DEF RetireReserved, ReclaimInv, OneHolder, Holds

-----------------------------------------------------------------------------
(* The advance.                                                            *)

\* A step of an advance that moves no node and leaves the epoch.
LEMMA ScanFrame ==
    ASSUME ReclaimInv, UNCHANGED <<epoch, count, participantVars, memoryVars, job>>,
           adv' \in [stage : {"none", "scan", "compare", "reclaim"}, current : Nat,
                     at : 0..(MaxParticipants + 1), last : 0..MaxParticipants],
           adv'.stage \in {"scan", "compare"} =>
              /\ adv'.current = epoch /\ job.stage = "none"
              /\ adv'.at \in 1..(adv'.last + 1) /\ adv'.last <= count
              /\ adv'.stage = "compare" => adv'.at <= adv'.last
              /\ \A p \in Participants : p > count \/ p <= adv'.last
                                         \/ (held[p] \cap Limbo = {} /\ \A b \in 0..2 : bags[p][b] = {})
              /\ \A p \in Participants : \A n \in held[p] \cap Limbo :
                    p < adv'.at => local[p] = epoch,
           adv'.stage # "reclaim",
           \A p \in Participants, b \in 0..2 : bags[p][b] = {} \/ ~ Emptying(p, b)
    PROVE  ReclaimInv'
<1> USE DEF ReclaimInv, memoryVars, participantVars
<1>1. TypeOK' BY DEF TypeOK, Types, ActiveWhilePinned
<1>2. OnePlace'
  <2>1. Pending' = Pending BY DEF Pending
  <2> QED BY <2>1, OnePlaceFrame
<1>3. FreedOnTime'
  <2>1. \A p \in Participants, b \in 0..2 : ~ Emptying(p, b)' BY DEF Emptying
  <2> QED BY <2>1 DEF FreedOnTime
<1>4. OneHolder'
  <2>1. job.stage # "none" => adv'.stage = "none" OBVIOUS
  <2> QED BY <2>1 DEF OneHolder
<1>5. OneAdvance' BY DEF OneAdvance, Scanning
<1>count. count \in Nat BY DEF TypeOK, Types
<1>stage. adv'.stage \in {"none", "scan", "compare"} OBVIOUS
<1>6. BagsInReach'
  <2> SUFFICES ASSUME NEW p \in Participants, NEW b \in 0..2, NEW n \in bags[p][b]
               PROVE  p <= count /\ (adv'.stage # "none" => p <= adv'.last)
    BY <1>stage DEF BagsInReach
  <2>1. p <= count /\ ~ (p > count) BY <1>count DEF BagsInReach
  <2> QED BY <1>stage, <2>1
<1>7. ReadersHoldBack'
  <2>1. Limbo' = Limbo BY DEF Limbo
  <2> SUFFICES ASSUME NEW p \in Participants, NEW n \in held[p], n \in Limbo,
                      adv'.stage \in {"scan", "compare"}
               PROVE  p <= adv'.last /\ (p < adv'.at => local[p] = epoch)
    BY <2>1 DEF ReadersHoldBack, Scanning
  <2>2. ~ (p > count) BY DEF OneHolder
  <2> QED BY <2>2
<1>8. NoUseAfterFree' BY DEF NoUseAfterFree
<1> QED BY <1>1, <1>2, <1>3, <1>4, <1>5, <1>6, <1>7, <1>8

\* A scan passes a participant that is not pinned, or pinned in this epoch.
LEMMA BeginAdvanceStep ==
    ASSUME ReclaimInv, BeginAdvance
    PROVE  ReclaimInv'
<1> USE DEF ReclaimInv
<1>1. adv' = [stage |-> "scan", current |-> epoch, at |-> 1, last |-> count]
      /\ adv.stage = "none" /\ job.stage = "none"
      /\ UNCHANGED <<epoch, count, participantVars, memoryVars, job>>
  BY DEF BeginAdvance, Begun, LockFree
<1>2. count \in 0..MaxParticipants /\ epoch \in Nat BY DEF TypeOK, Types
<1> QED BY <1>1, <1>2, ScanFrame DEF Emptying

LEMMA ScanActiveStep ==
    ASSUME ReclaimInv, ScanActive
    PROVE  ReclaimInv'
<1> USE DEF ReclaimInv
<1>1. UNCHANGED <<epoch, count, participantVars, memoryVars, job>>
      /\ adv.stage = "scan" /\ adv.at <= adv.last
  BY DEF ScanActive
<1>2. adv.at \in Participants /\ adv.current = epoch /\ adv.last <= count
      /\ adv.last \in 0..MaxParticipants /\ count \in Nat /\ epoch \in Nat
  BY <1>1 DEF OneAdvance, Scanning, TypeOK, Types
<1>3. job.stage = "none" BY <1>1 DEF OneHolder
<1>4. \A p \in Participants : \A n \in held[p] \cap Limbo :
         p <= adv.last /\ (p < adv.at => local[p] = epoch)
  BY <1>1 DEF ReadersHoldBack, Scanning
<1>5. \A p \in Participants, b \in 0..2 : ~ Emptying(p, b) BY <1>1 DEF Emptying
<1>6. \A p \in Participants, b \in 0..2 : bags[p][b] = {} \/ p <= adv.last
  BY <1>1 DEF BagsInReach
<1>7. CASE active[adv.at]
  <2>1. adv' = [adv EXCEPT !.stage = "compare"] BY <1>7 DEF ScanActive
  <2>2. adv' = [stage |-> "compare", current |-> epoch, at |-> adv.at, last |-> adv.last]
    BY <1>2, <2>1 DEF TypeOK, Types
  <2> QED BY <1>1, <1>2, <1>3, <1>4, <1>5, <1>6, <2>2, ScanFrame
<1>8. CASE ~ active[adv.at]
  <2>1. adv' = [adv EXCEPT !.at = @ + 1] BY <1>8 DEF ScanActive
  <2>2. adv' = [stage |-> "scan", current |-> epoch, at |-> adv.at + 1, last |-> adv.last]
    BY <1>1, <1>2, <2>1 DEF TypeOK, Types
  <2>3. held[adv.at] = {} BY <1>2, <1>8 DEF OneHolder, TypeOK, Types, ActiveWhilePinned
  <2> QED BY <1>1, <1>2, <1>3, <1>4, <1>5, <1>6, <2>2, <2>3, ScanFrame
<1> QED BY <1>7, <1>8

LEMMA CompareLocalStep ==
    ASSUME ReclaimInv, CompareLocal
    PROVE  ReclaimInv'
<1> USE DEF ReclaimInv
<1>1. UNCHANGED <<epoch, count, participantVars, memoryVars, job>> /\ adv.stage = "compare"
  BY DEF CompareLocal
<1>2. adv.at \in Participants /\ adv.current = epoch /\ adv.last <= count /\ adv.at <= adv.last
      /\ adv.last \in 0..MaxParticipants /\ count \in Nat /\ epoch \in Nat
  BY <1>1 DEF OneAdvance, Scanning, TypeOK, Types
<1>3. job.stage = "none" BY <1>1 DEF OneHolder
<1>4. \A p \in Participants : \A n \in held[p] \cap Limbo :
         p <= adv.last /\ (p < adv.at => local[p] = epoch)
  BY <1>1 DEF ReadersHoldBack, Scanning
<1>5. \A p \in Participants, b \in 0..2 : ~ Emptying(p, b) BY <1>1 DEF Emptying
<1>6. \A p \in Participants, b \in 0..2 : bags[p][b] = {} \/ p <= adv.last
  BY <1>1 DEF BagsInReach
<1>7. CASE local[adv.at] = adv.current
  <2>1. adv' = [adv EXCEPT !.stage = "scan", !.at = @ + 1] BY <1>7 DEF CompareLocal
  <2>2. adv' = [stage |-> "scan", current |-> epoch, at |-> adv.at + 1, last |-> adv.last]
    BY <1>1, <1>2, <2>1 DEF TypeOK, Types
  <2> QED BY <1>1, <1>2, <1>3, <1>4, <1>5, <1>6, <1>7, <2>2, ScanFrame
<1>8. CASE local[adv.at] # adv.current
  <2>1. adv' = NoAdvance BY <1>8 DEF CompareLocal
  <2> QED BY <1>1, <1>5, <2>1, ScanFrame DEF NoAdvance
<1> QED BY <1>7, <1>8

\* At the end the bag is empty at every participant.
LEMMA EndAdvanceStep ==
    ASSUME ReclaimInv, EndAdvance
    PROVE  ReclaimInv'
<1> USE DEF ReclaimInv
<1>1. UNCHANGED <<epoch, count, participantVars, memoryVars, job>> /\ adv' = NoAdvance
      /\ adv.stage = "reclaim" /\ adv.at > adv.last
  BY DEF EndAdvance
<1>2. adv.at \in Nat /\ adv.last \in Nat BY DEF TypeOK, Types
<1>3. \A p \in Participants, b \in 0..2 : bags[p][b] = {} \/ ~ Emptying(p, b)
  BY <1>1, <1>2 DEF Emptying, BagsInReach
<1> QED BY <1>1, <1>3, ScanFrame DEF NoAdvance

\* The new epoch: every reader of a retired node is pinned in the one before.
LEMMA StoreEpochStep ==
    ASSUME ReclaimInv, StoreEpoch
    PROVE  ReclaimInv'
<1> USE DEF ReclaimInv
<1>1. UNCHANGED <<count, participantVars, memoryVars, job>>
      /\ adv.stage = "scan" /\ adv.at > adv.last /\ epoch' = adv.current + 1
      /\ adv' = [adv EXCEPT !.stage = "reclaim", !.at = 1, !.last = count]
  BY DEF StoreEpoch
<1>2. adv.current = epoch /\ epoch \in Nat /\ count \in 0..MaxParticipants
      /\ adv.at \in Nat /\ adv.last \in Nat
  BY <1>1 DEF OneAdvance, Scanning, TypeOK, Types
<1>3. adv' = [stage |-> "reclaim", current |-> epoch, at |-> 1, last |-> count]
  BY <1>1, <1>2 DEF TypeOK, Types
<1>4. epoch' = epoch + 1 /\ job.stage = "none" BY <1>1, <1>2 DEF OneHolder
<1>5. TypeOK'
  <2>1. adv' \in [stage : {"none", "scan", "compare", "reclaim"}, current : Nat,
                  at : 0..(MaxParticipants + 1), last : 0..MaxParticipants]
    BY <1>2, <1>3
  <2>2. epoch' \in Nat BY <1>2, <1>4
  <2> QED BY <1>1, <2>1, <2>2 DEF TypeOK, Types, ActiveWhilePinned, memoryVars, participantVars
<1>6. OnePlace'
  <2>1. Pending' = Pending BY <1>1 DEF Pending
  <2> QED BY <1>1, <2>1, OnePlaceFrame DEF memoryVars
<1>7. FreedOnTime'
  <2> SUFFICES ASSUME NEW p \in Participants, NEW b \in 0..2, NEW n \in bags[p][b]
               PROVE  /\ BagIndex(retiredAt[n]) = b
                      /\ retiredAt[n] <= epoch + 1
                      /\ epoch + 1 <= retiredAt[n] + (IF b = BagIndex(epoch + 1) THEN 3 ELSE 2)
    BY <1>1, <1>3, <1>4 DEF FreedOnTime, Emptying, memoryVars
  <2>1. n \in Nodes
    <3>1. bags \in [Participants -> [0..2 -> SUBSET Nodes]] BY DEF TypeOK, Types
    <3> QED BY <3>1
  <2>2. retiredAt[n] \in Nat BY <2>1 DEF TypeOK, Types
  <2>3. /\ BagIndex(retiredAt[n]) = b
        /\ retiredAt[n] <= epoch /\ epoch <= retiredAt[n] + 2
    BY <1>1 DEF FreedOnTime, Emptying
  <2>4. epoch + 1 = retiredAt[n] + 3 => b = BagIndex(epoch + 1) BY <1>2, <2>2, <2>3 DEF BagIndex
  <2> QED BY <1>2, <2>2, <2>3, <2>4
<1>8. OneHolder' BY <1>1, <1>4 DEF OneHolder, participantVars
<1>9. OneAdvance' BY <1>2, <1>3, <1>4, <1>1 DEF OneAdvance, Scanning
<1>10. BagsInReach'
  <2> SUFFICES ASSUME NEW p \in Participants, NEW b \in 0..2, NEW n \in bags[p][b]
               PROVE  p <= count /\ retiredAt[n] < epoch + 1
    BY <1>1, <1>3, <1>4 DEF BagsInReach, memoryVars
  <2>1. n \in Nodes
    <3>1. bags \in [Participants -> [0..2 -> SUBSET Nodes]] BY DEF TypeOK, Types
    <3> QED BY <3>1
  <2>2. retiredAt[n] \in Nat BY <2>1 DEF TypeOK, Types
  <2> QED BY <1>2, <2>2 DEF FreedOnTime, BagsInReach
<1>11. ReadersHoldBack'
  <2>0. Limbo' = Limbo BY <1>1 DEF Limbo, memoryVars
  <2> SUFFICES ASSUME NEW p \in Participants, NEW n \in held[p], n \in Limbo
               PROVE  epoch + 1 = retiredAt[n] + 1 /\ local[p] = retiredAt[n]
    BY <1>1, <1>3, <1>4, <2>0 DEF ReadersHoldBack, Scanning, memoryVars, participantVars
  <2>1. n \in Nodes BY DEF Limbo
  <2>2. retiredAt[n] \in Nat /\ local[p] \in Nat BY <2>1 DEF TypeOK, Types
  <2>3. p <= adv.last /\ (p < adv.at => local[p] = epoch)
        /\ (epoch = retiredAt[n] \/ (epoch = retiredAt[n] + 1 /\ local[p] = retiredAt[n]))
    BY <1>1 DEF ReadersHoldBack, Scanning
  <2> QED BY <1>1, <1>2, <2>2, <2>3
<1>12. NoUseAfterFree' BY <1>1 DEF NoUseAfterFree, memoryVars, participantVars
<1> QED BY <1>5, <1>6, <1>7, <1>8, <1>9, <1>10, <1>11, <1>12

\* What is freed is three epochs old, and no reader holds it back.
LEMMA ReclaimBagStep ==
    ASSUME ReclaimInv, ReclaimBag
    PROVE  ReclaimInv'
<1> USE DEF ReclaimInv
<1> DEFINE at == adv.at  bag == BagIndex(adv.current + 1)  gone == bags[at][bag]
<1>1. UNCHANGED <<epoch, count, participantVars, published, job>>
      /\ adv.stage = "reclaim" /\ at <= adv.last /\ Freed(gone)
      /\ bags' = [bags EXCEPT ![at][bag] = {}] /\ adv' = [adv EXCEPT !.at = @ + 1]
  BY DEF ReclaimBag
<1>2. at \in Participants /\ adv.last <= count /\ adv.last \in 0..MaxParticipants
      /\ epoch = adv.current + 1 /\ epoch \in Nat /\ job.stage = "none" /\ count \in Nat
      /\ adv.current \in Nat
  BY <1>1 DEF OneAdvance, OneHolder, TypeOK, Types
<1>3. bag = BagIndex(epoch) /\ bag \in 0..2 BY <1>2 DEF BagIndex
<1>4. bags \in [Participants -> [0..2 -> SUBSET Nodes]] BY DEF TypeOK, Types
<1>5. gone \subseteq Nodes /\ gone \subseteq Limbo BY <1>2, <1>3, <1>4 DEF Limbo
<1>6. \A p \in Participants, b \in 0..2 :
         bags'[p][b] = IF p = at /\ b = bag THEN {} ELSE bags[p][b]
  BY <1>1, <1>2, <1>3, <1>4
<1>7. free' = free \union gone
      /\ \A n \in Nodes : retiredAt'[n] = IF n \in gone THEN 0 ELSE retiredAt[n]
  BY <1>1 DEF Freed
<1>8. adv' = [stage |-> "reclaim", current |-> adv.current, at |-> at + 1, last |-> adv.last]
  BY <1>1 DEF TypeOK, Types
<1>9. \A p \in Participants, b \in 0..2 : \A n \in bags'[p][b] :
         n \in bags[p][b] /\ n \in Nodes /\ n \notin gone /\ retiredAt'[n] = retiredAt[n]
  <2> SUFFICES ASSUME NEW p \in Participants, NEW b \in 0..2, NEW n \in bags'[p][b]
               PROVE  n \in bags[p][b] /\ n \in Nodes /\ n \notin gone /\ retiredAt'[n] = retiredAt[n]
    OBVIOUS
  <2>1. n \in bags[p][b] /\ ~ (p = at /\ b = bag) BY <1>6
  <2>2. n \in Nodes BY <1>4, <2>1
  <2>3. n \notin gone BY <1>2, <1>3, <2>1 DEF OnePlace
  <2> QED BY <1>7, <2>1, <2>2, <2>3
<1>10. Limbo' = Limbo \ gone
  <2>1. ASSUME NEW n \in Limbo' PROVE n \in Limbo \ gone
    <3>1. PICK p \in Participants, b \in 0..2 : n \in bags'[p][b] BY DEF Limbo
    <3> QED BY <1>9, <3>1 DEF Limbo
  <2>2. ASSUME NEW n \in Limbo \ gone PROVE n \in Limbo'
    <3>1. PICK p \in Participants, b \in 0..2 : n \in bags[p][b] BY DEF Limbo
    <3>2. n \in bags'[p][b] BY <1>6, <3>1
    <3>3. n \in Nodes BY DEF Limbo
    <3> QED BY <3>2, <3>3 DEF Limbo
  <2> QED BY <2>1, <2>2
<1> HIDE DEF at, bag, gone
<1>11. TypeOK'
  <2>1. bags' \in [Participants -> [0..2 -> SUBSET Nodes]] BY <1>1, <1>2, <1>3, <1>4
  <2>2. retiredAt' \in [Nodes -> Nat] BY <1>1 DEF Freed, TypeOK, Types
  <2>3. free' \subseteq Nodes BY <1>5, <1>7 DEF TypeOK, Types
  <2>4. adv' \in [stage : {"none", "scan", "compare", "reclaim"}, current : Nat,
                  at : 0..(MaxParticipants + 1), last : 0..MaxParticipants]
    BY <1>2, <1>8
  <2> QED BY <1>1, <2>1, <2>2, <2>3, <2>4 DEF TypeOK, Types, ActiveWhilePinned, participantVars
<1>12. OnePlace'
  <2>1. Current' = Current /\ Pending' = Pending BY <1>1 DEF Current, Pending
  <2>2. \A p1, p2 \in Participants, b1, b2 \in 0..2 :
          bags'[p1][b1] \cap bags'[p2][b2] # {} => p1 = p2 /\ b1 = b2
    <3> SUFFICES ASSUME NEW p1 \in Participants, NEW p2 \in Participants,
                        NEW b1 \in 0..2, NEW b2 \in 0..2, NEW n,
                        n \in bags'[p1][b1], n \in bags'[p2][b2]
                 PROVE  p1 = p2 /\ b1 = b2
      OBVIOUS
    <3>1. n \in bags[p1][b1] /\ n \in bags[p2][b2] BY <1>9
    <3> QED BY <3>1 DEF OnePlace
  <2>3. \A r1, r2 \in Roots : published'[r1] = published'[r2] => r1 = r2 BY <1>1 DEF OnePlace
  <2> QED BY <1>5, <1>7, <1>10, <2>1, <2>2, <2>3 DEF OnePlace
<1>13. FreedOnTime'
  <2> SUFFICES ASSUME NEW p \in Participants, NEW b \in 0..2, NEW n \in bags'[p][b]
               PROVE  /\ BagIndex(retiredAt'[n]) = b
                      /\ retiredAt'[n] <= epoch
                      /\ epoch <= retiredAt'[n]
                                  + (IF b = BagIndex(adv.current + 1) /\ at + 1 <= p THEN 3 ELSE 2)
    BY <1>1, <1>8 DEF FreedOnTime, Emptying
  <2>1. n \in bags[p][b] /\ n \in Nodes /\ retiredAt'[n] = retiredAt[n] BY <1>9
  <2>2. /\ BagIndex(retiredAt[n]) = b /\ retiredAt[n] <= epoch
        /\ epoch <= retiredAt[n] + (IF b = bag /\ at <= p THEN 3 ELSE 2)
    BY <1>1, <2>1 DEF FreedOnTime, Emptying, at, bag
  <2>3. ~ (p = at /\ b = bag) BY <1>6
  <2>4. at \in Int BY <1>2
  <2> QED BY <2>1, <2>2, <2>3, <2>4 DEF bag
<1>14. OneHolder' BY <1>1, <1>2 DEF OneHolder, participantVars
<1>15. OneAdvance' BY <1>1, <1>2, <1>8 DEF OneAdvance, Scanning
<1>16. BagsInReach'
  <2> SUFFICES ASSUME NEW p \in Participants, NEW b \in 0..2, NEW n \in bags'[p][b]
               PROVE  p <= count /\ p <= adv.last /\ retiredAt'[n] < epoch
    BY <1>1, <1>8 DEF BagsInReach
  <2>1. n \in bags[p][b] /\ retiredAt'[n] = retiredAt[n] BY <1>9
  <2> QED BY <1>1, <2>1 DEF BagsInReach
<1>17. ReadersHoldBack'
  <2> SUFFICES ASSUME NEW p \in Participants, NEW n \in held[p], n \in Limbo \ gone
               PROVE  \/ epoch = retiredAt'[n]
                      \/ epoch = retiredAt'[n] + 1 /\ local[p] = retiredAt'[n]
    BY <1>1, <1>8, <1>10 DEF ReadersHoldBack, Scanning, participantVars
  <2>1. n \in Nodes BY DEF Limbo
  <2> QED BY <1>7, <2>1 DEF ReadersHoldBack
<1>18. NoUseAfterFree'
  <2> SUFFICES ASSUME NEW p \in Participants, NEW n \in held[p] PROVE n \notin gone
    BY <1>1, <1>7 DEF NoUseAfterFree, participantVars
  <2> SUFFICES ASSUME n \in gone PROVE FALSE
    OBVIOUS
  <2>1. n \in bags[at][bag] /\ n \in Nodes /\ n \in Limbo BY <1>5 DEF gone
  <2>2. retiredAt[n] \in Nat BY <2>1 DEF TypeOK, Types
  <2>3. BagIndex(retiredAt[n]) = BagIndex(epoch) /\ retiredAt[n] < epoch
    BY <1>1, <1>2, <1>3, <2>1 DEF FreedOnTime, BagsInReach
  <2>4. epoch <= retiredAt[n] + 1 BY <1>2, <2>1, <2>2 DEF ReadersHoldBack
  <2> QED BY <1>2, <2>2, <2>3, <2>4 DEF BagIndex
<1> QED BY <1>11, <1>12, <1>13, <1>14, <1>15, <1>16, <1>17, <1>18

\* Draining, with no reader left.
LEMMA DrainAllStep ==
    ASSUME ReclaimInv, DrainAll
    PROVE  ReclaimInv'
<1> USE DEF ReclaimInv
<1>1. UNCHANGED <<epoch, count, participantVars, published, job, adv>> /\ Freed(Limbo)
      /\ bags' = [p \in Participants |-> [b \in 0..2 |-> {}]]
      /\ job.stage = "none" /\ adv.stage = "none"
  BY DEF DrainAll, LockFree
<1>2. \A p \in Participants : held[p] = {} BY DEF DrainAll, OneHolder
<1>3. \A p \in Participants, b \in 0..2 : bags'[p][b] = {} BY <1>1
<1>4. Limbo' = {} BY <1>3 DEF Limbo
<1>5. free' = free \union Limbo /\ Limbo \subseteq Nodes BY <1>1 DEF Freed, Limbo
<1>6. TypeOK'
  <2>1. bags' \in [Participants -> [0..2 -> SUBSET Nodes]] BY <1>1
  <2>2. retiredAt' \in [Nodes -> Nat] BY <1>1 DEF Freed, TypeOK, Types
  <2>3. free' \subseteq Nodes BY <1>5 DEF TypeOK, Types
  <2> QED BY <1>1, <2>1, <2>2, <2>3 DEF TypeOK, Types, ActiveWhilePinned, participantVars
<1>7. OnePlace'
  <2>1. Current' = Current /\ Pending' = Pending BY <1>1 DEF Current, Pending
  <2>2. \A p1, p2 \in Participants, b1, b2 \in 0..2 : bags'[p1][b1] \cap bags'[p2][b2] = {}
    BY <1>3
  <2>3. \A r1, r2 \in Roots : published'[r1] = published'[r2] => r1 = r2 BY <1>1 DEF OnePlace
  <2> QED BY <1>4, <1>5, <2>1, <2>2, <2>3 DEF OnePlace
<1>8. FreedOnTime' BY <1>3 DEF FreedOnTime
<1>9. OneHolder' BY <1>1 DEF OneHolder, participantVars
<1>10. OneAdvance' BY <1>1 DEF OneAdvance, Scanning
<1>11. BagsInReach' BY <1>3 DEF BagsInReach
<1>12. ReadersHoldBack' BY <1>4 DEF ReadersHoldBack
<1>13. NoUseAfterFree' BY <1>1, <1>2 DEF NoUseAfterFree, participantVars
<1> QED BY <1>6, <1>7, <1>8, <1>9, <1>10, <1>11, <1>12, <1>13

-----------------------------------------------------------------------------

\* The initial states.
LEMMA InitInv == Init => ReclaimInv
<1> SUFFICES ASSUME Init PROVE ReclaimInv
  OBVIOUS
<1> USE DEF Init
<1>1. TypeOK BY DEF TypeOK, Types, ActiveWhilePinned, Stages, NoJob, NoAdvance
<1>2. \A p \in Participants : held[p] = {} /\ \A b \in 0..2 : bags[p][b] = {}
  OBVIOUS
<1>3. Limbo = {} BY <1>2 DEF Limbo
<1>4. OnePlace
  <2>1. Pending = {} BY DEF Pending, NoJob
  <2>2. free = Nodes \ Current /\ Current \subseteq Nodes BY DEF Current
  <2> QED BY <1>2, <1>3, <2>1, <2>2 DEF OnePlace
<1>5. FreedOnTime /\ BagsInReach BY <1>2 DEF FreedOnTime, BagsInReach
<1>6. OneHolder /\ OneAdvance BY DEF OneHolder, OneAdvance, Scanning, NoJob, NoAdvance
<1>7. ReadersHoldBack /\ NoUseAfterFree BY <1>2 DEF ReadersHoldBack, NoUseAfterFree
<1> QED BY <1>1, <1>4, <1>5, <1>6, <1>7 DEF ReclaimInv

\* Stuttering.
LEMMA StutterInv == ReclaimInv /\ UNCHANGED vars => ReclaimInv'
<1> SUFFICES ASSUME ReclaimInv, UNCHANGED vars PROVE ReclaimInv'
  OBVIOUS
<1> USE DEF ReclaimInv, vars, memoryVars, participantVars
<1>1. TypeOK' BY DEF TypeOK, Types, ActiveWhilePinned
<1>2. OneHolder' BY DEF OneHolder
<1>3. Pending' = Pending BY DEF Pending
<1>4. count' >= count BY DEF TypeOK, Types
<1> QED BY <1>1, <1>2, <1>3, <1>4, QuietStep

\* Every step.
LEMMA NextInv == ReclaimInv /\ [Next]_vars => ReclaimInv'
<1> SUFFICES ASSUME ReclaimInv, [Next]_vars PROVE ReclaimInv'
  OBVIOUS
<1>1. CASE UNCHANGED vars BY <1>1, StutterInv
<1>2. ASSUME NEW p \in Participants,
             Register(p) \/ Unregister(p) \/ Pin(p) \/ Unpin(p) \/ \E r \in Roots : Read(p, r)
      PROVE  ReclaimInv'
  BY <1>2, RegisterStep, UnregisterStep, PinLoadStep, PinLocalStep, PinActiveStep, UnpinStep,
     ReadStep DEF Pin
<1>3. ASSUME NEW w \in Writers, Write(w)
      PROVE  ReclaimInv'
  BY <1>3, LockWriterStep, ReserveStep, PublishStep, LoadRetireEpochStep, RetireStep,
     RetireReservedStep, FinishStep, GiveUpStep DEF Write
<1>4. CASE Advance
  BY <1>4, BeginAdvanceStep, ScanActiveStep, CompareLocalStep, StoreEpochStep, ReclaimBagStep,
     EndAdvanceStep DEF Advance
<1>5. CASE DrainAll BY <1>5, DrainAllStep
<1> QED BY <1>1, <1>2, <1>3, <1>4, <1>5 DEF Next

\* The bookkeeping of ebr.zig under one lock for writers and advances, and what a
\* pinned reader holds back, in every reachable state.
THEOREM ReclaimInvariant == Spec => []ReclaimInv
BY InitInv, NextInv, PTL DEF Spec

\* The promise of ebr.zig: no reader observes freed memory, whatever it was doing
\* while roots were replaced and the epoch advanced.
THEOREM ReadersAreSafe == Spec => []NoUseAfterFree
<1>1. ReclaimInv => NoUseAfterFree BY DEF ReclaimInv
<1> QED BY <1>1, ReclaimInvariant, PTL

\* No node is freed twice, lost, or listed for reclamation while published.
THEOREM NodesHaveOnePlace == Spec => []OnePlace
<1>1. ReclaimInv => OnePlace BY DEF ReclaimInv
<1> QED BY <1>1, ReclaimInvariant, PTL

\* The rotation of three bags: what is retired in an epoch is freed with the third
\* advance after it at the latest, and each bag holds one epoch only.
THEOREM ThirdEpochFrees == Spec => []FreedOnTime
<1>1. ReclaimInv => FreedOnTime BY DEF ReclaimInv
<1> QED BY <1>1, ReclaimInvariant, PTL

=============================================================================
