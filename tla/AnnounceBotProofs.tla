------------------------- MODULE AnnounceBotProofs -------------------------
(***************************************************************************)
(* The announce bot, for any projects, servers, faults and bounds.         *)
(*                                                                         *)
(* The build inventory: each project waits for the worker at most once,    *)
(* and a project that is marked is never lost.  The inductive invariant    *)
(* adds to SingleFlight the types and that the worker holds a key exactly  *)
(* while it measures: without it a worker at rest could drop a mark, or    *)
(* one that asks for everything could overwrite the key in its hands.      *)
(*                                                                         *)
(* The bot uses the inventory as its specification allows: every step of   *)
(* the program is a step of the inventory with some thread that asks, so   *)
(* what is proved of the inventory holds in the whole bot.                 *)
(*                                                                         *)
(* Then the invariants of the thread, in the order in which they rest on   *)
(* each other: where it is and what is in its hands there (PlaceInv), what *)
(* is on the connection and what the two ends know of each other (LinkInv), *)
(* when the keepalive asked and what answers it (ClockInv), and which      *)
(* commits were handed over or are about to be (CommitInv).                *)
(***************************************************************************)
EXTENDS AnnounceBot, SequenceTheorems, DataInduction

CacheInv == InventoryTypeOK /\ SingleFlight /\ HandsFull

-----------------------------------------------------------------------------
(* What the queue holds after a put and after a take. *)

LEMMA PutRange ==
    ASSUME NEW S, NEW q \in Seq(S), NEW x \in S
    PROVE  /\ Append(q, x) \in Seq(S)
           /\ Range(Append(q, x)) = Range(q) \cup {x}
           /\ IsInjective(q) /\ x \notin Range(q) => IsInjective(Append(q, x))
<1>1. /\ Append(q, x) \in Seq(S) /\ Len(q) \in Nat
      /\ DOMAIN q = 1..Len(q) /\ DOMAIN Append(q, x) = 1..(Len(q) + 1)
  OBVIOUS
<1>2. Append(q, x)[Len(q) + 1] = x /\ \A i \in 1..Len(q) : Append(q, x)[i] = q[i]
  OBVIOUS
<1>3. Range(Append(q, x)) = Range(q) \cup {x}
  BY <1>1, <1>2 DEF Range
<1>4. IsInjective(q) /\ x \notin Range(q) => IsInjective(Append(q, x))
  BY <1>1, <1>2 DEF Range, IsInjective
<1> QED BY <1>1, <1>3, <1>4

LEMMA TakeRange ==
    ASSUME NEW S, NEW q \in Seq(S), q # <<>>, IsInjective(q)
    PROVE  /\ Head(q) \in S /\ Tail(q) \in Seq(S)
           /\ Range(q) = Range(Tail(q)) \cup {Head(q)}
           /\ Head(q) \notin Range(Tail(q))
           /\ IsInjective(Tail(q))
<1>1. /\ Head(q) \in S /\ Tail(q) \in Seq(S) /\ Len(Tail(q)) = Len(q) - 1
      /\ \A i \in 1..Len(Tail(q)) : Tail(q)[i] = q[i + 1]
  BY HeadTailProperties
<1>2. /\ Len(q) \in Nat \ {0} /\ DOMAIN q = 1..Len(q) /\ Head(q) = q[1]
      /\ DOMAIN Tail(q) = 1..(Len(q) - 1)
  BY <1>1
<1>3. \A i \in 1..Len(q) : i = 1 \/ i - 1 \in 1..(Len(q) - 1)
  BY <1>2
<1>4. Range(q) = Range(Tail(q)) \cup {Head(q)}
  <2>1. \A i \in 1..Len(q) : q[i] = Head(q) \/ q[i] = Tail(q)[i - 1]
    BY <1>1, <1>2, <1>3
  <2>2. ASSUME NEW i \in DOMAIN q PROVE q[i] \in Range(Tail(q)) \cup {Head(q)}
    BY <1>2, <1>3, <2>1 DEF Range
  <2>3. Head(q) \in Range(q)
    BY <1>2 DEF Range
  <2>4. \A i \in DOMAIN Tail(q) : i + 1 \in DOMAIN q /\ Tail(q)[i] = q[i + 1]
    BY <1>1, <1>2
  <2>5. Range(Tail(q)) \subseteq Range(q)
    BY <2>4 DEF Range
  <2> QED BY <2>2, <2>3, <2>5 DEF Range
<1>5. Head(q) \notin Range(Tail(q))
  BY <1>1, <1>2 DEF Range, IsInjective
<1>6. IsInjective(Tail(q))
  BY <1>1, <1>2 DEF IsInjective
<1> QED BY <1>1, <1>4, <1>5, <1>6

LEMMA KeysInOrder ==
    /\ Len(PROJECTS) \in Nat \ {0}
    /\ \A i \in 1..Len(PROJECTS) : PROJECTS[i] \in Keys
BY ProjectsAssumption DEF Keys, Range

-----------------------------------------------------------------------------

LEMMA CacheInit == InventoryInit => CacheInv
<1> SUFFICES ASSUME InventoryInit PROVE CacheInv
  OBVIOUS
<1>1. repo \in [Keys -> Revisions] /\ items \in [Keys -> [counts : Counts, head : Counts]]
  BY DEF InventoryInit, Revisions, Counts, BuildInventory, Failed, Pending
<1>2. worker \in [at : {"idle", "refresh", "head", "store"}, key : Keys \cup {NoKey},
                  next : 1..Len(PROJECTS), counts : Counts, head : Counts]
  BY KeysInOrder DEF InventoryInit, Idle, Counts, Failed, Pending
<1>3. /\ made \in 0..MaxChanges /\ mishaps \in 0..MaxMishaps
      /\ queued \subseteq Keys /\ requests \in Seq(Keys) /\ putting \in Keys \cup {NoKey}
  BY ProjectsAssumption DEF InventoryInit
<1>6. moved \in BOOLEAN
  BY Zenon DEF InventoryInit
<1>4. SingleFlight
  BY ProjectsAssumption DEF InventoryInit, SingleFlight, Idle, Keys
<1>5. HandsFull
  BY DEF InventoryInit, HandsFull, Idle
<1> QED BY <1>1, <1>2, <1>3, <1>4, <1>5, <1>6 DEF CacheInv, InventoryTypeOK

-----------------------------------------------------------------------------
(* The repositories change nothing of the cache. *)

LEMMA ChangeKeeps ==
    ASSUME CacheInv, Repositories
    PROVE  CacheInv'
<1>1. PICK p \in Keys : Commit(p) \/ MoveBack(p)
  BY DEF Repositories
<1>2. UNCHANGED <<mishaps, cacheVars>> /\ made \in 0..MaxChanges /\ made < MaxChanges /\ made' = made + 1
  BY <1>1 DEF Commit, MoveBack, Change, CacheInv, InventoryTypeOK
<1>3. made' \in 1..MaxChanges
  BY <1>2, ProjectsAssumption
<1>4. repo[p] \in Seq(1..MaxChanges) /\ repo \in [Keys -> Seq(1..MaxChanges)]
  BY DEF CacheInv, InventoryTypeOK, Revisions
<1>5. repo' \in [Keys -> Revisions] /\ moved' \in BOOLEAN
  <2>1. CASE Commit(p)
    <3>1. Append(repo[p], made') \in Seq(1..MaxChanges)
      BY <1>3, <1>4
    <3> QED BY <1>4, <2>1, <3>1 DEF Commit, CacheInv, InventoryTypeOK, Revisions
  <2>2. CASE MoveBack(p)
    <3>1. Len(repo[p]) \in Nat
      BY <1>4
    <3>2. \A i \in 1..(Len(repo[p]) - 1) : repo[p][i] \in 1..MaxChanges
      <4> TAKE i \in 1..(Len(repo[p]) - 1)
      <4>1. i \in 1..Len(repo[p])
        BY <3>1
      <4> QED BY <1>4, <4>1, ElementOfSeq
    <3>3. Len(repo[p]) - 1 \in Int
      BY <3>1
    <3>4. SubSeq(repo[p], 1, Len(repo[p]) - 1) \in Seq(1..MaxChanges)
      BY <3>2, <3>3, SubSeqProperties
    <3> QED BY <1>4, <2>2, <3>4 DEF MoveBack, Revisions
  <2> QED BY <1>1, <2>1, <2>2
<1>6. InventoryTypeOK'
  BY <1>2, <1>3, <1>5 DEF CacheInv, InventoryTypeOK, cacheVars
<1>7. SingleFlight' /\ HandsFull'
  BY <1>2 DEF CacheInv, SingleFlight, HandsFull, cacheVars
<1> QED BY <1>6, <1>7 DEF CacheInv

-----------------------------------------------------------------------------
(* The queue, its marks and its two ends. *)

LEMMA MishapCounts ==
    ASSUME CacheInv, NEW r, NEW p \in Keys, Measured(p, r)
    PROVE  mishaps' \in 0..MaxMishaps /\ r \in Counts
<1>1. mishaps \in 0..MaxMishaps /\ repo[p] \in Revisions
  BY DEF CacheInv, InventoryTypeOK
<1>2. CASE r = repo[p] /\ UNCHANGED mishaps
  BY <1>1, <1>2 DEF Counts
<1>3. CASE r = Failed /\ Mishap("command")
  BY <1>1, <1>3, ProjectsAssumption DEF Counts, Mishap
<1> QED BY <1>2, <1>3 DEF Measured

LEMMA WorkerParts ==
    ASSUME CacheInv
    PROVE  /\ worker.at \in {"idle", "refresh", "head", "store"}
           /\ worker.key \in Keys \cup {NoKey} /\ worker.next \in 1..Len(PROJECTS)
           /\ worker.counts \in Counts /\ worker.head \in Counts
BY DEF CacheInv, InventoryTypeOK

\* A worker record with parts of the right types.
LEMMA IdleType == Idle \in [at : {"idle", "refresh", "head", "store"}, key : Keys \cup {NoKey},
                            next : 1..Len(PROJECTS), counts : Counts, head : Counts]
BY KeysInOrder DEF Idle, Counts, Failed, Pending

LEMMA LuckCounts ==
    ASSUME CacheInv, Luck
    PROVE  mishaps' \in 0..MaxMishaps
<1>1. mishaps \in 0..MaxMishaps
  BY DEF CacheInv, InventoryTypeOK
<1>2. mishaps' = mishaps \/ (mishaps < MaxMishaps /\ mishaps' = mishaps + 1)
  BY DEF Luck, Mishap
<1> QED BY <1>1, <1>2, ProjectsAssumption

LEMMA ApartKeeps ==
    ASSUME CacheInv, Apart
    PROVE  CacheInv'
BY LuckCounts DEF Apart, repoVars, cacheVars, CacheInv, InventoryTypeOK, SingleFlight, HandsFull

LEMMA AskKeeps ==
    ASSUME CacheInv, NEW p \in Keys, Ask(p)
    PROVE  CacheInv'
<1>1. /\ UNCHANGED <<repoVars, items, requests, worker>> /\ putting = NoKey /\ Request(p)
      /\ mishaps' \in 0..MaxMishaps
  BY LuckCounts DEF Ask
<1>2. CASE p \in queued
  BY <1>1, <1>2 DEF Request, CacheInv, InventoryTypeOK, SingleFlight, HandsFull, repoVars
<1>3. CASE p \notin queued
  <2>1. queued' = queued \cup {p} /\ putting' = p
    BY <1>1, <1>3 DEF Request
  <2>2. InventoryTypeOK'
    BY <1>1, <2>1 DEF CacheInv, InventoryTypeOK, repoVars
  <2>3. SingleFlight'
    BY <1>1, <1>3, <2>1, ProjectsAssumption DEF CacheInv, SingleFlight
  <2>4. HandsFull'
    BY <1>1 DEF CacheInv, HandsFull
  <2> QED BY <2>2, <2>3, <2>4 DEF CacheInv
<1> QED BY <1>2, <1>3

LEMMA PutKeeps ==
    ASSUME CacheInv, Put
    PROVE  CacheInv'
<1>1. /\ putting \in Keys /\ requests \in Seq(Keys) /\ putting \notin Range(requests)
      /\ IsInjective(requests) /\ worker.key # putting
  BY DEF Put, CacheInv, InventoryTypeOK, SingleFlight
<1>2. /\ requests' = Append(requests, putting) /\ putting' = NoKey
      /\ UNCHANGED <<repoVars, mishaps, items, queued, worker>>
  BY DEF Put
<1>3. /\ requests' \in Seq(Keys) /\ Range(requests') = Range(requests) \cup {putting}
      /\ IsInjective(requests')
  BY <1>1, <1>2, PutRange
<1>4. InventoryTypeOK'
  BY <1>2, <1>3 DEF CacheInv, InventoryTypeOK, repoVars
<1>5. SingleFlight'
  BY <1>1, <1>2, <1>3, ProjectsAssumption DEF CacheInv, SingleFlight
<1> QED BY <1>2, <1>4, <1>5 DEF CacheInv, HandsFull

LEMMA CountKeeps ==
    ASSUME CacheInv, Count
    PROVE  CacheInv'
<1> DEFINE p == Head(requests)
<1>1. /\ requests # <<>> /\ requests \in Seq(Keys) /\ IsInjective(requests)
      /\ requests' = Tail(requests) /\ worker.at = "idle"
      /\ UNCHANGED <<repoVars, items, queued, putting>>
  BY DEF Count, CacheInv, InventoryTypeOK, SingleFlight
<1>2. /\ p \in Keys /\ requests' \in Seq(Keys)
      /\ Range(requests) = Range(requests') \cup {p} /\ p \notin Range(requests')
      /\ IsInjective(requests')
  BY <1>1, TakeRange
<1>3. PICK r : Measured(p, r) /\ worker' = [Idle EXCEPT !.at = "head", !.key = p, !.counts = r]
  BY DEF Count
<1>4. mishaps' \in 0..MaxMishaps /\ r \in Counts
  BY <1>2, <1>3, MishapCounts
<1>5. InventoryTypeOK'
  BY <1>1, <1>2, <1>3, <1>4, IdleType DEF CacheInv, InventoryTypeOK, repoVars
<1>6. worker.key = NoKey /\ worker'.key = p /\ worker'.at = "head"
  BY <1>1, <1>3 DEF CacheInv, HandsFull, Idle
<1>7. SingleFlight'
  BY <1>1, <1>2, <1>6, ProjectsAssumption DEF CacheInv, SingleFlight
<1>8. HandsFull'
  BY <1>2, <1>6, ProjectsAssumption DEF HandsFull
<1> QED BY <1>5, <1>7, <1>8 DEF CacheInv

LEMMA RefreshKeeps ==
    ASSUME CacheInv, Refresh
    PROVE  CacheInv'
<1> DEFINE p == PROJECTS[worker.next]
<1>1. /\ worker.at \in {"idle", "refresh"} /\ queued' = queued \cup {p}
      /\ requests' = (IF p \in queued THEN requests ELSE Append(requests, p))
      /\ UNCHANGED <<repoVars, mishaps, items, putting>>
  BY DEF Refresh
<1>2. p \in Keys /\ requests \in Seq(Keys) /\ IsInjective(requests)
  BY WorkerParts, KeysInOrder DEF CacheInv, InventoryTypeOK, SingleFlight
<1>3. worker' = (IF worker.next = Len(PROJECTS) THEN Idle
                ELSE [worker EXCEPT !.at = "refresh", !.next = @ + 1])
  BY DEF Refresh
<1>4. worker.key = NoKey /\ worker'.key = NoKey /\ worker'.at \in {"idle", "refresh"}
  BY <1>1, <1>3 DEF CacheInv, HandsFull, Idle, InventoryTypeOK
<1>5. worker' \in [at : {"idle", "refresh", "head", "store"}, key : Keys \cup {NoKey},
                   next : 1..Len(PROJECTS), counts : Counts, head : Counts]
  <2>1. worker.next \in 1..Len(PROJECTS) /\ Len(PROJECTS) \in Nat
    BY KeysInOrder DEF CacheInv, InventoryTypeOK
  <2>2. CASE worker.next = Len(PROJECTS)
    BY <1>3, <2>2, IdleType
  <2>3. CASE worker.next # Len(PROJECTS)
    <3>1. worker.next + 1 \in 1..Len(PROJECTS)
      BY <2>1, <2>3
    <3>2. worker' = [worker EXCEPT !.at = "refresh", !.next = worker.next + 1]
      BY <1>3, <2>3
    <3> QED BY <3>1, <3>2 DEF CacheInv, InventoryTypeOK
  <2> QED BY <2>2, <2>3
<1>6. p \notin queued => p \notin Range(requests)
  BY DEF CacheInv, SingleFlight
<1> HIDE DEF p
<1>7. /\ requests' \in Seq(Keys) /\ IsInjective(requests')
      /\ Range(requests') = IF p \in queued THEN Range(requests) ELSE Range(requests) \cup {p}
  <2>1. CASE p \in queued
    BY <1>1, <1>2, <2>1
  <2>2. CASE p \notin queued
    <3>1. requests' = Append(requests, p)
      BY <1>1, <2>2
    <3> QED BY <1>2, <1>6, <2>2, <3>1, PutRange
  <2> QED BY <2>1, <2>2
<1>8. InventoryTypeOK'
  BY <1>1, <1>2, <1>5, <1>7 DEF CacheInv, InventoryTypeOK, repoVars
<1>9. SingleFlight'
  BY <1>1, <1>4, <1>7 DEF CacheInv, SingleFlight
<1> QED BY <1>4, <1>8, <1>9 DEF CacheInv, HandsFull

LEMMA CountHeadKeeps ==
    ASSUME CacheInv, CountHead
    PROVE  CacheInv'
<1>1. worker.at = "head" /\ worker.key \in Keys
  BY WorkerParts DEF CountHead, CacheInv, HandsFull
<1>2. PICK r : Measured(worker.key, r) /\ worker' = [worker EXCEPT !.at = "store", !.head = r]
  BY DEF CountHead
<1>3. mishaps' \in 0..MaxMishaps /\ r \in Counts
  BY <1>1, <1>2, MishapCounts
<1>4. UNCHANGED <<repoVars, items, queued, requests, putting>>
  BY DEF CountHead
<1>5. InventoryTypeOK'
  BY <1>2, <1>3, <1>4 DEF CacheInv, InventoryTypeOK, repoVars
<1>6. worker'.key = worker.key /\ worker'.at = "store"
  BY <1>2 DEF CacheInv, InventoryTypeOK
<1> QED BY <1>1, <1>4, <1>5, <1>6, ProjectsAssumption DEF CacheInv, SingleFlight, HandsFull

\* The mark goes with the key out of the worker's hands.
LEMMA StoreKeeps ==
    ASSUME CacheInv, Store
    PROVE  CacheInv'
<1>1. /\ worker.key \in Keys /\ queued' = queued \ {worker.key} /\ worker' = Idle
      /\ UNCHANGED <<repoVars, mishaps, requests, putting>>
  BY WorkerParts DEF Store, CacheInv, HandsFull
<1>2. items' \in [Keys -> [counts : Counts, head : Counts]]
  BY <1>1, WorkerParts DEF Store, CacheInv, InventoryTypeOK
<1>3. InventoryTypeOK'
  BY <1>1, <1>2, IdleType DEF CacheInv, InventoryTypeOK, repoVars
<1>4. worker'.key = NoKey /\ worker'.at = "idle"
  BY <1>1 DEF Idle
<1>5. SingleFlight'
  BY <1>1, <1>4, ProjectsAssumption DEF CacheInv, SingleFlight
<1> QED BY <1>3, <1>4, <1>5 DEF CacheInv, HandsFull

LEMMA CacheStep == CacheInv /\ [CacheNext]_inventoryVars => CacheInv'
<1> SUFFICES ASSUME CacheInv, [CacheNext]_inventoryVars PROVE CacheInv'
  OBVIOUS
<1>1. CASE Repositories
  BY <1>1, ChangeKeeps
<1>2. CASE Worker
  BY <1>2, CountKeeps, RefreshKeeps, CountHeadKeeps, StoreKeeps DEF Worker
<1>3. CASE Put
  BY <1>3, PutKeeps
<1>4. CASE \E p \in Keys : Ask(p)
  BY <1>4, AskKeeps
<1>5. CASE Apart
  BY <1>5, ApartKeeps
<1>6. CASE UNCHANGED inventoryVars
  BY <1>6 DEF inventoryVars, repoVars, cacheVars, CacheInv, InventoryTypeOK, SingleFlight, HandsFull
<1> QED BY <1>1, <1>2, <1>3, <1>4, <1>5, <1>6 DEF CacheNext

-----------------------------------------------------------------------------
\* The inductive invariant: the types, one flight per project, and full hands
\* exactly while the worker measures.
THEOREM CacheInvariant == CacheSpec => []CacheInv
<1> QED BY CacheInit, CacheStep, PTL DEF CacheSpec

\* InventoryCache.request and _worker: whatever threads ask for whatever
\* projects, whenever, and whatever fails, a marked project waits in exactly
\* one place and is never lost.
THEOREM OneFlight == CacheSpec => []SingleFlight
<1>1. CacheInv => SingleFlight
  BY DEF CacheInv
<1> QED BY <1>1, CacheInvariant, PTL

-----------------------------------------------------------------------------
(* The inventory in the bot. *)

\* The thread has a key in its hands exactly between the mark and the put, and
\* polls only projects that there are.
ThreadInv ==
    /\ DOMAIN pc = DOMAIN Loop
    /\ putting # NoKey <=> At("put")
    /\ At("poll") => pc.i \in 1..N

\* Where a step that neither marks nor puts a key may lead.
Free(place) == DOMAIN place = DOMAIN Loop /\ place.at # "put" /\ (place.at = "poll" => place.i \in 1..N)

LEMMA Places ==
    /\ Free(Loop) /\ Free([Loop EXCEPT !.at = "backoff"])
    /\ \A i : Free(SetTopic(i))
    /\ \A i : Free(Poll(i))
<1>1. Free(Loop) /\ Free([Loop EXCEPT !.at = "backoff"])
  BY DEF Free, Loop
<1>2. \A i : Free(SetTopic(i))
  BY DEF Free, SetTopic, Loop
<1>3. ASSUME NEW i PROVE Free(Poll(i))
  <2>1. CASE i \in 1..N
    BY <2>1 DEF Free, Poll, Loop
  <2>2. CASE i \notin 1..N
    BY <1>2, <2>2 DEF Poll
  <2> QED BY <2>1, <2>2
<1> QED BY <1>1, <1>2, <1>3

\* A step that leaves the cache alone and the thread where it is, or moves it
\* from a place where it has nothing in its hands.
LEMMA ApartStep ==
    ASSUME ThreadInv, Apart, pc' = pc \/ (~At("put") /\ Free(pc'))
    PROVE  ThreadInv' /\ CacheNext
BY DEF ThreadInv, Apart, CacheNext, At, Free, cacheVars

\* A handler answers a line, and only the welcome leads to set_topic.
LEMMA HandleStep ==
    ASSUME ThreadInv, Handle
    PROVE  ThreadInv' /\ CacheNext
<1>1. At("loop") /\ UNCHANGED inventoryVars /\ (pc' = pc \/ pc' = SetTopic(0))
  <2> DEFINE m == Head(net.inp)
  <2> USE DEF Elsewhere
  <2>1. CASE HandleCapLs(m) \/ HandleCapAck(m) \/ HandleCapNak(m)
    BY <2>1 DEF Handle, HandleCapLs, HandleCapAck, HandleCapNak
  <2>2. CASE HandleAuthenticate(m) \/ HandleSaslResult(m) \/ HandleNickInUse(m)
    BY <2>2 DEF Handle, HandleAuthenticate, HandleSaslResult, HandleNickInUse
  <2>3. CASE HandleWelcome(m) \/ HandleKick(m) \/ HandlePing(m)
    BY <2>3 DEF Handle, HandleWelcome, HandleKick, HandlePing
  <2>4. CASE HandleCommand(m) \/ HandleOther(m)
    BY <2>4 DEF Handle, HandleCommand, HandleOther
  <2> QED BY <2>1, <2>2, <2>3, <2>4 DEF Handle
<1>2. Apart
  BY <1>1 DEF Apart, Luck, inventoryVars
<1> QED BY <1>1, <1>2, ApartStep, Places DEF At

\* Timers, the connection and the queue of lines.
LEMMA LoopStep ==
    ASSUME ThreadInv, PumpOut \/ Timers \/ Eof \/ Connect \/ PollStart \/ ConnectFails \/ Heartbeat
    PROVE  ThreadInv' /\ CacheNext
<1>1. CASE PumpOut \/ Wait \/ Keepalive
  <2>1. Apart /\ pc' = pc
    BY <1>1 DEF PumpOut, Wait, Keepalive, Apart, Luck, inventoryVars
  <2> QED BY <2>1, ApartStep
<1>2. CASE ReadTimeout \/ Eof
  <2>1. Apart /\ At("loop") /\ Free(pc')
    BY <1>2, Places DEF ReadTimeout, Eof, Leave, Apart, Luck, inventoryVars
  <2> QED BY <2>1, ApartStep DEF At
<1>3. CASE CapTimeout \/ ConnectFails
  <2>1. Apart /\ pc' = pc
    BY <1>3 DEF CapTimeout, ConnectFails, Apart, Luck, Mishap
  <2> QED BY <2>1, ApartStep
<1>4. CASE Connect
  <2>1. Apart /\ At("backoff") /\ Free(pc')
    BY <1>4, Places DEF Connect, Apart, Luck, inventoryVars
  <2> QED BY <2>1, ApartStep DEF At
<1>5. CASE PollStart \/ Heartbeat
  <2>1. Apart /\ At("loop") /\ Free(pc')
    BY <1>5, Places DEF PollStart, Heartbeat, Apart, Luck, Mishap, inventoryVars
  <2> QED BY <2>1, ApartStep DEF At
<1> QED BY <1>1, <1>2, <1>3, <1>4, <1>5 DEF Timers

\* poll_project marks a key when HEAD has moved and puts it next; all its other
\* steps, and set_topic's, leave the cache alone.
LEMMA MarkStep ==
    ASSUME ThreadInv, PollHead
    PROVE  ThreadInv' /\ CacheNext
<1> DEFINE p == PROJECTS[pc.i]
<1>1. pc.i \in 1..N /\ putting = NoKey /\ p \in Keys
  BY KeysInOrder DEF PollHead, ThreadInv, At, N
<1>2. /\ Request(p) /\ Luck /\ UNCHANGED <<repoVars, items, requests, worker>>
      /\ DOMAIN pc' = DOMAIN pc /\ pc'.at = IF p \in queued THEN "item" ELSE "put"
  BY DEF PollHead, Luck, Mishap, ThreadInv, Loop
<1>3. putting' # NoKey <=> pc'.at = "put"
  BY <1>1, <1>2, ProjectsAssumption DEF Request
<1>4. ThreadInv'
  BY <1>2, <1>3 DEF ThreadInv, At
<1>5. Ask(p)
  BY <1>1, <1>2 DEF Ask
<1> QED BY <1>1, <1>4, <1>5 DEF CacheNext

LEMMA PollingStep ==
    ASSUME ThreadInv, PollStep
    PROVE  ThreadInv' /\ CacheNext
<1>1. CASE PollHead
  BY <1>1, MarkStep
<1>2. CASE PollPut
  <2>1. Put /\ putting' = NoKey /\ DOMAIN pc' = DOMAIN pc /\ pc'.at = "item"
    BY <1>2 DEF PollPut, Put, ThreadInv, Loop
  <2> QED BY <2>1 DEF ThreadInv, At, CacheNext
<1>3. CASE PollUnmoved
  <2>1. Apart /\ At("poll") /\ Free(pc')
    BY <1>3, Places DEF PollUnmoved, Apart, Luck, Mishap
  <2> QED BY <2>1, ApartStep DEF At
<1>4. CASE PollItem
  <2>1. Apart /\ At("item") /\ DOMAIN pc' = DOMAIN pc /\ pc'.at = "count"
    BY <1>4 DEF PollItem, Apart, Luck, inventoryVars, ThreadInv, Loop
  <2> QED BY <2>1, ApartStep DEF At, Free, ThreadInv
<1>5. CASE PollCount
  <2>1. Apart /\ At("count") /\ DOMAIN pc' = DOMAIN pc /\ pc'.at = "cards"
    BY <1>5 DEF PollCount, Measured, Apart, Luck, Mishap, ThreadInv, Loop
  <2> QED BY <2>1, ApartStep DEF At, Free, ThreadInv
<1>6. CASE PollCard
  <2>1. Apart /\ At("cards")
    BY <1>6 DEF PollCard, Apart, Luck, inventoryVars
  <2>2. pc' = SetTopic(pc.i + 1) \/ (DOMAIN pc' = DOMAIN pc /\ pc'.at = pc.at)
    BY <1>6 DEF PollCard, ThreadInv, Loop
  <2>3. Free(pc')
    BY <2>1, <2>2, Places DEF At, Free, ThreadInv
  <2> QED BY <2>1, <2>3, ApartStep DEF At
<1>7. CASE TopicItem
  <2>1. Apart /\ At("topic item") /\ DOMAIN pc' = DOMAIN pc /\ pc'.at = "topic count"
    BY <1>7 DEF TopicItem, Measured, Apart, Luck, Mishap, ThreadInv, Loop
  <2> QED BY <2>1, ApartStep DEF At, Free, ThreadInv
<1>8. CASE TopicCount
  <2>1. Apart /\ At("topic count")
    BY <1>8 DEF TopicCount, Measured, Apart, Luck, Mishap
  <2>2. pc' = AfterTopic \/ (DOMAIN pc' = DOMAIN pc /\ pc'.at = "topic item")
    BY <1>8 DEF TopicCount, ThreadInv, Loop
  <2>3. Free(pc')
    BY <2>2, Places DEF AfterTopic, Free, ThreadInv
  <2> QED BY <2>1, <2>3, ApartStep DEF At
<1> QED BY <1>1, <1>2, <1>3, <1>4, <1>5, <1>6, <1>7, <1>8 DEF PollStep

LEMMA WorldStep ==
    ASSUME ThreadInv, World \/ Others
    PROVE  ThreadInv' /\ CacheNext
<1>1. CASE World
  <2>1. Apart /\ pc' = pc
    BY <1>1 DEF World, Break, GhostLeaves, RegistrationTimeout, Kick, ServerPing, UserAsks,
                WorldOnly, Apart, Luck, Mishap
  <2> QED BY <2>1, ApartStep
<1>2. CASE Others
  <2>1. CacheNext /\ pc' = pc
    BY <1>2 DEF Others, CacheNext
  <2>2. CASE Repositories
    <3>1. putting' = putting
      BY <2>2 DEF Repositories, Commit, MoveBack, cacheVars
    <3> QED BY <2>1, <3>1 DEF ThreadInv, At
  <2>3. CASE Worker
    <3>1. putting' = putting
      BY <2>3 DEF Worker, Count, Refresh, CountHead, Store
    <3> QED BY <2>1, <3>1 DEF ThreadInv, At
  <2> QED BY <1>2, <2>2, <2>3 DEF Others
<1> QED BY <1>1, <1>2

LEMMA BotStep == ThreadInv /\ [Next]_vars => ThreadInv' /\ [CacheNext]_inventoryVars
<1> SUFFICES ASSUME ThreadInv, [Next]_vars
             PROVE  ThreadInv' /\ [CacheNext]_inventoryVars
  OBVIOUS
<1>1. CASE Next
  BY <1>1, HandleStep, LoopStep, PollingStep, WorldStep DEF Next, Thread
<1>2. CASE UNCHANGED vars
  BY <1>2 DEF vars, inventoryVars, cacheVars, ThreadInv, At
<1> QED BY <1>1, <1>2

LEMMA BotInit == Init => ThreadInv /\ InventoryInit
<1> SUFFICES ASSUME Init PROVE ThreadInv /\ InventoryInit
  OBVIOUS
<1>1. InventoryInit /\ putting = NoKey /\ pc = [Loop EXCEPT !.at = "backoff"]
  BY DEF Init, InventoryInit
<1> QED BY <1>1, Places DEF ThreadInv, Free, At, Loop

-----------------------------------------------------------------------------
\* The whole bot implements the specification of its build inventory: whatever
\* the link, the server, the users and the repositories do, the IRC thread
\* calls InventoryCache.request as a client of it may.
THEOREM BotIsCache == Spec => CacheSpec
<1> QED BY BotInit, BotStep, PTL DEF Spec, CacheSpec

\* InventoryCache.request and _worker, in the bot: no request is lost and none
\* piles up.
THEOREM BotOneFlight == Spec => []SingleFlight
<1> QED BY BotIsCache, OneFlight, PTL

-----------------------------------------------------------------------------
(* The commits: lists of them, and what a poll makes of two revisions. *)

Commits == 0..MaxChanges
Rising(s) == \A i, j \in DOMAIN s : i < j => s[i] < s[j]
Prefix(s, t) == Len(s) <= Len(t) /\ \A i \in DOMAIN s : s[i] = t[i]

\* What is left of a sequence behind its first k elements.
LEMMA Rest ==
    ASSUME NEW S, NEW s \in Seq(S), NEW k \in 0..Len(s), NEW q, q = SubSeq(s, k + 1, Len(s))
    PROVE  /\ q \in Seq(S) /\ Len(q) = Len(s) - k /\ DOMAIN q = 1..Len(q)
           /\ q = <<>> => k >= Len(s)
           /\ \A i \in 1..Len(q) : k + i \in (k + 1)..Len(s) /\ q[i] = s[k + i]
<1>1. q \in Seq(S) /\ Len(q) = Len(s) - k /\ Len(s) \in Nat /\ k \in Nat
  OBVIOUS
<1>2. \A i \in 1..Len(q) : k + i \in (k + 1)..Len(s)
  BY <1>1
<1>3. \A i \in 1..Len(q) : q[i] = s[k + i]
  OBVIOUS
<1>4. DOMAIN q = 1..Len(q)
  BY <1>1
<1>5. q = <<>> => k >= Len(s)
  <2>1. q = <<>> => Len(q) = 0
    BY <1>1
  <2> QED BY <1>1, <2>1
<1> QED BY <1>1, <1>2, <1>3, <1>4, <1>5

LEMMA RestHas ==
    ASSUME NEW S, NEW s \in Seq(S), NEW k \in 0..Len(s), NEW q, q = SubSeq(s, k + 1, Len(s))
    PROVE  \A i \in (k + 1)..Len(s) : s[i] \in Range(q)
<1> TAKE i \in (k + 1)..Len(s)
<1>1. i - k \in 1..Len(q) /\ q[i - k] = s[i] /\ DOMAIN q = 1..Len(q)
  OBVIOUS
<1> QED BY <1>1 DEF Range

LEMMA RestOnly ==
    ASSUME NEW S, NEW s \in Seq(S), NEW k \in 0..Len(s), NEW q, q = SubSeq(s, k + 1, Len(s))
    PROVE  \A x \in Range(q) : \E i \in (k + 1)..Len(s) : x = s[i]
<1> TAKE x \in Range(q)
<1>1. DOMAIN q = 1..Len(q)
  OBVIOUS
<1>2. PICK j \in 1..Len(q) : x = q[j]
  BY <1>1 DEF Range
<1>3. k + j \in (k + 1)..Len(s) /\ q[j] = s[k + j]
  OBVIOUS
<1> QED BY <1>2, <1>3

\* Its first k elements.
LEMMA First ==
    ASSUME NEW S, NEW s \in Seq(S), NEW k \in 0..Len(s), NEW q, q = SubSeq(s, 1, k)
    PROVE  /\ q \in Seq(S) /\ (q # <<>> => k > 0)
           /\ DOMAIN q = 1..k /\ \A i \in 1..k : q[i] = s[i]
<1>1. q \in Seq(S) /\ Len(q) = k /\ k \in Nat /\ DOMAIN q = 1..k /\ \A i \in 1..k : q[i] = s[i]
  OBVIOUS
<1>2. q # <<>> => Len(q) > 0
  BY <1>1
<1> QED BY <1>1, <1>2

LEMMA FirstHas ==
    ASSUME NEW S, NEW s \in Seq(S), NEW k \in 0..Len(s), NEW q, q = SubSeq(s, 1, k)
    PROVE  \A i \in 1..k : s[i] \in Range(q)
<1> TAKE i \in 1..k
<1>1. q[i] = s[i] /\ DOMAIN q = 1..k
  OBVIOUS
<1> QED BY <1>1 DEF Range

\* How many commits of cur come before those that prev does not have.
LEMMA BehindIs ==
    ASSUME NEW prev, NEW cur \in Seq(Nat)
    PROVE  LET n == Behind(prev, cur) IN
           /\ n \in 0..Len(cur)
           /\ \A i \in 1..n : cur[i] \in Range(prev)
           /\ n < Len(cur) => cur[n + 1] \notin Range(prev)
<1> DEFINE Ends(n) == /\ \A i \in 1..n : cur[i] \in Range(prev)
                      /\ n < Len(cur) => cur[n + 1] \notin Range(prev)
           S == {n \in 0..Len(cur) : n < Len(cur) => cur[n + 1] \notin Range(prev)}
<1>1. Len(cur) \in Nat
  OBVIOUS
<1>2. S \in SUBSET Nat /\ Len(cur) \in S
  BY <1>1
<1>3. PICK n \in S : \A m \in S : n <= m
  <2> HIDE DEF S
  <2> QED BY <1>2, LeastNatural
<1>4. ASSUME NEW i \in 1..n PROVE cur[i] \in Range(prev)
  <2>1. i - 1 \in 0..Len(cur) /\ ~(n <= i - 1) /\ i - 1 < Len(cur) /\ (i - 1) + 1 = i
    BY <1>1, <1>3
  <2> QED BY <1>3, <2>1
<1>5. \E m \in 0..Len(cur) : Ends(m)
  BY <1>3, <1>4
<1>6. Behind(prev, cur) = CHOOSE m \in 0..Len(cur) : Ends(m)
  BY DEF Behind
<1> HIDE DEF Ends
<1>7. Behind(prev, cur) \in 0..Len(cur) /\ Ends(Behind(prev, cur))
  BY <1>5, <1>6
<1> QED BY <1>7 DEF Ends

\* What is listed of a poll: of the commits of cur none is missing that prev does
\* not have.
LEMMA RevsCover ==
    ASSUME NEW prev, NEW cur \in Revisions, MaxChanges \in Nat
    PROVE  /\ Revs(prev, cur) \in Seq(Commits) \ {<<>>}
           /\ Range(cur) \subseteq Range(prev) \cup Range(Revs(prev, cur))
           /\ Len(Revs(prev, cur)) > 1 => Revs(prev, cur) \in Seq(1..MaxChanges)
<1> DEFINE n   == Behind(prev, cur)
           new == SubSeq(cur, n + 1, Len(cur))
<1>1. cur \in Seq(1..MaxChanges) /\ cur \in Seq(Nat) /\ Len(cur) \in Nat /\ DOMAIN cur = 1..Len(cur)
  BY DEF Revisions
<1>2. n \in 0..Len(cur) /\ \A i \in 1..n : cur[i] \in Range(prev)
  BY <1>1, BehindIs
<1>3. Tip(cur) \in Commits
  <2>1. cur # <<>> => Len(cur) \in 1..Len(cur)
    BY <1>1
  <2> QED BY <1>1, <2>1 DEF Tip, Commits
<1>4. Revs(prev, cur) = IF new = <<>> THEN <<Tip(cur)>> ELSE new
  BY DEF Revs
<1> HIDE DEF n
<1>5. /\ new \in Seq(1..MaxChanges) /\ (new = <<>> => n >= Len(cur))
      /\ \A k \in (n + 1)..Len(cur) : cur[k] \in Range(new)
  <2>1. cur \in Seq(1..MaxChanges) /\ n \in 0..Len(cur) /\ new = SubSeq(cur, n + 1, Len(cur))
    BY <1>1, <1>2
  <2> HIDE DEF new
  <2>2. new \in Seq(1..MaxChanges)
    BY <2>1, Rest
  <2>3. new = <<>> => n >= Len(cur)
    BY <2>1, Rest
  <2>4. \A k \in (n + 1)..Len(cur) : cur[k] \in Range(new)
    BY <2>1, RestHas, Zenon
  <2> QED BY <2>2, <2>3, <2>4
<1> HIDE DEF new
<1>6. \A i \in 1..Len(cur) : i \in 1..n \/ i \in (n + 1)..Len(cur)
  BY <1>1, <1>2
<1>7. CASE new = <<>>
  <2>1. Revs(prev, cur) = <<Tip(cur)>> /\ n >= Len(cur)
    BY <1>4, <1>5, <1>7
  <2> QED BY <1>1, <1>2, <1>3, <2>1 DEF Range
<1>8. CASE new # <<>>
  <2>1. Revs(prev, cur) = new
    BY <1>4, <1>8
  <2>2. Range(cur) \subseteq Range(prev) \cup Range(new)
    BY <1>1, <1>2, <1>5, <1>6 DEF Range
  <2>3. new \in Seq(Commits)
    BY <1>5 DEF Commits
  <2> QED BY <1>5, <1>8, <2>1, <2>2, <2>3
<1> QED BY <1>7, <1>8

\* When HEAD only moved forward, what is listed comes after all that was there.
Follows(prev, cur, revs) ==
    /\ Rising(revs) /\ Range(revs) \subseteq Range(cur)
    /\ \A c \in Range(prev), d \in Range(revs) : c < d

LEMMA RevsBehind ==
    ASSUME NEW prev \in Revisions, NEW cur \in Revisions, cur # prev,
           Rising(cur), Prefix(prev, cur), MaxChanges \in Nat,
           NEW revs \in {Revs(prev, cur), <<Tip(cur)>>}
    PROVE  Follows(prev, cur, revs)
<1>1. /\ cur \in Seq(1..MaxChanges) /\ Len(cur) \in Nat /\ DOMAIN cur = 1..Len(cur)
      /\ prev \in Seq(1..MaxChanges) /\ Len(prev) \in Nat /\ DOMAIN prev = 1..Len(prev)
      /\ cur \in Seq(Nat)
  BY DEF Revisions
<1>2. Len(prev) < Len(cur)
  <2>0. Len(prev) <= Len(cur) /\ \A i \in 1..Len(prev) : prev[i] = cur[i]
    BY <1>1 DEF Prefix
  <2>1. Len(prev) = Len(cur) => prev = cur
    <3> SUFFICES ASSUME Len(prev) = Len(cur) PROVE prev = cur
      OBVIOUS
    <3>1. prev = [i \in 1..Len(prev) |-> prev[i]] /\ cur = [i \in 1..Len(prev) |-> cur[i]]
      BY <1>1
    <3> QED BY <2>0, <3>1
  <2>2. Len(prev) \in Nat /\ Len(cur) \in Nat /\ Len(prev) # Len(cur)
    BY <1>1, <2>1
  <2> QED BY <2>0, <2>2
<1>3. \A i \in 1..Len(prev), k \in (Len(prev) + 1)..Len(cur) : prev[i] < cur[k]
  <2> TAKE i \in 1..Len(prev), k \in (Len(prev) + 1)..Len(cur)
  <2>1. i \in DOMAIN cur /\ k \in DOMAIN cur /\ i < k
    BY <1>1, <1>2
  <2>2. prev[i] = cur[i]
    BY <1>1 DEF Prefix
  <2> QED BY <2>1, <2>2 DEF Rising
<1>4. CASE revs = <<Tip(cur)>>
  <2>1. Tip(cur) = cur[Len(cur)] /\ Len(cur) \in (Len(prev) + 1)..Len(cur) /\ Len(cur) \in DOMAIN cur
    BY <1>1, <1>2 DEF Tip
  <2>2. DOMAIN revs = {1} /\ revs[1] = Tip(cur)
    BY <1>4
  <2>3. Rising(revs) /\ Range(revs) = {cur[Len(cur)]}
    BY <2>1, <2>2 DEF Range, Rising
  <2>4. \A c \in Range(prev) : c < cur[Len(cur)]
    BY <1>1, <1>3, <2>1 DEF Range
  <2> QED BY <2>1, <2>3, <2>4 DEF Range, Follows
<1>5. CASE revs # <<Tip(cur)>>
  <2> DEFINE n == Behind(prev, cur)
  <2>1. /\ n \in 0..Len(cur) /\ \A i \in 1..n : cur[i] \in Range(prev)
        /\ n < Len(cur) => cur[n + 1] \notin Range(prev)
    BY <1>1, BehindIs
  <2>2. revs = SubSeq(cur, n + 1, Len(cur))
    BY <1>5 DEF Revs
  <2> HIDE DEF n
  <2>3. n = Len(prev)
    <3>1. ~(n < Len(prev))
      <4> SUFFICES ASSUME n < Len(prev) PROVE FALSE
        OBVIOUS
      <4>1. n + 1 \in 1..Len(prev) /\ n < Len(cur)
        BY <1>1, <1>2, <2>1
      <4>2. cur[n + 1] \in Range(prev)
        BY <1>1, <4>1 DEF Prefix, Range
      <4> QED BY <2>1, <4>1, <4>2
    <3>2. ~(Len(prev) < n)
      <4> SUFFICES ASSUME Len(prev) < n PROVE FALSE
        OBVIOUS
      <4>1. Len(prev) + 1 \in 1..n /\ Len(prev) + 1 \in (Len(prev) + 1)..Len(cur)
        BY <1>1, <1>2, <2>1
      <4>2. PICK i \in 1..Len(prev) : cur[Len(prev) + 1] = prev[i]
        BY <1>1, <2>1, <4>1 DEF Range
      <4>3. prev[i] < cur[Len(prev) + 1] /\ prev[i] \in Nat
        BY <1>1, <1>3, <4>1
      <4> QED BY <4>2, <4>3
    <3>3. n \in Nat /\ Len(prev) \in Nat
      BY <1>1, <2>1
    <3> QED BY <3>1, <3>2, <3>3
  <2>5. /\ DOMAIN revs = 1..Len(revs)
        /\ \A i \in 1..Len(revs) : n + i \in (n + 1)..Len(cur) /\ revs[i] = cur[n + i]
        /\ \A x \in Range(revs) : \E k \in (n + 1)..Len(cur) : x = cur[k]
    <3>1. cur \in Seq(1..MaxChanges) /\ n \in 0..Len(cur)
      BY <1>1, <2>1
    <3>2. DOMAIN revs = 1..Len(revs)
      BY <2>2, <3>1, Rest
    <3>3. \A i \in 1..Len(revs) : n + i \in (n + 1)..Len(cur) /\ revs[i] = cur[n + i]
      BY <2>2, <3>1, Rest
    <3>4. ASSUME NEW x \in Range(revs) PROVE \E k \in (n + 1)..Len(cur) : x = cur[k]
      BY <2>2, <3>1, RestOnly, Zenon
    <3> QED BY <3>2, <3>3, <3>4
  <2>7. Rising(revs)
    <3>1. SUFFICES ASSUME NEW i \in DOMAIN revs, NEW j \in DOMAIN revs, i < j PROVE revs[i] < revs[j]
      BY DEF Rising
    <3> DEFINE a == n + i
               b == n + j
    <3>2. a \in (n + 1)..Len(cur) /\ b \in (n + 1)..Len(cur) /\ revs[i] = cur[a] /\ revs[j] = cur[b]
      BY <2>5
    <3>3. a < b
      BY <2>1, <2>5, <3>1
    <3>4. a \in DOMAIN cur /\ b \in DOMAIN cur
      BY <1>1, <2>1, <3>2
    <3> HIDE DEF a, b
    <3> QED BY <3>2, <3>3, <3>4 DEF Rising
  <2>8. Range(revs) \subseteq Range(cur)
    <3>1. ((n + 1)..Len(cur)) \subseteq 1..Len(cur)
      BY <1>1, <2>1
    <3>2. \A k \in (n + 1)..Len(cur) : cur[k] \in Range(cur)
      BY <1>1, <3>1 DEF Range
    <3> QED BY <2>5, <3>2
  <2>9. ASSUME NEW c \in Range(prev), NEW d \in Range(revs) PROVE c < d
    <3>1. PICK i \in 1..Len(prev) : c = prev[i]
      BY <1>1 DEF Range
    <3>2. PICK k \in (n + 1)..Len(cur) : d = cur[k]
      BY <2>5
    <3> QED BY <1>3, <2>3, <3>1, <3>2
  <2> QED BY <2>7, <2>8, <2>9 DEF Follows
<1> QED BY <1>4, <1>5

\* The cards of a poll: the last ones are shown, the others counted.
LEMMA CardsSplit ==
    ASSUME NEW S, NEW cards \in Seq(S) \ {<<>>}
    PROVE  /\ Shown(cards) \in Seq(S) \ {<<>>} /\ Earlier(cards) \in Seq(S)
           /\ Range(cards) = Range(Earlier(cards)) \cup Range(Shown(cards))
           /\ Len(Shown(cards)) <= Len(cards)
           /\ Earlier(cards) # <<>> => Len(cards) > 1
           /\ Rising(cards) =>
                 /\ Rising(Shown(cards))
                 /\ \A c \in Range(Earlier(cards)), d \in Range(Shown(cards)) : c < d
<1> DEFINE m == Len(cards) - Least(Burst, Len(cards))
           shown == SubSeq(cards, m + 1, Len(cards))
           early == SubSeq(cards, 1, m)
<1>1. Len(cards) \in Nat \ {0} /\ DOMAIN cards = 1..Len(cards)
  OBVIOUS
<1>2. m \in 0..(Len(cards) - 1)
  BY <1>1, BotAssumption DEF Least
<1>3. Shown(cards) = shown /\ Earlier(cards) = early
  BY DEF Shown, Earlier
<1> HIDE DEF m
<1>4. cards \in Seq(S) /\ m \in 0..Len(cards)
  BY <1>1, <1>2
<1>11. shown = SubSeq(cards, m + 1, Len(cards))
  OBVIOUS
<1>12. early = SubSeq(cards, 1, m)
  OBVIOUS
<1> HIDE DEF shown, early
<1>5. /\ shown \in Seq(S) /\ Len(shown) = Len(cards) - m /\ DOMAIN shown = 1..Len(shown)
      /\ shown = <<>> => m >= Len(cards)
      /\ \A i \in 1..Len(shown) : m + i \in (m + 1)..Len(cards) /\ shown[i] = cards[m + i]
      /\ \A x \in Range(shown) : \E k \in (m + 1)..Len(cards) : x = cards[k]
      /\ \A k \in (m + 1)..Len(cards) : cards[k] \in Range(shown)
  <2>1. shown \in Seq(S) /\ Len(shown) = Len(cards) - m /\ DOMAIN shown = 1..Len(shown)
    BY <1>4, <1>11, Rest
  <2>2. shown = <<>> => m >= Len(cards)
    BY <1>4, <1>11, Rest
  <2>3. \A i \in 1..Len(shown) : m + i \in (m + 1)..Len(cards) /\ shown[i] = cards[m + i]
    BY <1>4, <1>11, Rest
  <2>4. \A k \in (m + 1)..Len(cards) : cards[k] \in Range(shown)
    BY <1>4, <1>11, RestHas, Zenon
  <2>5. ASSUME NEW x \in Range(shown) PROVE \E k \in (m + 1)..Len(cards) : x = cards[k]
    <3>1. PICK i \in 1..Len(shown) : x = shown[i]
      BY <2>1 DEF Range
    <3> QED BY <2>3, <3>1
  <2> QED BY <2>1, <2>2, <2>3, <2>4, <2>5
<1>6. /\ early \in Seq(S) /\ (early # <<>> => m > 0)
      /\ \A x \in Range(early) : \E k \in 1..m : x = cards[k]
      /\ \A k \in 1..m : cards[k] \in Range(early)
  <2>1. early \in Seq(S)
    BY <1>4, <1>12, First
  <2>2. early # <<>> => m > 0
    BY <1>4, <1>12, First
  <2>3. \A k \in 1..m : cards[k] \in Range(early)
    BY <1>4, <1>12, FirstHas, Zenon
  <2>4. ASSUME NEW x \in Range(early) PROVE \E k \in 1..m : x = cards[k]
    <3>1. DOMAIN early = 1..m /\ \A i \in 1..m : early[i] = cards[i]
      BY <1>4, <1>12, First
    <3> QED BY <3>1 DEF Range
  <2> QED BY <2>1, <2>2, <2>3, <2>4
<1>7. shown # <<>> /\ Len(shown) <= Len(cards) /\ (early # <<>> => Len(cards) > 1)
  <2>1. ~(m >= Len(cards)) /\ (m > 0 => Len(cards) > 1) /\ Len(cards) - m <= Len(cards)
    BY <1>1, <1>2
  <2> QED BY <1>5, <1>6, <2>1
<1>8. Range(cards) = Range(early) \cup Range(shown)
  <2>1. \A i \in 1..Len(cards) : i \in 1..m \/ i \in (m + 1)..Len(cards)
    BY <1>1, <1>2
  <2>2. (1..m) \subseteq 1..Len(cards) /\ ((m + 1)..Len(cards)) \subseteq 1..Len(cards)
    BY <1>1, <1>2
  <2>3. \A x : x \in Range(cards) <=> \E k \in 1..Len(cards) : x = cards[k]
    BY <1>1 DEF Range
  <2> QED BY <1>5, <1>6, <2>1, <2>2, <2>3
<1>9. ASSUME Rising(cards) PROVE Rising(shown)
  <2>1. SUFFICES ASSUME NEW i \in DOMAIN shown, NEW j \in DOMAIN shown, i < j PROVE shown[i] < shown[j]
    BY DEF Rising
  <2> DEFINE a == m + i
             b == m + j
  <2>2. a \in (m + 1)..Len(cards) /\ b \in (m + 1)..Len(cards) /\ shown[i] = cards[a] /\ shown[j] = cards[b]
    BY <1>5
  <2>3. a < b
    BY <1>2, <1>5, <2>1
  <2>4. a \in DOMAIN cards /\ b \in DOMAIN cards
    BY <1>1, <1>2, <2>2
  <2> HIDE DEF a, b
  <2> QED BY <1>9, <2>2, <2>3, <2>4 DEF Rising
<1>10. ASSUME Rising(cards), NEW c \in Range(early), NEW d \in Range(shown) PROVE c < d
  <2>1. PICK i \in 1..m, j \in (m + 1)..Len(cards) : c = cards[i] /\ d = cards[j]
    BY <1>5, <1>6
  <2>2. i \in DOMAIN cards /\ j \in DOMAIN cards /\ i < j
    BY <1>1, <1>2
  <2> QED BY <1>10, <2>1, <2>2 DEF Rising
<1> QED BY <1>3, <1>5, <1>6, <1>7, <1>8, <1>9, <1>10

-----------------------------------------------------------------------------
(* The link: what the bot sends and what the server makes of it. *)

ChannelKinds == {"JOIN", "PRIVMSG", "REPLY", "TOPIC"}

Lines == [k : {"CAP LS", "CAP END", "AUTHENTICATE", "USER", "PING", "PONG", "JOIN", "PRIVMSG", "REPLY"}]
           \cup [k : {"NICK"}, nick : Nat] \cup [k : {"TOPIC"}, topic : Topics]
           \cup [k : {"CAP REQ"}, caps : SUBSET CapNames]

NumericCodes == {"001", "376", "433", "442", "451", "903", "904", "907"}
Answers  == [k : {"numeric"}, code : NumericCodes]
              \cup [k : {"LS"}, caps : SUBSET CapNames, more : BOOLEAN]
              \cup [k : {"ACK"}, caps : SUBSET CapNames]
              \cup [k : {"NAK", "AUTHENTICATE", "PONG"}]
Messages == Answers \cup [k : {"PING"}] \cup [k : {"KICK"}, nick : Nat] \cup [k : {"COMMAND"}, ask : Asks]

Results == [session : SessionType(Topics), out : Seq(Answers)]
Links   == [link : {"none", "up", "dead", "eof"}, inp : Seq(Messages), session : SessionType(Topics)]

\* What a client gets that is registered, and nobody else.
Welcome(m)   == Is(m, {"001", "376"}) \/ m.k \in {"KICK", "COMMAND"}
Welcomes(ms) == \E i \in DOMAIN ms : Welcome(ms[i])

\* From the session s the lines lead to r: nobody is unregistered, nobody is
\* welcomed or gets into the channel who is not registered, and nothing is said
\* early by a client that is registered or says nothing that needs it.
Member(s) == s.inChannel => s.registered
Orderly(s, r) ==
    /\ s.registered => r.session.registered
    /\ Welcomes(r.out) => r.session.registered
    /\ Member(s) => Member(r.session)
Timely(s, mute, r) == ~s.early /\ (s.registered \/ mute) => ~r.session.early

ServerType == conf \in Servers /\ taken \subseteq Nat

\* An answer that is no welcome, to a client that stays as registered and as
\* early as it was.
Same(s, t)  == /\ t \in SessionType(Topics)
               /\ t.registered = s.registered /\ t.early = s.early
               /\ Member(s) => Member(t)
Plain(s, r) == r \in Results /\ ~Welcomes(r.out) /\ Same(s, r.session)

LEMMA SessionUpdates ==
    ASSUME NEW s \in SessionType(Topics)
    PROVE  /\ Same(s, s)
           /\ Same(s, [s EXCEPT !.cap = "negotiating"])
           /\ Same(s, [s EXCEPT !.cap = "complete"])
           /\ \A caps \in SUBSET CapNames :
                Same(s, [s EXCEPT !.cap = "negotiating", !.negotiated = s.negotiated \cup caps])
           /\ \A a \in {"none", "authenticating", "succeeded"} : Same(s, [s EXCEPT !.sasl = a])
           /\ \A nick \in Nat : Same(s, [s EXCEPT !.nick = nick])
           /\ Same(s, [s EXCEPT !.user = TRUE])
           /\ s.registered => Same(s, [s EXCEPT !.inChannel = TRUE])
           /\ \A lost \in BOOLEAN : Same(s, [s EXCEPT !.topicLost = lost])
           /\ \A topic \in Topics : Same(s, [s EXCEPT !.topic = topic, !.topicLost = FALSE])
BY DEF Same, SessionType, Member

LEMMA Silence ==
    ASSUME NEW s, NEW t, Same(s, t)
    PROVE  Plain(s, To(t, <<>>))
BY DEF Plain, Same, Results, To, Welcomes

LEMMA OneAnswer ==
    ASSUME NEW s, NEW t, Same(s, t), NEW a \in Answers, ~Welcome(a)
    PROVE  Plain(s, To(t, <<a>>)) /\ Len(To(t, <<a>>).out) > 0
<1>1. <<a>> \in Seq(Answers) /\ DOMAIN <<a>> = {1} /\ <<a>>[1] = a /\ Len(<<a>>) = 1
  OBVIOUS
<1>2. ~Welcomes(<<a>>)
  BY <1>1 DEF Welcomes
<1> QED BY <1>1, <1>2 DEF Plain, Same, Results, To

LEMMA PlainAnswers ==
    /\ \A code \in NumericCodes \ {"001", "376"} :
            Numeric(code) \in Answers /\ ~Welcome(Numeric(code))
    /\ \A caps \in SUBSET CapNames : CapAck(caps) \in Answers /\ ~Welcome(CapAck(caps))
    /\ CapNak \in Answers /\ ~Welcome(CapNak)
    /\ Authenticate \in Answers /\ ~Welcome(Authenticate)
    /\ [k |-> "PONG"] \in Answers /\ ~Welcome([k |-> "PONG"])
BY DEF Answers, Welcome, Is, Numeric, CapAck, CapNak, Authenticate

LEMMA CommandKeeps ==
    ASSUME NEW s \in SessionType(Topics), NEW line \in Lines, ServerType,
           NEW r, r = Command(conf, taken, s, line)
    PROVE  /\ r \in Results /\ ~Welcomes(r.out)
           /\ r.session.registered = s.registered /\ (Member(s) => Member(r.session))
           /\ ~s.early /\ (s.registered \/ line.k \notin ChannelKinds) => ~r.session.early
           /\ line.k = "PING" => Len(r.out) > 0
<1>0. SUFFICES \/ Plain(s, r) /\ (line.k = "PING" => Len(r.out) > 0)
               \/ /\ line.k \in ChannelKinds /\ ~s.registered
                  /\ r \in Results /\ ~Welcomes(r.out) /\ r.session.registered = s.registered
                  /\ Member(s) => Member(r.session)
  BY DEF Plain, Same, ChannelKinds
<1>1. /\ conf.ls \in Seq([k : {"LS"}, caps : SUBSET CapNames, more : BOOLEAN])
      /\ conf.grants \in BOOLEAN /\ conf.accepts \in BOOLEAN
  BY BotAssumption DEF ServerType
<1>2. CASE line.k \in {"CAP LS", "CAP REQ", "CAP END"}
  <2>1. r = CapCommand(conf, s, line)
    BY <1>2 DEF Command
  <2>2. CASE line.k = "CAP LS"
    <3> DEFINE ls == conf.ls
               t  == [s EXCEPT !.cap = "negotiating"]
    <3>1. r = To(t, ls)
      BY <2>1, <2>2 DEF CapCommand
    <3>2. ls \in Seq([k : {"LS"}, caps : SUBSET CapNames, more : BOOLEAN])
      BY <1>1
    <3>3. Same(s, t)
      BY SessionUpdates
    <3> HIDE DEF ls, t
    <3>4. ASSUME NEW i \in 1..Len(ls) PROVE ls[i] \in Answers /\ ~Welcome(ls[i])
      <4>1. ls[i] \in [k : {"LS"}, caps : SUBSET CapNames, more : BOOLEAN]
        BY <3>2, ElementOfSeq
      <4>2. ls[i].k = "LS"
        BY <4>1
      <4> QED BY <4>1, <4>2 DEF Answers, Welcome, Is
    <3>5. Len(ls) \in Nat /\ DOMAIN ls = 1..Len(ls) /\ ls = [i \in 1..Len(ls) |-> ls[i]]
      BY <3>2
    <3>6. ls \in Seq(Answers) /\ ~Welcomes(ls)
      BY <3>4, <3>5 DEF Welcomes
    <3>7. Plain(s, r)
      <4>1. To(t, ls) \in Results /\ To(t, ls).out = ls /\ To(t, ls).session = t
        BY <3>3, <3>6 DEF Same, Results, To
      <4> QED BY <3>1, <3>3, <3>6, <4>1 DEF Plain
    <3> QED BY <2>2, <3>7
  <2>3. CASE line.k = "CAP REQ"
    <3>1. line.caps \in SUBSET CapNames
      BY <2>3 DEF Lines
    <3>2. \/ r = To([s EXCEPT !.cap = "negotiating", !.negotiated = s.negotiated \cup line.caps], <<CapAck(line.caps)>>)
          \/ r = To([s EXCEPT !.cap = "negotiating"], <<CapNak>>)
      BY <2>1, <2>3 DEF CapCommand
    <3>3. Plain(s, r)
      BY <3>1, <3>2, SessionUpdates, PlainAnswers, OneAnswer
    <3> QED BY <2>3, <3>3
  <2>4. CASE line.k = "CAP END"
    <3>1. r = To([s EXCEPT !.cap = "complete"], <<>>)
      BY <2>1, <2>4 DEF CapCommand
    <3> QED BY <2>4, <3>1, SessionUpdates, Silence
  <2> QED BY <1>2, <2>2, <2>3, <2>4
<1>3. CASE line.k = "AUTHENTICATE"
  <2>1. \/ \E code \in {"907", "904"} : r = To(s, <<Numeric(code)>>)
        \/ r = To([s EXCEPT !.sasl = "authenticating"], <<Authenticate>>)
        \/ r = To([s EXCEPT !.sasl = "succeeded"], <<Numeric("903")>>)
        \/ r = To([s EXCEPT !.sasl = "none"], <<Numeric("904")>>)
    BY <1>1, <1>3 DEF Command, SaslCommand
  <2>2. {"907", "904", "903"} \subseteq NumericCodes \ {"001", "376"}
    BY DEF NumericCodes
  <2>3. Plain(s, r)
    BY <2>1, <2>2, SessionUpdates, PlainAnswers, OneAnswer
  <2> QED BY <1>3, <2>3
<1>4. CASE line.k = "NICK"
  <2>1. line.nick \in Nat
    BY <1>4 DEF Lines
  <2>2. r = To(s, <<Numeric("433")>>) \/ r = To([s EXCEPT !.nick = line.nick], <<>>)
    BY <1>4 DEF Command, NickCommand
  <2>3. "433" \in NumericCodes \ {"001", "376"}
    BY DEF NumericCodes
  <2>4. Plain(s, r)
    BY <2>1, <2>2, <2>3, SessionUpdates, PlainAnswers, OneAnswer, Silence
  <2> QED BY <1>4, <2>4
<1>5. CASE line.k \in {"USER", "PING", "PONG"}
  <2>1. CASE line.k = "PING"
    <3>1. r = To(s, <<[k |-> "PONG"]>>)
      BY <2>1 DEF Command
    <3> QED BY <3>1, SessionUpdates, PlainAnswers, OneAnswer
  <2>2. CASE line.k \in {"USER", "PONG"}
    <3>1. r = To(s, <<>>) \/ r = To([s EXCEPT !.user = TRUE], <<>>)
      BY <2>2 DEF Command
    <3> QED BY <2>2, <3>1, SessionUpdates, Silence
  <2> QED BY <1>5, <2>1, <2>2
<1>6. CASE line.k \in ChannelKinds
  <2>1. r = ChannelCommand(s, line)
    BY <1>6 DEF Command, ChannelKinds
  <2>2. {"451", "442"} \subseteq NumericCodes \ {"001", "376"} /\ line.k # "PING"
    BY <1>6 DEF NumericCodes, ChannelKinds
  <2>3. CASE ~s.registered
    <3>1. r = To([s EXCEPT !.early = TRUE], <<Numeric("451")>>)
      BY <2>1, <2>3 DEF ChannelCommand
    <3>2. /\ [s EXCEPT !.early = TRUE] \in SessionType(Topics) /\ [s EXCEPT !.early = TRUE].registered = s.registered
          /\ Member(s) => Member([s EXCEPT !.early = TRUE])
      BY DEF SessionType, Member
    <3>3. <<Numeric("451")>> \in Seq(Answers) /\ ~Welcomes(<<Numeric("451")>>)
      <4>1. Plain(s, To(s, <<Numeric("451")>>))
        BY <2>2, SessionUpdates, PlainAnswers, OneAnswer
      <4> QED BY <4>1 DEF Plain, To, Results
    <3> DEFINE t   == [s EXCEPT !.early = TRUE]
               out == <<Numeric("451")>>
    <3>4. /\ r = [session |-> t, out |-> out] /\ t \in SessionType(Topics)
          /\ t.registered = s.registered /\ out \in Seq(Answers) /\ ~Welcomes(out)
          /\ Member(s) => Member(t)
      BY <3>1, <3>2, <3>3 DEF To
    <3> HIDE DEF t, out
    <3>5. r \in Results /\ r.session = t /\ r.out = out
      BY <3>4 DEF Results
    <3> QED BY <1>6, <2>3, <3>4, <3>5
  <2>4. CASE s.registered
    <3>1. \/ r = To(s, <<>>) \/ r = To([s EXCEPT !.inChannel = TRUE], <<>>)
          \/ \E lost \in BOOLEAN : r = To([s EXCEPT !.topicLost = lost], <<Numeric("442")>>)
          \/ line.k = "TOPIC" /\ r = To([s EXCEPT !.topic = line.topic, !.topicLost = FALSE], <<>>)
      <4>1. s.topicLost \in BOOLEAN
        BY DEF SessionType
      <4> DEFINE lost == s.topicLost \/ line.k = "TOPIC"
      <4>2. lost \in BOOLEAN
        BY <4>1
      <4>3. \/ r = To(s, <<>>) \/ r = To([s EXCEPT !.inChannel = TRUE], <<>>)
            \/ r = To([s EXCEPT !.topicLost = lost], <<Numeric("442")>>)
            \/ line.k = "TOPIC" /\ r = To([s EXCEPT !.topic = line.topic, !.topicLost = FALSE], <<>>)
        BY <1>6, <2>1, <2>4 DEF ChannelCommand, ChannelKinds
      <4> HIDE DEF lost
      <4> QED BY <4>2, <4>3
    <3>2. line.k = "TOPIC" => line.topic \in Topics
      BY DEF Lines
    <3>3. Plain(s, r)
      BY <2>2, <2>4, <3>1, <3>2, SessionUpdates, PlainAnswers, OneAnswer, Silence
    <3> QED BY <2>2, <3>3
  <2> QED BY <2>3, <2>4 DEF SessionType
<1> QED BY <1>2, <1>3, <1>4, <1>5, <1>6 DEF Lines, ChannelKinds

\* One line, with the welcome that may follow.
LEMMA ServedKeeps ==
    ASSUME NEW s \in SessionType(Topics), NEW line \in Lines, ServerType,
           NEW d \in Served(s, line)
    PROVE  /\ d \in Results /\ Orderly(s, d)
           /\ Timely(s, line.k \notin ChannelKinds, d)
           /\ line.k = "PING" => Len(d.out) > 0
<1>1. CASE Blocked(line)
  <2>1. d = To(s, <<>>) /\ line.k # "PING"
    BY <1>1 DEF Served, Blocked, ForeignTopic
  <2> QED BY <2>1 DEF Results, To, Orderly, Timely, Welcomes
<1>2. CASE ~Blocked(line)
  <2> DEFINE r == Command(conf, taken, s, line)
  <2>1. d = Welcomed(s, r)
    BY <1>2 DEF Served, Dispatch
  <2>2. /\ r \in Results /\ ~Welcomes(r.out) /\ r.session.registered = s.registered
        /\ Member(s) => Member(r.session)
        /\ ~s.early /\ (s.registered \/ line.k \notin ChannelKinds) => ~r.session.early
        /\ line.k = "PING" => Len(r.out) > 0
    BY CommandKeeps
  <2> HIDE DEF r
  <2>3. CASE d = r
    BY <2>2, <2>3 DEF Orderly, Timely
  <2>4. CASE d = To([r.session EXCEPT !.registered = TRUE], r.out \o <<Numeric("001"), Numeric("376")>>)
    <3>1. [r.session EXCEPT !.registered = TRUE] \in SessionType(Topics)
      BY <2>2 DEF Results, SessionType
    <3>2. <<Numeric("001"), Numeric("376")>> \in Seq(Answers) /\ r.out \in Seq(Answers)
      BY <2>2 DEF Numeric, Answers, NumericCodes, Results
    <3>3. d.out \in Seq(Answers) /\ Len(d.out) > 0
      BY <2>4, <3>2 DEF To
    <3>4. /\ d.session = [r.session EXCEPT !.registered = TRUE]
          /\ d.session.registered /\ d.session.early = r.session.early
      BY <2>2, <2>4 DEF To, Results, SessionType
    <3>5. d \in Results
      BY <2>4, <3>1, <3>3 DEF Results, To
    <3> QED BY <2>2, <3>3, <3>4, <3>5 DEF Orderly, Timely, Member
  <2> QED BY <2>1, <2>3, <2>4 DEF Welcomed
<1> QED BY <1>1, <1>2

\* Lines in a row: the recursive function is there, and goes line by line.
Chain(s, lines, n, g) == g = [i \in 0..n |-> IF i = 0 THEN {To(s, <<>>)} ELSE OneMore(g[i - 1], lines[i])]

LEMMA ChainExists ==
    ASSUME NEW s, NEW lines, NEW n \in Nat
    PROVE  \E g : Chain(s, lines, n, g)
<1> DEFINE Good == {k \in 0..n : \E g : Chain(s, lines, k, g)}
<1>1. 0 \in Good
  <2> DEFINE g == [i \in 0..0 |-> {To(s, <<>>)}]
  <2>1. Chain(s, lines, 0, g)
    BY DEF Chain
  <2> QED BY <2>1
<1>2. ASSUME NEW k \in 0..(n - 1), k \in Good PROVE k + 1 \in Good
  <2>1. PICK g : Chain(s, lines, k, g)
    BY <1>2
  <2> DEFINE h == [i \in 0..(k + 1) |-> IF i <= k THEN g[i] ELSE OneMore(g[k], lines[k + 1])]
  <2>2. ASSUME NEW i \in 0..(k + 1)
        PROVE  h[i] = IF i = 0 THEN {To(s, <<>>)} ELSE OneMore(h[i - 1], lines[i])
    <3>1. CASE i <= k
      <4>1. i \in 0..k /\ h[i] = g[i] /\ (i # 0 => h[i - 1] = g[i - 1])
        BY <3>1
      <4>2. g[i] = IF i = 0 THEN {To(s, <<>>)} ELSE OneMore(g[i - 1], lines[i])
        BY <2>1, <4>1 DEF Chain
      <4> QED BY <4>1, <4>2
    <3>2. CASE ~(i <= k)
      <4>1. i = k + 1 /\ i # 0 /\ h[i - 1] = g[k] /\ h[i] = OneMore(g[k], lines[k + 1])
        BY <3>2
      <4> QED BY <4>1
    <3> QED BY <3>1, <3>2
  <2>3. h = [i \in 0..(k + 1) |-> h[i]]
    OBVIOUS
  <2> HIDE DEF h
  <2>4. Chain(s, lines, k + 1, h)
    BY <2>2, <2>3, Zenon DEF Chain
  <2> QED BY <2>4
<1> HIDE DEF Good
<1>3. \A k \in 0..n : k \in Good
  BY <1>1, <1>2, CountingInduction
<1> QED BY <1>3 DEF Good

LEMMA ChainStep ==
    ASSUME NEW s, NEW lines, NEW n, NEW g, Chain(s, lines, n, g), NEW i \in 0..n
    PROVE  /\ i = 0 => g[i] = {To(s, <<>>)}
           /\ i # 0 => g[i] = OneMore(g[i - 1], lines[i])
BY DEF Chain

LEMMA RepliesChain ==
    ASSUME NEW s, NEW lines, Len(lines) \in Nat
    PROVE  \E g : Chain(s, lines, Len(lines), g) /\ Replies(s, lines) = g[Len(lines)]
<1> DEFINE g == CHOOSE h : Chain(s, lines, Len(lines), h)
<1>1. Replies(s, lines) = g[Len(lines)]
  BY DEF Replies, Chain
<1>2. Chain(s, lines, Len(lines), g)
  BY ChainExists
<1> QED BY <1>1, <1>2

LEMMA JoinedWelcomes ==
    ASSUME NEW S, NEW T, NEW a \in Seq(S), NEW b \in Seq(T), Welcomes(a \o b)
    PROVE  Welcomes(a) \/ Welcomes(b)
<1> DEFINE c == a \o b
<1>1. /\ Len(a) \in Nat /\ Len(b) \in Nat /\ Len(c) = Len(a) + Len(b)
      /\ DOMAIN a = 1..Len(a) /\ DOMAIN b = 1..Len(b) /\ DOMAIN c = 1..(Len(a) + Len(b))
  OBVIOUS
<1>2. PICK i \in 1..(Len(a) + Len(b)) : Welcome(c[i])
  BY <1>1 DEF Welcomes
<1>3. CASE i <= Len(a)
  <2>1. i \in 1..Len(a) /\ c[i] = a[i]
    BY <1>1, <1>3
  <2> QED BY <1>1, <1>2, <2>1 DEF Welcomes
<1>4. CASE ~(i <= Len(a))
  <2>1. i - Len(a) \in 1..Len(b)
    BY <1>1, <1>4
  <2>2. c[i] = b[i - Len(a)]
    BY <1>1, <1>4
  <2> HIDE DEF c
  <2> QED BY <1>1, <1>2, <2>1, <2>2 DEF Welcomes
<1> QED BY <1>3, <1>4

LEMMA RepliesKeep ==
    ASSUME NEW s \in SessionType(Topics), NEW lines \in Seq(Lines), ServerType,
           NEW r \in Replies(s, lines)
    PROVE  /\ r \in Results /\ Orderly(s, r)
           /\ Timely(s, \A i \in 1..Len(lines) : lines[i].k \notin ChannelKinds, r)
<1> DEFINE mute == \A i \in 1..Len(lines) : lines[i].k \notin ChannelKinds
           fine == {q \in Results : Orderly(s, q) /\ Timely(s, mute, q)}
<1>1. PICK g : Chain(s, lines, Len(lines), g) /\ Replies(s, lines) = g[Len(lines)]
  BY RepliesChain
<1> DEFINE Good == {k \in 0..Len(lines) : g[k] \subseteq fine}
<1>2. 0 \in Good
  <2>1. g[0] = {To(s, <<>>)}
    BY <1>1 DEF Chain
  <2>2. To(s, <<>>) \in fine
    BY DEF Results, To, Orderly, Timely, Welcomes
  <2> HIDE DEF fine
  <2> QED BY <2>1, <2>2
<1>3. ASSUME NEW k \in 0..(Len(lines) - 1), k \in Good PROVE k + 1 \in Good
  <2>1. g[k + 1] = OneMore(g[k], lines[k + 1]) /\ lines[k + 1] \in Lines /\ k + 1 \in 1..Len(lines)
    <3>1. k + 1 \in 1..Len(lines) /\ k + 1 \in 0..Len(lines) /\ (k + 1) - 1 = k /\ k + 1 # 0
      OBVIOUS
    <3>2. lines[k + 1] \in Lines
      BY <3>1
    <3> QED BY <1>1, <3>1, <3>2, ChainStep
  <2>2. ASSUME NEW q \in g[k], NEW d \in Served(q.session, lines[k + 1])
        PROVE  To(d.session, q.out \o d.out) \in fine
    <3> DEFINE e == To(d.session, q.out \o d.out)
    <3>1. q \in Results /\ Orderly(s, q) /\ Timely(s, mute, q)
      BY <1>3, <2>2
    <3>2. q.session \in SessionType(Topics) /\ q.out \in Seq(Answers)
      BY <3>1 DEF Results
    <3>3. d \in Results /\ Orderly(q.session, d) /\ Timely(q.session, lines[k + 1].k \notin ChannelKinds, d)
      BY <2>1, <2>2, <3>2, ServedKeeps
    <3>4. d.session \in SessionType(Topics) /\ d.out \in Seq(Answers)
      BY <3>3 DEF Results
    <3>5. q.out \o d.out \in Seq(Answers)
      BY <3>2, <3>4
    <3>6. e.session = d.session /\ e.out = q.out \o d.out /\ e \in Results
      BY <3>4, <3>5 DEF To, Results
    <3>7. Welcomes(e.out) => Welcomes(q.out) \/ Welcomes(d.out)
      BY <3>2, <3>4, <3>6, JoinedWelcomes
    <3>8. mute => lines[k + 1].k \notin ChannelKinds
      BY <2>1
    <3> HIDE DEF e, mute
    <3>9. Orderly(s, e) /\ Timely(s, mute, e)
      BY <3>1, <3>3, <3>6, <3>7, <3>8 DEF Orderly, Timely
    <3> QED BY <3>6, <3>9 DEF e
  <2> HIDE DEF fine
  <2>3. g[k + 1] \subseteq fine
    BY <2>1, <2>2 DEF OneMore
  <2> QED BY <2>1, <2>3
<1> HIDE DEF Good, fine
<1>4. Len(lines) \in Nat
  OBVIOUS
<1>5. \A k \in 0..Len(lines) : k \in Good
  BY <1>2, <1>3, <1>4, CountingInduction
<1>6. r \in fine
  BY <1>1, <1>4, <1>5 DEF Good
<1> QED BY <1>6 DEF fine

\* A probe is answered.
LEMMA PingAnswered ==
    ASSUME NEW s \in SessionType(Topics), ServerType,
           NEW r \in Replies(s, <<Line("PING")>>)
    PROVE  Len(r.out) > 0
<1> DEFINE lines == <<Line("PING")>>
<1>1. Len(lines) = 1 /\ lines[1] = Line("PING")
  OBVIOUS
<1> HIDE DEF lines
<1>2. PICK g : Chain(s, lines, 1, g) /\ Replies(s, lines) = g[1]
  BY <1>1, RepliesChain
<1>3. g[0] = {To(s, <<>>)} /\ g[1] = OneMore(g[0], Line("PING"))
  <2>1. 0 \in 0..1 /\ 1 \in 0..1 /\ 1 # 0 /\ 1 - 1 = 0
    OBVIOUS
  <2> QED BY <1>1, <1>2, <2>1, ChainStep
<1>4. PICK d \in Served(s, Line("PING")) : r = To(d.session, <<>> \o d.out)
  <2>1. r \in OneMore({To(s, <<>>)}, Line("PING"))
    BY <1>2, <1>3 DEF lines
  <2>2. To(s, <<>>).session = s /\ To(s, <<>>).out = <<>>
    BY DEF To
  <2> QED BY <2>1, <2>2 DEF OneMore
<1>5. Line("PING") \in Lines /\ Line("PING").k = "PING"
  BY DEF Lines, Line
<1>6. d \in Results /\ Len(d.out) > 0
  BY <1>5, ServedKeeps
<1>7. r.out = <<>> \o d.out /\ d.out \in Seq(Answers)
  BY <1>4, <1>6 DEF To, Results
<1> QED BY <1>6, <1>7

-----------------------------------------------------------------------------
(* Nothing is said early. *)

Queued == {Line("PRIVMSG"), Line("REPLY"), Line("JOIN")}
Fields == [nick : Nat, joined : BOOLEAN, registered : BOOLEAN, capEnded : BOOLEAN,
           capLs : SUBSET CapNames, lastTopic : Topics]

\* The bot has joined, or has lines to say, only on a link on which it is
\* registered: what it takes as its welcome is one, and what was queued for the
\* last connection is gone.
Due == session.joined \/ Len(outq) > 0
LinkInv ==
    /\ ServerType /\ net \in Links /\ session \in Fields /\ outq \in Seq(Queued)
    /\ introDone \in BOOLEAN /\ backoff \in RECONNECT_MIN..RECONNECT_MAX
    /\ net.link = "none" <=> At("backoff")
    /\ ~net.session.early /\ Member(net.session)
    /\ net.link = "up" /\ (Due \/ Welcomes(net.inp)) => net.session.registered

Mute(lines) == \A i \in 1..Len(lines) : lines[i].k \notin ChannelKinds

\* What send_raw does to a link.
LEMMA Sent ==
    ASSUME ServerType, NEW n \in Links, NEW lines \in Seq(Lines), SendRaw(n, lines)
    PROVE  /\ net' \in Links /\ net'.link = n.link /\ (n.link # "up" => net' = n)
           /\ Len(net'.inp) >= Len(n.inp)
           /\ n.link = "up" => Orderly(n.session, [session |-> net'.session, out |-> <<>>])
           /\ n.link = "up" => (Welcomes(net'.inp) => Welcomes(n.inp) \/ net'.session.registered)
           /\ n.link = "up" => Timely(n.session, Mute(lines), [session |-> net'.session])
<1>1. CASE n.link # "up"
  BY <1>1 DEF SendRaw, Links
<1>2. CASE n.link = "up"
  <2>1. PICK r \in Replies(n.session, lines) : net' = [n EXCEPT !.session = r.session, !.inp = @ \o r.out]
    BY <1>2 DEF SendRaw
  <2>2. n.session \in SessionType(Topics) /\ n.inp \in Seq(Messages)
    BY DEF Links
  <2>3. r \in Results /\ Orderly(n.session, r) /\ Timely(n.session, Mute(lines), r)
    BY <2>2, RepliesKeep DEF Mute
  <2>4. r.session \in SessionType(Topics) /\ r.out \in Seq(Messages)
    <3>1. r.out \in Seq(Answers) /\ r.session \in SessionType(Topics)
      BY <2>3 DEF Results
    <3>2. Answers \subseteq Messages
      BY DEF Messages
    <3> HIDE DEF Messages, Answers
    <3> QED BY <3>1, <3>2
  <2>5. n.inp \o r.out \in Seq(Messages) /\ Len(n.inp \o r.out) = Len(n.inp) + Len(r.out)
    BY <2>2, <2>4
  <2>6. /\ net' \in Links /\ net'.link = n.link /\ net'.inp = n.inp \o r.out
        /\ net'.session = r.session
    BY <2>1, <2>4, <2>5 DEF Links
  <2>7. Len(n.inp) \in Nat /\ Len(r.out) \in Nat
    BY <2>2, <2>4
  <2>8. Welcomes(net'.inp) => Welcomes(n.inp) \/ Welcomes(r.out)
    BY <2>2, <2>4, <2>6, JoinedWelcomes
  <2>9. Orderly(n.session, [session |-> net'.session, out |-> <<>>])
    <3>1. ~Welcomes(<<>>)
      BY DEF Welcomes
    <3> QED BY <2>3, <2>6, <3>1 DEF Orderly
  <2>10. Timely(n.session, Mute(lines), [session |-> net'.session])
    BY <2>3, <2>6 DEF Timely
  <2>11. Len(net'.inp) >= Len(n.inp)
    <3> DEFINE a == Len(n.inp)
               b == Len(r.out)
               c == Len(net'.inp)
    <3>1. c = a + b /\ a \in Nat /\ b \in Nat
      BY <2>5, <2>6, <2>7
    <3> HIDE DEF a, b, c
    <3>2. c >= a
      BY <3>1
    <3> QED BY <3>2 DEF a, c
  <2>12. Welcomes(net'.inp) => Welcomes(n.inp) \/ net'.session.registered
    BY <2>3, <2>6, <2>8 DEF Orderly
  <2> QED BY <1>2, <2>6, <2>9, <2>10, <2>11, <2>12
<1> QED BY <1>1, <1>2

\* A step at which the bot answers on the link, which has lost or kept its first
\* line: what needs a registered client is said only when the link is one.
LEMMA Speaks ==
    ASSUME LinkInv, NEW n \in Links, n.link = net.link, n.session = net.session,
           Welcomes(n.inp) => Welcomes(net.inp),
           NEW lines \in Seq(Lines), SendRaw(n, lines),
           Mute(lines) \/ Due \/ Welcomes(net.inp),
           session' \in Fields, outq' \in Seq(Queued), Due' => Due \/ Welcomes(net.inp),
           introDone' \in BOOLEAN, backoff' = backoff, UNCHANGED world,
           At("backoff") <=> At("backoff")'
    PROVE  LinkInv'
<1>1. ServerType /\ net \in Links /\ Member(net.session) /\ ~net.session.early
  BY DEF LinkInv
<1>2. /\ net' \in Links /\ net'.link = n.link /\ (n.link # "up" => net' = n)
      /\ n.link = "up" => Orderly(n.session, [session |-> net'.session, out |-> <<>>])
      /\ n.link = "up" => (Welcomes(net'.inp) => Welcomes(n.inp) \/ net'.session.registered)
      /\ n.link = "up" => Timely(n.session, Mute(lines), [session |-> net'.session])
  BY <1>1, Sent
<1>3. ServerType' /\ backoff' \in RECONNECT_MIN..RECONNECT_MAX
  BY <1>1 DEF ServerType, world, LinkInv
<1>4. net'.link = "none" <=> At("backoff")'
  BY <1>2 DEF LinkInv
<1>5. CASE n.link # "up"
  BY <1>1, <1>2, <1>3, <1>4, <1>5 DEF LinkInv
<1>6. CASE n.link = "up"
  <2>1. (Due \/ Welcomes(net.inp)) => net.session.registered
    BY <1>6 DEF LinkInv
  <2>2. net.session.registered => net'.session.registered
    BY <1>2, <1>6 DEF Orderly
  <2>3. Member(net'.session)
    BY <1>1, <1>2, <1>6 DEF Orderly
  <2>4. ~net'.session.early
    BY <1>1, <1>2, <1>6, <2>1 DEF Timely
  <2>5. Due' \/ Welcomes(net'.inp) => net'.session.registered
    BY <1>2, <1>6, <2>1, <2>2
  <2> QED BY <1>2, <1>3, <1>4, <2>3, <2>4, <2>5 DEF LinkInv
<1> QED BY <1>5, <1>6

\* A step at which the link does not change.
LEMMA Still ==
    ASSUME LinkInv, net' = net, session' \in Fields, outq' \in Seq(Queued), Due' => Due,
           introDone' \in BOOLEAN, backoff' = backoff, UNCHANGED world,
           At("backoff") <=> At("backoff")'
    PROVE  LinkInv'
BY DEF LinkInv, ServerType, world

\* Lines of the bot.
LEMMA BotLines ==
    /\ \A kind \in {"CAP LS", "CAP END", "AUTHENTICATE", "USER", "PING", "PONG"} :
            Line(kind) \in Lines /\ Line(kind).k \notin ChannelKinds
    /\ Queued \subseteq Lines
    /\ \A nick \in Nat : [k |-> "NICK", nick |-> nick] \in Lines
    /\ \A caps \in SUBSET CapNames : [k |-> "CAP REQ", caps |-> caps] \in Lines
    /\ \A topic \in Topics : Topic(topic) \in Lines
    /\ ForeignTopic \in Lines
<1>1. \A kind \in {"CAP LS", "CAP END", "AUTHENTICATE", "USER", "PING", "PONG"} :
            Line(kind) \in Lines /\ Line(kind).k \notin ChannelKinds
  BY DEF Lines, Line, ChannelKinds
<1>2. Queued \subseteq Lines
  BY DEF Lines, Line, Queued
<1>3. \A nick \in Nat : [k |-> "NICK", nick |-> nick] \in Lines
  BY DEF Lines
<1>4. \A caps \in SUBSET CapNames : [k |-> "CAP REQ", caps |-> caps] \in Lines
  BY DEF Lines
<1>5. \A topic \in Topics : Topic(topic) \in Lines
  BY DEF Lines, Topic
<1>6. ForeignTopic \in Lines
  <2>1. <<>> \in Topics
    BY DEF Topics
  <2>2. ForeignTopic = Topic(<<>>)
    BY DEF ForeignTopic, Topic, NoTopic
  <2> QED BY <1>5, <2>1, <2>2
<1> QED BY <1>1, <1>2, <1>3, <1>4, <1>5, <1>6

LEMMA OneLine ==
    ASSUME NEW line \in Lines
    PROVE  /\ <<line>> \in Seq(Lines)
           /\ line.k \notin ChannelKinds => Mute(<<line>>)
BY DEF Mute

LEMMA NoLines == <<>> \in Seq(Lines) /\ Mute(<<>>)
BY DEF Mute

\* The first line that arrived is taken, and what is left is nothing new.
LEMMA Takes ==
    ASSUME LinkInv, net.inp # <<>>
    PROVE  /\ Head(net.inp) \in Messages
           /\ Received \in Links /\ Received.link = net.link /\ Received.session = net.session
           /\ Welcomes(Received.inp) => Welcomes(net.inp)
           /\ Welcome(Head(net.inp)) => Welcomes(net.inp)
<1> DEFINE q == net.inp
<1>1. q \in Seq(Messages) /\ q # <<>> /\ net \in Links
  BY DEF LinkInv, Links
<1> HIDE DEF q
<1>2. /\ Head(q) \in Messages /\ Tail(q) \in Seq(Messages) /\ Head(q) = q[1]
      /\ Len(q) \in Nat /\ 1 \in 1..Len(q) /\ DOMAIN q = 1..Len(q) /\ DOMAIN Tail(q) = 1..(Len(q) - 1)
      /\ \A i \in 1..(Len(q) - 1) : i + 1 \in 1..Len(q) /\ Tail(q)[i] = q[i + 1]
  BY <1>1
<1>3. (Welcomes(Tail(q)) => Welcomes(q)) /\ (Welcome(Head(q)) => Welcomes(q))
  BY <1>2 DEF Welcomes
<1>4. Received = [net EXCEPT !.inp = Tail(q)]
  BY DEF Received, q
<1>5. Received \in Links /\ Received.link = net.link /\ Received.session = net.session /\ Received.inp = Tail(q)
  BY <1>1, <1>2, <1>4 DEF Links
<1> QED BY <1>2, <1>3, <1>5 DEF q

\* A handler: it answers with lines that need no registered client, or the line
\* that came is one that only such a client gets.
LEMMA Handles ==
    ASSUME LinkInv, At("loop"), net.inp # <<>>, NEW lines \in Seq(Lines), Answer(lines),
           Mute(lines) \/ Welcome(Head(net.inp)),
           session' \in Fields, outq' \in Seq(Queued), Due' => Due \/ Welcome(Head(net.inp)),
           introDone' \in BOOLEAN, backoff' = backoff, UNCHANGED world, ~At("backoff")'
    PROVE  LinkInv'
<1>1. /\ Received \in Links /\ Received.link = net.link /\ Received.session = net.session
      /\ Welcomes(Received.inp) => Welcomes(net.inp)
      /\ Welcome(Head(net.inp)) => Welcomes(net.inp)
  BY Takes
<1>2. SendRaw(Received, lines) /\ ~At("backoff")
  BY DEF Answer, At
<1> QED BY <1>1, <1>2, Speaks

LEMMA FieldUpdates ==
    ASSUME session \in Fields
    PROVE  /\ \A caps \in SUBSET CapNames :
                /\ [session EXCEPT !.capLs = caps] \in Fields
                /\ [session EXCEPT !.capLs = caps].joined = session.joined
                /\ [Ended EXCEPT !.capLs = caps] \in Fields
                /\ [Ended EXCEPT !.capLs = caps].joined = session.joined
           /\ Ended \in Fields /\ Ended.joined = session.joined
           /\ [session EXCEPT !.nick = session.nick + 1] \in Fields
           /\ [session EXCEPT !.nick = session.nick + 1].joined = session.joined
           /\ [session EXCEPT !.registered = TRUE, !.joined = TRUE] \in Fields
           /\ \A topic \in Topics : /\ [session EXCEPT !.lastTopic = topic] \in Fields
                                    /\ [session EXCEPT !.lastTopic = topic].joined = session.joined
<1>1. Ended \in Fields /\ Ended.joined = session.joined
  BY DEF Fields, Ended
<1>2. ASSUME NEW caps \in SUBSET CapNames, NEW f \in Fields
      PROVE  [f EXCEPT !.capLs = caps] \in Fields /\ [f EXCEPT !.capLs = caps].joined = f.joined
  BY DEF Fields
<1>3. /\ [session EXCEPT !.nick = session.nick + 1] \in Fields
      /\ [session EXCEPT !.nick = session.nick + 1].joined = session.joined
  BY DEF Fields
<1>4. [session EXCEPT !.registered = TRUE, !.joined = TRUE] \in Fields
  BY DEF Fields
<1>5. ASSUME NEW topic \in Topics
      PROVE  /\ [session EXCEPT !.lastTopic = topic] \in Fields
             /\ [session EXCEPT !.lastTopic = topic].joined = session.joined
  BY DEF Fields
<1> QED BY <1>1, <1>2, <1>3, <1>4, <1>5

LEMMA CapEndLine == CapEnd \in Seq(Lines) /\ Mute(CapEnd)
<1>1. Line("CAP END") \in Lines /\ Line("CAP END").k \notin ChannelKinds
  BY BotLines
<1>2. <<Line("CAP END")>> \in Seq(Lines) /\ Mute(<<Line("CAP END")>>)
  BY <1>1, OneLine
<1> QED BY <1>2, NoLines DEF CapEnd

LEMMA LinkTypes ==
    ASSUME LinkInv
    PROVE  /\ session \in Fields /\ outq \in Seq(Queued) /\ introDone \in BOOLEAN
           /\ Len(outq) \in Nat
BY DEF LinkInv

\* The handlers of the registration.
LEMMA RegistrationLink ==
    ASSUME LinkInv, At("loop"), net.inp # <<>>, NEW m, m = Head(net.inp),
           HandleCapLs(m) \/ HandleCapAck(m) \/ HandleCapNak(m)
             \/ HandleAuthenticate(m) \/ HandleSaslResult(m) \/ HandleNickInUse(m)
    PROVE  LinkInv'
<1>1. m \in Messages
  BY Takes
<1>2. /\ session \in Fields /\ outq \in Seq(Queued) /\ introDone \in BOOLEAN
  BY LinkTypes
<1>3. UNCHANGED <<pc, outq, introDone, backoff, world>>
  BY DEF HandleCapLs, HandleCapAck, HandleCapNak, HandleAuthenticate, HandleSaslResult, HandleNickInUse, Elsewhere
<1>4. ASSUME session' \in Fields, session'.joined = session.joined,
             NEW lines \in Seq(Lines), Mute(lines), Answer(lines)
      PROVE  LinkInv'
  <2>1. (Due' => Due) /\ outq' \in Seq(Queued) /\ introDone' \in BOOLEAN /\ backoff' = backoff
        /\ UNCHANGED world /\ ~At("backoff")'
    BY <1>2, <1>3, <1>4 DEF Due, At
  <2> QED BY <1>4, <2>1, Handles
<1>5. CASE HandleCapLs(m)
  <2> DEFINE offered == session.capLs \cup m.caps
             want    == (WANT_CAPS \cap offered) \cup (IF SASL_USER THEN {"sasl"} \cap offered ELSE {})
  <2>1. m.caps \in SUBSET CapNames /\ session.capLs \in SUBSET CapNames /\ m.more \in BOOLEAN
    BY <1>1, <1>2, <1>5 DEF HandleCapLs, Messages, Answers, Fields
  <2>2. offered \in SUBSET CapNames /\ want \in SUBSET CapNames
    BY <2>1 DEF CapNames
  <2>3. \/ Answer(<<>>) /\ session' = [session EXCEPT !.capLs = offered]
        \/ Answer(<<[k |-> "CAP REQ", caps |-> want]>>) /\ session' = [session EXCEPT !.capLs = offered]
        \/ Answer(CapEnd) /\ session' = [Ended EXCEPT !.capLs = offered]
    BY <1>5, <2>1 DEF HandleCapLs
  <2> HIDE DEF offered, want
  <2>4. session' \in Fields /\ session'.joined = session.joined
    BY <1>2, <2>2, <2>3, FieldUpdates
  <2>5. /\ <<[k |-> "CAP REQ", caps |-> want]>> \in Seq(Lines)
        /\ Mute(<<[k |-> "CAP REQ", caps |-> want]>>)
    <3>1. [k |-> "CAP REQ", caps |-> want] \in Lines
      BY <2>2, BotLines
    <3> QED BY <3>1, OneLine DEF ChannelKinds
  <2> QED BY <1>4, <2>3, <2>4, <2>5, NoLines, CapEndLine
<1>6. CASE HandleCapAck(m) \/ HandleCapNak(m) \/ HandleSaslResult(m)
  <2>1. \/ Answer(<<Line("AUTHENTICATE")>>) /\ session' = session
        \/ Answer(CapEnd) /\ session' = Ended
    BY <1>6 DEF HandleCapAck, HandleCapNak, HandleSaslResult
  <2>2. <<Line("AUTHENTICATE")>> \in Seq(Lines) /\ Mute(<<Line("AUTHENTICATE")>>)
    BY BotLines, OneLine
  <2>3. session' \in Fields /\ session'.joined = session.joined
    BY <1>2, <2>1, FieldUpdates
  <2> QED BY <1>4, <2>1, <2>2, <2>3, CapEndLine
<1>7. CASE HandleAuthenticate(m)
  <2>1. Answer(<<Line("AUTHENTICATE")>>) /\ session' = session
    BY <1>7 DEF HandleAuthenticate
  <2>2. <<Line("AUTHENTICATE")>> \in Seq(Lines) /\ Mute(<<Line("AUTHENTICATE")>>)
    BY BotLines, OneLine
  <2> QED BY <1>2, <1>4, <2>1, <2>2
<1>8. CASE HandleNickInUse(m)
  <2> DEFINE line == [k |-> "NICK", nick |-> session.nick + 1]
  <2>1. Answer(<<line>>) /\ session' = [session EXCEPT !.nick = session.nick + 1]
    BY <1>8 DEF HandleNickInUse
  <2>2. session.nick + 1 \in Nat
    BY <1>2 DEF Fields
  <2>3. line \in Lines /\ line.k \notin ChannelKinds
    BY <2>2, BotLines DEF ChannelKinds
  <2> HIDE DEF line
  <2>4. <<line>> \in Seq(Lines) /\ Mute(<<line>>)
    BY <2>3, OneLine
  <2> QED BY <1>2, <1>4, <2>1, <2>4, FieldUpdates
<1> QED BY <1>5, <1>6, <1>7, <1>8

-----------------------------------------------------------------------------
(* Where the thread is. *)

Stations == {"backoff", "loop", "poll", "put", "item", "count", "cards", "topic item", "topic count"}
Polling  == {"put", "item", "count", "cards"}
Points   == [at : Stations, i : 0..(N + 1), t : 0..N, segs : Topics, head : Counts,
             counts : Counts, cards : Seq(Commits)]

\* A place and its locals: a poll has its project and, once HEAD was read, its
\* cards; set_topic has a segment for every project behind it.
Placed(q) ==
    /\ q \in Points
    /\ q.at \in {"poll"} \cup Polling => q.i \in 1..N
    /\ q.at \in Polling => Len(q.cards) > 0
    /\ Len(q.cards) > 1 => q.cards \in Seq(1..MaxChanges)
    /\ q.at \in {"topic item", "topic count"} => q.t \in 1..N
    /\ q.at = "topic item" => Len(q.segs) = q.t - 1
    /\ q.at = "topic count" => Len(q.segs) = q.t

\* Nothing is polled and no topic is made before the bot has joined.
PlaceInv == Placed(pc) /\ (pc.at \notin {"backoff", "loop"} => session.joined)

LEMMA NIs == N \in Nat \ {0} /\ MaxChanges \in Nat /\ \A i \in 1..N : PROJECTS[i] \in Keys
BY KeysInOrder, ProjectsAssumption DEF N

LEMMA Starts ==
    /\ Placed(Loop) /\ Placed([Loop EXCEPT !.at = "backoff"])
    /\ \A i \in 0..(N + 1) : Placed(SetTopic(i)) /\ Placed(Poll(i))
<1>1. Loop \in Points /\ Loop.cards = <<>> /\ Loop.segs = <<>> /\ Loop.at = "loop"
  <2>1. <<>> \in Topics /\ <<>> \in Seq(Commits) /\ {Failed, Pending} \subseteq Counts
    BY DEF Topics, Counts
  <2>2. 0 \in 0..(N + 1) /\ 0 \in 0..N
    BY NIs
  <2> QED BY <2>1, <2>2 DEF Loop, Points, Stations
<1>2. Len(<<>>) = 0
  OBVIOUS
<1>3. Placed(Loop)
  BY <1>1, <1>2 DEF Placed, Polling
<1>4. Placed([Loop EXCEPT !.at = "backoff"])
  <2> DEFINE q == [Loop EXCEPT !.at = "backoff"]
  <2>1. q \in Points /\ q.cards = <<>> /\ q.at = "backoff"
    BY <1>1 DEF Points, Stations
  <2> HIDE DEF q
  <2>2. Placed(q)
    BY <1>2, <2>1 DEF Placed, Polling
  <2> QED BY <2>2 DEF q
<1>5. ASSUME NEW i \in 0..(N + 1) PROVE Placed(SetTopic(i))
  <2>1. 1 \in 1..N /\ 1 \in 0..N /\ 1 - 1 = 0
    BY NIs
  <2>2. /\ SetTopic(i) \in Points /\ SetTopic(i).at = "topic item" /\ SetTopic(i).t = 1
        /\ SetTopic(i).cards = <<>> /\ SetTopic(i).segs = <<>>
    BY <1>1, <2>1 DEF SetTopic, Points, Stations
  <2> DEFINE q == SetTopic(i)
  <2> HIDE DEF q
  <2>3. q \in Points /\ q.at = "topic item" /\ q.t = 1 /\ Len(q.cards) = 0 /\ Len(q.segs) = 0
    BY <1>2, <2>2 DEF q
  <2>5. q.t \in 1..N /\ q.t - 1 = 0
    BY <2>1, <2>3, Zenon
  <2>6. ~(0 > 1)
    OBVIOUS
  <2>7. Len(q.segs) = q.t - 1 /\ ~(Len(q.cards) > 1)
    BY <2>3, <2>5, <2>6, Zenon
  <2>4. Placed(q)
    BY <2>3, <2>5, <2>7 DEF Placed, Polling
  <2> QED BY <2>4 DEF q
<1>6. ASSUME NEW i \in 0..(N + 1) PROVE Placed(Poll(i))
  <2>1. CASE i \in 1..N
    <3>1. /\ Poll(i) \in Points /\ Poll(i).at = "poll" /\ Poll(i).i = i
          /\ Poll(i).cards = <<>> /\ Poll(i).segs = <<>>
      BY <1>1, <2>1 DEF Poll, Points, Stations
    <3> QED BY <1>2, <2>1, <3>1 DEF Placed, Polling
  <2>2. CASE i \notin 1..N
    <3>1. 0 \in 0..(N + 1)
      BY NIs
    <3> QED BY <1>5, <2>2, <3>1 DEF Poll
  <2> QED BY <2>1, <2>2
<1> QED BY <1>3, <1>4, <1>5, <1>6

LEMMA TipType ==
    ASSUME NEW cur \in Revisions, MaxChanges \in Nat
    PROVE  Tip(cur) \in Commits
<1>1. cur \in Seq(1..MaxChanges) /\ Len(cur) \in Nat /\ (cur # <<>> => Len(cur) \in 1..Len(cur))
  BY DEF Revisions
<1> QED BY <1>1 DEF Tip, Commits

LEMMA TailLong ==
    ASSUME NEW S, NEW s \in Seq(S), Len(s) > 1
    PROVE  Tail(s) \in Seq(S) /\ Len(Tail(s)) > 0
<1>1. Len(s) \in Nat /\ s # <<>>
  OBVIOUS
<1>2. Tail(s) \in Seq(S) /\ Len(Tail(s)) = Len(s) - 1
  BY <1>1, HeadTailProperties
<1> QED BY <1>1, <1>2

LEMMA TailOne ==
    ASSUME NEW S, NEW s \in Seq(S), Len(s) = 1
    PROVE  Tail(s) = <<>>
<1>1. s # <<>>
  OBVIOUS
<1>2. Tail(s) \in Seq(S) /\ Len(Tail(s)) = 0
  BY <1>1, HeadTailProperties
<1> QED BY <1>2, EmptySeq

\* What inventory_status and test_count find of a project.
LEMMA StatusType ==
    ASSUME CacheInv, NEW p \in Keys
    PROVE  items[p].counts \in Counts /\ StatusHead(items[p]) \in Counts /\ Pending \in Counts
BY DEF CacheInv, InventoryTypeOK, StatusHead, Counts

\* A step that leaves the thread where it is.
LEMMA Rests ==
    ASSUME PlaceInv, pc' = pc, session' = session \/ pc.at \in {"backoff", "loop"}
    PROVE  PlaceInv'
BY DEF PlaceInv, Placed

\* A step that takes it elsewhere.
LEMMA Goes ==
    ASSUME Placed(pc'), session'.joined \/ pc'.at \in {"backoff", "loop"}
    PROVE  PlaceInv'
BY DEF PlaceInv, Placed

\* The steps of poll_project.
LEMMA PollPlace ==
    ASSUME CacheInv, PlaceInv,
           PollStart \/ PollUnmoved \/ PollHead \/ PollPut \/ PollItem \/ PollCount \/ PollCard
    PROVE  PlaceInv'
<1>1. pc \in Points /\ Placed(pc) /\ session' = session
  BY DEF PlaceInv, Placed, PollStart, PollUnmoved, PollHead, PollPut, PollItem, PollCount, PollCard, linkVars
<1>2. ASSUME NEW q, Placed(q), pc' = q, session.joined PROVE PlaceInv'
  BY <1>1, <1>2, Goes
<1>3. CASE PollStart
  <2>1. pc' = Poll(1) /\ session.joined /\ 1 \in 0..(N + 1)
    BY <1>3, NIs DEF PollStart
  <2> QED BY <1>2, <2>1, Starts
<1>4. ASSUME pc.at \in {"poll"} \cup Polling
      PROVE  session.joined /\ pc.i \in 1..N /\ pc.i + 1 \in 0..(N + 1) /\ PROJECTS[pc.i] \in Keys
  <2>1. session.joined /\ pc.i \in 1..N
    BY <1>4 DEF PlaceInv, Placed, Polling
  <2>2. \A i \in 1..N : i + 1 \in 0..(N + 1)
    BY NIs
  <2> QED BY <2>1, <2>2, NIs
<1>5. CASE PollUnmoved
  <2>1. pc' = Poll(pc.i + 1) /\ pc.at = "poll"
    BY <1>5 DEF PollUnmoved, At
  <2> QED BY <1>2, <1>4, <2>1, Starts
<1>6. CASE PollHead
  <2> DEFINE p == PROJECTS[pc.i]
  <2>0. pc.at = "poll"
    BY <1>6 DEF PollHead, At
  <2>1. session.joined /\ p \in Keys /\ pc.i \in 1..N
    BY <1>4, <2>0
  <2>2. PICK revs \in {Revs(lastCommit[p], repo[p]), <<Tip(repo[p])>>} :
              pc' = [pc EXCEPT !.at = IF p \in queued THEN "item" ELSE "put", !.cards = revs]
    BY <1>6 DEF PollHead
  <2>3. repo[p] \in Revisions
    BY <2>1 DEF CacheInv, InventoryTypeOK
  <2> HIDE DEF p
  <2>4. revs \in Seq(Commits) \ {<<>>} /\ (Len(revs) > 1 => revs \in Seq(1..MaxChanges))
    <3>1. CASE revs = Revs(lastCommit[p], repo[p])
      BY <2>3, <3>1, NIs, RevsCover
    <3>2. CASE revs = <<Tip(repo[p])>>
      <4>1. Tip(repo[p]) \in Commits
        BY <2>3, NIs, TipType
      <4> QED BY <3>2, <4>1
    <3> QED BY <3>1, <3>2
  <2>5. Len(revs) > 0
    BY <2>4
  <2>6. pc' \in Points /\ pc'.at \in {"item", "put"} /\ pc'.cards = revs /\ pc'.i = pc.i
    BY <1>1, <2>2, <2>4 DEF Points, Stations
  <2>7. Placed(pc')
    BY <2>1, <2>4, <2>5, <2>6 DEF Placed, Polling
  <2> QED BY <1>2, <2>1, <2>7
<1>7. CASE PollPut
  <2>1. pc.at = "put" /\ pc' = [pc EXCEPT !.at = "item"]
    BY <1>7 DEF PollPut, At
  <2>2. pc' \in Points /\ pc'.at = "item" /\ pc'.cards = pc.cards /\ pc'.i = pc.i
    BY <1>1, <2>1 DEF Points, Stations
  <2>3. Placed(pc')
    BY <1>1, <2>1, <2>2 DEF Placed, Polling
  <2> QED BY <1>2, <1>4, <2>1, <2>3 DEF Polling
<1>8. CASE PollItem
  <2> DEFINE head == StatusHead(items[PROJECTS[pc.i]])
  <2>1. pc.at = "item" /\ pc' = [pc EXCEPT !.at = "count", !.head = head]
    BY <1>8 DEF PollItem, At
  <2>2. head \in Counts
    BY <1>4, <2>1, StatusType DEF Polling
  <2> HIDE DEF head
  <2>3. pc' \in Points /\ pc'.at = "count" /\ pc'.cards = pc.cards /\ pc'.i = pc.i
    BY <1>1, <2>1, <2>2 DEF Points, Stations
  <2>4. Placed(pc')
    BY <1>1, <2>1, <2>3 DEF Placed, Polling
  <2> QED BY <1>2, <1>4, <2>1, <2>4 DEF Polling
<1>9. CASE PollCount
  <2>0. pc.at = "count"
    BY <1>9 DEF PollCount, At
  <2>1. PICK c \in {items[PROJECTS[pc.i]].counts, Pending} :
              pc' = [pc EXCEPT !.at = "cards", !.head = Failed, !.cards = Shown(pc.cards), !.counts = c]
    BY <1>9 DEF PollCount
  <2>2. c \in Counts /\ Failed \in Counts
    BY <1>4, <2>0, StatusType DEF Polling, Counts
  <2>3. /\ pc.cards \in Seq(Commits) \ {<<>>} /\ Len(pc.cards) \in Nat
        /\ Len(pc.cards) > 1 => pc.cards \in Seq(1..MaxChanges) \ {<<>>}
    BY <1>1, <2>0 DEF Placed, Polling, Points
  <2> DEFINE shown == Shown(pc.cards)
  <2>4. shown \in Seq(Commits) \ {<<>>} /\ Len(shown) <= Len(pc.cards)
    BY <2>3, CardsSplit
  <2>5. Len(pc.cards) > 1 => shown \in Seq(1..MaxChanges)
    BY <2>3, CardsSplit
  <2> HIDE DEF shown
  <2>6. Len(shown) > 0 /\ (Len(shown) > 1 => shown \in Seq(1..MaxChanges))
    BY <2>3, <2>4, <2>5
  <2>7. pc' \in Points /\ pc'.at = "cards" /\ pc'.cards = shown /\ pc'.i = pc.i
    BY <1>1, <2>1, <2>2, <2>4 DEF Points, Stations, shown
  <2>8. Placed(pc')
    BY <1>4, <2>0, <2>6, <2>7 DEF Placed, Polling
  <2> QED BY <1>2, <1>4, <2>0, <2>8 DEF Polling
<1>10. CASE PollCard
  <2>0. pc.at = "cards"
    BY <1>10 DEF PollCard, At
  <2>1. session.joined /\ pc.i \in 1..N /\ pc.i + 1 \in 0..(N + 1)
    BY <1>4, <2>0 DEF Polling
  <2>2. CASE pc' = SetTopic(pc.i + 1)
    BY <1>2, <2>1, <2>2, Starts
  <2>3. CASE Len(pc.cards) # 1 /\ pc' = [pc EXCEPT !.cards = Tail(pc.cards)]
    <3> DEFINE rest == Tail(pc.cards)
    <3>1. pc.cards \in Seq(Commits) /\ Len(pc.cards) > 0 /\ (Len(pc.cards) > 1 => pc.cards \in Seq(1..MaxChanges))
      BY <1>1, <2>0 DEF Placed, Polling, Points
    <3>5. Len(pc.cards) > 1
      <4> DEFINE n == Len(pc.cards)
      <4>1. n \in Nat /\ n > 0 /\ n # 1
        BY <2>3, <3>1
      <4> HIDE DEF n
      <4>2. n > 1
        BY <4>1
      <4> QED BY <4>2 DEF n
    <3>2. rest \in Seq(Commits) /\ rest \in Seq(1..MaxChanges) /\ Len(rest) > 0
      <4>1. \A S : \A s \in Seq(S) : Len(s) > 1 => Tail(s) \in Seq(S) /\ Len(Tail(s)) > 0
        BY TailLong
      <4> QED BY <3>1, <3>5, <4>1
    <3> HIDE DEF rest
    <3>3. pc' \in Points /\ pc'.at = "cards" /\ pc'.cards = rest /\ pc'.i = pc.i
      BY <1>1, <2>0, <2>3, <3>2 DEF Points, rest
    <3>4. Placed(pc')
      BY <2>1, <3>2, <3>3 DEF Placed, Polling
    <3> QED BY <1>2, <2>1, <3>4
  <2> QED BY <1>10, <2>2, <2>3 DEF PollCard
<1> QED BY <1>3, <1>5, <1>6, <1>7, <1>8, <1>9, <1>10

\* set_topic: a segment is added, and gets its label.
LEMMA TopicGrows ==
    ASSUME NEW s \in Topics, NEW head \in Revisions \cup {Failed}
    PROVE  /\ Append(s, [head |-> head, label |-> Pending]) \in Topics
           /\ Len(Append(s, [head |-> head, label |-> Pending])) = Len(s) + 1
           /\ Len(s) \in Nat
<1>1. [head |-> head, label |-> Pending] \in [head : Revisions \cup {Failed}, label : Counts]
  BY DEF Counts
<1> QED BY <1>1 DEF Topics

LEMMA TopicLabelled ==
    ASSUME CacheInv, NEW s \in Topics, NEW i \in 1..N, Len(s) = i
    PROVE  LET t == [s EXCEPT ![i].label = items[PROJECTS[i]].counts] IN
           t \in Topics /\ Len(t) = Len(s)
<1> DEFINE x == [s[i] EXCEPT !.label = items[PROJECTS[i]].counts]
           t == [s EXCEPT ![i] = x]
           segment == [head : Revisions \cup {Failed}, label : Counts]
<1>1. s \in Seq(segment) /\ i \in 1..Len(s)
  BY NIs DEF Topics
<1>2. s[i] \in segment
  BY <1>1, ElementOfSeq
<1>3. items[PROJECTS[i]].counts \in Counts
  BY NIs, StatusType
<1>4. x \in segment
  BY <1>2, <1>3
<1> HIDE DEF x, segment
<1>5. t \in Seq(segment) /\ Len(t) = Len(s)
  BY <1>1, <1>4
<1>6. Topics = Seq(segment)
  BY DEF Topics, segment
<1> QED BY <1>5, <1>6 DEF x

LEMMA SegmentsType ==
    ASSUME CacheInv, PlaceInv, pc.at = "topic count", NEW current
    PROVE  Segments(current) \in Topics /\ Len(Segments(current)) = pc.t
<1>1. pc.segs \in Topics /\ pc.t \in 1..N /\ Len(pc.segs) = pc.t
  BY DEF PlaceInv, Placed, Points
<1> QED BY <1>1, TopicLabelled DEF Segments

LEMMA TopicPlace ==
    ASSUME CacheInv, PlaceInv, LinkInv, TopicItem \/ TopicCount
    PROVE  PlaceInv'
<1>1. pc \in Points /\ Placed(pc) /\ session.joined /\ pc.t \in 1..N /\ PROJECTS[pc.t] \in Keys
  BY NIs DEF PlaceInv, Placed, TopicItem, TopicCount, At
<1>2. repo[PROJECTS[pc.t]] \in Revisions
  BY <1>1 DEF CacheInv, InventoryTypeOK
<1>3. CASE TopicItem
  <2> DEFINE p == PROJECTS[pc.t]
  <2>1. pc.at = "topic item" /\ session' = session
    BY <1>3 DEF TopicItem, At, linkVars
  <2>2. PICK head \in {repo[p], Failed} :
             pc' = [pc EXCEPT !.at = "topic count", !.head = StatusHead(items[p]),
                              !.segs = Append(@, [head |-> head, label |-> Pending])]
    BY <1>3 DEF TopicItem
  <2> DEFINE segs == Append(pc.segs, [head |-> head, label |-> Pending])
             status == StatusHead(items[p])
  <2>3. status \in Counts /\ head \in Revisions \cup {Failed}
    BY <1>1, <1>2, StatusType
  <2>4. pc.segs \in Topics /\ Len(pc.segs) = pc.t - 1 /\ pc.t \in Int
    <3>1. Len(pc.segs) = pc.t - 1
      BY <1>1, <2>1, Zenon DEF Placed
    <3> QED BY <1>1, <3>1 DEF Points
  <2>5. segs \in Topics /\ Len(segs) = Len(pc.segs) + 1
    BY <2>3, <2>4, TopicGrows
  <2>6. pc' = [pc EXCEPT !.at = "topic count", !.head = status, !.segs = segs]
    BY <2>2
  <2> HIDE DEF segs, p, status
  <2>7. Len(segs) = pc.t
    BY <2>4, <2>5
  <2>8. /\ pc' \in Points /\ pc'.at = "topic count" /\ pc'.segs = segs /\ pc'.t = pc.t
        /\ pc'.cards = pc.cards
    BY <1>1, <2>3, <2>5, <2>6 DEF Points, Stations
  <2>9. Placed(pc')
    BY <1>1, <2>7, <2>8 DEF Placed, Polling
  <2> QED BY <1>1, <2>1, <2>9, Goes
<1>4. CASE TopicCount
  <2>1. pc.at = "topic count" /\ session \in Fields
    BY <1>4, LinkTypes DEF TopicCount, At
  <2>2. PICK current \in {repo[PROJECTS[pc.t]], Failed} :
             IF pc.t < N
             THEN /\ pc' = [pc EXCEPT !.at = "topic item", !.t = @ + 1,
                                      !.segs = Segments(current), !.head = Failed]
                  /\ UNCHANGED <<net, session>>
             ELSE SetUnlessSame(Segments(current)) /\ pc' = AfterTopic
    BY <1>4 DEF TopicCount
  <2> DEFINE segs == Segments(current)
  <2>3. segs \in Topics /\ Len(segs) = pc.t
    BY <2>1, SegmentsType
  <2>4. CASE pc.t < N
    <3>1. pc' = [pc EXCEPT !.at = "topic item", !.t = pc.t + 1, !.segs = segs, !.head = Failed] /\ session' = session
      BY <2>2, <2>4
    <3> HIDE DEF segs
    <3>2. pc.t + 1 \in 1..N /\ pc.t + 1 \in 0..N /\ (pc.t + 1) - 1 = pc.t /\ Failed \in Counts
      BY <1>1, <2>4, NIs DEF Counts
    <3>3. /\ pc' \in Points /\ pc'.at = "topic item" /\ pc'.segs = segs /\ pc'.t = pc.t + 1
          /\ pc'.cards = pc.cards
      BY <1>1, <2>3, <3>1, <3>2 DEF Points, Stations
    <3>4. pc'.t \in 1..N /\ Len(pc'.segs) = pc'.t - 1
      BY <2>3, <3>2, <3>3, Zenon
    <3>5. Placed(pc')
      BY <1>1, <3>3, <3>4 DEF Placed, Polling
    <3> QED BY <1>1, <3>1, <3>5, Goes
  <2>5. CASE ~(pc.t < N)
    <3>1. pc' = AfterTopic /\ session' = [session EXCEPT !.lastTopic = segs]
      BY <2>2, <2>5 DEF SetUnlessSame
    <3> HIDE DEF segs
    <3>2. session'.joined
      BY <1>1, <2>1, <2>3, <3>1, FieldUpdates
    <3>3. pc.i \in 0..(N + 1)
      BY <1>1 DEF Points
    <3>4. Placed(pc')
      BY <3>1, <3>3, Starts DEF AfterTopic
    <3> QED BY <3>2, <3>4, Goes
  <2> QED BY <2>4, <2>5
<1> QED BY <1>3, <1>4

LEMMA HandlePlace ==
    ASSUME CacheInv, PlaceInv, LinkInv, Handle
    PROVE  PlaceInv'
<1> DEFINE m == Head(net.inp)
<1>1. pc.at = "loop" /\ session \in Fields
  BY LinkTypes DEF Handle, At
<1>2. CASE HandleWelcome(m)
  <2>1. pc' = SetTopic(0) /\ session' = [session EXCEPT !.registered = TRUE, !.joined = TRUE]
    BY <1>2 DEF HandleWelcome
  <2>2. session'.joined /\ 0 \in 0..(N + 1)
    BY <1>1, <2>1, NIs DEF Fields
  <2> QED BY <2>1, <2>2, Starts, Goes
<1>3. CASE HandleCapLs(m) \/ HandleCapAck(m) \/ HandleCapNak(m)
  BY <1>1, <1>3, Rests DEF HandleCapLs, HandleCapAck, HandleCapNak
<1>4. CASE HandleAuthenticate(m) \/ HandleSaslResult(m) \/ HandleNickInUse(m)
  BY <1>1, <1>4, Rests DEF HandleAuthenticate, HandleSaslResult, HandleNickInUse
<1>5. CASE HandleKick(m) \/ HandlePing(m) \/ HandleCommand(m) \/ HandleOther(m)
  BY <1>1, <1>5, Rests DEF HandleKick, HandlePing, HandleCommand, HandleOther
<1> QED BY <1>2, <1>3, <1>4, <1>5 DEF Handle

LEMMA PlaceStep ==
    ASSUME CacheInv, PlaceInv, LinkInv, [Next]_vars
    PROVE  PlaceInv'
<1>1. CASE PollStep \/ PollStart
  BY <1>1, PollPlace, TopicPlace DEF PollStep
<1>2. CASE Handle
  BY <1>2, HandlePlace
<1>3. CASE PumpOut \/ Wait \/ Keepalive \/ CapTimeout
  BY <1>3, Rests DEF PumpOut, Wait, Keepalive, CapTimeout, At
<1>4. CASE ReadTimeout \/ Eof
  <2>1. pc' = [Loop EXCEPT !.at = "backoff"] /\ pc'.at = "backoff"
    BY <1>4 DEF ReadTimeout, Eof, Leave, Loop
  <2> QED BY <2>1, Starts, Goes
<1>5. CASE Connect
  <2>1. pc' = Loop /\ pc'.at = "loop"
    BY <1>5 DEF Connect, Loop
  <2> QED BY <2>1, Starts, Goes
<1>6. CASE ConnectFails
  BY <1>6, Rests DEF ConnectFails, At
<1>7. CASE Heartbeat
  <2>1. pc' = SetTopic(0) /\ session'.joined /\ 0 \in 0..(N + 1)
    BY <1>7, NIs DEF Heartbeat
  <2> QED BY <2>1, Starts, Goes
<1>8. CASE World
  BY <1>8, Rests DEF World, Break, GhostLeaves, RegistrationTimeout, Kick, ServerPing, UserAsks, WorldOnly
<1>9. CASE Others
  BY <1>9, Rests DEF Others, linkVars
<1>10. CASE UNCHANGED vars
  BY <1>10, Rests DEF vars, linkVars
<1> QED BY <1>1, <1>2, <1>3, <1>4, <1>5, <1>6, <1>7, <1>8, <1>9, <1>10 DEF Next, Thread, Timers

-----------------------------------------------------------------------------
(* The link, at the other steps. *)

LEMMA JoinedLines ==
    ASSUME NEW q \in Seq(Queued)
    PROVE  /\ q \o [i \in 1..N |-> Line("PRIVMSG")] \in Seq(Queued)
           /\ [i \in 1..N |-> Line("PRIVMSG")] \in Seq(Lines)
           /\ q \o Tail(StatsLines) \in Seq(Queued) /\ <<Head(StatsLines)>> \in Seq(Lines)
           /\ Append(q, Line("PRIVMSG")) \in Seq(Queued)
           /\ Append(q, Line("REPLY")) \in Seq(Queued) /\ Append(q, Line("JOIN")) \in Seq(Queued)
<1>1. {Line("PRIVMSG"), Line("REPLY"), Line("JOIN")} \subseteq Queued /\ Queued \subseteq Lines
  BY BotLines DEF Queued
<1>2. /\ [i \in 1..N |-> Line("PRIVMSG")] \in Seq(Queued)
      /\ [i \in 1..N |-> Line("PRIVMSG")] \in Seq(Lines)
  BY <1>1, NIs
<1>3. /\ Append(q, Line("PRIVMSG")) \in Seq(Queued)
      /\ Append(q, Line("REPLY")) \in Seq(Queued) /\ Append(q, Line("JOIN")) \in Seq(Queued)
  BY <1>1
<1>4. Tail(StatsLines) \in Seq(Queued) /\ <<Head(StatsLines)>> \in Seq(Lines)
  <2> DEFINE x == Line("PRIVMSG")
  <2>1. StatsLines = <<x, x>>
    BY DEF StatsLines
  <2> HIDE DEF x
  <2>2. Tail(<<x, x>>) = <<x>> /\ Head(<<x, x>>) = x
    OBVIOUS
  <2>3. x \in Queued /\ x \in Lines
    BY <1>1 DEF x
  <2> QED BY <2>1, <2>2, <2>3
<1> QED BY <1>2, <1>3, <1>4

\* The handlers of what only a registered client gets, and the harmless ones.
LEMMA ServiceLink ==
    ASSUME LinkInv, At("loop"), net.inp # <<>>, NEW m, m = Head(net.inp),
           HandleWelcome(m) \/ HandleKick(m) \/ HandlePing(m) \/ HandleCommand(m) \/ HandleOther(m)
    PROVE  LinkInv'
<1>1. m \in Messages
  BY Takes
<1>2. session \in Fields /\ outq \in Seq(Queued) /\ introDone \in BOOLEAN
  BY LinkTypes
<1>3. backoff' = backoff /\ UNCHANGED world
  BY DEF HandleWelcome, HandleKick, HandlePing, HandleCommand, HandleOther, Elsewhere
<1>4. CASE HandleWelcome(m)
  <2>1. Welcome(m)
    BY <1>1, <1>4 DEF HandleWelcome, Is, Messages, Answers, NumericCodes, Welcome
  <2>2. session' \in Fields /\ outq' \in Seq(Queued) /\ introDone' \in BOOLEAN
    BY <1>2, <1>4, FieldUpdates, JoinedLines DEF HandleWelcome
  <2>3. Answer(<<Line("JOIN")>>) /\ <<Line("JOIN")>> \in Seq(Lines)
    BY <1>4, BotLines, OneLine DEF HandleWelcome, Queued
  <2>4. ~At("backoff")'
    BY <1>4 DEF HandleWelcome, At, SetTopic, Loop
  <2> QED BY <1>3, <2>1, <2>2, <2>3, <2>4, Handles
<1>5. CASE HandleKick(m)
  <2>1. Welcome(m)
    BY <1>5 DEF HandleKick, Welcome
  <2>2. session' = session /\ outq' \in Seq(Queued) /\ introDone' = introDone
    BY <1>2, <1>5, JoinedLines DEF HandleKick
  <2>3. Answer(<<>>) /\ ~At("backoff")'
    BY <1>5 DEF HandleKick, At
  <2> QED BY <1>2, <1>3, <2>1, <2>2, <2>3, NoLines, Handles
<1>6. CASE HandlePing(m) \/ HandleOther(m)
  <2>1. UNCHANGED <<pc, session, outq, introDone>>
    BY <1>6 DEF HandlePing, HandleOther
  <2>2. (Due' => Due) /\ ~At("backoff")'
    BY <2>1 DEF Due, At
  <2>3. Answer(<<Line("PONG")>>) \/ Answer(<<>>)
    BY <1>6 DEF HandlePing, HandleOther
  <2>4. <<Line("PONG")>> \in Seq(Lines) /\ Mute(<<Line("PONG")>>)
    BY BotLines, OneLine
  <2> QED BY <1>2, <1>3, <2>1, <2>2, <2>3, <2>4, NoLines, Handles
<1>7. CASE HandleCommand(m)
  <2>1. Welcome(m) /\ m.ask \in {"announce", "reply", "topic", "raw"}
    BY <1>1, <1>7, BotAssumption DEF HandleCommand, Welcome, Messages, Answers
  <2>2. session' = session /\ introDone' = introDone /\ ~At("backoff")'
    BY <1>7 DEF HandleCommand, At
  <2>3. \/ Answer(<<Head(StatsLines)>>) /\ outq' = outq \o Tail(StatsLines)
        \/ Answer(<<>>) /\ outq' = Append(outq, Line("REPLY"))
        \/ Answer(<<ForeignTopic>>) /\ outq' = outq
    BY <1>7, <2>1 DEF HandleCommand, Announce, Answer
  <2>4. outq' \in Seq(Queued)
    BY <1>2, <2>3, JoinedLines
  <2>5. <<Head(StatsLines)>> \in Seq(Lines) /\ <<ForeignTopic>> \in Seq(Lines) /\ <<>> \in Seq(Lines)
    BY <1>2, JoinedLines, BotLines, OneLine, NoLines
  <2> QED BY <1>2, <1>3, <2>1, <2>2, <2>3, <2>4, <2>5, Handles
<1> QED BY <1>4, <1>5, <1>6, <1>7

\* Nothing that has arrived is lost.
Longer == net'.link = net.link /\ Len(net'.inp) >= Len(net.inp)

\* The queue, the timers and the topic.
LEMMA SpokenLink ==
    ASSUME LinkInv, PlaceInv, CacheInv,
           PumpOut \/ Keepalive \/ CapTimeout \/ Heartbeat \/ PollCard \/ TopicCount
    PROVE  LinkInv' /\ Longer
<1>1. /\ session \in Fields /\ outq \in Seq(Queued) /\ introDone \in BOOLEAN /\ net \in Links
  BY LinkTypes DEF LinkInv
<1>2. /\ introDone' = introDone /\ backoff' = backoff /\ UNCHANGED world
  BY DEF PumpOut, Keepalive, CapTimeout, Heartbeat, PollCard, TopicCount
<1>3. ASSUME NEW lines \in Seq(Lines), SendRaw(net, lines), Mute(lines) \/ Due,
             session' \in Fields, outq' \in Seq(Queued), Due' => Due, At("backoff") <=> At("backoff")'
      PROVE  LinkInv' /\ Longer
  <2>1. LinkInv'
    BY <1>1, <1>2, <1>3, Speaks
  <2>2. ServerType
    BY DEF LinkInv
  <2>3. Longer
    BY <1>1, <1>3, <2>2, Sent DEF Longer
  <2> QED BY <2>1, <2>3
<1>10. net' = net => Longer
  <2>1. Len(net.inp) \in Nat
    BY <1>1 DEF Links
  <2>2. Len(net.inp) >= Len(net.inp)
    BY <2>1
  <2> QED BY <2>2 DEF Longer
<1>4. CASE PumpOut
  <2>1. SendRaw(net, <<Head(outq)>>) /\ outq' = Tail(outq) /\ outq # <<>> /\ session' = session /\ pc' = pc
    BY <1>4 DEF PumpOut
  <2>2. Head(outq) \in Queued /\ Tail(outq) \in Seq(Queued) /\ Len(outq) > 0
    BY <1>1, <2>1
  <2>3. <<Head(outq)>> \in Seq(Lines)
    BY <2>2, BotLines, OneLine
  <2>4. Due /\ (At("backoff") <=> At("backoff")')
    BY <2>1, <2>2 DEF Due, At
  <2> QED BY <1>1, <1>3, <2>1, <2>2, <2>3, <2>4
<1>5. CASE Keepalive
  <2>1. SendRaw(net, <<Line("PING")>>) /\ UNCHANGED <<pc, session, outq>>
    BY <1>5 DEF Keepalive
  <2>2. <<Line("PING")>> \in Seq(Lines) /\ Mute(<<Line("PING")>>)
    BY BotLines, OneLine
  <2>3. (Due' => Due) /\ (At("backoff") <=> At("backoff")')
    BY <2>1 DEF Due, At
  <2> QED BY <1>1, <1>3, <2>1, <2>2, <2>3
<1>6. CASE CapTimeout
  <2>1. SendRaw(net, CapEnd) /\ session' = Ended /\ UNCHANGED <<pc, outq>>
    BY <1>6 DEF CapTimeout
  <2>2. session' \in Fields /\ session'.joined = session.joined
    BY <1>1, <2>1, FieldUpdates
  <2>3. (Due' => Due) /\ (At("backoff") <=> At("backoff")')
    BY <2>1, <2>2 DEF Due, At
  <2> QED BY <1>1, <1>3, <2>1, <2>2, <2>3, CapEndLine
<1>7. CASE Heartbeat
  <2>1. /\ session.joined /\ At("loop") /\ session' = session /\ pc' = SetTopic(0)
        /\ SendRaw(net, [i \in 1..N |-> Line("PRIVMSG")])
        /\ outq' = outq \o [i \in 1..N |-> Line("PRIVMSG")]
    BY <1>7 DEF Heartbeat, StatsLines
  <2>2. outq' \in Seq(Queued) /\ [i \in 1..N |-> Line("PRIVMSG")] \in Seq(Lines)
    BY <1>1, <2>1, JoinedLines
  <2>3. Due /\ (At("backoff") <=> At("backoff")')
    BY <2>1 DEF Due, At, SetTopic, Loop
  <2> QED BY <1>1, <1>3, <2>1, <2>2, <2>3
<1>8. CASE PollCard
  <2>1. /\ SendRaw(net, <<Head(StatsLines)>>) /\ outq' = outq \o Tail(StatsLines) /\ session' = session
        /\ pc.at = "cards"
    BY <1>8 DEF PollCard, Announce, CommitLines, StatsLines, At
  <2>2. outq' \in Seq(Queued) /\ <<Head(StatsLines)>> \in Seq(Lines)
    BY <1>1, <2>1, JoinedLines
  <2>3. session.joined /\ Due /\ pc \in Points
    BY <2>1 DEF PlaceInv, Placed, Due
  <2>4. pc'.at # "backoff"
    BY <1>8, <2>1, <2>3 DEF PollCard, SetTopic, Loop, Points
  <2>5. At("backoff") <=> At("backoff")'
    BY <2>1, <2>4 DEF At
  <2> QED BY <1>1, <1>3, <2>1, <2>2, <2>3, <2>5
<1>9. CASE TopicCount
  <2>1. pc.at = "topic count" /\ session.joined /\ Due /\ outq' = outq /\ pc \in Points
    BY <1>9 DEF TopicCount, At, PlaceInv, Placed, Due
  <2>2. PICK current \in {repo[PROJECTS[pc.t]], Failed} :
             \/ pc'.at = "topic item" /\ UNCHANGED <<net, session>>
             \/ SetUnlessSame(Segments(current)) /\ pc' = AfterTopic
    BY <1>9, <2>1 DEF TopicCount, Points
  <2> DEFINE topic == Segments(current)
  <2>3. topic \in Topics
    BY <2>1, SegmentsType
  <2>4. pc'.at # "backoff"
    <3>1. Loop.at = "loop" /\ SetTopic(0).at = "topic item"
      BY DEF SetTopic, Loop
    <3>2. Poll(pc.i).at \in {"poll", "topic item"}
      BY DEF Poll, SetTopic, Loop
    <3>3. AfterTopic.at # "backoff"
      BY <3>1, <3>2 DEF AfterTopic
    <3> QED BY <2>2, <3>3
  <2>5. At("backoff") <=> At("backoff")'
    BY <2>1, <2>4 DEF At
  <2>6. CASE UNCHANGED <<net, session>>
    BY <1>1, <1>2, <1>10, <2>1, <2>5, <2>6, Still
  <2>7. CASE SetUnlessSame(topic)
    <3>1. session' = [session EXCEPT !.lastTopic = topic] /\ (net' = net \/ SendRaw(net, <<Topic(topic)>>))
      BY <2>7 DEF SetUnlessSame
    <3> HIDE DEF topic
    <3>2. session' \in Fields
      BY <1>1, <2>3, <3>1, FieldUpdates
    <3>3. <<Topic(topic)>> \in Seq(Lines)
      BY <2>3, BotLines, OneLine
    <3>4. CASE net' = net
      BY <1>1, <1>2, <1>10, <2>1, <2>5, <3>2, <3>4, Still
    <3>5. CASE SendRaw(net, <<Topic(topic)>>)
      BY <1>1, <1>3, <2>1, <2>5, <3>2, <3>3, <3>5
    <3> QED BY <3>1, <3>4, <3>5
  <2> QED BY <2>2, <2>6, <2>7
<1> QED BY <1>4, <1>5, <1>6, <1>7, <1>8, <1>9

\* Steps that leave the link alone.
LEMMA SilentLink ==
    ASSUME LinkInv, PlaceInv,
           \/ Wait \/ PollStart \/ PollUnmoved \/ PollHead \/ PollPut \/ PollItem \/ PollCount
           \/ TopicItem \/ Others \/ UNCHANGED vars
    PROVE  LinkInv'
<1>1. /\ session \in Fields /\ outq \in Seq(Queued) /\ introDone \in BOOLEAN /\ pc \in Points
  BY LinkTypes DEF PlaceInv, Placed
<1>2. /\ net' = net /\ session' = session /\ introDone' = introDone /\ backoff' = backoff
      /\ UNCHANGED world
  BY DEF Wait, PollStart, PollUnmoved, PollHead, PollPut, PollItem, PollCount, TopicItem,
         Others, vars, linkVars
<1>3. CASE PollCount
  <2>1. pc.at = "count" /\ (outq' = outq \/ outq' = Append(outq, Line("PRIVMSG")))
    BY <1>3 DEF PollCount, At
  <2>2. outq' \in Seq(Queued) /\ Due
    BY <1>1, <2>1, JoinedLines DEF PlaceInv, Due
  <2>3. pc'.at = "cards"
    BY <1>1, <1>3 DEF PollCount, Points
  <2>4. At("backoff") <=> At("backoff")'
    BY <2>1, <2>3 DEF At
  <2> QED BY <1>1, <1>2, <2>2, <2>4, Still
<1>4. CASE ~PollCount
  <2>1. outq' = outq
    BY <1>4 DEF Wait, PollStart, PollUnmoved, PollHead, PollPut, PollItem, TopicItem, Others, vars, linkVars
  <2>2. Due' => Due
    BY <1>2, <2>1 DEF Due
  <2>3. CASE PollStart \/ PollUnmoved
    <3>1. ~At("backoff") /\ ~At("backoff")'
      BY <2>3 DEF PollStart, PollUnmoved, At, Poll, SetTopic, Loop
    <3> QED BY <1>1, <1>2, <2>1, <2>2, <3>1, Still
  <2>4. CASE PollHead \/ PollPut \/ PollItem \/ TopicItem
    <3>1. ~At("backoff") /\ ~At("backoff")'
      BY <1>1, <2>4 DEF PollHead, PollPut, PollItem, TopicItem, At, Points
    <3> QED BY <1>1, <1>2, <2>1, <2>2, <3>1, Still
  <2>5. CASE Wait \/ Others \/ UNCHANGED vars
    <3>1. At("backoff") <=> At("backoff")'
      BY <2>5 DEF Wait, Others, vars, At
    <3> QED BY <1>1, <1>2, <2>1, <2>2, <3>1, Still
  <2> QED BY <1>4, <2>3, <2>4, <2>5
<1> QED BY <1>3, <1>4

\* Connecting, and leaving a link.
LEMMA FreshFields == FreshSession \in Fields /\ ~FreshSession.joined /\ <<>> \in Seq(Queued) /\ ~(Len(<<>>) > 0)
BY DEF FreshSession, Fields, NoTopic, Topics

LEMMA NewSessionType ==
    ASSUME NEW topic \in Topics
    PROVE  /\ NewSession(topic) \in SessionType(Topics) /\ Member(NewSession(topic))
           /\ ~NewSession(topic).early
BY DEF NewSession, SessionType, NoNick, Member

LEMMA BackoffType == LinkInv => Least(backoff * 2, RECONNECT_MAX) \in RECONNECT_MIN..RECONNECT_MAX
BY DEF LinkInv, Least, RECONNECT_MIN, RECONNECT_MAX

LEMMA ConnectedLink ==
    ASSUME LinkInv, Connect
    PROVE  LinkInv'
<1> DEFINE s == NewSession(net.session.topic)
           n == [link |-> "up", inp |-> <<>>, session |-> s]
           lines == <<Line("CAP LS"), [k |-> "NICK", nick |-> 0], Line("USER")>>
<1>1. SendRaw(n, lines) /\ session' = FreshSession /\ outq' = <<>> /\ pc' = Loop
      /\ backoff' = RECONNECT_MIN /\ introDone' = introDone /\ UNCHANGED world
  BY DEF Connect, Reset
<1>2. net \in Links /\ ServerType /\ introDone \in BOOLEAN
  BY DEF LinkInv
<1>3. net.session.topic \in Topics
  BY <1>2 DEF Links, SessionType
<1>4. s \in SessionType(Topics) /\ Member(s) /\ ~s.early
  BY <1>3, NewSessionType
<1> HIDE DEF s
<1>5. n \in Links /\ n.link = "up" /\ n.session = s /\ n.inp = <<>>
  BY <1>4 DEF Links
<1>6. lines \in Seq(Lines) /\ Mute(lines)
  <2> DEFINE a == Line("CAP LS")
             b == [k |-> "NICK", nick |-> 0]
             c == Line("USER")
  <2>1. {a, b, c} \subseteq Lines /\ a.k \notin ChannelKinds /\ b.k \notin ChannelKinds /\ c.k \notin ChannelKinds
    BY BotLines DEF ChannelKinds
  <2>2. lines = <<a, b, c>>
    OBVIOUS
  <2> HIDE DEF a, b, c, lines
  <2>3. Len(<<a, b, c>>) = 3 /\ <<a, b, c>>[1] = a /\ <<a, b, c>>[2] = b /\ <<a, b, c>>[3] = c
    OBVIOUS
  <2>4. <<a, b, c>> \in Seq(Lines)
    BY <2>1
  <2>5. 1..3 = {1, 2, 3}
    OBVIOUS
  <2> QED BY <2>1, <2>2, <2>3, <2>4, <2>5 DEF Mute
<1> HIDE DEF n, lines
<1>7. /\ net' \in Links /\ net'.link = "up"
      /\ Orderly(s, [session |-> net'.session, out |-> <<>>])
      /\ Welcomes(net'.inp) => Welcomes(<<>>) \/ net'.session.registered
      /\ Timely(s, Mute(lines), [session |-> net'.session])
  BY <1>1, <1>2, <1>5, <1>6, Sent
<1>8. ~Welcomes(<<>>)
  BY DEF Welcomes
<1>9. ~net'.session.early /\ Member(net'.session)
  BY <1>4, <1>6, <1>7 DEF Timely, Orderly
<1>10. session' \in Fields /\ outq' \in Seq(Queued) /\ ~Due'
  <2>1. ~FreshSession.joined /\ ~(Len(<<>>) > 0)
    BY FreshFields
  <2> QED BY <1>1, <2>1, FreshFields DEF Due
<1>11. ~At("backoff")' /\ backoff' \in RECONNECT_MIN..RECONNECT_MAX
  BY <1>1 DEF At, Loop, RECONNECT_MIN, RECONNECT_MAX
<1>12. ServerType'
  BY <1>1, <1>2 DEF ServerType, world
<1> QED BY <1>1, <1>2, <1>7, <1>8, <1>9, <1>10, <1>11, <1>12 DEF LinkInv

LEMMA LeftLink ==
    ASSUME LinkInv, ConnectFails \/ ReadTimeout \/ Eof
    PROVE  LinkInv'
<1>1. /\ net \in Links /\ ServerType /\ introDone \in BOOLEAN /\ Member(net.session)
      /\ session \in Fields /\ outq \in Seq(Queued) /\ ~net.session.early
  BY DEF LinkInv
<1>2. backoff' \in RECONNECT_MIN..RECONNECT_MAX
  BY BackoffType DEF ConnectFails, ReadTimeout, Eof, Leave, Slept
<1>3. introDone' = introDone /\ UNCHANGED world
  BY DEF ConnectFails, ReadTimeout, Eof, Leave
<1>4. ServerType'
  BY <1>1, <1>3 DEF ServerType, world
<1>5. CASE ConnectFails
  <2>1. At("backoff") /\ pc' = pc /\ net' = net /\ session' = FreshSession /\ outq' = <<>>
    BY <1>5 DEF ConnectFails, Reset
  <2>2. net'.link = "none" /\ At("backoff")'
    BY <2>1 DEF LinkInv, At
  <2> QED BY <1>1, <1>2, <1>3, <1>4, <2>1, <2>2, FreshFields DEF LinkInv
<1>6. CASE ReadTimeout \/ Eof
  <2>1. /\ net' = [link |-> "none", inp |-> <<>>, session |-> NewSession(net.session.topic)]
        /\ session' = session /\ outq' = outq /\ pc' = [Loop EXCEPT !.at = "backoff"]
    BY <1>6 DEF ReadTimeout, Eof, Leave
  <2>2. net.session.topic \in Topics
    BY <1>1 DEF Links, SessionType
  <2> DEFINE s == NewSession(net.session.topic)
  <2>3. s \in SessionType(Topics) /\ Member(s) /\ ~s.early
    BY <2>2, NewSessionType
  <2>4. net'.session = s /\ net'.link = "none"
    BY <2>1
  <2> HIDE DEF s
  <2>5. net' \in Links
    BY <2>1, <2>3 DEF Links, s
  <2>6. At("backoff")'
    BY <2>1 DEF At, Loop
  <2> QED BY <1>1, <1>2, <1>3, <1>4, <2>1, <2>3, <2>4, <2>5, <2>6 DEF LinkInv
<1> QED BY <1>5, <1>6

\* The server and its users.
LEMMA ArrivesType ==
    ASSUME net \in Links, NEW m \in Messages
    PROVE  [net EXCEPT !.inp = Append(net.inp, m)] \in Links
BY DEF Links

LEMMA WorldLink ==
    ASSUME LinkInv, World
    PROVE  LinkInv'
<1>1. /\ net \in Links /\ ServerType /\ introDone \in BOOLEAN /\ Member(net.session)
      /\ session \in Fields /\ outq \in Seq(Queued) /\ ~net.session.early
      /\ backoff \in RECONNECT_MIN..RECONNECT_MAX
  BY DEF LinkInv
<1>2. UNCHANGED <<session, outq, introDone, backoff, conf, pc>>
  BY DEF World, Break, GhostLeaves, RegistrationTimeout, Kick, ServerPing, UserAsks, WorldOnly
<1>3. (Due' <=> Due) /\ (At("backoff")' <=> At("backoff"))
  BY <1>2 DEF Due, At
<1>4. ASSUME taken' \subseteq Nat, net' \in Links, net'.link = "none" <=> net.link = "none",
             ~net'.session.early, Member(net'.session),
             net'.link = "up" /\ (Due \/ Welcomes(net'.inp)) => net'.session.registered
      PROVE  LinkInv'
  <2>1. ServerType'
    BY <1>1, <1>2, <1>4 DEF ServerType
  <2>2. net'.link = "none" <=> At("backoff")'
    BY <1>3, <1>4 DEF LinkInv
  <2> QED BY <1>1, <1>2, <1>3, <1>4, <2>1, <2>2 DEF LinkInv
<1>5. taken \subseteq Nat
  BY <1>1 DEF ServerType
<1>6. net.link = "up" /\ (Due \/ Welcomes(net.inp)) => net.session.registered
  BY DEF LinkInv
<1>7. CASE Break
  <2>1. PICK kind \in LinkFaults, n \in 0..Len(net.inp) :
             /\ net' = [net EXCEPT !.link = kind, !.inp = SubSeq(@, 1, n)]
             /\ taken' = taken \/ taken' = taken \cup {net.session.nick}
    BY <1>7 DEF Break
  <2>2. net.link = "up" /\ kind \in {"eof", "dead"}
    BY <1>7, BotAssumption DEF Break
  <2>3. net.inp \in Seq(Messages) /\ net.session.nick \in Nat
    BY <1>1 DEF Links, SessionType
  <2> DEFINE some == SubSeq(net.inp, 1, n)
  <2>4. some \in Seq(Messages)
    BY <2>3, First
  <2> HIDE DEF some
  <2>5. net' = [net EXCEPT !.link = kind, !.inp = some]
    BY <2>1 DEF some
  <2>6. net' \in Links /\ net'.link = kind /\ net'.session = net.session
    BY <1>1, <2>2, <2>4, <2>5 DEF Links
  <2>7. taken' \subseteq Nat
    BY <1>5, <2>1, <2>3
  <2> QED BY <1>1, <1>4, <2>2, <2>6, <2>7
<1>8. CASE GhostLeaves
  <2>1. net' = net /\ taken' \subseteq taken
    BY <1>8 DEF GhostLeaves
  <2> QED BY <1>1, <1>4, <1>5, <1>6, <2>1
<1>9. CASE RegistrationTimeout
  <2>1. net' = [net EXCEPT !.link = "eof"] /\ taken' = taken /\ net.link = "up"
    BY <1>9 DEF RegistrationTimeout
  <2>2. net' \in Links /\ net'.link = "eof" /\ net'.session = net.session
    BY <1>1, <2>1 DEF Links
  <2> QED BY <1>1, <1>4, <1>5, <2>1, <2>2
<1>10. CASE Kick
  <2> DEFINE m == [k |-> "KICK", nick |-> net.session.nick]
             t == [net.session EXCEPT !.inChannel = FALSE]
             q == Append(net.inp, m)
  <2>1. net' = [net EXCEPT !.inp = q, !.session.inChannel = FALSE] /\ taken' = taken
        /\ net.link = "up" /\ net.session.inChannel
    BY <1>10 DEF Kick
  <2>2. m \in Messages
    BY <1>1 DEF Links, SessionType, Messages
  <2>3. q \in Seq(Messages)
    BY <1>1, <2>2 DEF Links
  <2>4. /\ t \in SessionType(Topics) /\ t.early = net.session.early
        /\ t.registered = net.session.registered /\ ~t.inChannel
    BY <1>1 DEF Links, SessionType
  <2> HIDE DEF m, q
  <2>5. net' \in Links /\ net'.link = "up" /\ net'.session = t
    BY <1>1, <2>1, <2>3, <2>4 DEF Links
  <2>6. net.session.registered
    BY <1>1, <2>1 DEF Member
  <2> HIDE DEF t
  <2>7. Member(net'.session)
    BY <2>4, <2>5 DEF Member
  <2> QED BY <1>1, <1>4, <1>5, <2>1, <2>4, <2>5, <2>6, <2>7
<1>11. CASE ServerPing \/ UserAsks
  <2>1. PICK m \in [k : {"PING"}] \cup [k : {"COMMAND"}, ask : Asks] : Arrives(m)
    <3>1. CASE ServerPing
      <4>1. [k |-> "PING"] \in [k : {"PING"}] /\ Arrives([k |-> "PING"])
        BY <3>1 DEF ServerPing
      <4> QED BY <4>1
    <3>2. CASE UserAsks
      <4>1. PICK a \in Asks : Arrives([k |-> "COMMAND", ask |-> a])
        BY <3>2 DEF UserAsks
      <4>2. [k |-> "COMMAND", ask |-> a] \in [k : {"COMMAND"}, ask : Asks]
        OBVIOUS
      <4> QED BY <4>1, <4>2
    <3> QED BY <1>11, <3>1, <3>2
  <2>2. taken' = taken /\ net.session.registered
    BY <1>11 DEF ServerPing, UserAsks
  <2>3. net' = [net EXCEPT !.inp = Append(net.inp, m)] /\ m \in Messages
    BY <2>1 DEF Arrives, Messages
  <2>4. net' \in Links
    BY <1>1, <2>3, ArrivesType
  <2>5. net'.link = net.link /\ net'.session = net.session
    BY <1>1, <2>3 DEF Links
  <2> QED BY <1>1, <1>4, <1>5, <2>2, <2>4, <2>5
<1> QED BY <1>7, <1>8, <1>9, <1>10, <1>11 DEF World

LEMMA LinkStep ==
    ASSUME CacheInv, PlaceInv, LinkInv, [Next]_vars
    PROVE  LinkInv'
<1>1. CASE Handle
  <2>1. At("loop") /\ net.inp # <<>>
    BY <1>1 DEF Handle
  <2> QED BY <1>1, <2>1, RegistrationLink, ServiceLink DEF Handle
<1>2. CASE PumpOut \/ Keepalive \/ CapTimeout \/ Heartbeat \/ PollCard \/ TopicCount
  BY <1>2, SpokenLink
<1>3. CASE \/ Wait \/ PollStart \/ PollUnmoved \/ PollHead \/ PollPut \/ PollItem \/ PollCount
           \/ TopicItem \/ Others \/ UNCHANGED vars
  BY <1>3, SilentLink
<1>4. CASE Connect
  BY <1>4, ConnectedLink
<1>5. CASE ConnectFails \/ ReadTimeout \/ Eof
  BY <1>5, LeftLink
<1>6. CASE World
  BY <1>6, WorldLink
<1> QED BY <1>1, <1>2, <1>3, <1>4, <1>5, <1>6 DEF Next, Thread, Timers, PollStep

LEMMA LinkInit == Init => PlaceInv /\ LinkInv
<1> SUFFICES ASSUME Init PROVE PlaceInv /\ LinkInv
  OBVIOUS
<1>1. /\ conf \in Servers /\ taken = conf.squatted
      /\ net = [link |-> "none", inp |-> <<>>, session |-> NewSession(NoTopic)]
      /\ pc = [Loop EXCEPT !.at = "backoff"] /\ session = FreshSession /\ outq = <<>>
      /\ introDone = FALSE /\ backoff = RECONNECT_MIN
  BY DEF Init
<1>2. PlaceInv
  BY <1>1, Starts DEF PlaceInv, Loop
<1>3. ServerType
  BY <1>1, BotAssumption DEF ServerType
<1> DEFINE s == NewSession(NoTopic)
<1>4. s \in SessionType(Topics) /\ Member(s) /\ ~s.early
  <2>1. NoTopic \in Topics
    BY DEF NoTopic, Topics
  <2> QED BY <2>1, NewSessionType
<1> HIDE DEF s
<1>5. net \in Links /\ net.link = "none" /\ net.session = s
  BY <1>1, <1>4 DEF Links, s
<1>6. At("backoff") /\ backoff \in RECONNECT_MIN..RECONNECT_MAX
  BY <1>1 DEF At, Loop, RECONNECT_MIN, RECONNECT_MAX
<1>7. session \in Fields /\ outq \in Seq(Queued)
  BY <1>1, FreshFields
<1> QED BY <1>1, <1>2, <1>3, <1>4, <1>5, <1>6, <1>7 DEF LinkInv

LEMMA BotLinkInvariant == Spec => [](CacheInv /\ PlaceInv /\ LinkInv)
<1>1. Init => CacheInv /\ PlaceInv /\ LinkInv
  BY BotInit, CacheInit, LinkInit
<1>2. CacheInv /\ PlaceInv /\ LinkInv /\ ThreadInv /\ [Next]_vars => (CacheInv /\ PlaceInv /\ LinkInv)'
  BY BotStep, CacheStep, PlaceStep, LinkStep
<1>3. ThreadInv /\ [Next]_vars => ThreadInv'
  BY BotStep
<1>4. Init => ThreadInv
  BY BotInit
<1> QED BY <1>1, <1>2, <1>3, <1>4, PTL DEF Spec

\* send_raw and the queue of lines: no line that needs a registered client is
\* sent on a connection before its welcome, however often the bot connects,
\* whatever the server answers and whatever was queued.
THEOREM NothingIsSaidEarly == Spec => []NothingSaidEarly
<1>1. LinkInv => NothingSaidEarly
  BY DEF LinkInv, NothingSaidEarly
<1> QED BY <1>1, BotLinkInvariant, PTL

-----------------------------------------------------------------------------
(* A link on which the server answers is never given up. *)

\* On a link that is up, or of which the end is still to be read, nothing has been
\* silent for more than two minutes, and as long as nothing arrives a probe is no
\* further away than the silence is long.
ClockInv ==
    /\ clock \in [silence : 0..5, probe : 0..2, polled : BOOLEAN]
    /\ net.link \in {"up", "eof"} => clock.silence <= 2
    /\ net.link = "up" => Len(net.inp) > 0 \/ clock.probe >= clock.silence

\* Whatever is due, by the minutes that the clock shows.
LEMMA Minutes ==
    ASSUME clock \in [silence : 0..5, probe : 0..2, polled : BOOLEAN]
    PROVE  /\ clock.silence \in 0..5 /\ clock.probe \in 0..2
           /\ ProbeDue <=> clock.silence >= 2 /\ clock.probe >= 2
           /\ SilentFor <=> clock.silence >= 5
BY DEF ProbeDue, SilentFor, TICK, KEEPALIVE_IDLE, KEEPALIVE_GAP, READ_TIMEOUT

\* A step that leaves the clock alone and loses nothing that arrived.
LEMMA ClockLonger ==
    ASSUME LinkInv, LinkInv', ClockInv, clock' = clock, Longer
    PROVE  ClockInv'
<1> DEFINE a == Len(net.inp)
           b == Len(net'.inp)
<1>1. a \in Nat /\ b \in Nat /\ b >= a /\ net'.link = net.link
  BY DEF LinkInv, Links, Longer
<1>2. a > 0 => b > 0
  <2> HIDE DEF a, b
  <2> QED BY <1>1
<1> QED BY <1>1, <1>2 DEF ClockInv

\* A step that leaves the clock and the link alone.
LEMMA ClockStill ==
    ASSUME ClockInv, clock' = clock, net' = net
    PROVE  ClockInv'
BY DEF ClockInv

\* Whatever arrives ends the silence.
LEMMA ClockHeard ==
    ASSUME ClockInv, Heard
    PROVE  ClockInv'
<1>1. clock' = [clock EXCEPT !.silence = 0]
  BY DEF Heard
<1>2. clock' \in [silence : 0..5, probe : 0..2, polled : BOOLEAN] /\ clock'.silence = 0 /\ clock'.probe \in 0..2
  BY <1>1 DEF ClockInv
<1>3. clock'.silence <= 2 /\ clock'.probe >= clock'.silence
  BY <1>2
<1> QED BY <1>2, <1>3 DEF ClockInv

\* Time passes, by a minute at most, only while nothing is due.
LEMMA ClockWait ==
    ASSUME LinkInv, ClockInv, Wait
    PROVE  ClockInv'
<1>1. /\ net.link \in {"up", "dead"} /\ net.inp = <<>> /\ net' = net /\ ~ProbeDue /\ ~SilentFor
      /\ clock' = IF Quiet
                  THEN [silence |-> clock.silence + 1, probe |-> Least(clock.probe + 1, 2), polled |-> FALSE]
                  ELSE [clock EXCEPT !.polled = FALSE]
  BY DEF Wait
<1>2. clock \in [silence : 0..5, probe : 0..2, polled : BOOLEAN]
  BY DEF ClockInv
<1> DEFINE s == clock.silence
           p == clock.probe
<1>3. s \in 0..5 /\ p \in 0..2 /\ ~(s >= 2 /\ p >= 2) /\ ~(s >= 5)
  BY <1>1, <1>2, Minutes
<1>4. net.link = "up" => p >= s
  <2>1. Len(net.inp) = 0
    BY <1>1
  <2> QED BY <2>1 DEF ClockInv
<1>5. CASE ~Quiet
  <2>1. clock' = [clock EXCEPT !.polled = FALSE]
    BY <1>1, <1>5
  <2>2. clock' \in [silence : 0..5, probe : 0..2, polled : BOOLEAN] /\ clock'.silence = s /\ clock'.probe = p
    BY <1>2, <2>1
  <2> QED BY <1>1, <2>2 DEF ClockInv
<1>6. CASE Quiet
  <2>1. clock' = [silence |-> s + 1, probe |-> Least(p + 1, 2), polled |-> FALSE]
    BY <1>1, <1>6
  <2> HIDE DEF s, p
  <2>2. s + 1 \in 0..5 /\ Least(p + 1, 2) \in 0..2
    BY <1>3 DEF Least
  <2>3. net.link = "up" => s + 1 <= 2 /\ Least(p + 1, 2) >= s + 1
    BY <1>3, <1>4 DEF Least
  <2>4. clock' \in [silence : 0..5, probe : 0..2, polled : BOOLEAN]
    BY <2>1, <2>2
  <2>5. clock'.silence = s + 1 /\ clock'.probe = Least(p + 1, 2)
    BY <2>1
  <2> QED BY <1>1, <2>3, <2>4, <2>5 DEF ClockInv
<1> QED BY <1>5, <1>6

\* A probe goes out, and on a link that is up its answer comes.
LEMMA ClockProbe ==
    ASSUME LinkInv, ClockInv, Keepalive
    PROVE  ClockInv'
<1>1. clock' = [clock EXCEPT !.probe = 0] /\ SendRaw(net, <<Line("PING")>>)
  BY DEF Keepalive
<1>2. net \in Links /\ ServerType
  BY DEF LinkInv
<1>3. clock' \in [silence : 0..5, probe : 0..2, polled : BOOLEAN] /\ clock'.silence = clock.silence
  BY <1>1 DEF ClockInv
<1>4. CASE net.link # "up"
  <2>1. net' = net
    BY <1>1, <1>4 DEF SendRaw
  <2> QED BY <1>3, <1>4, <2>1 DEF ClockInv
<1>5. CASE net.link = "up"
  <2>1. PICK r \in Replies(net.session, <<Line("PING")>>) :
             net' = [net EXCEPT !.session = r.session, !.inp = @ \o r.out]
    BY <1>1, <1>5 DEF SendRaw
  <2>2. net.session \in SessionType(Topics) /\ net.inp \in Seq(Messages)
    BY <1>2 DEF Links
  <2>3. <<Line("PING")>> \in Seq(Lines)
    BY BotLines, OneLine
  <2>4. Len(r.out) > 0 /\ r.out \in Seq(Answers)
    BY <1>2, <2>2, <2>3, PingAnswered, RepliesKeep DEF Results
  <2>5. net'.inp = net.inp \o r.out /\ net'.link = "up"
    BY <1>2, <1>5, <2>1 DEF Links
  <2> DEFINE a == Len(net.inp)
             b == Len(r.out)
             c == Len(net'.inp)
  <2>6. c = a + b /\ a \in Nat /\ b \in Nat /\ b > 0
    BY <2>2, <2>4, <2>5
  <2> HIDE DEF a, b, c
  <2>7. c > 0
    BY <2>6
  <2> QED BY <1>3, <1>5, <2>5, <2>7 DEF ClockInv, c
<1> QED BY <1>4, <1>5

LEMMA ClockWorld ==
    ASSUME LinkInv, LinkInv', ClockInv, World
    PROVE  ClockInv'
<1>1. clock' = clock
  BY DEF World, Break, GhostLeaves, RegistrationTimeout, Kick, ServerPing, UserAsks, WorldOnly
<1>2. net \in Links
  BY DEF LinkInv
<1>3. CASE Break \/ RegistrationTimeout
  <2>1. net'.link \in {"eof", "dead"} /\ net.link = "up"
    BY <1>2, <1>3, BotAssumption DEF Break, RegistrationTimeout, Links
  <2> QED BY <1>1, <2>1 DEF ClockInv
<1>4. CASE GhostLeaves
  BY <1>1, <1>4, ClockStill DEF GhostLeaves
<1>5. CASE Kick \/ ServerPing \/ UserAsks
  <2>1. \E m : /\ net'.link = net.link /\ net'.inp = Append(net.inp, m)
    BY <1>2, <1>5 DEF Kick, ServerPing, UserAsks, Arrives, Links
  <2>2. Len(net'.inp) > 0
    <3>1. PICK m : net'.inp = Append(net.inp, m)
      BY <2>1
    <3>2. Len(Append(net.inp, m)) = Len(net.inp) + 1 /\ Len(net.inp) \in Nat
      BY <1>2 DEF Links
    <3> QED BY <3>1, <3>2
  <2> QED BY <1>1, <2>1, <2>2 DEF ClockInv
<1> QED BY <1>3, <1>4, <1>5 DEF World

LEMMA ClockStep ==
    ASSUME CacheInv, PlaceInv, LinkInv, LinkInv', ClockInv, [Next]_vars
    PROVE  ClockInv'
<1>1. CASE Handle
  <2>1. Heard
    <3> DEFINE m == Head(net.inp)
    <3>1. CASE HandleCapLs(m) \/ HandleCapAck(m) \/ HandleCapNak(m) \/ HandleAuthenticate(m)
      BY <3>1 DEF HandleCapLs, HandleCapAck, HandleCapNak, HandleAuthenticate, Answer
    <3>2. CASE HandleSaslResult(m) \/ HandleNickInUse(m) \/ HandleWelcome(m) \/ HandleKick(m)
      BY <3>2 DEF HandleSaslResult, HandleNickInUse, HandleWelcome, HandleKick, Answer
    <3>3. CASE HandlePing(m) \/ HandleOther(m)
      BY <3>3 DEF HandlePing, HandleOther, Answer
    <3>4. CASE HandleCommand(m)
      <4>1. m \in Messages /\ m.k = "COMMAND"
        BY <1>1, <3>4, Takes DEF Handle, HandleCommand
      <4>2. m.ask \in {"announce", "reply", "topic", "raw"}
        BY <4>1, BotAssumption DEF Messages, Answers
      <4> QED BY <3>4, <4>2 DEF HandleCommand, Answer
    <3> QED BY <1>1, <3>1, <3>2, <3>3, <3>4 DEF Handle
  <2> QED BY <2>1, ClockHeard
<1>2. CASE Keepalive
  BY <1>2, ClockProbe
<1>3. CASE PumpOut \/ CapTimeout \/ Heartbeat \/ PollCard \/ TopicCount
  <2>1. clock' = clock
    BY <1>3 DEF PumpOut, CapTimeout, Heartbeat, PollCard, TopicCount
  <2> QED BY <1>3, <2>1, SpokenLink, ClockLonger
<1>4. CASE Wait
  BY <1>4, ClockWait
<1>5. CASE PollStart
  <2>1. clock' = [clock EXCEPT !.polled = TRUE] /\ net' = net
    BY <1>5 DEF PollStart
  <2>2. /\ clock' \in [silence : 0..5, probe : 0..2, polled : BOOLEAN]
        /\ clock'.silence = clock.silence /\ clock'.probe = clock.probe
    BY <2>1 DEF ClockInv
  <2> QED BY <2>1, <2>2 DEF ClockInv
<1>6. CASE PollUnmoved \/ PollHead \/ PollPut \/ PollItem \/ PollCount \/ TopicItem \/ Others \/ UNCHANGED vars
  BY <1>6, ClockStill DEF PollUnmoved, PollHead, PollPut, PollItem, PollCount, TopicItem, Others, vars, linkVars
<1>7. CASE Connect
  <2>1. clock' = [silence |-> 0, probe |-> 0, polled |-> FALSE]
    BY <1>7 DEF Connect
  <2>2. clock' \in [silence : 0..5, probe : 0..2, polled : BOOLEAN] /\ clock'.silence = 0 /\ clock'.probe = 0
    BY <2>1
  <2>3. clock'.silence <= 2 /\ clock'.probe >= clock'.silence
    BY <2>2
  <2> QED BY <2>2, <2>3 DEF ClockInv
<1>8. CASE ConnectFails
  BY <1>8, ClockStill DEF ConnectFails
<1>9. CASE ReadTimeout \/ Eof
  <2>1. clock' = clock /\ net'.link = "none"
    BY <1>9 DEF ReadTimeout, Eof, Leave
  <2> QED BY <2>1 DEF ClockInv
<1>10. CASE World
  BY <1>10, ClockWorld
<1> QED BY <1>1, <1>2, <1>3, <1>4, <1>5, <1>6, <1>7, <1>8, <1>9, <1>10 DEF Next, Thread, Timers, PollStep

LEMMA ClockInit == Init => ClockInv
BY DEF Init, ClockInv

LEMMA BotClockInvariant == Spec => [](CacheInv /\ PlaceInv /\ LinkInv /\ ClockInv)
<1>1. CacheInv /\ PlaceInv /\ LinkInv /\ LinkInv' /\ ClockInv /\ [Next]_vars => ClockInv'
  BY ClockStep
<1> QED BY <1>1, ClockInit, BotLinkInvariant, PTL DEF Spec

\* The keepalive of loop: a read times out only on a link that is dead, for on any
\* other a probe goes out, and is answered, before the silence is long enough.
THEOREM LiveLinksAreKept == Spec => LiveLinkIsKept
<1>1. LinkInv /\ ClockInv /\ ReadTimeout => net.link = "dead"
  <2> SUFFICES ASSUME LinkInv, ClockInv, ReadTimeout PROVE net.link = "dead"
    OBVIOUS
  <2>1. At("loop") /\ SilentFor
    BY DEF ReadTimeout
  <2>2. clock.silence \in 0..5 /\ clock.silence >= 5
    BY <2>1, Minutes DEF ClockInv
  <2>3. ~(clock.silence <= 2)
    BY <2>2
  <2>4. net.link # "none" /\ net.link \in {"none", "up", "dead", "eof"}
    BY <2>1 DEF LinkInv, Links, At
  <2> QED BY <2>3, <2>4 DEF ClockInv
<1>2. CacheInv /\ PlaceInv /\ LinkInv /\ ClockInv /\ [Next]_vars => [ReadTimeout => net.link = "dead"]_vars
  BY <1>1
<1> QED BY <1>2, BotClockInvariant, PTL DEF Spec, LiveLinkIsKept

-----------------------------------------------------------------------------
(* Every commit is accounted for. *)

\* What a poll still has to say of a project.
DueCards(p) == IF pc.at \in Polling /\ PROJECTS[pc.i] = p THEN pc.cards ELSE <<>>

\* Of a HEAD that was noted nothing is missing: its commits were handed over,
\* counted, not listed or are due.
Covers(last, t, s, u, due) == Range(last) \subseteq Range(t) \cup s \cup u \cup Range(due)

\* While HEADs only move forward: what was handed over and counted is behind
\* the noted HEAD, which is behind the repository's, and what is due comes
\* after it.
Ordered(r, m, last, t, s, due) ==
    /\ Rising(r) /\ (\A i \in DOMAIN r : r[i] <= m) /\ Prefix(last, r)
    /\ Rising(t) /\ Range(t) \cap s = {} /\ Range(t) \cup s \subseteq Range(last)
    /\ Rising(due) /\ Range(due) \subseteq Range(last)
    /\ \A c \in Range(t) \cup s, d \in Range(due) : c < d

Kept(p) ==
    /\ Covers(lastCommit[p], handed[p], summarized[p], unlisted[p], DueCards(p))
    /\ ~moved => Ordered(repo[p], made, lastCommit[p], handed[p], summarized[p], DueCards(p))

CommitTypes ==
    /\ lastCommit \in [Keys -> Revisions] /\ handed \in [Keys -> Seq(Commits)]
    /\ lastTests \in [Keys -> Revisions \cup {Pending}]
    /\ summarized \in [Keys -> SUBSET (1..MaxChanges)] /\ unlisted \in [Keys -> SUBSET (1..MaxChanges)]

CommitInv == CommitTypes /\ \A p \in Keys : Kept(p)

\* Nothing is due.
LEMMA NothingDue == Rising(<<>>) /\ Range(<<>>) = {} /\ <<>> \in Seq(Commits)
BY DEF Rising, Range

LEMMA PrefixRange ==
    ASSUME NEW S, NEW s \in Seq(S), NEW t \in Seq(S), Prefix(s, t)
    PROVE  Range(s) \subseteq Range(t)
<1>1. Len(s) \in Nat /\ Len(t) \in Nat /\ DOMAIN s = 1..Len(s) /\ DOMAIN t = 1..Len(t)
  OBVIOUS
<1>2. (1..Len(s)) \subseteq 1..Len(t)
  BY <1>1 DEF Prefix
<1> QED BY <1>1, <1>2 DEF Prefix, Range

\* A new commit.
LEMMA OrderedCommit ==
    ASSUME NEW r \in Seq(Nat), NEW m \in Nat, NEW last \in Seq(Nat), NEW t, NEW s, NEW due,
           Ordered(r, m, last, t, s, due)
    PROVE  Ordered(Append(r, m + 1), m + 1, last, t, s, due)
<1> DEFINE q == Append(r, m + 1)
<1>1. /\ Len(r) \in Nat /\ DOMAIN r = 1..Len(r) /\ DOMAIN q = 1..(Len(r) + 1) /\ Len(q) = Len(r) + 1
      /\ q[Len(r) + 1] = m + 1 /\ \A i \in 1..Len(r) : q[i] = r[i]
  OBVIOUS
<1>2. \A i \in 1..(Len(r) + 1) : i \in 1..Len(r) \/ i = Len(r) + 1
  BY <1>1
<1>3. \A i \in 1..Len(r) : r[i] \in Nat /\ r[i] <= m
  <2>1. \A i \in 1..Len(r) : r[i] <= m
    BY <1>1, Zenon DEF Ordered
  <2>2. \A i \in 1..Len(r) : r[i] \in Nat
    BY ElementOfSeq
  <2> QED BY <2>1, <2>2
<1> HIDE DEF q
<1>4. \A i \in DOMAIN q : q[i] <= m + 1
  <2> TAKE i \in DOMAIN q
  <2>1. CASE i \in 1..Len(r)
    BY <1>1, <1>3, <2>1
  <2>2. CASE i = Len(r) + 1
    BY <1>1, <2>2
  <2> QED BY <1>1, <1>2, <2>1, <2>2
<1>5. Rising(q)
  <2> SUFFICES ASSUME NEW i \in DOMAIN q, NEW j \in DOMAIN q, i < j PROVE q[i] < q[j]
    BY DEF Rising
  <2>1. i \in 1..Len(r)
    BY <1>1
  <2>2. CASE j \in 1..Len(r)
    BY <1>1, <2>1, <2>2 DEF Ordered, Rising
  <2>3. CASE j = Len(r) + 1
    BY <1>1, <1>3, <2>1, <2>3
  <2> QED BY <1>1, <1>2, <2>2, <2>3
<1>6. Prefix(last, q)
  <2>1. Len(last) \in Nat /\ DOMAIN last = 1..Len(last) /\ Len(last) <= Len(r)
    BY DEF Ordered, Prefix
  <2>2. Len(last) <= Len(q)
    BY <1>1, <2>1
  <2>3. \A i \in DOMAIN last : i \in 1..Len(r)
    BY <1>1, <2>1
  <2>4. \A i \in DOMAIN last : last[i] = q[i]
    BY <1>1, <2>3 DEF Ordered, Prefix
  <2> QED BY <2>2, <2>4 DEF Prefix
<1> QED BY <1>4, <1>5, <1>6 DEF Ordered, q

\* HEAD is noted.
LEMMA OrderedHead ==
    ASSUME NEW r \in Revisions, NEW m, NEW last \in Revisions, r # last, MaxChanges \in Nat,
           NEW t, NEW s, Ordered(r, m, last, t, s, <<>>),
           NEW revs \in {Revs(last, r), <<Tip(r)>>}
    PROVE  Ordered(r, m, r, t, s, revs)
<1>1. Rising(r) /\ Prefix(last, r)
  BY DEF Ordered
<1>2. Follows(last, r, revs)
  BY <1>1, RevsBehind
<1>3. Range(last) \subseteq Range(r)
  BY <1>1, PrefixRange DEF Revisions
<1>4. Prefix(r, r)
  BY DEF Prefix, Revisions
<1> QED BY <1>2, <1>3, <1>4 DEF Ordered, Follows

\* The commits that get no card are counted.
LEMMA OrderedCount ==
    ASSUME NEW r, NEW m, NEW last, NEW t \in Seq(Nat), NEW s \in SUBSET Nat, NEW due \in Seq(Nat) \ {<<>>},
           Ordered(r, m, last, t, s, due)
    PROVE  Ordered(r, m, last, t, s \cup Range(Earlier(due)), Shown(due))
<1> DEFINE early == Earlier(due)
           shown == Shown(due)
<1>1. /\ Rising(due) /\ Range(due) \subseteq Range(last)
      /\ \A c \in Range(t) \cup s, d \in Range(due) : c < d
  BY DEF Ordered
<1>2. /\ Range(due) = Range(early) \cup Range(shown) /\ Rising(shown)
      /\ \A c \in Range(early), d \in Range(shown) : c < d
  BY <1>1, CardsSplit
<1> HIDE DEF early, shown
<1>3. Range(t) \cap (s \cup Range(early)) = {}
  <2>1. \A c \in Range(t) : c \in Nat
    BY DEF Range
  <2>2. \A c \in Range(t), d \in Range(early) : c < d
    BY <1>1, <1>2
  <2>3. \A c \in Range(t) : c \notin Range(early)
    BY <2>1, <2>2
  <2> QED BY <2>3 DEF Ordered
<1>4. Range(t) \cup (s \cup Range(early)) \subseteq Range(last) /\ Range(shown) \subseteq Range(last)
  BY <1>1, <1>2 DEF Ordered
<1>5. \A c \in Range(t) \cup (s \cup Range(early)), d \in Range(shown) : c < d
  BY <1>1, <1>2
<1>6. Ordered(r, m, last, t, s \cup Range(early), shown)
  BY <1>2, <1>3, <1>4, <1>5 DEF Ordered
<1> QED BY <1>6 DEF early, shown

\* A card.
LEMMA OrderedCard ==
    ASSUME NEW r, NEW m, NEW last, NEW t \in Seq(Nat), NEW s \in SUBSET Nat, NEW due \in Seq(Nat) \ {<<>>},
           Ordered(r, m, last, t, s, due)
    PROVE  Ordered(r, m, last, Append(t, Head(due)), s, Tail(due))
<1> DEFINE c == Head(due)
           told1 == Append(t, c)
           rest == Tail(due)
<1>1. /\ Rising(due) /\ Range(due) \subseteq Range(last) /\ Rising(t)
      /\ Range(t) \cap s = {} /\ Range(t) \cup s \subseteq Range(last)
      /\ \A x \in Range(t) \cup s, d \in Range(due) : x < d
  BY DEF Ordered
<1>2. /\ Len(due) \in Nat \ {0} /\ DOMAIN due = 1..Len(due) /\ c = due[1] /\ c \in Nat
      /\ rest \in Seq(Nat) /\ Len(rest) = Len(due) - 1 /\ DOMAIN rest = 1..(Len(due) - 1)
      /\ \A i \in 1..(Len(due) - 1) : rest[i] = due[i + 1]
  OBVIOUS
<1>3. /\ Len(t) \in Nat /\ DOMAIN t = 1..Len(t) /\ DOMAIN told1 = 1..(Len(t) + 1)
      /\ told1[Len(t) + 1] = c /\ \A i \in 1..Len(t) : told1[i] = t[i]
  OBVIOUS
<1> HIDE DEF c, told1, rest
<1>4. c \in Range(due) /\ 1 \in DOMAIN due
  <2> DEFINE n == Len(due)
  <2>1. n \in Nat \ {0} /\ DOMAIN due = 1..n
    BY <1>2
  <2> HIDE DEF n
  <2>2. 1 \in DOMAIN due
    BY <2>1
  <2> QED BY <1>2, <2>2 DEF Range
<1>5. Range(told1) = Range(t) \cup {c}
  <2>1. \A i \in 1..(Len(t) + 1) : i \in 1..Len(t) \/ i = Len(t) + 1
    BY <1>3
  <2>2. Len(t) + 1 \in DOMAIN told1 /\ (1..Len(t)) \subseteq DOMAIN told1
    BY <1>3
  <2> QED BY <1>3, <2>1, <2>2 DEF Range
<1>6. \A i \in DOMAIN rest : i + 1 \in DOMAIN due /\ 1 < i + 1
  <2> DEFINE n == Len(due)
  <2>1. n \in Nat \ {0} /\ DOMAIN due = 1..n /\ DOMAIN rest = 1..(n - 1)
    BY <1>2
  <2> HIDE DEF n
  <2> QED BY <2>1
<1>7. Range(rest) \subseteq Range(due) /\ \A d \in Range(rest) : c < d
  <2>1. \A i \in DOMAIN rest : rest[i] = due[i + 1] /\ due[1] < due[i + 1]
    BY <1>1, <1>2, <1>4, <1>6 DEF Rising
  <2> QED BY <1>2, <1>6, <2>1 DEF Range
<1>8. Rising(rest)
  <2> SUFFICES ASSUME NEW i \in DOMAIN rest, NEW j \in DOMAIN rest, i < j PROVE rest[i] < rest[j]
    BY DEF Rising
  <2> DEFINE a == i + 1
             b == j + 1
  <2>1. a \in DOMAIN due /\ b \in DOMAIN due /\ rest[i] = due[a] /\ rest[j] = due[b] /\ a < b
    BY <1>2, <1>6
  <2> HIDE DEF a, b
  <2> QED BY <1>1, <2>1 DEF Rising
<1>9. Rising(told1)
  <2> SUFFICES ASSUME NEW i \in DOMAIN told1, NEW j \in DOMAIN told1, i < j PROVE told1[i] < told1[j]
    BY DEF Rising
  <2>1. i \in 1..Len(t) /\ (j \in 1..Len(t) \/ j = Len(t) + 1)
    BY <1>3
  <2>2. CASE j \in 1..Len(t)
    BY <1>1, <1>3, <2>1, <2>2 DEF Rising
  <2>3. CASE j = Len(t) + 1
    BY <1>1, <1>3, <1>4, <2>1, <2>3 DEF Range
  <2> QED BY <2>1, <2>2, <2>3
<1>10. Range(told1) \cap s = {}
  <2>1. c \notin s
    <3> SUFFICES ASSUME c \in s PROVE FALSE
      OBVIOUS
    <3>1. c < c
      BY <1>1, <1>4
    <3> QED BY <1>2, <3>1
  <2> QED BY <1>1, <1>5, <2>1
<1>11. Range(told1) \cup s \subseteq Range(last) /\ Range(rest) \subseteq Range(last)
  BY <1>1, <1>4, <1>5, <1>7
<1>12. \A x \in Range(told1) \cup s, d \in Range(rest) : x < d
  BY <1>1, <1>5, <1>7
<1>13. Ordered(r, m, last, told1, s, rest)
  BY <1>8, <1>9, <1>10, <1>11, <1>12 DEF Ordered
<1> QED BY <1>13 DEF c, told1, rest

\* Range of what is left when one card was said.
LEMMA CardRange ==
    ASSUME NEW S, NEW t \in Seq(S), NEW due \in Seq(S) \ {<<>>}
    PROVE  /\ Append(t, Head(due)) \in Seq(S)
           /\ Range(t) \cup Range(due) \subseteq Range(Append(t, Head(due))) \cup Range(Tail(due))
<1> DEFINE c == Head(due)
           told1 == Append(t, c)
           rest == Tail(due)
<1>1. /\ Len(due) \in Nat \ {0} /\ DOMAIN due = 1..Len(due) /\ c = due[1] /\ c \in S
      /\ DOMAIN rest = 1..(Len(due) - 1) /\ \A i \in 1..(Len(due) - 1) : rest[i] = due[i + 1]
  OBVIOUS
<1>2. /\ told1 \in Seq(S) /\ Len(t) \in Nat /\ DOMAIN t = 1..Len(t) /\ DOMAIN told1 = 1..(Len(t) + 1)
      /\ told1[Len(t) + 1] = c /\ \A i \in 1..Len(t) : told1[i] = t[i]
  OBVIOUS
<1> HIDE DEF c, told1, rest
<1>3. Range(t) \subseteq Range(told1) /\ c \in Range(told1)
  <2>1. Len(t) + 1 \in DOMAIN told1 /\ (1..Len(t)) \subseteq DOMAIN told1
    BY <1>2
  <2> QED BY <1>2, <2>1 DEF Range
<1>4. ASSUME NEW i \in DOMAIN due PROVE due[i] = c \/ due[i] \in Range(rest)
  <2>1. CASE i = 1
    BY <1>1, <2>1
  <2>2. CASE i # 1
    <3> DEFINE j == i - 1
    <3>1. j \in 1..(Len(due) - 1) /\ j + 1 = i
      BY <1>1, <2>2
    <3> HIDE DEF j
    <3>2. j \in DOMAIN rest /\ rest[j] = due[i]
      BY <1>1, <3>1
    <3> QED BY <3>2 DEF Range
  <2> QED BY <2>1, <2>2
<1>5. Range(due) \subseteq Range(told1) \cup Range(rest)
  BY <1>3, <1>4 DEF Range
<1> QED BY <1>2, <1>3, <1>5 DEF c, told1, rest

LEMMA RevisionsAreNumbers ==
    /\ Revisions \subseteq Seq(Nat) /\ Seq(Commits) \subseteq Seq(Nat)
    /\ \A S : \A s \in Seq(S) : Range(s) \subseteq S
<1>1. ASSUME NEW S, NEW s \in Seq(S) PROVE Range(s) \subseteq S
  <2>1. DOMAIN s = 1..Len(s) /\ \A i \in 1..Len(s) : s[i] \in S
    BY ElementOfSeq
  <2> QED BY <2>1 DEF Range
<1>2. ASSUME NEW S \in SUBSET Nat, NEW s \in Seq(S) PROVE s \in Seq(Nat)
  <2>1. s = [i \in 1..Len(s) |-> s[i]] /\ Len(s) \in Nat /\ \A i \in 1..Len(s) : s[i] \in Nat
    BY ElementOfSeq
  <2> QED BY <2>1
<1>3. 1..MaxChanges \in SUBSET Nat /\ Commits \in SUBSET Nat
  BY NIs DEF Commits
<1>4. Revisions \subseteq Seq(Nat) /\ Seq(Commits) \subseteq Seq(Nat)
  BY <1>2, <1>3 DEF Revisions
<1> QED BY <1>1, <1>4

\* Time passes for a repository when another one gets a commit.
LEMMA OrderedLater ==
    ASSUME NEW r \in Seq(Nat), NEW m \in Nat, NEW last, NEW t, NEW s, NEW due,
           Ordered(r, m, last, t, s, due)
    PROVE  Ordered(r, m + 1, last, t, s, due)
<1>1. \A i \in DOMAIN r : r[i] \in Nat /\ r[i] <= m
  <2>1. \A i \in DOMAIN r : r[i] <= m
    BY Zenon DEF Ordered
  <2>2. \A i \in 1..Len(r) : r[i] \in Nat
    BY ElementOfSeq
  <2>3. DOMAIN r = 1..Len(r)
    OBVIOUS
  <2> QED BY <2>1, <2>2, <2>3
<1>2. \A i \in DOMAIN r : r[i] <= m + 1
  BY <1>1
<1> QED BY <1>2 DEF Ordered

\* A project of which nothing changes.
LEMMA KeptStill ==
    ASSUME NEW p \in Keys, Kept(p), UNCHANGED <<repo[p], made, moved>>,
           UNCHANGED <<lastCommit[p], handed[p], summarized[p], unlisted[p]>>, DueCards(p)' = DueCards(p)
    PROVE  Kept(p)'
BY DEF Kept, Covers, Ordered

\* A step that leaves the commits alone.
LEMMA CommitStill ==
    ASSUME CommitInv, UNCHANGED <<repo, made, moved, lastCommit, lastTests, handed, summarized, unlisted>>,
           \/ pc' = pc
           \/ pc.at \notin Polling /\ pc'.at \notin Polling
           \/ pc.at \in Polling /\ pc'.at \in Polling /\ pc'.i = pc.i /\ pc'.cards = pc.cards
    PROVE  CommitInv'
<1>1. \A p \in Keys : DueCards(p)' = DueCards(p)
  BY DEF DueCards
<1>2. \A p \in Keys : Kept(p)'
  BY <1>1, KeptStill DEF CommitInv
<1> QED BY <1>2 DEF CommitInv, CommitTypes

LEMMA CommitRepositories ==
    ASSUME CacheInv, CommitInv, Repositories, UNCHANGED <<memory, pc>>
    PROVE  CommitInv'
<1>1. PICK p \in Keys : Commit(p) \/ MoveBack(p)
  BY DEF Repositories
<1>2. /\ CommitTypes' /\ UNCHANGED <<lastCommit, handed, summarized, unlisted>> /\ made' = made + 1
      /\ made \in Nat /\ repo \in [Keys -> Seq(Nat)]
  <2>1. UNCHANGED <<lastCommit, handed, summarized, unlisted, lastTests>> /\ made' = made + 1
    BY <1>1 DEF Commit, MoveBack, Change, memory
  <2>2. CommitTypes'
    BY <2>1 DEF CommitInv, CommitTypes
  <2>3. made \in Nat /\ repo \in [Keys -> Seq(1..MaxChanges)]
    BY NIs DEF CacheInv, InventoryTypeOK, Revisions
  <2>4. repo \in [Keys -> Seq(Nat)]
    <3>1. Seq(1..MaxChanges) \subseteq Seq(Nat)
      BY RevisionsAreNumbers DEF Revisions
    <3> QED BY <2>3, <3>1
  <2> QED BY <2>1, <2>2, <2>3, <2>4
<1>3. ASSUME NEW q \in Keys
      PROVE  /\ DueCards(q)' = DueCards(q) /\ lastCommit[q] \in Seq(Nat)
             /\ Covers(lastCommit[q], handed[q], summarized[q], unlisted[q], DueCards(q))
             /\ ~moved => Ordered(repo[q], made, lastCommit[q], handed[q], summarized[q], DueCards(q))
  <2>1. DueCards(q)' = DueCards(q)
    BY DEF DueCards
  <2>2. Kept(q) /\ lastCommit[q] \in Revisions
    BY DEF CommitInv, CommitTypes
  <2>3. lastCommit[q] \in Seq(Nat)
    BY <2>2, RevisionsAreNumbers
  <2> QED BY <2>1, <2>2, <2>3 DEF Kept
<1>4. ASSUME NEW q \in Keys PROVE Covers(lastCommit[q], handed[q], summarized[q], unlisted[q], DueCards(q))'
  BY <1>2, <1>3 DEF Covers
<1>5. CASE MoveBack(p)
  <2>1. moved'
    BY <1>5 DEF MoveBack
  <2> QED BY <1>2, <1>4, <2>1 DEF CommitInv, Kept
<1>6. CASE Commit(p)
  <2>1. moved' = moved /\ repo' = [repo EXCEPT ![p] = Append(repo[p], made + 1)]
    BY <1>2, <1>6 DEF Commit
  <2>2. ASSUME NEW q \in Keys, ~moved
        PROVE  Ordered(repo'[q], made', lastCommit'[q], handed'[q], summarized'[q], DueCards(q))
    <3> DEFINE r == repo[q]
               last == lastCommit[q]
    <3>1. /\ r \in Seq(Nat) /\ last \in Seq(Nat)
          /\ Ordered(r, made, last, handed[q], summarized[q], DueCards(q))
      BY <1>2, <1>3, <2>2
    <3>2. repo'[q] = r \/ repo'[q] = Append(r, made + 1)
      BY <1>2, <2>1
    <3> HIDE DEF r
    <3>3. CASE repo'[q] = r
      <4>1. Ordered(r, made + 1, last, handed[q], summarized[q], DueCards(q))
        BY <1>2, <3>1, OrderedLater
      <4> QED BY <1>2, <3>3, <4>1
    <3>4. CASE repo'[q] = Append(r, made + 1)
      <4>1. Ordered(Append(r, made + 1), made + 1, last, handed[q], summarized[q], DueCards(q))
        BY <1>2, <3>1, OrderedCommit
      <4> QED BY <1>2, <3>4, <4>1
    <3> QED BY <3>2, <3>3, <3>4
  <2>3. ASSUME NEW q \in Keys PROVE Kept(q)'
    <3>1. Covers(lastCommit[q], handed[q], summarized[q], unlisted[q], DueCards(q))'
      BY <1>4
    <3>2. ~moved' => Ordered(repo[q], made, lastCommit[q], handed[q], summarized[q], DueCards(q))'
      BY <1>3, <2>1, <2>2 DEF Ordered
    <3> QED BY <3>1, <3>2 DEF Kept
  <2> QED BY <1>2, <2>3 DEF CommitInv
<1> QED BY <1>1, <1>5, <1>6

LEMMA CommitHead ==
    ASSUME CacheInv, PlaceInv, CommitInv, PollHead
    PROVE  CommitInv'
<1>0. pc.at = "poll" /\ pc.i \in 1..N /\ PROJECTS[pc.i] \in Keys /\ pc \in Points /\ MaxChanges \in Nat
  BY NIs DEF PollHead, At, PlaceInv, Placed
<1> PICK p \in Keys : p = PROJECTS[pc.i]
  BY <1>0
<1> DEFINE prev == lastCommit[p]
           cur  == repo[p]
<1>1. pc.at = "poll" /\ pc.i \in 1..N /\ p \in Keys /\ pc \in Points /\ MaxChanges \in Nat
  BY <1>0
<1>2. PICK revs \in {Revs(prev, cur), <<Tip(cur)>>} :
            /\ \/ revs = Revs(prev, cur) /\ unlisted' = unlisted
               \/ unlisted' = [unlisted EXCEPT ![p] = @ \cup (Range(cur) \ (Range(prev) \cup Range(revs)))]
            /\ pc' = [pc EXCEPT !.at = IF p \in queued THEN "item" ELSE "put", !.cards = revs]
  BY DEF PollHead
<1>3. /\ cur # prev /\ lastCommit' = [lastCommit EXCEPT ![p] = cur]
      /\ UNCHANGED <<repo, made, moved, lastTests, handed, summarized>>
  BY DEF PollHead, repoVars
<1>4. /\ cur \in Revisions /\ prev \in Revisions /\ CommitTypes /\ Kept(p)
      /\ handed[p] \in Seq(Commits) /\ summarized[p] \in SUBSET (1..MaxChanges)
      /\ unlisted[p] \in SUBSET (1..MaxChanges)
  BY <1>1 DEF CacheInv, InventoryTypeOK, CommitInv, CommitTypes
<1> HIDE DEF prev, cur
<1>5. /\ DueCards(p) = <<>> /\ DueCards(p)' = revs
      /\ \A q \in Keys : q # p => DueCards(q)' = DueCards(q)
  <2>1. pc'.at \in Polling /\ pc'.cards = revs /\ pc'.i = pc.i /\ pc.at \notin Polling
    BY <1>1, <1>2 DEF Points, Polling
  <2>2. PROJECTS[pc.i] = p
    OBVIOUS
  <2>3. DueCards(p) = <<>>
    BY <2>1 DEF DueCards
  <2>4. DueCards(p)' = revs
    BY <2>1, <2>2 DEF DueCards
  <2>5. ASSUME NEW q \in Keys, q # p PROVE DueCards(q)' = DueCards(q)
    BY <2>1, <2>2, <2>5 DEF DueCards
  <2> QED BY <2>3, <2>4, <2>5
<1>6. Range(cur) \subseteq 1..MaxChanges
  <2>1. cur \in Seq(1..MaxChanges)
    BY <1>4 DEF Revisions
  <2> QED BY <2>1, RevisionsAreNumbers
<1>7. CommitTypes'
  BY <1>1, <1>2, <1>3, <1>4, <1>6 DEF CommitTypes
<1>8. lastCommit'[p] = cur /\ \A q \in Keys : q # p => lastCommit'[q] = lastCommit[q] /\ unlisted'[q] = unlisted[q]
  BY <1>1, <1>2, <1>3, <1>4 DEF CommitTypes
<1>9. /\ Range(prev) \subseteq Range(handed[p]) \cup summarized[p] \cup unlisted[p]
      /\ ~moved => Ordered(cur, made, prev, handed[p], summarized[p], <<>>)
  BY <1>4, <1>5, NothingDue DEF Kept, Covers, prev, cur
<1>10. Covers(cur, handed[p], summarized[p], unlisted'[p], revs)
  <2>1. CASE revs = Revs(prev, cur) /\ unlisted' = unlisted
    <3>1. Range(cur) \subseteq Range(prev) \cup Range(revs)
      BY <1>1, <1>4, <2>1, RevsCover
    <3> QED BY <1>9, <2>1, <3>1 DEF Covers
  <2>2. CASE unlisted' = [unlisted EXCEPT ![p] = @ \cup (Range(cur) \ (Range(prev) \cup Range(revs)))]
    <3>1. unlisted'[p] = unlisted[p] \cup (Range(cur) \ (Range(prev) \cup Range(revs)))
      BY <1>1, <1>4, <2>2 DEF CommitTypes
    <3> QED BY <1>9, <3>1 DEF Covers
  <2> QED BY <1>2, <2>1, <2>2
<1>11. ~moved => Ordered(cur, made, cur, handed[p], summarized[p], revs)
  BY <1>1, <1>3, <1>4, <1>9, OrderedHead
<1>12. Kept(p)'
  <2>1. repo'[p] = cur
    BY <1>3 DEF cur
  <2>2. Covers(lastCommit'[p], handed'[p], summarized'[p], unlisted'[p], DueCards(p)')
    BY <1>3, <1>5, <1>8, <1>10
  <2>3. ~moved' => Ordered(repo'[p], made', lastCommit'[p], handed'[p], summarized'[p], DueCards(p)')
    BY <1>3, <1>5, <1>8, <1>11, <2>1
  <2> QED BY <2>2, <2>3 DEF Kept, Covers, Ordered
<1>13. \A q \in Keys : q # p => Kept(q)'
  <2> SUFFICES ASSUME NEW q \in Keys, q # p PROVE Kept(q)'
    OBVIOUS
  <2>1. Kept(q)
    BY DEF CommitInv
  <2> QED BY <1>3, <1>5, <1>8, <2>1, KeptStill
<1>14. \A q \in Keys : Kept(q)'
  BY <1>12, <1>13
<1> QED BY <1>7, <1>14 DEF CommitInv

LEMMA CommitCount ==
    ASSUME CacheInv, PlaceInv, CommitInv, PollCount
    PROVE  CommitInv'
<1>0. pc.at = "count" /\ pc.i \in 1..N /\ PROJECTS[pc.i] \in Keys /\ pc \in Points /\ Placed(pc)
  BY NIs DEF PollCount, At, PlaceInv, Placed, Polling
<1> PICK p \in Keys : p = PROJECTS[pc.i]
  BY <1>0
<1> DEFINE cards == pc.cards
           early == Earlier(cards)
           shown == Shown(cards)
           t     == handed[p]
           s     == summarized[p]
<1>1. /\ pc'.at = "cards" /\ pc'.i = pc.i /\ pc'.cards = shown
      /\ summarized' = [summarized EXCEPT ![p] = summarized[p] \cup Range(early)]
      /\ UNCHANGED <<repo, made, moved, lastCommit, lastTests, handed, unlisted>>
  BY <1>0 DEF PollCount, Points, repoVars
<1>2. /\ cards \in Seq(Commits) /\ Len(cards) > 0 /\ (Len(cards) > 1 => cards \in Seq(1..MaxChanges))
  BY <1>0 DEF Placed, Points, Polling
<1>3. cards # <<>> /\ cards \in Seq(Nat)
  <2>1. ~(Len(<<>>) > 0)
    OBVIOUS
  <2> QED BY <1>2, <2>1, RevisionsAreNumbers
<1>4. CommitTypes /\ Kept(p) /\ t \in Seq(Nat) /\ s \in SUBSET (1..MaxChanges) /\ s \in SUBSET Nat
  <2>1. CommitTypes /\ Kept(p) /\ handed[p] \in Seq(Commits) /\ s \in SUBSET (1..MaxChanges)
    BY DEF CommitInv, CommitTypes
  <2> QED BY <2>1, RevisionsAreNumbers
<1>5. Range(cards) = Range(early) \cup Range(shown) /\ (early # <<>> => Len(cards) > 1)
  BY <1>2, <1>3, CardsSplit
<1>6. Range(early) \subseteq 1..MaxChanges
  <2>1. CASE Len(cards) > 1
    <3>1. cards \in Seq(1..MaxChanges) \ {<<>>}
      BY <1>2, <1>3, <2>1
    <3>2. early \in Seq(1..MaxChanges)
      BY <3>1, CardsSplit
    <3> QED BY <3>2, RevisionsAreNumbers
  <2>2. CASE ~(Len(cards) > 1)
    <3>1. early = <<>>
      BY <1>5, <2>2
    <3> QED BY <3>1, NothingDue
  <2> QED BY <2>1, <2>2
<1>7. /\ DueCards(p) = cards
      /\ \A q \in Keys : q # p => DueCards(q) = <<>>
  BY <1>0 DEF DueCards, Polling
<1>8. DueCards(p)' = shown
  BY <1>1 DEF DueCards, Polling
<1>9. \A q \in Keys : q # p => DueCards(q)' = <<>>
  BY <1>1 DEF DueCards
<1>10. ~moved => Ordered(repo[p], made, lastCommit[p], t, s, cards)
  BY <1>4, <1>7 DEF Kept
<1>11. Covers(lastCommit[p], t, s, unlisted[p], cards)
  BY <1>4, <1>7 DEF Kept
<1> HIDE DEF cards, early, shown, t, s
<1>12. CommitTypes'
  BY <1>1, <1>4, <1>6 DEF CommitTypes, s
<1>13. summarized'[p] = s \cup Range(early) /\ \A q \in Keys : q # p => summarized'[q] = summarized[q]
  BY <1>1, <1>4 DEF CommitTypes, s
<1>14. Covers(lastCommit[p], t, s \cup Range(early), unlisted[p], shown)
  BY <1>5, <1>11 DEF Covers
<1>15. ~moved => Ordered(repo[p], made, lastCommit[p], t, s \cup Range(early), shown)
  BY <1>3, <1>4, <1>10, OrderedCount DEF early, shown
<1>16. handed'[p] = t
  BY <1>1 DEF t
<1>17. Kept(p)'
  <2>1. Covers(lastCommit'[p], handed'[p], summarized'[p], unlisted'[p], DueCards(p)')
    BY <1>1, <1>8, <1>13, <1>14, <1>16
  <2>2. ~moved' => Ordered(repo'[p], made', lastCommit'[p], handed'[p], summarized'[p], DueCards(p)')
    BY <1>1, <1>8, <1>13, <1>15, <1>16
  <2> QED BY <2>1, <2>2 DEF Kept, Covers, Ordered
<1>18. ASSUME NEW q \in Keys, q # p PROVE Kept(q)'
  <2>1. Kept(q) /\ DueCards(q)' = DueCards(q)
    BY <1>7, <1>9, <1>18 DEF CommitInv
  <2> QED BY <1>1, <1>13, <1>18, <2>1, KeptStill
<1>19. \A q \in Keys : Kept(q)'
  BY <1>17, <1>18
<1> QED BY <1>12, <1>19 DEF CommitInv

LEMMA CommitCard ==
    ASSUME CacheInv, PlaceInv, CommitInv, PollCard
    PROVE  CommitInv'
<1>0. pc.at = "cards" /\ pc.i \in 1..N /\ PROJECTS[pc.i] \in Keys /\ pc \in Points /\ Placed(pc)
  BY NIs DEF PollCard, At, PlaceInv, Placed, Polling
<1> PICK p \in Keys : p = PROJECTS[pc.i]
  BY <1>0
<1> DEFINE cards == pc.cards
           card  == Head(cards)
           rest  == Tail(cards)
           t     == handed[p]
           s     == summarized[p]
<1>1. /\ handed' = [handed EXCEPT ![p] = Append(t, card)]
      /\ lastTests' = lastTests \/ lastTests' = TestsDelta(p)
      /\ UNCHANGED <<repo, made, moved, lastCommit, summarized, unlisted>>
  BY DEF PollCard, inventoryVars, repoVars
<1>2. cards \in Seq(Commits) /\ Len(cards) > 0
  BY <1>0 DEF Placed, Points, Polling
<1>3. cards \in Seq(Commits) \ {<<>>} /\ cards \in Seq(Nat) \ {<<>>}
  <2>1. ~(Len(<<>>) > 0)
    OBVIOUS
  <2> QED BY <1>2, <2>1, RevisionsAreNumbers
<1>4. CommitTypes /\ Kept(p) /\ t \in Seq(Commits) /\ t \in Seq(Nat) /\ s \in SUBSET Nat
  <2>1. CommitTypes /\ Kept(p) /\ t \in Seq(Commits) /\ s \in SUBSET (1..MaxChanges)
    BY DEF CommitInv, CommitTypes
  <2> QED BY <2>1, RevisionsAreNumbers
<1>5. \/ Len(cards) = 1 /\ pc' = SetTopic(pc.i + 1)
      \/ pc'.at = "cards" /\ pc'.i = pc.i /\ pc'.cards = rest
  BY <1>0 DEF PollCard, Points
<1>6. DueCards(p) = cards /\ \A q \in Keys : q # p => DueCards(q) = <<>>
  BY <1>0 DEF DueCards, Polling
<1>7. DueCards(p)' = rest
  <2>1. CASE Len(cards) = 1 /\ pc' = SetTopic(pc.i + 1)
    <3>1. pc'.at \notin Polling
      BY <2>1 DEF SetTopic, Loop, Polling
    <3>2. rest = <<>>
      <4>1. \A q \in Seq(Commits) : Len(q) = 1 => Tail(q) = <<>>
        BY TailOne
      <4> QED BY <1>2, <2>1, <4>1
    <3> QED BY <3>1, <3>2 DEF DueCards
  <2>2. CASE pc'.at = "cards" /\ pc'.i = pc.i /\ pc'.cards = rest
    BY <2>2 DEF DueCards, Polling
  <2> QED BY <1>5, <2>1, <2>2
<1>8. \A q \in Keys : q # p => DueCards(q)' = <<>>
  <2>1. CASE pc' = SetTopic(pc.i + 1)
    <3>1. pc'.at \notin Polling
      BY <2>1 DEF SetTopic, Loop, Polling
    <3> QED BY <3>1 DEF DueCards
  <2>2. CASE pc'.i = pc.i
    BY <2>2 DEF DueCards
  <2> QED BY <1>5, <2>1, <2>2
<1>9. ~moved => Ordered(repo[p], made, lastCommit[p], t, s, cards)
  BY <1>4, <1>6 DEF Kept
<1>10. Covers(lastCommit[p], t, s, unlisted[p], cards)
  BY <1>4, <1>6 DEF Kept
<1>11. /\ Append(t, card) \in Seq(Commits)
       /\ Range(t) \cup Range(cards) \subseteq Range(Append(t, card)) \cup Range(rest)
  BY <1>3, <1>4, CardRange
<1>12. ~moved => Ordered(repo[p], made, lastCommit[p], Append(t, card), s, rest)
  BY <1>3, <1>4, <1>9, OrderedCard
<1> HIDE DEF cards, card, rest, t, s
<1>13. lastTests' \in [Keys -> Revisions \cup {Pending}]
  <2>1. pc.counts \in Counts
    BY <1>0 DEF Points
  <2>2. pc.counts \notin {Pending, Failed} => pc.counts \in Revisions
    BY <2>1 DEF Counts
  <2> QED BY <1>1, <1>4, <2>2 DEF TestsDelta, CommitTypes
<1>14. CommitTypes'
  BY <1>1, <1>4, <1>11, <1>13 DEF CommitTypes
<1>15. handed'[p] = Append(t, card) /\ \A q \in Keys : q # p => handed'[q] = handed[q]
  BY <1>1, <1>4 DEF CommitTypes
<1>16. Covers(lastCommit[p], Append(t, card), s, unlisted[p], rest)
  BY <1>10, <1>11 DEF Covers
<1>17. summarized'[p] = s
  BY <1>1 DEF s
<1>18. Kept(p)'
  <2>1. Covers(lastCommit'[p], handed'[p], summarized'[p], unlisted'[p], DueCards(p)')
    BY <1>1, <1>7, <1>15, <1>16, <1>17
  <2>2. ~moved' => Ordered(repo'[p], made', lastCommit'[p], handed'[p], summarized'[p], DueCards(p)')
    BY <1>1, <1>7, <1>12, <1>15, <1>17
  <2> QED BY <2>1, <2>2 DEF Kept, Covers, Ordered
<1>19. ASSUME NEW q \in Keys, q # p PROVE Kept(q)'
  <2>1. Kept(q) /\ DueCards(q)' = DueCards(q)
    BY <1>6, <1>8, <1>19 DEF CommitInv
  <2> QED BY <1>1, <1>15, <1>19, <2>1, KeptStill
<1>20. \A q \in Keys : Kept(q)'
  BY <1>18, <1>19
<1> QED BY <1>14, <1>20 DEF CommitInv

\* All other steps.
LEMMA CommitOther ==
    ASSUME PlaceInv, CommitInv,
           \/ PollUnmoved \/ PollPut \/ PollItem \/ TopicItem \/ TopicCount \/ PollStart
           \/ PumpOut \/ Handle \/ Timers \/ Eof \/ Connect \/ ConnectFails \/ Heartbeat \/ World
           \/ UNCHANGED vars
    PROVE  CommitInv'
<1>1. pc \in Points
  BY DEF PlaceInv, Placed
<1>2. ASSUME NEW i PROVE {Loop.at, SetTopic(i).at, Poll(i).at} \cap Polling = {}
  BY DEF Loop, SetTopic, Poll, Polling
<1>3. CASE PollUnmoved \/ PollStart
  <2>1. pc.at \notin Polling /\ \E i : pc' = Poll(i)
    BY <1>3 DEF PollUnmoved, PollStart, At, Polling
  <2> QED BY <1>2, <1>3, <2>1, CommitStill DEF PollUnmoved, PollStart, memory, inventoryVars, repoVars
<1>4. CASE PollPut
  <2>1. pc.at \in Polling /\ pc'.at \in Polling /\ pc'.i = pc.i /\ pc'.cards = pc.cards
    BY <1>1, <1>4 DEF PollPut, At, Polling, Points
  <2> QED BY <1>4, <2>1, CommitStill DEF PollPut, Put, memory, repoVars
<1>5. CASE PollItem
  <2>1. pc.at \in Polling /\ pc'.at \in Polling /\ pc'.i = pc.i /\ pc'.cards = pc.cards
    BY <1>1, <1>5 DEF PollItem, At, Polling, Points
  <2> QED BY <1>5, <2>1, CommitStill DEF PollItem, memory, inventoryVars, repoVars
<1>6. CASE TopicItem
  <2>1. pc.at \notin Polling /\ pc'.at \notin Polling
    BY <1>1, <1>6 DEF TopicItem, At, Polling, Points
  <2> QED BY <1>6, <2>1, CommitStill DEF TopicItem, memory, repoVars
<1>7. CASE TopicCount
  <2>1. pc.at \notin Polling
    BY <1>7 DEF TopicCount, At, Polling
  <2>2. pc' = AfterTopic \/ pc'.at = "topic item"
    BY <1>1, <1>7 DEF TopicCount, Points
  <2>3. pc'.at \notin Polling
    <3>1. AfterTopic.at \notin Polling
      BY <1>2 DEF AfterTopic
    <3>2. "topic item" \notin Polling
      BY DEF Polling
    <3> QED BY <2>2, <3>1, <3>2
  <2> QED BY <1>7, <2>1, <2>3, CommitStill DEF TopicCount, memory, repoVars
<1>8. CASE PumpOut \/ Wait \/ Keepalive \/ CapTimeout \/ ConnectFails
  BY <1>8, CommitStill DEF PumpOut, Wait, Keepalive, CapTimeout, ConnectFails, memory, inventoryVars, repoVars
<1>9. CASE ReadTimeout \/ Eof
  <2>1. pc' = [Loop EXCEPT !.at = "backoff"] /\ pc.at = "loop"
    BY <1>9 DEF ReadTimeout, Eof, Leave, At
  <2>2. pc.at \notin Polling /\ pc'.at \notin Polling
    BY <2>1 DEF Loop, Polling
  <2> QED BY <1>9, <2>2, CommitStill DEF ReadTimeout, Eof, Leave, memory, inventoryVars, repoVars
<1>10. CASE Connect
  <2>1. pc' = Loop /\ pc.at = "backoff"
    BY <1>10 DEF Connect, At
  <2>2. pc.at \notin Polling /\ pc'.at \notin Polling
    BY <2>1 DEF Loop, Polling
  <2> QED BY <1>10, <2>2, CommitStill DEF Connect, memory, inventoryVars, repoVars
<1>11. CASE Heartbeat
  <2>1. pc' = SetTopic(0) /\ pc.at = "loop"
    BY <1>11 DEF Heartbeat, At
  <2>2. pc.at \notin Polling /\ pc'.at \notin Polling
    BY <2>1 DEF SetTopic, Loop, Polling
  <2> QED BY <1>11, <2>2, CommitStill DEF Heartbeat, memory, repoVars
<1>12. CASE World
  BY <1>12, CommitStill DEF World, Break, GhostLeaves, RegistrationTimeout, Kick, ServerPing, UserAsks,
                            WorldOnly, memory, repoVars
<1>13. CASE UNCHANGED vars
  BY <1>13, CommitStill DEF vars, memory, inventoryVars, repoVars
<1>14. CASE Handle
  <2> DEFINE m == Head(net.inp)
  <2>1. UNCHANGED <<inventoryVars, memory>> /\ (pc' = pc \/ pc' = SetTopic(0)) /\ pc.at = "loop"
    <3>1. CASE HandleCapLs(m) \/ HandleCapAck(m) \/ HandleCapNak(m)
      BY <1>14, <3>1 DEF Handle, At, Elsewhere, HandleCapLs, HandleCapAck, HandleCapNak
    <3>2. CASE HandleAuthenticate(m) \/ HandleSaslResult(m) \/ HandleNickInUse(m)
      BY <1>14, <3>2 DEF Handle, At, Elsewhere, HandleAuthenticate, HandleSaslResult, HandleNickInUse
    <3>3. CASE HandleWelcome(m) \/ HandleKick(m) \/ HandlePing(m)
      BY <1>14, <3>3 DEF Handle, At, Elsewhere, HandleWelcome, HandleKick, HandlePing
    <3>4. CASE HandleCommand(m) \/ HandleOther(m)
      BY <1>14, <3>4 DEF Handle, At, Elsewhere, HandleCommand, HandleOther
    <3> QED BY <1>14, <3>1, <3>2, <3>3, <3>4 DEF Handle
  <2>2. pc' = pc \/ (pc.at \notin Polling /\ pc'.at \notin Polling)
    BY <2>1 DEF SetTopic, Loop, Polling
  <2> QED BY <2>1, <2>2, CommitStill DEF memory, inventoryVars, repoVars
<1> QED BY <1>3, <1>4, <1>5, <1>6, <1>7, <1>8, <1>9, <1>10, <1>11, <1>12, <1>13, <1>14 DEF Timers

LEMMA CommitOthers ==
    ASSUME CacheInv, CommitInv, Others
    PROVE  CommitInv'
<1>1. UNCHANGED <<memory, pc>>
  BY DEF Others
<1>2. CASE Repositories
  BY <1>1, <1>2, CommitRepositories
<1>3. CASE Worker
  <2>1. UNCHANGED repoVars
    BY <1>3 DEF Worker, Count, Refresh, CountHead, Store
  <2> QED BY <1>1, <2>1, CommitStill DEF memory, repoVars
<1> QED BY <1>2, <1>3 DEF Others

LEMMA CommitStep ==
    ASSUME CacheInv, PlaceInv, CommitInv, [Next]_vars
    PROVE  CommitInv'
BY CommitHead, CommitCount, CommitCard, CommitOther, CommitOthers DEF Next, Thread, PollStep

LEMMA CommitInit == Init => CommitInv
<1> SUFFICES ASSUME Init PROVE CommitInv
  OBVIOUS
<1>1. /\ repo = [p \in Keys |-> <<>>] /\ lastCommit = repo /\ lastTests = [p \in Keys |-> Pending]
      /\ handed = [p \in Keys |-> <<>>] /\ summarized = [p \in Keys |-> {}]
      /\ unlisted = [p \in Keys |-> {}] /\ pc = [Loop EXCEPT !.at = "backoff"]
  BY DEF Init, InventoryInit
<1>2. CommitTypes
  <2>1. <<>> \in Revisions /\ <<>> \in Seq(Commits)
    BY DEF Revisions
  <2> QED BY <1>1, <2>1 DEF CommitTypes
<1>3. ASSUME NEW p \in Keys PROVE Kept(p)
  <2>1. DueCards(p) = <<>>
    BY <1>1 DEF DueCards, Loop, Polling
  <2>2. repo[p] = <<>> /\ lastCommit[p] = <<>> /\ handed[p] = <<>> /\ summarized[p] = {} /\ unlisted[p] = {}
    BY <1>1
  <2>3. DOMAIN <<>> = {} /\ Len(<<>>) <= Len(<<>>)
    OBVIOUS
  <2>4. Prefix(<<>>, <<>>)
    BY <2>3 DEF Prefix
  <2> QED BY <2>1, <2>2, <2>3, <2>4, NothingDue DEF Kept, Covers, Ordered
<1> QED BY <1>2, <1>3 DEF CommitInv

LEMMA BotCommitInvariant == Spec => [](CacheInv /\ PlaceInv /\ CommitInv)
<1>1. CacheInv /\ PlaceInv /\ CommitInv /\ [Next]_vars => CommitInv'
  BY CommitStep
<1> QED BY <1>1, CommitInit, BotLinkInvariant, PTL DEF Spec

\* poll_project: every commit that the bot has passed over had its card handed to
\* announce, was counted in a notice or is about to, unless git failed when they
\* were to be listed; and while no HEAD moves back nothing is handed over twice
\* or out of order.  It is about what is handed over: a link that ends takes
\* cards with it.
THEOREM CommitsAreHandedOver == Spec => []CommitsHandedOver
<1>1. PlaceInv /\ CommitInv => CommitsHandedOver
  <2> SUFFICES ASSUME PlaceInv, CommitInv, NEW p \in Keys
               PROVE  LET due == IF pc.i \in 1..N /\ pc.at \in {"put", "item", "count", "cards"}
                                 THEN IF PROJECTS[pc.i] = p THEN Range(pc.cards) ELSE {} ELSE {} IN
                      /\ Range(lastCommit[p]) \subseteq Range(handed[p]) \cup summarized[p] \cup unlisted[p] \cup due
                      /\ ~moved =>
                          /\ \A i, j \in DOMAIN handed[p] : i < j => handed[p][i] < handed[p][j]
                          /\ Range(handed[p]) \cap summarized[p] = {}
    BY DEF CommitsHandedOver
  <2> DEFINE due == IF pc.i \in 1..N /\ pc.at \in {"put", "item", "count", "cards"}
                    THEN IF PROJECTS[pc.i] = p THEN Range(pc.cards) ELSE {} ELSE {}
  <2>1. Kept(p)
    BY DEF CommitInv
  <2>2. Range(DueCards(p)) = due
    BY NothingDue DEF DueCards, PlaceInv, Placed, Polling
  <2>3. Range(lastCommit[p]) \subseteq Range(handed[p]) \cup summarized[p] \cup unlisted[p] \cup due
    BY <2>1, <2>2 DEF Kept, Covers
  <2>4. ~moved => /\ \A i, j \in DOMAIN handed[p] : i < j => handed[p][i] < handed[p][j]
                  /\ Range(handed[p]) \cap summarized[p] = {}
    BY <2>1, Zenon DEF Kept, Ordered, Rising
  <2> QED BY <2>3, <2>4
<1> QED BY <1>1, BotCommitInvariant, PTL

-----------------------------------------------------------------------------
\* Every variable is a state of the program: the places of the thread and what
\* is in its hands there, the link with what arrives on it, the server's session,
\* the bot's own and its queue, the commits, and the clock of the keepalive.
THEOREM BotTypes == Spec => []TypeOK
<1>1. CacheInv /\ ThreadInv /\ PlaceInv /\ LinkInv /\ ClockInv /\ CommitInv => TypeOK
  <2> SUFFICES ASSUME CacheInv, ThreadInv, PlaceInv, LinkInv, ClockInv, CommitInv PROVE TypeOK
    OBVIOUS
  <2>1. InventoryTypeOK
    BY DEF CacheInv
  <2>2. /\ pc.at \in {"backoff", "loop", "poll", "put", "item", "count", "cards", "topic item", "topic count"}
        /\ pc.i \in 0..(N + 1) /\ pc.t \in 0..N
        /\ pc.segs \in Topics /\ pc.counts \in Counts /\ pc.cards \in Seq(Commits)
    BY DEF PlaceInv, Placed, Points, Stations
  <2>3. pc.cards \in Seq(0..MaxChanges)
    BY <2>2 DEF Commits
  <2>4. At("put") <=> putting # NoKey
    BY DEF ThreadInv
  <2>5. /\ net.link \in {"none", "up", "dead", "eof"} /\ (net.link = "none" <=> At("backoff"))
        /\ net.session \in SessionType(Topics)
    BY DEF LinkInv, Links
  <2>6. session \in [nick : Nat, joined : BOOLEAN, registered : BOOLEAN, capEnded : BOOLEAN,
                     capLs : SUBSET CapNames, lastTopic : Topics]
    BY DEF LinkInv, Fields
  <2>7. \A i \in DOMAIN outq : outq[i].k \in {"PRIVMSG", "REPLY", "JOIN"}
    <3>1. outq \in Seq(Queued) /\ DOMAIN outq = 1..Len(outq)
      BY DEF LinkInv
    <3>2. \A i \in 1..Len(outq) : outq[i] \in Queued
      BY <3>1, ElementOfSeq
    <3>3. \A line \in Queued : line.k \in {"PRIVMSG", "REPLY", "JOIN"}
      BY DEF Queued, Line
    <3> QED BY <3>1, <3>2, <3>3
  <2>8. introDone \in BOOLEAN /\ backoff \in RECONNECT_MIN..RECONNECT_MAX
    BY DEF LinkInv
  <2>9. clock \in [silence : 0..5, probe : 0..2, polled : BOOLEAN]
    BY DEF ClockInv
  <2>10. /\ lastCommit \in [Keys -> Revisions] /\ lastTests \in [Keys -> Revisions \cup {Pending}]
         /\ handed \in [Keys -> Seq(0..MaxChanges)]
         /\ {summarized, unlisted} \subseteq [Keys -> SUBSET (1..MaxChanges)]
    BY DEF CommitInv, CommitTypes, Commits
  <2> QED BY <2>1, <2>2, <2>3, <2>4, <2>5, <2>6, <2>7, <2>8, <2>9, <2>10 DEF TypeOK
<1>2. Spec => []ThreadInv
  <2>1. ThreadInv /\ [Next]_vars => ThreadInv'
    BY BotStep
  <2>2. Init => ThreadInv
    BY BotInit
  <2> QED BY <2>1, <2>2, PTL DEF Spec
<1> QED BY <1>1, <1>2, BotClockInvariant, BotCommitInvariant, PTL

=============================================================================
