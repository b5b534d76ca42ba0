--------------------------- MODULE InventoryCache ---------------------------
(***************************************************************************)
(* The build inventory of tools/announce_bot.py: a worker thread that      *)
(* measures the watched repositories, the queue of requests in front of it *)
(* and the snapshots that the IRC thread reads.                            *)
(*                                                                         *)
(* A revision is its own history: the sequence of its commits, oldest      *)
(* first, each commit a number that is never used again.  A count of       *)
(* modules, tests or lines is known only by the revision of the tree that  *)
(* was counted.  People commit to the repositories and move their HEAD     *)
(* back while all this runs.                                               *)
(*                                                                         *)
(* The lock of the cache is held for one read or write of _items and       *)
(* _queued; a key joins _queued under the lock and the queue after it.     *)
(***************************************************************************)
EXTENDS Naturals, Sequences, Functions

CONSTANTS PROJECTS,     \* the watched projects, in their order
          NoKey,        \* no project
          MaxChanges,   \* bound: times a HEAD moves, forward or back
          Mishaps,      \* what may go wrong: "command" is a git call or count that fails
          MaxMishaps,   \* bound: how often something goes wrong
          Refreshes     \* whether the queue may stay empty for its 60 s

Keys == Range(PROJECTS)

ASSUME ProjectsAssumption ==
    /\ PROJECTS \in Seq(Keys) \ {<<>>} /\ IsInjective(PROJECTS)
    /\ NoKey \notin Keys
    /\ MaxChanges \in Nat /\ MaxMishaps \in Nat
    /\ Refreshes \in BOOLEAN

VARIABLES repo,      \* HEAD of each repository
          made,      \* changes made so far
          moved,     \* whether one of them moved a HEAD back
          mishaps,   \* what went wrong so far
          items,     \* InventoryCache._items
          queued,    \* InventoryCache._queued
          requests,  \* InventoryCache._requests
          worker,    \* where the worker thread is
          putting    \* the key that the IRC thread has marked and not yet put

repoVars  == <<repo, made, moved>>
cacheVars == <<items, queued, requests, worker, putting>>
inventoryVars == <<repoVars, mishaps, cacheVars>>

\* What a failing command returns, and a snapshot that nothing measured yet.
\* No history has commit 0.
Failed  == <<0>>
Pending == <<0, 0>>

Revisions == Seq(1..MaxChanges)
Counts    == Revisions \cup {Failed, Pending}

BuildInventory == [counts |-> Pending, head |-> Failed]

InventoryTypeOK ==
    /\ repo \in [Keys -> Revisions]
    /\ made \in 0..MaxChanges /\ moved \in BOOLEAN
    /\ mishaps \in 0..MaxMishaps
    /\ items \in [Keys -> [counts : Counts, head : Counts]]
    /\ queued \subseteq Keys
    /\ requests \in Seq(Keys)
    /\ worker \in [at : {"idle", "refresh", "head", "store"},
                   key : Keys \cup {NoKey}, next : 1..Len(PROJECTS),
                   counts : Counts, head : Counts]
    /\ putting \in Keys \cup {NoKey}

-----------------------------------------------------------------------------
\* The repositories.

Change == made < MaxChanges /\ made' = made + 1

Commit(p) ==
    /\ Change
    /\ repo' = [repo EXCEPT ![p] = Append(@, made')]
    /\ UNCHANGED <<moved, mishaps, cacheVars>>

MoveBack(p) ==
    /\ Change /\ repo[p] # <<>>
    /\ repo' = [repo EXCEPT ![p] = SubSeq(@, 1, Len(@) - 1)]
    /\ moved' = TRUE
    /\ UNCHANGED <<mishaps, cacheVars>>

-----------------------------------------------------------------------------
\* The cache.  The project asked for by the IRC thread.

\* Slip: a project is asked for whether it is marked or not.
RequestAgain(p) == queued' = queued \cup {p} /\ putting' = p

Request(p) ==
    IF p \in queued THEN UNCHANGED <<queued, putting>>
    ELSE queued' = queued \cup {p} /\ putting' = p

Put ==
    /\ putting # NoKey
    /\ requests' = Append(requests, putting)
    /\ putting' = NoKey
    /\ UNCHANGED <<repoVars, mishaps, items, queued, worker>>

\* The worker.  Nobody else takes from the queue, so its own requests can be
\* marked and put in one step.

Idle == [at |-> "idle", key |-> NoKey, next |-> 1, counts |-> Pending, head |-> Failed]

Mishap(m) == m \in Mishaps /\ mishaps < MaxMishaps /\ mishaps' = mishaps + 1

\* A git call or a count of the tree, of whichever thread.
Measured(p, r) ==
    \/ r = repo[p] /\ UNCHANGED mishaps
    \/ r = Failed /\ Mishap("command")

\* The next request; collect_inventory counts the tree first and asks for
\* HEAD afterwards.
Count ==
    /\ worker.at = "idle" /\ requests # <<>>
    /\ LET p == Head(requests) IN
       \E r \in {repo[p], Failed} :
          /\ Measured(p, r)
          /\ worker' = [Idle EXCEPT !.at = "head", !.key = p, !.counts = r]
    /\ requests' = Tail(requests)
    /\ UNCHANGED <<repoVars, items, queued, putting>>

\* When Queue.get has waited for 60 s, every project is asked for in turn.
Refresh ==
    /\ \/ Refreshes /\ worker.at = "idle" /\ requests = <<>>
       \/ worker.at = "refresh"
    /\ LET p == PROJECTS[worker.next] IN
       /\ queued' = queued \cup {p}
       /\ requests' = IF p \in queued THEN requests ELSE Append(requests, p)
    /\ worker' = IF worker.next = Len(PROJECTS) THEN Idle
                 ELSE [worker EXCEPT !.at = "refresh", !.next = @ + 1]
    /\ UNCHANGED <<repoVars, mishaps, items, putting>>

CountHead ==
    /\ worker.at = "head"
    /\ \E r \in {repo[worker.key], Failed} :
          /\ Measured(worker.key, r)
          /\ worker' = [worker EXCEPT !.at = "store", !.head = r]
    /\ UNCHANGED <<repoVars, items, queued, requests, putting>>

\* Slip: the key stays marked.
StoreMarked ==
    /\ worker.at = "store"
    /\ items' = [items EXCEPT ![worker.key] = [counts |-> worker.counts, head |-> worker.head]]
    /\ worker' = Idle
    /\ UNCHANGED <<repoVars, mishaps, queued, requests, putting>>

Store ==
    /\ worker.at = "store"
    /\ items' = [items EXCEPT ![worker.key] = [counts |-> worker.counts, head |-> worker.head]]
    /\ queued' = queued \ {worker.key}
    /\ worker' = Idle
    /\ UNCHANGED <<repoVars, mishaps, requests, putting>>

-----------------------------------------------------------------------------
\* start asks for every project before anything else runs.
InventoryInit ==
    /\ repo = [p \in Keys |-> <<>>]
    /\ made = 0 /\ moved = FALSE /\ mishaps = 0
    /\ items = [p \in Keys |-> BuildInventory]
    /\ queued = Keys
    /\ requests = PROJECTS
    /\ worker = Idle
    /\ putting = NoKey

Repositories == \E p \in Keys : Commit(p) \/ MoveBack(p)
Worker == Count \/ Refresh \/ CountHead \/ Store

\* The cache with a thread that asks for any project at any time, and that may
\* meet mishaps of its own.
Luck == UNCHANGED mishaps \/ \E m \in Mishaps : Mishap(m)

Ask(p) ==
    /\ putting = NoKey
    /\ Request(p)
    /\ Luck
    /\ UNCHANGED <<repoVars, items, requests, worker>>

Apart == Luck /\ UNCHANGED <<repoVars, cacheVars>>

CacheNext == Repositories \/ Worker \/ Put \/ (\E p \in Keys : Ask(p)) \/ Apart
CacheSpec == InventoryInit /\ [][CacheNext]_inventoryVars

-----------------------------------------------------------------------------
\* What inventory_status compares with HEAD: no result of git is Pending.
StatusHead(item) == IF item.counts = Pending THEN Pending ELSE item.head

\* The worker holds a key exactly while it measures.
HandsFull == worker.key = NoKey <=> worker.at \in {"idle", "refresh"}

\* Each project is asked for at most once: a marked key is in exactly one
\* place, the queue, the hands of the worker or those of the thread that is
\* about to put it, and nothing else is.  A key that was marked and is in none
\* of them would never be measured again; a key that is in two of them would
\* pile up requests behind a slow count.
SingleFlight ==
    LET inHand == {worker.key, putting} \ {NoKey} IN
    /\ queued = Range(requests) \cup inHand
    /\ Range(requests) \cap inHand = {}
    /\ worker.key = putting => putting = NoKey
    /\ IsInjective(requests)

=============================================================================
