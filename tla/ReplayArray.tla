----------------------------- MODULE ReplayArray -----------------------------
(***************************************************************************)
(* The guard as the code stores it: per author an ascending array searched *)
(* by bisection, into which an event is inserted by shifting.  Indices are *)
(* the code's (from 0); the entry at index i is entries[i + 1].  The array *)
(* guard implements ReplayGuard under the mapping of an array to the set   *)
(* of its entries.                                                         *)
(***************************************************************************)
EXTENDS Integers, Sequences, FiniteSets

CONSTANTS WindowSize, MaxOrigins, MaxImageBytes,
          Origins, Hlcs, RelayIds, NoCapsule, Damaged

VARIABLES arrays,      \* Guard.origins, each with its array of entries
          capsule, accepted, deliveries

vars == <<arrays, capsule, accepted, deliveries>>

Range(s) == {s[i] : i \in DOMAIN s}

AsSet(st) == [retired |-> st.retired, entries |-> Range(st.entries)]

\* ReplayGuard over the sets of the arrays' entries.
Set == INSTANCE ReplayGuard WITH guard <- [o \in DOMAIN arrays |-> AsSet(arrays[o])]

\* Slip: the bisection keeps the middle entry when it is not below the key.
LowerBoundPast(entries, hlc) ==
    LET bisect[r \in (0..Len(entries)) \X (0..Len(entries))] ==
          LET lo  == r[1]
              hi  == r[2]
              mid == lo + (hi - lo) \div 2
          IN  IF lo >= hi THEN lo
              ELSE IF entries[mid + 1].hlc <= hlc THEN bisect[<<mid + 1, hi>>]
              ELSE bisect[<<lo, mid>>]
    IN  bisect[<<0, Len(entries)>>]

\* lowerBound: the first index whose entry is not below hlc, by bisection.
LowerBound(entries, hlc) ==
    LET bisect[r \in (0..Len(entries)) \X (0..Len(entries))] ==
          LET lo  == r[1]
              hi  == r[2]
              mid == lo + (hi - lo) \div 2
          IN  IF lo >= hi THEN lo
              ELSE IF entries[mid + 1].hlc < hlc THEN bisect[<<mid + 1, hi>>]
              ELSE bisect[<<lo, mid>>]
    IN  bisect[<<0, Len(entries)>>]

\* insertAssumeCapacity: the entries from index on move one place up.
Insert(entries, index, e) ==
    SubSeq(entries, 1, index) \o <<e>> \o SubSeq(entries, index + 1, Len(entries))

\* Slip: after the shift down the event is put where it was to go before it.
ReplaceOldestUnshifted(entries, index, e) ==
    LET down == Tail(entries) \o <<entries[Len(entries)]>>
    IN  [i \in DOMAIN entries |-> IF i = index + 1 THEN e ELSE down[i]]

\* The full window's in-place replacement: all entries move one place down
\* (copyForwards; the last is now there twice), those from index - 1 on move
\* back up, and the event takes the place at index - 1.
ReplaceOldest(entries, index, e) ==
    LET down == Tail(entries) \o <<entries[Len(entries)]>>
        at   == index - 1
    IN  [i \in DOMAIN entries |-> IF i = at + 1 THEN e
                                  ELSE IF i > at + 1 THEN down[i - 1] ELSE down[i]]

Advance(w, hlc) == IF w = -1 \/ hlc > w THEN hlc ELSE w

\* Guard.admitKnown, statement by statement: its decision and its new state.
AdmitKnown(st, hlc, id) ==
    LET index == LowerBound(st.entries, hlc)
        new   == [hlc |-> hlc, id |-> id]
        found == index < Len(st.entries) /\ st.entries[index + 1].hlc = hlc
        room  == Len(st.entries) < WindowSize
    IN  IF st.retired # -1 /\ hlc <= st.retired
          THEN [decision |-> "retired", state |-> st]
        ELSE IF found
          THEN [decision |-> IF st.entries[index + 1].id = id THEN "duplicate" ELSE "equivocation",
                state    |-> st]
        ELSE IF room
          THEN [decision |-> "accepted", state |-> [st EXCEPT !.entries = Insert(@, index, new)]]
        ELSE IF index = 0
          THEN [decision |-> "retired", state |-> [st EXCEPT !.retired = Advance(@, hlc)]]
        ELSE [decision |-> "accepted",
              state    |-> [retired |-> Advance(st.retired, st.entries[1].hlc),
                            entries |-> ReplaceOldest(st.entries, index, new)]]

\* Guard.admit.
Admit(g, o, hlc, id) ==
    IF o \in DOMAIN g
      THEN LET r == AdmitKnown(g[o], hlc, id)
           IN  [decision |-> r.decision, guard |-> [g EXCEPT ![o] = r.state]]
    ELSE IF Cardinality(DOMAIN g) >= MaxOrigins
      THEN [decision |-> "origin_capacity", guard |-> g]
    ELSE [decision |-> "accepted",
          guard    |-> [p \in DOMAIN g \cup {o} |->
                          IF p = o THEN [retired |-> -1, entries |-> <<[hlc |-> hlc, id |-> id]>>]
                                   ELSE g[p]]]

Init ==
    /\ arrays = [o \in {} |-> {}]
    /\ capsule = NoCapsule
    /\ accepted = {}
    /\ deliveries = [o \in Origins |-> [h \in Hlcs |-> 0]]

AdmitMessage(e) ==
    LET r == Admit(arrays, e.origin, e.hlc, e.id)
    IN  /\ capsule = NoCapsule
        /\ arrays' = r.guard
        /\ IF r.decision = "accepted" THEN Set!Deliver(e) ELSE UNCHANGED <<accepted, deliveries>>
        /\ UNCHANGED capsule

Next == \E e \in Set!Events : AdmitMessage(e)

Spec == Init /\ [][Next]_vars

-----------------------------------------------------------------------------

\* The type invariant, with the order that bisection and both shifts rely on:
\* every array is strictly ascending by clock value.
TypeOK ==
    /\ Set!TypeOK
    /\ \A o \in DOMAIN arrays :
         LET es == arrays[o].entries
         IN  \A i \in 1..(Len(es) - 1) : es[i].hlc < es[i + 1].hlc

\* Bisection and shifting implement the greatest-W window over a set: every
\* step of the array guard is a step of ReplayGuard.
ImplementsWindow == Set!Spec

=============================================================================
