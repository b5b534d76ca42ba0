----------------------------- MODULE ReplayStore -----------------------------
(***************************************************************************)
(* The live guard of ReplayGuard next to the arrays that store it, the     *)
(* entries of each author in ascending order: what the array code of       *)
(* ReplayArray answers and leaves behind for the next event, in every      *)
(* state that admissions, evictions and upgrades reach.                    *)
(***************************************************************************)
EXTENDS ReplayGuard

LOCAL INSTANCE SequencesExt

\* OriginState.entries of an author.
Ascending(entries) == SetToSortSeq(entries, LAMBDA a, b : a.hlc < b.hlc)

\* Guard.origins as it is stored.
Stored == [o \in DOMAIN guard |-> [retired |-> guard[o].retired,
                                   entries |-> Ascending(guard[o].entries)]]

Array == INSTANCE ReplayArray WITH arrays <- Stored

\* Bisection and both shifts (lowerBound, insertAssumeCapacity, the replacement
\* of the oldest entry in admitKnown) give for every event the decision of the
\* guard over sets, and the arrays of its next state, in order again.
ArraysAgree ==
    \A e \in Events :
        LET r    == Array!Admit(Stored, e.origin, e.hlc, e.id)
            next == Admitted(guard, e.origin, e.hlc, e.id)
        IN  /\ r.decision = Verdict(guard, e.origin, e.hlc, e.id)
            /\ DOMAIN r.guard = DOMAIN next
            /\ \A o \in DOMAIN next :
                 r.guard[o] = [retired |-> next[o].retired, entries |-> Ascending(next[o].entries)]

=============================================================================
