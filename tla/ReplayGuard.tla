---------------------------- MODULE ReplayGuard -----------------------------
(***************************************************************************)
(* The daemon's one RVG2 guard over its life.  Events arrive in any order, *)
(* repeated, and signed twice for one clock value.  A hot upgrade seals    *)
(* the guard into a capsule under the replay lock; the successor adopts    *)
(* the capsule, or the upgrade is abandoned and the predecessor runs on.   *)
(***************************************************************************)
EXTENDS ReplayWindow

CONSTANTS Origins,      \* full public keys of the authors
          Hlcs,         \* hybrid logical clock values
          RelayIds,     \* identities derived from authenticated transcripts
          NoCapsule,    \* no upgrade is in progress
          Damaged       \* a capsule whose checksum fails

ASSUME GuardAssumption == Hlcs \subseteq Nat

VARIABLES
    guard,       \* Guard.origins
    capsule,     \* the sealed RVG2 image of an upgrade in progress
    accepted,    \* history: every event ever accepted
    deliveries   \* history: how often each (origin, hlc) was accepted

vars == <<guard, capsule, accepted, deliveries>>

Events == [origin : Origins, hlc : Hlcs, id : RelayIds]

\* The upgrade holds the replay lock from the seal to its end.
Locked == capsule # NoCapsule

Init ==
    /\ guard = EmptyGuard
    /\ capsule = NoCapsule
    /\ accepted = {}
    /\ deliveries = [o \in Origins |-> [h \in Hlcs |-> 0]]

Deliver(e) ==
    /\ accepted' = accepted \cup {e}
    /\ deliveries' = [deliveries EXCEPT ![e.origin][e.hlc] = @ + 1]

\* Slip: an event is admitted behind the seal, outside the replay lock.
AdmitBehindSeal(e) ==
    /\ guard' = Admitted(guard, e.origin, e.hlc, e.id)
    /\ IF Verdict(guard, e.origin, e.hlc, e.id) = "accepted"
       THEN Deliver(e) ELSE UNCHANGED <<accepted, deliveries>>
    /\ UNCHANGED capsule

\* Guard.admitMessage of a verified message; only `accepted` is delivered.
AdmitMessage(e) ==
    /\ ~Locked
    /\ guard' = Admitted(guard, e.origin, e.hlc, e.id)
    /\ IF Verdict(guard, e.origin, e.hlc, e.id) = "accepted"
       THEN Deliver(e) ELSE UNCHANGED <<accepted, deliveries>>
    /\ UNCHANGED capsule

\* The upgrade takes the replay lock and calls Guard.encodeCheckpoint.
Seal ==
    /\ ~Locked
    /\ Sealable(guard)
    /\ capsule' = Encode(guard)
    /\ UNCHANGED <<guard, accepted, deliveries>>

\* The capsule is damaged on its way: its checksum fails from here on.
Corrupt ==
    /\ Locked
    /\ capsule' = Damaged
    /\ UNCHANGED <<guard, accepted, deliveries>>

\* Guard.replaceFromCheckpoint in the successor.
Adopt ==
    /\ Locked
    /\ capsule # Damaged
    /\ ImageValid(capsule)
    /\ guard' = Decode(capsule)
    /\ capsule' = NoCapsule
    /\ UNCHANGED <<accepted, deliveries>>

\* The upgrade is given up, as it must be when the capsule is refused: every
\* failure of replaceFromCheckpoint leaves the live guard as it was.
Abandon ==
    /\ Locked
    /\ capsule' = NoCapsule
    /\ UNCHANGED <<guard, accepted, deliveries>>

Next ==
    \/ \E e \in Events : AdmitMessage(e)
    \/ Seal
    \/ Corrupt
    \/ Adopt
    \/ Abandon

Spec == Init /\ [][Next]_vars

-----------------------------------------------------------------------------

Entry == [hlc : Hlcs, id : RelayIds]
OriginState == [retired : Hlcs \cup {NoWatermark}, entries : SUBSET Entry]

\* The type invariant.
TypeOK ==
    /\ DOMAIN guard \subseteq Origins
    /\ guard \in [DOMAIN guard -> OriginState]
    /\ capsule \in {NoCapsule, Damaged, Encode(guard)}
    /\ accepted \subseteq Events
    /\ deliveries \in [Origins -> [Hlcs -> Nat]]

\* A clock value of an author is accepted at most once over the whole life of
\* the guard (Guard.admit, admitKnown): not again after its pair was evicted,
\* not with another identity, not after an upgrade.
AtMostOnce == \A o \in Origins, h \in Hlcs : deliveries[o][h] <= 1

\* The (hlc, id) pairs that were ever accepted from an author.
History(o) == {[hlc |-> a.hlc, id |-> a.id] : a \in {b \in accepted : b.origin = o}}

\* A window is exactly the part of the author's accepted history above the
\* watermark, at most W pairs of it, and W of them once anything was retired.
IsGreatestWindow(st, history) ==
    /\ st.entries = {p \in history : p.hlc > st.retired}
    /\ IsFiniteSet(st.entries)
    /\ Cardinality(st.entries) \in 1..WindowSize
    /\ st.retired # NoWatermark => Cardinality(st.entries) = WindowSize

\* Every window is the greatest part of what was accepted ("retains the
\* greatest W (hlc, relay_id) pairs"), whatever the order of arrival.
GreatestWindow == \A o \in DOMAIN guard : IsGreatestWindow(guard[o], History(o))

\* A `duplicate` probe proves that this exact event was accepted before, so
\* the daemon may acknowledge it again without asking policy (probeMessage).
DuplicateIsProof ==
    \A e \in Events :
      Probe(guard, e.origin, e.hlc, e.id) = "duplicate" => e \in accepted

\* An accepted event never looks new again, nor like an equivocation.
AcceptedIsRemembered ==
    \A e \in accepted :
      Probe(guard, e.origin, e.hlc, e.id) \in {"duplicate", "retired"}

\* The inductive strengthening of AtMostOnce: what was counted is in the
\* history, the history has one event for a clock value, and the history of
\* an author the guard does not know is empty.
OneHistory ==
    /\ \A o \in Origins, h \in Hlcs :
         deliveries[o][h] # 0 => \E p \in History(o) : p.hlc = h
    /\ \A e, f \in accepted : e.origin = f.origin /\ e.hlc = f.hlc => e = f
    /\ \A e \in accepted : e.origin \in DOMAIN guard

GuardInv == TypeOK /\ GreatestWindow /\ OneHistory /\ AtMostOnce

\* Every guard that admission can build is one that encodeCheckpoint writes
\* and that decodeCheckpoint takes back unchanged.
EveryStateSeals ==
    /\ Sealable(guard)
    /\ ImageValid(Encode(guard))
    /\ Decode(Encode(guard)) = guard

\* No step, an adoption included, forgets an origin or lowers its watermark.
WatermarkNeverFalls ==
    [][\A o \in DOMAIN guard :
          o \in DOMAIN guard' /\ guard'[o].retired >= guard[o].retired]_vars

=============================================================================
