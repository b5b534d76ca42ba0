---------------------------- MODULE ReplayWindow ----------------------------
(***************************************************************************)
(* The replay and equivocation authority RVG2                              *)
(* (src/daemon/relay_v2_replay_guard.zig) as a value: a guard maps every   *)
(* origin it knows to a window of retained (hlc, id) pairs and a permanent *)
(* watermark.  The window is the set of the pairs of the code's ascending  *)
(* array; ReplayArray models the array itself and refines this module.     *)
(*                                                                         *)
(* Here and in the other modules an operator whose comment begins with     *)
(* "Slip:" is a plausible mistake in the definition that follows it.  It   *)
(* is used only to confirm that a property notices the mistake.            *)
(***************************************************************************)
EXTENDS Integers, FiniteSets, FiniteSetsExt

CONSTANTS WindowSize,   \* config.window_size
          MaxOrigins,   \* config.max_origins
          MaxImageBytes \* hard_max_checkpoint_bytes

ASSUME WindowAssumption == /\ WindowSize \in Nat \ {0}
                           /\ MaxOrigins \in Nat \ {0}
                           /\ MaxImageBytes \in Nat

\* retired_through_hlc == null.  Every HLC is a natural, so the code's two
\* tests "is there a watermark" and "hlc <= watermark" are one test.
NoWatermark == -1

EmptyGuard == [o \in {} |-> {}]

NewOrigin(hlc, id) == [retired |-> NoWatermark, entries |-> {[hlc |-> hlc, id |-> id]}]

\* Slip: eviction does not move the rejection boundary.
StuckWatermark(w, hlc) == w

\* Slip: the boundary stops one short of the evicted event.
ShortWatermark(w, hlc) == IF hlc > w + 1 THEN hlc - 1 ELSE w

AdvanceWatermark(w, hlc) == IF hlc > w THEN hlc ELSE w

Oldest(entries) == CHOOSE e \in entries : \A f \in entries : e.hlc <= f.hlc

\* Slip: the window is allowed one entry too many.
FullOneLate(st) == Cardinality(st.entries) > WindowSize

Full(st) == Cardinality(st.entries) >= WindowSize

OlderThanAll(st, hlc) == \A e \in st.entries : hlc < e.hlc

\* Slip: an equal clock is taken for an equal event.
KnowledgeByClock(st, hlc, id) ==
    IF hlc <= st.retired THEN "retired"
    ELSE IF \E e \in st.entries : e.hlc = hlc THEN "duplicate" ELSE "unseen"

\* Slip: only the pair is looked for, a second identity for a clock is new.
KnowledgeByPair(st, hlc, id) ==
    IF hlc <= st.retired THEN "retired"
    ELSE IF [hlc |-> hlc, id |-> id] \in st.entries THEN "duplicate" ELSE "unseen"

\* What the window knows of an event: the tests that both admitKnown and
\* probeMessage make, in their order.
Knowledge(st, hlc, id) ==
    IF hlc <= st.retired THEN "retired"
    ELSE IF \A e \in st.entries : e.hlc # hlc THEN "unseen"
    ELSE IF [hlc |-> hlc, id |-> id] \in st.entries THEN "duplicate"
    ELSE "equivocation"

\* Guard.admitKnown: the decision ...
Decision(st, hlc, id) ==
    IF Knowledge(st, hlc, id) # "unseen" THEN Knowledge(st, hlc, id)
    ELSE IF Full(st) /\ OlderThanAll(st, hlc) THEN "retired"
    ELSE "accepted"

\* ... and the origin state it leaves.  A full window retires an event older
\* than all it holds, and otherwise retires its oldest to make room.
AfterAdmit(st, hlc, id) ==
    LET new    == [hlc |-> hlc, id |-> id]
        oldest == Oldest(st.entries)
        unseen == Knowledge(st, hlc, id) = "unseen"
    IN  CASE ~unseen -> st
          [] unseen /\ ~Full(st) -> [st EXCEPT !.entries = @ \cup {new}]
          [] unseen /\ Full(st) /\ OlderThanAll(st, hlc) ->
               [st EXCEPT !.retired = AdvanceWatermark(@, hlc)]
          [] unseen /\ Full(st) /\ ~OlderThanAll(st, hlc) ->
               [retired |-> AdvanceWatermark(st.retired, oldest.hlc),
                entries |-> (st.entries \ {oldest}) \cup {new}]

Knows(g, o) == o \in DOMAIN g

SetOrigin(g, o, st) == [p \in DOMAIN g \cup {o} |-> IF p = o THEN st ELSE g[p]]

\* Guard.admit: the decision ...
Verdict(g, o, hlc, id) ==
    IF Knows(g, o) THEN Decision(g[o], hlc, id)
    ELSE IF Cardinality(DOMAIN g) >= MaxOrigins THEN "origin_capacity"
    ELSE "accepted"

\* ... and the guard it leaves.
Admitted(g, o, hlc, id) ==
    IF Knows(g, o) THEN SetOrigin(g, o, AfterAdmit(g[o], hlc, id))
    ELSE IF Cardinality(DOMAIN g) >= MaxOrigins THEN g
    ELSE SetOrigin(g, o, NewOrigin(hlc, id))

\* Guard.probeMessage of an authenticated message: it changes nothing.
Probe(g, o, hlc, id) == IF Knows(g, o) THEN Knowledge(g[o], hlc, id) ELSE "unseen"

-----------------------------------------------------------------------------
(* Checkpoints *)

\* The sizes that encodeCheckpoint adds up: the header and the checksum, an
\* origin prefix (key, presence byte, watermark, count) and an entry.
FrameBytes  == 19 + 32
OriginBytes == 32 + 1 + 8 + 2
EntryBytes  == 8 + 16

ImageBytes(g) ==
    FrameBytes + SumFunction([o \in DOMAIN g |-> OriginBytes
                                                 + EntryBytes * Cardinality(g[o].entries)])

\* What encodeCheckpoint refuses to write.
Sealable(g) == /\ Cardinality(DOMAIN g) <= MaxOrigins
               /\ \A o \in DOMAIN g : Cardinality(g[o].entries) \in 1..WindowSize
               /\ ImageBytes(g) <= MaxImageBytes

\* Slip: no presence byte, a zero watermark reads back as none.
EncodeZeroIsNone(g) ==
    [o \in DOMAIN g |-> [present |-> g[o].retired > 0,
                         raw     |-> IF g[o].retired > 0 THEN g[o].retired ELSE 0,
                         entries |-> g[o].entries]]

\* Guard.encodeCheckpoint: the presence byte is written beside the raw value.
Encode(g) ==
    [o \in DOMAIN g |-> [present |-> g[o].retired # NoWatermark,
                         raw     |-> IF g[o].retired = NoWatermark THEN 0 ELSE g[o].retired,
                         entries |-> g[o].entries]]

\* The semantic checks of validateCheckpoint and Guard.decodeCheckpoint.
ImageValid(image) ==
    /\ Cardinality(DOMAIN image) <= MaxOrigins
    /\ \A o \in DOMAIN image :
         LET st == image[o]
         IN  /\ ~st.present => st.raw = 0
             /\ Cardinality(st.entries) \in 1..WindowSize
             /\ st.present => \A e \in st.entries : e.hlc > st.raw
             /\ \A e, f \in st.entries : e.hlc = f.hlc => e = f

Decode(image) ==
    [o \in DOMAIN image |-> [retired |-> IF image[o].present THEN image[o].raw ELSE NoWatermark,
                             entries |-> image[o].entries]]

=============================================================================
