-------------------------- MODULE ReplayGuardProofs --------------------------
(***************************************************************************)
(* For every window size, every number of authors, clock values and        *)
(* identities: the guard accepts a clock value of an author at most once,  *)
(* its windows are the greatest part of what it accepted, and a checkpoint *)
(* can be written of it whenever the configuration's largest guard fits    *)
(* one.  The array that stores a window, with its bisection and its two    *)
(* shifts, implements the window as a set.                                 *)
(***************************************************************************)
EXTENDS ReplayGuard, SequenceTheorems, DataInduction

-----------------------------------------------------------------------------
(* Lemmas about the window operators. *)

\* A non-empty set of entries has an oldest one, and Oldest finds it.
LEMMA OldestIsLeast ==
    ASSUME NEW S \in SUBSET Entry, S # {}
    PROVE  Oldest(S) \in S /\ \A f \in S : Oldest(S).hlc <= f.hlc
<1> DEFINE clocks == {e.hlc : e \in S}
<1>1. clocks \in SUBSET Nat /\ clocks # {}
  BY GuardAssumption DEF Entry
<1>2. \E m \in clocks : \A n \in clocks : m <= n
  <2> HIDE DEF clocks
  <2> QED BY <1>1, LeastNatural
<1>3. \E e \in S : \A f \in S : e.hlc <= f.hlc
  BY <1>2
<1> QED BY <1>3 DEF Oldest

\* One admission to a known author's window: it stays the greatest part of the
\* history, whether or not the event joins the history; an accepted event has
\* a clock value that is new to the history; the watermark does not fall.
LEMMA AdmitKeepsWindow ==
    ASSUME NEW st \in OriginState, NEW H \in SUBSET Entry,
           NEW hlc \in Hlcs, NEW id \in RelayIds,
           IsGreatestWindow(st, H),
           \A p, q \in H : p.hlc = q.hlc => p = q
    PROVE  LET after == AfterAdmit(st, hlc, id)
               new   == [hlc |-> hlc, id |-> id]
           IN  /\ after \in OriginState
               /\ after.retired >= st.retired
               /\ Decision(st, hlc, id) = "accepted" =>
                    /\ \A q \in H : q.hlc # hlc
                    /\ IsGreatestWindow(after, H \cup {new})
               /\ Decision(st, hlc, id) # "accepted" => IsGreatestWindow(after, H)
<1> DEFINE after  == AfterAdmit(st, hlc, id)
           new    == [hlc |-> hlc, id |-> id]
           oldest == Oldest(st.entries)
<1>0. /\ Hlcs \subseteq Nat /\ WindowSize \in Nat /\ WindowSize >= 1
      /\ st.retired \in Hlcs \cup {-1} /\ st.entries \in SUBSET Entry
      /\ st = [retired |-> st.retired, entries |-> st.entries]
      /\ new \in Entry /\ new.hlc = hlc /\ new.id = id
  BY GuardAssumption, WindowAssumption DEF OriginState, Entry, NoWatermark
<1>1. /\ st.entries = {p \in H : p.hlc > st.retired}
      /\ IsFiniteSet(st.entries)
      /\ Cardinality(st.entries) \in Nat
      /\ Cardinality(st.entries) \in 1..WindowSize
      /\ st.retired # -1 => Cardinality(st.entries) = WindowSize
      /\ st.entries # {}
  BY <1>0, FS_EmptySet, FS_CardinalityType DEF IsGreatestWindow, NoWatermark
<1>2. oldest \in st.entries /\ \A f \in st.entries : oldest.hlc <= f.hlc
  BY <1>0, <1>1, OldestIsLeast
<1>3. CASE Knowledge(st, hlc, id) # "unseen"
  <2>1. after = st /\ Decision(st, hlc, id) # "accepted"
    BY <1>3 DEF AfterAdmit, Decision, Knowledge
  <2> QED BY <1>0, <2>1 DEF OriginState
<1>4. CASE Knowledge(st, hlc, id) = "unseen"
  <2>1. hlc > st.retired /\ \A e \in st.entries : e.hlc # hlc
    BY <1>0, <1>4 DEF Knowledge
  <2>2. \A q \in H : q.hlc # hlc
    BY <1>1, <2>1
  <2>3. new \notin st.entries
    BY <1>0, <2>1
  <2>4. CASE ~Full(st)
    <3>1. after = [retired |-> st.retired, entries |-> st.entries \cup {new}]
      BY <1>0, <1>4, <2>4 DEF AfterAdmit
    <3>2. Decision(st, hlc, id) = "accepted"
      BY <1>4, <2>4 DEF Decision
    <3>3. /\ IsFiniteSet(st.entries \cup {new})
          /\ Cardinality(st.entries \cup {new}) = Cardinality(st.entries) + 1
      BY <1>1, <2>3, FS_AddElement
    <3>4. Cardinality(st.entries) < WindowSize
      BY <1>0, <1>1, <2>4 DEF Full
    <3>5. after.entries = {p \in H \cup {new} : p.hlc > after.retired}
      BY <1>0, <1>1, <2>1, <3>1
    <3>6. IsGreatestWindow(after, H \cup {new})
      BY <1>0, <1>1, <3>1, <3>3, <3>4, <3>5 DEF IsGreatestWindow, NoWatermark
    <3> QED BY <1>0, <2>2, <3>1, <3>2, <3>6 DEF OriginState, NoWatermark
  <2>5. CASE Full(st) /\ OlderThanAll(st, hlc)
    <3>1. after = [retired |-> hlc, entries |-> st.entries]
      BY <1>0, <1>4, <2>1, <2>5 DEF AfterAdmit, AdvanceWatermark
    <3>2. Decision(st, hlc, id) # "accepted"
      BY <1>4, <2>5 DEF Decision
    <3>3. after.entries = {p \in H : p.hlc > after.retired}
      <4>1. \A p \in st.entries : p \in H /\ p.hlc > hlc
        BY <1>0, <1>1, <2>5 DEF OlderThanAll, Entry
      <4>2. \A p \in H : p.hlc > hlc => p \in st.entries
        BY <1>0, <1>1, <2>1 DEF Entry
      <4> QED BY <3>1, <4>1, <4>2
    <3>4. Cardinality(st.entries) = WindowSize
      BY <1>0, <1>1, <2>5 DEF Full
    <3>5. IsGreatestWindow(after, H)
      BY <1>0, <1>1, <3>1, <3>3, <3>4 DEF IsGreatestWindow
    <3> QED BY <1>0, <2>1, <3>1, <3>2, <3>5 DEF OriginState
  <2>6. CASE Full(st) /\ ~OlderThanAll(st, hlc)
    <3>1. oldest.hlc \in Hlcs /\ oldest.hlc > st.retired /\ oldest.hlc < hlc
      <4>1. PICK e \in st.entries : ~(hlc < e.hlc)
        BY <2>6 DEF OlderThanAll
      <4> QED BY <1>0, <1>1, <1>2, <2>1, <4>1 DEF Entry
    <3>2. after = [retired |-> oldest.hlc, entries |-> (st.entries \ {oldest}) \cup {new}]
      BY <1>0, <1>4, <2>6, <3>1 DEF AfterAdmit, AdvanceWatermark
    <3>3. Decision(st, hlc, id) = "accepted"
      BY <1>4, <2>6 DEF Decision
    <3>4. Cardinality(st.entries) = WindowSize
      BY <1>0, <1>1, <2>6 DEF Full
    <3>5. /\ IsFiniteSet(st.entries \ {oldest})
          /\ Cardinality(st.entries \ {oldest}) = WindowSize - 1
      <4> HIDE DEF oldest
      <4>1. /\ IsFiniteSet(st.entries \ {oldest})
            /\ Cardinality(st.entries \ {oldest}) =
                 IF oldest \in st.entries THEN Cardinality(st.entries) - 1
                                          ELSE Cardinality(st.entries)
        BY <1>1, FS_RemoveElement, Zenon
      <4> QED BY <1>0, <1>2, <3>4, <4>1
    <3>6. /\ IsFiniteSet(after.entries)
          /\ Cardinality(after.entries) = WindowSize
      <4>1. new \notin st.entries \ {oldest}
        BY <2>3
      <4> DEFINE rest == st.entries \ {oldest}
      <4> HIDE DEF rest, new
      <4>2. IsFiniteSet(rest \cup {new}) /\ Cardinality(rest \cup {new}) = Cardinality(rest) + 1
        BY <3>5, <4>1, FS_AddElement DEF rest
      <4>3. after.entries = rest \cup {new}
        BY <3>2 DEF rest
      <4> QED BY <1>0, <3>5, <4>2, <4>3 DEF rest
    <3>7. after.entries = {p \in H \cup {new} : p.hlc > after.retired}
      <4>1. \A p \in st.entries \ {oldest} : p \in H /\ p.hlc > oldest.hlc
        BY <1>0, <1>1, <1>2, <3>1 DEF Entry
      <4>2. \A p \in H : p.hlc > oldest.hlc => p \in st.entries \ {oldest}
        BY <1>0, <1>1, <1>2, <3>1 DEF Entry
      <4> QED BY <1>0, <3>1, <3>2, <4>1, <4>2
    <3>8. IsGreatestWindow(after, H \cup {new})
      BY <1>0, <3>2, <3>6, <3>7 DEF IsGreatestWindow
    <3> QED BY <1>0, <1>1, <2>2, <3>1, <3>2, <3>3, <3>8 DEF OriginState
  <2> QED BY <2>4, <2>5, <2>6
<1> QED BY <1>3, <1>4

-----------------------------------------------------------------------------
(* The guard's invariant. *)

\* A sealed guard reads back as it was, in every field.
LEMMA DecodeEncode ==
    ASSUME TypeOK
    PROVE  Decode(Encode(guard)) = guard
<1>1. guard = [o \in DOMAIN guard |-> guard[o]]
  BY DEF TypeOK
<1>2. \A o \in DOMAIN guard :
        guard[o] = [retired |-> guard[o].retired, entries |-> guard[o].entries]
  BY DEF TypeOK, OriginState
<1>3. \A o \in DOMAIN guard : Decode(Encode(guard))[o] = guard[o]
  BY <1>2 DEF Decode, Encode
<1>4. Decode(Encode(guard)) = [o \in DOMAIN guard |-> Decode(Encode(guard))[o]]
  BY DEF Decode, Encode
<1> QED BY <1>1, <1>3, <1>4

\* An author's history is a set of entries, and has what the invariant says.
LEMMA HistoryFacts ==
    ASSUME GuardInv, NEW o \in Origins
    PROVE  /\ History(o) \in SUBSET Entry
           /\ \A p, q \in History(o) : p.hlc = q.hlc => p = q
           /\ o \notin DOMAIN guard => History(o) = {}
<1>1. \A e \in accepted : e.hlc \in Hlcs /\ e.id \in RelayIds
  BY DEF GuardInv, TypeOK, Events
<1> QED BY <1>1 DEF GuardInv, OneHistory, History, Entry

\* A newly known author has the window of its one event.
LEMMA FirstEvent ==
    ASSUME NEW hlc \in Hlcs, NEW id \in RelayIds
    PROVE  /\ NewOrigin(hlc, id) \in OriginState
           /\ IsGreatestWindow(NewOrigin(hlc, id), {[hlc |-> hlc, id |-> id]})
<1> DEFINE new == [hlc |-> hlc, id |-> id]
<1>1. new \in Entry /\ new.hlc = hlc /\ hlc > -1 /\ WindowSize \in Nat /\ WindowSize >= 1
  BY GuardAssumption, WindowAssumption DEF Entry
<1>2. IsFiniteSet({new}) /\ Cardinality({new}) = 1
  BY FS_Singleton
<1>3. NewOrigin(hlc, id) = [retired |-> -1, entries |-> {new}]
  BY DEF NewOrigin, NoWatermark
<1>4. {new} = {p \in {new} : p.hlc > -1}
  BY <1>1
<1> QED BY <1>1, <1>2, <1>3, <1>4 DEF OriginState, IsGreatestWindow, NoWatermark

\* What a delivery does to the histories.
LEMMA DeliverHistory ==
    ASSUME GuardInv, NEW e \in Events, Deliver(e)
    PROVE  /\ History(e.origin)' = History(e.origin) \cup {[hlc |-> e.hlc, id |-> e.id]}
           /\ \A p \in Origins \ {e.origin} : History(p)' = History(p)
  BY DEF Deliver, History

\* The part of the invariant about the history survives the delivery of an
\* event whose clock value is new to its author's history.
LEMMA DeliverKeepsHistory ==
    ASSUME GuardInv, NEW e \in Events, Deliver(e),
           \A q \in History(e.origin) : q.hlc # e.hlc,
           DOMAIN guard' = DOMAIN guard \cup {e.origin}
    PROVE  /\ accepted' \subseteq Events
           /\ deliveries' \in [Origins -> [Hlcs -> Nat]]
           /\ OneHistory'
           /\ AtMostOnce'
<1> DEFINE new == [hlc |-> e.hlc, id |-> e.id]
<1>1. /\ e.origin \in Origins /\ e.hlc \in Hlcs /\ accepted \subseteq Events
      /\ deliveries \in [Origins -> [Hlcs -> Nat]]
  BY DEF Events, GuardInv, TypeOK
<1>2. accepted' = accepted \cup {e}
  BY DEF Deliver
<1>3. \A o \in Origins, h \in Hlcs :
        deliveries'[o][h] = IF o = e.origin /\ h = e.hlc THEN deliveries[o][h] + 1
                                                         ELSE deliveries[o][h]
  BY <1>1 DEF Deliver
<1>4. deliveries' \in [Origins -> [Hlcs -> Nat]]
  BY <1>1 DEF Deliver
<1>5. deliveries[e.origin][e.hlc] = 0
  BY <1>1 DEF GuardInv, OneHistory
<1>6. AtMostOnce'
  BY <1>1, <1>3, <1>5 DEF GuardInv, AtMostOnce
<1>7. \A o \in Origins : History(o) \subseteq History(o)'
  BY DeliverHistory
<1>8. new \in History(e.origin)' /\ new.hlc = e.hlc
  BY DeliverHistory
<1>9. \A o \in Origins, h \in Hlcs :
        deliveries'[o][h] # 0 => \E p \in History(o)' : p.hlc = h
  BY <1>3, <1>7, <1>8 DEF GuardInv, OneHistory
<1>10. \A a \in accepted : a.origin = e.origin => a.hlc # e.hlc
  <2> SUFFICES ASSUME NEW a \in accepted, a.origin = e.origin
               PROVE  a.hlc # e.hlc
    OBVIOUS
  <2> DEFINE p == [hlc |-> a.hlc, id |-> a.id]
  <2>1. p \in History(e.origin) /\ p.hlc = a.hlc
    BY DEF History
  <2> HIDE DEF p
  <2> QED BY <2>1
<1>11. \A a, b \in accepted' : a.origin = b.origin /\ a.hlc = b.hlc => a = b
  BY <1>2, <1>10 DEF GuardInv, OneHistory
<1>12. \A a \in accepted' : a.origin \in DOMAIN guard'
  BY <1>2 DEF GuardInv, OneHistory
<1> QED BY <1>1, <1>2, <1>4, <1>6, <1>9, <1>11, <1>12 DEF OneHistory

\* An admission keeps the invariant and lowers no watermark.
LEMMA AdmitStep ==
    ASSUME GuardInv, NEW e \in Events, AdmitMessage(e)
    PROVE  /\ GuardInv'
           /\ \A o \in DOMAIN guard :
                o \in DOMAIN guard' /\ guard'[o].retired >= guard[o].retired
<1> DEFINE o     == e.origin
           new   == [hlc |-> e.hlc, id |-> e.id]
           after == AfterAdmit(guard[o], e.hlc, e.id)
<1>1. /\ o \in Origins /\ e.hlc \in Hlcs /\ e.id \in RelayIds
      /\ e = [origin |-> o, hlc |-> e.hlc, id |-> e.id]
      /\ DOMAIN guard \subseteq Origins
      /\ guard \in [DOMAIN guard -> OriginState]
      /\ capsule = NoCapsule /\ capsule' = NoCapsule
  BY DEF Events, GuardInv, TypeOK, AdmitMessage, Locked
<1>2. \A p \in DOMAIN guard : guard[p].retired \in Int
  BY <1>1, GuardAssumption DEF OriginState, NoWatermark
<1>3. CASE Knows(guard, o)
  <2>1. /\ guard' = [p \in DOMAIN guard |-> IF p = o THEN after ELSE guard[p]]
        /\ Verdict(guard, o, e.hlc, e.id) = Decision(guard[o], e.hlc, e.id)
        /\ DOMAIN guard' = DOMAIN guard /\ o \in DOMAIN guard
    BY <1>3 DEF AdmitMessage, Admitted, Verdict, SetOrigin, Knows
  <2>2. /\ History(o) \in SUBSET Entry
        /\ \A p, q \in History(o) : p.hlc = q.hlc => p = q
        /\ IsGreatestWindow(guard[o], History(o))
        /\ guard[o] \in OriginState
    BY <1>1, <2>1, HistoryFacts DEF GuardInv, GreatestWindow
  <2>3. /\ after \in OriginState
        /\ after.retired >= guard[o].retired
        /\ Decision(guard[o], e.hlc, e.id) = "accepted" =>
             /\ \A q \in History(o) : q.hlc # e.hlc
             /\ IsGreatestWindow(after, History(o) \cup {new})
        /\ Decision(guard[o], e.hlc, e.id) # "accepted" => IsGreatestWindow(after, History(o))
    <3> HIDE DEF after
    <3> QED BY <1>1, <2>2, AdmitKeepsWindow DEF after
  <2>4. guard' \in [DOMAIN guard' -> OriginState] /\ DOMAIN guard' \subseteq Origins
    <3> HIDE DEF after
    <3> QED BY <1>1, <2>1, <2>3
  <2>5. \A p \in DOMAIN guard : p \in DOMAIN guard' /\ guard'[p].retired >= guard[p].retired
    <3> HIDE DEF after
    <3> QED BY <1>2, <2>1, <2>3
  <2>6. CASE Verdict(guard, o, e.hlc, e.id) = "accepted"
    <3>1. Deliver(e)
      BY <2>6 DEF AdmitMessage
    <3>2. /\ accepted' \subseteq Events /\ deliveries' \in [Origins -> [Hlcs -> Nat]]
          /\ OneHistory' /\ AtMostOnce'
      <4>1. DOMAIN guard' = DOMAIN guard \cup {e.origin}
        BY <2>1
      <4> QED BY <2>1, <2>3, <2>6, <3>1, <4>1, DeliverKeepsHistory
    <3>3. GreatestWindow'
      <4> HIDE DEF after
      <4>1. SUFFICES ASSUME NEW p \in DOMAIN guard'
                     PROVE  IsGreatestWindow(guard'[p], History(p)')
        BY DEF GreatestWindow, IsGreatestWindow
      <4>2. CASE p = o
        BY <2>1, <2>3, <2>6, <3>1, <4>2, DeliverHistory
      <4>3. CASE p # o
        BY <1>1, <2>1, <3>1, <4>3, DeliverHistory DEF GuardInv, GreatestWindow
      <4> QED BY <4>2, <4>3
    <3> QED BY <1>1, <2>4, <2>5, <3>2, <3>3 DEF GuardInv, TypeOK
  <2>7. CASE Verdict(guard, o, e.hlc, e.id) # "accepted"
    <3>1. UNCHANGED <<accepted, deliveries>>
      BY <2>7 DEF AdmitMessage
    <3>2. \A p : History(p)' = History(p)
      BY <3>1 DEF History
    <3>3. GreatestWindow'
      <4> HIDE DEF after
      <4>1. SUFFICES ASSUME NEW p \in DOMAIN guard'
                     PROVE  IsGreatestWindow(guard'[p], History(p)')
        BY DEF GreatestWindow, IsGreatestWindow
      <4>2. CASE p = o
        BY <2>1, <2>3, <2>7, <3>2, <4>2
      <4>3. CASE p # o
        BY <1>1, <2>1, <3>2, <4>3 DEF GuardInv, GreatestWindow
      <4> QED BY <4>2, <4>3
    <3>4. OneHistory' /\ AtMostOnce'
      BY <2>1, <3>1, <3>2 DEF GuardInv, OneHistory, AtMostOnce
    <3> QED BY <1>1, <2>4, <2>5, <3>1, <3>3, <3>4 DEF GuardInv, TypeOK
  <2> QED BY <2>6, <2>7
<1>4. CASE ~Knows(guard, o) /\ Cardinality(DOMAIN guard) >= MaxOrigins
  <2>1. guard' = guard /\ UNCHANGED <<accepted, deliveries>>
    BY <1>4 DEF AdmitMessage, Admitted, Verdict
  <2>2. UNCHANGED vars
    BY <1>1, <2>1 DEF vars
  <2> QED BY <1>1, <1>2, <2>1, <2>2 DEF vars, GuardInv, TypeOK, Encode, GreatestWindow,
          IsGreatestWindow, History, OneHistory, AtMostOnce
<1>5. CASE ~Knows(guard, o) /\ ~(Cardinality(DOMAIN guard) >= MaxOrigins)
  <2> DEFINE first == NewOrigin(e.hlc, e.id)
  <2>1. /\ guard' = [p \in DOMAIN guard \cup {o} |-> IF p = o THEN first ELSE guard[p]]
        /\ DOMAIN guard' = DOMAIN guard \cup {o}
        /\ o \notin DOMAIN guard
        /\ Deliver(e)
    BY <1>5 DEF AdmitMessage, Admitted, Verdict, SetOrigin, Knows
  <2>2. /\ first \in OriginState
        /\ IsGreatestWindow(first, {new})
    BY <1>1, FirstEvent
  <2>3. History(o) = {}
    BY <1>1, <2>1, HistoryFacts
  <2>4. /\ accepted' \subseteq Events /\ deliveries' \in [Origins -> [Hlcs -> Nat]]
        /\ OneHistory' /\ AtMostOnce'
    BY <2>1, <2>3, DeliverKeepsHistory
  <2>5. guard' \in [DOMAIN guard' -> OriginState] /\ DOMAIN guard' \subseteq Origins
    <3> HIDE DEF first
    <3> QED BY <1>1, <2>1, <2>2
  <2>6. GreatestWindow'
    <3> HIDE DEF first
    <3>1. SUFFICES ASSUME NEW p \in DOMAIN guard'
                   PROVE  IsGreatestWindow(guard'[p], History(p)')
      BY DEF GreatestWindow, IsGreatestWindow
    <3>2. CASE p = o
      BY <2>1, <2>2, <2>3, <3>2, DeliverHistory
    <3>3. CASE p # o
      BY <1>1, <2>1, <3>3, DeliverHistory DEF GuardInv, GreatestWindow
    <3> QED BY <3>2, <3>3
  <2>7. \A p \in DOMAIN guard : p \in DOMAIN guard' /\ guard'[p].retired >= guard[p].retired
    <3> HIDE DEF first
    <3> QED BY <1>2, <2>1
  <2> QED BY <1>1, <2>4, <2>5, <2>6, <2>7 DEF GuardInv, TypeOK
<1> QED BY <1>3, <1>4, <1>5

\* An adoption gives the successor the guard that was sealed.
LEMMA AdoptStep ==
    ASSUME GuardInv, Adopt
    PROVE  guard' = guard /\ accepted' = accepted /\ deliveries' = deliveries
<1>1. capsule = Encode(guard)
  BY DEF GuardInv, TypeOK, Adopt, Locked
<1> QED BY <1>1, DecodeEncode DEF GuardInv, Adopt

\* Steps that leave the guard and its history alone keep the invariant.
LEMMA SameGuard ==
    ASSUME GuardInv, guard' = guard, accepted' = accepted, deliveries' = deliveries,
           capsule' \in {NoCapsule, Damaged, Encode(guard)}
    PROVE  /\ GuardInv'
           /\ \A o \in DOMAIN guard :
                o \in DOMAIN guard' /\ guard'[o].retired >= guard[o].retired
<1>1. \A o \in DOMAIN guard : guard[o].retired \in Int
  BY GuardAssumption DEF GuardInv, TypeOK, OriginState, NoWatermark
<1>2. Encode(guard)' = Encode(guard)
  BY DEF Encode
<1>3. TypeOK'
  BY <1>2 DEF GuardInv, TypeOK
<1>4. \A o : History(o)' = History(o)
  BY DEF History
<1> QED BY <1>1, <1>3, <1>4 DEF GuardInv, GreatestWindow, IsGreatestWindow, OneHistory, AtMostOnce

\* The invariant is inductive, and no step forgets an author or lowers a
\* watermark while it holds.
LEMMA GuardStep ==
    ASSUME GuardInv, [Next]_vars
    PROVE  /\ GuardInv'
           /\ \A o \in DOMAIN guard :
                o \in DOMAIN guard' /\ guard'[o].retired >= guard[o].retired
<1>1. ASSUME NEW e \in Events, AdmitMessage(e)
      PROVE  /\ GuardInv'
             /\ \A o \in DOMAIN guard :
                  o \in DOMAIN guard' /\ guard'[o].retired >= guard[o].retired
  BY <1>1, AdmitStep
<1>2. CASE Seal
  BY <1>2, SameGuard DEF Seal
<1>3. CASE Corrupt
  BY <1>3, SameGuard DEF Corrupt
<1>4. CASE Adopt
  <2>1. capsule' = NoCapsule
    BY <1>4 DEF Adopt
  <2> QED BY <1>4, <2>1, AdoptStep, SameGuard
<1>5. CASE Abandon
  BY <1>5, SameGuard DEF Abandon
<1>6. CASE UNCHANGED vars
  BY <1>6, SameGuard DEF vars, GuardInv, TypeOK
<1> QED BY <1>1, <1>2, <1>3, <1>4, <1>5, <1>6 DEF Next

LEMMA GuardInit == Init => GuardInv
<1> SUFFICES ASSUME Init PROVE GuardInv
  OBVIOUS
<1>1. DOMAIN guard = {} /\ accepted = {} /\ capsule = NoCapsule
  BY DEF Init, EmptyGuard
<1>2. guard \in [DOMAIN guard -> OriginState]
  BY DEF Init, EmptyGuard
<1>3. deliveries = [o \in Origins |-> [h \in Hlcs |-> 0]]
  BY DEF Init
<1>4. TypeOK
  BY <1>1, <1>2, <1>3 DEF TypeOK
<1> QED BY <1>1, <1>3, <1>4 DEF GuardInv, GreatestWindow, OneHistory, AtMostOnce

\* The guard's invariant holds in every state of every execution.
THEOREM GuardInvariant == Spec => []GuardInv
<1> QED BY GuardInit, GuardStep, PTL DEF Spec

\* No clock value of an author is ever accepted twice: the exact-once half of
\* Guard.admitMessage, over eviction, equivocation and hot upgrade.
THEOREM AcceptedAtMostOnce == Spec => []AtMostOnce
<1>1. GuardInv => AtMostOnce
  BY DEF GuardInv
<1> QED BY <1>1, GuardInvariant, PTL

\* The window is always the greatest part of the accepted history.
THEOREM WindowIsGreatest == Spec => []GreatestWindow
<1>1. GuardInv => GreatestWindow
  BY DEF GuardInv
<1> QED BY <1>1, GuardInvariant, PTL

\* A duplicate probe is proof of an earlier acceptance of the same event.
THEOREM DuplicateProves == Spec => []DuplicateIsProof
<1>1. GuardInv => DuplicateIsProof
  <2> SUFFICES ASSUME GuardInv, NEW e \in Events,
                      Probe(guard, e.origin, e.hlc, e.id) = "duplicate"
               PROVE  e \in accepted
    BY DEF DuplicateIsProof
  <2> DEFINE p == [hlc |-> e.hlc, id |-> e.id]
  <2>1. e.origin \in DOMAIN guard /\ p \in guard[e.origin].entries
    BY DEF Probe, Knowledge, Knows
  <2>2. p \in History(e.origin)
    BY <2>1 DEF GuardInv, GreatestWindow, IsGreatestWindow
  <2>3. PICK a \in accepted : a.origin = e.origin /\ p = [hlc |-> a.hlc, id |-> a.id]
    BY <2>2 DEF History
  <2>4. a.hlc = e.hlc /\ a.id = e.id
    BY <2>3
  <2>5. a \in Events
    BY DEF GuardInv, TypeOK
  <2> QED BY <2>3, <2>4, <2>5 DEF Events
<1> QED BY <1>1, GuardInvariant, PTL

\* An accepted event is a duplicate or retired ever after.
THEOREM AcceptedRemembered == Spec => []AcceptedIsRemembered
<1>1. GuardInv => AcceptedIsRemembered
  <2> SUFFICES ASSUME GuardInv, NEW e \in accepted
               PROVE  Probe(guard, e.origin, e.hlc, e.id) \in {"duplicate", "retired"}
    BY DEF AcceptedIsRemembered
  <2> DEFINE p  == [hlc |-> e.hlc, id |-> e.id]
             st == guard[e.origin]
  <2>1. /\ e.origin \in DOMAIN guard
        /\ e.hlc \in Nat
        /\ st.retired \in Int
        /\ IsGreatestWindow(st, History(e.origin))
    BY GuardAssumption DEF GuardInv, OneHistory, TypeOK, Events, OriginState,
       NoWatermark, GreatestWindow
  <2>2. p \in History(e.origin) /\ p.hlc = e.hlc
    BY DEF History
  <2>3. ~(e.hlc <= st.retired) => p \in st.entries
    BY <2>1, <2>2 DEF IsGreatestWindow
  <2> QED BY <2>1, <2>2, <2>3 DEF Probe, Knows, Knowledge
<1> QED BY <1>1, GuardInvariant, PTL

\* The rejection boundary only rises, hot upgrades included.
THEOREM WatermarkMonotone == Spec => WatermarkNeverFalls
<1>1. GuardInv /\ [Next]_vars =>
        [\A o \in DOMAIN guard :
            o \in DOMAIN guard' /\ guard'[o].retired >= guard[o].retired]_vars
  BY GuardStep
<1> QED BY <1>1, GuardInvariant, PTL DEF Spec, WatermarkNeverFalls

-----------------------------------------------------------------------------
(* Checkpoints. *)

\* The largest guard of a configuration fits a checkpoint.  That of the default
\* configuration does (4096 authors with 64 entries each, 64 MiB); Config.valid
\* also takes larger ones that do not, and encodeCheckpoint may then refuse.
LargestGuardFits ==
    FrameBytes + (OriginBytes + EntryBytes * WindowSize) * MaxOrigins <= MaxImageBytes

\* No author is added to a full guard.
FewOrigins == IsFiniteSet(DOMAIN guard) /\ Cardinality(DOMAIN guard) <= MaxOrigins

LEMMA FewOriginsStep ==
    ASSUME GuardInv, FewOrigins, [Next]_vars PROVE FewOrigins'
<1>1. CASE guard' = guard
  BY <1>1 DEF FewOrigins
<1>2. ASSUME NEW e \in Events, AdmitMessage(e) PROVE FewOrigins'
  <2>1. CASE DOMAIN guard' = DOMAIN guard
    BY <2>1 DEF FewOrigins
  <2>2. CASE ~Knows(guard, e.origin) /\ ~(Cardinality(DOMAIN guard) >= MaxOrigins)
    <3>1. DOMAIN guard' = DOMAIN guard \cup {e.origin}
      BY <1>2, <2>2 DEF AdmitMessage, Admitted, SetOrigin
    <3>2. IsFiniteSet(DOMAIN guard) /\ Cardinality(DOMAIN guard) \in Nat
      BY FS_CardinalityType DEF FewOrigins
    <3>3. /\ IsFiniteSet(DOMAIN guard')
          /\ Cardinality(DOMAIN guard') = Cardinality(DOMAIN guard) + 1
      <4> DEFINE known == DOMAIN guard
      <4>1. e.origin \notin known
        BY <2>2 DEF Knows
      <4> HIDE DEF known
      <4>2. /\ IsFiniteSet(known \cup {e.origin})
            /\ Cardinality(known \cup {e.origin}) = Cardinality(known) + 1
        BY <3>2, <4>1, FS_AddElement DEF known
      <4> QED BY <3>1, <4>2 DEF known
    <3> QED BY <2>2, <3>2, <3>3, WindowAssumption DEF FewOrigins
  <2>3. Knows(guard, e.origin) => DOMAIN guard' = DOMAIN guard
    BY <1>2 DEF AdmitMessage, Admitted, SetOrigin, Knows
  <2>4. ~Knows(guard, e.origin) /\ Cardinality(DOMAIN guard) >= MaxOrigins => guard' = guard
    BY <1>2 DEF AdmitMessage, Admitted
  <2> QED BY <2>1, <2>2, <2>3, <2>4
<1>3. CASE Adopt
  BY <1>1, <1>3, AdoptStep
<1> QED BY <1>1, <1>2, <1>3 DEF Next, Seal, Corrupt, Abandon, vars

\* A guard that keeps the invariant is written, and taken back as it was.
LEMMA GuardSealable ==
    ASSUME GuardInv, FewOrigins, LargestGuardFits PROVE EveryStateSeals
<1> DEFINE most == OriginBytes + EntryBytes * WindowSize
           size == [o \in DOMAIN guard |-> OriginBytes + EntryBytes * Cardinality(guard[o].entries)]
<1>1. ASSUME NEW o \in DOMAIN guard
      PROVE  /\ Cardinality(guard[o].entries) \in 1..WindowSize
             /\ guard[o].retired \in Nat \cup {-1}
             /\ \A e \in guard[o].entries : e.hlc > guard[o].retired
             /\ \A e, f \in guard[o].entries : e.hlc = f.hlc => e = f
  <2>1. o \in Origins /\ guard[o] \in OriginState /\ IsGreatestWindow(guard[o], History(o))
    BY DEF GuardInv, TypeOK, GreatestWindow
  <2> QED BY <2>1, HistoryFacts, GuardAssumption DEF IsGreatestWindow, OriginState, NoWatermark
<1>2. IsFiniteSet(DOMAIN guard) /\ Cardinality(DOMAIN guard) \in Nat
  BY FS_CardinalityType DEF FewOrigins
<1>3. most \in Nat /\ \A o \in DOMAIN guard : size[o] \in 0..most
  BY <1>1, WindowAssumption DEF OriginBytes, EntryBytes
<1>4. ImageBytes(guard) = FrameBytes + SumFunctionOnSet(size, DOMAIN guard)
  BY DEF ImageBytes, SumFunction
<1> HIDE DEF most, size
<1>5. /\ SumFunctionOnSet(size, DOMAIN guard) \in Int
      /\ SumFunctionOnSet(size, DOMAIN guard) <= most * Cardinality(DOMAIN guard)
  BY <1>2, <1>3, SumAtMost, SumType
<1>6. most * Cardinality(DOMAIN guard) <= most * MaxOrigins
  BY <1>2, <1>3, WindowAssumption DEF FewOrigins
<1>7. most * Cardinality(DOMAIN guard) \in Int /\ most * MaxOrigins \in Int
  BY <1>2, <1>3, WindowAssumption
<1>8. ImageBytes(guard) <= MaxImageBytes
  <2>1. FrameBytes + most * MaxOrigins <= MaxImageBytes
    BY DEF LargestGuardFits, most
  <2> QED BY <1>4, <1>5, <1>6, <1>7, <2>1, WindowAssumption DEF FrameBytes
<1>9. Sealable(guard)
  BY <1>1, <1>8 DEF Sealable, FewOrigins
<1>10. ImageValid(Encode(guard))
  <2>1. DOMAIN Encode(guard) = DOMAIN guard
    BY DEF Encode
  <2>2. ASSUME NEW o \in DOMAIN guard
        PROVE  /\ Encode(guard)[o].present = (guard[o].retired # -1)
               /\ Encode(guard)[o].raw = IF guard[o].retired = -1 THEN 0 ELSE guard[o].retired
               /\ Encode(guard)[o].entries = guard[o].entries
    BY DEF Encode, NoWatermark
  <2> QED BY <1>1, <2>1, <2>2 DEF ImageValid, FewOrigins
<1>11. Decode(Encode(guard)) = guard
  BY DecodeEncode DEF GuardInv
<1> QED BY <1>9, <1>10, <1>11 DEF EveryStateSeals

\* encodeCheckpoint and decodeCheckpoint: whatever was admitted, the guard can
\* be sealed, and the successor has the same guard.
THEOREM EveryGuardSeals ==
    ASSUME LargestGuardFits PROVE Spec => []EveryStateSeals
<1>1. Init => FewOrigins
  BY FS_EmptySet, WindowAssumption DEF Init, EmptyGuard, FewOrigins
<1>2. Init => GuardInv /\ FewOrigins
  BY <1>1, GuardInit
<1>3. GuardInv /\ FewOrigins /\ [Next]_vars => (GuardInv /\ FewOrigins)'
  BY GuardStep, FewOriginsStep
<1>4. GuardInv /\ FewOrigins => EveryStateSeals
  BY GuardSealable
<1> QED BY <1>2, <1>3, <1>4, PTL DEF Spec

-----------------------------------------------------------------------------
(* The stored array: ReplayArray, of which this guard is the abstraction.   *)
(* First the bisection: what lowerBound finds.                              *)

VARIABLE arrays
Array == INSTANCE ReplayArray


\* One pass of the loop of lowerBound, with f for the passes to come.
Bisected(s, hlc, f) ==
    [r \in (0..Len(s)) \X (0..Len(s)) |->
       LET lo  == r[1]
           hi  == r[2]
           mid == lo + (hi - lo) \div 2
       IN  IF lo >= hi THEN lo
           ELSE IF s[mid + 1].hlc < hlc THEN f[<<mid + 1, hi>>]
           ELSE f[<<lo, mid>>]]

\* k is where the entries between lo and hi stop to be below the clock value.
Cuts(s, hlc, lo, hi, k) ==
    /\ k \in lo..hi
    /\ \A i \in (lo + 1)..hi : (s[i].hlc < hlc) <=> i <= k

Ascending(s) == \A i, j \in 1..Len(s) : i < j => s[i].hlc < s[j].hlc

LEMMA Clocks ==
    ASSUME NEW s \in Seq(Entry)
    PROVE  Len(s) \in Nat /\ \A i \in 1..Len(s) : s[i] \in Entry /\ s[i].hlc \in Nat
<1>1. Len(s) \in Nat /\ \A i \in 1..Len(s) : s[i] \in Entry
  OBVIOUS
<1>2. \A e \in Entry : e.hlc \in Nat
  BY GuardAssumption DEF Entry
<1> QED BY <1>1, <1>2

LEMMA CutExists ==
    ASSUME NEW s \in Seq(Entry), Ascending(s), NEW hlc \in Nat,
           NEW lo \in 0..Len(s), NEW hi \in 0..Len(s), lo <= hi
    PROVE  \E k \in 0..Len(s) : Cuts(s, hlc, lo, hi, k)
<1> DEFINE n == Len(s)
           S == {k \in lo..hi : k < hi => ~(s[k + 1].hlc < hlc)}
<1>1. n \in Nat /\ \A i \in 1..n : s[i].hlc \in Nat
  BY Clocks
<1> HIDE DEF n
<1>2. lo \in 0..n /\ hi \in 0..n
  BY DEF n
<1>3. S \in SUBSET Nat /\ hi \in S
  BY <1>1, <1>2
<1>4. PICK k \in S : \A m \in S : k <= m
  <2> HIDE DEF S
  <2> QED BY <1>3, LeastNatural
<1>5. k \in lo..hi /\ k \in 0..n /\ (k < hi => ~(s[k + 1].hlc < hlc))
  BY <1>1, <1>2, <1>4
<1>6. ASSUME NEW i \in (lo + 1)..hi, i <= k PROVE s[i].hlc < hlc
  <2>1. i - 1 \in lo..hi /\ i - 1 < hi /\ ~(k <= i - 1) /\ (i - 1) + 1 = i
    BY <1>2, <1>5, <1>6
  <2> QED BY <1>4, <2>1
<1>7. ASSUME NEW i \in (lo + 1)..hi, ~(i <= k) PROVE ~(s[i].hlc < hlc)
  <2>1. k < hi /\ k + 1 \in 1..n /\ i \in 1..n /\ (k + 1 < i \/ i = k + 1)
    BY <1>1, <1>2, <1>5, <1>7
  <2>2. k + 1 < i => s[k + 1].hlc < s[i].hlc
    BY <2>1 DEF Ascending, n
  <2>3. s[k + 1].hlc \in Nat /\ s[i].hlc \in Nat
    BY <1>1, <2>1
  <2> QED BY <1>5, <2>1, <2>2, <2>3
<1>8. Cuts(s, hlc, lo, hi, k)
  BY <1>5, <1>6, <1>7 DEF Cuts
<1> QED BY <1>5, <1>8 DEF n

LEMMA CutUnique ==
    ASSUME NEW s \in Seq(Entry), NEW hlc \in Nat, NEW lo \in Nat, NEW hi \in Nat,
           NEW k, NEW m, Cuts(s, hlc, lo, hi, k), Cuts(s, hlc, lo, hi, m)
    PROVE  k = m
<1>1. k \in lo..hi /\ m \in lo..hi
  BY DEF Cuts
<1>2. CASE k < m
  <2>1. k + 1 \in (lo + 1)..hi /\ k + 1 <= m /\ ~(k + 1 <= k)
    BY <1>1, <1>2
  <2> QED BY <2>1 DEF Cuts
<1>3. CASE m < k
  <2>1. m + 1 \in (lo + 1)..hi /\ m + 1 <= k /\ ~(m + 1 <= m)
    BY <1>1, <1>3
  <2> QED BY <2>1 DEF Cuts
<1> QED BY <1>1, <1>2, <1>3

\* The middle of an interval, and what the test of its entry says of the cut.
LEMMA Middle ==
    ASSUME NEW lo \in Nat, NEW hi \in Nat, lo < hi
    PROVE  LET mid == lo + (hi - lo) \div 2
           IN  mid \in lo..hi /\ mid < hi /\ mid + 1 \in (lo + 1)..hi
BY Z3

LEMMA CutAbove ==
    ASSUME NEW s \in Seq(Entry), Ascending(s), NEW hlc \in Nat, NEW lo \in Nat, NEW hi \in 0..Len(s),
           NEW mid \in lo..hi, mid < hi, s[mid + 1].hlc < hlc, NEW k
    PROVE  Cuts(s, hlc, mid + 1, hi, k) => Cuts(s, hlc, lo, hi, k)
<1> SUFFICES ASSUME Cuts(s, hlc, mid + 1, hi, k) PROVE Cuts(s, hlc, lo, hi, k)
  OBVIOUS
<1> DEFINE n == Len(s)
<1>1. n \in Nat /\ hi \in 0..n /\ \A i \in 1..n : s[i].hlc \in Nat
  BY Clocks
<1>2. \A i, j \in 1..n : i < j => s[i].hlc < s[j].hlc
  BY DEF Ascending
<1> HIDE DEF n
<1>3. k \in (mid + 1)..hi /\ \A i \in (mid + 2)..hi : (s[i].hlc < hlc) <=> i <= k
  <2>1. (mid + 1) + 1 = mid + 2
    BY <1>1
  <2> QED BY <2>1 DEF Cuts
<1>4. k \in lo..hi
  BY <1>1, <1>3
<1>5. ASSUME NEW i \in (lo + 1)..hi PROVE (s[i].hlc < hlc) <=> i <= k
  <2>1. CASE i >= mid + 2
    BY <1>1, <1>3, <2>1
  <2>2. CASE i < mid + 2
    <3>1. i <= k /\ i \in 1..n /\ mid + 1 \in 1..n /\ (i < mid + 1 \/ i = mid + 1)
      BY <1>1, <1>3, <2>2
    <3>2. i < mid + 1 => s[i].hlc < s[mid + 1].hlc
      BY <1>2, <3>1
    <3>3. s[i].hlc \in Nat /\ s[mid + 1].hlc \in Nat
      BY <1>1, <3>1
    <3> QED BY <3>1, <3>2, <3>3
  <2> QED BY <1>1, <2>1, <2>2
<1> QED BY <1>4, <1>5 DEF Cuts

LEMMA CutBelow ==
    ASSUME NEW s \in Seq(Entry), Ascending(s), NEW hlc \in Nat, NEW lo \in Nat, NEW hi \in 0..Len(s),
           NEW mid \in lo..hi, mid < hi, ~(s[mid + 1].hlc < hlc), NEW k
    PROVE  Cuts(s, hlc, lo, mid, k) => Cuts(s, hlc, lo, hi, k)
<1> SUFFICES ASSUME Cuts(s, hlc, lo, mid, k) PROVE Cuts(s, hlc, lo, hi, k)
  OBVIOUS
<1> DEFINE n == Len(s)
<1>1. n \in Nat /\ hi \in 0..n /\ \A i \in 1..n : s[i].hlc \in Nat
  BY Clocks
<1>2. \A i, j \in 1..n : i < j => s[i].hlc < s[j].hlc
  BY DEF Ascending
<1> HIDE DEF n
<1>3. k \in lo..mid /\ \A i \in (lo + 1)..mid : (s[i].hlc < hlc) <=> i <= k
  BY DEF Cuts
<1>4. k \in lo..hi
  BY <1>1, <1>3
<1>5. ASSUME NEW i \in (lo + 1)..hi PROVE (s[i].hlc < hlc) <=> i <= k
  <2>1. CASE i <= mid
    BY <1>1, <1>3, <2>1
  <2>2. CASE i > mid
    <3>1. ~(i <= k) /\ i \in 1..n /\ mid + 1 \in 1..n /\ (mid + 1 < i \/ i = mid + 1)
      BY <1>1, <1>3, <2>2
    <3>2. mid + 1 < i => s[mid + 1].hlc < s[i].hlc
      BY <1>2, <3>1
    <3>3. s[i].hlc \in Nat /\ s[mid + 1].hlc \in Nat
      BY <1>1, <3>1
    <3> QED BY <3>1, <3>2, <3>3
  <2> QED BY <1>1, <2>1, <2>2
<1> QED BY <1>4, <1>5 DEF Cuts

\* The loop computes something, for it ends: a function meets its recursion.
LEMMA BisectionEnds ==
    ASSUME NEW s \in Seq(Entry), Ascending(s), NEW hlc \in Nat
    PROVE  \E f : f = Bisected(s, hlc, f)
<1> DEFINE n        == Len(s)
           pairs    == (0..n) \X (0..n)
           cut(r)   == CHOOSE k \in 0..n : Cuts(s, hlc, r[1], r[2], k)
           mid(r)   == r[1] + (r[2] - r[1]) \div 2
           value(r) == IF r[1] >= r[2] THEN r[1] ELSE cut(r)
           f        == [r \in pairs |-> value(r)]
<1>1. n \in Nat
  BY Clocks
<1>2. \A r \in pairs : r[1] \in 0..n /\ r[2] \in 0..n /\ r = <<r[1], r[2]>>
  OBVIOUS
<1>3. ASSUME NEW r \in pairs, r[1] <= r[2]
      PROVE  cut(r) \in 0..n /\ Cuts(s, hlc, r[1], r[2], cut(r))
  <2>1. \E k \in 0..n : Cuts(s, hlc, r[1], r[2], k)
    BY <1>2, <1>3, CutExists
  <2> QED BY <2>1
<1> HIDE DEF cut
<1>4. ASSUME NEW r \in pairs, r[1] <= r[2]
      PROVE  Cuts(s, hlc, r[1], r[2], value(r))
  <2>1. CASE r[1] < r[2]
    BY <1>1, <1>2, <1>3, <2>1
  <2>2. CASE r[1] >= r[2]
    <3>1. value(r) = r[1] /\ r[1] \in r[1]..r[2] /\ r[1] \in 0..n
      BY <1>1, <1>2, <1>4, <2>2
    <3>2. (r[1] + 1)..r[2] = {}
      BY <1>1, <1>2, <2>2
    <3> HIDE DEF value
    <3> QED BY <3>1, <3>2 DEF Cuts
  <2> QED BY <1>1, <1>2, <2>1, <2>2
<1>5. ASSUME NEW r \in pairs, r[1] < r[2]
      PROVE  value(r) = IF s[mid(r) + 1].hlc < hlc THEN f[<<mid(r) + 1, r[2]>>]
                                                  ELSE f[<<r[1], mid(r)>>]
  <2>1. mid(r) \in r[1]..r[2] /\ mid(r) < r[2] /\ mid(r) + 1 \in 0..n /\ mid(r) \in 0..n
    BY <1>1, <1>2, <1>5, Middle
  <2>2. Cuts(s, hlc, r[1], r[2], value(r))
    BY <1>1, <1>2, <1>4, <1>5
  <2> DEFINE above == <<mid(r) + 1, r[2]>>
             below == <<r[1], mid(r)>>
  <2>3. /\ above \in pairs /\ above[1] = mid(r) + 1 /\ above[2] = r[2] /\ above[1] <= above[2]
        /\ below \in pairs /\ below[1] = r[1] /\ below[2] = mid(r) /\ below[1] <= below[2]
    <3> HIDE DEF mid
    <3> QED BY <1>1, <1>2, <2>1
  <2>4. f[above] = value(above) /\ f[below] = value(below)
    <3> HIDE DEF above, below, value
    <3> QED BY <2>3
  <2>5. /\ Cuts(s, hlc, mid(r) + 1, r[2], value(above))
        /\ Cuts(s, hlc, r[1], mid(r), value(below))
    <3> HIDE DEF value, above, below, mid
    <3> QED BY <1>4, <2>3
  <2> HIDE DEF value, above, below, mid
  <2>6. CASE s[mid(r) + 1].hlc < hlc
    <3>1. Cuts(s, hlc, r[1], r[2], value(above))
      BY <1>1, <1>2, <2>1, <2>5, <2>6, CutAbove
    <3>2. value(r) = value(above)
      BY <1>1, <1>2, <2>2, <3>1, CutUnique
    <3> QED BY <2>4, <2>6, <3>2 DEF above
  <2>7. CASE ~(s[mid(r) + 1].hlc < hlc)
    <3>1. Cuts(s, hlc, r[1], r[2], value(below))
      BY <1>1, <1>2, <2>1, <2>5, <2>7, CutBelow
    <3>2. value(r) = value(below)
      BY <1>1, <1>2, <2>2, <3>1, CutUnique
    <3> QED BY <2>4, <2>7, <3>2 DEF below
  <2> QED BY <2>6, <2>7
<1>6. ASSUME NEW r \in pairs
      PROVE  value(r) = IF r[1] >= r[2] THEN r[1]
                        ELSE IF s[mid(r) + 1].hlc < hlc THEN f[<<mid(r) + 1, r[2]>>]
                        ELSE f[<<r[1], mid(r)>>]
  <2>1. CASE r[1] >= r[2]
    BY <2>1
  <2>2. CASE ~(r[1] >= r[2])
    <3>1. r[1] < r[2]
      BY <1>1, <1>2, <2>2
    <3> HIDE DEF value, f, mid
    <3> QED BY <1>5, <2>2, <3>1
  <2> QED BY <2>1, <2>2
<1>7. f = Bisected(s, hlc, f)
  <2> HIDE DEF f
  <2>1. Bisected(s, hlc, f) = [r \in pairs |-> value(r)]
    <3> HIDE DEF value
    <3> QED BY <1>6 DEF Bisected
  <2> QED BY <2>1 DEF f
<1> QED BY <1>7

\* Whatever meets the recursion finds the cut, by induction on the distance.
LEMMA BisectionCuts ==
    ASSUME NEW s \in Seq(Entry), Ascending(s), NEW hlc \in Nat,
           NEW f, f = Bisected(s, hlc, f)
    PROVE  Cuts(s, hlc, 0, Len(s), f[<<0, Len(s)>>])
<1> DEFINE n    == Len(s)
           Good == {d \in Nat : \A lo, hi \in 0..n : lo <= hi /\ hi - lo <= d
                                  => Cuts(s, hlc, lo, hi, f[<<lo, hi>>])}
<1>1. n \in Nat
  BY Clocks
<1>2. ASSUME NEW lo \in 0..n, NEW hi \in 0..n
      PROVE  LET mid == lo + (hi - lo) \div 2 IN
             f[<<lo, hi>>] = IF lo >= hi THEN lo
                             ELSE IF s[mid + 1].hlc < hlc THEN f[<<mid + 1, hi>>]
                             ELSE f[<<lo, mid>>]
  <2> DEFINE r == <<lo, hi>>
  <2>1. r \in (0..Len(s)) \X (0..Len(s)) /\ r[1] = lo /\ r[2] = hi
    OBVIOUS
  <2> HIDE DEF r
  <2>2. Bisected(s, hlc, f)[r] = LET mid == lo + (hi - lo) \div 2 IN
                                 IF lo >= hi THEN lo
                                 ELSE IF s[mid + 1].hlc < hlc THEN f[<<mid + 1, hi>>]
                                 ELSE f[<<lo, mid>>]
    BY <2>1 DEF Bisected
  <2>3. f[r] = Bisected(s, hlc, f)[r]
    OBVIOUS
  <2> QED BY <2>2, <2>3 DEF r
<1>3. ASSUME NEW lo \in 0..n, NEW hi \in 0..n, lo <= hi, ~(lo < hi)
      PROVE  Cuts(s, hlc, lo, hi, f[<<lo, hi>>])
  <2> HIDE DEF n
  <2>0. lo >= hi /\ lo \in lo..hi
    BY <1>1, <1>3
  <2>1. f[<<lo, hi>>] = lo
    BY <1>2, <2>0
  <2>2. (lo + 1)..hi = {}
    BY <1>1, <1>3
  <2> QED BY <2>0, <2>1, <2>2 DEF Cuts
<1>4. 0 \in Good
  BY <1>1, <1>3
<1>5. ASSUME NEW d \in Nat, d \in Good PROVE d + 1 \in Good
  <2> SUFFICES ASSUME NEW lo \in 0..n, NEW hi \in 0..n, lo <= hi, hi - lo <= d + 1
               PROVE  Cuts(s, hlc, lo, hi, f[<<lo, hi>>])
    <3> HIDE DEF n
    <3> QED OBVIOUS
  <2> SUFFICES ASSUME lo < hi
               PROVE  Cuts(s, hlc, lo, hi, f[<<lo, hi>>])
    BY <1>3
  <2> DEFINE mid == lo + (hi - lo) \div 2
  <2>1. mid \in lo..hi /\ mid < hi
    BY <1>1, Middle
  <2>2. f[<<lo, hi>>] = IF s[mid + 1].hlc < hlc THEN f[<<mid + 1, hi>>] ELSE f[<<lo, mid>>]
    BY <1>1, <1>2
  <2> HIDE DEF mid
  <2>3. /\ mid + 1 \in 0..n /\ mid + 1 <= hi /\ hi - (mid + 1) <= d
        /\ mid \in 0..n /\ lo <= mid /\ mid - lo <= d
    BY <1>1, <2>1
  <2>4. /\ Cuts(s, hlc, mid + 1, hi, f[<<mid + 1, hi>>])
        /\ Cuts(s, hlc, lo, mid, f[<<lo, mid>>])
    BY <1>5, <2>3
  <2> HIDE DEF Good
  <2>5. CASE s[mid + 1].hlc < hlc
    BY <1>1, <2>1, <2>2, <2>4, <2>5, CutAbove
  <2>6. CASE ~(s[mid + 1].hlc < hlc)
    BY <1>1, <2>1, <2>2, <2>4, <2>6, CutBelow
  <2> QED BY <2>5, <2>6
<1>6. n \in Good
  <2> HIDE DEF Good, n
  <2>1. \A k \in 0..(n - 1) : k \in Good => k + 1 \in Good
    BY <1>1, <1>5
  <2>2. \A k \in 0..n : k \in Good
    BY <1>1, <1>4, <2>1, CountingInduction
  <2> QED BY <1>1, <2>2
<1> QED BY <1>1, <1>6

\* lowerBound of an ascending array: the entries before it are below the clock
\* value, and the others are not.
LEMMA LowerBoundCuts ==
    ASSUME NEW s \in Seq(Entry), Ascending(s), NEW hlc \in Nat
    PROVE  Cuts(s, hlc, 0, Len(s), Array!LowerBound(s, hlc))
<1>1. Array!LowerBound(s, hlc) = (CHOOSE f : f = Bisected(s, hlc, f))[<<0, Len(s)>>]
  BY DEF Array!LowerBound, Bisected
<1>2. (CHOOSE f : f = Bisected(s, hlc, f)) = Bisected(s, hlc, CHOOSE f : f = Bisected(s, hlc, f))
  BY BisectionEnds
<1> QED BY <1>1, <1>2, BisectionCuts

-----------------------------------------------------------------------------
(* One author's array. *)

ArrayState == [retired : Hlcs \cup {-1}, entries : Seq(Entry)]

Stored(st) == st \in ArrayState /\ Ascending(st.entries) /\ Len(st.entries) <= WindowSize

\* An instance has its own name for the size of a set, and for each operator of
\* the window: they are the same.
LEMMA SameCardinality ==
    \A S : Array!Cardinality(S) = Cardinality(S) /\ Array!Set!Cardinality(S) = Cardinality(S)
BY DEF Array!Cardinality, Array!Set!Cardinality, Cardinality

LEMMA SameWindow ==
    ASSUME NEW st, NEW hlc, NEW id
    PROVE  /\ Array!Set!Decision(st, hlc, id) = Decision(st, hlc, id)
           /\ Array!Set!AfterAdmit(st, hlc, id) = AfterAdmit(st, hlc, id)
BY SameCardinality
   DEF Array!Set!Decision, Decision, Array!Set!AfterAdmit, AfterAdmit, Array!Set!Knowledge, Knowledge,
       Array!Set!Full, Full, Array!Set!OlderThanAll, OlderThanAll, Array!Set!Oldest, Oldest,
       Array!Set!AdvanceWatermark, AdvanceWatermark

LEMMA SameVerdict ==
    ASSUME NEW g, NEW o, NEW hlc, NEW id
    PROVE  /\ Array!Set!Verdict(g, o, hlc, id) = Verdict(g, o, hlc, id)
           /\ Array!Set!Admitted(g, o, hlc, id) = Admitted(g, o, hlc, id)
BY SameCardinality, SameWindow
   DEF Array!Set!Verdict, Verdict, Array!Set!Admitted, Admitted, Array!Set!Knows, Knows,
       Array!Set!SetOrigin, SetOrigin, Array!Set!NewOrigin, NewOrigin, Array!Set!NoWatermark, NoWatermark

\* An ascending array is as long as the set of its entries, and no two of these
\* have one clock value.
LEMMA ArrayAsSet ==
    ASSUME NEW s \in Seq(Entry), Ascending(s)
    PROVE  /\ Array!Range(s) \subseteq Entry
           /\ Array!Range(s) = {s[i] : i \in 1..Len(s)}
           /\ IsFiniteSet(Array!Range(s)) /\ Cardinality(Array!Range(s)) = Len(s)
           /\ \A i, j \in 1..Len(s) : s[i].hlc = s[j].hlc => i = j
<1> DEFINE n == Len(s)
<1>1. n \in Nat /\ \A i \in 1..n : s[i] \in Entry /\ s[i].hlc \in Nat
  BY Clocks
<1>2. Array!Range(s) = {s[i] : i \in 1..n}
  BY DEF Array!Range
<1>3. \A i, j \in 1..n : i < j => s[i].hlc < s[j].hlc
  BY DEF Ascending
<1>4. s = [i \in 1..n |-> s[i]]
  OBVIOUS
<1> HIDE DEF n
<1>5. ASSUME NEW i \in 1..n, NEW j \in 1..n, s[i].hlc = s[j].hlc PROVE i = j
  <2>1. ~(s[i].hlc < s[j].hlc) /\ ~(s[j].hlc < s[i].hlc)
    BY <1>1, <1>5
  <2>2. ~(i < j) /\ ~(j < i)
    BY <1>3, <2>1
  <2> QED BY <1>1, <2>2
<1> DEFINE f == [i \in 1..n |-> s[i]]
<1>6. f \in Bijection(1..n, Array!Range(s))
  <2>1. f \in [1..n -> Array!Range(s)] /\ \A i \in 1..n : f[i] = s[i]
    BY <1>2
  <2> HIDE DEF f
  <2>2. f \in Injection(1..n, Array!Range(s))
    BY <1>5, <2>1 DEF Injection, IsInjective
  <2>3. f \in Surjection(1..n, Array!Range(s))
    BY <1>2, <2>1 DEF Surjection
  <2> QED BY <2>2, <2>3 DEF Bijection
<1>7. IsFiniteSet(1..n) /\ Cardinality(1..n) = n
  <2>1. 1 \in Int /\ n \in Int
    BY <1>1
  <2>2. IsFiniteSet(1..n) /\ Cardinality(1..n) = IF 1 > n THEN 0 ELSE n - 1 + 1
    BY <2>1, FS_Interval
  <2> QED BY <1>1, <2>2
<1>8. IsFiniteSet(Array!Range(s)) /\ Cardinality(Array!Range(s)) = n
  <2> HIDE DEF f
  <2> QED BY <1>6, <1>7, FS_Bijection DEF ExistsBijection
<1>9. Array!Range(s) \subseteq Entry
  BY <1>1, <1>2
<1> QED BY <1>2, <1>5, <1>8, <1>9 DEF n

\* insertAssumeCapacity, entry by entry.
LEMMA InsertPlaces ==
    ASSUME NEW s \in Seq(Entry), NEW k \in 0..Len(s), NEW e \in Entry
    PROVE  /\ Array!Insert(s, k, e) \in Seq(Entry)
           /\ Len(Array!Insert(s, k, e)) = Len(s) + 1
           /\ \A i \in 1..(Len(s) + 1) :
                Array!Insert(s, k, e)[i] = IF i <= k THEN s[i] ELSE IF i = k + 1 THEN e ELSE s[i - 1]
<1> DEFINE n    == Len(s)
           low  == SubSeq(s, 1, k)
           mid  == <<e>>
           high == SubSeq(s, k + 1, n)
<1>1. n \in Nat /\ \A i \in 1..n : s[i] \in Entry
  BY Clocks
<1> HIDE DEF n
<1>2. k \in 0..n
  BY DEF n
<1>3. low \in Seq(Entry) /\ Len(low) = k /\ \A i \in 1..k : low[i] = s[i]
  <2>1. \A i \in 1..k : s[i] \in Entry
    BY <1>1, <1>2
  <2>2. /\ low \in Seq(Entry) /\ Len(low) = IF 1 <= k THEN k - 1 + 1 ELSE 0
        /\ \A i \in 1..(k - 1 + 1) : low[i] = s[1 + i - 1]
    BY <1>1, <1>2, <2>1, SubSeqProperties
  <2> HIDE DEF low
  <2>3. \A i \in 1..k : 1 + i - 1 = i
    BY <1>2
  <2> QED BY <1>1, <1>2, <2>2, <2>3
<1>4. high \in Seq(Entry) /\ Len(high) = n - k /\ \A i \in 1..(n - k) : high[i] = s[k + i]
  <2>1. \A i \in (k + 1)..n : s[i] \in Entry
    BY <1>1, <1>2
  <2>2. /\ high \in Seq(Entry) /\ Len(high) = IF k + 1 <= n THEN n - (k + 1) + 1 ELSE 0
        /\ \A i \in 1..(n - (k + 1) + 1) : high[i] = s[(k + 1) + i - 1]
    BY <1>1, <1>2, <2>1, SubSeqProperties
  <2> HIDE DEF high
  <2>3. n - (k + 1) + 1 = n - k /\ \A i \in 1..(n - k) : (k + 1) + i - 1 = k + i
    BY <1>1, <1>2
  <2> QED BY <1>1, <1>2, <2>2, <2>3
<1>5. mid \in Seq(Entry) /\ Len(mid) = 1 /\ mid[1] = e
  OBVIOUS
<1> HIDE DEF low, mid, high
<1>6. /\ low \o mid \in Seq(Entry) /\ Len(low \o mid) = k + 1
      /\ \A i \in 1..(k + 1) : (low \o mid)[i] = IF i <= k THEN s[i] ELSE e
  <2>1. /\ low \o mid \in Seq(Entry) /\ Len(low \o mid) = Len(low) + Len(mid)
        /\ \A i \in 1..(Len(low) + Len(mid)) :
             (low \o mid)[i] = IF i <= Len(low) THEN low[i] ELSE mid[i - Len(low)]
    BY <1>3, <1>5, ConcatProperties
  <2>2. \A i \in 1..(k + 1) : (i <= k => i \in 1..k) /\ (~(i <= k) => i - k = 1)
    BY <1>1, <1>2
  <2> QED BY <1>3, <1>5, <2>1, <2>2
<1> DEFINE both == low \o mid
<1> HIDE DEF both
<1>7. both \in Seq(Entry) /\ Len(both) = k + 1
      /\ \A i \in 1..(k + 1) : both[i] = IF i <= k THEN s[i] ELSE e
  BY <1>6 DEF both
<1>8. Array!Insert(s, k, e) = both \o high
  BY DEF Array!Insert, both, low, mid, high, n
<1>9. /\ both \o high \in Seq(Entry) /\ Len(both \o high) = n + 1
      /\ \A i \in 1..(n + 1) : (both \o high)[i] = IF i <= k + 1 THEN both[i] ELSE high[i - (k + 1)]
  <2>1. /\ both \o high \in Seq(Entry) /\ Len(both \o high) = Len(both) + Len(high)
        /\ \A i \in 1..(Len(both) + Len(high)) :
             (both \o high)[i] = IF i <= Len(both) THEN both[i] ELSE high[i - Len(both)]
    BY <1>4, <1>7, ConcatProperties
  <2>2. (k + 1) + (n - k) = n + 1
    BY <1>1, <1>2
  <2> QED BY <1>4, <1>7, <2>1, <2>2
<1>10. ASSUME NEW i \in 1..(n + 1)
       PROVE  (both \o high)[i] = IF i <= k THEN s[i] ELSE IF i = k + 1 THEN e ELSE s[i - 1]
  <2>1. CASE i <= k + 1
    BY <1>1, <1>2, <1>7, <1>9, <2>1
  <2>2. CASE ~(i <= k + 1)
    <3>1. i - (k + 1) \in 1..(n - k) /\ k + (i - (k + 1)) = i - 1 /\ ~(i <= k) /\ i # k + 1
      BY <1>1, <1>2, <2>2
    <3> QED BY <1>4, <1>9, <2>2, <3>1
  <2> QED BY <2>1, <2>2
<1> QED BY <1>8, <1>9, <1>10 DEF n

\* The two shifts of the full array, entry by entry: what was before the cut
\* moved down, over the oldest entry, and the event is at its end.
LEMMA ReplacePlaces ==
    ASSUME NEW s \in Seq(Entry), NEW k \in 1..Len(s), NEW e \in Entry
    PROVE  /\ Array!ReplaceOldest(s, k, e) \in Seq(Entry)
           /\ Len(Array!ReplaceOldest(s, k, e)) = Len(s)
           /\ \A i \in 1..Len(s) :
                Array!ReplaceOldest(s, k, e)[i] =
                  IF i < k THEN s[i + 1] ELSE IF i = k THEN e ELSE s[i]
<1> DEFINE n     == Len(s)
           tail  == Tail(s)
           last  == <<s[n]>>
           down  == tail \o last
           new(i) == IF i = k THEN e ELSE IF i > k THEN down[i - 1] ELSE down[i]
<1>1. n \in Nat /\ \A i \in 1..n : s[i] \in Entry
  BY Clocks
<1>2. k \in 1..n /\ n \in 1..n
  BY <1>1
<1>3. tail \in Seq(Entry) /\ Len(tail) = n - 1 /\ \A i \in 1..(n - 1) : tail[i] = s[i + 1]
  <2>1. s # <<>>
    BY <1>1, <1>2
  <2> QED BY <2>1, HeadTailProperties
<1>4. last \in Seq(Entry) /\ Len(last) = 1 /\ last[1] = s[n]
  BY <1>1, <1>2
<1>5. DOMAIN s = 1..n
  OBVIOUS
<1> HIDE DEF n, tail, last
<1>6. \A i \in 1..(n - 1) : down[i] = s[i + 1]
  <2>1. \A i \in 1..(Len(tail) + Len(last)) :
          (tail \o last)[i] = IF i <= Len(tail) THEN tail[i] ELSE last[i - Len(tail)]
    BY <1>3, <1>4, ConcatProperties
  <2>2. \A i \in 1..(n - 1) : i \in 1..((n - 1) + 1) /\ i <= n - 1
    BY <1>1
  <2> QED BY <1>3, <1>4, <2>1, <2>2
<1> HIDE DEF down
<1>7. Array!ReplaceOldest(s, k, e) = [i \in 1..n |-> new(i)]
  <2>1. /\ down = Tail(s) \o <<s[Len(s)]>>
        /\ (k - 1) + 1 = k
    BY <1>1, <1>2 DEF down, tail, last, n
  <2>2. DOMAIN s = 1..n
    BY <1>5
  <2> QED BY <2>1, <2>2 DEF Array!ReplaceOldest
<1>8. ASSUME NEW i \in 1..n
      PROVE  new(i) = IF i < k THEN s[i + 1] ELSE IF i = k THEN e ELSE s[i]
  <2>1. CASE i < k
    <3>1. i \in 1..(n - 1) /\ ~(i = k) /\ ~(i > k)
      BY <1>1, <1>2, <2>1
    <3> QED BY <1>6, <2>1, <3>1
  <2>2. CASE i = k
    BY <1>1, <1>2, <2>2
  <2>3. CASE i > k
    <3>1. i - 1 \in 1..(n - 1) /\ ~(i = k) /\ ~(i < k) /\ (i - 1) + 1 = i
      BY <1>1, <1>2, <2>3
    <3>2. down[i - 1] = s[i]
      BY <1>6, <3>1
    <3> QED BY <2>3, <3>1, <3>2
  <2> QED BY <1>1, <1>2, <2>1, <2>2, <2>3
<1>9. \A i \in 1..n : new(i) \in Entry
  <2> SUFFICES ASSUME NEW i \in 1..n PROVE new(i) \in Entry
    OBVIOUS
  <2>1. i < k => i + 1 \in 1..n
    BY <1>1, <1>2
  <2> HIDE DEF new
  <2> QED BY <1>1, <1>8, <2>1
<1> HIDE DEF new
<1>10. /\ [i \in 1..n |-> new(i)] \in Seq(Entry)
       /\ Len([i \in 1..n |-> new(i)]) = n
  BY <1>1, <1>9
<1> QED BY <1>7, <1>8, <1>10 DEF n

\* e goes behind the k-th entry and before the next one.
Between(s, k, e) ==
    /\ \A i \in 1..Len(s) : (s[i].hlc < e.hlc) <=> i <= k
    /\ \A i \in 1..Len(s) : s[i].hlc # e.hlc

LEMMA Inserted ==
    ASSUME NEW s \in Seq(Entry), Ascending(s), NEW k \in 0..Len(s), NEW e \in Entry, Between(s, k, e)
    PROVE  /\ Ascending(Array!Insert(s, k, e))
           /\ Array!Range(Array!Insert(s, k, e)) = Array!Range(s) \cup {e}
<1> DEFINE n == Len(s)
           r == Array!Insert(s, k, e)
<1>1. n \in Nat /\ \A i \in 1..n : s[i] \in Entry /\ s[i].hlc \in Nat
  BY Clocks
<1>2. e.hlc \in Nat
  BY GuardAssumption DEF Entry
<1>3. /\ r \in Seq(Entry) /\ Len(r) = n + 1
      /\ \A i \in 1..(n + 1) : r[i] = IF i <= k THEN s[i] ELSE IF i = k + 1 THEN e ELSE s[i - 1]
  BY InsertPlaces
<1>4. \A i, j \in 1..n : i < j => s[i].hlc < s[j].hlc
  BY DEF Ascending
<1>5. \A i \in 1..n : IF i <= k THEN s[i].hlc < e.hlc ELSE e.hlc < s[i].hlc
  BY <1>1, <1>2 DEF Between
<1>6. Array!Range(s) = {s[i] : i \in 1..n} /\ Array!Range(r) = {r[i] : i \in 1..(n + 1)}
  <2>1. DOMAIN s = 1..n /\ DOMAIN r = 1..(n + 1)
    <3> HIDE DEF r
    <3> QED BY <1>3
  <2> QED BY <2>1 DEF Array!Range
<1> HIDE DEF n, r
<1>7. k \in 0..n
  BY DEF n
<1>8. ASSUME NEW i \in 1..(n + 1), NEW j \in 1..(n + 1), i < j PROVE r[i].hlc < r[j].hlc
  <2>1. CASE j <= k
    <3>1. i \in 1..n /\ j \in 1..n /\ i <= k
      BY <1>1, <1>7, <1>8, <2>1
    <3>2. r[i] = s[i] /\ r[j] = s[j]
      BY <1>3, <2>1, <3>1
    <3> QED BY <1>4, <1>8, <3>1, <3>2
  <2>2. CASE j = k + 1
    <3>1. i \in 1..n /\ i <= k /\ ~(j <= k)
      BY <1>1, <1>7, <1>8, <2>2
    <3> QED BY <1>3, <1>5, <2>2, <3>1
  <2>3. CASE j > k + 1
    <3>1. j - 1 \in 1..n /\ ~(j <= k) /\ j # k + 1 /\ ~(j - 1 <= k)
      BY <1>1, <1>7, <2>3
    <3>2. r[j] = s[j - 1]
      BY <1>3, <3>1
    <3>3. CASE i <= k
      <4>1. i \in 1..n /\ i < j - 1
        BY <1>1, <1>7, <2>3, <3>3
      <4> QED BY <1>3, <1>4, <3>1, <3>2, <3>3, <4>1
    <3>4. CASE i = k + 1
      <4>1. r[i] = e
        BY <1>3, <1>7, <3>4
      <4> QED BY <1>5, <3>1, <3>2, <4>1
    <3>5. CASE i > k + 1
      <4>1. i - 1 \in 1..n /\ i - 1 < j - 1 /\ ~(i <= k) /\ i # k + 1
        BY <1>1, <1>7, <1>8, <3>5
      <4> QED BY <1>3, <1>4, <3>1, <3>2, <4>1
    <3> QED BY <1>1, <1>7, <3>3, <3>4, <3>5
  <2> QED BY <1>1, <1>7, <2>1, <2>2, <2>3
<1>9. Array!Range(r) \subseteq Array!Range(s) \cup {e}
  <2> SUFFICES ASSUME NEW i \in 1..(n + 1) PROVE r[i] \in {s[j] : j \in 1..n} \cup {e}
    BY <1>6
  <2>1. /\ i <= k => i \in 1..n
        /\ ~(i <= k) /\ i # k + 1 => i - 1 \in 1..n
    BY <1>1, <1>7
  <2> QED BY <1>3, <2>1
<1>10. ASSUME NEW i \in 1..n PROVE s[i] \in Array!Range(r)
  <2>1. CASE i <= k
    <3>1. i \in 1..(n + 1) /\ r[i] = s[i]
      BY <1>1, <1>3, <2>1
    <3> QED BY <1>6, <3>1
  <2>2. CASE ~(i <= k)
    <3>1. i + 1 \in 1..(n + 1) /\ ~(i + 1 <= k) /\ i + 1 # k + 1 /\ (i + 1) - 1 = i
      BY <1>1, <1>7, <2>2
    <3>2. r[i + 1] = s[i]
      BY <1>3, <3>1
    <3> QED BY <1>6, <3>1, <3>2
  <2> QED BY <2>1, <2>2
<1>11. e \in Array!Range(r)
  <2>1. k + 1 \in 1..(n + 1) /\ ~(k + 1 <= k)
    BY <1>1, <1>7
  <2>2. r[k + 1] = e
    BY <1>3, <2>1
  <2> QED BY <1>6, <2>1, <2>2
<1>12. Array!Range(r) = Array!Range(s) \cup {e}
  BY <1>6, <1>9, <1>10, <1>11
<1>13. Ascending(r)
  BY <1>3, <1>8 DEF Ascending
<1> QED BY <1>12, <1>13 DEF r

LEMMA Replaced ==
    ASSUME NEW s \in Seq(Entry), Ascending(s), NEW k \in 1..Len(s), NEW e \in Entry, Between(s, k, e)
    PROVE  /\ Ascending(Array!ReplaceOldest(s, k, e))
           /\ Array!Range(Array!ReplaceOldest(s, k, e)) = (Array!Range(s) \ {s[1]}) \cup {e}
<1> DEFINE n == Len(s)
           r == Array!ReplaceOldest(s, k, e)
<1>1. n \in Nat /\ \A i \in 1..n : s[i] \in Entry /\ s[i].hlc \in Nat
  BY Clocks
<1>2. e.hlc \in Nat
  BY GuardAssumption DEF Entry
<1>3. /\ r \in Seq(Entry) /\ Len(r) = n
      /\ \A i \in 1..n : r[i] = IF i < k THEN s[i + 1] ELSE IF i = k THEN e ELSE s[i]
  BY ReplacePlaces
<1>4. \A i, j \in 1..n : i < j => s[i].hlc < s[j].hlc
  BY DEF Ascending
<1>5. \A i \in 1..n : IF i <= k THEN s[i].hlc < e.hlc ELSE e.hlc < s[i].hlc
  BY <1>1, <1>2 DEF Between
<1>6. /\ Array!Range(s) = {s[i] : i \in 1..n} /\ Array!Range(r) = {r[i] : i \in 1..n}
      /\ \A i, j \in 1..n : s[i].hlc = s[j].hlc => i = j
  <2>1. DOMAIN s = 1..n /\ DOMAIN r = 1..n
    <3> HIDE DEF r
    <3> QED BY <1>3
  <2> QED BY <2>1, ArrayAsSet DEF Array!Range
<1> HIDE DEF n, r
<1>7. k \in 1..n /\ 1 \in 1..n
  BY <1>1 DEF n
<1>8. ASSUME NEW i \in 1..n, NEW j \in 1..n, i < j PROVE r[i].hlc < r[j].hlc
  <2>1. CASE j < k
    <3>1. i + 1 \in 1..n /\ j + 1 \in 1..n /\ i + 1 < j + 1 /\ i < k
      BY <1>1, <1>7, <1>8, <2>1
    <3> QED BY <1>3, <1>4, <2>1, <3>1
  <2>2. CASE j = k
    <3>1. i + 1 \in 1..n /\ i + 1 <= k /\ i < k /\ ~(j < k)
      BY <1>1, <1>7, <1>8, <2>2
    <3> QED BY <1>3, <1>5, <2>2, <3>1
  <2>3. CASE j > k
    <3>1. ~(j < k) /\ j # k /\ ~(j <= k)
      BY <1>1, <1>7, <2>3
    <3>2. r[j] = s[j]
      BY <1>3, <3>1
    <3>3. CASE i < k
      <4>1. i + 1 \in 1..n /\ i + 1 < j
        BY <1>1, <1>7, <2>3, <3>3
      <4> QED BY <1>3, <1>4, <3>2, <3>3, <4>1
    <3>4. CASE i = k
      <4>1. r[i] = e
        BY <1>3, <1>7, <3>4
      <4> QED BY <1>5, <3>1, <3>2, <4>1
    <3>5. CASE i > k
      <4>1. ~(i < k) /\ i # k
        BY <1>1, <1>7, <3>5
      <4> QED BY <1>3, <1>4, <1>8, <3>2, <4>1
    <3> QED BY <1>1, <1>7, <3>3, <3>4, <3>5
  <2> QED BY <1>1, <1>7, <2>1, <2>2, <2>3
<1>9. ASSUME NEW i \in 1..n PROVE r[i] \in (Array!Range(s) \ {s[1]}) \cup {e}
  <2>1. CASE i = k
    BY <1>3, <1>7, <2>1
  <2>2. CASE i < k
    <3>1. i + 1 \in 1..n /\ i + 1 # 1
      BY <1>1, <1>7, <2>2
    <3> QED BY <1>3, <1>6, <1>7, <2>2, <3>1
  <2>3. CASE i > k
    <3>1. ~(i < k) /\ i # k /\ i # 1
      BY <1>1, <1>7, <2>3
    <3> QED BY <1>3, <1>6, <1>7, <3>1
  <2> QED BY <1>1, <1>7, <2>1, <2>2, <2>3
<1>10. ASSUME NEW i \in 1..n, i # 1 PROVE s[i] \in Array!Range(r)
  <2>1. CASE i <= k
    <3>1. i - 1 \in 1..n /\ i - 1 < k /\ (i - 1) + 1 = i
      BY <1>1, <1>7, <1>10, <2>1
    <3>2. r[i - 1] = s[i]
      BY <1>3, <3>1
    <3> QED BY <1>6, <3>1, <3>2
  <2>2. CASE ~(i <= k)
    <3>1. ~(i < k) /\ i # k
      BY <1>1, <1>7, <2>2
    <3> QED BY <1>3, <1>6, <3>1
  <2> QED BY <2>1, <2>2
<1>11. e \in Array!Range(r)
  <2>1. ~(k < k)
    BY <1>1, <1>7
  <2>2. r[k] = e
    BY <1>3, <1>7, <2>1
  <2> QED BY <1>6, <1>7, <2>2
<1>12. Array!Range(r) = (Array!Range(s) \ {s[1]}) \cup {e}
  BY <1>6, <1>9, <1>10, <1>11
<1>13. Ascending(r)
  BY <1>3, <1>8 DEF Ascending
<1> QED BY <1>12, <1>13 DEF r

LEMMA FirstIsOldest ==
    ASSUME NEW s \in Seq(Entry), Ascending(s), Len(s) > 0
    PROVE  Oldest(Array!Range(s)) = s[1]
<1> DEFINE n == Len(s)
           S == Array!Range(s)
<1>1. n \in Nat /\ 1 \in 1..n /\ \A i \in 1..n : s[i] \in Entry /\ s[i].hlc \in Nat
  BY Clocks
<1>2. \A i, j \in 1..n : i < j => s[i].hlc < s[j].hlc
  BY DEF Ascending
<1>3. S = {s[i] : i \in 1..n} /\ S \in SUBSET Entry
  BY ArrayAsSet
<1> HIDE DEF n, S
<1>4. s[1] \in S /\ S # {}
  BY <1>1, <1>3
<1>5. Oldest(S) \in S /\ \A f \in S : Oldest(S).hlc <= f.hlc
  BY <1>3, <1>4, OldestIsLeast
<1>6. PICK i \in 1..n : Oldest(S) = s[i]
  BY <1>3, <1>5
<1>7. s[i].hlc <= s[1].hlc
  BY <1>4, <1>5, <1>6
<1>8. ~(1 < i)
  BY <1>1, <1>2, <1>7
<1>9. i = 1
  BY <1>1, <1>8
<1> QED BY <1>6, <1>9 DEF S

\* Where an event goes in an array, and what the bisection has found of it.
LEMMA Located ==
    ASSUME NEW s \in Seq(Entry), Ascending(s), NEW hlc \in Hlcs, NEW id \in RelayIds
    PROVE  LET k     == Array!LowerBound(s, hlc)
               found == k < Len(s) /\ s[k + 1].hlc = hlc
               e     == [hlc |-> hlc, id |-> id]
           IN  /\ k \in 0..Len(s)
               /\ \A i \in 1..Len(s) : (s[i].hlc < hlc) <=> i <= k
               /\ found <=> \E p \in Array!Range(s) : p.hlc = hlc
               /\ found => k + 1 \in 1..Len(s)
                           /\ (s[k + 1].id = id <=> e \in Array!Range(s))
<1> DEFINE n     == Len(s)
           k     == Array!LowerBound(s, hlc)
           found == k < n /\ s[k + 1].hlc = hlc
           e     == [hlc |-> hlc, id |-> id]
<1>1. n \in Nat /\ \A i \in 1..n : s[i] \in Entry /\ s[i].hlc \in Nat
  BY Clocks
<1>2. hlc \in Nat
  BY GuardAssumption
<1>3. Cuts(s, hlc, 0, n, k)
  BY <1>2, LowerBoundCuts
<1>4. /\ Array!Range(s) = {s[i] : i \in 1..n}
      /\ \A i, j \in 1..n : s[i].hlc = s[j].hlc => i = j
  BY ArrayAsSet
<1>5. \A i, j \in 1..n : i < j => s[i].hlc < s[j].hlc
  BY DEF Ascending
<1> HIDE DEF n, k
<1>6. k \in 0..n /\ \A i \in 1..n : (s[i].hlc < hlc) <=> i <= k
  <2>1. 0 + 1 = 1
    OBVIOUS
  <2> QED BY <1>3, <2>1 DEF Cuts
<1>7. ASSUME found PROVE k + 1 \in 1..n /\ s[k + 1] \in Array!Range(s)
  <2>1. k + 1 \in 1..n
    BY <1>1, <1>6, <1>7
  <2> QED BY <1>4, <2>1
<1>8. ASSUME NEW p \in Array!Range(s), p.hlc = hlc PROVE found /\ p = s[k + 1]
  <2>1. PICK i \in 1..n : p = s[i]
    BY <1>4
  <2>2. ~(i <= k)
    BY <1>1, <1>6, <1>8, <2>1
  <2>3. k + 1 \in 1..n /\ (k + 1 < i \/ i = k + 1) /\ ~(k + 1 <= k) /\ k < n
    BY <1>1, <1>6, <2>2
  <2>4. ~(s[k + 1].hlc < hlc)
    BY <1>6, <2>3
  <2>5. ~(k + 1 < i)
    BY <1>5, <1>8, <2>1, <2>3, <2>4
  <2>6. i = k + 1
    BY <2>3, <2>5
  <2> QED BY <1>8, <2>1, <2>3, <2>6
<1>9. found => (s[k + 1].id = id <=> e \in Array!Range(s))
  <2> SUFFICES ASSUME found PROVE s[k + 1].id = id <=> e \in Array!Range(s)
    OBVIOUS
  <2>1. s[k + 1] \in Array!Range(s) /\ s[k + 1] \in Entry /\ s[k + 1].hlc = hlc
    BY <1>1, <1>7
  <2>2. e.hlc = hlc /\ e.id = id
    OBVIOUS
  <2>3. s[k + 1].id = id => s[k + 1] = e
    BY <2>1 DEF Entry
  <2>4. e \in Array!Range(s) => e = s[k + 1]
    BY <1>8, <2>2
  <2> HIDE DEF e
  <2> QED BY <2>1, <2>2, <2>3, <2>4
<1>10. found <=> \E p \in Array!Range(s) : p.hlc = hlc
  BY <1>7, <1>8
<1> QED BY <1>6, <1>7, <1>9, <1>10 DEF n, k

\* admitKnown on the array decides as on the set of its entries, and leaves an
\* ascending array of what it leaves on the set.
LEMMA KnownAdmits ==
    ASSUME NEW st, Stored(st), NEW hlc \in Hlcs, NEW id \in RelayIds
    PROVE  /\ Array!AdmitKnown(st, hlc, id).decision = Decision(Array!AsSet(st), hlc, id)
           /\ Stored(Array!AdmitKnown(st, hlc, id).state)
           /\ Array!AsSet(Array!AdmitKnown(st, hlc, id).state)
                = AfterAdmit(Array!AsSet(st), hlc, id)
<1> DEFINE s     == st.entries
           n     == Len(s)
           w     == Array!AsSet(st)
           e     == [hlc |-> hlc, id |-> id]
           k     == Array!LowerBound(s, hlc)
           found == k < n /\ s[k + 1].hlc = hlc
           r     == Array!AdmitKnown(st, hlc, id)
<1>1. /\ s \in Seq(Entry) /\ Ascending(s) /\ n <= WindowSize /\ n \in Nat
      /\ st = [retired |-> st.retired, entries |-> s] /\ st.retired \in Hlcs \cup {-1}
  <2>1. s \in Seq(Entry) /\ Ascending(s) /\ n <= WindowSize
    BY DEF Stored, ArrayState
  <2>2. n \in Nat
    BY <2>1
  <2>3. st = [retired |-> st.retired, entries |-> s] /\ st.retired \in Hlcs \cup {-1}
    BY DEF Stored, ArrayState
  <2> QED BY <2>1, <2>2, <2>3
<1>2. hlc \in Nat /\ st.retired \in Nat \cup {-1} /\ WindowSize \in Nat \ {0}
  BY <1>1, GuardAssumption, WindowAssumption
<1>3. w.retired = st.retired /\ w.entries = Array!Range(s)
      /\ w = [retired |-> st.retired, entries |-> Array!Range(s)]
  BY DEF Array!AsSet
<1>4. /\ k \in 0..n
      /\ \A i \in 1..n : (s[i].hlc < hlc) <=> i <= k
      /\ found <=> \E p \in w.entries : p.hlc = hlc
      /\ found => k + 1 \in 1..n /\ (s[k + 1].id = id <=> e \in w.entries)
  BY <1>1, <1>3, Located
<1>5. e \in Entry /\ e.hlc = hlc
  BY DEF Entry
<1>6. Cardinality(w.entries) = n
  BY <1>1, <1>3, ArrayAsSet
<1> HIDE DEF s, n, w, k, e
<1>7. Full(w) <=> ~(n < WindowSize)
  BY <1>1, <1>2, <1>6 DEF Full
<1>8. CASE hlc <= st.retired
  <2>1. r = [decision |-> "retired", state |-> st]
    BY <1>2, <1>8 DEF Array!AdmitKnown
  <2>2. Knowledge(w, hlc, id) = "retired"
    BY <1>3, <1>8 DEF Knowledge
  <2> HIDE DEF r
  <2> QED BY <2>1, <2>2 DEF Decision, AfterAdmit, w, r
<1>9. ASSUME ~(hlc <= st.retired), found
      PROVE  /\ r = [decision |-> IF e \in w.entries THEN "duplicate" ELSE "equivocation", state |-> st]
             /\ Knowledge(w, hlc, id) = IF e \in w.entries THEN "duplicate" ELSE "equivocation"
  <2>1. r = [decision |-> IF s[k + 1].id = id THEN "duplicate" ELSE "equivocation", state |-> st]
    BY <1>9 DEF Array!AdmitKnown, s, n, k
  <2>2. r = [decision |-> IF e \in w.entries THEN "duplicate" ELSE "equivocation", state |-> st]
    <3> HIDE DEF r
    <3> QED BY <1>4, <1>9, <2>1
  <2>3. Knowledge(w, hlc, id) = IF e \in w.entries THEN "duplicate" ELSE "equivocation"
    BY <1>3, <1>4, <1>9 DEF Knowledge, e
  <2> QED BY <2>2, <2>3
<1>10. CASE ~(hlc <= st.retired) /\ found
  <2> HIDE DEF r
  <2>1. Knowledge(w, hlc, id) # "unseen" /\ r.state = st /\ r.decision = Knowledge(w, hlc, id)
    BY <1>9, <1>10
  <2> QED BY <2>1 DEF Decision, AfterAdmit, w, r
<1>11. ASSUME ~(hlc <= st.retired), ~found
       PROVE  /\ Knowledge(w, hlc, id) = "unseen"
              /\ Between(s, k, e)
  <2>1. Knowledge(w, hlc, id) = "unseen"
    BY <1>3, <1>4, <1>11 DEF Knowledge
  <2>2. \A i \in 1..n : s[i] \in w.entries
    BY <1>1, <1>3, ArrayAsSet DEF n
  <2>3. Between(s, k, e)
    BY <1>4, <1>5, <1>11, <2>2 DEF Between, n
  <2> QED BY <2>1, <2>3
<1>12. CASE ~(hlc <= st.retired) /\ ~found /\ n < WindowSize
  <2>1. r = [decision |-> "accepted", state |-> [retired |-> st.retired, entries |-> Array!Insert(s, k, e)]]
    BY <1>1, <1>12 DEF Array!AdmitKnown, s, n, k, e
  <2>2. /\ Ascending(Array!Insert(s, k, e))
        /\ Array!Range(Array!Insert(s, k, e)) = w.entries \cup {e}
        /\ Array!Insert(s, k, e) \in Seq(Entry) /\ Len(Array!Insert(s, k, e)) = n + 1
    BY <1>1, <1>3, <1>4, <1>5, <1>11, <1>12, Inserted, InsertPlaces DEF n
  <2> HIDE DEF r
  <2>3. Stored(r.state)
    BY <1>1, <1>2, <1>12, <2>1, <2>2 DEF Stored, ArrayState
  <2>4. Array!AsSet(r.state) = [retired |-> st.retired, entries |-> w.entries \cup {e}]
    BY <2>1, <2>2 DEF Array!AsSet
  <2>5. AfterAdmit(w, hlc, id) = [retired |-> st.retired, entries |-> w.entries \cup {e}]
    BY <1>3, <1>7, <1>11, <1>12 DEF AfterAdmit, e
  <2>6. r.decision = Decision(w, hlc, id)
    BY <1>7, <1>11, <1>12, <2>1 DEF Decision
  <2> QED BY <2>3, <2>4, <2>5, <2>6 DEF w, r
<1>13. ASSUME ~(hlc <= st.retired), ~found, ~(n < WindowSize)
       PROVE  /\ OlderThanAll(w, hlc) <=> k = 0
              /\ n > 0 /\ n \in 1..n
  <2>1. n > 0 /\ 1 \in 1..n /\ n \in 1..n
    BY <1>1, <1>2, <1>13
  <2>2. w.entries = {s[i] : i \in 1..n} /\ \A i \in 1..n : s[i].hlc \in Nat
    BY <1>1, <1>3, ArrayAsSet, Clocks DEF n
  <2>3. \A i \in 1..n : s[i].hlc # hlc
    BY <1>5, <1>11, <1>13 DEF Between, n
  <2>4. ASSUME k = 0 PROVE OlderThanAll(w, hlc)
    <3>1. \A i \in 1..n : ~(i <= k)
      BY <2>4
    <3>2. \A i \in 1..n : hlc < s[i].hlc
      BY <1>2, <1>4, <2>2, <2>3, <3>1
    <3> QED BY <2>2, <3>2 DEF OlderThanAll
  <2>5. ASSUME k # 0 PROVE ~OlderThanAll(w, hlc)
    <3>1. 1 <= k
      BY <1>1, <1>4, <2>5
    <3>2. s[1].hlc < hlc /\ s[1] \in w.entries
      BY <1>4, <2>1, <2>2, <3>1
    <3>3. ~(hlc < s[1].hlc)
      BY <1>2, <2>1, <2>2, <3>2
    <3> QED BY <3>2, <3>3 DEF OlderThanAll
  <2> QED BY <2>1, <2>4, <2>5
<1>14. CASE ~(hlc <= st.retired) /\ ~found /\ ~(n < WindowSize) /\ k = 0
  <2>1. r = [decision |-> "retired", state |-> [retired |-> Array!Advance(st.retired, hlc), entries |-> s]]
    BY <1>1, <1>14 DEF Array!AdmitKnown, s, n, k
  <2>2. Array!Advance(st.retired, hlc) = AdvanceWatermark(st.retired, hlc)
    BY <1>2 DEF Array!Advance, AdvanceWatermark
  <2>3. AdvanceWatermark(st.retired, hlc) \in Hlcs \cup {-1}
    BY <1>1 DEF AdvanceWatermark
  <2> HIDE DEF r
  <2>4. Stored(r.state)
    BY <1>1, <2>1, <2>2, <2>3 DEF Stored, ArrayState, n
  <2>5. Array!AsSet(r.state) = [retired |-> AdvanceWatermark(st.retired, hlc), entries |-> w.entries]
    BY <1>3, <2>1, <2>2 DEF Array!AsSet
  <2>6. AfterAdmit(w, hlc, id) = [retired |-> AdvanceWatermark(st.retired, hlc), entries |-> w.entries]
    BY <1>3, <1>7, <1>11, <1>13, <1>14 DEF AfterAdmit
  <2>7. r.decision = Decision(w, hlc, id)
    BY <1>7, <1>11, <1>13, <1>14, <2>1 DEF Decision
  <2> QED BY <2>4, <2>5, <2>6, <2>7 DEF w, r
<1>15. CASE ~(hlc <= st.retired) /\ ~found /\ ~(n < WindowSize) /\ k # 0
  <2>1. r = [decision |-> "accepted",
             state    |-> [retired |-> Array!Advance(st.retired, s[1].hlc),
                           entries |-> Array!ReplaceOldest(s, k, e)]]
    BY <1>15 DEF Array!AdmitKnown, s, n, k, e
  <2>2. k \in 1..n /\ 1 \in 1..n
    BY <1>1, <1>4, <1>15
  <2>3. /\ Ascending(Array!ReplaceOldest(s, k, e))
        /\ Array!Range(Array!ReplaceOldest(s, k, e)) = (w.entries \ {s[1]}) \cup {e}
        /\ Array!ReplaceOldest(s, k, e) \in Seq(Entry) /\ Len(Array!ReplaceOldest(s, k, e)) = n
    <3>1. k \in 1..Len(s) /\ Between(s, k, e)
      BY <1>11, <1>15, <2>2 DEF n
    <3>2. /\ Ascending(Array!ReplaceOldest(s, k, e))
          /\ Array!Range(Array!ReplaceOldest(s, k, e)) = (Array!Range(s) \ {s[1]}) \cup {e}
      BY <1>1, <1>5, <3>1, Replaced
    <3>3. Array!ReplaceOldest(s, k, e) \in Seq(Entry) /\ Len(Array!ReplaceOldest(s, k, e)) = n
      BY <1>1, <1>5, <3>1, ReplacePlaces DEF n
    <3> QED BY <1>3, <3>2, <3>3
  <2>4. Oldest(w.entries) = s[1]
    BY <1>1, <1>3, <1>13, <1>15, FirstIsOldest DEF n
  <2>5. s[1] \in Entry /\ s[1].hlc \in Nat /\ s[1].hlc \in Hlcs
    <3>1. s[1] \in Entry /\ s[1].hlc \in Nat
      BY <1>1, <2>2, Clocks DEF n
    <3> QED BY <3>1 DEF Entry
  <2>6. Array!Advance(st.retired, s[1].hlc) = AdvanceWatermark(st.retired, s[1].hlc)
    BY <1>2, <2>5 DEF Array!Advance, AdvanceWatermark
  <2>7. AdvanceWatermark(st.retired, s[1].hlc) \in Hlcs \cup {-1}
    BY <1>1, <2>5 DEF AdvanceWatermark
  <2> HIDE DEF r
  <2>8. Stored(r.state)
    BY <1>1, <2>1, <2>3, <2>6, <2>7 DEF Stored, ArrayState
  <2>9. Array!AsSet(r.state) = [retired |-> AdvanceWatermark(st.retired, s[1].hlc),
                                entries |-> (w.entries \ {s[1]}) \cup {e}]
    BY <2>1, <2>3, <2>6 DEF Array!AsSet
  <2>10. AfterAdmit(w, hlc, id) = [retired |-> AdvanceWatermark(st.retired, s[1].hlc),
                                   entries |-> (w.entries \ {s[1]}) \cup {e}]
    BY <1>3, <1>7, <1>11, <1>13, <1>15, <2>4 DEF AfterAdmit, e
  <2>11. r.decision = Decision(w, hlc, id)
    BY <1>7, <1>11, <1>13, <1>15, <2>1 DEF Decision
  <2> QED BY <2>8, <2>9, <2>10, <2>11 DEF w, r
<1> QED BY <1>8, <1>10, <1>12, <1>14, <1>15

-----------------------------------------------------------------------------
(* The refinement. *)

\* Every author's array is ascending and within the window.
ArrayInv == /\ DOMAIN arrays \subseteq Origins
            /\ arrays = [o \in DOMAIN arrays |-> arrays[o]]
            /\ \A o \in DOMAIN arrays : Stored(arrays[o])

AsSets(g) == [o \in DOMAIN g |-> Array!AsSet(g[o])]

\* Guard.admit over arrays and over their sets.
LEMMA AdmitsAlike ==
    ASSUME NEW g, g = [o \in DOMAIN g |-> g[o]], \A o \in DOMAIN g : Stored(g[o]),
           NEW o \in Origins, NEW hlc \in Hlcs, NEW id \in RelayIds
    PROVE  LET r == Array!Admit(g, o, hlc, id)
           IN  /\ r.decision = Verdict(AsSets(g), o, hlc, id)
               /\ AsSets(r.guard) = Admitted(AsSets(g), o, hlc, id)
               /\ r.guard = [p \in DOMAIN r.guard |-> r.guard[p]]
               /\ DOMAIN r.guard \subseteq DOMAIN g \cup {o}
               /\ \A p \in DOMAIN r.guard : Stored(r.guard[p])
<1> DEFINE r == Array!Admit(g, o, hlc, id)
           k == Array!AdmitKnown(g[o], hlc, id)
<1>1. DOMAIN AsSets(g) = DOMAIN g /\ \A p \in DOMAIN g : AsSets(g)[p] = Array!AsSet(g[p])
  BY DEF AsSets
<1>2. CASE o \in DOMAIN g
  <2>1. r = [decision |-> k.decision, guard |-> [g EXCEPT ![o] = k.state]]
    BY <1>2 DEF Array!Admit
  <2>2. /\ k.decision = Decision(AsSets(g)[o], hlc, id) /\ Stored(k.state)
        /\ Array!AsSet(k.state) = AfterAdmit(AsSets(g)[o], hlc, id)
    BY <1>1, <1>2, KnownAdmits
  <2> HIDE DEF k, r
  <2>3. r.decision = Verdict(AsSets(g), o, hlc, id)
    BY <1>1, <1>2, <2>1, <2>2 DEF Verdict, Knows
  <2>4. r.guard = [g EXCEPT ![o] = k.state] /\ DOMAIN r.guard = DOMAIN g
        /\ r.guard[o] = k.state /\ \A p \in DOMAIN g : p # o => r.guard[p] = g[p]
    BY <1>2, <2>1
  <2>5. AsSets(r.guard) = Admitted(AsSets(g), o, hlc, id)
    <3>1. Admitted(AsSets(g), o, hlc, id)
            = [p \in DOMAIN g |-> IF p = o THEN Array!AsSet(k.state) ELSE Array!AsSet(g[p])]
      BY <1>1, <1>2, <2>2 DEF Admitted, Knows, SetOrigin
    <3>2. AsSets(r.guard) = [p \in DOMAIN g |-> IF p = o THEN Array!AsSet(k.state) ELSE Array!AsSet(g[p])]
      BY <2>4 DEF AsSets
    <3> QED BY <3>1, <3>2
  <2>6. r.guard = [p \in DOMAIN r.guard |-> r.guard[p]]
    BY <2>4
  <2> QED BY <2>2, <2>3, <2>4, <2>5, <2>6 DEF r
<1>3. CASE o \notin DOMAIN g /\ Cardinality(DOMAIN g) >= MaxOrigins
  <2>1. r = [decision |-> "origin_capacity", guard |-> g]
    BY <1>3, SameCardinality DEF Array!Admit
  <2> HIDE DEF r
  <2> QED BY <1>1, <1>3, <2>1 DEF Verdict, Admitted, Knows, r
<1>4. CASE o \notin DOMAIN g /\ ~(Cardinality(DOMAIN g) >= MaxOrigins)
  <2> DEFINE e   == [hlc |-> hlc, id |-> id]
             new == [retired |-> -1, entries |-> <<e>>]
             all == DOMAIN g \cup {o}
             h   == [p \in all |-> IF p = o THEN new ELSE g[p]]
  <2>1. r = [decision |-> "accepted", guard |-> h]
    BY <1>4, SameCardinality DEF Array!Admit
  <2>2. Stored(new)
    <3>1. e \in Entry
      BY DEF Entry
    <3>2. <<e>> \in Seq(Entry) /\ Len(<<e>>) = 1
      BY <3>1
    <3>3. Ascending(<<e>>)
      BY <3>2 DEF Ascending
    <3> HIDE DEF e
    <3> QED BY <3>2, <3>3, WindowAssumption DEF Stored, ArrayState
  <2>3. Array!AsSet(new) = NewOrigin(hlc, id)
    <3>1. Array!Range(<<e>>) = {e}
      BY DEF Array!Range
    <3> HIDE DEF e
    <3>2. Array!AsSet(new) = [retired |-> -1, entries |-> {e}]
      BY <3>1 DEF Array!AsSet
    <3> QED BY <3>2 DEF NewOrigin, NoWatermark, e
  <2> HIDE DEF r, new
  <2>4. h[o] = new /\ \A p \in DOMAIN g : h[p] = g[p] /\ p # o
    BY <1>4
  <2>5. AsSets(h) = [p \in all |-> IF p = o THEN NewOrigin(hlc, id) ELSE Array!AsSet(g[p])]
    BY <2>3 DEF AsSets
  <2>6. Admitted(AsSets(g), o, hlc, id)
          = [p \in all |-> IF p = o THEN NewOrigin(hlc, id) ELSE Array!AsSet(g[p])]
    BY <1>1, <1>4 DEF Admitted, Knows, SetOrigin
  <2>7. \A p \in all : Stored(h[p])
    BY <2>2, <2>4
  <2>8. DOMAIN h = all /\ h = [p \in DOMAIN h |-> h[p]]
    OBVIOUS
  <2> HIDE DEF h
  <2>9. r.decision = Verdict(AsSets(g), o, hlc, id)
    BY <1>1, <1>4, <2>1 DEF Verdict, Knows
  <2> QED BY <2>1, <2>5, <2>6, <2>7, <2>8, <2>9 DEF r
<1> QED BY <1>2, <1>3, <1>4

LEMMA ArrayInit == Array!Init => ArrayInv /\ Array!Set!Init
<1> SUFFICES ASSUME Array!Init PROVE ArrayInv /\ Array!Set!Init
  OBVIOUS
<1>1. DOMAIN arrays = {} /\ arrays = [o \in {} |-> {}]
  BY DEF Array!Init
<1>2. ArrayInv
  BY <1>1 DEF ArrayInv
<1>3. [o \in DOMAIN arrays |-> Array!AsSet(arrays[o])] = [o \in {} |-> {}]
  BY <1>1
<1>4. Array!Set!Init
  BY <1>3 DEF Array!Init, Array!Set!Init, Array!Set!EmptyGuard
<1> QED BY <1>2, <1>4

LEMMA ArrayStep ==
    ASSUME ArrayInv, [Array!Next]_(Array!vars)
    PROVE  ArrayInv' /\ [Array!Set!Next]_(Array!Set!vars)
<1>1. CASE UNCHANGED Array!vars
  <2>1. arrays' = arrays /\ capsule' = capsule /\ accepted' = accepted /\ deliveries' = deliveries
    BY <1>1 DEF Array!vars
  <2> QED BY <2>1 DEF ArrayInv, Array!Set!vars
<1>2. ASSUME NEW e \in Array!Set!Events, Array!AdmitMessage(e)
      PROVE  ArrayInv' /\ Array!Set!AdmitMessage(e)
  <2> DEFINE r == Array!Admit(arrays, e.origin, e.hlc, e.id)
  <2>1. e.origin \in Origins /\ e.hlc \in Hlcs /\ e.id \in RelayIds
    BY DEF Array!Set!Events
  <2>2. /\ arrays = [o \in DOMAIN arrays |-> arrays[o]] /\ DOMAIN arrays \subseteq Origins
        /\ \A o \in DOMAIN arrays : Stored(arrays[o])
    BY DEF ArrayInv
  <2>3. /\ r.decision = Verdict(AsSets(arrays), e.origin, e.hlc, e.id)
        /\ AsSets(r.guard) = Admitted(AsSets(arrays), e.origin, e.hlc, e.id)
        /\ r.guard = [p \in DOMAIN r.guard |-> r.guard[p]]
        /\ DOMAIN r.guard \subseteq DOMAIN arrays \cup {e.origin}
        /\ \A p \in DOMAIN r.guard : Stored(r.guard[p])
    BY <2>1, <2>2, AdmitsAlike
  <2>4. /\ capsule = NoCapsule /\ arrays' = r.guard /\ capsule' = capsule
        /\ IF r.decision = "accepted" THEN Array!Set!Deliver(e) ELSE UNCHANGED <<accepted, deliveries>>
    BY <1>2 DEF Array!AdmitMessage
  <2> HIDE DEF r
  <2>5. ArrayInv'
    BY <2>1, <2>2, <2>3, <2>4 DEF ArrayInv
  <2>6. /\ AsSets(arrays') = Array!Set!Admitted(AsSets(arrays), e.origin, e.hlc, e.id)
        /\ r.decision = Array!Set!Verdict(AsSets(arrays), e.origin, e.hlc, e.id)
    BY <2>3, <2>4, SameVerdict
  <2>7. Array!Set!AdmitMessage(e)
    BY <2>4, <2>6 DEF Array!Set!AdmitMessage, Array!Set!Locked, AsSets
  <2> QED BY <2>5, <2>7
<1>3. CASE Array!Next
  <2>1. PICK e \in Array!Set!Events : Array!AdmitMessage(e)
    BY <1>3 DEF Array!Next
  <2>2. ArrayInv' /\ Array!Set!AdmitMessage(e)
    BY <1>2, <2>1
  <2> QED BY <2>2 DEF Array!Set!Next
<1> QED BY <1>1, <1>3

\* Guard.admit as the code stores it: with bisection and in-place shifts every
\* step of the array guard is a step of the guard over sets, so that the
\* theorems above hold of the arrays.
THEOREM ArrayImplementsWindow == Array!Spec => Array!ImplementsWindow
<1>1. ArrayInv /\ [Array!Next]_(Array!vars) => ArrayInv' /\ [Array!Set!Next]_(Array!Set!vars)
  BY ArrayStep
<1> QED BY <1>1, ArrayInit, PTL DEF Array!Spec, Array!ImplementsWindow, Array!Set!Spec

=============================================================================
