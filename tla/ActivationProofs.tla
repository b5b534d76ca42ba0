-------------------------- MODULE ActivationProofs --------------------------
(***************************************************************************)
(* Proofs about Activation, for every set of rosters and every bound on     *)
(* the epochs.  The four invariants hold together and are inductive with    *)
(* the type invariant: what was carried before is compared with the state   *)
(* through NewestPlanCarried, and two states of one epoch through           *)
(* OneRosterPerEpoch.                                                       *)
(***************************************************************************)
EXTENDS Activation, TLAPS

\* The conjunction that is inductive.
ChainInv == TypeOK /\ OneRosterPerEpoch /\ NewestPlanCarried /\ ActiveIsFinal
            /\ StagedBeforeActive

\* A permitted transition keeps or raises the epoch, keeps the roster of an
\* epoch it keeps, and leaves an active state only for itself.
LEMMA HandoffRises ==
    ASSUME NEW p \in WholePlan, NEW s \in State, PermitsHandoff(p, s)
    PROVE  /\ s \in WholePlan
           /\ p.epoch <= s.epoch
           /\ p.epoch = s.epoch /\ p.epoch # 0 => p.digest = s.digest
           /\ p.mode = "active" => p = s
           /\ s.mode = "active" => s = p \/ p = [s EXCEPT !.mode = "compat"]
BY DEF PermitsHandoff, Valid, SamePlan, WholePlan, State

LEMMA ChainInit == Init => ChainInv
<1>1. ASSUME Init PROVE Default \in WholePlan
  BY ActivationAssumption DEF Default, WholePlan, State
<1> QED BY <1>1 DEF Init, ChainInv, TypeOK, OneRosterPerEpoch, NewestPlanCarried,
                    ActiveIsFinal, StagedBeforeActive, Default, WholePlan, State

LEMMA ChainStep == ChainInv /\ [Next]_vars => ChainInv'
<1> SUFFICES ASSUME ChainInv, [Next]_vars PROVE ChainInv'
  OBVIOUS
<1> USE DEF ChainInv
<1>1. CASE Configure
  BY <1>1 DEF Configure, TypeOK, OneRosterPerEpoch, NewestPlanCarried, ActiveIsFinal,
              StagedBeforeActive
<1>2. CASE HotUpgrade
  <2>1. state \in WholePlan /\ config \in State /\ PermitsHandoff(state, config)
    BY <1>2 DEF HotUpgrade, TypeOK
  <2>2. /\ config \in WholePlan
        /\ state.epoch <= config.epoch
        /\ state.epoch = config.epoch /\ state.epoch # 0 => state.digest = config.digest
        /\ state.mode = "active" => state = config
        /\ config.mode = "active" => config = state
                                     \/ state = [config EXCEPT !.mode = "compat"]
    BY <2>1, HandoffRises
  <2>3. state' = config /\ carried' = carried \cup {config} /\ config' = config
        /\ booted' = booted
    BY <1>2 DEF HotUpgrade
  <2>4. TypeOK'
    BY <2>1, <2>2, <2>3 DEF TypeOK
  <2>5. NewestPlanCarried'
    BY <2>1, <2>2, <2>3 DEF NewestPlanCarried, TypeOK, WholePlan, State
  <2>6. ASSUME NEW s \in carried, s.epoch = config.epoch
        PROVE  s.digest = config.digest
    <3>1. s.epoch <= state.epoch /\ s \in WholePlan
      BY DEF NewestPlanCarried, TypeOK
    <3>2. s.epoch = state.epoch
      BY <2>1, <2>2, <2>6, <3>1 DEF WholePlan, State
    <3>3. s.digest = state.digest
      BY <3>2 DEF OneRosterPerEpoch, TypeOK
    <3>4. CASE config.epoch = 0
      BY <2>2, <2>6, <3>1, <3>4 DEF WholePlan
    <3>5. CASE config.epoch # 0
      BY <2>2, <2>6, <3>2, <3>3, <3>5
    <3> QED BY <3>4, <3>5
  <2>7. OneRosterPerEpoch'
    BY <2>3, <2>6 DEF OneRosterPerEpoch
  <2>8. ActiveIsFinal'
    BY <2>2, <2>3 DEF ActiveIsFinal
  <2>9. StagedBeforeActive'
    BY <2>2, <2>3 DEF StagedBeforeActive, TypeOK
  <2> QED BY <2>4, <2>5, <2>7, <2>8, <2>9
<1>3. CASE ColdBoot
  <2>1. config \in WholePlan
    BY <1>3 DEF ColdBoot, Valid, TypeOK, WholePlan
  <2> QED
    BY <1>3, <2>1 DEF ColdBoot, TypeOK, OneRosterPerEpoch, NewestPlanCarried,
                      ActiveIsFinal, StagedBeforeActive, WholePlan, State
<1>4. CASE UNCHANGED vars
  BY <1>4 DEF vars, TypeOK, OneRosterPerEpoch, NewestPlanCarried, ActiveIsFinal,
              StagedBeforeActive
<1> QED BY <1>1, <1>2, <1>3, <1>4 DEF Next

\* The chain of processes keeps all its promises.
THEOREM ChainInvariant == Spec => []ChainInv
<1> QED BY ChainInit, ChainStep, PTL DEF Spec

\* An epoch stands for one roster over a whole chain of hot upgrades, whatever
\* was staged, superseded or refused in between.
THEOREM EpochBindsRoster == Spec => []OneRosterPerEpoch
<1>1. ChainInv => OneRosterPerEpoch
  BY DEF ChainInv
<1> QED BY <1>1, ChainInvariant, PTL

\* No process of a chain leaves the active state of an earlier one.
THEOREM NoHotDowngrade == Spec => []ActiveIsFinal
<1>1. ChainInv => ActiveIsFinal
  BY DEF ChainInv
<1> QED BY <1>1, ChainInvariant, PTL

\* Authoring is activated by a hot upgrade only on a plan that was staged.
THEOREM ActivationWasStaged == Spec => []StagedBeforeActive
<1>1. ChainInv => StagedBeforeActive
  BY DEF ChainInv
<1> QED BY <1>1, ChainInvariant, PTL

\* No plan of a chain is above the one that the running process carries.
THEOREM NewestIsCarried == Spec => []NewestPlanCarried
<1>1. ChainInv => NewestPlanCarried
  BY DEF ChainInv
<1> QED BY <1>1, ChainInvariant, PTL

=============================================================================
