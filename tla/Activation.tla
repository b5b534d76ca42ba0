----------------------------- MODULE Activation -----------------------------
(***************************************************************************)
(* The MESSAGE_V2 authoring authority of one node                          *)
(* (src/daemon/relay_v2_activation.zig) over a chain of hot upgrades.  The *)
(* operator edits the configuration at any time; a hot upgrade builds the  *)
(* successor's state from it and is refused unless the transition from the *)
(* carried state is permitted; a cold boot carries nothing and starts a    *)
(* new chain.  A roster is its canonical digest.                           *)
(***************************************************************************)
EXTENDS Integers

CONSTANTS Rosters,   \* digests of complete rosters
          NoRoster,  \* the zero digest, and the empty roster of a configuration
          MaxEpoch   \* bound of the model

ASSUME ActivationAssumption == NoRoster \notin Rosters /\ MaxEpoch \in Nat

VARIABLES
    state,   \* the State the running process carries
    config,  \* mode, epoch and roster in the configuration file
    booted,  \* history: the state of the cold boot that began the chain
    carried  \* history: the states carried by the processes of the chain

vars == <<state, config, booted, carried>>

State == [mode : {"compat", "active"}, epoch : 0..MaxEpoch, digest : Rosters \cup {NoRoster}]

\* Slip: an epoch without a roster passes.
ValidHalfPlan(s) == s.mode = "active" => s.epoch # 0

\* validate, and the same tests of stateFromConfig on the configuration.
Valid(s) == /\ s.epoch = 0 <=> s.digest = NoRoster
            /\ s.mode = "active" => s.epoch # 0

Default == [mode |-> "compat", epoch |-> 0, digest |-> NoRoster]

Init ==
    /\ config = Default
    /\ state = Default /\ booted = Default
    /\ carried = {Default}

SamePlan(p, s) == p.epoch = s.epoch /\ p.digest = s.digest

\* Slip: a plan of the same epoch counts as newer.
PermitsRebinding(p, s) ==
    /\ Valid(p) /\ Valid(s)
    /\ \/ p.mode = "compat" /\ s.mode = "compat" /\ (p.epoch = 0 \/ s.epoch >= p.epoch)
       \/ s.mode = "active" /\ p.epoch # 0 /\ SamePlan(p, s)

\* Slip: a compatible node supersedes its plan with any other epoch.
PermitsOlder(p, s) ==
    /\ Valid(p) /\ Valid(s)
    /\ \/ p.mode = "compat" /\ s.mode = "compat"
          /\ (p.epoch = 0 \/ s.epoch # p.epoch \/ SamePlan(p, s))
       \/ s.mode = "active" /\ p.epoch # 0 /\ SamePlan(p, s)

\* Slip: only the plan is compared, so the mode may go back.
PermitsDowngrade(p, s) ==
    /\ Valid(p) /\ Valid(s)
    /\ \/ p.mode = "compat" /\ s.mode = "compat" /\ (p.epoch = 0 \/ s.epoch > p.epoch)
       \/ p.epoch # 0 /\ SamePlan(p, s)

\* Slip: a node without a plan activates in one step.
PermitsUnstaged(p, s) ==
    /\ Valid(p) /\ Valid(s)
    /\ \/ p.mode = "compat" /\ (p.epoch = 0 \/ SamePlan(p, s))
       \/ p.mode = "compat" /\ s.mode = "compat" /\ s.epoch > p.epoch
       \/ p.mode = "active" /\ s.mode = "active" /\ SamePlan(p, s)

PermitsHandoff(p, s) ==
    /\ Valid(p) /\ Valid(s)
    /\ \/ /\ p.mode = "compat" /\ s.mode = "compat"
          /\ p.epoch = 0 \/ s.epoch > p.epoch \/ SamePlan(p, s)
       \/ /\ p.mode = "compat" /\ s.mode = "active"
          /\ p.epoch # 0 /\ SamePlan(p, s)
       \/ /\ p.mode = "active" /\ s.mode = "active"
          /\ SamePlan(p, s)

\* The operator changes the file in any way.
Configure ==
    /\ config' \in State
    /\ UNCHANGED <<state, booted, carried>>

HotUpgrade ==
    /\ PermitsHandoff(state, config)
    /\ state' = config
    /\ carried' = carried \cup {config}
    /\ UNCHANGED <<config, booted>>

ColdBoot ==
    /\ Valid(config)
    /\ state' = config
    /\ booted' = config
    /\ carried' = {config}
    /\ UNCHANGED config

Next == Configure \/ HotUpgrade \/ ColdBoot

Spec == Init /\ [][Next]_vars

-----------------------------------------------------------------------------

\* The type invariant: in particular no process ever carries half a plan.
WholePlan == {s \in State : s.epoch = 0 <=> s.digest = NoRoster}

TypeOK ==
    /\ config \in State
    /\ booted \in carried /\ state \in carried
    /\ carried \subseteq WholePlan

\* "A staged epoch is immutable: it cannot be removed, decreased, or rebound":
\* over the whole chain an epoch stands for one roster, whatever was staged,
\* superseded or refused in between.
OneRosterPerEpoch == \A s, t \in carried : s.epoch = t.epoch => s.digest = t.digest

\* The plan that is carried is the newest that the chain ever carried.
NewestPlanCarried == \A s \in carried : s.epoch <= state.epoch

\* "Active nodes may never hot-downgrade": once some process of the chain was
\* active, all later ones are in that same state.
ActiveIsFinal == \A s \in carried : s.mode = "active" => state = s

\* A chain becomes active only on a plan that one of its compatible processes
\* carried, unless the operator cold-booted it active.
StagedBeforeActive ==
    state.mode = "active" => state = booted \/ [state EXCEPT !.mode = "compat"] \in carried

=============================================================================
