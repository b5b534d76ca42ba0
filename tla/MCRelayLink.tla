---------------------------- MODULE MCRelayLink -----------------------------
(***************************************************************************)
(* Instances of RelayLink: two events of one end with a lost connection or *)
(* an upgrade, and one event with more of both.                            *)
(***************************************************************************)
EXTENDS RelayLink

MCIds     == {1, 2}
MCByA     == [i \in MCIds |-> "a"]

Course(ids, losses, upgrades) == [ids |-> ids, breaks |-> losses, resumes |-> upgrades]
MCCourses == {Course({1, 2}, 1, 0), Course({1, 2}, 0, 1), Course({1}, 2, 2)}

=============================================================================
