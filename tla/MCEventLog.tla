---------------------------- MODULE MCEventLog -----------------------------
(***************************************************************************)
(* Instances of EventLog.  Safety: three events, two of one author and one *)
(* of another; this node and two neighbours; room for every row except in  *)
(* the aggregate bound, which the three largest rows with both cursors     *)
(* exceed.                                                                 *)
(***************************************************************************)
EXTENDS EventLog

MCIds      == 1..3
MCOriginOf == <<1, 1, 2>>
MCHlcOf    == <<1, 2, 1>>
MCNodes    == {"self", "a", "b"}
MCMemberships == {{"self", "a"}, {"self", "a", "b"}}

=============================================================================
