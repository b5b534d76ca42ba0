------------------------- MODULE MCEventLogDelivery -------------------------
(***************************************************************************)
(* Instances of EventLogDelivery.  Three authors with one event each and    *)
(* one target: two of them, whose target acknowledges, or all three, whose  *)
(* target need not.  Two authors alone, and one event with two targets.  An *)
(* author may author again as soon as its event retired.                   *)
(***************************************************************************)
EXTENDS EventLogDelivery

MCIds      == 1..3
MCOriginOf == <<1, 2, 3>>
MCHlcOf    == <<1, 1, 1>>
MCPair     == {"self", "a"}
MCBoth     == {MCPair}
MCTwo      == {[ids |-> 1..2, repeats |-> 1..2, attentive |-> TRUE]}
MCCourses  == MCTwo \cup {[ids |-> 1..3, repeats |-> {1}, attentive |-> FALSE]}

MCOneId    == {1}
MCOne      == <<1>>
MCThree    == {"self", "a", "b"}
MCAllThree == {MCThree}
MCSingle   == {[ids |-> {1}, repeats |-> {1}, attentive |-> TRUE]}

=============================================================================
