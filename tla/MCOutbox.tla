------------------------------ MODULE MCOutbox ------------------------------
(***************************************************************************)
(* Instances of Outbox: the retransmission of up to three obligations of   *)
(* two ids, and of up to three receipts.                                   *)
(***************************************************************************)
EXTENDS Outbox

Call(peers, receipt, excluded) == [peers |-> peers, receipt |-> receipt, excluded |-> excluded]

\* An authored event for one neighbour and a hop to come, one that came from b
\* for a hop to come, one that goes to c only, and relayed ones that go nowhere
\* else: only their ingress gets its receipt.
MCCalls ==
    { Call(<<"b", "unbound", "b">>, "none", "local"),
      Call(<<"unbound">>, "none", "b"),
      Call(<<"c">>, "none", "b"),
      Call(<<>>, "b", "b"),
      Call(<<>>, "c", "c") }

=============================================================================
