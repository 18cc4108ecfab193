---------------------------- MODULE MCPortForward ----------------------------
(* PortForward for TLC: one pod is never ready, the other comes and goes.  *)
EXTENDS PortForward, TLC

CONSTANTS http, admin, pod1, pod2, c1, c2

Endpoint(p, r) == [pod |-> p, ready |-> r]

TwoLists == {<<Endpoint(pod1, FALSE), Endpoint(pod2, TRUE)>>, <<Endpoint(pod1, FALSE)>>}
=============================================================================
