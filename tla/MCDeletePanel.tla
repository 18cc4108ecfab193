---------------------------- MODULE MCDeletePanel ----------------------------
(* DeletePanel for TLC.  A plain object, one a tool deploys, and one with a *)
(* finalizer: no warning, a danger, an information and a slow end.          *)
EXTENDS DeletePanel, TLC

CONSTANTS a, b, c1, c2, d1, d2, r1

Plain == [kind |-> "ConfigMap", stamps |-> {}, phase |-> "none", owners |-> <<>>,
          system |-> FALSE, finalizers |-> FALSE]

TwoManifests == {Plain, [Plain EXCEPT !.stamps = {"helm release"}]}
ThreeManifests == TwoManifests \cup {[Plain EXCEPT !.finalizers = TRUE]}
=============================================================================
