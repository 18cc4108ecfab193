---------------------------- MODULE MCRepairPanel ----------------------------
(* RepairPanel for TLC.  Three situations: nothing wrong, a dead webhook   *)
(* beside an object held by a finalizer, and a release left pending.       *)
EXTENDS RepairPanel, TLC

CONSTANTS a, b, hook, p1, p2, m1, m2

Quiet == [object |-> [deleting |-> FALSE, finalizers |-> FALSE],
          namespace |-> [name |-> a, deleting |-> FALSE, finalizers |-> FALSE],
          releases |-> <<>>, configs |-> <<>>]

Held == [Quiet EXCEPT !.object = [deleting |-> TRUE, finalizers |-> TRUE],
           !.configs = <<[name |-> hook, hooks |-> <<[closed |-> FALSE, dead |-> TRUE],
                                                     [closed |-> TRUE, dead |-> TRUE]>>]>>]

TwoSituations == {Quiet, Held}

OneMessage == {{"webhook unreachable", "retries exhausted"}}
=============================================================================
