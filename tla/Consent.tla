------------------------------- MODULE Consent -------------------------------
(***************************************************************************)
(* What a guarded panel promises, whatever its keys: an act starts only    *)
(* when the user has agreed to that very act since the panel was opened,   *)
(* and at most once per opening.  The panels that ask before they write    *)
(* (DeletePanel, RepairPanel) implement it.                                *)
(***************************************************************************)
EXTENDS Naturals

CONSTANTS Acts, None     \* None is no act

VARIABLES opening,    \* openings so far
          agreed,     \* the act agreed to and not started, or None
          started     \* the act started in this opening, or None

vars == <<opening, agreed, started>>

Init == opening = 0 /\ agreed = None /\ started = None

Open ==
    /\ opening' = opening + 1
    /\ agreed' = None
    /\ started' = None

Agree ==
    /\ started = None
    /\ agreed' \in Acts
    /\ UNCHANGED <<opening, started>>

Withdraw ==
    /\ agreed' = None
    /\ UNCHANGED <<opening, started>>

Start ==
    /\ agreed # None /\ started = None
    /\ started' = agreed
    /\ agreed' = None
    /\ UNCHANGED opening

Next == Open \/ Agree \/ Withdraw \/ Start

Spec == Init /\ [][Next]_vars
=============================================================================
