------------------------------ MODULE MCState ------------------------------
(***************************************************************************)
(* What the families of the run `Rules` share: a case, what is made of it, *)
(* and whether it was.  A case is a record tagged with what it is about.   *)
(***************************************************************************)
VARIABLES cluster,      \* the case: what was fetched, and what it is fetched for
          reasons,      \* what is made of it
          assessed      \* was it?

About(what) == cluster.about = what
Judged(what) == assessed /\ About(what)
=============================================================================
