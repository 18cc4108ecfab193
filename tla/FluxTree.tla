------------------------------ MODULE FluxTree ------------------------------
(***************************************************************************)
(* The dependency tree of the Flux view (src/flux.rs: `resolve_parents`,   *)
(* `build_flux_tree`, `problem_ancestors` and what they call).             *)
(*                                                                         *)
(* A resource is [id, depends, chart, source, ready, suspended], in the    *)
(* order of the view.  `id` is its <<kind, name>> (the namespace is part   *)
(* of the name), `depends` a sequence of names, `chart` no more than one   *)
(* name and `source` no more than one id.  References may name nothing     *)
(* that is there, or go round.                                             *)
(***************************************************************************)
EXTENDS Naturals, Sequences, FiniteSets, SequencesExt, FiniteSetsExt

(* No more than one index: the last resource of that id. *)
ById(resources, id) ==
    LET named == {i \in DOMAIN resources : resources[i].id = id}
    IN  {i \in named : \A j \in named : j <= i}

(* The first of the objects it waits on that is there: of its own kind.    *)
DependsParent(resources, r) ==
    LET found(k) == ById(resources, <<r.id[1], r.depends[k]>>)
        known    == {k \in DOMAIN r.depends : found(k) # {}}
    IN  UNION {found(k) : k \in {x \in known : \A y \in known : x <= y}}

(* The parent of each resource, as a set of no more than one index: what it *)
(* waits on, else the chart generated for it, else the source it reads.    *)
ResolveParents(resources) ==
    [i \in DOMAIN resources |->
        LET r      == resources[i]
            waits  == DependsParent(resources, r)
            chart  == UNION {ById(resources, <<"HelmChart", c>>) : c \in r.chart}
            source == UNION {ById(resources, s) : s \in r.source}
        IN  IF waits # {} THEN waits ELSE IF chart # {} THEN chart ELSE source]

Problem(r) == ~r.suspended /\ r.ready \in {"Failed", "Reconciling"}

(* What the indices `from` lead to, themselves included, one step after     *)
(* another: `next` tells where each index leads.                           *)
Closure(next, from) ==
    LET reached[n \in 0..Len(next)] ==
            IF n = 0 THEN from
            ELSE LET set == reached[n - 1] IN set \cup UNION {next[i] : i \in set}
    IN  reached[Len(next)]

(* The ancestors of `i`, added to `out`: an ancestor that is there already  *)
(* has brought its own.                                                    *)
WalkUp(parent, i, out) ==
    out \cup Closure([j \in DOMAIN parent |-> parent[j] \ out], parent[i] \ out)

(* What the view unfolds while something is wrong under it. *)
ProblemAncestors(resources) ==
    LET parent == ResolveParents(resources)
        out[n \in 0..Len(resources)] ==
            IF n = 0 THEN {}
            ELSE IF Problem(resources[n]) THEN WalkUp(parent, n, out[n - 1]) ELSE out[n - 1]
    IN  out[Len(resources)]

-----------------------------------------------------------------------------
(* The rows *)

(* The indices of a set, up to `size`, in the order of the view. *)
InOrder(set, size) ==
    LET upto[n \in 0..size] ==
            IF n = 0 THEN << >>
            ELSE IF n \in set THEN Append(upto[n - 1], n) ELSE upto[n - 1]
    IN  upto[size]

(* The children of `i`; no one is its own child. *)
Children(parent, i) == {j \in DOMAIN parent : j # i /\ i \in parent[j]}

(* What is under `i` and was not reached yet: marked, without a row.       *)
MarkSubtree(parent, seen, i) ==
    Closure([j \in DOMAIN parent |-> Children(parent, j) \ seen], Children(parent, i) \ seen)

(* The next call of `push_subtree`, those to come being on a stack: the row *)
(* of a folded resource tells what it hides, and hides it for good.  The   *)
(* depth is left out.                                                      *)
PushSubtree(parent, collapsed, acc) ==
    LET i        == Head(acc.calls)
        rest     == Tail(acc.calls)
        children == Children(parent, i)
        folded   == i \in collapsed /\ children # {}
        under    == IF folded THEN MarkSubtree(parent, acc.seen \cup {i}, i) ELSE {}
    IN  IF acc.calls = << >> THEN acc
        ELSE IF i \in acc.seen THEN [acc EXCEPT !.calls = rest]
        ELSE [calls |-> IF folded THEN rest ELSE InOrder(children, Len(parent)) \o rest,
              seen  |-> acc.seen \cup {i} \cup under,
              rows  |-> Append(acc.rows, [idx |-> i, hidden |-> under])]

(* `acc` once the calls on `from` have returned: each index brings no more  *)
(* calls than there are indices, and brings them once.                     *)
PushAll(parent, collapsed, acc, from) ==
    LET turn[n \in 0..Len(parent) * (Len(parent) + 2)] ==
            IF n = 0 THEN [acc EXCEPT !.calls = InOrder(from, Len(parent))]
            ELSE PushSubtree(parent, collapsed, turn[n - 1])
    IN  turn[Len(parent) * (Len(parent) + 2)]

(* From the roots, then from whatever a cycle kept out of their reach. *)
BuildFluxTree(resources, collapsed) ==
    LET parent == ResolveParents(resources)
        roots  == {i \in DOMAIN parent : parent[i] \subseteq {i}}
        above  == PushAll(parent, collapsed, [calls |-> << >>, seen |-> {}, rows |-> << >>], roots)
    IN  PushAll(parent, collapsed, above, DOMAIN parent).rows
=============================================================================
