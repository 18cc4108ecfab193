----------------------------- MODULE LossRules -----------------------------
(***************************************************************************)
(* What the loss of a node would do, as the capacity view simulates it     *)
(* (src/capacity.rs: `simulate_loss` and what it calls): first fit, the    *)
(* biggest pod first, over the requests, the taints and the hard placement *)
(* rules.                                                                  *)
(*                                                                         *)
(* Nodes and pods are sequences, in the order the API lists them: that     *)
(* order decides where a pod is tried first.  They are the records of      *)
(* NodeRules, a node with its labels (those that read as a number in       *)
(* `numbers` too) and its taints [key, value, effect], a pod with its      *)
(* tolerations [key, operator, value, effect], its node selector and its   *)
(* required node affinity: no more than one set of terms, a term being     *)
(* [exprs, names].  An absent text is "".                                  *)
(***************************************************************************)
EXTENDS NodeRules

-----------------------------------------------------------------------------
(* Would this node take this pod at all? *)

(* The rule of kubectl: no effect is every effect, no key with `Exists` is  *)
(* everything, and `Equal` is the operator of a toleration without one.    *)
Tolerates(t, taint) ==
    /\ t.effect \in {"", taint.effect}
    /\ \/ t.key = "" /\ t.operator = "Exists"
       \/ /\ t.key # "" /\ t.key = taint.key
          /\ t.operator = "Exists" \/ t.value = taint.value

Tolerated(n, p) ==
    \A taint \in {x \in n.taints : x.effect # "PreferNoSchedule"} :
        \E t \in p.tolerations : Tolerates(t, taint)

(* `Gt` and `Lt` compare numbers, with the first value; the other operators *)
(* are those of a label selector.                                          *)
MatchExpression(n, e) ==
    IF e.operator \in {"Gt", "Lt"}
    THEN /\ e.key \in DOMAIN n.numbers
         /\ \E bound \in e.bound :
               IF e.operator = "Gt" THEN n.numbers[e.key] > bound ELSE n.numbers[e.key] < bound
    ELSE ExpressionMatches(e, n.labels)

(* The terms are alternatives; in a term everything has to hold. *)
Selected(n, p) ==
    /\ \A k \in DOMAIN p.selector : k \in DOMAIN n.labels /\ n.labels[k] = p.selector[k]
    /\ \A terms \in p.affinity :
          terms # {} => \E term \in terms :
                            /\ \A e \in term.exprs : MatchExpression(n, e)
                            /\ \A names \in term.names : n.name \in names

Accepts(n, p) == Tolerated(n, p) /\ Selected(n, p)

-----------------------------------------------------------------------------
(* Placing them on paper *)

(* Where they could go, as places of the list. *)
Others(target, nodes) ==
    {i \in DOMAIN nodes : nodes[i].name # target /\ nodes[i].ready /\ ~nodes[i].unschedulable}

(* What each of `others` has left once the pods it runs have been counted. *)
Free(others, nodes, pods) ==
    [i \in others |->
        [r \in Measures |-> Larger(nodes[i][r] - Used(nodes[i].name, pods)[r], 0)]]

(* The pods to place, by index: the biggest memory first, then the biggest  *)
(* CPU, then as listed.                                                    *)
Bigger(p, q, pods) ==
    LET ask  == PodRequests(pods[p])
        next == PodRequests(pods[q])
    IN  \/ ask.mem > next.mem
        \/ ask.mem = next.mem /\ ask.cpu > next.cpu
        \/ ask = next /\ p < q

Movers(target, pods) ==
    LET ps == Evictable(target, pods)
        rank(p) == Cardinality({q \in ps : q = p \/ Bigger(q, p, pods)})
    IN  [k \in 1..Cardinality(ps) |-> CHOOSE p \in ps : rank(p) = k]

Room(free, need) == \A r \in Measures : free[r] >= need[r]

Take(free, need) == [r \in Measures |-> free[r] - need[r]]

Eligible(others, nodes, p) == {i \in others : Accepts(nodes[i], p)}

(* Why no node accepts a pod. *)
Why(others, nodes, p) ==
    IF \E i \in others : Tolerated(nodes[i], p) THEN "Selector" ELSE "Taints"

(* One pod goes to the first node that accepts it and has the room. *)
Place(others, nodes, pods, acc, p) ==
    LET need     == PodRequests(pods[p])
        eligible == Eligible(others, nodes, pods[p])
        fitting  == {i \in eligible : Room(acc.free[i], need)}
        strand(why) == [acc EXCEPT !.stranded = @ \cup {[pod |-> p, why |-> why]}]
    IN  IF eligible = {} THEN strand(Why(others, nodes, pods[p]))
        ELSE IF fitting = {} THEN strand("NoRoom")
        ELSE [acc EXCEPT !.free[Min(fitting)] = Take(@, need)]

(* A rounded percentage, 0 of nothing. *)
Pct(part, whole) == IF whole <= 0 THEN 0 ELSE (200 * part + whole) \div (2 * whole)

TightSparePct == 10

TotalOf(free) == [r \in Measures |-> SumFunction([i \in DOMAIN free |-> free[i][r]])]

(* What is left of the room, and who is stranded, when all are placed. *)
AfterAll(others, nodes, pods, movers) ==
    LET after[k \in 0..Len(movers)] ==
            IF k = 0 THEN [free |-> Free(others, nodes, pods), stranded |-> {}]
            ELSE Place(others, nodes, pods, after[k - 1], movers[k])
    IN  after[Len(movers)]

SimulateLoss(target, nodes, pods) ==
    LET others == Others(target, nodes)
        result == AfterAll(others, nodes, pods, Movers(target, pods))
        total  == TotalOf(Free(others, nodes, pods))
        left   == TotalOf(result.free)
        tight  == \E r \in Measures : Pct(left[r], Larger(total[r], 1)) < TightSparePct
        loss(kind) == [kind |-> kind, stranded |-> result.stranded]
    IN  CASE others = {}                           -> [kind |-> "Alone", stranded |-> {}]
          [] others # {} /\ result.stranded # {}   -> loss("Homeless")
          [] others # {} /\ result.stranded = {}   -> loss(IF tight THEN "Tight" ELSE "Fits")
=============================================================================
