----------------------------- MODULE NodeRules -----------------------------
(***************************************************************************)
(* The guard-rails of the node drain, as pure functions of what the API    *)
(* server lists (src/nodeops.rs: `plan`, `skip_reason`, `assess`,          *)
(* `room_left`, `pdb_findings`, `selector_matches`, `pod_requests`).       *)
(*                                                                         *)
(* A pod is a record                                                       *)
(*   [node, ns, labels, deleting, phase, mirror, owners, emptyDir,         *)
(*    containers, inits]                                                   *)
(* where `owners` is a sequence of [kind, controller] and `containers` and *)
(* `inits` are sequences of [cpu, mem] requests.  A node is                *)
(*   [name, ready, unschedulable, controlPlane, cpu, mem]                  *)
(* and a budget [ns, selector, known, allowed].  The order of the findings *)
(* and the wording they get are left out: a finding is a record of a set.  *)
(***************************************************************************)
EXTENDS Integers, Sequences, FiniteSets, SequencesExt, FiniteSetsExt

(* No reason to leave a pod alone, and no owner.                           *)
NoReason == "none"
NoOwner == "none"

Larger(a, b) == IF a >= b THEN a ELSE b

-----------------------------------------------------------------------------
(* Labels and selectors *)

(* One `matchExpressions` entry; an unknown operator matches, so that the  *)
(* budget is reported rather than dropped.                                 *)
ExpressionMatches(e, labels) ==
    LET present == e.key \in DOMAIN labels
        listed  == present /\ labels[e.key] \in e.values
    IN  CASE e.operator = "In"           -> listed
          [] e.operator = "NotIn"        -> ~listed
          [] e.operator = "Exists"       -> present
          [] e.operator = "DoesNotExist" -> ~present
          [] OTHER                       -> TRUE

(* An optional selector is a set of at most one [labels, exprs]: without   *)
(* one nothing matches, an empty one matches every pod.                    *)
SelectorMatches(selector, labels) ==
    \E sel \in selector :
        /\ \A k \in DOMAIN sel.labels : k \in DOMAIN labels /\ labels[k] = sel.labels[k]
        /\ \A e \in sel.exprs : ExpressionMatches(e, labels)

-----------------------------------------------------------------------------
(* Pods *)

(* The controlling owner's kind, else the first owner's, if any.           *)
OwnerKind(p) ==
    LET controllers == {i \in DOMAIN p.owners : p.owners[i].controller}
    IN  CASE p.owners = << >>   -> NoOwner
          [] controllers # {}   -> p.owners[Min(controllers)].kind
          [] OTHER              -> p.owners[1].kind

Finished(p) == p.phase \in {"Succeeded", "Failed"}

(* Why a pod is left alone, in the order the code asks.                    *)
SkipReason(p) ==
    IF p.deleting THEN "Terminating"
    ELSE IF Finished(p) THEN "Finished"
    ELSE IF p.mirror THEN "Mirror"
    ELSE IF OwnerKind(p) = "DaemonSet" THEN "DaemonSet"
    ELSE NoReason

(* What pods ask for and nodes have to offer. *)
Measures == {"cpu", "mem"}

(* The scheduler's view of a pod: the sum over the containers, floored by  *)
(* the largest init container.                                             *)
PodRequests(p) ==
    [r \in Measures |->
        Larger(SumFunction([i \in DOMAIN p.containers |-> p.containers[i][r]]),
               Max({0} \cup {p.inits[i][r] : i \in DOMAIN p.inits}))]

(* Every pod of `pods` (a function from names to pods) bound to `node`.    *)
OnNode(node, pods) == {p \in DOMAIN pods : pods[p].node = node}

(* The pods a drain of `node` would move.                                  *)
Evictable(node, pods) == {p \in OnNode(node, pods) : SkipReason(pods[p]) = NoReason}

(* The requests of a set of pods, and of the pods that count against the    *)
(* room of node `n`: a finished pod holds nothing.                         *)
Needed(ps, pods) ==
    [r \in Measures |-> SumFunction([p \in ps |-> PodRequests(pods[p])[r]])]

Used(n, pods) == Needed({p \in OnNode(n, pods) : ~Finished(pods[p])}, pods)

-----------------------------------------------------------------------------
(* Room on the other nodes *)

(* What each node that could take a pod has left, as a set of [node, cpu,  *)
(* mem].  An overcommitted node has no room rather than a negative one.    *)
RoomLeft(draining, nodes, pods) ==
    {[node |-> n.name,
      cpu  |-> Larger(n.cpu - Used(n.name, pods).cpu, 0),
      mem  |-> Larger(n.mem - Used(n.name, pods).mem, 0)] :
        n \in {m \in nodes : m.name # draining /\ m.ready /\ ~m.unschedulable}}

-----------------------------------------------------------------------------
(* Disruption budgets *)

(* How many of the pods to move a budget stands in front of.               *)
Matched(b, ps, pods) ==
    {p \in ps : pods[p].ns = b.ns /\ SelectorMatches(b.selector, pods[p].labels)}

(* A budget whose status is not computed yet says nothing.                 *)
Speaks(b, ps, pods) == b.known /\ Matched(b, ps, pods) # {}

Blocked(pdbs, ps, pods) == {b \in pdbs : Speaks(b, ps, pods) /\ b.allowed <= 0}

(* Mutant of Tight: the last disruption a budget allows is not counted.    *)
TightAtTheLimit(pdbs, ps, pods) ==
    {b \in pdbs : /\ Speaks(b, ps, pods)
                  /\ b.allowed > 0
                  /\ b.allowed + 1 < Cardinality(Matched(b, ps, pods))}

Tight(pdbs, ps, pods) ==
    {b \in pdbs : /\ Speaks(b, ps, pods)
                  /\ b.allowed > 0
                  /\ b.allowed < Cardinality(Matched(b, ps, pods))}

-----------------------------------------------------------------------------
(* The findings *)

Level(kind) ==
    CASE kind \in {"Unmanaged", "PdbBlocked", "OnlySchedulable"} -> "Danger"
      [] kind \in {"AlreadyCordoned", "NotReady", "DaemonSetPods"} -> "Info"
      [] OTHER -> "Warn"

(* The findings about room: none when there is nothing to place.           *)
RoomFindings(ps, pods, rooms) ==
    LET need == Needed(ps, pods)
        free(r) == SumFunction([room \in rooms |-> room[r]])
        asks(q) == \E r \in Measures : q[r] > 0
        nowhere(q) == asks(q) /\ ~ \E room \in rooms : \A r \in Measures : room[r] >= q[r]
    IN  IF ps = {} THEN {}
        ELSE IF rooms = {} THEN {"OnlySchedulable"}
        ELSE (IF \E r \in Measures : need[r] > free(r) THEN {"NoRoom"} ELSE {})
             \cup (IF \E p \in ps : nowhere(PodRequests(pods[p])) THEN {"PodTooBig"} ELSE {})

(* `assess`: the kinds of finding, for the node record `target`.           *)
Assess(target, pods, pdbs, rooms) ==
    LET here  == OnNode(target.name, pods)
        ps    == Evictable(target.name, pods)
        holds == [Unmanaged       |-> \E p \in ps : OwnerKind(pods[p]) = NoOwner,
                  PdbBlocked      |-> Blocked(pdbs, ps, pods) # {},
                  PdbTight        |-> Tight(pdbs, ps, pods) # {},
                  LocalStorage    |-> \E p \in ps : pods[p].emptyDir,
                  StaticPods      |-> \E p \in here : SkipReason(pods[p]) = "Mirror",
                  ControlPlane    |-> target.controlPlane,
                  AlreadyCordoned |-> target.unschedulable,
                  NotReady        |-> ~target.ready,
                  DaemonSetPods   |-> \E p \in here : SkipReason(pods[p]) = "DaemonSet"]
    IN  {k \in DOMAIN holds : holds[k]} \cup RoomFindings(ps, pods, rooms)

(* `needs_strict_confirm`: the operator has to type the node's name.       *)
NeedsStrictConfirm(reasons) == \E k \in reasons : Level(k) = "Danger"
=============================================================================
