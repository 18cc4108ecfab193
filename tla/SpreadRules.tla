---------------------------- MODULE SpreadRules ----------------------------
(***************************************************************************)
(* Where the replicas of a workload have landed, and what is said of it    *)
(* (src/spread.rs: `build`, `judge` and what they call).                   *)
(*                                                                         *)
(* A workload is [kind, ns, name, desired, spec]; its template's spec is   *)
(*   [required, preferred, constraints, selector, tolerations]             *)
(* where `required` and `preferred` are the topology keys of its pod       *)
(* anti-affinity and a constraint is [key, when, skew].  `rss` is a set of  *)
(* replica sets [ns, name, deployments]; a pod's owners are a sequence of  *)
(* [kind, name], and its node is "" while it has none.                     *)
(***************************************************************************)
EXTENDS LossRules

HostnameKey == "kubernetes.io/hostname"

(* What the template asked for to keep its replicas apart. *)
GuardOf(spec) ==
    LET spread == {c \in spec.constraints : c.key = HostnameKey}
    IN  [requiredAntiAffinity  |-> HostnameKey \in spec.required,
         preferredAntiAffinity |-> HostnameKey \in spec.preferred,
         topologySpread        |-> spread # {},
         topologyHard          |-> \E c \in spread : c.when = "DoNotSchedule" /\ c.skew <= 1]

Absent(g) == ~g.requiredAntiAffinity /\ ~g.preferredAntiAffinity /\ ~g.topologySpread
Hard(g) == g.requiredAntiAffinity \/ g.topologyHard

-----------------------------------------------------------------------------
(* Whose pod, and where *)

(* The workload of a pod: its StatefulSet, or the Deployment one step above *)
(* its ReplicaSet.  A set: a pod may have none.                            *)
WorkloadOf(p, rss) ==
    LET known  == {i \in DOMAIN p.owners : p.owners[i].kind \in {"ReplicaSet", "StatefulSet"}}
        owner  == p.owners[Min(known)]
        above  == UNION {rs.deployments : rs \in {r \in rss : r.ns = p.ns /\ r.name = owner.name}}
    IN  CASE known = {} -> {}
          [] known # {} /\ owner.kind = "StatefulSet" -> {<<"StatefulSet", p.ns, owner.name>>}
          [] known # {} /\ owner.kind = "ReplicaSet" -> {<<"Deployment", p.ns, d>> : d \in above}

(* The living pods of a workload. *)
Living(w, pods, rss) ==
    {i \in DOMAIN pods : ~pods[i].deleting /\ ~Finished(pods[i])
                            /\ <<w.kind, w.ns, w.name>> \in WorkloadOf(pods[i], rss)}

Available(n) == n.ready /\ ~n.unschedulable

(* The nodeSelector and the blocking taints; node affinity is not read. *)
AcceptsTemplate(n, spec) ==
    /\ \A k \in DOMAIN spec.selector : k \in DOMAIN n.labels /\ n.labels[k] = spec.selector[k]
    /\ \A taint \in {x \in n.taints : x.effect \in {"NoSchedule", "NoExecute"}} :
          \E t \in spec.tolerations : Tolerates(t, taint)

(* The placement of a workload; `nodes` holds no more than one list, none   *)
(* when it could not be read.  The name of the worst node is left out.     *)
Placement(w, pods, rss, nodes) ==
    LET living  == Living(w, pods, rss)
        placed  == {i \in living : pods[i].node # ""}
        hosts   == {pods[i].node : i \in placed}
        on(n)   == Cardinality({i \in placed : pods[i].node = n})
        open    == {n \in UNION nodes : Available(n) /\ AcceptsTemplate(n, w.spec)}
    IN  [running  |-> Cardinality(placed),
         desired  |-> w.desired,
         pending  |-> Cardinality(living \ placed),
         hosts    |-> Cardinality(hosts),
         eligible |-> {Larger(Cardinality(open), Cardinality(hosts)) : list \in nodes},
         worst    |-> IF hosts = {} THEN 0 ELSE Max({on(n) : n \in hosts}),
         guard    |-> GuardOf(w.spec)]

(* A workload of one replica has no spread. *)
Examined(p) == p.desired > 1 \/ p.running + p.pending > 1

-----------------------------------------------------------------------------
(* The findings *)

(* Mutant of BalancedMax: the division rounds down. *)
BalancedMaxDown(p, eligible) ==
    LET over == Larger(Min({eligible, p.running}), 1)
    IN  p.running \div over

(* The most a node would hold had the replicas been spread evenly. *)
BalancedMax(p, eligible) ==
    LET over == Larger(Min({eligible, p.running}), 1)
    IN  (p.running + over - 1) \div over

Concentrated(p) == \E e \in p.eligible : p.worst > BalancedMax(p, e)

SinglePoint(p) == p.running > 1 /\ p.hosts = 1 /\ \E e \in p.eligible : e > 1

(* Why it came to that, said of what is found badly spread only. *)
Cause(p) ==
    CASE Absent(p.guard) -> "NoGuard"
      [] ~Absent(p.guard) /\ Hard(p.guard) /\ p.worst > 1 -> "HardGuardViolated"
      [] p.guard.preferredAntiAffinity /\ ~(Hard(p.guard) /\ p.worst > 1) -> "PreferredOnly"
      [] OTHER -> "GuardDeclared"

Judge(p) ==
    LET where == IF SinglePoint(p) THEN {"SinglePoint"}
                 ELSE IF Concentrated(p) THEN {"Concentrated"} ELSE {}
        stuck == p.pending > 0 /\ Hard(p.guard) /\ \E e \in p.eligible : p.desired > e
    IN  where \cup {Cause(p) : x \in where} \cup (IF stuck THEN {"Impossible"} ELSE {})

(* The hints `build` gives a workload; none where it is not examined. *)
Hints(w, pods, rss, nodes) ==
    LET p == Placement(w, pods, rss, nodes)
    IN  IF Living(w, pods, rss) # {} /\ Examined(p) THEN Judge(p) ELSE {}
=============================================================================
