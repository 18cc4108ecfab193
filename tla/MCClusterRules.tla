--------------------------- MODULE MCClusterRules ---------------------------
(***************************************************************************)
(* Cases for what is said of nodes, workloads and webhooks: the findings   *)
(* of a drain against an actual placement and actual evictions, the loss   *)
(* of a node against every placement of its pods, the spread of a workload *)
(* against every other way to lay out its replicas, and what three places  *)
(* say of the same webhooks.                                               *)
(***************************************************************************)
EXTENDS SpreadRules, HookView, RepairRules, MCState

CONSTANTS MaxRequest,   \* the largest request of a container
          MaxCapacity   \* the largest allocatable figure of a node

Owned(kind) == <<[kind |-> "Node", controller |-> FALSE], [kind |-> kind, controller |-> TRUE]>>

APod(node, label, owners, phase, cpu, initCpu, mem) ==
    [node |-> node, ns |-> "ns", labels |-> [app |-> label], deleting |-> FALSE,
     phase |-> phase, mirror |-> FALSE, owners |-> owners, emptyDir |-> FALSE,
     containers |-> <<[cpu |-> cpu, mem |-> mem], [cpu |-> 0, mem |-> 0]>>,
     inits |-> <<[cpu |-> initCpu, mem |-> 0]>>]

ANode(name, ready, unschedulable, cpu) ==
    [name |-> name, ready |-> ready, unschedulable |-> unschedulable,
     controlPlane |-> FALSE, cpu |-> cpu, mem |-> 1]

Target == ANode("n1", TRUE, FALSE, 4)

(* Clusters that differ by their requests, their room and where p3 sits.   *)
RoomScenarios ==
    {[about |-> "drain", target |-> Target,
      pods  |-> "p1" :> APod("n1", "a", Owned("ReplicaSet"), "Running", q1, i1, m)
                @@ "p2" :> APod("n1", "a", own, "Running", q2, 0, m)
                @@ "p3" :> APod("n2", "a", Owned("ReplicaSet"), ph, q3, 0, 0),
      nodes |-> {Target, ANode("n2", TRUE, FALSE, c2), ANode("n3", r3, u3, c3)},
      pdbs  |-> {}] :
        q1 \in 0..MaxRequest, q2 \in 0..MaxRequest, q3 \in 0..MaxRequest, i1 \in 0..MaxRequest,
        m \in 0..1, own \in {Owned("ReplicaSet"), Owned("DaemonSet")},
        ph \in {"Running", "Succeeded"}, c2 \in 0..MaxCapacity, c3 \in 0..MaxCapacity,
        r3 \in BOOLEAN, u3 \in BOOLEAN}

Selectors ==
    {{}, {[labels |-> << >>, exprs |-> {}]}, {[labels |-> [app |-> "a"], exprs |-> {}]}}
    \cup {{[labels |-> << >>, exprs |-> {[key |-> "app", operator |-> o, values |-> {"a"}]}]} :
            o \in {"In", "NotIn", "Exists", "DoesNotExist"}}

(* Clusters that differ by the budgets in front of three pods.             *)
BudgetScenarios ==
    {[about |-> "drain", target |-> Target,
      pods  |-> "p1" :> APod("n1", "a", Owned("ReplicaSet"), "Running", 0, 0, 0)
                @@ "p2" :> APod("n1", l2, << >>, "Running", 0, 0, 0)
                @@ "p3" :> APod("n1", "a", Owned("ReplicaSet"), ph, 0, 0, 0),
      nodes |-> {Target, ANode("n2", TRUE, FALSE, 1)},
      pdbs  |-> {[ns |-> "ns", selector |-> s1, known |-> TRUE, allowed |-> a1],
                 [ns |-> n2, selector |-> s2, known |-> k2, allowed |-> a2]}] :
        l2 \in {"a", "b"}, ph \in {"Running", "Failed"}, s1 \in Selectors, s2 \in Selectors,
        a1 \in 0..3, a2 \in 0..2, n2 \in {"ns", "other"}, k2 \in BOOLEAN}

(* For the loss of n1: who tolerates the taint of n2, who has to go to n3,  *)
(* what the three nodes and the four pods are worth.                       *)
LossNode(name, cpu, taints, disk) ==
    ANode(name, TRUE, FALSE, cpu)
        @@ [labels |-> [disk |-> disk], numbers |-> [gen |-> cpu], taints |-> taints]

LossPod(node, phase, cpu, mem, tolerations, selector, affinity) ==
    APod(node, "a", Owned("ReplicaSet"), phase, cpu, 0, mem)
        @@ [tolerations |-> tolerations, selector |-> selector, affinity |-> affinity]

Taint(effect) == [key |-> "gpu", value |-> "yes", effect |-> effect]
Toleration(key, operator, value, effect) ==
    [key |-> key, operator |-> operator, value |-> value, effect |-> effect]

Tolerations == {{}, {Toleration("", "Exists", "", "")}, {Toleration("gpu", "", "yes", "NoSchedule")}}
Expression(operator) ==
    [key |-> IF operator = "Gt" THEN "gen" ELSE "disk", operator |-> operator,
     values |-> {"ssd"}, bound |-> {1}]
Affinities == {{}} \cup {{{[exprs |-> {Expression(o)}, names |-> {}]}} : o \in {"In", "Gt"}}

LossScenarios ==
    {[about |-> "loss", target |-> "n1",
      nodes |-> <<LossNode("n1", 4, {}, "hdd"), LossNode("n2", c2, taints, "hdd"),
                  LossNode("n3", c3, {}, "ssd")>>,
      pods  |-> <<LossPod("n1", "Running", q1, m, tol, << >>, {}),
                  LossPod("n1", "Running", q2, m, {}, sel, aff),
                  LossPod("n1", "Running", 1, 0, {}, << >>, {}),
                  LossPod("n2", ph, 1, 0, {}, << >>, {})>>] :
        q1 \in 0..MaxRequest, q2 \in 0..MaxRequest, m \in 0..1, c2 \in 0..MaxCapacity,
        c3 \in 0..MaxCapacity + 1, taints \in {{}, {Taint("NoSchedule")}, {Taint("PreferNoSchedule")}},
        tol \in Tolerations, sel \in {<< >>, [disk |-> "ssd"]}, aff \in Affinities,
        ph \in {"Running", "Failed"}}

(* For the spread of a Deployment: where its living replicas are, one that  *)
(* leaves n1, what its template asks for, and who can take it.             *)
Template(required, preferred, constraints, tolerations) ==
    [required |-> required, preferred |-> preferred, constraints |-> constraints,
     selector |-> << >>, tolerations |-> tolerations]

Spreading(skew) == [key |-> HostnameKey, when |-> "DoNotSchedule", skew |-> skew]
AwayBy(zone) == [key |-> zone, when |-> "ScheduleAnyway", skew |-> 1]

Templates ==
    {Template({}, {}, {AwayBy("zone")}, {}), Template({HostnameKey}, {}, {}, {}),
     Template({"zone"}, {HostnameKey}, {}, {}),
     Template({}, {}, {Spreading(1)}, {Toleration("gpu", "Exists", "", "")}),
     Template({}, {HostnameKey}, {Spreading(3)}, {})}

Replica(node, deleting) ==
    [ns |-> "ns", deleting |-> deleting, phase |-> "Running", node |-> node,
     owners |-> <<[kind |-> "Node", name |-> "n1"], [kind |-> "ReplicaSet", name |-> "web-1"]>>]

Copies(n, p) == [i \in 1..n |-> p]

SpreadScenarios ==
    {[about |-> "spread",
      workload |-> [kind |-> "Deployment", ns |-> "ns", name |-> "web",
                    desired |-> desired, spec |-> spec],
      rss   |-> {[ns |-> "ns", name |-> "web-1", deployments |-> {"web"}]},
      nodes |-> {ns \in {{[unschedulable |-> u1] @@ LossNode("n1", 4, {}, "hdd"),
                          LossNode("n2", 4, {}, "hdd"),
                          [ready |-> r3] @@ LossNode("n3", 4, taints, "hdd")}} : readable},
      pods  |-> Copies(k1, Replica("n1", FALSE)) \o Copies(k2, Replica("n2", FALSE))
                  \o Copies(k3, Replica("n3", FALSE)) \o Copies(k0, Replica("", FALSE))
                  \o <<Replica("n1", TRUE)>>] :
        k1 \in 0..3, k2 \in 0..2, k3 \in 0..1, k0 \in 0..1, desired \in {1, 3, 5},
        spec \in Templates, u1 \in BOOLEAN, r3 \in BOOLEAN,
        taints \in {{}, {Taint("NoExecute")}}, readable \in BOOLEAN}

(* For the verdicts on webhooks: a configuration of two, one that matches   *)
(* something of everything, one that stands before a namespace of its own  *)
(* or is not ours to judge, and a configuration left empty or not.         *)
HookRule(stars, operations) ==
    [groups |-> {stars}, versions |-> {"*"}, resources |-> {stars}, operations |-> operations]

Webhook(closed, reach, rule, selector, timeout, ca) ==
    [closed |-> closed, reach |-> reach, service |-> IF reach = "NotOurs" THEN OffCluster ELSE "s",
     url |-> TRUE, rules |-> {rule}, selector |-> selector, timeout |-> timeout,
     sideEffects |-> "None", ca |-> ca]

Selection(operator, values) ==
    [labels |-> {}, exprs |-> {[operator |-> operator, values |-> values]}]
Everything == [labels |-> {}, exprs |-> {}]
Bundle(days) == [state |-> "parsed", injected |-> FALSE, days |-> days]

WebhookScenarios ==
    {[about |-> "webhooks",
      configs |-> <<<<Webhook(k1, r1, HookRule(g, ops), sel, IF k2 THEN 30 ELSE 10, ca),
                      Webhook(k2, r2, HookRule("apps", {"CREATE"}), Everything, 10, Bundle({400}))>>, last>>] :
        k1 \in BOOLEAN, k2 \in BOOLEAN, r1 \in ServiceStates \cup {"NotOurs", "Unchecked"},
        r2 \in {"Ready", "ServiceGone", "Unchecked"}, g \in {"*", "pods"},
        ops \in {{"*"}, {"CREATE", "UPDATE"}},
        sel \in {Everything, Selection("NotIn", {"kube-system"}), Selection("NotIn", {"team"})},
        ca \in {Bundle({400}), Bundle({400, 0}), Bundle({30, 90}),
                [Bundle({}) EXCEPT !.state = "absent"], [Bundle({}) EXCEPT !.state = "opaque"]},
        last \in {<< >>, <<Webhook(TRUE, "Ready", HookRule("apps", {"CREATE"}), Everything, 10, Bundle({90}))>>}}

-----------------------------------------------------------------------------
(* A list as the API server can give it: a name has one node; what is asked *)
(* for and offered is in whole units, of which there are none below zero.  *)
Quantities == [Measures -> Nat]

GoodNode(n) == \A r \in Measures : n[r] \in Nat
GoodPod(p) == p.containers \in Seq(Quantities) /\ p.inits \in Seq(Quantities)
OneByName(nodes) == \A m, n \in nodes : m.name = n.name => m = n

GoodDrain(case) ==
    /\ IsFiniteSet(case.nodes) /\ OneByName(case.nodes) /\ \A n \in case.nodes : GoodNode(n)
    /\ IsFiniteSet(DOMAIN case.pods) /\ \A p \in DOMAIN case.pods : GoodPod(case.pods[p])
    /\ \A b \in case.pdbs : b.allowed \in Int

GoodLoss(case) ==
    /\ case.nodes \in Seq(ToSet(case.nodes)) /\ \A n \in ToSet(case.nodes) : GoodNode(n)
    /\ \A i, j \in DOMAIN case.nodes : case.nodes[i].name = case.nodes[j].name => i = j
    /\ case.pods \in Seq(ToSet(case.pods)) /\ \A p \in ToSet(case.pods) : GoodPod(p)

GoodSpread(case) ==
    /\ case.pods \in Seq(ToSet(case.pods))
    /\ \A m, n \in case.nodes : m = n
    /\ \A list \in case.nodes : IsFiniteSet(list) /\ OneByName(list)
    /\ case.workload.desired \in Nat
    /\ \A c \in case.workload.spec.constraints : c.skew \in Nat

GoodWebhooks(case) ==
    /\ case.configs \in Seq(ToSet(case.configs))
    /\ \A hooks \in ToSet(case.configs) :
          /\ hooks \in Seq(ToSet(hooks))
          /\ \A h \in ToSet(hooks) :
                /\ h.ca.state \in {"absent", "opaque", "parsed"}
                /\ IsFiniteSet(h.ca.days) /\ h.ca.days \subseteq Int
                /\ h.ca.state # "parsed" => h.ca.days = {}

(* A case of any size: the theorems are about these.                       *)
GoodCluster(case) ==
    \/ case.about = "drain" /\ GoodDrain(case)
    \/ case.about = "loss" /\ GoodLoss(case)
    \/ case.about = "spread" /\ GoodSpread(case)
    \/ case.about = "webhooks" /\ GoodWebhooks(case)

ASSUME ClustersAreGood ==
    /\ \A case \in RoomScenarios \cup BudgetScenarios : GoodCluster(case)
    /\ \A case \in LossScenarios : GoodCluster(case)
    /\ \A case \in SpreadScenarios : GoodCluster(case)
    /\ \A case \in WebhookScenarios : GoodCluster(case)

-----------------------------------------------------------------------------
(* What the panel is told about this cluster. *)
CollectDrain ==
    /\ About("drain")
    /\ reasons' = Assess(cluster.target, cluster.pods, cluster.pdbs,
                         RoomLeft(cluster.target.name, cluster.nodes, cluster.pods))

(* The verdict of the capacity view for the loss of a node. *)
CollectLoss ==
    /\ About("loss")
    /\ reasons' = SimulateLoss(cluster.target, cluster.nodes, cluster.pods)

(* The hints of the diagnostic for the workload. *)
CollectSpread ==
    /\ About("spread")
    /\ reasons' = Hints(cluster.workload, cluster.pods, cluster.rss, cluster.nodes)

(* The rows of webhooks and configurations, what the diagnostic and the     *)
(* repair panel say of the latter, and what the two other worlds say under *)
(* the same bundle and the same service.                                   *)
ReadConfig(hooks, c) ==
    [name |-> c, hooks |-> [i \in DOMAIN hooks |->
        [closed |-> hooks[i].closed, dead |-> hooks[i].reach \in Faults]]]

ReadByRepair(configs) == [c \in DOMAIN configs |-> ReadConfig(configs[c], c)]

InOtherWorlds(h) ==
    [reach |-> h.reach, url |-> h.url, ca |-> h.ca, storageServed |-> TRUE, deprecated |-> 1,
     available |-> "True", insecure |-> FALSE]

HooksJudged(configs) ==
    [rows      |-> [c \in DOMAIN configs |-> [i \in DOMAIN configs[c] |-> AdmissionHints(configs[c][i])]],
     configs   |-> [c \in DOMAIN configs |-> ConfigHints(configs[c])],
     diagnosed |-> DiagnosedKind(configs),
     blockers  |-> WebhookBlockers(ReadByRepair(configs)),
     others    |-> [c \in DOMAIN configs |-> [i \in DOMAIN configs[c] |->
                      {ConversionHints(InOtherWorlds(configs[c][i])), ApiServiceHints(InOtherWorlds(configs[c][i]))}]]]

CollectWebhooks == About("webhooks") /\ reasons' = HooksJudged(cluster.configs)

CollectCluster == CollectDrain \/ CollectLoss \/ CollectSpread \/ CollectWebhooks

ClusterSpec ==
    /\ GoodCluster(cluster) /\ assessed = FALSE
    /\ [][~assessed /\ assessed' = TRUE /\ CollectCluster /\ UNCHANGED cluster]_<<cluster, reasons, assessed>>

-----------------------------------------------------------------------------
ToMove == Evictable(cluster.target.name, cluster.pods)

(* A node able to take what it is sent, beside what it runs: per resource,  *)
(* nothing is asked or all of it fits.                                     *)
Takes(n, sent) ==
    LET ask  == Needed(sent, cluster.pods)
        have == Used(n.name, cluster.pods)
    IN  \A r \in Measures : ask[r] = 0 \/ have[r] + ask[r] <= n[r]

(* Some assignment of every evicted pod to a ready, schedulable other node. *)
Placeable ==
    LET open == {n \in cluster.nodes : n.name # cluster.target.name /\ n.ready /\ ~n.unschedulable}
    IN  \E f \in [ToMove -> open] : \A n \in open : Takes(n, {p \in ToMove : f[p] = n})

(* The panel never cries wolf about room: when the evicted pods can all be *)
(* placed, none of "no room", "pod too big" and "only schedulable node" is *)
(* reported (the arithmetic of `pod_requests`, `room_left` and `assess`).  *)
NoFalseAlarm ==
    (Judged("drain") /\ Placeable) => reasons \cap {"NoRoom", "PodTooBig", "OnlySchedulable"} = {}

(* An eviction goes through when every budget that speaks for the pod has a *)
(* disruption left after those of `done`, nothing recovering meanwhile.    *)
LetThrough(pod, done) ==
    \A b \in cluster.pdbs :
        (b.known /\ pod \in Matched(b, ToMove, cluster.pods)) =>
            Cardinality(Matched(b, done, cluster.pods)) < b.allowed

GoesThrough(s) == \A k \in DOMAIN s : LetThrough(s[k], {s[j] : j \in 1..(k - 1)})

(* A budget is reported exactly when some eviction would be refused        *)
(* whatever the order: no finding means every order goes through, a finding *)
(* that none does (`pdb_findings` against the live `disruptionsAllowed`).  *)
BudgetForecast ==
    Judged("drain") =>
        \A s \in Injection(1..Cardinality(ToMove), ToMove) :
            GoesThrough(s) <=> (reasons \cap {"PdbBlocked", "PdbTight"} = {})

-----------------------------------------------------------------------------
Leaving == Evictable(cluster.target, cluster.pods)
Taking == {i \in DOMAIN cluster.nodes : /\ cluster.nodes[i].name # cluster.target
                                        /\ cluster.nodes[i].ready /\ ~cluster.nodes[i].unschedulable}

(* Some assignment of the pods to move to the nodes that accept them fits   *)
(* in what those have left.                                                *)
Rehoused ==
    \E f \in [Leaving -> Taking] :
        /\ \A p \in Leaving : Accepts(cluster.nodes[f[p]], cluster.pods[p])
        /\ \A i \in Taking : Takes(cluster.nodes[i], {p \in Leaving : f[p] = i})

(* "It fits" is never said of pods that cannot all be placed, even tightly  *)
(* (`simulate_loss`: each pod placed takes its room from the next).        *)
FitsIsPossible ==
    (Judged("loss") /\ reasons.kind \in {"Fits", "Tight"}) => Rehoused

Alike == \A p, q \in Leaving :
            /\ PodRequests(cluster.pods[p]) = PodRequests(cluster.pods[q])
            /\ \A i \in Taking : Accepts(cluster.nodes[i], cluster.pods[p])

(* Where the pods to place are alike and go anywhere, first fit misses no   *)
(* placement: the verdict is the truth.                                    *)
AlikeIsExact ==
    (Judged("loss") /\ Alike) =>
        (Rehoused <=> (reasons.kind \in {"Fits", "Tight"} \/ Leaving = {}))

(* What the operator is told to change is what would help: a pod stranded   *)
(* for its selector or for the taints would not be taken by empty nodes    *)
(* either, taking the taints away helps exactly the latter, and a pod      *)
(* stranded for want of room would be taken by a node that is there.       *)
StrandedForAReason ==
    Judged("loss") =>
        \A s \in reasons.stranded :
            LET takers == {i \in Taking : Accepts(cluster.nodes[i], cluster.pods[s.pod])}
            IN  /\ (s.why = "NoRoom") <=> (takers # {})
                /\ (s.why = "Taints") => \A i \in Taking :
                                            ~Tolerated(cluster.nodes[i], cluster.pods[s.pod])
                /\ (s.why = "Selector") => \E i \in Taking :
                                            ~Selected(cluster.nodes[i], cluster.pods[s.pod])

-----------------------------------------------------------------------------
Replicas == {i \in Living(cluster.workload, cluster.pods, cluster.rss) : cluster.pods[i].node # ""}
On(n) == Cardinality({i \in Replicas : cluster.pods[i].node = n})
Hosting == {cluster.pods[i].node : i \in Replicas}
Opened == {n.name : n \in {m \in UNION cluster.nodes :
                               Available(m) /\ AcceptsTemplate(m, cluster.workload.spec)}}

(* The replicas could be laid out with fewer of them on the fullest node,   *)
(* over the nodes that take them and those that already have.              *)
Avoidable ==
    \E f \in [Replicas -> Opened \cup Hosting] :
        \A n \in Opened \cup Hosting :
            Cardinality({i \in Replicas : f[i] = n}) < Max({On(h) : h \in Hosting})

BadlySpread == reasons \cap {"SinglePoint", "Concentrated"} # {}

(* A workload is said to be badly spread only where a better layout exists, *)
(* and wherever one does as long as its replicas are on nodes that would   *)
(* take them again (`balanced_max` against every layout).                  *)
SpreadIsHonest ==
    (Judged("spread") /\ Replicas # {}) =>
        /\ BadlySpread => Avoidable
        /\ (cluster.nodes # {} /\ Hosting \subseteq Opened /\ Avoidable) => BadlySpread

(* "A hard rule is declared, and yet a node carries several": some rule of  *)
(* the template is indeed broken, two replicas on a node under a required  *)
(* anti-affinity, or a skew beyond the one a hard constraint allows.       *)
HardRuleIsBroken ==
    (Judged("spread") /\ "HardGuardViolated" \in reasons) =>
        \/ /\ HostnameKey \in cluster.workload.spec.required
           /\ \E n \in Hosting : On(n) > 1
        \/ \E c \in cluster.workload.spec.constraints :
              /\ c.key = HostnameKey /\ c.when = "DoNotSchedule"
              /\ \E n \in Hosting, other \in Opened \cup Hosting : On(n) - On(other) > c.skew

-----------------------------------------------------------------------------
(* An outage that blocks writes is told wherever one would look for it, and *)
(* only then: in red in the row of the webhook's configuration, as an error *)
(* by the diagnostic, and as a danger in the repair panel, which all read  *)
(* the webhooks apart (`admission_hints`, `check_admission_hooks`,         *)
(* `webhook_blockers`); what could not be asked about alarms nobody.       *)
OutagesAreTold ==
    Judged("webhooks") =>
        LET configs == cluster.configs
            dead(c) == {i \in DOMAIN configs[c] : configs[c][i].reach \in Faults}
            refuses(c) == \E i \in dead(c) : configs[c][i].closed
            blocked(c) == {b \in ToSet(reasons.blockers) : b.on = c /\ b.what = "OrphanWebhook"}
        IN  /\ (reasons.diagnosed = "Err") <=> \E c \in DOMAIN configs : refuses(c)
            /\ \A c \in DOMAIN configs :
                  /\ (blocked(c) # {}) <=> (dead(c) # {})
                  /\ \A b \in blocked(c) : b.closed <=> refuses(c)
                  /\ refuses(c) => reasons.configs[c][1].level = 3
                  /\ dead(c) # {} => reasons.configs[c][1].level >= 2 /\ reasons.diagnosed # "Ok"

(* A configuration never reads healthier than a webhook of it, and one      *)
(* certificate that is over, wherever it is in the bundle, is a danger to   *)
(* all that trust it (`config_hints`, `CaBundle::soonest`).                *)
NeverHealthier ==
    Judged("webhooks") =>
        /\ \A c \in DOMAIN cluster.configs : \A i \in DOMAIN cluster.configs[c] :
              \A j \in DOMAIN reasons.rows[c][i] :
                 /\ reasons.configs[c] # << >>
                 /\ reasons.rows[c][i][j].level <= reasons.configs[c][1].level
        /\ \A c \in DOMAIN cluster.configs : \A i \in DOMAIN cluster.configs[c] :
              (\E d \in cluster.configs[c][i].ca.days : d <= 0) =>
                  \A hints \in reasons.others[c][i] \cup {reasons.rows[c][i], reasons.configs[c]} :
                     \E j \in DOMAIN hints : hints[j].level = 3

(* The findings of a drain foretell it, room and budgets both, and the     *)
(* verdict on the loss of a node is one the cluster would confirm.         *)
CapacityIsTold ==
    /\ NoFalseAlarm /\ BudgetForecast
    /\ FitsIsPossible /\ AlikeIsExact /\ StrandedForAReason

(* The hints on a workload's replicas are about a layout that is really    *)
(* bad; those on webhooks tell of outages, and of the worst.               *)
HintsAreTold == SpreadIsHonest /\ HardRuleIsBroken /\ OutagesAreTold /\ NeverHealthier
=============================================================================
