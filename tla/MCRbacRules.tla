---------------------------- MODULE MCRbacRules ----------------------------
(***************************************************************************)
(* Cases for the grants: one binding of every pair of rules, wherever it   *)
(* is and whoever it is for; and graphs of roles, some made of others,     *)
(* bindings and accounts that may not be there.                            *)
(***************************************************************************)
EXTENDS RbacRules, MCState

Rule(groups, resources, verbs) == [groups |-> groups, resources |-> resources, verbs |-> verbs]

ReadPods == Rule({""}, {"pods"}, {"get", "list"})
RuleCases ==
    {ReadPods, Rule({"*"}, {"*"}, {"*"}), Rule({"*"}, {"*"}, {"get"}),
     Rule({""}, {"pods"}, {"create"}), Rule({""}, {"pods/exec", "pods/log"}, {"get"}),
     Rule({""}, {"secrets"}, {"watch"}), Rule({"apps"}, {"deployments"}, {"patch"}),
     Rule({""}, {"users"}, {"impersonate"}), Rule({"*"}, {"clusterroles"}, {"bind"}),
     Rule({""}, {"serviceaccounts/token"}, {"create"}), Rule({""}, {"serviceaccounts"}, {"delete"}),
     Rule({"certificates.k8s.io"}, {"certificatesigningrequests"}, {"approve"}),
     Rule({"admissionregistration.k8s.io"}, {"validatingwebhookconfigurations"}, {"update"}),
     Rule({""}, {"nodes", "nodes/proxy"}, {"get"}), Rule({"example.com"}, {"widgets"}, {"*"})}

Who(kind, ns, name) == [kind |-> kind, ns |-> ns, name |-> name]
Grantees == {Who("Group", {}, "system:masters"), Who("Group", {}, "system:authenticated"),
             Who("ServiceAccount", {}, "default"), Who("User", {}, "ann")}

Role(kind, ns, name, rules, labels, selectors) ==
    [kind |-> kind, ns |-> ns, name |-> name, rules |-> rules, labels |-> labels,
     selectors |-> selectors]

Bind(ns, name, ref, subjects) == [ns |-> ns, name |-> name, ref |-> ref, subjects |-> subjects]

RuleScenarios ==
    {[about |-> "rbac", floor |-> Low, scope |-> {},
      graph |-> [roles |-> <<Role("ClusterRole", "", "c", {r1, r2}, << >>, {})>>,
                 bindings |-> <<Bind(ns, "b", <<"ClusterRole", "c">>, <<who>>)>>,
                 sas |-> {{<<"ns", "default">>}}, critical |-> {"flux-system"}]] :
        r1 \in RuleCases, r2 \in RuleCases, ns \in {"", "ns", "flux-system"}, who \in Grantees}

Sa(ns) == Who("ServiceAccount", ns, "robot")

(* `made` is made of the roles labelled for it; b1 may be for the whole     *)
(* cluster, name its account by its namespace or not, and nothing else.    *)
GraphScenarios ==
    {[about |-> "rbac", floor |-> floor, scope |-> scope,
      graph |-> [roles |-> <<Role("ClusterRole", "", "made", own, << >>,
                                  {[labels |-> {[to |-> "made"]}, partial |-> FALSE]}),
                             Role("ClusterRole", "", "part", {ReadPods, more}, [to |-> "made"], {}),
                             Role("Role", "ns", "part", {ReadPods}, [to |-> "made"], {})>>,
                 bindings |-> <<Bind(ns1, "b1", <<"ClusterRole", "made">>, <<Sa(home), who>>),
                                Bind("ns", "b2", ref, <<Sa({}), Sa({"ns"})>>),
                                Bind("other", "b3", <<"ClusterRole", "made">>, <<Sa({"ns"}), who>>)>>,
                 sas |-> sas, critical |-> {"other"}]] :
        floor \in {Quiet, High}, scope \in {{}, {"ns"}}, own \in {{}, {ReadPods}},
        more \in {ReadPods, Rule({""}, {"secrets"}, {"get"}), Rule({""}, {"pods"}, {"delete"})},
        ns1 \in {"", "ns"}, home \in {{}, {"other"}},
        who \in {Who("User", {}, "ann"), Who("Group", {}, "system:masters")},
        ref \in {<<"ClusterRole", "made">>, <<"ClusterRole", "part">>, <<"Role", "part">>, <<"Role", "gone">>},
        sas \in {{}, {{}}, {{<<"ns", "robot">>, <<"ns", "idle">>}}}}

-----------------------------------------------------------------------------
(* A graph as the API server can list it: a name has one role of a kind and *)
(* namespace, a cluster role and no other is in no namespace, a namespace   *)
(* has a name, and an account is named or listed by one namespace at most. *)
GoodGraph(g) ==
    /\ g.roles \in Seq(ToSet(g.roles)) /\ g.bindings \in Seq(ToSet(g.bindings))
    /\ \A r \in ToSet(g.roles) : IF r.ns = "" THEN r.kind = "ClusterRole" ELSE r.kind = "Role"
    /\ \A i, j \in DOMAIN g.roles :
          (g.roles[i].ns = g.roles[j].ns /\ g.roles[i].name = g.roles[j].name) => i = j
    /\ \A b \in ToSet(g.bindings) : \A s \in ToSet(b.subjects) :
          "" \notin s.ns /\ \A m, n \in s.ns : m = n
    /\ \A m, n \in g.sas : m = n
    /\ \A a \in UNION g.sas : a = <<a[1], a[2]>>

(* A case of any size: the theorems are about these.                       *)
GoodCase(case) == case.about = "rbac" /\ case.floor \in Quiet..Critical /\ GoodGraph(case.graph)

ASSUME CasesAreGood == \A case \in RuleScenarios \cup GraphScenarios : GoodCase(case)

GrantsOf(case) ==
    LET g == case.graph
    IN  [grade    |-> [i \in DOMAIN g.bindings |-> Grade(g, i)],
         flat     |-> FlatRows(g, case.floor, case.scope),
         subjects |-> SubjectRows(g, case.floor, case.scope),
         bindings |-> BindingRows(g, case.floor, case.scope),
         roles    |-> RoleRows(g, case.floor, case.scope),
         said     |-> [i \in DOMAIN g.bindings |->
                          BindingFindings(g.roles, g.bindings, g.sas, i, g.critical)],
         ofRoles  |-> [i \in DOMAIN g.roles |-> RoleFindings(g.roles, g.bindings, i, g.critical)],
         ceiling  |-> [i \in DOMAIN g.roles |-> RoleGrade(g, i)],
         folded   |-> AutoFolded(g)]

CollectRbac == About("rbac") /\ reasons' = GrantsOf(cluster)

RbacSpec ==
    /\ GoodCase(cluster) /\ assessed = FALSE
    /\ [][~assessed /\ assessed' = TRUE /\ CollectRbac /\ UNCHANGED cluster]_<<cluster, reasons, assessed>>

-----------------------------------------------------------------------------
G == cluster.graph

(* A request that the rules let through, as the API server decides.        *)
Allowed(rules, verb, group, resource) ==
    \E r \in rules : AnyOf(r.verbs, {verb}) /\ AnyOf(r.groups, {group}) /\ AnyOf(r.resources, {resource})

Escalates(rules) ==
    \/ \E v \in {"bind", "escalate"}, r \in {"roles", "clusterroles"} : Allowed(rules, v, RbacGroup, r)
    \/ \E r \in {"users", "groups", "serviceaccounts"} : Allowed(rules, "impersonate", "", r)

(* Running code, or becoming an account, in the namespaces of the binding. *)
Enters(rules) ==
    \/ Allowed(rules, "create", "", "pods")
    \/ \E v \in {"get", "create"} : Allowed(rules, v, "", "pods/exec")
    \/ \E v \in ReadVerbs : Allowed(rules, v, "", "secrets")
    \/ \E v \in {"create", "patch"} : Allowed(rules, v, "apps", "deployments")
    \/ Allowed(rules, "create", "", "serviceaccounts/token")

Rules(i) == GrantedRules(G.roles, G.bindings[i])
IsEveryone(s) ==
    s.kind = "Group" /\ s.name \in {"system:masters", "system:authenticated", "system:unauthenticated"}

(* No takeover is ranked below critical and no foothold below high, where   *)
(* it is bound; a foothold in a namespace that rules the cluster is a      *)
(* takeover; and what is ranked low or less can write nothing, anywhere.   *)
DangerIsRanked ==
    Judged("rbac") =>
        \A i \in DOMAIN G.bindings :
            /\ Escalates(Rules(i)) => reasons.grade[i] = Critical
            /\ Enters(Rules(i)) => reasons.grade[i] >= High
            /\ (/\ G.bindings[i].ns \in G.critical
                /\ \/ Allowed(Rules(i), "create", "", "pods")
                   \/ Allowed(Rules(i), "patch", "apps", "deployments")) => reasons.grade[i] = Critical
            /\ reasons.grade[i] <= Low =>
                  \A r \in Rules(i) : HasVerb(r, WriteVerbs) => FALSE

(* The rank of a role bounds that of its bindings, but for what makes one   *)
(* worse than the role: who it is for, and a namespace that rules the      *)
(* cluster.                                                                *)
RoleIsACeiling ==
    Judged("rbac") =>
        \A i \in DOMAIN G.bindings :
            (/\ G.bindings[i].ns \notin G.critical
             /\ \A s \in ToSet(G.bindings[i].subjects) : ~IsEveryone(s) /\ s.name # "default") =>
                \A r \in Granted(G.roles, G.bindings[i]) : reasons.grade[i] <= reasons.ceiling[r]

Due(i) == reasons.grade[i] >= cluster.floor /\ BindingInScope(G.bindings[i], cluster.scope)

(* A grant that is dangerous enough for the floor is a row of every reading *)
(* by grants, and one under each of those it is given to; by default none  *)
(* that is high is folded away; and by roles, each role shown has each of  *)
(* its grants exactly once.                                                *)
GrantsAreInSight ==
    Judged("rbac") =>
        /\ \A i \in DOMAIN G.bindings : Due(i) =>
              /\ <<BindingNode(i)>> \in reasons.flat \cap reasons.bindings
              /\ \A s \in ToSet(G.bindings[i].subjects) :
                    LET path == <<<<"subject", SubjectKey(G.bindings[i], s)>>, BindingNode(i)>>
                    IN  /\ path \in reasons.subjects
                        /\ reasons.grade[i] >= High => path \in InSight(reasons.subjects, reasons.folded)
        /\ \A r \in DOMAIN G.roles : <<RoleNode(r)>> \in reasons.roles =>
              \A i \in DOMAIN G.bindings :
                  Cardinality({p \in reasons.roles : p[1] = RoleNode(r) /\ Last(p) = BindingNode(i)})
                    = IF r \in Granted(G.roles, G.bindings[i])
                         /\ BindingInScope(G.bindings[i], cluster.scope) THEN 1 ELSE 0

(* A subject is an account that was not among those read.                  *)
Missing(b, s) ==
    /\ s.kind = "ServiceAccount" /\ G.sas # {} /\ (s.ns # {} \/ b.ns # "")
    /\ \A account \in UNION G.sas : account[2] = s.name =>
          IF s.ns = {} THEN account[1] # b.ns ELSE account[1] \notin s.ns

(* A binding is said to name a missing account only when it does, and each  *)
(* account that is missing is told of under some binding that names it;    *)
(* each one that exists has its row in the whole of the subjects, bound or *)
(* not.                                                                    *)
AccountsAreTold ==
    Judged("rbac") =>
        LET told(i) == <<Quiet, "dangling-sa">> \in reasons.said[i]
        IN  /\ \A i \in DOMAIN G.bindings :
                  told(i) => \E s \in ToSet(G.bindings[i].subjects) : Missing(G.bindings[i], s)
            /\ \A i \in DOMAIN G.bindings : \A s \in ToSet(G.bindings[i].subjects) :
                  Missing(G.bindings[i], s) =>
                      \E j \in DOMAIN G.bindings :
                          /\ told(j)
                          /\ \E t \in ToSet(G.bindings[j].subjects) :
                                SubjectKey(G.bindings[j], t) = SubjectKey(G.bindings[i], s)
            /\ (cluster.floor = Quiet /\ cluster.scope = {}) =>
                  \A account \in UNION G.sas :
                      <<<<"subject", <<"ServiceAccount", account[1], account[2]>>>>>> \in reasons.subjects

(* A role that nobody is said to use is given by no binding; and no rule of *)
(* a part is missing from the role made of it, where that one has no rules *)
(* of its own.                                                             *)
UseOfRolesIsTold ==
    Judged("rbac") =>
        /\ \A r \in DOMAIN G.roles :
              (<<Quiet, "unbound-role">> \in reasons.ofRoles[r]) <=>
                  \A i \in DOMAIN G.bindings : r \notin Granted(G.roles, G.bindings[i])
        /\ \A r \in DOMAIN G.roles : G.roles[r].rules = {} =>
              \A s \in G.roles[r].selectors : \A wanted \in s.labels :
                  \A part \in DOMAIN G.roles \ {r} :
                      (/\ G.roles[part].ns = ""
                       /\ \A k \in DOMAIN wanted : /\ k \in DOMAIN G.roles[part].labels
                                                    /\ G.roles[part].labels[k] = wanted[k]) =>
                          G.roles[part].rules \subseteq RulesOf(G.roles)[r]

GrantsAreTold == DangerIsRanked /\ RoleIsACeiling /\ GrantsAreInSight /\ AccountsAreTold /\ UseOfRolesIsTold
=============================================================================
