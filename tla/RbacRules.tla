----------------------------- MODULE RbacRules -----------------------------
(***************************************************************************)
(* What kdt makes of the grants of a cluster (src/rbac.rs): how dangerous  *)
(* a set of rules is for those it is given to, the roles that others are   *)
(* made of, and the graph of bindings, roles and accounts.                 *)
(*                                                                         *)
(* A rule is [groups, resources, verbs], sets in which "*" stands for all; *)
(* rules are a set.  A role is [kind, ns, name, rules, labels, selectors], *)
(* where `selectors` is {} or the aggregation rule, as one record [labels, *)
(* partial].  A binding is [ns, name, ref, subjects], with "" for the      *)
(* namespace of a cluster binding and `ref` the <<kind, name>> it grants;  *)
(* a subject is [kind, ns, name], with {} for a namespace left out.  Roles *)
(* are listed with the cluster's first, bindings in the order of the view. *)
(***************************************************************************)
EXTENDS Naturals, Sequences, FiniteSets, SequencesExt, FiniteSetsExt, Functions

(* Severity, the least first. *)
Quiet == 0
Low == 1
Medium == 2
High == 3
Critical == 4

WriteVerbs == {"create", "update", "patch", "delete", "deletecollection"}
ReadVerbs == {"get", "list", "watch"}
Workloads == {"deployments", "statefulsets", "daemonsets", "replicasets",
              "replicationcontrollers", "jobs", "cronjobs"}
ClusterScoped == {"nodes", "persistentvolumes", "namespaces", "clusterroles",
                  "clusterrolebindings", "certificatesigningrequests",
                  "mutatingwebhookconfigurations", "validatingwebhookconfigurations"}
Sensitive == {"secrets", "pods", "serviceaccounts", "pods/exec", "pods/attach"} \cup Workloads
RbacGroup == "rbac.authorization.k8s.io"

AnyOf(listed, wanted) == "*" \in listed \/ listed \cap wanted # {}
HasVerb(r, verbs) == AnyOf(r.verbs, verbs)
OnGroup(r, group) == AnyOf(r.groups, {group})
OnResource(r, resources) == AnyOf(r.resources, resources)
HasWrite(r) == HasVerb(r, WriteVerbs)
HasRead(r) == HasVerb(r, ReadVerbs)
FullWildcard(r) == "*" \in r.verbs /\ "*" \in r.resources /\ "*" \in r.groups

Finding(condition, severity, tag) == IF condition THEN {<<severity, tag>>} ELSE {}

(* What a rule says, in a cluster binding or not: a way to take the cluster *)
(* over, a foothold, or broad without being either.                        *)
RuleFindings(r, everywhere) ==
    Finding(FullWildcard(r), Critical, "wildcard-all")
    \cup Finding(/\ OnGroup(r, RbacGroup) /\ OnResource(r, {"roles", "clusterroles"})
                 /\ HasVerb(r, {"escalate", "bind"}), Critical, "rbac-escalate")
    \cup Finding(HasVerb(r, {"impersonate"}), Critical, "impersonate")
    \cup Finding(OnGroup(r, "") /\ OnResource(r, {"pods/exec", "pods/attach"}), High, "pod-exec")
    \cup Finding(OnGroup(r, "") /\ OnResource(r, {"pods"}) /\ HasVerb(r, {"create"}),
                 High, "pod-create")
    \cup Finding(OnGroup(r, "") /\ OnResource(r, {"secrets"}) /\ HasRead(r), High, "secrets-read")
    \cup Finding(OnResource(r, Workloads) /\ HasWrite(r), High, "workload-write")
    \cup Finding(/\ OnGroup(r, "") /\ OnResource(r, {"serviceaccounts/token"})
                 /\ HasVerb(r, {"create"}), High, "sa-token")
    \cup Finding(OnGroup(r, "") /\ OnResource(r, {"serviceaccounts"}) /\ HasWrite(r),
                 High, "sa-write")
    \cup Finding(/\ everywhere /\ OnResource(r, {"certificatesigningrequests"})
                 /\ HasVerb(r, {"approve", "update"}), High, "csr-sign")
    \cup Finding(/\ everywhere /\ HasWrite(r)
                 /\ OnResource(r, {"mutatingwebhookconfigurations",
                                   "validatingwebhookconfigurations"}), High, "webhook-write")
    \cup Finding(everywhere /\ OnResource(r, {"nodes", "nodes/proxy"}), High, "node-access")
    \cup Finding("*" \in r.verbs /\ r.resources \cap Sensitive # {}, High, "wildcard-verb")
    \cup Finding(/\ "*" \in r.groups /\ "*" \in r.resources /\ HasRead(r) /\ ~FullWildcard(r),
                 Medium, "wide-read")
    \cup Finding(HasWrite(r), Medium, "write")

(* Who it is given to makes it worse. *)
SubjectFindings(s) ==
    Finding(s.kind = "Group" /\ s.name = "system:masters", Critical, "system-masters")
    \cup Finding(s.kind = "Group" /\ s.name \in {"system:authenticated", "system:unauthenticated"},
                 High, "subject-public")
    \cup Finding(s.kind = "ServiceAccount" /\ s.name = "default", Medium, "default-sa")

(* In a namespace whose accounts rule the cluster, so does where it is.    *)
NamespaceFinding(rules) ==
    LET hot == \E r \in rules : HasWrite(r)
                   /\ OnResource(r, {"pods", "secrets", "serviceaccounts"} \cup Workloads)
        warm == \E r \in rules : HasWrite(r)
                   \/ (OnGroup(r, "") /\ OnResource(r, {"secrets"}) /\ HasRead(r))
    IN  {<<IF hot THEN Critical ELSE IF warm THEN High ELSE Medium, "critical-ns">>}

Inert(rules) == \E r \in rules : r.resources \cap ClusterScoped # {}

(* `classify`, in the namespace `ns`, "" for the whole cluster.            *)
ClassifyFindings(ns, subjects, rules, criticalNs) ==
    (UNION {RuleFindings(r, ns = "") : r \in rules})
    \cup (UNION {SubjectFindings(s) : s \in ToSet(subjects)})
    \cup (IF ns \in criticalNs THEN NamespaceFinding(rules) ELSE {})
    \cup Finding(ns # "" /\ Inert(rules), Quiet, "inert-cluster-rules")

SeverityOf(findings, rules) ==
    Max({f[1] : f \in findings} \cup {IF rules = {} THEN Quiet ELSE Low})

-----------------------------------------------------------------------------
(* Roles made of others *)

(* `sub` has each label of `labels`, with its value. *)
HasLabels(labels, sub) ==
    \A k \in DOMAIN sub : k \in DOMAIN labels /\ labels[k] = sub[k]

(* `resolve_aggregation`: the roles of the cluster that feed role `i`.     *)
Aggregates(roles, i) ==
    {j \in DOMAIN roles \ {i} :
        /\ roles[j].kind = "ClusterRole"
        /\ \E s \in roles[i].selectors : \E sub \in s.labels : HasLabels(roles[j].labels, sub)}

(* The rules that count for each role: an aggregated one that has none of   *)
(* its own takes those of its contributors, as they are when its turn      *)
(* comes.                                                                  *)
RulesOf(roles) ==
    LET turn[i \in 0..Len(roles)] ==
            IF i = 0 THEN [j \in DOMAIN roles |-> roles[j].rules]
            ELSE LET before == turn[i - 1]
                 IN  IF roles[i].selectors = {} \/ roles[i].rules # {} THEN before
                     ELSE [before EXCEPT ![i] = UNION {before[j] : j \in Aggregates(roles, i)}]
    IN  turn[Len(roles)]

-----------------------------------------------------------------------------
(* The graph *)

(* The role that a binding names, as a set of no more than one index.      *)
Granted(roles, b) ==
    {i \in DOMAIN roles :
        /\ roles[i].name = b.ref[2]
        /\ IF b.ns = "" \/ b.ref[1] = "ClusterRole" THEN roles[i].kind = "ClusterRole"
           ELSE roles[i].kind = "Role" /\ roles[i].ns = b.ns}

GrantedRules(roles, b) == UNION {RulesOf(roles)[i] : i \in Granted(roles, b)}

(* The namespace of an account: that of the binding where it is left out.  *)
Home(b, s) == IF s.ns = {} THEN b.ns ELSE CHOOSE ns \in s.ns : TRUE

(* The account a subject names, as <<namespace, name>>, if it is one.      *)
AccountsNamed(b) == {<<Home(b, s), s.name>> : s \in {t \in ToSet(b.subjects) : t.kind = "ServiceAccount"}}

(* Accounts are `sas`: {} when they could not be read, else the set of them *)
(* in a set.  The holes are the accounts some binding names and no one     *)
(* created; where nothing was read, none is said to be missing.            *)
Holes(sas, b) == {a \in AccountsNamed(b) : a[1] # "" /\ sas # {} /\ a \notin UNION sas}

(* A hole is told of under the first binding that names it: from there on   *)
(* it is an account like another, that does not exist.                     *)
NewHoles(sas, bindings, i) ==
    Holes(sas, bindings[i]) \ UNION {Holes(sas, bindings[j]) : j \in 1..(i - 1)}

BindingFindings(roles, bindings, sas, i, criticalNs) ==
    LET b == bindings[i]
    IN  ClassifyFindings(b.ns, b.subjects, GrantedRules(roles, b), criticalNs)
          \cup Finding(NewHoles(sas, bindings, i) # {}, Quiet, "dangling-sa")

BindingSeverity(roles, b, criticalNs) ==
    LET rules == GrantedRules(roles, b)
    IN  SeverityOf(ClassifyFindings(b.ns, b.subjects, rules, criticalNs), rules)

(* Where a role is bound: the namespaces, "" for the whole cluster.        *)
BoundIn(roles, bindings, i) == {b.ns : b \in {c \in ToSet(bindings) : i \in Granted(roles, c)}}

IsTemplate(roles, bindings, i) ==
    roles[i].kind = "ClusterRole" /\ Cardinality(BoundIn(roles, bindings, i) \ {""}) >= 2

(* What a role could do at most, and what is said of it. *)
RoleSeverity(roles, i, criticalNs) ==
    LET rules == RulesOf(roles)[i]
    IN  SeverityOf(ClassifyFindings(roles[i].ns, << >>, rules, criticalNs), rules)

RoleFindings(roles, bindings, i, criticalNs) ==
    ClassifyFindings(roles[i].ns, << >>, RulesOf(roles)[i], criticalNs)
    \cup Finding(BoundIn(roles, bindings, i) = {}, Quiet, "unbound-role")
    \cup Finding(\E s \in roles[i].selectors : s.partial, Quiet, "aggregation-partial")

(* One identity for each subject, an account being known by its namespace. *)
SubjectKey(b, s) ==
    <<s.kind, IF s.kind = "ServiceAccount" THEN Home(b, s)
              ELSE IF s.ns = {} THEN "" ELSE CHOOSE ns \in s.ns : TRUE, s.name>>

(* `build_subjects`: those the bindings name, and the accounts that none   *)
(* does.                                                                   *)
SubjectKeys(bindings, sas) ==
    (UNION {{SubjectKey(b, s) : s \in ToSet(b.subjects)} : b \in ToSet(bindings)})
    \cup {<<"ServiceAccount", a[1], a[2]>> : a \in UNION sas}

Names(b, key) == \E s \in ToSet(b.subjects) : SubjectKey(b, s) = key

-----------------------------------------------------------------------------
(* The rows, in four orientations.  A graph `g` is [roles, bindings, sas,   *)
(* critical]; a row is the path of nodes that leads to it, and the order   *)
(* of the rows is left out.  A scope is {} for the whole cluster.          *)

Grade(g, i) == BindingSeverity(g.roles, g.bindings[i], g.critical)
SubjectGrade(g, key) ==
    Max({Quiet} \cup {Grade(g, i) : i \in {j \in DOMAIN g.bindings : Names(g.bindings[j], key)}})
RoleGrade(g, i) == RoleSeverity(g.roles, i, g.critical)

(* `binding_in_scope`: what is bound there, and what an account of there is *)
(* bound to.                                                               *)
BindingInScope(b, scope) ==
    \/ scope = {} \/ b.ns \in scope
    \/ \E s \in ToSet(b.subjects) : s.kind = "ServiceAccount" /\ s.ns \cap scope # {}

Kept(g, floor, scope) ==
    {i \in DOMAIN g.bindings : Grade(g, i) >= floor /\ BindingInScope(g.bindings[i], scope)}

BindingNode(i) == <<"binding", i>>
RoleNode(i) == <<"role", i>>
Under(node, paths) == {<<node>>} \cup {<<node>> \o p : p \in paths}

Contents(g, i) ==
    {<<<<"contributor", j>>>> : j \in Aggregates(g.roles, i)}
    \cup {<<<<"rule", r>>>> : r \in RulesOf(g.roles)[i]}

RoleSubtree(g, b) == UNION {Under(RoleNode(i), Contents(g, i)) : i \in Granted(g.roles, b)}

FlatRows(g, floor, scope) == {<<BindingNode(i)>> : i \in Kept(g, floor, scope)}

SubjectRows(g, floor, scope) ==
    LET mine(key) == \/ scope = {} \/ key[2] \in scope
                     \/ \E b \in ToSet(g.bindings) : Names(b, key) /\ BindingInScope(b, scope)
        shown == {key \in SubjectKeys(g.bindings, g.sas) : SubjectGrade(g, key) >= floor /\ mine(key)}
        bound(key) == {i \in Kept(g, floor, scope) : Names(g.bindings[i], key)}
    IN  UNION {Under(<<"subject", key>>,
                     UNION {Under(BindingNode(i), RoleSubtree(g, g.bindings[i])) : i \in bound(key)}) :
                  key \in shown}

BindingRows(g, floor, scope) ==
    UNION {LET b == g.bindings[i]
           IN  Under(BindingNode(i), {<<<<"leaf", s>>>> : s \in ToSet(b.subjects)} \cup RoleSubtree(g, b)) :
              i \in Kept(g, floor, scope)}

(* Mutant of Grants: the bindings of a template that are for the whole cluster are   *)
(* not put back under the role.                                            *)
GrantsOnlyGrouped(g, i, bound) ==
    IF ~IsTemplate(g.roles, g.bindings, i) THEN {<<BindingNode(j)>> : j \in bound}
    ELSE UNION {Under(<<"group", i, ns>>, {<<BindingNode(j)>> : j \in {k \in bound : g.bindings[k].ns = ns}}) :
                   ns \in {g.bindings[j].ns : j \in bound} \ {""}}

(* The bindings of a role under it, one level down for a template: a group  *)
(* for each namespace it is given in.                                      *)
Grants(g, i, bound) ==
    LET at(ns) == {<<BindingNode(j)>> : j \in {k \in bound : g.bindings[k].ns = ns}}
        spaces == {g.bindings[j].ns : j \in bound} \ {""}
    IN  IF ~IsTemplate(g.roles, g.bindings, i) THEN {<<BindingNode(j)>> : j \in bound}
        ELSE at("") \cup UNION {Under(<<"group", i, ns>>, at(ns)) : ns \in spaces}

RoleRows(g, floor, scope) ==
    LET bound(i) == {j \in DOMAIN g.bindings :
                        BindingInScope(g.bindings[j], scope) /\ i \in Granted(g.roles, g.bindings[j])}
        shown == {i \in DOMAIN g.roles :
                     RoleGrade(g, i) >= floor /\ (scope = {} \/ g.roles[i].ns \in scope \/ bound(i) # {})}
    IN  UNION {Under(RoleNode(i), Contents(g, i) \cup Grants(g, i, bound(i))) : i \in shown}

(* What is in sight with the nodes `collapsed` folded. *)
InSight(paths, collapsed) ==
    {p \in paths : \A n \in 1..(Len(p) - 1) : p[n] \notin collapsed}

(* `autofold`: the quiet is folded, the dangerous opened.                  *)
AutoFolded(g) ==
    {<<"subject", key>> : key \in {k \in SubjectKeys(g.bindings, g.sas) : SubjectGrade(g, k) < High}}
    \cup {BindingNode(i) : i \in {j \in DOMAIN g.bindings : Grade(g, j) < High}}
    \cup {RoleNode(i) : i \in {j \in DOMAIN g.roles : RoleGrade(g, j) < High}}
=============================================================================
