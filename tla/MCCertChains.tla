--------------------------- MODULE MCCertChains ---------------------------
(***************************************************************************)
(* Cases for the trees: of Flux, three resources that wait on one another   *)
(* and what they read; of certificates, that of an issuer, two requests of *)
(* it, an order and a challenge that may have lost the one that owns it,   *)
(* in every state that tells something, a rate limit here or there.        *)
(***************************************************************************)
EXTENDS CertChains, MCState

(* For that of Flux: who waits on whom among three resources (rounds and absent *)
(* names included), the source or the chart beside them, what is wrong and  *)
(* what is folded.                                                         *)
Resource(id, depends, chart, source, ready) ==
    [id |-> id, depends |-> depends, chart |-> chart, source |-> source,
     ready |-> ready, suspended |-> FALSE]

Waits == {<< >>, <<"a">>, <<"b">>, <<"gone", "c">>}
State(i, failed, reconciling) ==
    IF i = failed THEN "Failed" ELSE IF i = reconciling THEN "Reconciling" ELSE "Ready"

TreeScenarios ==
    {[about |-> "tree",
      resources |-> <<Resource(<<"Kustomization", "a">>, d1, {}, {<<"GitRepository", "g">>}, State(1, f, g)),
                      Resource(<<"Kustomization", "b">>, d2, {}, {}, State(2, f, g)),
                      Resource(<<k3, "c">>, d3, {"ch"}, {}, State(3, f, g)),
                      Resource(id4, << >>, {}, {<<"GitRepository", "gone">>}, State(4, f, g))>>,
      collapsed |-> folded] :
        d1 \in Waits, d2 \in Waits, d3 \in Waits, k3 \in {"Kustomization", "HelmRelease"},
        id4 \in {<<"GitRepository", "g">>, <<"HelmChart", "ch">>},
        f \in {1, 3}, g \in {2, 4}, folded \in SUBSET (1..4)}

Cond(status, reason) == [status |-> status, reason |-> reason]
Owner(kind, name, controller) == [kind |-> kind, name |-> name, controller |-> controller]
Cm(kind, name, issuer, owners, state, days, limited) ==
    [id |-> <<kind, IF kind = "ClusterIssuer" THEN "" ELSE "ns", name>>, issuer |-> issuer,
     owners |-> owners, state |-> state, days |-> days, limited |-> limited]

Acme == <<"ClusterIssuer", "", "acme">>
TlsOwner == {<<Owner("Certificate", "tls", TRUE)>>, << >>}
CertStates == {<<[Ready |-> Cond("True", "")], {60}>>, <<[Ready |-> Cond("True", "")], {20}>>,
               <<[Ready |-> Cond("False", "Failed")], {}>>,
               <<[Ready |-> Cond("False", "Failed"), Issuing |-> Cond("True", "")], {60}>>}
RequestStates == {[Ready |-> Cond("True", "")], [Denied |-> Cond("True", "")],
                  [Approved |-> Cond("True", ""), Ready |-> Cond("False", "Pending")]}

(* The owners of a challenge: the issuer beside the order, or alone once    *)
(* the order is collected.                                                 *)
ChallengeOwners ==
    {<<Owner("ClusterIssuer", "acme", FALSE), Owner("Order", "o", TRUE)>>,
     <<Owner("ClusterIssuer", "acme", FALSE), Owner("Order", "o", FALSE)>>,
     <<Owner("ClusterIssuer", "acme", FALSE)>>}

CertScenarios ==
    {[about |-> "cert", filter |-> shown[1], collapsed |-> shown[2], toggled |-> shown[3],
      resources |-> <<Cm("ClusterIssuer", "acme", {}, << >>, [Ready |-> Cond("True", "")], {}, FALSE),
                      Cm("Certificate", "tls", {Acme}, << >>, cert[1], cert[2], FALSE),
                      Cm("CertificateRequest", "q1", {Acme}, <<Owner("Certificate", "tls", TRUE)>>, q1, {}, FALSE),
                      Cm("CertificateRequest", "q2", {Acme}, q2owner, [Ready |-> Cond("True", "")], {}, limited = 4),
                      Cm("Order", "o", {Acme}, <<Owner("CertificateRequest", "q2", TRUE)>>, order, {}, limited = 5),
                      Cm("Challenge", "c", {Acme}, cowners, ch, {}, FALSE)>>] :
        shown \in {<<"All", {}, {}>>, <<"Problems", {4}, {2}>>, <<"InFlight", {2, 5}, {2}>>},
        cert \in CertStates, q1 \in RequestStates, q2owner \in TlsOwner, limited \in {0, 4, 5},
        order \in {"valid", "pending", "errored"}, cowners \in ChallengeOwners,
        ch \in {"pending", "valid"}}

(* References that go round, from a certificate whose issuer is missing.   *)
RoundScenarios ==
    {[about |-> "cert", filter |-> filter, collapsed |-> folded, toggled |-> {},
      resources |-> <<Cm("Certificate", "tls", {}, <<Owner("Order", o1, TRUE)>>, [Ready |-> Cond("True", "")], {9}, FALSE),
                      Cm("CertificateRequest", "q1", {}, <<Owner("Certificate", "tls", TRUE)>>, << >>, {}, FALSE),
                      Cm("Order", "o", {}, <<Owner("CertificateRequest", "q1", TRUE)>>, order, {}, lo),
                      Cm("Challenge", "c", {}, <<Owner("Order", o2, TRUE)>>, "pending", {}, FALSE)>>] :
        filter \in {"All", "Problems", "InFlight"}, folded \in SUBSET {1, 2, 3}, o1 \in {"o", "gone"},
        o2 \in {"o", "gone"}, order \in {"valid", "pending"}, lo \in BOOLEAN}

(* Any case: a reference that may be absent is one or none, as is an id, and *)
(* a challenge is of one order and controlled by nothing else.             *)
AtMostOne(set) == \A a, b \in set : a = b
Indexed(list) == Len(list) \in Nat /\ DOMAIN list = 1..Len(list)

GoodTree(resources) ==
    /\ Indexed(resources)
    /\ \A i \in DOMAIN resources :
          /\ Indexed(resources[i].depends)
          /\ AtMostOne(resources[i].chart) /\ AtMostOne(resources[i].source)

GoodChains(resources) ==
    /\ Indexed(resources)
    /\ \A i, j \in DOMAIN resources : resources[i].id = resources[j].id => i = j
    /\ \A i \in DOMAIN resources :
          /\ KindOf(resources[i]) \in Issuers \cup AcmeKinds \cup {"Certificate", "CertificateRequest"}
          /\ AtMostOne(resources[i].issuer) /\ Indexed(resources[i].owners)
          /\ KindOf(resources[i]) = "Challenge" =>
                LET owners == resources[i].owners
                    lineage == {n \in DOMAIN owners : \/ owners[n].controller
                                                      \/ owners[n].kind \in {"Certificate", "CertificateRequest", "Order"}}
                IN  \A n, k \in lineage : owners[n].kind = "Order" /\ owners[n].name = owners[k].name

ASSUME TreesAreGood ==
    /\ \A case \in TreeScenarios : GoodTree(case.resources)
    /\ \A case \in CertScenarios \cup RoundScenarios : GoodChains(case.resources)

(* The rows of the tree as it is folded, and as it is while it unfolds what *)
(* is wrong by itself (src/ui.rs, `refresh_flux_snapshot`).                *)
CollectTree ==
    /\ About("tree")
    /\ reasons' = [rows     |-> BuildFluxTree(cluster.resources, cluster.collapsed),
                   revealed |-> BuildFluxTree(cluster.resources,
                                  cluster.collapsed \ ProblemAncestors(cluster.resources))]

CollectCerts ==
    /\ About("cert")
    /\ LET all    == cluster.resources
           parent == ParentMap(all)
           folded == Autofold(all, cluster.collapsed, cluster.toggled)
       IN  reasons' = [up    |-> parent,
                       above |-> [i \in DOMAIN all |-> ToSet(Tail(ChainPath(parent, i)))],
                       below |-> [i \in DOMAIN all |-> Below(parent, i)],
                       owner |-> [i \in DOMAIN all |-> OwningCertificate(all, parent, i)],
                       live  |-> {i \in DOMAIN all : InFlight(all[i])},
                       kept  |-> FilterChains(all, parent, cluster.filter),
                       rows  |-> BuildCertTree(parent, cluster.collapsed),
                       auto  |-> folded,
                       first |-> BuildCertTree(parent, folded),
                       retry |-> [i \in DOMAIN all |-> AcmeRetry(all, parent, i)]]

-----------------------------------------------------------------------------
ParentOf == ResolveParents(cluster.resources)

(* The resources `n` steps above `i`: one, or none past a root. *)
Above(i, n) ==
    LET up[k \in 0..n] == IF k = 0 THEN {i} ELSE UNION {ParentOf[j] : j \in up[k - 1]}
    IN  up[n]

Size == Len(cluster.resources)
Ancestors(i) == UNION {Above(i, n) : n \in 1..Size}
InACycle(i) == Above(i, Size) # {}
Shown(rows) == {rows[k].idx : k \in DOMAIN rows}

(* No resource vanishes from the tree, shows twice, or is hidden by two     *)
(* folds, whatever goes round or is missing among its references: each one *)
(* has a row, or is told of by exactly one folded row (`build_flux_tree`). *)
EveryResourceAccounted ==
    Judged("tree") =>
        LET rows == reasons.rows
        IN  \A i \in 1..Size :
              Cardinality({k \in DOMAIN rows : rows[k].idx = i})
                + Cardinality({k \in DOMAIN rows : i \in rows[k].hidden}) = 1

(* A fold keeps what it hides: below a root, a resource is shown exactly    *)
(* when nothing above it is folded; the pass that rescues cycles does not  *)
(* take what a fold hides for lost (`mark_subtree`).                       *)
FoldIsKept ==
    Judged("tree") =>
        \A i \in 1..Size : ~InACycle(i) =>
            (i \in Shown(reasons.rows) <=> Ancestors(i) \cap cluster.collapsed = {})

(* While the view unfolds by itself, what fails or is being reconciled is   *)
(* in sight, cycles included (`problem_ancestors`, `walk_up`).             *)
ProblemsAreRevealed ==
    Judged("tree") =>
        \A i \in 1..Size : Problem(cluster.resources[i]) => i \in Shown(reasons.revealed)

(* The tree of Flux loses nothing, keeps its folds, and reveals what is    *)
(* wrong.                                                                  *)
TreeIsWhole == EveryResourceAccounted /\ FoldIsKept /\ ProblemsAreRevealed

-----------------------------------------------------------------------------
(* References go round above `i`. *)
Looped(i) ==
    \E j \in reasons.above[i] \cup {i} : \E k \in reasons.up[j] : j \in reasons.above[k]

(* Each resource has one row and no more, unless something above it is      *)
(* folded, and is there whatever is folded where references go round: what *)
(* a fold hides is not taken for lost (`build_cert_tree`).                 *)
EveryLinkAccounted ==
    Judged("cert") =>
        /\ IsInjective(reasons.rows)
        /\ \A i \in DOMAIN cluster.resources :
              (i \in ToSet(reasons.rows)) <=> (Looped(i) \/ reasons.above[i] \cap cluster.collapsed = {})

(* A challenge hangs under its order as long as that one is there, whatever *)
(* issuer owns it beside and in what order (`lineage_owner`).              *)
ChallengesFollowTheirOrder ==
    Judged("cert") =>
        \A i, j \in DOMAIN cluster.resources :
            LET c == cluster.resources[i]
                o == cluster.resources[j]
            IN  (/\ KindOf(c) = "Challenge" /\ KindOf(o) = "Order"
                 /\ \E n \in DOMAIN c.owners :
                       <<c.owners[n].kind, c.id[2], c.owners[n].name>> = o.id)
                    => reasons.up[i] = {j}

(* A filter strands no one: what it keeps hangs, in the list it leaves,     *)
(* under what it hangs under in the whole; what matches is kept, and the   *)
(* rest only as the lineage of something that matches (`filter_chains`).   *)
FilterKeepsLineage ==
    Judged("cert") =>
        LET kept == reasons.kept
            up   == ParentMap(kept)
            id(i) == cluster.resources[i].id
        IN  /\ \A n \in DOMAIN kept : \A i \in DOMAIN cluster.resources :
                  kept[n].id = id(i) => {kept[m].id : m \in up[n]} = {id(j) : j \in reasons.up[i]}
            /\ \A i \in DOMAIN cluster.resources :
                  (\E n \in DOMAIN kept : kept[n].id = id(i)) <=>
                      \E j \in reasons.below[i] : Matches(cluster.filter, cluster.resources[j])

(* From any row of a chain the retry restarts the same request, one of its  *)
(* certificate under which something is in flight; there is one whenever   *)
(* something is, unless a rate limit is told anywhere from the issuer to   *)
(* the last challenge (`certs_acme_retry`).                                *)
RetryIsSafe ==
    Judged("cert") =>
        \A i \in DOMAIN cluster.resources :
            LET certs == reasons.owner[i]
                chain == UNION {reasons.below[c] \cup reasons.above[c] : c \in certs}
                live  == {q \in UNION {reasons.below[c] : c \in certs} :
                            /\ KindOf(cluster.resources[q]) = "CertificateRequest"
                            /\ \E j \in reasons.below[q] \cap reasons.live :
                                  KindOf(cluster.resources[j]) # "Certificate"}
            IN  /\ \A c \in certs : reasons.retry[i] = reasons.retry[c]
                /\ reasons.retry[i] \subseteq live
                /\ (reasons.retry[i] # {}) <=>
                      (live # {} /\ \A j \in chain : ~cluster.resources[j].limited)

(* Left to itself, the view hides nothing but what hangs under a            *)
(* certificate that is well, and never folds back what was unfolded by     *)
(* hand (`apply_certs_autofold`).                                          *)
TroubleIsUnfolded ==
    Judged("cert") =>
        /\ (cluster.collapsed = {} /\ cluster.toggled = {}) =>
              \A i \in DOMAIN cluster.resources :
                  (\A c \in reasons.above[i] : KindOf(cluster.resources[c]) = "Certificate" =>
                      Readiness(cluster.resources[c]) # "Ready") => i \in ToSet(reasons.first)
        /\ reasons.auto \cap cluster.toggled = cluster.collapsed \cap cluster.toggled

ChainsAreKept ==
    /\ EveryLinkAccounted /\ ChallengesFollowTheirOrder /\ FilterKeepsLineage
    /\ RetryIsSafe /\ TroubleIsUnfolded

(* The trees of Flux and of the certificates lose nothing and hide nothing  *)
(* that matters.                                                           *)
TreesAreWhole == TreeIsWhole /\ ChainsAreKept

TreeSpec ==
    /\ \/ About("tree") /\ GoodTree(cluster.resources)
       \/ About("cert") /\ GoodChains(cluster.resources)
    /\ assessed = FALSE
    /\ [][/\ ~assessed /\ assessed' = TRUE /\ (CollectTree \/ CollectCerts)
          /\ UNCHANGED cluster]_<<cluster, reasons, assessed>>
=============================================================================
