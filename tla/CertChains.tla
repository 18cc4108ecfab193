---------------------------- MODULE CertChains ----------------------------
(***************************************************************************)
(* The chains of certificates (src/certmanager.rs): who hangs under whom,  *)
(* the tree as it is folded and filtered, and what can be restarted.       *)
(*                                                                         *)
(* A resource is [id, issuer, owners, state, days, limited]: `id` is its   *)
(* <<kind, namespace, name>>, `issuer` no more than one such id, `owners`  *)
(* its owner references in order, as [kind, name, controller], `state` the *)
(* conditions or the ACME state it publishes, `days` what is left to it,   *)
(* no more than one number, and `limited` whether its message tells of an  *)
(* ACME rate limit.  Resources are a sequence, in the order of the view.   *)
(***************************************************************************)
EXTENDS FluxTree

Issuers == {"Issuer", "ClusterIssuer"}
AcmeKinds == {"Order", "Challenge"}
KindOf(r) == r.id[1]

(* Reasons of a condition that is not met which mean "still working". *)
Progressing == {"Pending", "InProgress", "Issuing", "Requested", "DoesNotExist"}

ConditionReady(c) ==
    CASE c.status = "True" -> "Ready"
      [] c.status = "False" /\ c.reason \in Progressing -> "InProgress"
      [] c.status = "False" /\ c.reason \notin Progressing -> "Failed"
      [] OTHER -> "Unknown"

AcmeReady(state) ==
    CASE state \in {"valid", "ready"} -> "Ready"
      [] state \in {"pending", "processing"} -> "InProgress"
      [] state \in {"invalid", "expired", "errored"} -> "Failed"
      [] OTHER -> "Unknown"

Met(conditions, type) == type \in DOMAIN conditions /\ conditions[type].status = "True"

(* How a resource is, from wherever its kind says so: `state` is a word for *)
(* the ACME kinds, and for the others a function from the types of its     *)
(* conditions to [status, reason].                                         *)
Readiness(r) ==
    LET said == IF "Ready" \in DOMAIN r.state THEN ConditionReady(r.state["Ready"]) ELSE "Unknown"
    IN  CASE KindOf(r) \in AcmeKinds -> AcmeReady(r.state)
          [] KindOf(r) = "CertificateRequest" ->
                IF Met(r.state, "Denied") \/ Met(r.state, "InvalidRequest") THEN "Failed"
                ELSE IF {"Ready", "Approved"} \cap DOMAIN r.state = {} THEN "InProgress"
                ELSE said
          [] KindOf(r) = "Certificate" ->
                IF Met(r.state, "Issuing") /\ said # "Ready" THEN "InProgress" ELSE said
          [] OTHER -> said

InFlight(r) == Readiness(r) = "InProgress"

-----------------------------------------------------------------------------
(* The owner that tells the lineage: the controller, else the first that    *)
(* can be one, never an issuer.                                            *)
LineageOwner(owners) ==
    LET controllers == {i \in DOMAIN owners : owners[i].controller}
        lineage == {i \in DOMAIN owners : owners[i].kind \in {"Certificate", "CertificateRequest", "Order"}}
        told == IF controllers # {} THEN controllers ELSE lineage
    IN  {owners[i] : i \in {k \in told : \A j \in told : k <= j}}

(* The parent of each resource, no more than one: a certificate hangs under *)
(* its issuer, what is below under what owns it, each under the other where *)
(* that is not there, and issuers under nothing.                           *)
ParentMap(resources) ==
    [i \in DOMAIN resources |->
        LET r      == resources[i]
            owner  == UNION {ById(resources, <<o.kind, r.id[2], o.name>>) : o \in LineageOwner(r.owners)}
            issuer == UNION {ById(resources, id) : id \in r.issuer}
            parent == IF KindOf(r) = "Certificate" THEN IF issuer # {} THEN issuer ELSE owner
                      ELSE IF owner # {} THEN owner ELSE issuer
        IN  IF KindOf(r) \in Issuers THEN {} ELSE parent \ {i}]

(* From `i` up to its root, or until a cycle closes: the nearest first.    *)
ChainPath(parent, i) ==
    LET walk[n \in 0..Len(parent)] ==
            IF n = 0 THEN <<i>>
            ELSE LET path == walk[n - 1]
                     up   == parent[Last(path)] \ ToSet(path)
                 IN  IF up = {} THEN path ELSE Append(path, CHOOSE p \in up : TRUE)
    IN  walk[Len(parent)]

(* Everything below `i`: the children of each in turn join the queue.      *)
Descendants(parent, i) ==
    LET queue[n \in 0..Len(parent)] ==
            IF n = 0 THEN <<i>>
            ELSE LET out == queue[n - 1]
                 IN  IF n > Len(out) THEN out
                     ELSE out \o InOrder(Children(parent, out[n]) \ ToSet(out), Len(parent))
    IN  Tail(queue[Len(parent)])

-----------------------------------------------------------------------------
(* The tree and the filter *)

Below(parent, i) == {i} \cup ToSet(Descendants(parent, i))

(* The next call of `push_subtree`, those to come being on a stack. *)
PushChain(parent, collapsed, acc) ==
    LET i    == Head(acc.calls)
        rest == Tail(acc.calls)
    IN  IF acc.calls = << >> THEN acc
        ELSE IF i \in ToSet(acc.rows) THEN [acc EXCEPT !.calls = rest]
        ELSE [calls |-> IF i \in collapsed THEN rest
                        ELSE InOrder(Children(parent, i), Len(parent)) \o rest,
              rows  |-> Append(acc.rows, i)]

Roots(parent) == {i \in DOMAIN parent : parent[i] = {}}

(* What no root reaches, folded or not: it is caught in a cycle.           *)
Unreached(parent) ==
    DOMAIN parent \ Closure([i \in DOMAIN parent |-> Children(parent, i)], Roots(parent))

(* `build_cert_tree`: from the roots, then from whatever a cycle keeps out  *)
(* of their reach.                                                         *)
BuildCertTree(parent, collapsed) ==
    LET size == Len(parent)
        turn[n \in 0..size * (size + 3)] ==
            IF n = 0 THEN [calls |-> InOrder(Roots(parent), size) \o InOrder(Unreached(parent), size),
                           rows  |-> << >>]
            ELSE PushChain(parent, collapsed, turn[n - 1])
    IN  turn[size * (size + 3)].rows

Matches(filter, r) ==
    CASE filter = "All" -> TRUE
      [] filter = "Problems" -> Readiness(r) # "Ready" \/ \E d \in r.days : d < 30
      [] filter = "InFlight" -> InFlight(r)

(* What matches by itself. *)
MatchedOnly(resources, parent, filter) == {i \in DOMAIN resources : Matches(filter, resources[i])}

(* What matches, with its lineage. *)
KeptByFilter(resources, parent, filter) ==
    UNION {ToSet(ChainPath(parent, i)) : i \in MatchedOnly(resources, parent, filter)}

(* The list the filter leaves to the view. *)
FilterChains(resources, parent, filter) ==
    LET kept == InOrder(KeptByFilter(resources, parent, filter), Len(resources))
    IN  [n \in DOMAIN kept |-> resources[kept[n]]]

(* What is folded by itself: the chains that are well, but for those that   *)
(* were folded or unfolded by hand.                                        *)
Autofold(resources, collapsed, toggled) ==
    LET certs == {i \in DOMAIN resources : KindOf(resources[i]) = "Certificate"} \ toggled
        well  == {i \in certs : Readiness(resources[i]) = "Ready"}
    IN  (collapsed \ certs) \cup well

-----------------------------------------------------------------------------
(* What can be done about it *)

(* The nearest certificate at or above `i`, if any. *)
OwningCertificate(resources, parent, i) ==
    LET path  == ChainPath(parent, i)
        certs == {n \in DOMAIN path : KindOf(resources[path[n]]) = "Certificate"}
    IN  {path[n] : n \in {x \in certs : \A y \in certs : x <= y}}

(* The first request below a certificate that is in flight, or under which  *)
(* an order or a challenge is.                                             *)
InFlightRequest(resources, parent, cert) ==
    LET below == Descendants(parent, cert)
        live  == {n \in DOMAIN below :
                    /\ KindOf(resources[below[n]]) = "CertificateRequest"
                    /\ \/ InFlight(resources[below[n]])
                       \/ \E j \in ToSet(Descendants(parent, below[n])) :
                             KindOf(resources[j]) \in AcmeKinds /\ InFlight(resources[j])}
    IN  {below[n] : n \in {x \in live : \A y \in live : x <= y}}

(* Mutant of IsRateLimited: the quota is only looked for where the cursor is. *)
RateLimitedHere(resources, parent, i) == resources[i].limited

IsRateLimited(resources, parent, i) ==
    \E j \in Below(parent, i) \cup ToSet(ChainPath(parent, i)) : resources[j].limited

(* The request that is deleted so that the issuance restarts, from the row  *)
(* `i`: none under a rate limit.                                           *)
AcmeRetry(resources, parent, i) ==
    UNION {IF IsRateLimited(resources, parent, c) THEN {} ELSE InFlightRequest(resources, parent, c) :
             c \in OwningCertificate(resources, parent, i)}
=============================================================================
