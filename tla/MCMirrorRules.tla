--------------------------- MODULE MCMirrorRules ---------------------------
(***************************************************************************)
(* Cases for the mirrors: a source, what its scopes say, what is already    *)
(* where it should go, and who asks for it; and the reflector, as the code *)
(* says it reacts, through which a forced mirroring has to pass.           *)
(***************************************************************************)
EXTENDS MirrorRules, MCState

Scope(on, patterns, ok, reqs) == [on |-> on, patterns |-> patterns, ok |-> ok, reqs |-> reqs]
Nowhere == Scope(FALSE, {}, TRUE, {})
Tier(operator) == {[key |-> "tier", operator |-> operator, values |-> {"app"}]}

NoProps == [allowed |-> Nowhere, auto |-> Nowhere, reflects |-> {}, made |-> FALSE,
            recorded |-> "absent", passed |-> FALSE]
Thing(kind, ns, name, content, props) ==
    [kind |-> kind, ns |-> ns, name |-> name, version |-> "v2", content |-> content, props |-> props]

Mirroring(source, made, recorded) ==
    [NoProps EXCEPT !.reflects = {source}, !.made = made, !.recorded = recorded, !.passed = recorded # "absent"]

Cred == <<"src", "cred">>
SourceProps(allowed, auto) == [NoProps EXCEPT !.allowed = allowed, !.auto = auto]

AllowedScopes ==
    {Scope(TRUE, {}, TRUE, {}), Scope(TRUE, {{"a"}, {"zz"}}, TRUE, {}),
     Scope(TRUE, {}, TRUE, Tier("In")), Scope(TRUE, {{"b"}}, TRUE, Tier("NotExists")),
     Scope(TRUE, {}, FALSE, {})}
AutoScopes ==
    {Nowhere, Scope(TRUE, {}, TRUE, {}), Scope(TRUE, {{"a"}}, TRUE, {}), Scope(FALSE, {{"b"}}, TRUE, {})}

(* What is in the namespace `ns` under the name of the source. *)
There(ns) ==
    {{}, {Thing("Secret", ns, "cred", "new", NoProps)},
     {Thing("Secret", ns, "cred", "old", Mirroring(<<"other", "cred">>, FALSE, "v1"))}}
    \cup {{Thing("Secret", ns, "cred", content, Mirroring(Cred, made, recorded))} :
            content \in {"new", "old"}, made \in BOOLEAN, recorded \in {"absent", "", "v1", "v2"}}

Elsewhere ==
    {{}, {Thing("Secret", "b", "copy", "new", Mirroring(Cred, FALSE, "v2"))},
     {Thing("ConfigMap", "src", "cred", "x", SourceProps(Scope(TRUE, {{"b"}}, TRUE, {}), Nowhere))}}

Ref(kind, name, how) == [kind |-> kind, name |-> name, how |-> how]
Pods == {[ns |-> "a", refs |-> {Ref("Secret", "cred", "volume"), Ref("Secret", "debug", "ephemeral")}],
         [ns |-> "b", refs |-> {Ref("ConfigMap", "cred", "env")}]}
Accounts == {[ns |-> "b", secrets |-> {"cred"}]}

MirrorScenarios ==
    {[about |-> "mirror",
      world |-> [objects |-> {Thing("Secret", "src", "cred", "new", SourceProps(allowed, auto))}
                                \cup here \cup aside \cup more,
                 namespaces |-> {[name |-> "src", labels |-> << >>], [name |-> "a", labels |-> [tier |-> "app"]],
                                 [name |-> "b", labels |-> << >>]},
                 consumers |-> Consumers(Pods, Accounts), known |-> known]] :
        allowed \in AllowedScopes, auto \in AutoScopes, here \in There("a"),
        aside \in {{}, {Thing("Secret", "b", "cred", "old", Mirroring(Cred, FALSE, "v1"))}},
        more \in Elsewhere, known \in BOOLEAN}

-----------------------------------------------------------------------------
(* The versions of a source: the one it has, and those its stamps give it.  *)
Later == <<"v3", "v4">>
VersionOf(s, n) == IF n = 1 THEN s.object.version ELSE Later[n - 1]

(* A world as the API server can list it: a name has one object of a kind  *)
(* in a namespace, an object names one source at most, and what a mirror    *)
(* was copied at is no version that is still to come.                      *)
GoodWorld(w) ==
    /\ IsFiniteSet(w.objects) /\ IsFiniteSet(w.namespaces)
    /\ \A o, p \in w.objects : Id(o) = Id(p) => o = p
    /\ \A m, n \in w.namespaces : m.name = n.name => m = n
    /\ \A o \in w.objects : \A a, b \in o.props.reflects : a = b
    /\ \A o \in w.objects : o.version \notin {"absent", ""} /\ o.props.recorded \notin {"v3", "v4"}
    /\ \A c \in w.consumers : c = <<c[1], c[2], c[3]>>

(* A case of any size: the theorem is about these.                         *)
GoodMirrors(case) == case.about = "mirror" /\ GoodWorld(case.world)

ASSUME WorldsAreGood == \A case \in MirrorScenarios : GoodMirrors(case)

-----------------------------------------------------------------------------
(* The reflector (external): what it hears of a source, it sends to every   *)
(* mirror of the automatic scope that has another version; what it hears of *)
(* a mirror made by hand, it sends to it; one it made by itself waits for   *)
(* its source.                                                             *)
Send(s, state, nss) ==
    LET version == VersionOf(s, state.source)
    IN  [state EXCEPT !.mirrors = [ns \in DOMAIN @ |->
            IF ns \in nss /\ @[ns].recorded # version
            THEN [right |-> TRUE, recorded |-> version] ELSE @[ns]]]

MirrorIn(s, ns) == CHOOSE t \in s.targets : t.ns = ns
ByHand(s, ns) == \A o \in MirrorIn(s, ns).mirrors : ~o.props.made

Hear(s, state, ns) ==
    LET heard == [state EXCEPT !.news = @ \ {ns}]
    IN  IF ns = s.object.ns THEN Send(s, heard, {n \in DOMAIN state.mirrors : MirrorIn(s, n).auto})
        ELSE IF ByHand(s, ns) THEN Send(s, heard, {ns}) ELSE heard

(* Everything that can come of a plan, with at most one write that fails.  *)
Steps(s, state) ==
    {Hear(s, state, ns) : ns \in state.news}
    \cup IF state.todo = << >> THEN {}
         ELSE {ApplyForce(state)} \cup IF state.failed = {} THEN {FailForce(state)} ELSE {}

Before(s, plan) ==
    [todo |-> plan, source |-> 1, news |-> {}, failed |-> {}, stamped |-> FALSE,
     mirrors |-> [ns \in {t.ns : t \in {u \in s.targets : u.mirrors # {}}} |->
                    LET o == CHOOSE x \in MirrorIn(s, ns).mirrors : TRUE
                    IN  [right |-> o.content = s.object.content, recorded |-> o.props.recorded]]]

ForceOutcomes(s, plan) ==
    LET after[n \in 0..(2 * Len(plan))] ==
            IF n = 0 THEN {Before(s, plan)}
            ELSE LET reached == after[n - 1]
                 IN  reached \cup UNION {Steps(s, state) : state \in reached}
    IN  {state \in after[2 * Len(plan)] : state.todo = << >> /\ state.news = {}}

MirrorsMade(world) ==
    LET d    == Diagnose(world)
        keys == {SourceKey(s) : s \in d.sources}
    IN  [found    |-> d,
         mirrors  |-> BuildReflView(d, "Mirrors", FALSE, {}),
         problems |-> BuildReflView(d, "Sources", TRUE, keys),
         forced   |-> UNION {{[source |-> s, target |-> target, plan |-> ForceWrites(s, target)] :
                                target \in {{}} \cup {{t} : t \in s.targets}} : s \in d.sources}]

CollectMirrors == About("mirror") /\ reasons' = MirrorsMade(cluster.world)

MirrorSpec ==
    /\ GoodMirrors(cluster) /\ assessed = FALSE
    /\ [][~assessed /\ assessed' = TRUE /\ CollectMirrors /\ UNCHANGED cluster]_<<cluster, reasons, assessed>>

-----------------------------------------------------------------------------
World == cluster.world

(* Each copy that some object says it is has one row in the world of the    *)
(* mirrors, under the one source it names or among the orphans.            *)
EveryMirrorAccounted ==
    Judged("mirror") =>
        \A o \in {x \in World.objects : IsReflection(x)} :
            Cardinality({row \in reasons.mirrors :
                            \/ row[1] = "target" /\ row[3].mirrors = {o} /\ MirrorOf(row[2].object, o)
                            \/ row[1] = "orphan" /\ row[2].object = o}) = 1

(* A mirror that has the name of its source is said to be out of its scope  *)
(* only where the source can be read and does not let it in.               *)
OrphansAreOutside ==
    Judged("mirror") =>
        \A o \in reasons.found.orphans : \A s \in reasons.found.sources :
            (/\ <<Danger, "out-of-scope">> \in o.hints /\ MirrorOf(s.object, o.object)
             /\ s.object.kind = o.object.kind /\ s.object.name = o.object.name
             /\ <<Danger, "bad-selector">> \notin s.hints) =>
                \A n \in World.namespaces : n.name = o.object.ns => ~MatchScope(s.object.props.allowed, n)

(* A workload that asks for what a source of elsewhere publishes, and does  *)
(* not have it, is told of: under the source, or for the whole cluster. But *)
(* where not all that asks could be read, of none is it said that it waits. *)
StarvedAreTold ==
    Judged("mirror") =>
        \A c \in World.consumers : \A s \in reasons.found.sources :
            (s.object.kind = c[1] /\ s.object.name = c[3] /\ s.object.ns # c[2]) =>
                LET told == \/ c \in reasons.found.stranded
                            \/ \E t \in s.targets : t.ns = c[2] /\ <<Danger, "waiting">> \in t.hints
                    there == {o \in World.objects : Id(o) = c}
                IN  /\ (World.known /\ there = {}) => told
                    /\ told => World.known /\ \A o \in there : ~MirrorOf(s.object, o)

(* Filtered on what is wrong, nothing that is wrong is left out, and none   *)
(* of it without its source above it.                                      *)
WrongIsInSight ==
    Judged("mirror") =>
        \A s \in reasons.found.sources :
            /\ \A t \in s.targets : Flagged(t.hints) <=> <<"target", s, t>> \in reasons.problems
            /\ SourceFlagged(s) <=> <<"source", s>> \in reasons.problems

(* Whatever the order the reflector hears of the writes in, a forced mirror *)
(* ends up with what its source has, unless the writes that move it failed, *)
(* and the stamp is off the source unless taking it off did.  Mirrors made *)
(* by the reflector that the automatic scope has left are not counted.     *)
ForcedIsResent ==
    Judged("mirror") =>
        \A f \in reasons.forced : \A out \in ForceOutcomes(f.source, f.plan) :
            /\ \A t \in (IF f.target = {} THEN f.source.targets ELSE f.target) :
                  (Forceable(t) /\ (t.auto \/ ByHand(f.source, t.ns))
                     /\ (t.auto \/ \A w \in out.failed : w[2] # t.ns)) => out.mirrors[t.ns].right
            /\ out.stamped => <<"unstamp", f.source.object.ns>> \in out.failed

MirrorsAreTold ==
    EveryMirrorAccounted /\ OrphansAreOutside /\ StarvedAreTold /\ WrongIsInSight /\ ForcedIsResent
=============================================================================
