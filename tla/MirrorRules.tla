---------------------------- MODULE MirrorRules ----------------------------
(***************************************************************************)
(* What kdt says of the Secrets and ConfigMaps that a reflector mirrors     *)
(* from namespace to namespace, and how it makes it mirror them again       *)
(* (src/reflector.rs).                                                     *)
(*                                                                         *)
(* An object is [kind, ns, name, version, content, props], and `props` its *)
(* annotations: [allowed, auto, reflects, made, recorded, passed], with    *)
(* `allowed` and `auto` scopes [on, patterns, ok, reqs], `reflects` no more *)
(* than one <<namespace, name>>, `made` whether the reflector made it by   *)
(* itself, `recorded` "absent", "" or the version it was copied at, and     *)
(* `passed` whether the reflector says it has been there.  A pattern is the *)
(* set of the names it covers whole; a selector that cannot be read is not *)
(* `ok`.  A world is [objects, namespaces, consumers, known]: a namespace is *)
(* [name, labels], and a consumer the <<kind, namespace, name>> that some   *)
(* workload asks for.                                                      *)
(***************************************************************************)
EXTENDS Naturals, Sequences, FiniteSets, SequencesExt, FiniteSetsExt

Info == 1
Warn == 2
Danger == 3

Hint(condition, level, what) == IF condition THEN {<<level, what>>} ELSE {}

PatternListMatch(patterns, name) == patterns = {} \/ \E p \in patterns : name \in p

RequirementMatches(req, labels) ==
    LET has == req.key \in DOMAIN labels
    IN  CASE req.operator \in {"Equals", "In"} -> has /\ labels[req.key] \in req.values
          [] req.operator \in {"NotEquals", "NotIn"} -> ~(has /\ labels[req.key] \in req.values)
          [] req.operator = "Exists" -> has
          [] req.operator = "NotExists" -> ~has

SelectorMatch(reqs, labels) == \A r \in reqs : RequirementMatches(r, labels)

(* By its name or by its labels; a scope that says nothing is everywhere.  *)
MatchScope(scope, namespace) ==
    \/ scope.patterns = {} /\ scope.reqs = {}
    \/ scope.patterns # {} /\ PatternListMatch(scope.patterns, namespace.name)
    \/ scope.reqs # {} /\ SelectorMatch(scope.reqs, namespace.labels)

IsReflection(o) == o.props.reflects # {}
IsSource(o) == o.props.allowed.on /\ ~IsReflection(o)

(* What the pods and the accounts ask for; a debug container does not count. *)
Consumers(pods, accounts) ==
    (UNION {{<<ref.kind, p.ns, ref.name>> : ref \in {r \in p.refs : r.how # "ephemeral"}} : p \in pods})
    \cup UNION {{<<"Secret", a.ns, name>> : name \in a.secrets} : a \in accounts}

-----------------------------------------------------------------------------
(* One namespace for one source *)

(* What has the name of the source there: no more than one object. *)
Here(world, src, ns) == {o \in world.objects : o.kind = src.kind /\ o.ns = ns /\ o.name = src.name}

MirrorOf(src, o) == o.props.reflects = {<<src.ns, src.name>>}

MirrorStatus(src, o) ==
    CASE o.props.recorded \in {"absent", ""} -> "Pending"
      [] o.props.recorded \notin {"absent", "", src.version} -> "Stale"
      [] OTHER -> IF o.content = src.content THEN "Synced" ELSE "Drifted"

TargetStatus(world, src, ns, auto) ==
    LET here == Here(world, src, ns)
    IN  IF here = {} THEN IF auto THEN "Missing" ELSE "Manual"
        ELSE LET o == CHOOSE x \in here : TRUE
             IN  IF MirrorOf(src, o) THEN MirrorStatus(src, o) ELSE "Blocked"

(* A copy that is right but has no version is only untidy. *)
PendingLevel(src, mirrors) ==
    IF \A o \in mirrors : o.props.passed /\ o.content = src.content THEN Info ELSE Warn

TargetHints(world, src, ns, status, mirrors) ==
    Hint(status = "Blocked", Danger, "blocked") \cup Hint(status = "Drifted", Danger, "drifted")
    \cup Hint(status = "Stale", Warn, "stale")
    \cup Hint(status = "Pending", PendingLevel(src, mirrors), "pending")
    \cup Hint(status = "Missing", Warn, "missing") \cup Hint(status = "Manual", Info, "manual")
    \cup Hint(/\ world.known /\ <<src.kind, ns, src.name>> \in world.consumers
              /\ status \in {"Missing", "Blocked", "Manual"}, Danger, "waiting")

BuildTarget(world, src, ns, auto) ==
    LET status  == TargetStatus(world, src, ns, auto)
        mirrors == {o \in Here(world, src, ns) : MirrorOf(src, o)}
    IN  [ns |-> ns, auto |-> auto, status |-> status, mirrors |-> mirrors,
         hints |-> TargetHints(world, src, ns, status, mirrors)]

(* A copy of the source can be made to move: it is there. *)
Forceable(t) == t.status \in {"Synced", "Stale", "Drifted", "Pending"}

Explicit(scope) == scope.patterns # {} \/ scope.reqs # {} \/ ~scope.ok

(* The namespaces the source reaches, or could by its own words: none       *)
(* where a selector cannot be read.                                        *)
Targets(world, src) ==
    LET allowed == src.props.allowed
        auto    == src.props.auto
        open    == {n \in world.namespaces : n.name # src.ns /\ MatchScope(allowed, n)}
        made    == {BuildTarget(world, src, n.name, auto.on /\ MatchScope(auto, n)) : n \in open}
    IN  IF ~allowed.ok \/ ~auto.ok THEN {}
        ELSE {t \in made : t.auto \/ t.mirrors # {} \/ Explicit(allowed)}

(* What is said of the source itself. *)
SourceHints(world, src, targets) ==
    LET allowed == src.props.allowed
        auto    == src.props.auto
        known   == allowed.ok /\ auto.ok
        everywhere(scope) == scope.on /\ ~Explicit(scope)
        idle(p) == \A n \in world.namespaces : n.name \notin p
    IN  Hint(~known, Danger, "bad-selector")
        \cup Hint(known /\ auto.on /\ \E p \in auto.patterns : idle(p), Info, "unmatched")
        \cup Hint(everywhere(allowed), Info, "allowed-everywhere")
        \cup Hint(everywhere(auto), Danger, "auto-everywhere")
        \cup Hint(auto.patterns # {} /\ ~auto.on, Warn, "auto-decorative")
        \cup Hint(auto.on /\ \E t \in targets : ~t.auto /\ t.mirrors # {}, Danger, "doomed")

DiagnoseSource(world, src) ==
    LET targets == Targets(world, src)
    IN  [object |-> src, targets |-> targets, hints |-> SourceHints(world, src, targets)]

-----------------------------------------------------------------------------
(* The whole cluster *)

Id(o) == <<o.kind, o.ns, o.name>>

(* Why a mirror hangs under no source. *)
OrphanReason(world, o) ==
    LET named == {s \in world.objects : s.kind = o.kind /\ <<s.ns, s.name>> \in o.props.reflects}
    IN  IF named = {} THEN "source-gone"
        ELSE IF \A s \in named : ~IsSource(s) THEN "not-a-source" ELSE "out-of-scope"

DiagnoseOrphan(world, o) ==
    [object |-> o,
     hints  |-> {<<Danger, OrphanReason(world, o)>>} \cup Hint(o.props.allowed.on, Warn, "both")]

(* Those that ask, out of the reach of a source, for an object that has its *)
(* name and is not there.                                                  *)
Stranded(world, s) ==
    {c \in world.consumers :
        /\ c[1] = s.object.kind /\ c[3] = s.object.name /\ c[2] # s.object.ns
        /\ \A t \in s.targets : t.ns # c[2]
        /\ c \notin {Id(o) : o \in world.objects}}

(* The mirrors that a source accounts for. *)
Claimed(sources) ==
    UNION {{<<s.object.kind, t.ns, s.object.name>> : t \in {u \in s.targets : u.mirrors # {}}} : s \in sources}

Diagnose(world) ==
    LET sources == {DiagnoseSource(world, o) : o \in {x \in world.objects : IsSource(x)}}
        lost    == {o \in world.objects : IsReflection(o) /\ Id(o) \notin Claimed(sources)}
    IN  [sources  |-> sources,
         orphans  |-> {DiagnoseOrphan(world, o) : o \in lost},
         stranded |-> IF world.known THEN UNION {Stranded(world, s) : s \in sources} ELSE {}]

Flagged(hints) == \E h \in hints : h[1] >= Warn
SourceFlagged(s) == Flagged(s.hints \cup UNION {t.hints : t \in s.targets})

(* The key a source is folded by, and found by.                            *)
SourceKey(s) == <<s.object.ns, s.object.name>>

(* The rows of one of the three worlds, with what is unfolded as the keys   *)
(* `expanded`.  Their order is left out.                                   *)
BuildReflView(diagnosed, which, problems, expanded) ==
    LET sources == {s \in diagnosed.sources : problems => SourceFlagged(s)}
        orphans == {o \in diagnosed.orphans : problems => Flagged(o.hints)}
        shown(s) == CASE which = "Sources" ->
                            {t \in s.targets : SourceKey(s) \in expanded /\ (problems => Flagged(t.hints))}
                      [] which = "Mirrors" -> {t \in s.targets : t.mirrors # {}}
                      [] which = "Orphans" -> {}
    IN  (IF which = "Sources" THEN {<<"source", s>> : s \in sources} ELSE {})
        \cup (UNION {{<<"target", s, t>> : t \in shown(s)} : s \in sources})
        \cup (IF which = "Sources" THEN {} ELSE {<<"orphan", o>> : o \in orphans})

-----------------------------------------------------------------------------
(* Mirroring again: a write is <<what, namespace>>, and the order matters.  *)

(* Take the version off the mirror, or give it an empty one where it has    *)
(* none: a write that changes nothing is no event.                         *)
Unrecord(t) ==
    <<IF \E o \in t.mirrors : o.props.recorded # "absent" THEN "clear" ELSE "empty", t.ns>>

(* Mutant of Stamp: the mirrors alone are written. *)
NoStamp(src) == << >>

(* A mirror the reflector keeps by itself moves only with its source, which *)
(* is stamped for a moment.                                                *)
Stamp(src) == <<<<"touch", src.ns>>, <<"unstamp", src.ns>>>>

OnSource(write) == write[1] \in {"touch", "unstamp"}

(* From the row of a target, or of the source ({}): all that can move, and  *)
(* the source, where one of them needs it, stamped once and last.          *)
ForceWrites(s, target) ==
    LET moving == {t \in (IF target = {} THEN s.targets ELSE target) : Forceable(t)}
        order  == SetToSeq(moving)
    IN  [i \in DOMAIN order |-> Unrecord(order[i])]
          \o IF \E t \in moving : t.auto THEN Stamp(s.object) ELSE << >>

-----------------------------------------------------------------------------
(* What the writes do: `state` is [todo, source, mirrors, news, failed,     *)
(* stamped], the version of the source, [right, recorded] for each mirror,  *)
(* and what the reflector has not heard of yet.                            *)

Changes(state, w) ==
    \/ OnSource(w)
    \/ w[1] = "clear" /\ state.mirrors[w[2]].recorded # "absent"
    \/ w[1] = "empty" /\ state.mirrors[w[2]].recorded # ""

(* The next write of the plan goes through; a merge patch that changes      *)
(* nothing tells no one.                                                   *)
ApplyForce(state) ==
    LET w == Head(state.todo)
        next == [state EXCEPT !.todo = Tail(@),
                              !.news = IF Changes(state, w) THEN @ \cup {w[2]} ELSE @]
    IN  IF OnSource(w) THEN [next EXCEPT !.source = @ + 1, !.stamped = w[1] = "touch"]
        ELSE [next EXCEPT !.mirrors[w[2]].recorded = IF w[1] = "clear" THEN "absent" ELSE ""]

(* Or it fails, and the others are tried all the same. *)
FailForce(state) == [state EXCEPT !.todo = Tail(@), !.failed = @ \cup {Head(state.todo)}]
=============================================================================
