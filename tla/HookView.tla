------------------------------ MODULE HookView ------------------------------
(***************************************************************************)
(* The hooks view (src/hooks.rs, `enter_hooks_mode` and what follows it in *)
(* src/ui.rs): the webhooks of every admission configuration, what is      *)
(* behind them, the verdict on each, and the menu that flips the           *)
(* `failurePolicy` of one.                                                 *)
(*                                                                         *)
(* An inventory lists the configurations, then asks once for each service  *)
(* what it is able to do, in two calls.  Readings overlap, and the last to *)
(* end is what the table shows.  A row is known by its configuration, a    *)
(* kind and a name, and its index there; the table is drawn again at each  *)
(* turn of the loop, under an open menu too, so `board` is as drawn.       *)
(*                                                                         *)
(* The table is the flat one of admission: the two other worlds are read   *)
(* in the same way, after it, and offer nothing to do.                     *)
(***************************************************************************)
EXTENDS Integers, FiniteSets, Sequences, SequencesExt

CONSTANTS
    Configurations,  \* a sequence of [kind, name], mutating before validating
    Webhooks,        \* of each of them, at first: a sequence of [name, closed, service]
    Services,        \* what a webhook may be behind
    OffCluster,       \* the service of a webhook that calls a URL
    MaxReadings,     \* bound: inventories read
    MaxFlips,        \* bound: policies flipped
    MaxUpsets        \* bound: what others do

HookNames == UNION {{h.name : h \in Range(Webhooks[c])} : c \in DOMAIN Webhooks}
HookType == [name : HookNames, closed : BOOLEAN, service : Services \cup {OffCluster}]

ASSUME HookAssumption ==
    /\ OffCluster \notin Services
    /\ Configurations \in Seq(Range(Configurations))
    /\ Webhooks \in [Range(Configurations) -> Seq(HookType)]
    /\ MaxReadings \in Nat /\ MaxFlips \in Nat /\ MaxUpsets \in Nat

VARIABLES
    server,    \* [hooks, services]: the configurations there are, what each service can do
    upsets,    \* how much of it others did
    fetches,  \* the tasks of `fetch_hooks`
    board,     \* hooks_state and the rows made of it
    cursor,    \* selected_uid: a configuration and an index
    menu,      \* action_menu
    flips,     \* the tasks of `set_hook_failure_policy`
    flipped    \* history: of each flip sent, the webhook meant and those that changed

hookVars == <<server, upsets, fetches, board, cursor, menu, flips, flipped>>

NoMenu == [to |-> FALSE, open |-> FALSE, confirming |-> FALSE]
NoRow == << >>
Faults == {"NoEndpoints", "ServiceGone", "NamespaceGone"}
ServiceStates == Faults \cup {"Ready"}

-----------------------------------------------------------------------------
(* Verdicts.  A finding is its level, 1 info, 2 warning, 3 danger, and what *)
(* it says.                                                                *)

Verdict(level, what) == [level |-> level, what |-> what]
When(condition, level, what) == IF condition THEN <<Verdict(level, what)>> ELSE << >>

CatchAll(r) == "*" \in r.groups /\ "*" \in r.versions /\ "*" \in r.resources
CoversWrites(r) == "*" \in r.operations \/ {"CREATE", "UPDATE", "DELETE"} \subseteq r.operations

SystemNamespaces == {"kube-system", "kube-public", "kube-node-lease"}
WorkloadResources ==
    {"*", "pods", "deployments", "replicasets", "statefulsets", "daemonsets"}

(* `read_selector`: an absent selector is an empty one.                    *)
MatchesEverything(s) == s.labels = {} /\ s.exprs = {}
ExcludesSystem(s) ==
    \/ s.labels # {}
    \/ \E e \in s.exprs : \/ e.operator = "DoesNotExist"
                          \/ e.operator = "NotIn" /\ e.values \cap SystemNamespaces # {}

(* `ca_hints`: a bundle is absent, with somebody to inject it or not, opaque, *)
(* or the days left of each of its certificates.                           *)
ExpiryWarnDays == 30
Soonest(days) == CHOOSE d \in days : \A e \in days : d <= e

CaHints(ca) ==
    CASE ca.state = "absent" -> <<Verdict(IF ca.injected THEN 1 ELSE 2, "ca")>>
      [] ca.state = "opaque" -> <<Verdict(2, "ca")>>
      [] ca.state = "parsed" -> When(Soonest(ca.days) <= 0, 3, "ca expired")
                                  \o When(Soonest(ca.days) \in 1..ExpiryWarnDays, 2, "ca expiring")

ReachHints(h) ==
    When((h.reach = "NotOurs" /\ h.url) \/ h.reach = "Unchecked", 1, "not judged")

SelfLocking(h) ==
    /\ h.closed /\ MatchesEverything(h.selector) /\ h.service # OffCluster
    /\ \E r \in h.rules : CoversWrites(r) /\ (CatchAll(r) \/ r.resources \cap WorkloadResources # {})

ScopeHints(h) ==
    LET all == \E r \in h.rules : CatchAll(r)
        system == ~ExcludesSystem(h.selector)
    IN  IF all THEN <<Verdict(IF h.closed /\ system THEN 3 ELSE 2, "catch-all")>>
        ELSE When(system /\ \E r \in h.rules : CoversWrites(r), 2, "no exclusion")

SlowTimeout == 20

AdmissionHints(h) ==
    When(h.reach \in Faults, IF h.closed THEN 3 ELSE 2, "dead")
      \o When(SelfLocking(h), 3, "self-locking")
      \o ScopeHints(h)
      \o When(h.closed /\ h.timeout >= SlowTimeout, 2, "slow")
      \o When(h.sideEffects \in {"Some", "Unknown"}, 2, "side effects")
      \o CaHints(h.ca) \o ReachHints(h)

ConversionHints(c) ==
    When(c.reach \in Faults, 3, "dead")
      \o When(~c.storageServed, 2, "storage not served")
      \o [i \in 1..c.deprecated |-> Verdict(1, "deprecated")]
      \o CaHints(c.ca) \o ReachHints(c)

ApiServiceHints(a) ==
    (IF a.available = "False" THEN <<Verdict(3, "unavailable")>>
     ELSE When(a.reach \in Faults, 3, "dead"))
      \o When(a.insecure, 2, "insecure")
      \o CaHints(a.ca) \o ReachHints(a)

(* `worst_hint`: the first among the worst.                                *)
WorstHint(hints) ==
    LET worst == SelectInSeq(hints, LAMBDA f : \A i \in DOMAIN hints : hints[i].level <= f.level)
    IN  IF hints = << >> THEN << >> ELSE <<hints[worst]>>

(* The row of a configuration, given those of its webhooks.                *)
ConfigHints(hooks) ==
    IF hooks = << >> THEN <<Verdict(1, "empty")>>
    ELSE WorstHint(FlattenSeq([i \in DOMAIN hooks |-> WorstHint(AdmissionHints(hooks[i]))]))

(* `check_admission_hooks` of the diagnostic: its word on a configuration,  *)
(* and on all those of a kind.                                             *)
DiagnosedHooks(hooks) ==
    LET closed == {i \in DOMAIN hooks : hooks[i].closed}
        down == {i \in DOMAIN hooks : hooks[i].reach \in Faults}
    IN  IF closed \cap down # {} THEN "blocking" ELSE IF down # {} THEN "down"
        ELSE IF closed # {} THEN "closed" ELSE "quiet"

DiagnosedKind(configs) ==
    LET words == {DiagnosedHooks(configs[i]) : i \in DOMAIN configs}
    IN  IF "blocking" \in words THEN "Err" ELSE IF words \subseteq {"quiet"} THEN "Ok" ELSE "Warn"

-----------------------------------------------------------------------------
(* Reading the inventory *)

(* `admission_rows`, in the order of the table (`sort_rows`): a row for     *)
(* each webhook of each configuration there is, not judged yet.            *)
RowOf(config, index, h) ==
    [config |-> config, index |-> index, name |-> h.name, closed |-> h.closed,
     service |-> h.service, reach |-> "Unchecked"]

RowsOf(hooks) ==
    FlattenSeq([c \in DOMAIN Configurations |->
        LET config == Configurations[c]
        IN  IF config \notin DOMAIN hooks THEN << >>
            ELSE [i \in DOMAIN hooks[config] |-> RowOf(config, i, hooks[config][i])]])

NoReading ==
    [stage |-> "none", rows |-> << >>, asking |-> "service",
     seen |-> [s \in Services |-> "NotAsked"], met |-> [s \in Services |-> {}]]
Unread == {r \in DOMAIN fetches : fetches[r].stage = "none"}

(* A task of `fetch_hooks` is spawned: by F5, by the loop, after a flip.   *)
Spawned == [fetches EXCEPT ![Min(Unread)].stage = "due"]

(* `refresh_hooks`, and the tick of the loop of the view.                  *)
RefreshHooks ==
    /\ Unread # {}
    /\ fetches' = Spawned
    /\ board' = [board EXCEPT !.loading = TRUE]
    /\ UNCHANGED <<server, upsets, cursor, menu, flips, flipped>>

(* The lists of a reading, or the error of one of them; that a service is  *)
(* unable to serve at this moment counts for the reading from here on.     *)
ListHooks(r, fails) ==
    /\ fetches[r].stage = "due"
    /\ fetches' = [fetches EXCEPT ![r] =
          [@ EXCEPT !.stage = IF fails THEN "refused" ELSE "probing",
                    !.rows = IF fails THEN << >> ELSE RowsOf(server.hooks),
                    !.met = [s \in Services |-> {server.services[s]}]]]
    /\ board' = [board EXCEPT !.loading = TRUE, !.error = FALSE]
    /\ UNCHANGED <<server, upsets, cursor, menu, flips, flipped>>

(* Rows whose service is yet to be asked about, validating webhooks first:  *)
(* each is asked about once, however many rows it is behind                *)
(* (`ServiceProbe`).                                                       *)
ToAsk(d) == {i \in DOMAIN d.rows : /\ d.rows[i].service \in Services
                                  /\ d.seen[d.rows[i].service] = "NotAsked"}

NextToAsk(d) ==
    LET validating == {i \in ToAsk(d) : d.rows[i].config.kind = "val"}
    IN  Min(IF validating # {} THEN validating ELSE ToAsk(d))

AskedFor(r) == fetches[r].rows[NextToAsk(fetches[r])].service

Probing(r, call) ==
    fetches[r].stage = "probing" /\ ToAsk(fetches[r]) # {} /\ fetches[r].asking = call

Reads(r, d) ==
    /\ fetches' = [fetches EXCEPT ![r] = d]
    /\ UNCHANGED <<server, upsets, board, cursor, menu, flips, flipped>>

Seen(r, reach) ==
    Reads(r, [fetches[r] EXCEPT !.asking = "service", !.seen[AskedFor(r)] = reach])

(* `probe_service`: the service first, ...                                 *)
GetService(r, fails) ==
    /\ Probing(r, "service")
    /\ IF fails THEN Seen(r, "Unchecked")
       ELSE Reads(r, [fetches[r] EXCEPT !.asking =
              IF server.services[AskedFor(r)] \in {"Ready", "NoEndpoints"} THEN "slices" ELSE "namespace"])

(* ... then its endpoints, of which a service that went meanwhile has none, *)
ListSlices(r, fails) ==
    /\ Probing(r, "slices")
    /\ Seen(r, IF fails THEN "Unchecked"
               ELSE IF server.services[AskedFor(r)] = "Ready" THEN "Ready" ELSE "NoEndpoints")

(* ... or its namespace, to say why it is gone.                            *)
GetNamespace(r, fails) ==
    /\ Probing(r, "namespace")
    /\ Seen(r, IF ~fails /\ server.services[AskedFor(r)] = "NamespaceGone" THEN "NamespaceGone"
               ELSE "ServiceGone")

RowId(h) == <<h.config, h.index>>
Reached(d, h) ==
    [h EXCEPT !.reach = IF h.service = OffCluster THEN "NotOurs" ELSE d.seen[h.service]]

(* The inventory takes the place of the one before, and the table is drawn *)
(* again: the cursor stays on its row, or goes to the first one            *)
(* (`refresh_hooks_snapshot`).                                             *)
PublishHooks(r) ==
    LET d == fetches[r]
        rows == [i \in DOMAIN d.rows |-> Reached(d, d.rows[i])]
    IN  /\ d.stage = "refused" \/ (d.stage = "probing" /\ ToAsk(d) = {})
        /\ board' = [rows |-> rows, met |-> d.met, error |-> d.stage = "refused", loading |-> FALSE]
        /\ cursor' = IF rows = << >> \/ \E i \in DOMAIN rows : RowId(rows[i]) = cursor THEN cursor
                     ELSE RowId(rows[1])
        /\ fetches' = [fetches EXCEPT ![r] = [NoReading EXCEPT !.stage = "over"]]
        /\ UNCHANGED <<server, upsets, menu, flips, flipped>>

-----------------------------------------------------------------------------
(* The menu *)

UnderCursor == {h \in Range(board.rows) : RowId(h) = cursor}

MoveHookSelection(h) ==
    /\ ~menu.open /\ h \in Range(board.rows) \ UnderCursor
    /\ cursor' = RowId(h)
    /\ UNCHANGED <<server, upsets, fetches, board, menu, flips, flipped>>

Raises(m) ==
    /\ menu' = m
    /\ UNCHANGED <<server, upsets, fetches, board, cursor, flips, flipped>>

(* `P`: the value to flip to is fixed here.                                *)
OpenHooksMenu(h) ==
    ~menu.open /\ h \in UnderCursor /\ Raises([open |-> TRUE, confirming |-> FALSE, to |-> ~h.closed])

(* The first Enter, and Esc from either step of the question.              *)
ArmFlip == menu.open /\ ~menu.confirming /\ Raises([menu EXCEPT !.confirming = TRUE])
MenuBack == menu.open /\ Raises(IF menu.confirming THEN [menu EXCEPT !.confirming = FALSE] ELSE NoMenu)

(* The second Enter: the webhook is the one under the cursor now.          *)
SetHookFailurePolicy ==
    /\ menu.confirming
    /\ menu' = NoMenu
    /\ UnderCursor # {} => Cardinality(flips) + Len(flipped) < MaxFlips
    /\ flips' = flips \cup {[config |-> h.config, index |-> h.index, name |-> h.name, to |-> menu.to] :
                          h \in UnderCursor}
    /\ UNCHANGED <<server, upsets, fetches, board, cursor, flipped>>

(* Mutant of Patched: the patch does not test the name.                    *)
PatchedByIndex(hooks, f) ==
    IF f.config \in DOMAIN hooks /\ f.index \in DOMAIN hooks[f.config]
    THEN [hooks EXCEPT ![f.config][f.index].closed = f.to] ELSE hooks

(* `failure_policy_patch` as the server applies it: nothing at all unless  *)
(* the webhook at that index has that name.                                *)
Patched(hooks, f) ==
    IF /\ f.config \in DOMAIN hooks /\ f.index \in DOMAIN hooks[f.config]
       /\ hooks[f.config][f.index].name = f.name
    THEN [hooks EXCEPT ![f.config][f.index].closed = f.to] ELSE hooks

Touched(before, after) ==
    UNION {{<<c, before[c][i].name>> : i \in {j \in DOMAIN before[c] : before[c][j] # after[c][j]}} :
             c \in DOMAIN before}

(* The patch is sent, which may be refused for reasons of its own, and the *)
(* inventory is read again by the same task.                               *)
SendFlip(f, fails) ==
    LET hooks == IF fails THEN server.hooks ELSE Patched(server.hooks, f)
    IN  /\ f \in flips /\ Unread # {}
        /\ server' = [server EXCEPT !.hooks = hooks]
        /\ flips' = flips \ {f}
        /\ flipped' = Append(flipped, [meant |-> <<f.config, f.name>>,
                                       touched |-> Touched(server.hooks, hooks)])
        /\ fetches' = Spawned
        /\ UNCHANGED <<upsets, board, cursor, menu>>

-----------------------------------------------------------------------------
(* What others do: an operator writes its webhooks in another order, or    *)
(* takes its configuration away; a service comes and goes.                 *)

Upset(new) ==
    /\ upsets < MaxUpsets /\ upsets' = upsets + 1
    /\ server' = new
    /\ fetches' = [r \in DOMAIN fetches |->
          IF fetches[r].stage # "probing" THEN fetches[r]
          ELSE [fetches[r] EXCEPT !.met = [s \in Services |-> @[s] \cup {new.services[s]}]]]
    /\ UNCHANGED <<board, cursor, menu, flips, flipped>>

Reordered(c) == c \in DOMAIN server.hooks /\ Upset([server EXCEPT !.hooks[c] = Reverse(@)])
Removed(c) == c \in DOMAIN server.hooks
                 /\ Upset([server EXCEPT !.hooks = Restrict(@, DOMAIN @ \ {c})])
ServiceTurns(s, state) ==
    state # server.services[s] /\ Upset([server EXCEPT !.services[s] = state])

-----------------------------------------------------------------------------
HookInit ==
    /\ server = [hooks |-> Webhooks, services |-> [s \in Services |-> "Ready"]]
    /\ upsets = 0
    /\ fetches = [r \in 1..MaxReadings |-> NoReading]
    /\ board = [rows |-> << >>, met |-> NoReading.met, error |-> FALSE, loading |-> FALSE]
    /\ cursor = NoRow
    /\ menu = NoMenu
    /\ flips = {}
    /\ flipped = << >>

ReadingStep ==
    \E r \in DOMAIN fetches :
        \/ \E fails \in BOOLEAN : \/ ListHooks(r, fails)  \/ GetService(r, fails)
                                  \/ ListSlices(r, fails) \/ GetNamespace(r, fails)
        \/ PublishHooks(r)

UserStep ==
    \/ RefreshHooks
    \/ \E h \in Range(board.rows) : MoveHookSelection(h) \/ OpenHooksMenu(h)
    \/ ArmFlip \/ MenuBack \/ SetHookFailurePolicy

OthersStep ==
    \/ \E c \in DOMAIN Webhooks : Reordered(c) \/ Removed(c)
    \/ \E s \in Services, state \in ServiceStates : ServiceTurns(s, state)

HookNext ==
    \/ ReadingStep \/ UserStep \/ OthersStep
    \/ \E f \in flips, fails \in BOOLEAN : SendFlip(f, fails)

HookSpec == HookInit /\ [][HookNext]_hookVars

-----------------------------------------------------------------------------
(* A flip changes the webhook of the row it was given, or nothing: not the  *)
(* one that took its index, nor its neighbours (`failure_policy_patch`).   *)
FlipIsTheRow == \A i \in DOMAIN flipped : flipped[i].touched \subseteq {flipped[i].meant}

(* What the table says of a service was so at some moment of the reading:  *)
(* nobody is told that what always served is dead, nor why it is gone when *)
(* that never was, nor that what never served is ready; and what could not *)
(* be asked is said of nobody (`probe_service`).                           *)
ReachWasTrue ==
    \A h \in Range(board.rows) :
        /\ h.reach \in {"NotOurs"} <=> h.service = OffCluster
        /\ h.reach \in ServiceStates =>
              LET met == board.met[h.service]
              IN  CASE h.reach \in {"Ready", "NamespaceGone"} -> h.reach \in met
                    [] h.reach = "ServiceGone" -> met \cap {"ServiceGone", "NamespaceGone"} # {}
                    [] h.reach = "NoEndpoints" -> met # {"Ready"}

(* What is said of webhooks and their services is so, and a flip is of the  *)
(* webhook it was meant for.                                               *)
HooksAreHonest == FlipIsTheRow /\ ReachWasTrue
=============================================================================
