# A formal model of kdt

kdt is a terminal interface to Kubernetes clusters, with a web server
(`kdt-web`) and its front end beside it. This directory holds TLA+
specifications of the parts of it where several things happen at once and the
outcome matters (tasks that outlive the panel that started them, credentials
renewed by concurrent requests, a pool of sessions through a bastion, views
whose lists are refreshed behind overlays), and of the verdicts it computes
from what it reads (what a drain would meet, what the loss of a node would do,
which backups can be counted on, who may do what). TLC checks them on small
instances; TLAPS proves the invariants of fifteen components, and that two of them
implement their abstract specification, for every value of the constants.

Every definition is a translation of source code; `PROJECT.json` ("map") names
the lines. Paths below are relative to the repository; `web/src` is `src/crates/web/src`
there, and a bare file name is one of `src/`.

- [1. What the system is made of](#1-what-the-system-is-made-of)
- [2. Plan](#2-plan)
- [3. The models](#3-the-models)
- [4. The runs](#4-the-runs)
- [5. Fairness](#5-fairness)
- [6. The proofs](#6-the-proofs)
- [7. What the code does otherwise](#7-what-the-code-does-otherwise)
- [8. What is not modelled](#8-what-is-not-modelled)

## 1. What the system is made of

The code has one recurring pattern. A *panel* or a *view* of the terminal owns
fields of `App`, touched by key handlers and by a poll at each turn of the event
loop, and shares a state behind an `Arc<Mutex<..>>` with the tokio tasks it
spawns. A task is rarely cancelled: it carries the *key* it was spawned for, and
drops what it has to say if the shared state has another key by then. What is
shown is computed, at each turn, by pure functions from the last list read. The
web server runs the same library functions from HTTP handlers; a handler is
dropped at any await when its browser goes away.

| component | state | operations | talks to | what is hard | what makes it correct |
|---|---|---|---|---|---|
| **Node operations** `src/nodeops.rs` | `NodeOpState` (key, loading, running, findings, counts, done), the panel, the rows of the table | open, confirm, cancel, poll; `preflight`; `run_drain` (cordon, list, evict, retry passes, final read); cordon | API server, evictions, budgets, controllers | tasks outlive panels; 429s come round again; counts read after the panel moved on | every pod accounted for; success means emptied; nothing scheduled behind the cordon; the panel never stuck |
| **Object editing** `src/edit.rs` | `EditState`, the view's phase, the temp file | open, to the editor and back, confirm, close, poll; `preflight`, `apply` | API server (resourceVersion), the editor, the disk | answers of earlier openings, others writing, refused writes | writes what was reviewed; shows its own outcome; leaves no file |
| **Object deletion** `src/delete.rs`, `web/src/objects.rs` | `DeleteState`, what was armed or typed | open, type, confirm, close; preflight, deletion; the web's two requests | API server | a late preflight decides whether a name is asked for; the object changes | only what was agreed to is deleted; a danger is typed; every deletion answered |
| **GitOps repair** `src/repair.rs`, `flux.rs`, `argocd.rs` | `RepairState`, a cursor on the moves, what was armed or typed | open, move, arm, type, play; probe, apply | API server | findings arrive under the cursor between two keys | the move played is the one agreed to |
| **Sessions of a jump** `src/jump.rs` | slots, reserve, counter of openings, first-hop mutex, remembered answers; bytes in transit | `prepare`, `refill`, `stream`, `open`, `relay`, `wait_ready`, `account`, `encode_into`, `escape_into` | terminals through a bastion, the window, the Kubernetes client | dead spares, windows closed half-way, byte streams cut anywhere | no slot lost; a connection answered; what is sent arrives |
| **Web sessions** `web/src/session.rs`, `auth.rs`, `portal.rs`, `api.rs` | flows, sessions, one right and credential each behind a mutex | login, return, client for a request (renew), logout | the portal, browsers, clock | simultaneous requests, dropped handlers, replays, restart | one renewal at a time, when needed; one session per flow; every request ends |
| **Port forwarding** `src/portfwd.rs` | registry of forwards, their counters | start, stop, toggle; resolve, listen, serve | API server, local ports | stop against each await of the task; failed rows found first | one forward per port; rows tell the truth; what is stopped ends |
| **Refresh loops, change of context** `ui.rs`, `clusterctx.rs` | one list per view, one loop per visible view, one-shot fetches | enter, leave, overlay, palette, scope, `:ctx` | API server | dozens of ways out of a view; answers out of order | exactly the loop of the view runs; the list ends up right |
| **Shell of the TUI** `ui.rs` | mode, slots to go back to, Status and Logs panels and their keys | keyboard dispatch, ticks, polls | everything above | 33,000 lines; one panel for every view | Esc leads home; the panel tells the row it is for |
| **Cluster events** `src/events.rs`, `nsscope.rs` | ring buffer, watches, cursor by uid | push, relist, restart, filter, freeze, query | API server watch | relists, reordering, bound, scope changed under a watch | nothing lost but by the bound, the cursor keeps its event |
| **Cassandra operations** `src/k8ssandra.rs`, `nodetool.rs` | inventory, table, cursor, menu, Jobs | restore, nodetool, focus | API server, Jobs | the row under the cursor changes between question and answer | Jobs and restores are those asked for, on whole captures |
| **Backups** `src/velero.rs` | none (pure) | crons, `analyse` | | calendar edges, late or missing runs | silence means protected |
| **Grants** `src/rbac.rs` | none (pure) | severity, aggregation, graph, rows | | wiring by index, missing ends | nothing dangerous out of sight |
| **Certificates** `src/certmanager.rs` | folds | readiness, parents, tree, retry | API server | owners that are not there, cycles | nothing lost; a retry is safe |
| **Mirrors** `src/reflector.rs` | none (pure) | status, orphans, force plan | the reflector | a merge patch that changes nothing tells nobody | every mirror accounted for; forced means sent again |
| **Capacity, spread** `src/capacity.rs`, `spread.rs` | none (pure) | `simulate_loss`, `judge` | | sums, limits, rules in four places | confirmed by an actual placement |
| **Admission webhooks** `src/hooks.rs`, `diagnostic.rs` | one inventory, replaced by each reading; a cursor, a menu | list, ask once per service, judge; flip a `failurePolicy` | API server, operators | two calls per service while it comes and goes; overlapping readings; a row is an index | what is told of a service was so; one flip, one webhook |
| **Other read-only views** (pods, storage, kyverno, rancher, identity, ...) | a list each | fetch, sort, filter | API server | | |
| **AI, diagnostics** `src/ai.rs`, `diagnostic.rs`, `extract.rs`, `events.rs` (usage of a node) | one state each, known by a key or a run number | ask again, stop looking, extract, report | external model, API server | asking again stops nobody: several tasks write one state | what is shown is what was asked last, of one run |
| **Web handlers, front end, config, wording, packaging** | the page's | one handler per view | | | |

`PROJECT.json` lists all of them under "components" with their status, and under
"hazards" the places of this code that a test would hardly reach, each at its
line, with the properties that watch it or the reason there is none.

## 2. Plan

| | modules | of | composes | state |
|---|---|---|---|---|
| 1 | `NodeRules`, `NodeDrain` | drain: rules, panel, tasks, cluster | `NodeDrain` EXTENDS `NodeRules` | checked; all four invariants proved |
| 2 | `WebSession` | flows, sessions, credentials | | checked; its invariants and its action property proved |
| 3 | `JumpPool`, `JumpRules` | slots and connections; bytes and answers | | checked; the pool's invariant proved, and what crosses a jump |
| 4 | `EditPanel` | editing, temp file, other writers | | checked; invariant and action property proved |
| 5 | `Consent`, `DeletePanel`, `RepairPanel` | what a guarded panel promises, and the two that implement it | panels EXTEND `DeleteRules`, `RepairRules` and INSTANCE `Consent` | checked; invariants and both refinements proved |
| 6 | `PortForward` | registry, tasks, connections | | checked; invariant proved |
| 7 | `AppShell`, `DetailPanel` | views, loops, overlays, sessions; the detail panels | | checked; invariants proved |
| 8 | `CassandraView`, `MedusaRules` | menu, Jobs, restores; verdicts on captures | | checked; invariants of the view proved, and what is said of captures |
| 9 | `LossRules`, `SpreadRules`, `FluxTree`, `VeleroRules`, `RbacRules`, `CertChains`, `MirrorRules` | verdicts computed from lists | `SpreadRules` EXTENDS `LossRules` EXTENDS `NodeRules`; `CertChains` EXTENDS `FluxTree` | checked against references; what is said of room, budgets, replicas, grants, mirrors and backups, and of trees, proved for every list |
| 10 | `EventFeed`, `Analysis`, `HookView` | events view; assistant, diagnostic, usage, extraction; webhooks and what is behind them | | checked; their invariants proved |
| 11 | Kyverno, storage, Rancher, identity | verdicts of the remaining views | | planned |

Every safety property of a component with actions is a theorem (section 6), and so is
what is said of drains, losses, webhooks, replicas, grants, mirrors, jumps, copies and
trees. What is left to TLC alone is liveness.

The modules are written to be proved about: parameters are CONSTANTS under named,
weak assumptions, no module declares a RECURSIVE operator (what the code does by
recursion is a recursive function on a number of steps: the calls to come of
`push_subtree` are on a stack), one action per step of the code between two awaits. Types of records that a proof keeps closed have
names (`RowType`, `TaskType`, `Menus`, ...).

## 3. The models

**Granularity.** An action is what one task does between two awaits at which
another can run and be seen: an API call is its effect on the server and, when
the task publishes the answer under a lock, a second step. Key handlers are
atomic (the event loop is one task). A task is a slot in a function
`[Slots -> record]` with a program counter `pc`, "idle" when the slot has no
task, or a member of a set or a count where tasks are alike; the number of slots
bounds how many are in flight at once. *History* variables and fields (named so
in each module) record what was seen, agreed to or started: the code does not
have them, no guard reads them, the properties do.

### Panels and their tasks

**`NodeRules`** (pure): `plan` and its skip reasons (`SkipReason`, `Evictable`),
the requests of a pod (`PodRequests`), the room on the other nodes (`RoomLeft`),
label selectors (`SelectorMatches`), budgets (`Matched`, `Blocked`, `Tight`), and
the set of findings (`Assess`). Findings are names; their texts, and the figures
in them, are left out.

**`NodeDrain`**: `op` is `NodeOpState`, with sets of pods where the code has
counters or lists of names; `view` is the panel; `pre[t]` and `wk[w]` are tasks of
`preflight` and `run_drain`. The key is `drain|` and the node's name, so here it is
the node; `Publish` drops an update when the key moved on. `EndPass` is the end of
a pass with `EVICT_RETRIES`, `FinalRead` reads the panel's own counts as the code
does, without looking at the key. The cluster is external: pods terminate,
complete, and are recreated under the same name on a schedulable node
(`Recreated`), one budget guards `Budgeted`. The panel may be opened again while a drain
runs, on the same node too, which empties the counts, and a second drain of the node be
started. `listed`, `settled`, `kept` and `counted` are history: the pods a drain listed,
those it is done with, whether its cordon has held since, and whether the panel's counts
have been its own since it was spawned (`Uncounted`: they no longer are once the panel is
opened again; `SpawnDrain`: they are not while another drain of the node is under way).

**`EditPanel`**: `view.phase` is `EditPhase`, `st` is `EditState`, `file` the temp
file, `object` the API server with a `resourceVersion` per object. A document is
the version it was fetched at and what the user made of it. The panel may be opened
again on an object while its tasks are in flight. `opening`, the number of the opening,
carried by the writes, and `alone`, whether nothing was in flight about the object at
this opening, are history: the code has the object as its only key. What needs `alone`
is said in each property, and broken without it (section 7).

**`Consent`** is the abstract specification of a panel that asks before it writes:
`opening`, the act agreed to, the act started. An act starts when the user has
agreed to that very act since the panel was opened, once per opening.
`DeletePanel` and `RepairPanel` implement it (`C == INSTANCE Consent WITH opening <-
view.opening, agreed <- view.agreed, started <- view.begun`,
`StartsWhatWasAgreed == C!Spec`). The act (`Act`) is all that the panel promises: where an
opening was `alone`, the object and what the screen showed of it; where an earlier task
of the object was in flight, and may change the screen, the object only.

**`DeleteRules`** is `assess` and what it calls on a manifest reduced to what they
read; **`DeletePanel`** the panel (`view`, `st`), its tasks (`check`, `del`), the
handlers of the web server (`web`, which check again before they delete), and the
object others relabel, remove and create again. An act is the object with the
findings shown (with none, in an opening that was not `alone`): to agree is to press the confirming key, or to finish typing the
name, on those findings. The handlers of the web server are not part of the panel and
have no act: their steps leave `Consent` where it is, and what is asked of them is in
`DangerIsTyped`.

**`RepairRules`**: `classify`, what a probe confirms, the moves against it
(`Remedy`). **`RepairPanel`**: a list of moves, a cursor that is an index, a move
armed or typed through. What the cursor points at is read again by every key,
and twice by the last one (`LastKey`, then `SpawnRepair`). In an opening that was
`alone` the findings come once and nothing can be armed before; in another, those of an earlier probe may
arrive under an armed move or between the two readings. `pressed` (history) is the
move the last key was for.

**`CassandraView`**: `inv` is the inventory last read (as old as may be), `uid` the
row under the cursor, `menu` the question being asked, `ntTarget` and `runs` the
`nodetool` prompt and its tasks. `Place` and `Refreshed` put the cursor back on its
row, on what took its place, or on the Job just created. A capture goes from
partial to whole to gone; those of `Failed` never become whole.

**`PortForward`**: `entries` is the registry, `task[i]` the task of forward `i`
(resolve the service, bind, announce, serve), `conn` its connections. Stopping
takes the row and marks the task aborted; the task ends at its next await and
holds its port until then. `wasReady` is history.

### The shell

**`AppShell`**: `mode` says who has the keyboard, `ret`, `cmdRet` and `searchRet` are
the slots of the overlays, `loops` the handles of the session, `shots` the
one-shot fetches under way by scope, `shown` the scope each list was read under,
`orphans` the loops a session left behind. Lists are reduced to the scope they
belong to. Every way into, over and out of a view is a disjunct of `Key`.

**`DetailPanel`**: the Status and Logs states (`status`, `logs`: the key they are
for, the key whose text is on screen, whether they say "loading"), the keys the
views remember having asked (`lastStatus`, `lastNode`, `lastSel`, `lastPod`), and the
tasks by key. Four views stand for all: events, nodes, pods and one that leaves
the panels alone.

**`EventFeed`**: `watches[w]` is what a watch has yet to hand over (or down),
`buffer` the ring, `view` the table as drawn. An event is its uid and the time it
last happened. Every key is followed by the next turn of the loop, so `view` is
always as drawn; a watch of the old scope with an event in hand may push it after
the buffer was emptied (`strays`). Bounds: a filter or a query, not both; `:events`
with namespaces takes all of them; an event does not expire.

**`Analysis`**: `answer`, `usage`, `diag`, `extract` are the states of the assistant,
of a node's usage, of the diagnostic and of the extraction, each beside its tasks
(`queries`, `readings`, `probes`, `jobs`); `page` is the view and the one to go back
to. A run number is taken when a task starts, a key of the assistant when it is
asked for. A check shows one step or several at once and then tells of them one by
one; a superseded task is dropped where it learns of it, as it writes nothing after.
`questions` and `report` are history. Chunks of an answer are counted, not read.

**`HookView`**: `server` is what the API server has (the webhooks of each
configuration, what each service can do), `fetches[r]` a reading under way: the rows
it listed, the service it asks about and in which of the two calls, what it `seen`
(`ServiceProbe`). `board` is the inventory last published with the rows drawn from it
(`PublishHooks` does both: the table is drawn again at the next turn of the loop, under an
open menu too), `cursor` the row's configuration and index, `flips` the tasks of
`set_hook_failure_policy`. Others reorder the webhooks of a configuration, delete it,
and let services come and go (`Upset`). `met` (what a service could do at each moment
of a reading) and `flipped` are history. The three lists of a reading are one step;
the table is the flat one of admission. The verdicts on the rows of the three
worlds, and what the diagnostic makes of the same rows, are operators of the same
module.

### Sessions

**`WebSession`**: `Login` and `Return` are `begin` and `take_pending`, `Exchanged` is
`insert` after the exchange. A request goes `Arrive`, `Lock` (the credential's
mutex: `queue[s]`, whose head holds it), then `Reuse`, `RightOver` or
`StartRenewal`, `Refreshed`, `Minted`, `Store`, `Serve`. A request's `clock`
is the `now` of session.rs:77, read before the mutex is awaited. `Abandon` drops a handler
anywhere; `Restart` forgets what is in memory. Cookies, PKCE and certificates are
left out: a token is a name nobody guesses.

**`JumpPool`**: a session owns its slot from `acquire_owned` to its drop, so it is
named by it. `atSlots` is the queue of the semaphore, `atHop` that of the first
hop's mutex. Tasks are the window (`prepare`), the connections (`stream`, then
`relay`) and the openings `refill` spawned. `Count`, `Spawn`, `Uncount` and `Push`
are the four points of `refill` at which others may run. What a terminal shows is
external: a step succeeds (`FirstHopReady`, `Opened`) or fails (`OpenFails`).

**`JumpRules`** (pure): the bytes of the relay (`EncodeInto`, `RelayRead`), ssh's
escape at the start of a line with the state carried from read to read
(`EscapeInto`), and the questions of the hops answered from memory or by the user
(`Open`), a terminal asking again what was answered wrong.

### Verdicts

Pure functions on a list of what was fetched, in modules named for the view, each
on a family of inputs in an `MC...` module, and compared with a *reference
definition* that says what the verdict means, not how it is computed.

| module | of | reference it is compared with |
|---|---|---|
| `NodeRules` | `assess` | an actual placement of the pods, and every order of actual evictions |
| `LossRules` | `simulate_loss` and its rules | every placement of the pods on the other nodes |
| `SpreadRules` | spread `build`, `judge` | every other layout of the replicas |
| `FluxTree` | `build_flux_tree` | the chains of parents |
| `JumpRules` | relay and answers | what was sent; a terminal that knows the right answers |
| `VeleroRules` | cron, `analyse` | the firings of the calendar day by day; gaps without a backup |
| `MedusaRules` | completeness, headline | the nodes that joined against those captured |
| `RbacRules` | severity, graph, rows | what a subject could do with the rules granted |
| `CertChains` | parents, tree, retry | owners and ancestors |
| `MirrorRules` | statuses, `force` plan | the reflector reacting to each write |
| `HookView` | findings on webhooks, configurations, CRDs, API services; the diagnostic's word | whether a write is refused while the service is down; the worst of the parts |

`MCClusterRules` holds the families of nodes, workloads and webhooks, `MCCertChains` those of the
two trees, and `MCRules` puts all of them, with the three machines
`EventFeed`, `Analysis` and `HookView` (one case each), in one run: `cluster`
is the case, `reasons` what is made of it (`Collect`, one step), and a property
reads `Judged("drain") => ...`. In `MCMirrorRules` the reflector is external and is
what the code's own comments say of it: it mirrors a source again when the
source's content or annotations change, and a mirror when it is told by its own
annotation; one write of the plan (`Unrecord` a mirror, `Stamp` the source) at most fails, news are coalesced and arrive in
any order.

## 4. The runs

All bounds are in the cfg files. A run that passes is exhaustive on its instance.
Every property has a *mutant* (`PROJECT.json`): a plausible bug of the code,
written as an operator before the definition it replaces, under which TLC finds
the property violated in the same instance. A property is often the conjunction of
named parts, each with a comment of its own where it is defined; the table gives
the parts.

| run | instance | properties and their parts |
|---|---|---|
| `Rules` | eleven families of cases; the events view with three events in two namespaces, a buffer of two, three happenings (237 thousand states); the analyses with two nodes, two checks of three steps, two tasks started (81 thousand); the hooks view with two configurations behind a service, two readings, a flip, an upset (76 thousand); 637 thousand states in all | below |
| `NodeDrain` | 2 nodes; two pods behind a budget that keeps one, of which one is recreated by its controller; a preflight and a drain at a time; calls fail; 1 retry; 847 thousand states | `DrainKeepsAccount` (type, `EveryPodAccounted`, `PanelShowsTheAccount`), `NothingComesBack`, `DrainsAreOver` (`DrainEnds`, `PanelSettles`) |
| `NodeDrainReopened` | 2 nodes, one managed pod its budget never lets go unless it is gone, two preflights and two drains at once, of one node too, calls fail; 4.0 million states (up to the names of the task slots) | `FlagsHaveTasks` (`RunningHasWorker`, `LoadingHasPreflight`), `SuccessMeansEmptied` |
| `EditPanel` | two objects, two openings, two requests of each kind in flight, two versions; 1.0 million states | `PanelTellsItsOwn` (type, `OwnOutcome`, `OneWriteAtATime`, `DiffIsTheChange`, `FileGoesWithThePanel`), `ReviewIsKept` (`WrittenAsReviewed`, `NoEditDuringWrite`), `EditIsAnswered` (`ChecksEnd`, `WritesAreAnswered`) |
| `DeletePanel` | two objects, two looks, two openings, two checks and deletions in flight, one web request about one of the objects; 430 thousand states | `DeletionIsOwned` (type, `DangerIsTyped`, `OwnFindings`, `OwnOutcome`, `OneDeletionAtATime`), `StartsWhatWasAgreed` (refinement), `DeletionIsAnswered` (`ChecksEnd`, `DeletionsAreAnswered`, `AcceptedIsRefreshed`) |
| `RepairPanel` | two objects and a webhook, two situations, two openings, two probes and moves in flight; 114 thousand states | `RepairIsOwned` (type, `DangerIsTyped`, `OwnFindings`, `OwnOutcome`, `OneMoveAtATime`), `StartsWhatWasAgreed` (refinement), `RepairSettles` (`PanelSettles`, `FieldFollowsMove`, `SuccessIsRefreshed`) |
| `CassandraView` | two nodes, two captures of which one failed, two commands; 977 thousand states | `JobsAreAsked` (type, `OneJobPerYes`), `OnlyWholeIsRestored` |
| `PortForward` | two service ports, two local ports, two pods, two forwards, two connections, two served; 531 thousand states | `RowsTellTheTruth` (type, `OneForwardPerPort`, `ListeningIsBound`, `OpenCounts`, `LedToReady`, `CursorOnARow`, `CarriedByATask`), `StoppedIsOver` |
| `AppShell` | a view of each sort, two scopes, two sessions, two fetches under way per scope; 330 thousand states | `LoopsFollowTheView` (type, `LoopsMatchView`, `LoopReadsScope`, `NothingOutlivesSession`), `EscGoesHome`, `ListCatchesUp` |
| `DetailPanel` | two pods, a deployment and a node, two tasks per panel; 184 thousand states | `PanelsTellTheRow` (type, `OwnText`, `LoadingIsAsked`, `StatusOfTheRow`, `LogsOfTheRow`), `TextsArrive` (`NodeStatusArrives`, `LogsArrive`) |
| `WebSession` | one flow, two session identifiers, two returns of the browser, two requests, time 1..5 with lifetimes 2 and 3 | `RenewedByOne` (type, `OneRenewal`), `OneSessionPerFlow`, `RenewalsInOrder` (`RenewalNeeded`, `CredentialNeverGoesBack`), `EveryRequestEnds` |
| `JumpPool` | two slots, reserve of one, a window, a connection, two openings at once | `PoolAccounted` (type, `SlotsAccounted`, `OpeningCounts`, `OneFirstHop`), `ConnectionsAnswered` |

The properties of `Rules`:

| property | says | parts |
|---|---|---|
| `CapacityIsTold` | of a drain: pods that can be placed one by one are never said to lack room, and a budget is reported exactly when evicting in turn would be refused; of the loss of a node: "it fits" is never said of pods that cannot all be placed, exactly so where the pods are alike, and what the operator is told to change is what would help | `NoFalseAlarm`, `BudgetForecast`, `FitsIsPossible`, `AlikeIsExact`, `StrandedForAReason` |
| `HintsAreTold` | a spread said to be bad could be better; a hard rule said to be broken is; an outage told by the hooks view is told by the repair panel and by the diagnostic, with the weight the policy gives it; a configuration never looks better than its worst webhook | `SpreadIsHonest`, `HardRuleIsBroken`, `OutagesAreTold`, `NeverHealthier` |
| `TreesAreWhole` | Flux: every resource once, or on a cycle and accounted; a fold hides its descendants and nothing else; problems unfolded. Certificates: every resource once; a challenge under its order; a filter keeps lineages; a retry restarts a request in flight of the row's own certificate, never under a rate limit | `TreeIsWhole` (`EveryResourceAccounted`, `FoldIsKept`, `ProblemsAreRevealed`), `ChainsAreKept` (`EveryLinkAccounted`, `ChallengesFollowTheirOrder`, `FilterKeepsLineage`, `RetryIsSafe`, `TroubleIsUnfolded`) |
| `JumpsAreFaithful` | bytes come out as they went in however reads cut them; one attended opening is enough for the reserve | `RelayIsFaithful`, `AnswersAreKept` |
| `CopiesAreJudged` | the next firing is the first; overdue means missed; silence means protected; what is offered for a restore covers every node | `BackupsAreJudged`, `CapturesAreJudged` |
| `GrantsAreTold` | what lets a subject take the cluster ranks highest; a row shows what is above the floor and in scope, and nothing else, in four orientations | `DangerIsRanked`, `RoleIsACeiling`, `GrantsAreInSight`, `AccountsAreTold`, `UseOfRolesIsTold` |
| `MirrorsAreTold` | every namespace in scope has its mirror or is said to lack it; orphans are outside; starved consumers are told; what is forced is sent again | `EveryMirrorAccounted`, `OrphansAreOutside`, `StarvedAreTold`, `WrongIsInSight`, `ForcedIsResent` |
| `AnswersAreOwn` | the assistant, the usage, the diagnostic and the extraction show what was asked last, of one run, and say they are working only while a task of theirs is; a report holds no answer to a question about something else | `AnswerIsTheLastAsked`, `UsageIsOfTheNode`, `OneDiagnostic`, `OneExtraction`, `ReportsMatch` |
| `HooksAreHonest` | a flip changes the webhook of the row it was given or nothing, however the list was reordered; what is told of a service was so at some moment of the reading | `FlipIsTheRow`, `ReachWasTrue` |
| `FeedIsKept` | an idle watch's events are all in the buffer, once and as they last happened, unless it is full | |
| `CursorKeepsItsEvent` | the cursor stays on the event it was put on while there is one to show | |

**Why these bounds are enough.** The hazards of this code need two of a kind, and
each instance has them: two pods behind a budget of one so that an eviction is
refused and comes round again; one retry, so that a pod may run out of them; two
objects, nodes or scopes so that a key can differ; two openings, so that a late
answer can land in another's panel; two requests so that one waits behind
another's renewal; two sessions so that one can leave a loop behind; two captures
so that another row can take the place of the one asked about; three events and a
buffer of two so that one is dropped; a clock that runs past a credential's life,
a right's and a flow's; two slots and a reserve of one so that the reserve can own
them all. A second connection in `JumpPool` was tried: with as few slots for refill
tasks as openings it only shows connections waiting for a task slot of the model,
which the code does not bound, and with three the liveness check is too large. The
families of `Rules` are products of the values at which a rule changes its mind
(equal, one more, one less, absent), not of figures.

`MaxTime`, `MaxOpens`, `MaxVersion`, `MaxAsks`, `MaxShots`, `MaxSessions`,
`MaxStarts`, `MaxServed`, `MaxTasks`, `MaxReadings`, `MaxFlips`, `MaxUpsets` and `Chunks` bound counters in the guards of the actions that raise
them. `EditPanel` stops when its openings are used up and `Rules`, but for its
three machines, evaluates one step: these two runs say `CHECK_DEADLOCK FALSE`, no other.

**Opened again at any time.** Nothing in the code keeps the user from opening a panel
on the very node or object a task of an earlier panel still works for (ui.rs:3122, 3232,
3489, 3706), and the key does not tell the two openings apart. Every run has those
behaviours. What fails there (section 7) is stated under a condition on the
history: `counted` for what the panel tells of a drain and what a success means,
`alone` for what a panel shows, reviews or plays. These conditions restrict what a property
says of an opening, never what the user or the tasks do, and a property
says the rest of every opening: that each pod of a drain is in one place, that a
flag has its task, that a write is of the object addressed over the version it was
made from, that an opening has one write under way at most, that a deletion or a move starts once and on the
object it was agreed to on, that a danger has its name typed, that tasks end and panels settle. A drain that is `counted` or an
opening that is `alone` still has late tasks beside it, those about other nodes and objects.

`Pages` bounds the objects a browser has a page of: the two sides meet on one object
only. `SYMMETRY` is used in `NodeDrainReopened` alone, for the task slots: nothing
compares two of them, and the run checks no liveness.

`ConnectionsAnswered` has an exception spelled out in it, a reserve that owns
every slot for ever: the property says that it is the only way for a connection to
wait for ever once the jump has been prepared.

## 5. Fairness

- A spawned task that can move does (`WF` of `DrainStep`, `LoadStep`, `WriteStep`,
  `CheckStep`, `DeletionStep`, `ProbeStep`, `ApplyStep`, `ForwardStep`, `LocalStep`,
  `RefillStep`, `StatusAnswered`, `LogsAnswered`, `ShotEnds`): tokio polls it, and its
  API calls come back with an answer or an error. The drain's preflight is left
  without: nothing a drain promises depends on one.
- Panels are polled and views ticked at every turn of the event loop (`WF` of
  `PollEdit`, `PollDelete`, `PollRepair`, `Going`, `NodesTick`); a refresh loop sleeps
  and fetches again (`WF` of `LoopTicks`).
- An API server asked again and again answers again and again (`SF` of
  `LoopAnswered`): a loop's fetch may fail any finite number of times in a row.
- The calls to the portal end (`WF` of `PortalAnswers`). This is an assumption on
  the portal and on the network, not on the code: the client of `portal.rs` sets no
  timeout, and the call is made with the session's mutex held.
- A terminal falls silent now and then. Waits of `wait_ready` have a deadline, but
  the inner loop that waits for silence (jump.rs:493-500) does not look at it.
- `SF` of `Spawn`: spawning never waits in the code, the model has finitely many
  slots; a slot that comes free again and again is used.
- Relays end in `ClosingSpec` only.
- The user, the browser, other writers, the scheduler and controllers owe nothing.
  Pods need not terminate for a drain to end: it does not wait for them.

## 6. The proofs

Each proof module EXTENDS the module of its component; `Views_proofs` extends five
(`AppShell`, `DetailPanel`, `CassandraView`, `Analysis`, `MCMedusaRules`), `Access_proofs` three
(`WebSession`, `MCRbacRules`, `MCMirrorRules`), `Buffers_proofs` three
(`JumpPool`, `MCJumpRules`, `EventFeed`), `Remedies_proofs` three (`RepairPanel`, `HookView`, `MCClusterRules`),
`Rows_proofs` two (`PortForward`, `MCCertChains`): components
whose names do not meet, and whose proofs share lemmas on sequences. A theorem holds
for any sets of nodes, pods, objects, task
slots, requests, ... and any bounds: the instance of section 4 is one of them.

| theorem | states | inductive invariant |
|---|---|---|
| `NodeDrain_proofs!TypeCorrect` | `Spec => [](TypeOK /\ LiveNodes)` | `TypeOK /\ LiveNodes`: a task that is not idle works for a node |
| `NodeDrain_proofs!NothingEverComesBack` | `Spec => []NothingComesBack` | `DrainInv == TypeOK /\ LiveNodes /\ KeptOK /\ NoReturn` |
| `NodeDrain_proofs!SayingHasTasks` | `Spec => []FlagsHaveTasks` | `FlagInv`: the panel is on the key of the state, each flag has its task |
| `NodeDrain_proofs!NoPodSlipsThrough` | `Spec => []DrainKeepsAccount` | `AccountInv == DrainInv /\ PanelOnKey /\ CountedAlone /\ \A w \in Workers : Sound(w)` |
| `NodeDrain_proofs!SuccessIsTrue` | `Spec => []SuccessMeansEmptied` | `AccountInv` |
| `Access_proofs!FlowsOpenOnce` | `Spec => []OneSessionPerFlow` | `FlowInv == Shape /\ OnePlace` |
| `Access_proofs!OneRenews` | `Spec => []RenewedByOne` | `SlotInv`: `Tables`, `LiveHandlers`, `Queues`, `RenewerHolds`, `Clocks` |
| `Access_proofs!RenewalsNeverGoBack` | `Spec => RenewalsInOrder` | `SlotInv` |
| `Access_proofs!GrantsToldOfAll` | `RbacSpec => []GrantsAreTold` | the case is a `GoodCase`, `reasons` is `GrantsOf` it |
| `Access_proofs!MirrorsToldOfAll` | `MirrorSpec => []MirrorsAreTold` | the case is a `GoodMirrors`, `reasons` is `MirrorsMade` of it; inside, `OnTheWay` of every plan |
| `Buffers_proofs!NoSlotIsLost` | `Spec => []PoolAccounted` | `PoolInv == Tables /\ Queues /\ Reserve /\ Owners /\ Counts` |
| `Buffers_proofs!JumpsToldOfAll` | `JumpSpec => []JumpsAreFaithful` | the case is a `GoodJump`, `reasons` is what is typed for it or opened; inside, inductions along the bytes, the hops, their questions and the times one is put |
| `Buffers_proofs!FeedKeepsAll` | `FeedSpec => []FeedIsKept` | `FeedInv == Times /\ Scopes /\ Ring /\ Told /\ Table` |
| `Buffers_proofs!CursorStays` | `FeedSpec => []CursorKeepsItsEvent` | `FeedInv` |
| `EditPanel_proofs!EditsAreOwned` | `Spec => []PanelTellsItsOwn` | `EditInv` |
| `EditPanel_proofs!EditsAreReviewed` | `Spec => ReviewIsKept` | `EditInv` |
| `DeletePanel_proofs!DeletionsAreOwned` | `Spec => []DeletionIsOwned` | `PanelInv` |
| `DeletePanel_proofs!DeletePanelAsks` | `Spec => StartsWhatWasAgreed`, a refinement of `Consent` | `PanelInv` |
| `Remedies_proofs!MovesAreOwned` | `Spec => []RepairIsOwned` | `PanelInv` |
| `Remedies_proofs!RepairPanelAsks` | `Spec => StartsWhatWasAgreed`, a refinement of `Consent` | `PanelInv` |
| `Remedies_proofs!FlipsAndTableAreTrue` | `HookSpec => []HooksAreHonest` | `HookInv == HookTypes /\ GoodReadings /\ GoodTable /\ FlipIsTheRow` |
| `Remedies_proofs!OutagesAreToldOfAll` | what `OutagesAreTold` says of a cluster, of every list of configurations | none: a fact about the verdicts |
| `Remedies_proofs!WorstIsShown` | what `NeverHealthier` says of a configuration, of every list of webhooks | none |
| `Remedies_proofs!HintsToldOfAll` | `ClusterSpec => []HintsAreTold` | the case is a `GoodCluster`, `reasons` is what is made of it |
| `Remedies_proofs!CapacityToldOfAll` | `ClusterSpec => []CapacityIsTold` | `CapacityInv`: the case is a `GoodCluster`, `reasons` is what is made of it; inside, `Laid` and `Left` at every turn of first fit |
| `Rows_proofs!RowsAreTrue` | `Spec => []RowsTellTheTruth` | `ForwardInv == Tables /\ Cluster /\ Panels /\ Registry /\ Tasks /\ Carried` |
| `Rows_proofs!TreesToldOfAll` | `TreeSpec => []TreesAreWhole` | `TreeDrawn`, `ChainsDrawn`: the case is a `GoodTree` or a `GoodChains`, `reasons` is what is drawn of it; inside, `Drawing` and `CallsOf` at every call |
| `Views_proofs!LoopsAreTheViews` | `Spec => []LoopsFollowTheView` | `ShellInv`: the slots to go back to, `On = Wanted(Shown)`, no orphan |
| `Views_proofs!EscLeadsHome` | `Spec => []EscGoesHome` | `ShellInv` |
| `Views_proofs!PanelsAreTheRows` | `DetailSpec => []PanelsTellTheRow` | `DetailInv == Keys /\ Asks /\ StatusKept /\ LogsKept /\ PodsKept` |
| `Views_proofs!JobsAreTheAsked` | `CassandraSpec => []JobsAreAsked` | `CassandraInv == Readable /\ Questions /\ Jobs /\ Commands /\ Wholes` |
| `Views_proofs!RestoresAreWhole` | `CassandraSpec => []OnlyWholeIsRestored` | `CassandraInv` |
| `Views_proofs!AnswersAreTheLast` | `AnalysisSpec => []AnswersAreOwn` | `AnalysisInv == Pages /\ Asked /\ UsageKept /\ Diagnosed /\ Extracted /\ Reported` |
| `Views_proofs!CopiesToldOfAll` | `CopySpec => []CopiesAreJudged` | the case is a `GoodCopies` or a `GoodMedusa`, `reasons` is what is made of it |

**Assumptions.** Each component has its named ASSUMEs (`ConstantsAssumption`,
`SessionAssumption`, `PoolAssumption`, ...). They say that bounds are naturals, that
sorts are what they are called (managed pods are pods, the windows, connections and
refills of a jump are different tasks), and that the value standing for "none" is none of
the values present: the `Option::None` of the code. The type of a record is part of
that when the value stands beside records (`NoneAssumption`). The specifications of the
verdicts (`RbacSpec`, `MirrorSpec`, `ClusterSpec`, `JumpSpec`, `CopySpec`, `TreeSpec`) start from any case that is a
`GoodCase`, a `GoodMirrors`, a `GoodCluster`, a `GoodJump`, a `GoodCopies`, a `GoodMedusa`, a `GoodTree` or a `GoodChains`: lists as the API server can give them, of any size (an object has
one kind, namespace and name; a name has one node; requests and capacities are whole and not negative;
a reference names one namespace at most; what a mirror was
copied at is no version still to come; the escape character of ssh ends no line; a terminal
lets one slip go, `TriesAssumption`; a delay between runs lasts, and a figure that may be absent is
one or none; datacenters and runs have names of their own, and a datacenter's nodes come and go in
order, so that the nodes that finished and those that had joined are one within the other: the
code compares their numbers, not the sets; a challenge belongs to one order, as cert-manager
makes them, whatever issuer owns it beside). TLC evaluates that every case of the families is
one (`CasesAreGood`, `WorldsAreGood`, `ClustersAreGood`, `JumpsAreGood`, `CopiesAreGood`, `CapturesAreGood`, `TreesAreGood`).

**The arguments.** Hardly any property of the table is inductive as it stands; what each
lacked is what is worth knowing of the code.

- *Nothing comes back.* The pods a node can lose are among those its drain listed as
  long as its cordon is kept: one must know that the cordon is there (`KeptOK`: the
  node of a drain that keeps is in `cordoned`). Then a pod can only appear through
  `Recreated`, which asks for a schedulable node; every other step shrinks
  `ToEvict(n)` (`EvictShrinks`, `ClusterShrinks`, `DrainShrinks`) or leaves it alone
  (`OperatorFrame`). `OwnersKind` and `ToEvictMovable` tie the rules to the set.
- *The account of a drain.* `Sound(w)` is the account of one drain at each point of
  its task. `Pass`, for every drain: what it listed is split among what it is done with,
  asks about, has yet to ask and holds for the next pass; the panel plays no part in it.
  `Book`, for one whose counts are its own: the panel is on its node, says that it runs,
  and its counts are that account. `Cleared`, while its cordon is kept: what was accepted
  or found gone is gone for good (`NoReturn`), so a success read off its own counts
  leaves nothing. A drain whose counts are its own has its node to itself
  (`CountedAlone`): `running` is set as long as it runs, a second drain is started
  only where it is not, and what unsets it otherwise, opening the panel, is what takes
  the counts away. A step of another task leaves a drain as it is, but for what its history loses
  (`Fades`), and what is told of a drain of its own counts as well (`LeftSound`).
- *Sessions.* A flow is in one place at most: pending, in the hands of one callback,
  or behind one session (`OnePlace`; `Shape` ties `begun` to the places). A credential
  is renewed by the head of its mutex's queue (`RenewerHolds`), queues hold waiting
  handlers once each (`Queues`), and what is being renewed was judged too old by a
  clock that is not ahead of `now` (`Clocks`); hence renewals in order.
- *The pool of a jump.* A slot is free, in the reserve, or owned by one task (`Owners`), and the counter of openings is the number of refills between their
  increment and their decrement (`Counts`). Lemmas on sequences (`RemoveOnce`,
  `AppendOnce`, `TailOnce`, `PopOnce`, `RetainOnce`) say that queues and reserve keep
  each element once.
- *Events.* An event is of one watch at most (`OneWatch`), and the last thing a watch
  has to tell of an event is how it last happened (`LastTold`). Hence `Settled`: an event
  nothing is left to be told of is in the ring as it last happened, or was pushed out
  of a full ring, only what a stopped watch had in hand excepted (`strays`). `WithoutIs`
  and `PushedIs` say what a removal and a push make of the ring. The table is sorted by rank:
  ranks are a bijection (`RanksAreOwn`, by `FS_Injection`), so the sorted table is a
  permutation of what matches (`ByTimeIs`); a table drawn again is `Fresh`, and the
  cursor is on what the table is anchored to (`Lasting`, `StillIsLasting`).
- *Webhooks.* The word of a reading on a service is backed by what the service was met as
  between the lists and the end of the reading (`Backed`): an answer takes two calls,
  so one must keep that whoever asks of a namespace met the service gone
  (`GoodReading`). The set of what was met only grows, under the writes of others
  included (`InvUpset`), so what is backed stays backed, and the table carries the set of its own
  reading (`GoodTable`) whatever other readings do. A patch tests the name at its
  index, hence touches that webhook alone (`PatchTouches`). The rows are a flattened
  list: `FlattenType` again.
- *Verdicts on webhooks.* The three places that judge a webhook go over a list, or a list
  of lists, each with a different summary: the worst finding of the worst findings, a
  word per configuration, one blocker per configuration. That a flattened list holds what
  its parts hold (`FlattenHolds`, from `FlattenSteps` and `ConcatHolds`) and that the worst of a list
  is in it and bounds it (`WorstIs`) carry a finding on one webhook (`HintsAre`) to the row
  (`ConfigWorst`); `FoundOnAll` says the repair panel's list exactly, configuration by
  configuration. These are facts about operators, so they hold for every input, with no invariant.
- *Room and budgets.* Requests are sums over finite sets. What a sum gains with one
  more element is itself an induction (`SumTakesOut`); every induction on sets runs on the
  cardinality of the counterexample, through `AllSubsets`. A placement summed node by node is
  the sum of what is placed (`SumByPlace`), so what fits one by one fits in total: a
  drain said to lack room does (`AlarmIsTrue`). A budget that covers more pods
  than it allows stops any order, at the last of them if not before (`SomethingInTheWay`); one that
  covers no more stops none (`NothingInTheWay`).
- *The loss of a node.* The pods are tried by decreasing request: ranks make the order a
  bijection (`MoversAre`). At each turn what is on paper is a placement of the pods tried and not
  stranded (`Laid`), and those stranded still have no room, because room only shrinks (`Left`,
  `LeftStays`, `LaidNext`). "It fits" is then the last turn (`FitIndeed`), and what keeps a
  stranded pod out, room where some node would accept it, else taints or its selector, is what it is
  said to be (`StrandedIndeed`). Where pods are alike, another layout placing all of them would have more
  pods than first fit on some node (`MoreSomewhere`), which therefore had room for one more
  (`NoneStranded`).
- *Replicas.* That a spread could be better claims that a layout exists: the replicas
  are numbered and dealt over the nodes that can take them (`Apart`, `Numbered`,
  `LaidOut`), so that none has more than the quotient rounded up, with which `judge`
  compares the fullest node (`OverIs`). Conversely a layout with fewer on the fullest node bounds the
  number of replicas (`FewPerPlace`), so the fullest has more than the quotient (`BetterMeansBad`).
  A hard rule is broken because, were every node within one of the fullest, there would
  be more replicas than there are (`ManyPerPlace`, `BrokenIndeed`).
- *What crosses a jump.* All of `JumpRules` goes along a sequence (`Along`, a recursive
  function). A walk exists for every sequence and is unique (`WalkExists`, `WalkIsOne`), and ends where
  its second half ends from the end of the first (`EndsBoth`): that is what makes a cut between two
  reads invisible, and what makes induction on the length (`EverySequence`) apply. The relay gives
  back what is sent because each byte's code leaves it idle (`EncodedAlone`). ssh and kdt
  must agree on where lines start, across reads: the state of one determines the
  other's (`ForwardedComesThrough`). A question somebody attends is settled at the second time it is put
  (`SettledByPerson`: the first may be spent on a stale answer or a slip), so what is remembered of
  its text is an answer some question takes (`Kept`); without anybody, only a right answer
  not given before in this step will do (`SettledByNobody`), so a hop opens when it is `Alone`.
- *Copies.* The search for the next run skips a day, an hour or a minute per turn (`FirstFrom`, a
  recursive function over the minutes). A turn skips only minutes at which nothing fires (`TurnIs`,
  `SkipsNothing`), so the least minute that fires satisfies the recursion; two solutions cannot
  differ, since past the calendar both are empty and there is no last place where they differ
  (`GreatestOf`), hence it is what the search gives (`SearchIs`). Instants are then minutes
  (`FiringIs`, `NextIs`); what is overdue is what fired since the last run or skip
  (`LateIs`), and the retention is compared with the gap after some run (`FollowedIs`, `ShortIs`).
  A capture is judged by two counts; it covers every node when they agree because one of
  the two sets holds the other (`CompleteIs`, from `NoSmaller`). The headline is that of the
  newest whole run, which exists because runs are finitely many (`GreatestOf`, `MaxOf`).
- *Trees.* A parent is one index at most, of references that may name nothing or go round. What is
  at or above an index, and at or below it, are closures (`Up`, `Under`): a closure is the least set
  nothing leads out of, because after as many steps as there are indices it has stopped growing
  (`ClosureIs`), and one is the other read backwards (`UpUnder`). Drawing is a machine whose
  stack holds the calls to come. It comes to an end within the turns it is given: a new index
  brings no more calls than there are indices, and uses itself up (`Budget`, `LessToCome`, `BudgetIs`;
  `Left`, `LeftIs` for the chains). At each call every index met is told of once, by its row or by the
  fold that hides it (`ToldOnce`), a fold hides what is under it and nothing reached before
  (`MarkedIs`), the children of what was met are met or still to come (`Drawing`), and whatever gets
  a row is a root or the child of a row that is open (`Open`).
  `Follows` carries what the first pass drew through the second, the one that rescues what
  goes round: it adds rows only for indices the roots do not reach, so no fold is undone.
  Walking up stops at an ancestor already recorded, which has brought its own (`WalkUpIs`). In the
  chains what no root reaches is exactly what comes back somewhere above
  (`UnreachedAre`, `NoRootIsRound`: the parents pass every index before long), so a row is there
  when nothing above it is folded or when it goes round (`LinksAccounted`). A list that is kept with
  every parent refers in itself to what it referred to (`KeptRefers`), so a filter
  moves nobody. The first certificate on the way up is one, and of a certificate itself
  (`OwningIs`); what is restarted is the first request under it with anything in flight, and
  there is one as soon as anything but a certificate is in flight under one of its requests
  (`RestartIs`, `RestartWhen`).
- *Grants.* The rules of an aggregated role are filled by a fold over all of them, each
  step writing one index, so a contributor's rules stay where they were put
  (`StepsExist`); what the union allows is then what some part allows, and the
  findings are monotone in the rules. A row is due when its binding is in scope and
  above the floor, and the four orientations are images of the same set of bindings.
  An account that is missing has a first binding that names it (`LeastNatural`): that
  is the one told of, which is why `AccountsAreTold` says "some binding" (section 7).
- *Mirrors.* An object names one source, so it is under one target or an orphan, never
  both (`EveryMirrorAccounted`). What is forced goes through a plan: the records of the
  mirrors are taken off, then the source is stamped, then the stamp taken off. `OnTheWay`
  is kept by each write, each failure and each piece of news: how far the plan is says
  what the source's version can be (`Staged`); once it has changed, an automatic mirror is
  right or the reflector has yet to hear of its source (`Fresh`); and a mirror made by hand
  is right, or about to be heard of without its record, or its write failed (`Cleared`).
- *Panels that ask.* An opening has one write at a time (a deletion or a move once), whatever else is in flight about its object
  (`OneDeletionPerOpening`, `OneMovePerOpening`, `OneWritePerOpening`): what it started is
  remembered in `begun` or under way, and a late answer to an earlier write puts an
  outcome on the screen that closes the panel to a further one (`OwnOutcome`,
  `TasksOfTheOpening`). Where nothing was in flight about the object at the opening, the tasks that
  pass the key test are its own (`OnlyItsOwn`), and only there is the gesture for what is on the
  screen: `GestureIsForTheScreen` is the heart of consent, what is armed or typed was so
  on the findings still shown. In `RepairPanel` the list of moves is rebuilt from the
  findings and the cursor is an index into it, so the gesture is tied to the move under
  the cursor (`NothingYet`, `GestureIsForTheMove`, `GoingIsAgreed`). The refinements map every step to
  a step of `Consent` or a stutter from the same invariant. That the moves of
  `RepairRules` form a list of moves at all (`FlattenType`) is an induction without the
  induction theorem: the least natural at which a fold's step fails (`LeastNatural`,
  `StepsExist`).
- *Editing.* A file exists with the panel of its object only, and a document in any hand is of the
  object it goes with (`LiveTasks`, `FileOfTheDocument`, `ReviewOfTheDocument`, `StateIsOwn`), however late the
  preflight it came from. In an opening that was alone, moreover, nothing is there before its
  preflight ends (`NothingYet`), so the file, the review and the document in hand are
  forms of one version, and the outcome is of a write of this opening.
- *Forwards.* The state of a row fixes where its task can be (`Registry`), no two tasks
  hold a port (`Tasks`, `BoundOnce`), and a connection is carried by a task that serves
  (`Carried`), whether it still has its row or was stopped. `RemovedRow`, `AppendedRow`
  and `UpdatedRow` say what the registry is after each of its three writes.
- *Loops and Esc.* The handles alive are those the view shown wants
  (`On = Wanted(Shown)`), overlays kept apart because `Shown` looks through them:
  `Slots` says what each of the three slots may hold under each mode, without which
  leaving an overlay could lead anywhere. `EscGoesHome` follows from `Slots` alone.
- *Detail panels.* A key remembered as asked for is the key of the panel wherever it will be
  compared with (`StatusKept`, `LogsKept`), and the pods view has asked for its row whenever
  the row has changed (`PodsKept`): hence a skipped request never leaves another row's
  text. `Asks` keeps each panel true to the tasks of its key, whichever ends first.
- *Analyses.* Several tasks write one state; what makes an answer the last is that a
  superseded task changes nothing (`Superseded`), and that the steps on screen are those
  of one task: `Follows` says that the steps it put there are the last ones, that
  those before them are complete, and that what is shown and what is left to tell make
  up its width. `Asked` ties the assistant's question to what it was opened
  over, so that a report goes with its own question.
- *Jobs and restores.* Every Job comes from an ask and no two from the same one (`Jobs`),
  hence there are no more Jobs than yeses (`JobsBounded`, by `FS_Injection`). A question
  names the node its command is for until it is answered (`Questions`). What an
  inventory says is whole was whole when it was read, however old the reading, and
  stays true of the past (`Wholes`).

**Model-checked only.** Liveness and ENABLED are out of the prover's reach:
`DrainsAreOver`, `EditIsAnswered`, `DeletionIsAnswered`, `RepairSettles`, `StoppedIsOver`,
`ListCatchesUp`, `TextsArrive`, `EveryRequestEnds`, `ConnectionsAnswered`. Every other
property of a run is a theorem of the table.

## 7. What the code does otherwise

Met while modelling: places where the code does something else than a comment, a
document, a test or its own wording say. The models do what the code does; where
the words are a formula of a module, its name is given (no run checks these: they
do not hold).

*Panels*

- **A refused edit cannot be corrected** (`CorrectedIsApplied`): after a refused
  write `done` stays `Some(Err)`; Enter on the corrected document goes back to the
  editor, and no key applies it (ui.rs:3842; comments 3759-3760, 3828).
- **Opening a panel again on the same object** leaves the tasks of the earlier opening
  their key, and they write the new one's state: a preflight replaces the document an
  edit is compared with, so the diff may be against another version than the one edited
  (edit.rs:351), or the findings that decide whether a name is asked for (delete.rs:226), under
  a deletion already armed. The answer to an earlier write is shown as this opening's
  (edit.rs:389): accepted, a panel whose checks find nothing to warn of stays on "loading"
  and can only be closed; refused, Enter leads to the editor while a write is in flight. An accepted
  deletion or move may be overwritten, before the tick, by the refusal of another one of the object, and the
  list behind is then not refreshed (ui.rs:3401, 3687).
- **A move nobody agreed to** (repair panel opened again while a probe of the object is
  in flight): the findings of the earlier probe can arrive under an armed move, and the
  next Ctrl-R plays what is under the cursor by then, or between the last key's reading of the
  list and that of `spawn_repair` (ui.rs:3345, 3359): a move that asks for a name may be
  played without it, against "never agreed to" (comment at ui.rs:3291). `alone` in `DangerIsTyped` and in `Act`.
- **A second drain of one node** (`OneDrainPerNode`): reopening the panel on a node
  being drained resets `running` under the same key, and a second drain starts next
  to the first (ui.rs:3521; comment 3516-3517 "a no-op ... once it is under way"). Both
  write the counts of one panel, and the first to end says that nothing runs.
- **A success that is not one** (`counted` in `SuccessMeansEmptied`): `drain` reads its
  outcome off the shared counts without looking at the key (nodeops.rs:700). Opening the panel again
  empties them (ui.rs:3489-3513), on whatever node: a pod a budget holds back, or whose eviction
  failed, is forgotten, and on the same node the panel is told of a success over a node that
  still has it. One drain is enough.
- Evictions and deletions name a pod or an object, not its uid: what a controller
  put in its place meanwhile is evicted or deleted as well (nodeops.rs:671).
- Clearing finalizers clears those added since the probe too (repair.rs:567).
- the repository's `README.md` 662-664 promises that a danger makes `e` ask for the object's name;
  the edit panel has no such prompt (ui.rs:3846).
- Cassandra: the command can still be edited between its preview and the second
  Enter (ui.rs:11698-11731; comment 11550-11553), and a question is answered on
  whatever row is under the cursor when the one asked about is gone
  (ui.rs:8317), which is why `OnlyWholeIsRestored` speaks of the row that took its place.
- The first write of a side panel's fetcher is unconditional: the later of two
  panels opened in quick succession may show the first one's key
  (k8ssandra.rs:3444; ui.rs:8546-8549).
- **The webhook flipped may not be the one asked about** (`HookView`): the menu fixes
  the value, the row is the one under the cursor at the second Enter, even the first
  one when the row of the question is gone (ui.rs:5567-5574); its name test then
  passes, as it is that row's own name (hooks.rs:1530-1537). The menu is said to have
  the configuration's name "typed back" (ui.rs:5537-5539), and Enter twice is enough.
- An older reading that ends after the one a flip starts puts the old policy back on
  screen ("the row has to show what they wrote", ui.rs:5592-5594), and each reading
  that ends says that nothing is loading, whatever is still under way.

*Shell and feeds*

- **Old logs over newer** (`follow`): the loop asks again under the same key, so an
  older, slower answer overwrites a newer one (events.rs:424); lines are blanked
  at each reload (ui.rs:2581; comment 2516-2522).
- The palette's `:events` leaves `last_status_key` set (ui.rs:4726 against 4153), and
  entering the nodes before their list has loaded shows the previous status
  (ui.rs:12214-12219).
- Events: the watch of the old scope is aborted asynchronously and may push after
  the buffer was cleared (events.rs:200-218; ui.rs:12036); a record "replaced in
  place" moves to the back (events.rs:195-197), so after a relist at capacity the
  newest events may be the ones dropped; a filter nothing passes leaves the last
  rows on screen under its label (ui.rs:2325-2336); `:events` over an empty buffer
  keeps the rows of the view it came from (ui.rs:4718-4724).
- Port forwards: `find` answers with failed rows too (comment at portfwd.rs:111), so
  Enter on a failed forward stops it first; a restart on the same port may fail to
  bind while the aborted task still holds it; a success of one connection erases
  the last error of another.

- Analyses: cutting a section of the assistant's context at a byte count panics in
  the middle of a character, and the panel says it is loading for ever
  (enrich.rs:116-121; `lost` in `Analysis`); of two usages asked for in quick succession
  the one that starts last is shown, and a question about the selected node then goes
  with the other's rows (events.rs:2294; ui.rs:2682-2685); a report "with AI" takes the
  steps of now beside an answer that may be partial or about an earlier run
  (ui.rs:2828-2835); a superseded question is still sent, "silently drops" being said of
  its result only (ai.rs:308-309); a character cut between two chunks of the stream is
  replaced (ai.rs:282).

*Sessions*

- **A stale clock** (`HandedOutUsable`): a request that waited for the mutex judges
  the credential by the clock of its arrival (session.rs:77; comment 34-37), and may
  be handed one that has expired.
- **An unreachable portal** (`LogInOnlyWhenRefused`) is answered to the page as a
  session that is over (api.rs:188; portal.rs:17, api.rs:317).
- **A stale spare's replacement** (`StaleSpareReplaced`): the reserve can come to
  own every slot, dead spares included, while the connection whose spare was stale
  waits for a new one (jump.rs:370; comment 358-359). Only the next connection
  empties it.
- Sessions of a jump are documented as opened "by the first connection, or by
  `prepare`" (jump.rs:183-184); a connection waits for `prepare` (jump.rs:361).
- Two questions of the same text within one step are never answered from memory
  (jump.rs:509).

*Verdicts*

- Spread: where the one node that hosts every replica is cordoned or tainted, the
  larger of two counts hides that another would take them (spread.rs, around 260;
  `README.md` 620-623 of the repository); "impossible" is said of a hard topology constraint too.
- Capacity: first fit may strand a pod though a placement exists
  (capacity.rs:496-499): hence `AlikeIsExact` is about pods that are alike.
- Velero: day of the week 7 is Sunday to the comments (velero.rs:146-147, 197), and
  `0 2 * * 7` is refused by `parse_field`.
- A schedule's streak of failures is forgotten while its newest run is in progress,
  and the headline says "stale" while a fresh run is; "nodes the datacenter had when
  this run happened" (k8ssandra.rs:388) is its current size (1360-1370).
- RBAC: a role's severity is called a "ceiling" (rbac.rs:446-448), and subjects or
  critical namespaces raise a binding above it, which the role view's floor then
  hides; `impersonate` is found in any `*` verb (rbac.rs:602); "unbound: inert" is
  said of a contributor granted through an aggregated role (rbac.rs:464); aggregated
  roles are filled in index order, so one filled later contributes nothing (around
  975-985); an account listed twice in a binding counts twice; a second binding that
  names the same missing ServiceAccount is not told of it, the hole being by then in the
  index like an account that exists (rbac.rs:1147-1178; comment 1154-1155).
- Certificates: a Challenge left with only its issuer is adopted by the issuer
  (certmanager.rs `parent_map`), against comment 612-615 and test 1535-1536; the
  web's actions are computed on the filtered list, so a rate-limited Order out of
  the filter no longer prevents a retry (`web/src/certs.rs`, around 322-324); a
  renewal patches the whole list of conditions without a resource version
  (certmanager.rs:1295-1340); folds do nothing in a cycle.
- Mirrors: an orphan is said "out of scope" also when it has another name, sits in
  the source's own namespace, or the selector cannot be read (reflector.rs, around
  1479); a blocked target with consumers is told "waiting"; a Secret and a ConfigMap
  of one name share a fold and an identifier (591-594), and the web forces the
  first; forcing a mirror that left the automatic scope only clears it.
- Webhooks: "the answer is certain" (hooks.rs:1173-1175) ignores `objectSelector`,
  `matchConditions` and API groups; `excludes_system` ignores the key of an expression,
  holds of any `matchLabels`, and misses `In` and `Exists` (hooks.rs:511-525);
  a catch-all is "called on every write" without a look at its operations and scope,
  `resources: ["*/*"]` is not one (449-452), and three rules that cover the writes one
  each do not cover them (455-460).

## 8. What is not modelled

The map covers about a twelfth of the repository's lines. Most of the rest is reading,
text and drawing: a large part of the 33,000 lines of `ui.rs` lays out tables and
panels, `lang.rs` is wording, `config.rs` reads a file, and the front end (`src/web`) draws what
the server sends. They are described under "components" with their reasons; the
larger ones:

- *External*: the API server beyond what a component observes of it, the portal,
  terminals, the reflector, the clock beyond an integer, the user's editor.
- *Data*: wording, layout, figures in messages, YAML and JSON, certificates,
  cookies; in `EditPanel`, which fields changed and which of them the server owns or
  forbids; in `RbacRules`, provenance (GitOps, Helm, Rancher) and the finding it adds
  (`push_gitops_finding`); in `MirrorRules`, the grammar of selectors and patterns.
- *Reading*: how a view's records are taken out of the API's objects
  (`parse_...` of every view), and the tables made of them.
- *Same code, other door*: the web server's drain (`web/src/nodes.rs`, the same
  `run_drain` under a private state), its edit (stateless).
- *Planned*: row 11 of section 2. The verdicts on policies, storage and
  identity are of the same nature as those of section 3, one list at a time.
- *One-shot writes* of views (a label, an annotation, a rollout) behind a menu: a
  patch each, with no state that two actors share.
- *Left out for good*: listings and their tables, drawing, configuration, wording,
  packaging: no state of theirs survives a refresh, or none that two actors share.
