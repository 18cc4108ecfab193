---------------------------- MODULE DetailPanel ----------------------------
(***************************************************************************)
(* The detail panel under a table (src/ui.rs): one Status state and one    *)
(* Logs state, shared by every view that has the panel.                    *)
(*                                                                         *)
(* A view asks for the text of its highlighted row once, and remembers the *)
(* key it asked for so that the next tick does not ask again; the answer   *)
(* comes from a task of its own, and is dropped when the panel has moved   *)
(* on to another key.  What makes it hard is that the keys remembered by   *)
(* the views and the key the panel shows are written by different hands:   *)
(* each way in or out of a view has to reset the ones that no longer tell  *)
(* the truth.                                                              *)
(*                                                                         *)
(* Four views stand for all of them: the events (the default), the nodes   *)
(* (with a key of their own), the pods (a table of the shared snapshot,    *)
(* asked for when the highlighted row changes), and the secrets (a view    *)
(* with its own panel, that leaves both states alone).                     *)
(***************************************************************************)
EXTENDS Naturals, FiniteSets, FiniteSetsExt

CONSTANTS
    Objects,   \* what an event or a row of the pods view is about
    Pods,      \* the objects that have logs
    Nodes,     \* the rows of the nodes view
    MaxAsks,   \* bound: tasks under way, per panel
    Nothing

ASSUME DetailAssumption ==
    /\ Pods \subseteq Objects /\ Objects \cap Nodes = {}
    /\ Nothing \notin Objects \cup Nodes \cup (Pods \X BOOLEAN)

VARIABLES
    view,        \* the view that has the keyboard
    row,         \* the object of the highlighted row of `snapshot`, or Nothing
    node,        \* the node under the cursor of the nodes view, or Nothing
    lastStatus,  \* last_status_key
    lastNode,    \* last_node_status_key
    lastSel,     \* last_pods_sel_uid
    lastPod,     \* last_pod_key
    status,      \* status_state
    statusAsks,  \* the `fetch_status` tasks under way, by key
    logs,        \* log_state
    logAsks,     \* the `fetch_logs` tasks under way, by key
    previous,    \* log_opts.previous: the run before the running one
    follow       \* log_follow

statusVars == <<lastStatus, status, statusAsks>>
logVars == <<lastPod, logs, logAsks>>
detailVars == <<view, row, node, lastNode, lastSel, previous, follow, statusVars, logVars>>

DetailViews == {"events", "nodes", "pods", "secrets"}

StatusKeys == Objects \cup Nodes
LogKeys == Pods \X BOOLEAN

(* A panel: the key it is for, the key whose text (or error) is on screen,  *)
(* and whether it says it is loading.                                      *)
Cleared == [key |-> Nothing, of |-> Nothing, loading |-> FALSE]
Loading(k) == [key |-> k, of |-> Nothing, loading |-> TRUE]
Panels(keys) == [key : keys \cup {Nothing}, of : keys \cup {Nothing}, loading : BOOLEAN]

UnderWay(asks) == MapThenSumSet(LAMBDA k : asks[k], DOMAIN asks)
Spawned(asks, k) == [asks EXCEPT ![k] = @ + 1]

DetailInit ==
    /\ view = "events" /\ row = Nothing /\ node = Nothing
    /\ lastStatus = Nothing /\ lastNode = Nothing /\ lastSel = Nothing /\ lastPod = Nothing
    /\ status = Cleared /\ statusAsks = [k \in StatusKeys |-> 0]
    /\ logs = Cleared /\ logAsks = [k \in LogKeys |-> 0]
    /\ previous = FALSE /\ follow = FALSE

-----------------------------------------------------------------------------
(* Asking *)

(* Ask for the status of `o` unless `last` says it was; `panel` is what the *)
(* panel holds by then.                                                    *)
MaybeFetchStatus(panel, last, o) ==
    IF o \in {Nothing, last}
    THEN /\ lastStatus' = last
         /\ status' = panel
         /\ UNCHANGED statusAsks
    ELSE /\ UnderWay(statusAsks) < MaxAsks
         /\ lastStatus' = o
         /\ status' = Loading(o)
         /\ statusAsks' = Spawned(statusAsks, o)

MaybeFetchNodeStatus(panel, last, n) ==
    IF n \in {Nothing, last}
    THEN /\ lastNode' = last
         /\ status' = panel
         /\ UNCHANGED statusAsks
    ELSE /\ UnderWay(statusAsks) < MaxAsks
         /\ lastNode' = n
         /\ status' = Loading(n)
         /\ statusAsks' = Spawned(statusAsks, n)

LogKey(o, prev) == <<o, prev>>

(* What is remembered once the row is of an object that has no logs. *)
NoLogs(last) == Nothing

(* Ask for the logs of `o` unless `last` says they were. *)
MaybeFetchLogs(last, o, prev) ==
    \/ /\ o = Nothing
       /\ lastPod' = last
       /\ UNCHANGED <<logs, logAsks>>
    \/ /\ o \in Objects \ Pods
       /\ lastPod' = NoLogs(last)
       /\ logs' = Cleared
       /\ UNCHANGED logAsks
    \/ /\ o \in Pods
       /\ last = LogKey(o, prev)
       /\ lastPod' = last
       /\ UNCHANGED <<logs, logAsks>>
    \/ /\ o \in Pods
       /\ last # LogKey(o, prev)
       /\ UnderWay(logAsks) < MaxAsks
       /\ lastPod' = LogKey(o, prev)
       /\ logs' = Loading(LogKey(o, prev))
       /\ logAsks' = Spawned(logAsks, LogKey(o, prev))

-----------------------------------------------------------------------------
(* Going from view to view *)

(* `clear_status_state` *)
ClearStatus == Cleared

(* The Status panel once the palette has shut the view down.  The keys that *)
(* say what was asked for stay.                                            *)
Left == IF view \in {"nodes", "pods"} THEN ClearStatus ELSE status

(* `:events`, with or without a namespace to narrow to (`anew`): the       *)
(* snapshot and the keys go with the old scope.                            *)
DetailRunEvents(anew) ==
    /\ view' = "events"
    /\ status' = Left
    /\ row' = IF anew THEN Nothing ELSE row
    /\ lastStatus' = IF anew THEN Nothing ELSE lastStatus
    /\ lastPod' = IF anew THEN Nothing ELSE lastPod
    /\ UNCHANGED <<node, lastNode, lastSel, statusAsks, logs, logAsks, previous, follow>>

(* `n`, `N`, `0` on the events: nothing is left of the old scope but what  *)
(* the panel shows.                                                        *)
ApplyNamespace ==
    /\ view = "events"
    /\ row' = Nothing
    /\ lastStatus' = Nothing
    /\ lastPod' = Nothing
    /\ UNCHANGED <<view, node, lastNode, lastSel, status, statusAsks, logs, logAsks,
                   previous, follow>>

(* `:nodes`, from anywhere: the cursor is on the first node, if the list    *)
(* has ever been read.                                                     *)
EnterNodes(n) ==
    /\ (n = Nothing) = (node = Nothing)
    /\ view' = "nodes"
    /\ node' = n
    /\ MaybeFetchNodeStatus(Left, Nothing, n)
    /\ UNCHANGED <<row, lastStatus, lastSel, logVars, previous, follow>>

ExitNodes ==
    /\ view = "nodes"
    /\ view' = "events"
    /\ lastNode' = Nothing
    /\ lastStatus' = Nothing
    /\ status' = ClearStatus
    /\ UNCHANGED <<row, node, lastSel, statusAsks, logVars, previous, follow>>

(* `:pods`, or the view entered again under another scope: the rows are     *)
(* those of the last list, if there are any.                               *)
EnterPods(o) ==
    /\ view' = "pods"
    /\ row' = o
    /\ lastSel' = o
    /\ MaybeFetchLogs(Nothing, o, previous)
    /\ MaybeFetchStatus(IF view = "pods" THEN status ELSE Left, Nothing, o)
    /\ UNCHANGED <<node, lastNode, previous, follow>>

ExitPods ==
    /\ view = "pods"
    /\ view' = "events"
    /\ row' = Nothing
    /\ lastSel' = Nothing
    /\ lastPod' = Nothing
    /\ lastStatus' = Nothing
    /\ status' = ClearStatus
    /\ UNCHANGED <<node, lastNode, statusAsks, logs, logAsks, previous, follow>>

EnterSecrets ==
    /\ view' = "secrets"
    /\ status' = Left
    /\ UNCHANGED <<row, node, lastStatus, lastNode, lastSel, statusAsks, logVars,
                   previous, follow>>

ExitSecrets ==
    /\ view = "secrets"
    /\ view' = "events"
    /\ UNCHANGED <<row, node, lastNode, lastSel, statusVars, logVars, previous, follow>>

-----------------------------------------------------------------------------
(* The tick of the main loop, and the keys of a table *)

(* The newest event, the row the cursor is anchored to, or the one it is    *)
(* moved to: the panel follows.                                            *)
EventsTick(o) ==
    /\ view = "events"
    /\ row' = o
    /\ MaybeFetchLogs(lastPod, o, previous)
    /\ MaybeFetchStatus(status, lastStatus, o)
    /\ UNCHANGED <<view, node, lastNode, lastSel, previous, follow>>

(* The pods list is drawn from its state: the cursor stays on its pod, or   *)
(* falls on another one, or on none.                                       *)
PodsTick(o) ==
    /\ view = "pods"
    /\ row' = o
    /\ lastSel' = o
    /\ IF o \in {Nothing, lastSel}
       THEN UNCHANGED <<statusVars, logVars>>
       ELSE /\ MaybeFetchLogs(lastPod, o, previous)
            /\ MaybeFetchStatus(status, lastStatus, o)
    /\ UNCHANGED <<view, node, lastNode, previous, follow>>

(* Mutant: the status is asked for on the way in only. *)
NodesTickAsksNothing ==
    /\ view = "nodes"
    /\ UNCHANGED detailVars

NodesTick ==
    /\ view = "nodes"
    /\ MaybeFetchNodeStatus(status, lastNode, node)
    /\ UNCHANGED <<view, row, node, lastStatus, lastSel, logVars, previous, follow>>

(* The node list is read, or its cursor moves: `n` is now under it. *)
NodeListed(n) ==
    /\ node # n
    /\ node = Nothing \/ view = "nodes"
    /\ node' = n
    /\ UNCHANGED <<view, row, lastNode, lastSel, statusVars, logVars, previous, follow>>

(* Mutant: the other run is chosen and nothing is read again. *)
TogglePreviousOnly ==
    /\ view \in {"events", "pods"}
    /\ previous' = ~previous
    /\ follow' = (follow /\ previous)
    /\ UNCHANGED <<view, row, node, lastNode, lastSel, statusVars, logVars>>

(* `p`: the run before the running one, and back. *)
TogglePrevious ==
    /\ view \in {"events", "pods"}
    /\ previous' = ~previous
    /\ follow' = (follow /\ previous)
    /\ MaybeFetchLogs(Nothing, row, ~previous)
    /\ UNCHANGED <<view, row, node, lastNode, lastSel, statusVars>>

(* `f`, refused on a run that is over. *)
ToggleFollow ==
    /\ view \in {"events", "pods"}
    /\ ~previous
    /\ follow' = ~follow
    /\ UNCHANGED <<view, row, node, lastNode, lastSel, statusVars, logVars, previous>>

(* Every 3 s, whatever the view. *)
FollowTick ==
    /\ follow
    /\ MaybeFetchLogs(Nothing, row, previous)
    /\ UNCHANGED <<view, row, node, lastNode, lastSel, statusVars, previous, follow>>

-----------------------------------------------------------------------------
(* The answers *)

(* A panel once the task that asked for `k` has its text or its error: the  *)
(* panel may be for another key by then.                                   *)
Answer(panel, k) ==
    IF panel.key = k THEN [panel EXCEPT !.of = k, !.loading = FALSE] ELSE panel

StatusAnswered(k) ==
    /\ statusAsks[k] > 0
    /\ statusAsks' = [statusAsks EXCEPT ![k] = @ - 1]
    /\ status' = Answer(status, k)
    /\ UNCHANGED <<view, row, node, lastStatus, lastNode, lastSel, logVars, previous, follow>>

LogsAnswered(k) ==
    /\ logAsks[k] > 0
    /\ logAsks' = [logAsks EXCEPT ![k] = @ - 1]
    /\ logs' = Answer(logs, k)
    /\ UNCHANGED <<view, row, node, lastNode, lastSel, statusVars, lastPod, previous, follow>>

-----------------------------------------------------------------------------
DetailNext ==
    \/ \E o \in Objects : EventsTick(o)
    \/ \E o \in Pods \cup {Nothing} : PodsTick(o)
    \/ NodesTick
    \/ FollowTick
    \/ \E anew \in BOOLEAN : DetailRunEvents(anew)
    \/ ApplyNamespace
    \/ \E n \in Nodes \cup {Nothing} : EnterNodes(n)
    \/ ExitNodes
    \/ \E o \in Pods \cup {Nothing} : EnterPods(o)
    \/ ExitPods
    \/ EnterSecrets
    \/ ExitSecrets
    \/ \E n \in Nodes : NodeListed(n)
    \/ TogglePrevious
    \/ ToggleFollow
    \/ \E k \in StatusKeys : StatusAnswered(k)
    \/ \E k \in LogKeys : LogsAnswered(k)

DetailSpec == DetailInit /\ [][DetailNext]_detailVars

(* The loop ticks four times a second, and a task ends: the client of the   *)
(* cluster answers or gives up.                                            *)
FairDetailSpec ==
    /\ DetailSpec
    /\ WF_detailVars(NodesTick)
    /\ \A k \in StatusKeys : WF_detailVars(StatusAnswered(k))
    /\ \A k \in LogKeys : WF_detailVars(LogsAnswered(k))

-----------------------------------------------------------------------------
DetailTypeOK ==
    /\ view \in DetailViews
    /\ row \in Objects \cup {Nothing}
    /\ node \in Nodes \cup {Nothing}
    /\ lastStatus \in Objects \cup {Nothing}
    /\ lastNode \in Nodes \cup {Nothing}
    /\ lastSel \in Pods \cup {Nothing}
    /\ lastPod \in LogKeys \cup {Nothing}
    /\ status \in Panels(StatusKeys)
    /\ logs \in Panels(LogKeys)
    /\ statusAsks \in [StatusKeys -> Nat]
    /\ logAsks \in [LogKeys -> Nat]
    /\ previous \in BOOLEAN /\ follow \in BOOLEAN
    /\ follow => ~previous

(* The text on screen is the text of the key the panel is for, however late *)
(* the answers come and whatever was opened meanwhile (the key guards of   *)
(* `fetch_status` and `fetch_logs`).                                       *)
OwnText ==
    /\ status.of \in {Nothing, status.key}
    /\ logs.of \in {Nothing, logs.key}

(* "(loading...)" is never the last word: while a panel says it, a task that *)
(* will answer for that very key is under way.                             *)
LoadingIsAsked ==
    /\ status.loading => status.key # Nothing /\ statusAsks[status.key] > 0
    /\ logs.loading => logs.key # Nothing /\ logAsks[logs.key] > 0

(* Where a tick would find nothing to ask, the Status panel is about the    *)
(* highlighted row: always under the pods, and under the nodes and the      *)
(* events once the remembered key is the row's (under the events it may    *)
(* also be about nothing at all).                                          *)
StatusOfTheRow ==
    /\ (view = "pods" /\ row # Nothing) => status.key = row
    /\ (view = "nodes" /\ node # Nothing /\ lastNode = node) => status.key = node
    /\ (view = "events" /\ row # Nothing /\ lastStatus = row) => status.key \in {Nothing, row}

(* Where a tick would find nothing to ask, the Logs panel is about the      *)
(* highlighted row and about the run that was chosen.                      *)
LogsOfTheRow ==
    (row \in Pods /\ (view = "pods" \/ lastPod = LogKey(row, previous)))
        => logs.key = LogKey(row, previous)

(* A node that stays under the cursor gets its status on screen. *)
NodeStatusArrives ==
    \A n \in Nodes :
        (view = "nodes" /\ node = n) ~> (status.of = n \/ view # "nodes" \/ node # n)

(* Logs that are being read are answered, or no longer asked for. *)
LogsArrive ==
    \A k \in LogKeys : (logs.key = k /\ logs.loading) ~> (~logs.loading \/ logs.key # k)

(* The two panels are about the row under the cursor, and say what they    *)
(* have.                                                                   *)
PanelsTellTheRow ==
    DetailTypeOK /\ OwnText /\ LoadingIsAsked /\ StatusOfTheRow /\ LogsOfTheRow

(* What a panel waits for comes, unless the user goes on first. *)
TextsArrive == NodeStatusArrives /\ LogsArrive
=============================================================================
