----------------------------- MODULE NodeDrain -----------------------------
(***************************************************************************)
(* The drain panel of the TUI and the tasks behind it: src/nodeops.rs      *)
(* (`preflight`, `run_drain`, `drain`, `publish`, `set_cordon`) and        *)
(* src/ui.rs (`open_node_drain` ... `node_drain_cancel`, `node_cordon`).   *)
(*                                                                         *)
(* One state, `op` (`SharedNodeOp`), is shared by the panel and by every   *)
(* task ever spawned.  A task carries the key it was spawned for and drops *)
(* what it has to say when `op.key` is another one; the key is "drain|" and *)
(* the node's name, so here it is the node.  Tasks are never cancelled:    *)
(* closing the panel leaves the preflight and the drain running, and the   *)
(* panel may be opened again, on another node or on the same one, which    *)
(* empties `op`, and another drain of the same node be started.            *)
(*                                                                         *)
(* Three fields of a drain are history: `kept`, `settled` (the pods it is  *)
(* done with, one way or the other) and `counted` (the counts of `op` have *)
(* been this drain's and no other's since it was spawned).                 *)
(*                                                                         *)
(* The cluster (scheduler, controllers, eviction endpoint) is external.    *)
(***************************************************************************)
EXTENDS NodeRules

CONSTANTS Nodes, Pods,      \* names
          Managed,          \* pods a controller recreates under their own name
          Budgeted,         \* pods behind the one disruption budget
          MinAvailable,     \* what that budget keeps running
          Preflights,       \* task slots: how many preflights may be in flight,
          Workers,          \* and how many drains
          EvictRetries,     \* passes after the first
          CallsFail         \* may an API call come back with an error?

NoNode == "no node"

ASSUME ConstantsAssumption ==
    /\ NoNode \notin Nodes
    /\ Managed \subseteq Pods
    /\ Budgeted \subseteq Pods
    /\ MinAvailable \in Nat
    /\ EvictRetries \in Nat
    /\ CallsFail \in BOOLEAN

VARIABLES view,       \* `node_op_view`: [open, node, armed, typed, refreshed]
          op,         \* `node_op_state`
          shown,      \* the nodes the table on screen says are schedulable
          cordoned,   \* the nodes the cluster holds unschedulable
          pod,        \* [at, phase] of every pod name
          pre,        \* the preflight tasks
          wk          \* the drain tasks

vars == <<view, op, shown, cordoned, pod, pre, wk>>

-----------------------------------------------------------------------------
(* The cluster *)

(* The listed object of a pod name, in the terms of NodeRules.             *)
PodObject(p) ==
    [node |-> pod[p].at, ns |-> "ns",
     labels |-> [app |-> IF p \in Budgeted THEN "budgeted" ELSE "free"],
     deleting |-> pod[p].phase = "terminating",
     phase |-> IF pod[p].phase = "finished" THEN "Succeeded" ELSE "Running",
     mirror |-> FALSE,
     owners |-> IF p \in Managed THEN <<[kind |-> "StatefulSet", controller |-> TRUE]>>
                ELSE << >>,
     emptyDir |-> FALSE, containers |-> << >>, inits |-> << >>]

PodObjects == [p \in {q \in Pods : pod[q].at # NoNode} |-> PodObject(p)]

NodeObject(n) ==
    [name |-> n, ready |-> TRUE, unschedulable |-> n \in cordoned,
     controlPlane |-> FALSE, cpu |-> 1, mem |-> 1]

(* `disruptionsAllowed`: a pod counts for the budget while it runs.        *)
Allowed == Cardinality({p \in Budgeted : pod[p].phase = "running"}) - MinAvailable

Budgets == {[ns |-> "ns", known |-> TRUE, allowed |-> Allowed,
             selector |-> {[labels |-> [app |-> "budgeted"], exprs |-> {}]}]}

(* The pods a list of node `n` would move now.                             *)
ToEvict(n) == Evictable(n, PodObjects)

Findings(n) ==
    Assess(NodeObject(n), PodObjects, Budgets,
           RoomLeft(n, {NodeObject(m) : m \in Nodes}, PodObjects))

(* What the eviction endpoint answers, and what it does when it accepts.   *)
EvictAnswer(p) ==
    CASE pod[p].at = NoNode -> "404"
      [] pod[p].phase = "running" /\ p \in Budgeted /\ Allowed <= 0 -> "429"
      [] OTHER -> "ok"

EvictEffect(p) ==
    IF EvictAnswer(p) = "ok" THEN [pod EXCEPT ![p].phase = "terminating"] ELSE pod

-----------------------------------------------------------------------------
(* The tasks *)

IdlePreflight == [pc |-> "idle", node |-> NoNode, error |-> FALSE, danger |-> FALSE]

IdleWorker == [pc |-> "idle", node |-> NoNode, todo |-> {}, still |-> {}, cur |-> {},
               answer |-> "none", attempt |-> 0, result |-> "none",
               listed |-> {}, settled |-> {}, kept |-> FALSE, counted |-> FALSE]

(* A task, of an earlier panel or of this one, still works for node `n`.   *)
PreflightsOf(n) == {t \in Preflights : pre[t].pc # "idle" /\ pre[t].node = n}
WorkersOf(n)    == {w \in Workers : wk[w].pc # "idle" /\ wk[w].node = n}

NodeOp(key, loading) ==
    [key |-> key, loading |-> loading, error |-> FALSE, danger |-> FALSE,
     running |-> FALSE, evicted |-> {}, waiting |-> {}, failed |-> {}, done |-> "none"]

ClosedView == [open |-> FALSE, node |-> NoNode, armed |-> FALSE, typed |-> "none",
               refreshed |-> FALSE]

(* `publish`: apply `new` to the panel's state, unless the panel has moved *)
(* on to another key.                                                      *)
Publish(key, new) == op' = IF op.key = key THEN new ELSE op

(* The outcome of drain task `w`: all it still has to say.                 *)
Outcome(w, result) ==
    [IdleWorker EXCEPT !.pc = "report", !.node = wk[w].node, !.result = result,
                       !.kept = wk[w].kept, !.counted = wk[w].counted]

(* Drain task `w` moves on to the state `r`.                               *)
Goes(w, r) == wk' = [wk EXCEPT ![w] = r]

Init ==
    /\ view = ClosedView
    /\ op = NodeOp(NoNode, FALSE)
    /\ shown = Nodes
    /\ cordoned = {}
    /\ pod \in [Pods -> [at : Nodes, phase : {"running"}]]
    /\ pre = [t \in Preflights |-> IdlePreflight]
    /\ wk = [w \in Workers |-> IdleWorker]

-----------------------------------------------------------------------------
(* The keys of the panel.  The operations menu is reachable only while the *)
(* panel is closed: an open panel takes every key.                         *)

(* The drains under way have lost the counts they made.                    *)
Uncounted == [w \in Workers |-> [wk[w] EXCEPT !.counted = FALSE]]

OpenNodeDrain(n, t) ==
    /\ ~view.open
    /\ pre[t].pc = "idle"
    /\ view' = [open |-> TRUE, node |-> n, armed |-> FALSE, typed |-> "none",
                refreshed |-> FALSE]
    /\ op' = NodeOp(n, TRUE)
    /\ pre' = [pre EXCEPT ![t] = [IdlePreflight EXCEPT !.pc = "collect", !.node = n]]
    /\ wk' = Uncounted
    /\ UNCHANGED <<shown, cordoned, pod>>

(* `node_drain_confirm` refuses while the checks run or once it is under way. *)
Confirmable == view.open /\ ~op.loading /\ ~op.running /\ op.done = "none"
Strict == op.error \/ op.danger

OpenPrompt ==
    /\ Confirmable /\ Strict /\ view.typed = "none"
    /\ view' = [view EXCEPT !.typed = "other"]
    /\ UNCHANGED <<op, shown, cordoned, pod, pre, wk>>

Arm ==
    /\ Confirmable /\ ~Strict /\ ~view.armed
    /\ view' = [view EXCEPT !.armed = TRUE]
    /\ UNCHANGED <<op, shown, cordoned, pod, pre, wk>>

(* The last step of the confirmation, with `spawn_drain`.                  *)
SpawnDrain(w) ==
    /\ Confirmable
    /\ IF Strict THEN view.typed = "name" ELSE view.armed
    /\ wk[w].pc = "idle"
    /\ op' = [op EXCEPT !.running = TRUE, !.done = "none",
                        !.evicted = {}, !.waiting = {}, !.failed = {}]
    /\ Goes(w, [IdleWorker EXCEPT !.pc = "cordon", !.node = view.node,
                                  !.counted = WorkersOf(view.node) = {}])
    /\ UNCHANGED <<view, shown, cordoned, pod, pre>>

(* `node_drain_input` and `node_drain_backspace`: the buffer is the node's *)
(* name, or something else.                                                *)
Type ==
    /\ view.open /\ view.typed # "none"
    /\ \E buffer \in {"name", "other"} : view' = [view EXCEPT !.typed = buffer]
    /\ UNCHANGED <<op, shown, cordoned, pod, pre, wk>>

Cancel ==
    /\ view.open
    /\ view' = ClosedView
    /\ UNCHANGED <<op, shown, cordoned, pod, pre, wk>>

(* `poll_node_op`: a finished drain refreshes the node list, once.         *)
PollNodeOp ==
    /\ view.open /\ op.done # "none" /\ ~view.refreshed
    /\ view' = [view EXCEPT !.refreshed = TRUE]
    /\ shown' = Nodes \ cordoned
    /\ UNCHANGED <<op, cordoned, pod, pre, wk>>

(* The node table's own refresh.                                           *)
FetchNodes ==
    /\ shown' = Nodes \ cordoned
    /\ UNCHANGED <<view, op, cordoned, pod, pre, wk>>

(* A cordon breaks nothing; an uncordon breaks what the drains of the node *)
(* rely on (`kept` is a history variable: the cordon was never lifted).    *)
Uncordoned(n) ==
    [w \in Workers |-> IF wk[w].node = n THEN [wk[w] EXCEPT !.kept = FALSE] ELSE wk[w]]

(* `node_cordon`, answered from the screen when the row already shows the  *)
(* asked-for state; otherwise the patch, then the list that follows it.    *)
(* The patch may fail, or land although its answer was lost.               *)
NodeCordon(n, unschedulable) ==
    /\ ~view.open
    /\ (n \in shown) = unschedulable
    /\ \E landed \in (IF CallsFail THEN BOOLEAN ELSE {TRUE}) :
         LET after == IF ~landed THEN cordoned
                      ELSE IF unschedulable THEN cordoned \cup {n} ELSE cordoned \ {n}
         IN  /\ cordoned' = after
             /\ shown' = Nodes \ after
             /\ wk' = IF landed /\ ~unschedulable THEN Uncordoned(n) ELSE wk
    /\ UNCHANGED <<view, op, pod, pre>>

-----------------------------------------------------------------------------
(* The preflight task *)

(* `collect`: the lists and the findings they give, or an error.           *)
Collect(t) ==
    /\ pre[t].pc = "collect"
    /\ \E failed \in (IF CallsFail THEN BOOLEAN ELSE {FALSE}) :
         pre' = [pre EXCEPT ![t] = [@ EXCEPT !.pc = "publish", !.error = failed,
                            !.danger = ~failed /\ NeedsStrictConfirm(Findings(pre[t].node))]]
    /\ UNCHANGED <<view, op, shown, cordoned, pod, wk>>

(* The end of `preflight`.                                                 *)
PublishFindings(t) ==
    /\ pre[t].pc = "publish"
    /\ Publish(pre[t].node, [op EXCEPT !.loading = FALSE, !.error = pre[t].error,
                                       !.danger = pre[t].danger])
    /\ pre' = [pre EXCEPT ![t] = IdlePreflight]
    /\ UNCHANGED <<view, shown, cordoned, pod, wk>>

-----------------------------------------------------------------------------
(* The drain task, `run_drain` around `drain` *)

(* Mutant of Cordon: the patch is skipped and the listing starts anyway.   *)
CordonSkipped(w) ==
    /\ wk[w].pc = "cordon"
    /\ Goes(w, [wk[w] EXCEPT !.pc = "list", !.kept = TRUE])
    /\ UNCHANGED <<view, op, shown, cordoned, pod, pre>>

(* `set_cordon(true)`; an error ends the drain, and may have landed.       *)
Cordon(w) ==
    /\ wk[w].pc = "cordon"
    /\ \/ /\ cordoned' = cordoned \cup {wk[w].node}
          /\ Goes(w, [wk[w] EXCEPT !.pc = "list", !.kept = TRUE])
       \/ /\ CallsFail
          /\ cordoned' \in {cordoned, cordoned \cup {wk[w].node}}
          /\ Goes(w, Outcome(w, "err"))
    /\ UNCHANGED <<view, op, shown, pod, pre>>

(* The pods of the node, once; those to leave in place are filtered out.   *)
ListPods(w) ==
    /\ wk[w].pc = "list"
    /\ \/ LET found == ToEvict(wk[w].node)
          IN  Goes(w, [wk[w] EXCEPT !.pc = IF found = {} THEN "final" ELSE "evict",
                               !.todo = found, !.listed = found])
       \/ /\ CallsFail
          /\ Goes(w, Outcome(w, "err"))
    /\ UNCHANGED <<view, op, shown, cordoned, pod, pre>>

(* One `evict` call, by name.  An error may have landed as well.           *)
Evict(w, p) ==
    /\ wk[w].pc = "evict" /\ p \in wk[w].todo
    /\ \/ /\ pod' = EvictEffect(p)
          /\ Goes(w, [wk[w] EXCEPT !.pc = "publish", !.cur = {p},
                              !.todo = @ \ {p}, !.answer = EvictAnswer(p)])
       \/ /\ CallsFail
          /\ pod' \in {pod, EvictEffect(p)}
          /\ Goes(w, [wk[w] EXCEPT !.pc = "publish", !.cur = {p},
                              !.todo = @ \ {p}, !.answer = "error"])
    /\ UNCHANGED <<view, op, shown, cordoned, pre>>

(* Mutant of PublishEviction: a pod held back is not put back in the queue. *)
HeldPodForgotten(w) ==
    /\ wk[w].pc = "publish"
    /\ Publish(wk[w].node,
               CASE wk[w].answer \in {"ok", "404"} -> [op EXCEPT !.evicted = @ \cup wk[w].cur]
                 [] wk[w].answer = "429"           -> [op EXCEPT !.waiting = @ \cup wk[w].cur]
                 [] OTHER                          -> [op EXCEPT !.failed = @ \cup wk[w].cur])
    /\ Goes(w, [wk[w] EXCEPT !.pc = IF wk[w].todo = {} THEN "settle" ELSE "evict",
                        !.settled = IF wk[w].answer = "429" THEN @ ELSE @ \cup wk[w].cur,
                        !.cur = {}, !.answer = "none"])
    /\ UNCHANGED <<view, shown, cordoned, pod, pre>>

(* What the panel is told of the answer, under the state's lock.           *)
PublishEviction(w) ==
    /\ wk[w].pc = "publish"
    /\ Publish(wk[w].node,
               CASE wk[w].answer \in {"ok", "404"} -> [op EXCEPT !.evicted = @ \cup wk[w].cur]
                 [] wk[w].answer = "429"           -> [op EXCEPT !.waiting = @ \cup wk[w].cur]
                 [] OTHER                          -> [op EXCEPT !.failed = @ \cup wk[w].cur])
    /\ Goes(w, [wk[w] EXCEPT !.pc = IF wk[w].todo = {} THEN "settle" ELSE "evict",
                        !.still = IF wk[w].answer = "429" THEN @ \cup wk[w].cur ELSE @,
                        !.settled = IF wk[w].answer = "429" THEN @ ELSE @ \cup wk[w].cur,
                        !.cur = {}, !.answer = "none"])
    /\ UNCHANGED <<view, shown, cordoned, pod, pre>>

(* Mutant of EndPass: passes without end.                                  *)
RetryForever(w) ==
    /\ wk[w].pc = "settle"
    /\ Publish(wk[w].node, [op EXCEPT !.waiting = @ \cap wk[w].still])
    /\ Goes(w, [wk[w] EXCEPT !.todo = wk[w].still, !.still = {},
                        !.pc = IF wk[w].still = {} THEN "final" ELSE "evict"])
    /\ UNCHANGED <<view, shown, cordoned, pod, pre>>

(* The end of a pass: only the pods a budget holds back come round again,  *)
(* EvictRetries times.                                                     *)
EndPass(w) ==
    /\ wk[w].pc = "settle"
    /\ Publish(wk[w].node, [op EXCEPT !.waiting = @ \cap wk[w].still])
    /\ Goes(w, [wk[w] EXCEPT !.todo = wk[w].still, !.still = {},
                        !.attempt = IF @ < EvictRetries THEN @ + 1 ELSE @,
                        !.pc = IF wk[w].still = {} \/ wk[w].attempt = EvictRetries
                                  THEN "final" ELSE "evict"])
    /\ UNCHANGED <<view, shown, cordoned, pod, pre>>

(* Mutant of FinalRead: the pods a budget still holds are not counted.     *)
OnlyFailuresCount(w) ==
    /\ wk[w].pc = "final"
    /\ Goes(w, Outcome(w, IF op.failed = {} THEN "ok" ELSE "err"))
    /\ UNCHANGED <<view, op, shown, cordoned, pod, pre>>

(* The outcome, from what the shared state holds: the key is not compared. *)
FinalRead(w) ==
    /\ wk[w].pc = "final"
    /\ Goes(w, Outcome(w, IF op.failed = {} /\ op.waiting = {} THEN "ok" ELSE "err"))
    /\ UNCHANGED <<view, op, shown, cordoned, pod, pre>>

(* Mutant of Report: the outcome is published, `running` is left set.      *)
RunningLeftSet(w) ==
    /\ wk[w].pc = "report"
    /\ Publish(wk[w].node, [op EXCEPT !.done = wk[w].result])
    /\ Goes(w, IdleWorker)
    /\ UNCHANGED <<view, shown, cordoned, pod, pre>>

(* The end of `run_drain`.                                                 *)
Report(w) ==
    /\ wk[w].pc = "report"
    /\ Publish(wk[w].node, [op EXCEPT !.running = FALSE, !.done = wk[w].result])
    /\ Goes(w, IdleWorker)
    /\ UNCHANGED <<view, shown, cordoned, pod, pre>>

-----------------------------------------------------------------------------
(* The cluster's own steps *)

Terminated(p) ==
    /\ pod[p].phase = "terminating"
    /\ pod' = [pod EXCEPT ![p] = [at |-> NoNode, phase |-> "gone"]]
    /\ UNCHANGED <<view, op, shown, cordoned, pre, wk>>

Completed(p) ==
    /\ pod[p].phase = "running" /\ p \notin Managed
    /\ pod' = [pod EXCEPT ![p].phase = "finished"]
    /\ UNCHANGED <<view, op, shown, cordoned, pre, wk>>

(* A controller puts the pod back, where the scheduler may place it.       *)
Recreated(p, n) ==
    /\ pod[p].phase = "gone" /\ p \in Managed /\ n \notin cordoned
    /\ pod' = [pod EXCEPT ![p] = [at |-> n, phase |-> "running"]]
    /\ UNCHANGED <<view, op, shown, cordoned, pre, wk>>

-----------------------------------------------------------------------------
DrainStep(w) ==
    \/ Cordon(w) \/ ListPods(w) \/ \E p \in Pods : Evict(w, p)
    \/ PublishEviction(w) \/ EndPass(w) \/ FinalRead(w) \/ Report(w)

PreflightStep(t) == Collect(t) \/ PublishFindings(t)

OperatorStep ==
    \/ \E n \in Nodes, t \in Preflights : OpenNodeDrain(n, t)
    \/ OpenPrompt \/ Arm \/ Type \/ Cancel
    \/ \E w \in Workers : SpawnDrain(w)
    \/ \E n \in Nodes, u \in BOOLEAN : NodeCordon(n, u)

ClusterStep ==
    \E p \in Pods : Terminated(p) \/ Completed(p) \/ \E n \in Nodes : Recreated(p, n)

Next ==
    \/ OperatorStep \/ PollNodeOp \/ FetchNodes \/ ClusterStep
    \/ \E t \in Preflights : PreflightStep(t)
    \/ \E w \in Workers : DrainStep(w)

Spec == Init /\ [][Next]_vars

(* The runtime polls a spawned drain and every call comes back: a drain    *)
(* that can move does.  Nothing obliges the operator or the cluster, and   *)
(* no drain waits for a preflight.                                         *)
Fairness == \A w \in Workers : WF_vars(DrainStep(w))

FairSpec == Spec /\ Fairness

(* Which slot a task runs in makes no difference.                          *)
Slots == Permutations(Preflights) \cup Permutations(Workers)

-----------------------------------------------------------------------------
(* Properties *)

Keys == Nodes \cup {NoNode}

ViewType == [open : BOOLEAN, node : Keys, armed : BOOLEAN,
             typed : {"none", "other", "name"}, refreshed : BOOLEAN]

OpType == [key : Keys, loading : BOOLEAN, error : BOOLEAN, danger : BOOLEAN,
           running : BOOLEAN, evicted : SUBSET Pods, waiting : SUBSET Pods,
           failed : SUBSET Pods, done : {"none", "ok", "err"}]

PodType == [at : Keys, phase : {"running", "finished", "terminating", "gone"}]

PreflightType == [pc : {"idle", "collect", "publish"}, node : Keys,
                  error : BOOLEAN, danger : BOOLEAN]

WorkerType ==
    [pc : {"idle", "cordon", "list", "evict", "publish", "settle", "final", "report"},
     node : Keys, todo : SUBSET Pods, still : SUBSET Pods, cur : SUBSET Pods,
     answer : {"none", "ok", "404", "429", "error"}, attempt : 0..EvictRetries,
     result : {"none", "ok", "err"}, listed : SUBSET Pods, settled : SUBSET Pods,
     kept : BOOLEAN, counted : BOOLEAN]

(* The state's shape; `attempt` never passes EVICT_RETRIES.                *)
TypeOK ==
    /\ view \in ViewType
    /\ op \in OpType
    /\ shown \subseteq Nodes
    /\ cordoned \subseteq Nodes
    /\ pod \in [Pods -> PodType]
    /\ pre \in [Preflights -> PreflightType]
    /\ wk \in [Workers -> WorkerType]

(* A panel that says a drain is running has a drain task behind it: no     *)
(* interleaving of reopened panels, late preflights and ending tasks leaves *)
(* `running` set with nobody left to clear it (`spawn_drain`, `run_drain`). *)
RunningHasWorker == op.running => WorkersOf(op.key) # {}

(* And a panel still checking has a preflight behind it (`preflight` drops *)
(* what it found when the key is another one, and only then).              *)
LoadingHasPreflight == op.loading => PreflightsOf(op.key) # {}

(* No pod slips through the passes: every pod a drain listed is in exactly *)
(* one of done with, being asked about, still to ask in this pass, held    *)
(* for the next one; whatever becomes of the panel meanwhile.              *)
EveryPodAccounted ==
    \A w \in Workers :
        wk[w].pc \in {"evict", "publish", "settle", "final"} =>
            /\ wk[w].listed = wk[w].settled \cup wk[w].cur \cup wk[w].todo \cup wk[w].still
            /\ wk[w].settled \cap (wk[w].cur \cup wk[w].todo \cup wk[w].still) = {}

(* The panel shows that account: until it is opened again, and unless an   *)
(* earlier drain of the node was still under way, the pods done with are   *)
(* those it counts as evicted or failed, never both, and the pods held     *)
(* back those it counts as waiting once a pass is over.                    *)
PanelShowsTheAccount ==
    \A w \in Workers :
        (wk[w].counted /\ wk[w].pc \in {"evict", "publish", "settle", "final"}) =>
            /\ op.key = wk[w].node
            /\ wk[w].settled = op.evicted \cup op.failed
            /\ op.evicted \cap op.failed = {}
            /\ wk[w].still \subseteq op.waiting
            /\ wk[w].pc = "final" => op.waiting \cap op.evicted = {}

(* A drain that reports success has emptied its node: whatever the budgets, *)
(* the errors and the pods recreated meanwhile, no pod the drain would move *)
(* is left, provided nobody lifted the cordon and the counts the outcome   *)
(* was read from are its own (the panel not opened again since, no earlier *)
(* drain of the node under way then).                                      *)
SuccessMeansEmptied ==
    \A w \in Workers :
        (/\ wk[w].pc = "report" /\ wk[w].result = "ok"
         /\ wk[w].kept /\ wk[w].counted) => ToEvict(wk[w].node) = {}

(* Cordon first, so that nothing is scheduled back behind the eviction:    *)
(* once a drain has listed its node, the pods the node could still lose are *)
(* among the listed ones, until somebody lifts the cordon.                 *)
NothingComesBack ==
    \A w \in Workers :
        (wk[w].kept /\ wk[w].pc \in {"evict", "publish", "settle", "final"}) =>
            ToEvict(wk[w].node) \subseteq wk[w].listed

(* A drain under way ends, so the panel of its node stops saying it runs.  *)
DrainEnds == \A w \in Workers : (wk[w].pc # "idle") ~> (wk[w].pc = "idle")
PanelSettles == op.running ~> ~op.running

(* The drain keeps account of its pods, pass after pass, in a state that   *)
(* has its shape.                                                          *)
DrainKeepsAccount == TypeOK /\ EveryPodAccounted /\ PanelShowsTheAccount

(* A panel that says something is under way has the task that does it.     *)
FlagsHaveTasks == RunningHasWorker /\ LoadingHasPreflight

(* Every drain ends, and so does the saying so. *)
DrainsAreOver == DrainEnds /\ PanelSettles

(* The panel's comment: confirming is "a no-op ... once it is under way".  *)
(* It does not hold (README, "What the code does otherwise").              *)
OneDrainPerNode == \A n \in Nodes : Cardinality(WorkersOf(n)) <= 1
=============================================================================
