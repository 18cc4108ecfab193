-------------------------- MODULE NodeDrain_proofs --------------------------
(***************************************************************************)
(* What holds of the drain panel for any number of nodes, pods, tasks and  *)
(* passes, whatever the operator and the cluster do.                       *)
(***************************************************************************)
EXTENDS NodeDrain, TLAPS

(* What a listing finds to move is made of pods of the cluster.            *)
LEMMA ToEvictPods == ASSUME NEW n PROVE ToEvict(n) \subseteq Pods
  BY DEF ToEvict, Evictable, OnNode, PodObjects

(* An accepted eviction leaves a pod table behind.                         *)
LEMMA EvictEffectType ==
  ASSUME pod \in [Pods -> PodType], NEW p \in Pods
  PROVE  /\ EvictEffect(p) \in [Pods -> PodType]
         /\ EvictAnswer(p) \in {"ok", "404", "429"}
  BY DEF EvictEffect, EvictAnswer, PodType

LEMMA PublishType ==
  ASSUME op \in OpType, NEW key, NEW new \in OpType, Publish(key, new)
  PROVE  op' \in OpType
  BY DEF Publish

(* A drain task that moves to a well-typed state leaves a table of tasks.  *)
LEMMA GoesType ==
  ASSUME wk \in [Workers -> WorkerType], NEW w \in Workers, NEW r \in WorkerType, Goes(w, r)
  PROVE  wk' \in [Workers -> WorkerType]
  BY DEF Goes

(* Goes changes one task, into what it says.                               *)
LEMMA GoesFrame ==
  ASSUME wk \in [Workers -> WorkerType], NEW w \in Workers, NEW r, Goes(w, r)
  PROVE  wk'[w] = r /\ \A v \in Workers : v # w => wk'[v] = wk[v]
  BY DEF Goes

LEMMA IdleWorkerType == IdleWorker \in WorkerType
  BY ConstantsAssumption DEF IdleWorker, WorkerType, Keys

(* A drain as it starts on node `n`.                                       *)
NewDrain(n, c) == [IdleWorker EXCEPT !.pc = "cordon", !.node = n, !.counted = c]

LEMMA NewDrainType ==
  ASSUME NEW n \in Keys, NEW c \in BOOLEAN PROVE NewDrain(n, c) \in WorkerType
  BY IdleWorkerType DEF NewDrain, WorkerType

LEMMA SpawnIs ==
  ASSUME NEW w \in Workers, SpawnDrain(w)
  PROVE  \E c \in BOOLEAN : /\ c <=> WorkersOf(view.node) = {}
                            /\ Goes(w, NewDrain(view.node, c))
<1>1. PICK c \in BOOLEAN : c = (WorkersOf(view.node) = {})
  OBVIOUS
<1>2. Goes(w, NewDrain(view.node, c))
  BY <1>1 DEF SpawnDrain, NewDrain
<1> QED BY <1>1, <1>2

(* A drain that is over keeps its node and what it knew of the two shares. *)
LEMMA OutcomeIs ==
  ASSUME NEW w \in Workers, wk[w] \in WorkerType, NEW r \in {"ok", "err"}
  PROVE  /\ Outcome(w, r) \in WorkerType
         /\ Outcome(w, r).pc = "report" /\ Outcome(w, r).node = wk[w].node
         /\ Outcome(w, r).result = r
         /\ Outcome(w, r).kept = wk[w].kept /\ Outcome(w, r).counted = wk[w].counted
         /\ Outcome(w, r).cur = {} /\ Outcome(w, r).todo = {} /\ Outcome(w, r).still = {}
<1>1. PICK n \in Keys : n = wk[w].node
  BY DEF WorkerType
<1>2. PICK k \in BOOLEAN : k = wk[w].kept
  BY DEF WorkerType
<1>3. PICK c \in BOOLEAN : c = wk[w].counted
  BY DEF WorkerType
<1>4. Outcome(w, r) = [IdleWorker EXCEPT !.pc = "report", !.node = n, !.result = r,
                                         !.kept = k, !.counted = c]
  BY <1>1, <1>2, <1>3, Zenon DEF Outcome
<1>5. Outcome(w, r) \in WorkerType
  BY <1>4, IdleWorkerType DEF WorkerType
<1>6. Outcome(w, r).pc = "report" /\ Outcome(w, r).node = n /\ Outcome(w, r).result = r
  BY <1>4 DEF IdleWorker
<1>7. Outcome(w, r).kept = k
  BY <1>4 DEF IdleWorker
<1>8. Outcome(w, r).counted = c
  BY <1>4 DEF IdleWorker
<1>9. Outcome(w, r).cur = {} /\ Outcome(w, r).todo = {} /\ Outcome(w, r).still = {}
  BY <1>4 DEF IdleWorker
<1> QED BY <1>1, <1>2, <1>3, <1>5, <1>6, <1>7, <1>8, <1>9

(* A task left as it was, but for what it may say of the cordon or of the  *)
(* counts: neither can be regained.                                        *)
Fades(w) ==
  \/ wk'[w] = wk[w]
  \/ wk'[w] = [wk[w] EXCEPT !.kept = FALSE]
  \/ wk'[w] = [wk[w] EXCEPT !.counted = FALSE]

LEMMA FadesFrame ==
  ASSUME NEW w \in Workers, wk[w] \in WorkerType, Fades(w)
  PROVE  /\ wk'[w].pc = wk[w].pc /\ wk'[w].node = wk[w].node /\ wk'[w].cur = wk[w].cur
         /\ wk'[w].todo = wk[w].todo /\ wk'[w].still = wk[w].still
         /\ wk'[w].listed = wk[w].listed /\ wk'[w].settled = wk[w].settled
         /\ wk'[w].answer = wk[w].answer /\ wk'[w].result = wk[w].result
         /\ wk'[w].kept => wk[w].kept
         /\ wk'[w].counted => wk[w].counted
<1>1. CASE wk'[w] = wk[w]
  BY <1>1
<1>2. CASE wk'[w] = [wk[w] EXCEPT !.kept = FALSE]
  BY <1>2 DEF WorkerType
<1>3. CASE wk'[w] = [wk[w] EXCEPT !.counted = FALSE]
  BY <1>3 DEF WorkerType
<1> QED BY <1>1, <1>2, <1>3 DEF Fades

LEMMA UncountedFades ==
  ASSUME wk' = Uncounted, NEW w \in Workers PROVE Fades(w)
  BY DEF Uncounted, Fades

LEMMA UncordonedFades ==
  ASSUME NEW n, wk' = Uncordoned(n), NEW w \in Workers
  PROVE  Fades(w) /\ (wk[w].node # n => wk'[w] = wk[w])
  BY DEF Uncordoned, Fades

-----------------------------------------------------------------------------
(* Type correctness *)

(* An open panel and a live drain are about a node of the cluster.         *)
LiveNodes ==
  /\ view.open => view.node \in Nodes
  /\ \A w \in Workers : wk[w].pc # "idle" => wk[w].node \in Nodes

LEMMA TypeInit == Init => TypeOK
  BY ConstantsAssumption
  DEF Init, TypeOK, ViewType, OpType, PodType, PreflightType, WorkerType, Keys,
      ClosedView, NodeOp, IdlePreflight, IdleWorker

LEMMA TypeOperator == TypeOK /\ OperatorStep => TypeOK'
<1> SUFFICES ASSUME TypeOK, OperatorStep PROVE TypeOK'
  OBVIOUS
<1>1. ASSUME NEW n \in Nodes, NEW t \in Preflights, OpenNodeDrain(n, t) PROVE TypeOK'
  <2>1. ASSUME NEW w \in Workers PROVE [wk[w] EXCEPT !.counted = FALSE] \in WorkerType
    <3>1. wk[w] \in WorkerType
      BY DEF TypeOK
    <3> QED BY <3>1 DEF WorkerType
  <2>2. wk' \in [Workers -> WorkerType]
    BY <1>1, <2>1 DEF OpenNodeDrain, Uncounted
  <2> QED BY <1>1, <2>2
          DEF OpenNodeDrain, TypeOK, ViewType, OpType, PreflightType, Keys, NodeOp, IdlePreflight
<1>2. CASE OpenPrompt
  BY <1>2 DEF OpenPrompt, TypeOK, ViewType
<1>3. CASE Arm
  BY <1>3 DEF Arm, TypeOK, ViewType
<1>4. CASE Type
  BY <1>4 DEF Type, TypeOK, ViewType
<1>5. CASE Cancel
  BY <1>5 DEF Cancel, TypeOK, ViewType, ClosedView, Keys
<1>6. ASSUME NEW w \in Workers, SpawnDrain(w) PROVE TypeOK'
  <2>1. op' \in OpType
    BY <1>6 DEF SpawnDrain, TypeOK, OpType
  <2>2. PICK c \in BOOLEAN : Goes(w, NewDrain(view.node, c))
    BY <1>6, SpawnIs
  <2>3. wk' \in [Workers -> WorkerType]
    BY <2>2, GoesType, NewDrainType DEF TypeOK, ViewType
  <2> QED BY <1>6, <2>1, <2>3 DEF SpawnDrain, TypeOK
<1>7. ASSUME NEW n \in Nodes, NEW u \in BOOLEAN, NodeCordon(n, u) PROVE TypeOK'
  <2>1. ASSUME NEW w \in Workers PROVE [wk[w] EXCEPT !.kept = FALSE] \in WorkerType
    <3>1. wk[w] \in WorkerType
      BY DEF TypeOK
    <3> QED BY <3>1 DEF WorkerType
  <2>2. wk' \in [Workers -> WorkerType]
    BY <1>7, <2>1 DEF NodeCordon, TypeOK, Uncordoned
  <2>3. cordoned' \subseteq Nodes /\ shown' \subseteq Nodes
    BY <1>7 DEF NodeCordon, TypeOK
  <2> QED BY <1>7, <2>2, <2>3 DEF NodeCordon, TypeOK
<1> QED BY <1>1, <1>2, <1>3, <1>4, <1>5, <1>6, <1>7 DEF OperatorStep

LEMMA TypePreflight ==
  ASSUME TypeOK, NEW t \in Preflights, PreflightStep(t) PROVE TypeOK'
<1>1. CASE Collect(t)
  <2>1. NeedsStrictConfirm(Findings(pre[t].node)) \in BOOLEAN
    BY DEF NeedsStrictConfirm
  <2>2. \A e, d \in BOOLEAN :
          [pre[t] EXCEPT !.pc = "publish", !.error = e, !.danger = d] \in PreflightType
    BY DEF TypeOK, PreflightType
  <2>3. PICK e \in BOOLEAN, d \in BOOLEAN :
          pre' = [pre EXCEPT ![t] = [pre[t] EXCEPT !.pc = "publish", !.error = e, !.danger = d]]
    BY <1>1, <2>1 DEF Collect
  <2>4. pre' \in [Preflights -> PreflightType]
    BY <2>2, <2>3 DEF TypeOK
  <2> QED BY <1>1, <2>4 DEF Collect, TypeOK
<1>2. CASE PublishFindings(t)
  <2>1. [op EXCEPT !.loading = FALSE, !.error = pre[t].error, !.danger = pre[t].danger] \in OpType
    BY DEF TypeOK, OpType, PreflightType
  <2>2. op' \in OpType
    BY <1>2, <2>1, PublishType DEF PublishFindings, TypeOK
  <2>3. pre' \in [Preflights -> PreflightType]
    BY <1>2 DEF PublishFindings, TypeOK, PreflightType, IdlePreflight, Keys
  <2> QED BY <1>2, <2>2, <2>3 DEF PublishFindings, TypeOK
<1> QED BY <1>1, <1>2 DEF PreflightStep

LEMMA TypeDrain ==
  ASSUME TypeOK, LiveNodes, NEW w \in Workers, DrainStep(w) PROVE TypeOK'
<1> DEFINE W == wk[w]
<1>0. wk \in [Workers -> WorkerType] /\ W \in WorkerType
  BY DEF TypeOK
<1>1. CASE Cordon(w)
  <2>1. /\ [W EXCEPT !.pc = "list", !.kept = TRUE] \in WorkerType
        /\ Outcome(w, "err") \in WorkerType
    BY <1>0, OutcomeIs DEF WorkerType
  <2>2. wk' \in [Workers -> WorkerType]
    BY <1>0, <1>1, <2>1, GoesType DEF Cordon
  <2>3. cordoned' \subseteq Nodes
    BY <1>1 DEF Cordon, TypeOK, LiveNodes
  <2> QED BY <1>1, <2>2, <2>3 DEF Cordon, TypeOK
<1>2. CASE ListPods(w)
  <2>1. /\ \A ps \in SUBSET Pods : \A pc \in {"final", "evict"} :
             [W EXCEPT !.pc = pc, !.todo = ps, !.listed = ps] \in WorkerType
        /\ Outcome(w, "err") \in WorkerType
    BY <1>0, OutcomeIs DEF WorkerType
  <2>2. wk' \in [Workers -> WorkerType]
    BY <1>0, <1>2, <2>1, GoesType, ToEvictPods DEF ListPods
  <2> QED BY <1>2, <2>2 DEF ListPods, TypeOK
<1>3. ASSUME NEW p \in Pods, Evict(w, p) PROVE TypeOK'
  <2>1. pod' \in [Pods -> PodType]
    BY <1>3, EvictEffectType DEF Evict, TypeOK
  <2>2. \A a \in {"ok", "404", "429", "error"} :
          [W EXCEPT !.pc = "publish", !.cur = {p}, !.todo = @ \ {p}, !.answer = a] \in WorkerType
    BY <1>0 DEF WorkerType
  <2>3. wk' \in [Workers -> WorkerType]
    BY <1>0, <1>3, <2>2, GoesType, EvictEffectType DEF Evict, TypeOK
  <2> QED BY <1>3, <2>1, <2>3 DEF Evict, TypeOK
<1>4. CASE PublishEviction(w)
  <2>1. \A pc \in {"settle", "evict"}, still, settled \in SUBSET Pods :
          [W EXCEPT !.pc = pc, !.still = still, !.settled = settled, !.cur = {}, !.answer = "none"]
            \in WorkerType
    BY <1>0 DEF WorkerType
  <2>2. /\ W.still \in SUBSET Pods /\ W.still \cup W.cur \in SUBSET Pods
        /\ W.settled \in SUBSET Pods /\ W.settled \cup W.cur \in SUBSET Pods
    BY <1>0 DEF WorkerType
  <2>3. wk' \in [Workers -> WorkerType]
    BY <1>0, <1>4, <2>1, <2>2, GoesType DEF PublishEviction
  <2>4. op' \in OpType
    BY <1>0, <1>4 DEF PublishEviction, Publish, WorkerType, OpType, TypeOK
  <2> QED BY <1>4, <2>3, <2>4 DEF PublishEviction, TypeOK
<1>5. CASE EndPass(w)
  <2>1. \A pc \in {"final", "evict"}, a \in 0..EvictRetries :
          [W EXCEPT !.todo = W.still, !.still = {}, !.attempt = a, !.pc = pc] \in WorkerType
    BY <1>0 DEF WorkerType
  <2>2. (IF W.attempt < EvictRetries THEN W.attempt + 1 ELSE W.attempt) \in 0..EvictRetries
    BY <1>0, ConstantsAssumption DEF WorkerType
  <2>3. wk' \in [Workers -> WorkerType]
    BY <1>0, <1>5, <2>1, <2>2, GoesType DEF EndPass
  <2>4. op' \in OpType
    BY <1>0, <1>5 DEF EndPass, Publish, WorkerType, OpType, TypeOK
  <2> QED BY <1>5, <2>3, <2>4 DEF EndPass, TypeOK
<1>6. CASE FinalRead(w)
  <2>1. \A r \in {"ok", "err"} : Outcome(w, r) \in WorkerType
    BY <1>0, OutcomeIs
  <2>2. wk' \in [Workers -> WorkerType]
    BY <1>0, <1>6, <2>1, GoesType DEF FinalRead
  <2> QED BY <1>6, <2>2 DEF FinalRead, TypeOK
<1>7. CASE Report(w)
  <2>1. wk' \in [Workers -> WorkerType]
    BY <1>0, <1>7, GoesType, IdleWorkerType DEF Report
  <2>2. op' \in OpType
    BY <1>0, <1>7 DEF Report, Publish, WorkerType, OpType, TypeOK
  <2> QED BY <1>7, <2>1, <2>2 DEF Report, TypeOK
<1> QED BY <1>1, <1>2, <1>3, <1>4, <1>5, <1>6, <1>7 DEF DrainStep

-----------------------------------------------------------------------------
(* What a step leaves alone *)

(* A drain step moves one live task, keeps its node until the task is over *)
(* and lifts no cordon.                                                    *)
LEMMA DrainFrame ==
  ASSUME TypeOK, NEW w \in Workers, DrainStep(w)
  PROVE  /\ view' = view
         /\ wk[w].pc # "idle"
         /\ \A v \in Workers : v # w => wk'[v] = wk[v]
         /\ \/ Report(w) /\ wk'[w] = IdleWorker
            \/ ~Report(w) /\ wk'[w].node = wk[w].node /\ wk'[w].pc # "idle"
         /\ cordoned \subseteq cordoned'
<1> DEFINE W == wk[w]
           Moves == /\ view' = view /\ W.pc # "idle"
                    /\ \A v \in Workers : v # w => wk'[v] = wk[v]
                    /\ wk'[w].node = W.node /\ wk'[w].pc # "idle"
                    /\ cordoned \subseteq cordoned'
<1>0. wk \in [Workers -> WorkerType] /\ W \in WorkerType
  BY DEF TypeOK
<1>1. ASSUME Cordon(w) PROVE Moves
  <2>1. /\ [W EXCEPT !.pc = "list", !.kept = TRUE].node = W.node
        /\ [W EXCEPT !.pc = "list", !.kept = TRUE].pc # "idle"
        /\ Outcome(w, "err").node = W.node
        /\ Outcome(w, "err").pc # "idle"
    BY <1>0, OutcomeIs DEF WorkerType
  <2>2. view' = view /\ W.pc # "idle" /\ cordoned \subseteq cordoned'
    BY <1>1 DEF Cordon
  <2> QED BY <1>0, <1>1, <2>1, <2>2, GoesFrame DEF Cordon
<1>2. ASSUME ListPods(w) PROVE Moves
  <2>1. /\ Outcome(w, "err").node = W.node
        /\ Outcome(w, "err").pc # "idle"
        /\ \A ps : \A pc \in {"final", "evict"} :
             /\ [W EXCEPT !.pc = pc, !.todo = ps, !.listed = ps].node = W.node
             /\ [W EXCEPT !.pc = pc, !.todo = ps, !.listed = ps].pc # "idle"
    BY <1>0, OutcomeIs DEF WorkerType
  <2>2. view' = view /\ W.pc # "idle" /\ cordoned' = cordoned
    BY <1>2 DEF ListPods
  <2>3. PICK r : Goes(w, r) /\ r.node = W.node /\ r.pc # "idle"
    BY <1>2, <2>1 DEF ListPods
  <2> QED BY <1>0, <2>2, <2>3, GoesFrame
<1>3. ASSUME NEW p \in Pods, Evict(w, p) PROVE Moves
  <2>1. \A a : LET r == [W EXCEPT !.pc = "publish", !.cur = {p}, !.todo = @ \ {p}, !.answer = a]
               IN  r.node = W.node /\ r.pc # "idle"
    BY <1>0 DEF WorkerType
  <2>2. PICK r : Goes(w, r) /\ r.node = W.node /\ r.pc # "idle"
    BY <1>3, <2>1 DEF Evict
  <2>3. view' = view /\ cordoned' = cordoned /\ W.pc # "idle"
    BY <1>3 DEF Evict
  <2> QED BY <1>0, <2>2, <2>3, GoesFrame
<1>4. ASSUME PublishEviction(w) PROVE Moves
  BY <1>0, <1>4 DEF PublishEviction, Goes, WorkerType
<1>5. ASSUME EndPass(w) PROVE Moves
  BY <1>0, <1>5 DEF EndPass, Goes, WorkerType
<1>6. ASSUME FinalRead(w) PROVE Moves
  BY <1>0, <1>6, OutcomeIs, GoesFrame DEF FinalRead
<1>7. CASE Report(w)
  BY <1>0, <1>7 DEF Report, Goes, WorkerType
<1>8. ASSUME ~Report(w) PROVE Moves
  BY <1>1, <1>2, <1>3, <1>4, <1>5, <1>6, <1>8 DEF DrainStep
<1> QED BY <1>7, <1>8

(* The operator moves tasks in three ways only: a panel opens, a drain     *)
(* starts, a node is uncordoned.                                           *)
LEMMA OperatorFrame ==
  ASSUME TypeOK, LiveNodes, OperatorStep
  PROVE  /\ view'.open => view'.node \in Nodes
         /\ pod' = pod
         /\ \/ /\ wk' = wk
               /\ cordoned \subseteq cordoned'
            \/ /\ cordoned' = cordoned
               /\ \E w \in Workers :
                    /\ \E c \in BOOLEAN : Goes(w, NewDrain(view.node, c))
                    /\ view.node \in Nodes
            \/ wk' = Uncounted /\ cordoned' = cordoned
            \/ \E n \in Nodes : wk' = Uncordoned(n) /\ cordoned' = cordoned \ {n}
<1>1. ASSUME NEW n \in Nodes, NEW t \in Preflights, OpenNodeDrain(n, t)
      PROVE  view'.node \in Nodes /\ pod' = pod /\ wk' = Uncounted /\ cordoned' = cordoned
  BY <1>1 DEF OpenNodeDrain
<1>2. ASSUME OpenPrompt \/ Arm \/ Type
      PROVE  /\ view'.open => view'.node \in Nodes
             /\ pod' = pod /\ wk' = wk /\ cordoned' = cordoned
  <2>1. CASE OpenPrompt
    BY <2>1 DEF OpenPrompt, TypeOK, ViewType, LiveNodes
  <2>2. CASE Arm
    BY <2>2 DEF Arm, TypeOK, ViewType, LiveNodes
  <2>3. CASE Type
    BY <2>3 DEF Type, TypeOK, ViewType, LiveNodes
  <2> QED BY <1>2, <2>1, <2>2, <2>3
<1>3. ASSUME Cancel PROVE ~view'.open /\ pod' = pod /\ wk' = wk /\ cordoned' = cordoned
  BY <1>3 DEF Cancel, ClosedView
<1>4. ASSUME NEW w \in Workers, SpawnDrain(w)
      PROVE  /\ view' = view /\ pod' = pod /\ cordoned' = cordoned /\ view.node \in Nodes
             /\ \E c \in BOOLEAN : Goes(w, NewDrain(view.node, c))
  BY <1>4, SpawnIs DEF SpawnDrain, Confirmable, LiveNodes
<1>5. ASSUME NEW n \in Nodes, NEW u \in BOOLEAN, NodeCordon(n, u)
      PROVE  /\ ~view'.open /\ pod' = pod
             /\ \/ wk' = wk /\ cordoned \subseteq cordoned'
                \/ wk' = Uncordoned(n) /\ cordoned' = cordoned \ {n}
  <2>1. ~view'.open /\ pod' = pod
    BY <1>5 DEF NodeCordon
  <2>2. PICK landed \in BOOLEAN :
          LET after == IF ~landed THEN cordoned
                       ELSE IF u THEN cordoned \cup {n} ELSE cordoned \ {n}
          IN  /\ cordoned' = after
              /\ wk' = IF landed /\ ~u THEN Uncordoned(n) ELSE wk
    BY <1>5 DEF NodeCordon
  <2> QED BY <2>1, <2>2
<1> QED BY <1>1, <1>2, <1>3, <1>4, <1>5 DEF OperatorStep, LiveNodes

(* Every other step leaves the tasks, the panel's node and the cordons be. *)
LEMMA OtherFrame ==
  ASSUME TypeOK, LiveNodes,
         \/ PollNodeOp \/ FetchNodes \/ ClusterStep \/ UNCHANGED vars
         \/ \E t \in Preflights : PreflightStep(t)
  PROVE  /\ wk' = wk /\ cordoned' = cordoned
         /\ view'.open => view'.node \in Nodes
<1>1. CASE PollNodeOp
  BY <1>1 DEF PollNodeOp, TypeOK, ViewType, LiveNodes
<1> QED BY <1>1 DEF FetchNodes, ClusterStep, vars, PreflightStep, Collect, PublishFindings,
           Terminated, Completed, Recreated, LiveNodes

LEMMA LiveNodesStep == TypeOK /\ LiveNodes /\ [Next]_vars => LiveNodes'
<1> SUFFICES ASSUME TypeOK, LiveNodes, [Next]_vars PROVE LiveNodes'
  OBVIOUS
<1>1. CASE OperatorStep
  <2>1. ASSUME NEW w \in Workers, view.node \in Nodes, NEW c \in BOOLEAN,
               Goes(w, NewDrain(view.node, c))
        PROVE  \A v \in Workers : wk'[v].pc # "idle" => wk'[v].node \in Nodes
    <3>1. view.node \in Keys /\ wk'[w] = NewDrain(view.node, c)
          /\ \A v \in Workers : v # w => wk'[v] = wk[v]
      BY <2>1, GoesFrame DEF TypeOK, Keys
    <3>2. wk'[w].node = view.node
      BY <3>1 DEF NewDrain, IdleWorker
    <3> QED BY <2>1, <3>1, <3>2 DEF LiveNodes
  <2>2. ASSUME \A v \in Workers : Fades(v)
        PROVE  \A v \in Workers : wk'[v].pc # "idle" => wk'[v].node \in Nodes
    <3>1. \A v \in Workers : wk'[v].pc = wk[v].pc /\ wk'[v].node = wk[v].node
      BY <2>2, FadesFrame DEF TypeOK
    <3> QED BY <3>1 DEF LiveNodes
  <2> QED BY <1>1, <2>1, <2>2, OperatorFrame, UncountedFades, UncordonedFades DEF LiveNodes
<1>2. ASSUME NEW w \in Workers, DrainStep(w) PROVE LiveNodes'
  <2>1. IdleWorker.pc = "idle"
    BY DEF IdleWorker
  <2> QED BY <1>2, <2>1, DrainFrame DEF LiveNodes
<1>3. ASSUME ~OperatorStep, ~ \E w \in Workers : DrainStep(w) PROVE LiveNodes'
  BY <1>3, OtherFrame DEF Next, LiveNodes
<1> QED BY <1>1, <1>2, <1>3

(* The panel, its tasks and the cluster keep their shape.                  *)
THEOREM TypeCorrect == Spec => [](TypeOK /\ LiveNodes)
<1>1. Init => TypeOK /\ LiveNodes
  BY TypeInit DEF Init, LiveNodes, ClosedView, IdleWorker
<1>2. TypeOK /\ LiveNodes /\ [Next]_vars => TypeOK'
  <2> SUFFICES ASSUME TypeOK, LiveNodes, [Next]_vars PROVE TypeOK'
    OBVIOUS
  <2>1. CASE OperatorStep
    BY <2>1, TypeOperator
  <2>2. CASE PollNodeOp
    BY <2>2 DEF PollNodeOp, TypeOK, ViewType
  <2>3. CASE FetchNodes
    BY <2>3 DEF FetchNodes, TypeOK
  <2>4. CASE ClusterStep
    <3>1. ASSUME NEW p \in Pods, Terminated(p) PROVE TypeOK'
      BY <3>1 DEF Terminated, TypeOK, PodType, Keys
    <3>2. ASSUME NEW p \in Pods, Completed(p) PROVE TypeOK'
      BY <3>2 DEF Completed, TypeOK, PodType
    <3>3. ASSUME NEW p \in Pods, NEW n \in Nodes, Recreated(p, n) PROVE TypeOK'
      BY <3>3 DEF Recreated, TypeOK, PodType, Keys
    <3> QED BY <2>4, <3>1, <3>2, <3>3 DEF ClusterStep
  <2>5. ASSUME NEW t \in Preflights, PreflightStep(t) PROVE TypeOK'
    BY <2>5, TypePreflight
  <2>6. ASSUME NEW w \in Workers, DrainStep(w) PROVE TypeOK'
    BY <2>6, TypeDrain
  <2>7. CASE UNCHANGED vars
    BY <2>7 DEF vars, TypeOK
  <2> QED BY <2>1, <2>2, <2>3, <2>4, <2>5, <2>6, <2>7 DEF Next
<1> QED BY <1>1, <1>2, LiveNodesStep, PTL DEF Spec
-----------------------------------------------------------------------------
(* Nothing comes back behind the eviction *)

(* What a drain would move, in the terms of the pod table.                 *)
Movable(n) == {p \in Pods : pod[p].at = n /\ pod[p].phase \notin {"terminating", "finished"}}

(* None of these pods is a DaemonSet's.                                    *)
LEMMA OwnersKind == ASSUME NEW p \in Pods PROVE OwnerKind(PodObject(p)) # "DaemonSet"
<1> DEFINE own == PodObject(p).owners
           ctl == {i \in DOMAIN own : own[i].controller}
<1>1. CASE p \in Managed
  <2>1. own = <<[kind |-> "StatefulSet", controller |-> TRUE]>>
    BY <1>1 DEF PodObject
  <2>2. DOMAIN own = {1} /\ own[1].controller /\ own[1].kind = "StatefulSet"
    BY <2>1
  <2>3. ctl = {1}
    BY <2>2
  <2>4. Min(ctl) = 1
    BY <2>3 DEF Min
  <2>5. own # << >>
    BY <2>1
  <2> HIDE DEF own
  <2> QED BY <2>2, <2>3, <2>4, <2>5 DEF OwnerKind, own
<1>2. CASE p \notin Managed
  BY <1>2 DEF OwnerKind, PodObject, NoOwner
<1> QED BY <1>1, <1>2

LEMMA ToEvictMovable ==
  ASSUME pod \in [Pods -> PodType], NEW n \in Nodes
  PROVE  ToEvict(n) = Movable(n)
<1>1. ASSUME NEW p \in Pods
      PROVE  (SkipReason(PodObject(p)) = NoReason) <=> pod[p].phase \notin {"terminating", "finished"}
  <2>1. /\ PodObject(p).deleting = (pod[p].phase = "terminating")
        /\ PodObject(p).phase = (IF pod[p].phase = "finished" THEN "Succeeded" ELSE "Running")
        /\ PodObject(p).mirror = FALSE
    BY DEF PodObject
  <2> QED BY <2>1, OwnersKind DEF SkipReason, Finished, NoReason
<1>2. DOMAIN PodObjects = {p \in Pods : pod[p].at # NoNode}
  BY DEF PodObjects
<1>3. \A p \in DOMAIN PodObjects : PodObjects[p] = PodObject(p) /\ PodObject(p).node = pod[p].at
  BY DEF PodObjects, PodObject
<1>4. n # NoNode
  BY ConstantsAssumption
<1> QED BY <1>1, <1>2, <1>3, <1>4 DEF ToEvict, Evictable, OnNode, Movable

(* The cordon a drain relies on is there.                                  *)
KeptOK == \A w \in Workers : wk[w].kept => wk[w].node \in cordoned

(* The pods still to move, for the drains whose cordon was never lifted.   *)
NoReturn ==
  \A w \in Workers :
    (wk[w].kept /\ wk[w].pc \in {"evict", "publish", "settle", "final"}) =>
        Movable(wk[w].node) \subseteq wk[w].listed

DrainInv == TypeOK /\ LiveNodes /\ KeptOK /\ NoReturn

LEMMA EvictShrinks ==
  ASSUME pod \in [Pods -> PodType], NEW p \in Pods, NEW n \in Nodes,
         pod' = pod \/ pod' = EvictEffect(p)
  PROVE  Movable(n)' \subseteq Movable(n)
  BY DEF EvictEffect, Movable, PodType

(* Only a pod a controller recreates starts to be movable, and the         *)
(* scheduler never places it on a cordoned node.                           *)
LEMMA ClusterShrinks ==
  ASSUME TypeOK, ClusterStep, NEW n \in Nodes, n \in cordoned
  PROVE  Movable(n)' \subseteq Movable(n)
<1>1. ASSUME NEW p \in Pods, Terminated(p) PROVE Movable(n)' \subseteq Movable(n)
  BY <1>1, ConstantsAssumption DEF Terminated, Movable, TypeOK, PodType
<1>2. ASSUME NEW p \in Pods, Completed(p) PROVE Movable(n)' \subseteq Movable(n)
  BY <1>2 DEF Completed, Movable, TypeOK, PodType
<1>3. ASSUME NEW p \in Pods, NEW m \in Nodes, Recreated(p, m)
      PROVE  Movable(n)' \subseteq Movable(n)
  BY <1>3 DEF Recreated, Movable, TypeOK, PodType
<1> QED BY <1>1, <1>2, <1>3 DEF ClusterStep

(* What a drain step does to its own task.                                 *)
LEMMA DrainOwn ==
  ASSUME DrainInv, NEW w \in Workers, DrainStep(w)
  PROVE  /\ wk'[w].kept => wk'[w].node \in cordoned'
         /\ (wk'[w].kept /\ wk'[w].pc \in {"evict", "publish", "settle", "final"}) =>
                Movable(wk[w].node)' \subseteq wk'[w].listed
<1> DEFINE W == wk[w]
           Own == /\ wk'[w].kept => wk'[w].node \in cordoned'
                  /\ (wk'[w].kept /\ wk'[w].pc \in {"evict", "publish", "settle", "final"}) =>
                         Movable(wk[w].node)' \subseteq wk'[w].listed
<1>0. /\ wk \in [Workers -> WorkerType] /\ W \in WorkerType
      /\ pod \in [Pods -> PodType]
      /\ W.kept => W.node \in cordoned
      /\ (W.kept /\ W.pc \in {"evict", "publish", "settle", "final"}) => Movable(W.node) \subseteq W.listed
  BY DEF DrainInv, TypeOK, KeptOK, NoReturn
<1>a. PICK n \in Nodes : n = W.node
  BY DrainFrame DEF DrainInv, LiveNodes
(* A task that keeps its cordon and its list keeps what it knows.          *)
<1>b. ASSUME wk'[w].node = W.node, wk'[w].kept = W.kept, wk'[w].listed = W.listed,
             cordoned' = cordoned, W.pc \in {"evict", "publish", "settle", "final"},
             Movable(n)' \subseteq Movable(n)
      PROVE  Own
  BY <1>0, <1>a, <1>b DEF Movable
<1>1. CASE Cordon(w)
  <2>1. ASSUME cordoned' = cordoned \cup {W.node},
               Goes(w, [W EXCEPT !.pc = "list", !.kept = TRUE])
        PROVE  Own
    BY <1>0, <2>1 DEF Goes, WorkerType
  <2>2. ASSUME cordoned' \in {cordoned, cordoned \cup {W.node}},
               Goes(w, Outcome(w, "err"))
        PROVE  Own
    BY <1>0, <2>2, GoesFrame, OutcomeIs
  <2> QED BY <1>1, <2>1, <2>2 DEF Cordon
<1>2. CASE ListPods(w)
  <2>1. pod' = pod /\ cordoned' = cordoned
    BY <1>2 DEF ListPods
  <2>2. Movable(n)' = Movable(n)
    BY <2>1 DEF Movable
  <2>3. CASE Goes(w, Outcome(w, "err"))
    BY <1>0, <2>1, <2>3, GoesFrame, OutcomeIs
  <2>4. ASSUME NEW pc, NEW found, found = ToEvict(W.node),
               Goes(w, [W EXCEPT !.pc = pc, !.todo = found, !.listed = found])
        PROVE  Own
    <3>1. wk'[w].node = W.node /\ wk'[w].kept = W.kept /\ wk'[w].listed = found
      BY <1>0, <2>4 DEF Goes, WorkerType
    <3>2. found = Movable(n)
      BY <1>0, <1>a, <2>4, ToEvictMovable
    <3>3. Movable(wk[w].node)' = Movable(n)'
      BY <1>a, <3>1 DEF Movable
    <3> QED BY <1>0, <2>1, <2>2, <3>1, <3>2, <3>3
  <2> QED BY <1>2, <2>3, <2>4 DEF ListPods
<1>3. ASSUME NEW p \in Pods, Evict(w, p) PROVE Own
  <2>1. \A a : LET r == [W EXCEPT !.pc = "publish", !.cur = {p}, !.todo = @ \ {p}, !.answer = a]
               IN  r.node = W.node /\ r.kept = W.kept /\ r.listed = W.listed
    BY <1>0 DEF WorkerType
  <2>2. wk'[w].node = W.node /\ wk'[w].kept = W.kept /\ wk'[w].listed = W.listed
    <3>1. ASSUME NEW a, Goes(w, [W EXCEPT !.pc = "publish", !.cur = {p}, !.todo = @ \ {p}, !.answer = a])
          PROVE  wk'[w].node = W.node /\ wk'[w].kept = W.kept /\ wk'[w].listed = W.listed
      BY <1>0, <2>1, <3>1 DEF Goes
    <3> QED BY <1>3, <3>1 DEF Evict
  <2>3. /\ cordoned' = cordoned /\ W.pc = "evict"
        /\ pod' = pod \/ pod' = EvictEffect(p)
    BY <1>3 DEF Evict
  <2>4. Movable(n)' \subseteq Movable(n)
    BY <1>0, <1>a, <2>3, EvictShrinks
  <2> QED BY <1>b, <2>2, <2>3, <2>4
<1>4. ASSUME PublishEviction(w) \/ EndPass(w) PROVE Own
  <2>1. /\ cordoned' = cordoned /\ pod' = pod
        /\ W.pc \in {"publish", "settle"}
    BY <1>4 DEF PublishEviction, EndPass
  <2>2. Movable(n)' \subseteq Movable(n)
    BY <2>1 DEF Movable
  <2>3. wk'[w].node = W.node /\ wk'[w].kept = W.kept /\ wk'[w].listed = W.listed
    <3>1. CASE PublishEviction(w)
      BY <1>0, <3>1 DEF PublishEviction, Goes, WorkerType
    <3>2. CASE EndPass(w)
      BY <1>0, <3>2 DEF EndPass, Goes, WorkerType
    <3> QED BY <1>4, <3>1, <3>2
  <2> QED BY <1>b, <2>1, <2>2, <2>3
<1>5. CASE FinalRead(w)
  BY <1>0, <1>5, GoesFrame, OutcomeIs DEF FinalRead
<1>6. CASE Report(w)
  BY <1>0, <1>6, GoesFrame DEF Report, IdleWorker
<1> QED BY <1>1, <1>2, <1>3, <1>4, <1>5, <1>6 DEF DrainStep

LEMMA DrainShrinks ==
  ASSUME TypeOK, NEW w \in Workers, DrainStep(w), NEW n \in Nodes
  PROVE  Movable(n)' \subseteq Movable(n)
<1>1. ASSUME NEW p \in Pods, Evict(w, p) PROVE Movable(n)' \subseteq Movable(n)
  BY <1>1, EvictShrinks DEF Evict, TypeOK
<1>2. ASSUME pod' = pod PROVE Movable(n)' \subseteq Movable(n)
  BY <1>2 DEF Movable
<1> QED BY <1>1, <1>2 DEF DrainStep, Cordon, ListPods, PublishEviction, EndPass, FinalRead, Report

(* The two facts about the kept cordons survive every step.                *)
LEMMA KeptStep ==
  ASSUME DrainInv, [Next]_vars
  PROVE  KeptOK' /\ NoReturn'
<1> USE DEF DrainInv
<1> DEFINE Fine(v) == /\ wk[v].kept => wk[v].node \in cordoned
                      /\ (wk[v].kept /\ wk[v].pc \in {"evict", "publish", "settle", "final"}) =>
                             Movable(wk[v].node) \subseteq wk[v].listed
<1>0. \A v \in Workers : Fine(v)
  BY DEF KeptOK, NoReturn
<1>k. wk \in [Workers -> WorkerType] /\ cordoned \subseteq Nodes
  BY DEF TypeOK
(* A task left as it was stays fine when its node keeps its cordon and     *)
(* gains no pod.                                                           *)
<1>a. ASSUME NEW v \in Workers, Fades(v),
             wk[v].kept => wk[v].node \in cordoned',
             \A n \in Nodes : n \in cordoned => Movable(n)' \subseteq Movable(n)
      PROVE  Fine(v)'
  <2>0. /\ wk'[v].pc = wk[v].pc /\ wk'[v].node = wk[v].node /\ wk'[v].listed = wk[v].listed
        /\ wk'[v].kept => wk[v].kept
    BY <1>k, <1>a, FadesFrame
  <2>1. CASE ~wk[v].kept
    BY <2>0, <2>1
  <2>2. ASSUME wk[v].kept PROVE Fine(v)'
    <3>1. PICK n \in Nodes : n = wk[v].node /\ n \in cordoned
      BY <1>0, <1>k, <2>2
    <3>2. Movable(n)' \subseteq Movable(n)
      BY <1>a, <3>1
    <3>3. Movable(wk[v].node)' = Movable(n)' /\ Movable(wk[v].node) = Movable(n)
      BY <2>0, <3>1 DEF Movable
    <3> QED BY <1>0, <1>a, <2>0, <3>1, <3>2, <3>3
  <2> QED BY <2>1, <2>2
<1>b. (\A v \in Workers : Fine(v)') => KeptOK' /\ NoReturn'
  BY DEF KeptOK, NoReturn
<1>c. ASSUME NEW v \in Workers, wk'[v] = wk[v] PROVE Fades(v)
  BY <1>c DEF Fades
<1>1. CASE OperatorStep
  <2>0. pod' = pod
    BY <1>1, OperatorFrame
  <2>1. \A n \in Nodes : n \in cordoned => Movable(n)' \subseteq Movable(n)
    BY <2>0 DEF Movable
  <2>2. ASSUME wk' = wk, cordoned \subseteq cordoned', NEW v \in Workers PROVE Fine(v)'
    BY <1>0, <1>a, <1>c, <2>1, <2>2
  <2>3. ASSUME NEW w \in Workers, cordoned' = cordoned, NEW v \in Workers, NEW c \in BOOLEAN,
               view.node \in Nodes, Goes(w, NewDrain(view.node, c))
        PROVE  Fine(v)'
    <3>1. CASE v = w
      <4>0. view.node \in Keys /\ wk'[v] = NewDrain(view.node, c)
        BY <1>k, <2>3, <3>1, GoesFrame DEF Keys
      <4>1. wk'[v].kept = FALSE
        BY <4>0 DEF NewDrain, IdleWorker
      <4> QED BY <4>1
    <3>2. CASE v # w
      <4>1. wk'[v] = wk[v]
        BY <1>k, <2>3, <3>2, GoesFrame
      <4> QED BY <1>0, <1>a, <1>c, <2>1, <2>3, <4>1
    <3> QED BY <3>1, <3>2
  <2>4. ASSUME wk' = Uncounted, cordoned' = cordoned, NEW v \in Workers PROVE Fine(v)'
    BY <1>0, <1>a, <2>1, <2>4, UncountedFades
  <2>5. ASSUME NEW n \in Nodes, wk' = Uncordoned(n), cordoned' = cordoned \ {n}, NEW v \in Workers
        PROVE  Fine(v)'
    <3>1. CASE wk[v].node = n
      <4>1. wk'[v].kept = FALSE
        BY <1>k, <2>5, <3>1 DEF Uncordoned, WorkerType
      <4> QED BY <4>1
    <3>2. CASE wk[v].node # n
      <4>1. wk'[v] = wk[v]
        BY <2>5, <3>2, UncordonedFades
      <4> QED BY <1>0, <1>a, <1>c, <2>1, <2>5, <3>2, <4>1
    <3> QED BY <3>1, <3>2
  <2>6. ASSUME NEW v \in Workers PROVE Fine(v)'
    BY <1>1, <2>2, <2>3, <2>4, <2>5, OperatorFrame
  <2> QED BY <1>b, <2>6
<1>2. ASSUME NEW w \in Workers, DrainStep(w) PROVE KeptOK' /\ NoReturn'
  <2>1. Fine(w)'
    BY <1>2, DrainOwn
  <2>2. ASSUME NEW v \in Workers, v # w PROVE Fine(v)'
    <3>1. wk'[v] = wk[v] /\ cordoned \subseteq cordoned'
      BY <1>2, <2>2, DrainFrame
    <3>2. \A n \in Nodes : n \in cordoned => Movable(n)' \subseteq Movable(n)
      BY <1>2, DrainShrinks
    <3> QED BY <1>0, <1>a, <1>c, <3>1, <3>2
  <2> QED BY <1>b, <2>1, <2>2
<1>3. ASSUME ~OperatorStep, ~ \E w \in Workers : DrainStep(w) PROVE KeptOK' /\ NoReturn'
  <2>1. wk' = wk /\ cordoned' = cordoned
    BY <1>3, OtherFrame DEF Next
  <2>2. pod' = pod \/ ClusterStep
    BY <1>3 DEF Next, PollNodeOp, FetchNodes, vars, PreflightStep, Collect, PublishFindings
  <2>3. \A n \in Nodes : n \in cordoned => Movable(n)' \subseteq Movable(n)
    BY <2>2, ClusterShrinks DEF Movable
  <2>4. ASSUME NEW v \in Workers PROVE Fine(v)'
    BY <1>0, <1>a, <1>c, <2>1, <2>3
  <2> QED BY <1>b, <2>4
<1> QED BY <1>1, <1>2, <1>3

(* Cordoning before listing is enough: whatever pods come and go, however  *)
(* many drains run and panels are reopened, the pods a drain could still   *)
(* take from its node are among those it listed, until the cordon is lifted. *)
THEOREM NothingEverComesBack == Spec => []NothingComesBack
<1>1. Init => KeptOK /\ NoReturn
  BY DEF Init, KeptOK, NoReturn, IdleWorker
<1>2. TypeOK /\ LiveNodes /\ KeptOK /\ NoReturn /\ [Next]_vars => KeptOK' /\ NoReturn'
  BY KeptStep DEF DrainInv
<1>3. TypeOK /\ LiveNodes /\ NoReturn => NothingComesBack
  <2> SUFFICES ASSUME TypeOK, LiveNodes, NoReturn, NEW w \in Workers, wk[w].kept,
                      wk[w].pc \in {"evict", "publish", "settle", "final"}
               PROVE  ToEvict(wk[w].node) \subseteq wk[w].listed
    BY DEF NothingComesBack
  <2>1. wk[w].node \in Nodes
    BY DEF LiveNodes
  <2>2. ToEvict(wk[w].node) = Movable(wk[w].node)
    BY <2>1, ToEvictMovable DEF TypeOK
  <2> QED BY <2>2 DEF NoReturn
<1> QED BY <1>1, <1>2, <1>3, TypeCorrect, PTL DEF Spec
-----------------------------------------------------------------------------
(* What is said to be under way has a task                                 *)

(* The panel is on the node its state is kept for.                         *)
PanelOnKey == view.open => view.node = op.key

FlagInv == TypeOK /\ LiveNodes /\ PanelOnKey /\ FlagsHaveTasks

(* A drain tells its own panel only, and a drain that ends on the node of  *)
(* the panel has said so.                                                  *)
LEMMA DrainOp ==
  ASSUME TypeOK, NEW w \in Workers, DrainStep(w)
  PROVE  /\ op'.key = op.key /\ op'.loading = op.loading /\ pre' = pre
         /\ wk[w].node # op.key => op' = op
         /\ IF wk'[w].pc = "idle" /\ wk[w].node = op.key THEN ~op'.running
            ELSE op'.running = op.running
<1>0. /\ wk \in [Workers -> WorkerType] /\ op \in OpType /\ wk[w] \in WorkerType
  BY DEF TypeOK
<1>i. wk'[w].pc = "idle" => Report(w)
  BY DrainFrame
<1>1. ASSUME Cordon(w) \/ ListPods(w) \/ (\E p \in Pods : Evict(w, p)) \/ FinalRead(w)
      PROVE  op' = op /\ pre' = pre /\ ~Report(w)
  BY <1>1 DEF Cordon, ListPods, Evict, FinalRead, Report
<1>2. ASSUME PublishEviction(w) \/ EndPass(w)
      PROVE  /\ op'.key = op.key /\ op'.loading = op.loading /\ op'.running = op.running
             /\ pre' = pre /\ (wk[w].node # op.key => op' = op)
  <2>1. CASE PublishEviction(w)
    BY <1>0, <2>1 DEF PublishEviction, Publish, Goes, OpType, WorkerType
  <2>2. CASE EndPass(w)
    BY <1>0, <2>2 DEF EndPass, Publish, Goes, OpType, WorkerType
  <2> QED BY <1>2, <2>1, <2>2
<1>3. CASE Report(w)
  BY <1>0, <1>3 DEF Report, Publish, Goes, OpType, WorkerType, IdleWorker
<1>4. CASE Report(w)
  BY <1>3, <1>4
<1>5. CASE ~Report(w)
  <2>1. wk'[w].pc # "idle"
    BY <1>i, <1>5
  <2>2. CASE PublishEviction(w) \/ EndPass(w)
    BY <1>2, <2>1, <2>2
  <2>3. CASE ~(PublishEviction(w) \/ EndPass(w))
    BY <1>1, <1>5, <2>1, <2>3 DEF DrainStep
  <2> QED BY <2>2, <2>3
<1> QED BY <1>4, <1>5

(* The operator tells the state in two ways: a panel opens, a drain starts. *)
LEMMA OperatorOp ==
  ASSUME TypeOK, OperatorStep
  PROVE  \/ /\ UNCHANGED <<op, pre>>
            /\ ~view'.open \/ (view.open /\ view'.open /\ view'.node = view.node)
            /\ wk' = wk \/ \E n \in Nodes : wk' = Uncordoned(n)
         \/ \E n \in Nodes, t \in Preflights : OpenNodeDrain(n, t)
         \/ \E w \in Workers : SpawnDrain(w)
<1>1. CASE OpenPrompt
  BY <1>1 DEF OpenPrompt, Confirmable, TypeOK, ViewType
<1>2. CASE Arm
  BY <1>2 DEF Arm, Confirmable, TypeOK, ViewType
<1>3. CASE Type
  BY <1>3 DEF Type, TypeOK, ViewType
<1>4. CASE Cancel
  BY <1>4 DEF Cancel, ClosedView
<1>5. ASSUME NEW n \in Nodes, NEW u \in BOOLEAN, NodeCordon(n, u)
      PROVE  /\ UNCHANGED <<op, pre, view>> /\ ~view.open
             /\ wk' = wk \/ wk' = Uncordoned(n)
  BY <1>5 DEF NodeCordon
<1> QED BY <1>1, <1>2, <1>3, <1>4, <1>5 DEF OperatorStep

LEMMA FlagsOpen ==
  ASSUME TypeOK, NEW n \in Nodes, NEW t \in Preflights, OpenNodeDrain(n, t)
  PROVE  PanelOnKey' /\ FlagsHaveTasks'
<1>1. /\ view'.node = n /\ op'.key = n /\ ~op'.running
      /\ pre' = [pre EXCEPT ![t] = [IdlePreflight EXCEPT !.pc = "collect", !.node = n]]
  BY DEF OpenNodeDrain, NodeOp
<1>2. pre'[t].pc = "collect" /\ pre'[t].node = n
  BY <1>1 DEF TypeOK, IdlePreflight
<1> QED BY <1>1, <1>2 DEF PanelOnKey, FlagsHaveTasks, RunningHasWorker, LoadingHasPreflight,
                          PreflightsOf

LEMMA FlagsSpawn ==
  ASSUME FlagInv, NEW w \in Workers, SpawnDrain(w)
  PROVE  PanelOnKey' /\ FlagsHaveTasks'
<1>1. /\ view.open /\ UNCHANGED <<view, pre>>
      /\ op' = [op EXCEPT !.running = TRUE, !.done = "none",
                          !.evicted = {}, !.waiting = {}, !.failed = {}]
  BY DEF SpawnDrain, Confirmable
<1>2. op'.key = op.key /\ op'.loading = op.loading
  BY <1>1 DEF FlagInv, TypeOK, OpType
<1>3. wk'[w].pc = "cordon" /\ wk'[w].node = view.node
  <2>1. view.node \in Keys /\ wk \in [Workers -> WorkerType]
    BY DEF FlagInv, TypeOK, ViewType
  <2>2. PICK c \in BOOLEAN : Goes(w, NewDrain(view.node, c))
    BY SpawnIs
  <2>3. wk'[w] = NewDrain(view.node, c)
    BY <2>1, <2>2, GoesFrame
  <2> QED BY <2>1, <2>3 DEF NewDrain, IdleWorker
<1>4. PreflightsOf(op.key)' = PreflightsOf(op.key)
  BY <1>1, <1>2 DEF PreflightsOf
<1> QED BY <1>1, <1>2, <1>3, <1>4 DEF FlagInv, PanelOnKey, FlagsHaveTasks, RunningHasWorker,
                                 LoadingHasPreflight, WorkersOf

(* The state and the tasks stay where they were.                           *)
LEMMA FlagsKept ==
  ASSUME FlagInv, UNCHANGED <<op, pre>>,
         ~view'.open \/ (view.open /\ view'.open /\ view'.node = view.node),
         \A w \in Workers : wk'[w].pc = wk[w].pc /\ wk'[w].node = wk[w].node
  PROVE  PanelOnKey' /\ FlagsHaveTasks'
<1>1. WorkersOf(op.key)' = WorkersOf(op.key) /\ PreflightsOf(op.key)' = PreflightsOf(op.key)
  BY DEF WorkersOf, PreflightsOf
<1> QED BY <1>1 DEF FlagInv, PanelOnKey, FlagsHaveTasks, RunningHasWorker, LoadingHasPreflight

LEMMA FlagsDrain ==
  ASSUME FlagInv, NEW w \in Workers, DrainStep(w)
  PROVE  PanelOnKey' /\ FlagsHaveTasks'
<1>1. /\ view' = view /\ op'.key = op.key /\ op'.loading = op.loading /\ pre' = pre
      /\ \A v \in Workers : v # w => wk'[v] = wk[v]
      /\ wk'[w] = IdleWorker \/ (wk'[w].node = wk[w].node /\ wk'[w].pc # "idle")
      /\ IF wk'[w].pc = "idle" /\ wk[w].node = op.key THEN ~op'.running
         ELSE op'.running = op.running
      /\ IdleWorker.pc = "idle"
  BY DrainFrame, DrainOp DEF FlagInv, IdleWorker
<1>2. RunningHasWorker'
  <2> SUFFICES ASSUME op'.running PROVE WorkersOf(op.key)' # {}
    BY DEF RunningHasWorker
  <2>1. PICK v \in Workers : wk[v].pc # "idle" /\ wk[v].node = op.key
    BY <1>1 DEF FlagInv, FlagsHaveTasks, RunningHasWorker, WorkersOf
  <2>2. wk'[v].pc # "idle" /\ wk'[v].node = op'.key
    BY <1>1, <2>1
  <2> QED BY <2>2 DEF WorkersOf
<1>3. PreflightsOf(op.key)' = PreflightsOf(op.key)
  BY <1>1 DEF PreflightsOf
<1> QED BY <1>1, <1>2, <1>3 DEF FlagInv, PanelOnKey, FlagsHaveTasks, LoadingHasPreflight

LEMMA FlagsPreflight ==
  ASSUME FlagInv, NEW t \in Preflights, PreflightStep(t)
  PROVE  PanelOnKey' /\ FlagsHaveTasks'
<1>0. pre \in [Preflights -> PreflightType] /\ op \in OpType
  BY DEF FlagInv, TypeOK
<1>1. UNCHANGED <<view, wk>>
  BY DEF PreflightStep, Collect, PublishFindings
<1>2. /\ op'.key = op.key /\ op'.running = op.running
      /\ \A u \in Preflights \ {t} : pre'[u] = pre[u]
      /\ \/ op'.loading = op.loading /\ pre'[t].pc # "idle" /\ pre'[t].node = pre[t].node
         \/ op' = op /\ pre[t].node # op.key
         \/ ~op'.loading
  <2>1. CASE Collect(t)
    BY <1>0, <2>1 DEF Collect, PreflightType
  <2>2. CASE PublishFindings(t)
    BY <1>0, <2>2 DEF PublishFindings, Publish, OpType
  <2> QED BY <2>1, <2>2 DEF PreflightStep
<1>3. WorkersOf(op.key)' = WorkersOf(op.key)
  BY <1>1, <1>2 DEF WorkersOf
<1>4. LoadingHasPreflight'
  <2> SUFFICES ASSUME op'.loading PROVE PreflightsOf(op.key)' # {}
    BY DEF LoadingHasPreflight
  <2>1. PICK u \in Preflights : pre[u].pc # "idle" /\ pre[u].node = op.key
    BY <1>2 DEF FlagInv, FlagsHaveTasks, LoadingHasPreflight, PreflightsOf
  <2>2. pre'[u].pc # "idle" /\ pre'[u].node = op'.key
    BY <1>2, <2>1
  <2> QED BY <2>2 DEF PreflightsOf
<1> QED BY <1>1, <1>2, <1>3, <1>4 DEF FlagInv, PanelOnKey, FlagsHaveTasks, RunningHasWorker

LEMMA FlagsNext == FlagInv /\ [Next]_vars => PanelOnKey' /\ FlagsHaveTasks'
<1> SUFFICES ASSUME FlagInv, [Next]_vars PROVE PanelOnKey' /\ FlagsHaveTasks'
  OBVIOUS
<1>1. CASE OperatorStep
  <2>1. CASE /\ UNCHANGED <<op, pre>>
             /\ ~view'.open \/ (view.open /\ view'.open /\ view'.node = view.node)
             /\ wk' = wk \/ \E n \in Nodes : wk' = Uncordoned(n)
    <3>1. ASSUME NEW w \in Workers PROVE wk'[w].pc = wk[w].pc /\ wk'[w].node = wk[w].node
      <4>1. Fades(w)
        BY <2>1, UncordonedFades DEF Fades
      <4> QED BY <4>1, FadesFrame DEF FlagInv, TypeOK
    <3> QED BY <2>1, <3>1, FlagsKept
  <2> QED BY <1>1, <2>1, OperatorOp, FlagsOpen, FlagsSpawn DEF FlagInv
<1>2. ASSUME NEW w \in Workers, DrainStep(w) PROVE PanelOnKey' /\ FlagsHaveTasks'
  BY <1>2, FlagsDrain
<1>3. ASSUME NEW t \in Preflights, PreflightStep(t) PROVE PanelOnKey' /\ FlagsHaveTasks'
  BY <1>3, FlagsPreflight
<1>4. CASE PollNodeOp \/ FetchNodes \/ ClusterStep \/ UNCHANGED vars
  <2>1. UNCHANGED <<op, pre, wk>>
    BY <1>4 DEF PollNodeOp, FetchNodes, ClusterStep, Terminated, Completed, Recreated, vars
  <2>2. ~view'.open \/ (view.open /\ view'.open /\ view'.node = view.node)
    <3>1. CASE PollNodeOp
      BY <3>1 DEF PollNodeOp, FlagInv, TypeOK, ViewType
    <3>2. CASE FetchNodes \/ ClusterStep \/ UNCHANGED vars
      BY <3>2 DEF FetchNodes, ClusterStep, Terminated, Completed, Recreated, vars,
                  FlagInv, TypeOK, ViewType
    <3> QED BY <1>4, <3>1, <3>2
  <2> QED BY <2>1, <2>2, FlagsKept
<1> QED BY <1>1, <1>2, <1>3, <1>4 DEF Next

(* A panel that says it is checking, or draining, has a task on its node   *)
(* that will say otherwise: however often the panel is closed and opened   *)
(* again, on whatever nodes, while the tasks of earlier ones go on         *)
(* (`open_node_drain`, `spawn_drain`, `publish`).                          *)
THEOREM SayingHasTasks == Spec => []FlagsHaveTasks
<1>1. Init => PanelOnKey /\ FlagsHaveTasks
  BY DEF Init, PanelOnKey, FlagsHaveTasks, RunningHasWorker, LoadingHasPreflight, NodeOp, ClosedView
<1>2. TypeOK /\ LiveNodes /\ PanelOnKey /\ FlagsHaveTasks /\ [Next]_vars =>
        PanelOnKey' /\ FlagsHaveTasks'
  BY FlagsNext DEF FlagInv
<1> QED BY <1>1, <1>2, TypeCorrect, PTL DEF Spec
-----------------------------------------------------------------------------
(* The account of the pods, and what success says                          *)

(* A drain works through its list in passes, one pod at a time: what it is *)
(* done with, was asked about, is still to be asked and is held are apart, *)
(* and make up the list.                                                   *)
Pass(w) ==
  /\ wk[w].cur \cap wk[w].todo = {} /\ wk[w].cur \cap wk[w].still = {}
  /\ wk[w].todo \cap wk[w].still = {}
  /\ wk[w].pc # "publish" => wk[w].cur = {}
  /\ wk[w].pc \in {"cordon", "list"} =>
       wk[w].todo = {} /\ wk[w].still = {} /\ wk[w].settled = {}
  /\ wk[w].pc = "settle" => wk[w].todo = {}
  /\ wk[w].pc = "final" => wk[w].still = {}
  /\ wk[w].pc \in {"evict", "publish", "settle", "final"} =>
       /\ wk[w].listed = wk[w].settled \cup wk[w].cur \cup wk[w].todo \cup wk[w].still
       /\ wk[w].settled \cap (wk[w].cur \cup wk[w].todo \cup wk[w].still) = {}

(* What the panel holds of a drain whose counts are its own.               *)
Book(w) ==
  /\ op.key = wk[w].node /\ op.running
  /\ wk[w].pc \in {"cordon", "list"} =>
       op.evicted = {} /\ op.failed = {} /\ op.waiting = {}
  /\ wk[w].pc \in {"evict", "publish", "settle", "final"} =>
       /\ wk[w].settled = op.evicted \cup op.failed
       /\ op.evicted \cap op.failed = {}
       /\ wk[w].still \subseteq op.waiting
       /\ wk[w].pc = "final" => op.waiting = wk[w].todo

(* And what it knows of the node itself, as long as the cordon is kept:    *)
(* the pods done with do not come back, and success leaves none.           *)
Cleared(w) ==
  /\ wk[w].pc = "publish" /\ wk[w].answer \in {"ok", "404"} =>
       wk[w].cur \cap Movable(wk[w].node) = {}
  /\ wk[w].counted /\ wk[w].pc \in {"evict", "publish", "settle", "final"} =>
       op.evicted \cap Movable(wk[w].node) = {}
  /\ wk[w].counted /\ wk[w].pc = "report" /\ wk[w].result = "ok" =>
       Movable(wk[w].node) = {}

(* All of it, of one drain.                                                *)
Sound(w) == /\ Pass(w)
            /\ wk[w].counted /\ wk[w].pc # "idle" => Book(w)
            /\ wk[w].kept => Cleared(w)

(* A drain whose counts are its own has its node to itself.                *)
CountedAlone ==
  \A v, w \in Workers :
    (/\ wk[v].pc # "idle" /\ wk[w].pc # "idle" /\ wk[v].node = wk[w].node
     /\ wk[w].counted) => v = w

AccountInv == DrainInv /\ PanelOnKey /\ CountedAlone /\ \A w \in Workers : Sound(w)

(* The panel holds the same counts of the same drain.                      *)
SameCounts == /\ op'.key = op.key /\ op'.running = op.running /\ op'.evicted = op.evicted
              /\ op'.failed = op.failed /\ op'.waiting = op.waiting

(* A drain no step of which was taken stays sound: what the panel holds    *)
(* has not changed, or is not its own, and its node gained no pod.         *)
LEMMA LeftSound ==
  ASSUME AccountInv, NEW w \in Workers, Fades(w),
         SameCounts \/ wk[w].pc = "idle" \/ ~wk'[w].counted,
         \A n \in Nodes : n \in cordoned => Movable(n)' \subseteq Movable(n)
  PROVE  Sound(w)'
<1>0. /\ Sound(w) /\ wk[w] \in WorkerType
  BY DEF AccountInv, DrainInv, TypeOK
<1>1. /\ wk'[w].pc = wk[w].pc /\ wk'[w].node = wk[w].node /\ wk'[w].cur = wk[w].cur
      /\ wk'[w].todo = wk[w].todo /\ wk'[w].still = wk[w].still
      /\ wk'[w].listed = wk[w].listed /\ wk'[w].settled = wk[w].settled
      /\ wk'[w].answer = wk[w].answer /\ wk'[w].result = wk[w].result
      /\ wk'[w].kept => wk[w].kept
      /\ wk'[w].counted => wk[w].counted
  BY <1>0, FadesFrame
<1>2. Pass(w)'
  BY <1>0, <1>1 DEF Sound, Pass
<1>3. ASSUME wk'[w].counted, wk'[w].pc # "idle" PROVE SameCounts /\ Book(w) /\ Book(w)'
  <2>1. SameCounts /\ Book(w)
    BY <1>0, <1>1, <1>3 DEF Sound
  <2> QED BY <1>1, <2>1 DEF SameCounts, Book
<1>4. ASSUME wk'[w].kept PROVE Cleared(w)'
  <2>1. PICK n \in Nodes : n = wk[w].node /\ n \in cordoned
    BY <1>1, <1>4 DEF AccountInv, DrainInv, TypeOK, KeptOK
  <2>2. Movable(n)' \subseteq Movable(n)
    BY <2>1
  <2>3. Movable(wk[w].node)' = Movable(n)' /\ Movable(wk[w].node) = Movable(n)
    BY <1>1, <2>1 DEF Movable
  <2>4. Cleared(w)
    BY <1>0, <1>1, <1>4 DEF Sound
  <2> HIDE DEF Movable
  <2>5. wk'[w].pc = "publish" /\ wk'[w].answer \in {"ok", "404"} =>
          wk'[w].cur \cap Movable(wk[w].node)' = {}
    BY <1>1, <2>2, <2>3, <2>4 DEF Cleared
  <2>6. ASSUME wk'[w].counted, wk'[w].pc \in {"evict", "publish", "settle", "final"}
        PROVE  op'.evicted \cap Movable(wk[w].node)' = {}
    <3>1. op'.evicted = op.evicted
      BY <1>3, <2>6 DEF SameCounts
    <3> QED BY <1>1, <2>2, <2>3, <2>4, <2>6, <3>1 DEF Cleared
  <2>7. ASSUME wk'[w].counted, wk'[w].pc = "report", wk'[w].result = "ok"
        PROVE  Movable(wk[w].node)' = {}
    BY <1>1, <2>2, <2>3, <2>4, <2>7 DEF Cleared
  <2> QED BY <1>1, <2>5, <2>6, <2>7 DEF Cleared
<1> QED BY <1>2, <1>3, <1>4 DEF Sound

-----------------------------------------------------------------------------
(* The steps of the drain itself.                                          *)

LEMMA SoundNow ==
  ASSUME AccountInv, NEW w \in Workers, wk[w].pc # "idle"
  PROVE  /\ wk \in [Workers -> WorkerType] /\ wk[w] \in WorkerType
         /\ op \in OpType /\ pod \in [Pods -> PodType] /\ wk[w].node \in Nodes
         /\ Pass(w) /\ (wk[w].counted => Book(w)) /\ (wk[w].kept => Cleared(w))
  BY DEF AccountInv, DrainInv, TypeOK, LiveNodes, Sound

(* A drain cut short, by an error, says so and knows nothing more.         *)
LEMMA SoundError ==
  ASSUME AccountInv, NEW w \in Workers, wk[w].pc # "idle", op' = op, Goes(w, Outcome(w, "err"))
  PROVE  Sound(w)'
<1>1. /\ wk'[w].pc = "report" /\ wk'[w].node = wk[w].node /\ wk'[w].result = "err"
      /\ wk'[w].counted = wk[w].counted
      /\ wk'[w].cur = {} /\ wk'[w].todo = {} /\ wk'[w].still = {}
  BY SoundNow, GoesFrame, OutcomeIs
<1>2. Pass(w)'
  BY <1>1 DEF Pass
<1>3. wk'[w].counted => Book(w)'
  BY <1>1, SoundNow DEF Book
<1>4. Cleared(w)'
  BY <1>1 DEF Cleared
<1> QED BY <1>2, <1>3, <1>4 DEF Sound

LEMMA SoundCordon ==
  ASSUME AccountInv, NEW w \in Workers, Cordon(w) PROVE Sound(w)'
<1>1. wk[w].pc = "cordon" /\ op' = op
  BY DEF Cordon
<1>2. CASE Goes(w, Outcome(w, "err"))
  BY <1>1, <1>2, SoundError
<1>3. CASE Goes(w, [wk[w] EXCEPT !.pc = "list", !.kept = TRUE])
  <2>0. wk \in [Workers -> WorkerType] /\ wk[w] \in WorkerType
    BY <1>1, SoundNow
  <2>1. /\ wk'[w].node = wk[w].node /\ wk'[w].cur = wk[w].cur /\ wk'[w].todo = wk[w].todo
        /\ wk'[w].still = wk[w].still /\ wk'[w].settled = wk[w].settled
        /\ wk'[w].counted = wk[w].counted /\ wk'[w].pc = "list"
    BY <2>0, <1>3 DEF Goes, WorkerType
  <2>2. Pass(w)'
    BY <1>1, <2>1, SoundNow DEF Pass
  <2>3. wk'[w].counted => Book(w)'
    BY <1>1, <2>1, SoundNow DEF Book
  <2>4. Cleared(w)'
    BY <2>1 DEF Cleared
  <2> QED BY <2>2, <2>3, <2>4 DEF Sound
<1> QED BY <1>2, <1>3 DEF Cordon

LEMMA SoundList ==
  ASSUME AccountInv, NEW w \in Workers, ListPods(w) PROVE Sound(w)'
<1>1. wk[w].pc = "list" /\ op' = op
  BY DEF ListPods
<1>2. CASE Goes(w, Outcome(w, "err"))
  BY <1>1, <1>2, SoundError
<1>3. ASSUME NEW found, NEW pc \in {"evict", "final"}, pc = "final" => found = {},
             Goes(w, [wk[w] EXCEPT !.pc = pc, !.todo = found, !.listed = found])
      PROVE  Sound(w)'
  <2>0. /\ wk \in [Workers -> WorkerType] /\ wk[w] \in WorkerType
        /\ Pass(w) /\ (wk[w].counted => Book(w))
    BY <1>1, SoundNow
  <2>1. /\ wk'[w].node = wk[w].node /\ wk'[w].cur = wk[w].cur /\ wk'[w].still = wk[w].still
        /\ wk'[w].settled = wk[w].settled /\ wk'[w].counted = wk[w].counted
        /\ wk'[w].pc = "evict" \/ (wk'[w].pc = "final" /\ wk'[w].todo = {})
        /\ wk'[w].todo = wk'[w].listed
    BY <2>0, <1>3 DEF Goes, WorkerType
  <2>2. Pass(w)'
    BY <1>1, <2>0, <2>1 DEF Pass
  <2>3. wk'[w].counted => Book(w)'
    BY <1>1, <2>0, <2>1 DEF Book, Pass
  <2>4. Cleared(w)'
    BY <1>1, <2>0, <2>1 DEF Cleared, Book
  <2> QED BY <2>2, <2>3, <2>4 DEF Sound
<1> QED BY <1>2, <1>3 DEF ListPods

LEMMA SoundEvict ==
  ASSUME AccountInv, NEW w \in Workers, NEW p \in Pods, Evict(w, p) PROVE Sound(w)'
<1>0. op' = op /\ wk[w].pc = "evict" /\ p \in wk[w].todo
  BY DEF Evict
<1>1. /\ wk \in [Workers -> WorkerType] /\ wk[w] \in WorkerType
      /\ pod \in [Pods -> PodType] /\ wk[w].node \in Nodes
      /\ Pass(w) /\ (wk[w].counted => Book(w)) /\ (wk[w].kept => Cleared(w))
  BY <1>0, SoundNow
<1>2. /\ wk'[w].node = wk[w].node /\ wk'[w].cur = {p} /\ wk'[w].todo = wk[w].todo \ {p}
      /\ wk'[w].still = wk[w].still /\ wk'[w].listed = wk[w].listed /\ wk'[w].pc = "publish"
      /\ wk'[w].settled = wk[w].settled /\ wk'[w].counted = wk[w].counted
      /\ wk'[w].kept = wk[w].kept
      /\ \/ pod' = EvictEffect(p) /\ wk'[w].answer = EvictAnswer(p)
         \/ wk'[w].answer = "error" /\ pod' \in {pod, EvictEffect(p)}
  <2>1. ASSUME NEW a, Goes(w, [wk[w] EXCEPT !.pc = "publish", !.cur = {p}, !.todo = @ \ {p},
                                            !.answer = a])
        PROVE  /\ wk'[w].node = wk[w].node /\ wk'[w].cur = {p} /\ wk'[w].todo = wk[w].todo \ {p}
               /\ wk'[w].still = wk[w].still /\ wk'[w].listed = wk[w].listed
               /\ wk'[w].settled = wk[w].settled /\ wk'[w].counted = wk[w].counted
               /\ wk'[w].pc = "publish" /\ wk'[w].kept = wk[w].kept /\ wk'[w].answer = a
    BY <1>1, <2>1 DEF Goes, WorkerType
  <2> QED BY <2>1 DEF Evict
<1>3. Pass(w)'
  BY <1>0, <1>1, <1>2 DEF Pass
<1>4. wk'[w].counted => Book(w)'
  BY <1>0, <1>1, <1>2 DEF Book, Pass
<1>5. ASSUME wk[w].kept PROVE Cleared(w)'
  <2>1. Movable(wk[w].node)' \subseteq Movable(wk[w].node)
    <3>1. PICK n \in Nodes : n = wk[w].node
      BY <1>1
    <3>2. pod' = pod \/ pod' = EvictEffect(p)
      BY <1>2
    <3>3. Movable(n)' \subseteq Movable(n)
      BY <1>1, <3>2, EvictShrinks
    <3> QED BY <1>2, <3>1, <3>3 DEF Movable
  <2>2. wk'[w].answer \in {"ok", "404"} => p \notin Movable(wk[w].node)'
    <3> SUFFICES ASSUME pod' = EvictEffect(p), EvictAnswer(p) \in {"ok", "404"}
                 PROVE  pod'[p].phase = "terminating" \/ pod'[p].at = NoNode
      BY <1>1, <1>2, ConstantsAssumption DEF Movable
    <3>1. CASE EvictAnswer(p) = "ok"
      BY <1>1, <3>1 DEF EvictEffect, PodType
    <3>2. CASE EvictAnswer(p) # "ok"
      BY <1>1, <3>2 DEF EvictEffect, EvictAnswer
    <3> QED BY <3>1, <3>2
  <2> QED BY <1>0, <1>1, <1>2, <1>5, <2>1, <2>2 DEF Cleared
<1> QED BY <1>2, <1>3, <1>4, <1>5 DEF Sound

LEMMA SoundPublish ==
  ASSUME AccountInv, NEW w \in Workers, PublishEviction(w) PROVE Sound(w)'
<1>0. wk[w].pc = "publish" /\ pod' = pod
  BY DEF PublishEviction
<1>1. /\ wk \in [Workers -> WorkerType] /\ wk[w] \in WorkerType /\ op \in OpType
      /\ Pass(w) /\ (wk[w].counted => Book(w)) /\ (wk[w].kept => Cleared(w))
  BY <1>0, SoundNow
<1>2. /\ wk'[w].node = wk[w].node /\ wk'[w].cur = {} /\ wk'[w].todo = wk[w].todo
      /\ wk'[w].still = IF wk[w].answer = "429" THEN wk[w].still \cup wk[w].cur ELSE wk[w].still
      /\ wk'[w].settled = IF wk[w].answer = "429" THEN wk[w].settled
                          ELSE wk[w].settled \cup wk[w].cur
      /\ wk'[w].listed = wk[w].listed /\ wk'[w].kept = wk[w].kept
      /\ wk'[w].counted = wk[w].counted
      /\ wk'[w].pc = IF wk[w].todo = {} THEN "settle" ELSE "evict"
  BY <1>1 DEF PublishEviction, Goes, WorkerType
<1>3. /\ op'.key = op.key /\ op'.running = op.running
      /\ op.key = wk[w].node =>
           /\ op'.evicted = IF wk[w].answer \in {"ok", "404"} THEN op.evicted \cup wk[w].cur
                            ELSE op.evicted
           /\ op'.waiting = IF wk[w].answer = "429" THEN op.waiting \cup wk[w].cur
                            ELSE op.waiting
           /\ op'.failed = IF wk[w].answer \in {"ok", "404", "429"} THEN op.failed
                           ELSE op.failed \cup wk[w].cur
  BY <1>1 DEF PublishEviction, Publish, OpType
<1>4. Pass(w)'
  BY <1>0, <1>1, <1>2 DEF Pass
<1>5. ASSUME wk'[w].counted PROVE Book(w)'
  <2>1. Book(w) /\ op.key = wk[w].node
    BY <1>1, <1>2, <1>5 DEF Book
  <2>2. wk[w].answer \in {"ok", "404"} \/ wk[w].answer = "429"
        \/ wk[w].answer \notin {"ok", "404", "429"}
    OBVIOUS
  <2>3. wk'[w].settled = op'.evicted \cup op'.failed
    BY <1>0, <1>2, <1>3, <2>1, <2>2 DEF Book
  <2>4. op'.evicted \cap op'.failed = {}
    BY <1>0, <1>1, <1>3, <2>1, <2>2 DEF Book, Pass
  <2>5. wk'[w].still \subseteq op'.waiting
    BY <1>0, <1>2, <1>3, <2>1, <2>2 DEF Book
  <2>6. op'.key = wk'[w].node /\ op'.running
    BY <1>2, <1>3, <2>1 DEF Book
  <2> QED BY <1>2, <2>3, <2>4, <2>5, <2>6 DEF Book
<1>6. ASSUME wk[w].kept PROVE Cleared(w)'
  <2>1. Movable(wk[w].node)' = Movable(wk[w].node)
    BY <1>0, <1>2 DEF Movable
  <2>2. wk[w].counted => op'.evicted \cap Movable(wk[w].node) = {}
    BY <1>0, <1>1, <1>3, <1>6 DEF Cleared, Book
  <2> QED BY <1>2, <2>1, <2>2 DEF Cleared
<1> QED BY <1>2, <1>4, <1>5, <1>6 DEF Sound

LEMMA SoundEndPass ==
  ASSUME AccountInv, NEW w \in Workers, EndPass(w) PROVE Sound(w)'
<1>0. wk[w].pc = "settle" /\ pod' = pod
  BY DEF EndPass
<1>1. /\ wk \in [Workers -> WorkerType] /\ wk[w] \in WorkerType /\ op \in OpType
      /\ Pass(w) /\ (wk[w].counted => Book(w)) /\ (wk[w].kept => Cleared(w))
  BY <1>0, SoundNow
<1>2. /\ wk'[w].node = wk[w].node /\ wk'[w].cur = wk[w].cur /\ wk'[w].todo = wk[w].still
      /\ wk'[w].still = {} /\ wk'[w].listed = wk[w].listed /\ wk'[w].kept = wk[w].kept
      /\ wk'[w].settled = wk[w].settled /\ wk'[w].counted = wk[w].counted
      /\ wk'[w].pc \in {"final", "evict"}
  BY <1>1 DEF EndPass, Goes, WorkerType
<1>3. /\ op'.key = op.key /\ op'.running = op.running
      /\ op.key = wk[w].node =>
           /\ op'.evicted = op.evicted /\ op'.failed = op.failed
           /\ op'.waiting = op.waiting \cap wk[w].still
  BY <1>1 DEF EndPass, Publish, OpType
<1>4. Pass(w)'
  BY <1>0, <1>1, <1>2 DEF Pass
<1>5. ASSUME wk'[w].counted PROVE Book(w)'
  <2>1. Book(w) /\ op.key = wk[w].node
    BY <1>1, <1>2, <1>5 DEF Book
  <2>2. op'.waiting = wk'[w].todo
    BY <1>0, <1>2, <1>3, <2>1 DEF Book
  <2>3. wk'[w].settled = op'.evicted \cup op'.failed /\ op'.evicted \cap op'.failed = {}
    BY <1>0, <1>2, <1>3, <2>1 DEF Book
  <2>4. op'.key = wk'[w].node /\ op'.running
    BY <1>2, <1>3, <2>1 DEF Book
  <2> QED BY <1>2, <2>2, <2>3, <2>4 DEF Book
<1>6. wk[w].kept => Cleared(w)'
  <2>1. Movable(wk[w].node)' = Movable(wk[w].node)
    BY <1>0, <1>2 DEF Movable
  <2>2. wk[w].counted => op'.evicted = op.evicted
    BY <1>1, <1>3 DEF Book
  <2> QED BY <1>0, <1>1, <1>2, <2>1, <2>2 DEF Cleared
<1> QED BY <1>2, <1>4, <1>5, <1>6 DEF Sound

(* Success is read off the panel: nothing failed and nothing is held, so   *)
(* every pod of the list is done with, and the list had them all.          *)
LEMMA SoundFinal ==
  ASSUME AccountInv, NEW w \in Workers, FinalRead(w) PROVE Sound(w)'
<1>0. wk[w].pc = "final" /\ op' = op /\ pod' = pod
  BY DEF FinalRead
<1>1. /\ wk \in [Workers -> WorkerType] /\ wk[w] \in WorkerType
      /\ Pass(w) /\ (wk[w].counted => Book(w))
      /\ (wk[w].kept => Cleared(w) /\ Movable(wk[w].node) \subseteq wk[w].listed)
  BY <1>0, SoundNow DEF AccountInv, DrainInv, NoReturn
<1>2. PICK r \in {"ok", "err"} :
        /\ Goes(w, Outcome(w, r))
        /\ r = "ok" => op.failed = {} /\ op.waiting = {}
  BY DEF FinalRead
<1>3. /\ wk'[w].node = wk[w].node /\ wk'[w].kept = wk[w].kept /\ wk'[w].pc = "report"
      /\ wk'[w].counted = wk[w].counted /\ wk'[w].result = r
      /\ wk'[w].cur = {} /\ wk'[w].todo = {} /\ wk'[w].still = {}
  BY <1>1, <1>2, GoesFrame, OutcomeIs
<1>4. Pass(w)'
  BY <1>3 DEF Pass
<1>5. wk'[w].counted => Book(w)'
  BY <1>0, <1>1, <1>3 DEF Book
<1>6. ASSUME wk[w].kept, wk[w].counted, op.failed = {}, op.waiting = {}
      PROVE  Movable(wk[w].node) = {}
  <2>1. wk[w].listed = op.evicted
    BY <1>0, <1>1, <1>6 DEF Book, Pass
  <2> QED BY <1>0, <1>1, <1>6, <2>1 DEF Cleared
<1>7. wk[w].kept => Cleared(w)'
  <2>1. Movable(wk[w].node)' = Movable(wk[w].node)
    BY <1>0, <1>3 DEF Movable
  <2>2. wk[w].kept /\ wk[w].counted /\ r = "ok" => Movable(wk[w].node)' = {}
    BY <1>2, <1>6, <2>1
  <2> QED BY <1>3, <2>2 DEF Cleared
<1> QED BY <1>3, <1>4, <1>5, <1>7 DEF Sound

LEMMA SoundDrain ==
  ASSUME AccountInv, NEW w \in Workers, DrainStep(w) PROVE Sound(w)'
<1>1. ASSUME Report(w) PROVE Sound(w)'
  <2>1. wk'[w] = IdleWorker
    BY <1>1, DrainFrame DEF AccountInv, DrainInv, Report
  <2> QED BY <2>1 DEF Sound, Pass, Book, Cleared, IdleWorker
<1> QED BY <1>1, SoundCordon, SoundList, SoundEvict, SoundPublish, SoundEndPass, SoundFinal
        DEF DrainStep

-----------------------------------------------------------------------------
(* Every step.                                                             *)

AccountStep == PanelOnKey' /\ CountedAlone' /\ \A w \in Workers : Sound(w)'

(* No drain step gives a drain the counts of another, or takes its node.   *)
LEMMA DrainCounts ==
  ASSUME TypeOK, NEW w \in Workers, DrainStep(w)
  PROVE  wk'[w].pc = "idle" \/ (wk'[w].node = wk[w].node /\ wk'[w].counted = wk[w].counted)
<1>0. wk \in [Workers -> WorkerType] /\ wk[w] \in WorkerType
  BY DEF TypeOK
<1>1. CASE Cordon(w)
  <2>1. CASE Goes(w, Outcome(w, "err"))
    BY <1>0, <2>1, GoesFrame, OutcomeIs
  <2>2. CASE Goes(w, [wk[w] EXCEPT !.pc = "list", !.kept = TRUE])
    BY <1>0, <2>2 DEF Goes, WorkerType
  <2> QED BY <1>1, <2>1, <2>2 DEF Cordon
<1>2. CASE ListPods(w)
  <2>1. CASE Goes(w, Outcome(w, "err"))
    BY <1>0, <2>1, GoesFrame, OutcomeIs
  <2>2. ASSUME NEW pc, NEW found,
               Goes(w, [wk[w] EXCEPT !.pc = pc, !.todo = found, !.listed = found])
        PROVE  wk'[w].node = wk[w].node /\ wk'[w].counted = wk[w].counted
    BY <1>0, <2>2 DEF Goes, WorkerType
  <2> QED BY <1>2, <2>1, <2>2 DEF ListPods
<1>3. ASSUME NEW p \in Pods, Evict(w, p)
      PROVE  wk'[w].node = wk[w].node /\ wk'[w].counted = wk[w].counted
  <2>1. ASSUME NEW a, Goes(w, [wk[w] EXCEPT !.pc = "publish", !.cur = {p}, !.todo = @ \ {p},
                                            !.answer = a])
        PROVE  wk'[w].node = wk[w].node /\ wk'[w].counted = wk[w].counted
    BY <1>0, <2>1 DEF Goes, WorkerType
  <2> QED BY <1>3, <2>1 DEF Evict
<1>4. CASE PublishEviction(w)
  BY <1>0, <1>4 DEF PublishEviction, Goes, WorkerType
<1>5. CASE EndPass(w)
  BY <1>0, <1>5 DEF EndPass, Goes, WorkerType
<1>6. CASE FinalRead(w)
  BY <1>0, <1>6, GoesFrame, OutcomeIs DEF FinalRead
<1>7. CASE Report(w)
  BY <1>0, <1>7, GoesFrame DEF Report, IdleWorker
<1> QED BY <1>1, <1>2, <1>3, <1>4, <1>5, <1>6, <1>7 DEF DrainStep

LEMMA AccountDrain ==
  ASSUME AccountInv, NEW w \in Workers, DrainStep(w) PROVE AccountStep
<1>0. TypeOK
  BY DEF AccountInv, DrainInv
<1>1. /\ view' = view /\ op'.key = op.key
      /\ wk[w].node # op.key => op' = op
      /\ wk[w].pc # "idle"
      /\ \A v \in Workers : v # w => wk'[v] = wk[v]
  BY <1>0, DrainFrame, DrainOp
<1>2. wk'[w].pc = "idle" \/ (wk'[w].node = wk[w].node /\ wk'[w].counted = wk[w].counted)
  BY <1>0, DrainCounts
<1>3. PanelOnKey'
  BY <1>1 DEF AccountInv, PanelOnKey
<1>4. CountedAlone'
  <2>1. \A u, v \in Workers :
          (/\ wk'[u].pc # "idle" /\ wk'[v].pc # "idle" /\ wk'[u].node = wk'[v].node
           /\ wk'[v].counted) => u = v
    BY <1>1, <1>2 DEF AccountInv, CountedAlone
  <2> QED BY <2>1 DEF CountedAlone
<1>5. \A n \in Nodes : Movable(n)' \subseteq Movable(n)
  BY <1>0, DrainShrinks
<1>6. ASSUME NEW v \in Workers, v # w PROVE Sound(v)'
  <2>1. wk'[v] = wk[v] /\ Fades(v)
    BY <1>1, <1>6 DEF Fades
  <2>2. ASSUME wk[v].counted, wk[v].pc # "idle" PROVE op' = op
    <3>1. op.key = wk[v].node
      BY <2>2, SoundNow DEF AccountInv, Book
    <3>2. wk[w].node # wk[v].node
      BY <1>1, <1>6, <2>2 DEF AccountInv, CountedAlone
    <3> QED BY <1>1, <3>1, <3>2
  <2>3. SameCounts \/ wk[v].pc = "idle" \/ ~wk'[v].counted
    BY <2>1, <2>2 DEF SameCounts
  <2> QED BY <1>5, <2>1, <2>3, LeftSound
<1>7. Sound(w)'
  BY SoundDrain
<1> QED BY <1>3, <1>4, <1>6, <1>7 DEF AccountStep

(* A panel that opens takes their counts from the drains under way.        *)
LEMMA AccountOpen ==
  ASSUME AccountInv, NEW n \in Nodes, NEW t \in Preflights, OpenNodeDrain(n, t)
  PROVE  AccountStep
<1>0. wk \in [Workers -> WorkerType]
  BY DEF AccountInv, DrainInv, TypeOK
<1>1. wk' = Uncounted /\ pod' = pod
  BY DEF OpenNodeDrain
<1>2. PanelOnKey'
  BY FlagsOpen DEF AccountInv, DrainInv
<1>3. ASSUME NEW v \in Workers PROVE Fades(v) /\ ~wk'[v].counted
  <2>1. wk[v] \in WorkerType /\ wk'[v] = [wk[v] EXCEPT !.counted = FALSE]
    BY <1>0, <1>1 DEF Uncounted
  <2> QED BY <2>1 DEF WorkerType, Fades
<1>4. CountedAlone'
  BY <1>3 DEF CountedAlone
<1>5. \A m \in Nodes : Movable(m)' \subseteq Movable(m)
  BY <1>1 DEF Movable
<1>6. ASSUME NEW v \in Workers PROVE Sound(v)'
  BY <1>3, <1>5, LeftSound
<1> QED BY <1>2, <1>4, <1>6 DEF AccountStep

(* A drain starts on a panel that says none is running: none of the node   *)
(* has its counts to itself, whether some are under way or not.            *)
LEMMA AccountSpawn ==
  ASSUME AccountInv, NEW w \in Workers, SpawnDrain(w) PROVE AccountStep
<1>0. wk \in [Workers -> WorkerType] /\ op \in OpType /\ view \in ViewType
  BY DEF AccountInv, DrainInv, TypeOK
<1>1. /\ view.open /\ ~op.running /\ UNCHANGED <<view, pod>> /\ wk[w].pc = "idle"
      /\ op' = [op EXCEPT !.running = TRUE, !.done = "none",
                          !.evicted = {}, !.waiting = {}, !.failed = {}]
  BY DEF SpawnDrain, Confirmable
<1>2. view.node = op.key
  BY <1>1 DEF AccountInv, PanelOnKey
<1>3. /\ op'.key = op.key /\ op'.running
      /\ op'.evicted = {} /\ op'.waiting = {} /\ op'.failed = {}
  BY <1>0, <1>1 DEF OpType
<1>4. PICK c \in BOOLEAN : /\ c <=> WorkersOf(view.node) = {}
                           /\ Goes(w, NewDrain(view.node, c))
  BY SpawnIs
<1>5. /\ wk'[w] = NewDrain(view.node, c)
      /\ \A v \in Workers : v # w => wk'[v] = wk[v]
  BY <1>0, <1>4, GoesFrame
<1>6. /\ wk'[w].pc = "cordon" /\ wk'[w].node = view.node /\ wk'[w].cur = {} /\ wk'[w].todo = {}
      /\ wk'[w].still = {} /\ wk'[w].settled = {} /\ wk'[w].kept = FALSE /\ wk'[w].counted = c
  <2>1. view.node \in Keys
    BY <1>0 DEF ViewType
  <2> QED BY <1>5, <2>1 DEF NewDrain, IdleWorker
<1>7. \A v \in Workers : wk[v].pc # "idle" => ~wk[v].counted
  BY <1>1, SoundNow DEF Book
<1>8. ASSUME c, NEW v \in Workers, wk[v].pc # "idle" PROVE wk[v].node # view.node
  BY <1>4, <1>8 DEF WorkersOf
<1>9. PanelOnKey'
  BY <1>1, <1>3 DEF AccountInv, PanelOnKey
<1>10. CountedAlone'
  <2>1. \A u, v \in Workers :
          (/\ wk'[u].pc # "idle" /\ wk'[v].pc # "idle" /\ wk'[u].node = wk'[v].node
           /\ wk'[v].counted) => u = v
    BY <1>5, <1>6, <1>7, <1>8
  <2> QED BY <2>1 DEF CountedAlone
<1>11. \A m \in Nodes : Movable(m)' \subseteq Movable(m)
  BY <1>1 DEF Movable
<1>12. Sound(w)'
  <2>1. Pass(w)'
    BY <1>6 DEF Pass
  <2>2. Book(w)'
    BY <1>2, <1>3, <1>6 DEF Book
  <2> QED BY <1>6, <2>1, <2>2 DEF Sound
<1>13. ASSUME NEW v \in Workers, v # w PROVE Sound(v)'
  <2>1. Fades(v) /\ (wk[v].pc = "idle" \/ ~wk'[v].counted)
    BY <1>5, <1>7, <1>13 DEF Fades
  <2> QED BY <1>11, <2>1, LeftSound
<1> QED BY <1>9, <1>10, <1>12, <1>13 DEF AccountStep

(* What the panel holds of the drains stays; nothing joins the node of a   *)
(* kept cordon.                                                            *)
LEMMA AccountKept ==
  ASSUME AccountInv, PanelOnKey', SameCounts, \A w \in Workers : Fades(w),
         \A n \in Nodes : n \in cordoned => Movable(n)' \subseteq Movable(n)
  PROVE  AccountStep
<1>1. \A w \in Workers : /\ wk'[w].pc = wk[w].pc /\ wk'[w].node = wk[w].node
                         /\ wk'[w].counted => wk[w].counted
  BY FadesFrame DEF AccountInv, DrainInv, TypeOK
<1>2. CountedAlone'
  BY <1>1 DEF AccountInv, CountedAlone
<1>3. ASSUME NEW v \in Workers PROVE Sound(v)'
  BY LeftSound
<1> QED BY <1>2, <1>3 DEF AccountStep

LEMMA AccountNext ==
  ASSUME AccountInv, [Next]_vars PROVE AccountStep
<1>0. TypeOK /\ LiveNodes
  BY DEF AccountInv, DrainInv
<1>1. CASE OperatorStep
  <2>0. pod' = pod
    BY <1>0, <1>1, OperatorFrame
  <2>1. CASE /\ UNCHANGED <<op, pre>>
             /\ ~view'.open \/ (view.open /\ view'.open /\ view'.node = view.node)
             /\ wk' = wk \/ \E n \in Nodes : wk' = Uncordoned(n)
    <3>1. PanelOnKey' /\ SameCounts
      BY <2>1 DEF AccountInv, PanelOnKey, SameCounts
    <3>2. \A n \in Nodes : Movable(n)' \subseteq Movable(n)
      BY <2>0 DEF Movable
    <3>3. \A w \in Workers : Fades(w)
      BY <2>1, UncordonedFades DEF Fades
    <3> QED BY <3>1, <3>2, <3>3, AccountKept
  <2> QED BY <1>0, <1>1, <2>1, OperatorOp, AccountOpen, AccountSpawn
<1>2. ASSUME NEW w \in Workers, DrainStep(w) PROVE AccountStep
  BY <1>2, AccountDrain
<1>3. ASSUME NEW t \in Preflights, PreflightStep(t) PROVE AccountStep
  <2>1. UNCHANGED <<view, wk, pod>> /\ SameCounts
    <3>1. CASE Collect(t)
      BY <3>1 DEF Collect, SameCounts
    <3>2. CASE PublishFindings(t)
      BY <1>0, <3>2 DEF PublishFindings, Publish, TypeOK, OpType, SameCounts
    <3> QED BY <1>3, <3>1, <3>2 DEF PreflightStep
  <2>2. PanelOnKey' /\ \A w \in Workers : Fades(w)
    BY <2>1 DEF AccountInv, PanelOnKey, SameCounts, Fades
  <2>3. \A n \in Nodes : Movable(n)' \subseteq Movable(n)
    BY <2>1 DEF Movable
  <2> QED BY <2>1, <2>2, <2>3, AccountKept
<1>4. CASE PollNodeOp \/ FetchNodes \/ ClusterStep \/ UNCHANGED vars
  <2>1. UNCHANGED <<op, wk>>
    BY <1>4 DEF PollNodeOp, FetchNodes, ClusterStep, Terminated, Completed, Recreated, vars
  <2>2. PanelOnKey'
    <3>1. CASE PollNodeOp
      BY <1>0, <3>1 DEF PollNodeOp, AccountInv, PanelOnKey, TypeOK, ViewType
    <3>2. CASE FetchNodes \/ ClusterStep \/ UNCHANGED vars
      BY <3>2 DEF FetchNodes, ClusterStep, Terminated, Completed, Recreated, vars,
                  AccountInv, PanelOnKey
    <3> QED BY <1>4, <3>1, <3>2
  <2>3. \A n \in Nodes : n \in cordoned => Movable(n)' \subseteq Movable(n)
    <3>1. pod' = pod \/ ClusterStep
      BY <1>4 DEF PollNodeOp, FetchNodes, vars
    <3> QED BY <1>0, <3>1, ClusterShrinks DEF Movable
  <2>4. SameCounts /\ \A w \in Workers : Fades(w)
    BY <2>1 DEF SameCounts, Fades
  <2> QED BY <2>2, <2>3, <2>4, AccountKept
<1> QED BY <1>1, <1>2, <1>3, <1>4 DEF Next

LEMMA AccountAlways == Spec => []AccountInv
<1>1. Init => AccountInv
  <2> SUFFICES ASSUME Init PROVE AccountInv
    OBVIOUS
  <2>1. TypeOK /\ LiveNodes
    BY TypeInit DEF Init, LiveNodes, ClosedView, IdleWorker
  <2>2. \A w \in Workers : wk[w] = IdleWorker
    BY DEF Init
  <2>3. KeptOK /\ NoReturn /\ CountedAlone
    BY <2>2 DEF KeptOK, NoReturn, CountedAlone, IdleWorker
  <2>4. \A w \in Workers : Sound(w)
    BY <2>2 DEF Sound, Pass, Book, Cleared, IdleWorker
  <2>5. PanelOnKey
    BY DEF Init, PanelOnKey, ClosedView
  <2> QED BY <2>1, <2>3, <2>4, <2>5 DEF AccountInv, DrainInv
<1>2. DrainInv' /\ AccountStep => AccountInv'
  BY DEF AccountInv, AccountStep
<1>3. AccountInv /\ [Next]_vars => AccountStep
  BY AccountNext
<1>4. AccountInv /\ [Next]_vars => KeptOK' /\ NoReturn'
  BY KeptStep DEF AccountInv
<1>5. TypeOK' /\ LiveNodes' /\ KeptOK' /\ NoReturn' => DrainInv'
  BY DEF DrainInv
<1>6. AccountInv /\ [Next]_vars /\ TypeOK' /\ LiveNodes' => AccountInv'
  BY <1>2, <1>3, <1>4, <1>5
<1> QED BY <1>1, <1>6, TypeCorrect, PTL DEF Spec

(* Every pod a drain listed is done with, being asked about, still to ask  *)
(* or held, whatever panels are opened again and whatever other drains of  *)
(* the node run; and the panel tells of a drain which pods are evicted,    *)
(* which failed and which wait, until it is opened again, unless another   *)
(* drain of the node was under way at its start (`drain`, `publish`).      *)
THEOREM NoPodSlipsThrough == Spec => []DrainKeepsAccount
<1>1. AccountInv => DrainKeepsAccount
  <2> SUFFICES ASSUME AccountInv PROVE DrainKeepsAccount
    OBVIOUS
  <2>1. EveryPodAccounted
    BY DEF AccountInv, EveryPodAccounted, Sound, Pass
  <2>2. ASSUME NEW w \in Workers, wk[w].counted,
               wk[w].pc \in {"evict", "publish", "settle", "final"}
        PROVE  /\ op.key = wk[w].node
               /\ wk[w].settled = op.evicted \cup op.failed
               /\ op.evicted \cap op.failed = {}
               /\ wk[w].still \subseteq op.waiting
               /\ wk[w].pc = "final" => op.waiting \cap op.evicted = {}
    BY <2>2, SoundNow DEF Book, Pass
  <2> QED BY <2>1, <2>2 DEF AccountInv, DrainInv, DrainKeepsAccount, PanelShowsTheAccount
<1> QED BY <1>1, AccountAlways, PTL

(* A drain that reports success has left nothing to move on its node, if   *)
(* nobody lifted the cordon behind its back and the counts `drain` reads   *)
(* its success off are its own: the panel was not opened again since it    *)
(* started, and no other drain of the node was under way then.             *)
THEOREM SuccessIsTrue == Spec => []SuccessMeansEmptied
<1>1. AccountInv => SuccessMeansEmptied
  <2> SUFFICES ASSUME AccountInv, NEW w \in Workers, wk[w].pc = "report", wk[w].result = "ok",
                      wk[w].kept, wk[w].counted
               PROVE  ToEvict(wk[w].node) = {}
    BY DEF SuccessMeansEmptied
  <2>1. Movable(wk[w].node) = {} /\ wk[w].node \in Nodes /\ pod \in [Pods -> PodType]
    BY DEF AccountInv, DrainInv, TypeOK, LiveNodes, Sound, Cleared
  <2> QED BY <2>1, ToEvictMovable
<1> QED BY <1>1, AccountAlways, PTL
=============================================================================
