------------------------- MODULE DeletePanel_proofs -------------------------
(***************************************************************************)
(* What holds of the delete panel for any number of objects, looks, tasks  *)
(* and requests, however often and however soon it is opened again.        *)
(***************************************************************************)
EXTENDS DeletePanel, TLAPS

(* A task that is not idle is about an object, and has what it needs.      *)
LiveTasks ==
  /\ \A t \in Checks : /\ check[t].pc # "idle" => check[t].key \in Objects
                       /\ check[t].pc = "idle" => check[t] = IdleCheck
                       /\ check[t].pc = "publish" => check[t].got \in Findings
  /\ \A t \in Deletions : /\ del[t].pc # "idle" => /\ del[t].key \in Objects
                                                   /\ del[t].opening <= view.opening
                          /\ del[t].pc = "idle" => del[t] = IdleDeletion
  /\ \A r \in Requests : /\ web[r].pc # "idle" => web[r].key \in Objects
                         /\ web[r].pc = "send" => web[r].found \in Findings

(* The panel on the screen is the one the state is kept for.               *)
PanelHasState == Open => view.key = st.key

(* An opening starts one deletion, and remembers that it did.              *)
OneDeletionPerOpening ==
  /\ \A t, u \in Deletions :
       t # u /\ del[t].pc # "idle" /\ del[u].pc # "idle" => del[t].opening # del[u].opening
  /\ \A t \in Deletions :
       del[t].pc # "idle" /\ del[t].opening = view.opening => view.begun # None

(* On an object that was alone, the tasks are the panel's own: one check,  *)
(* as long as the panel loads, and deletions of this opening.              *)
OnlyItsOwn ==
  Open /\ view.alone =>
    /\ \A t \in Checks : check[t].pc # "idle" /\ check[t].key = view.key => st.loading
    /\ \A t, u \in Checks :
         t # u /\ check[t].pc # "idle" /\ check[u].pc # "idle" =>
           ~(check[t].key = view.key /\ check[u].key = view.key)
    /\ st.loading => \E t \in Checks : check[t].pc # "idle" /\ check[t].key = view.key
    /\ \A t \in Deletions :
         del[t].pc # "idle" /\ del[t].key = view.key => del[t].opening = view.opening

(* A chord armed or a name typed is the answer to what is on the screen.   *)
GestureIsForTheScreen ==
  Open =>
    /\ view.alone /\ view.armed => ~st.loading /\ ~Strict(Shown)
    /\ view.alone /\ view.typed # None => ~st.loading /\ Strict(Shown)
    /\ view.begun = None /\ (view.armed \/ view.typed = "name") => view.agreed = Act

PanelInv ==
  /\ TypeOK /\ LiveTasks
  /\ PanelHasState /\ OneDeletionPerOpening /\ OnlyItsOwn /\ GestureIsForTheScreen
  /\ OwnFindings /\ OwnOutcome /\ DangerIsTyped

-----------------------------------------------------------------------------
(* Types *)

LEMMA ShownType == ASSUME TypeOK PROVE Shown \in Findings
  BY DEF TypeOK, Shown, Findings

LEMMA ActType == ASSUME TypeOK, Open PROVE Act \in Acts
<1>1. view.key \in Objects
  BY DEF TypeOK, Open
<1>2. (IF view.alone THEN Shown ELSE None) \in Findings \cup {None}
  BY ShownType
<1> QED BY <1>1, <1>2 DEF Act, Acts

LEMMA VerdictType ==
  ASSUME TypeOK, NEW o \in Objects, NEW f \in Verdicts(o) PROVE f \in Findings
<1>1. object[o] \in Manifests \cup {Gone}
  BY DEF TypeOK
<1>2. \A m \in Manifests : Assess(m) \in SUBSET UNION {Assess(k) : k \in Manifests}
  OBVIOUS
<1>3. [reasons |-> {}, error |-> TRUE] \in Findings
  BY DEF Findings
<1>4. \A m \in Manifests : [reasons |-> Assess(m), error |-> FALSE] \in Findings
  BY <1>2 DEF Findings
<1> QED BY <1>1, <1>3, <1>4 DEF Verdicts

LEMMA IdleTypes ==
  /\ IdleCheck \in CheckType /\ IdleDeletion \in DeletionType /\ IdleRequest \in RequestType
  BY DeleteAssumption
  DEF IdleCheck, IdleDeletion, IdleRequest, CheckType, DeletionType, RequestType

LEMMA TypeInit == Init => TypeOK
  BY IdleTypes, DeleteAssumption DEF Init, TypeOK, NoView, NoState

LEMMA TypeSpawn ==
  ASSUME TypeOK, Open, NEW t \in Deletions, SpawnDelete(t),
         UNCHANGED <<check, web, object>>
  PROVE  TypeOK'
<1>1. Act \in Acts
  BY ActType
<1>2. [IdleDeletion EXCEPT !.pc = "send", !.key = view.key, !.opening = view.opening,
                           !.typed = (view.typed = "name"), !.found = view.found]
        \in DeletionType
  BY DEF TypeOK, IdleDeletion, DeletionType
<1>3. del' \in [Deletions -> DeletionType]
  BY <1>2 DEF SpawnDelete, TypeOK
<1> QED BY <1>1, <1>3 DEF SpawnDelete, TypeOK

LEMMA TypeNext == TypeOK /\ LiveTasks /\ [Next]_vars => TypeOK'
<1> SUFFICES ASSUME TypeOK, LiveTasks, [Next]_vars PROVE TypeOK'
  OBVIOUS
<1>1. ASSUME NEW o \in Objects, NEW t \in Checks, OpenDeleteView(o, t) PROVE TypeOK'
  <2>1. view.opening + 1 \in 0..MaxOpens
    BY <1>1, DeleteAssumption DEF OpenDeleteView, TypeOK
  <2>2. [IdleCheck EXCEPT !.pc = "get", !.key = o] \in CheckType
    BY DEF IdleCheck, CheckType
  <2>3. check' \in [Checks -> CheckType]
    BY <1>1, <2>2 DEF OpenDeleteView, TypeOK
  <2>4. PICK alone \in BOOLEAN : view' = [NoView EXCEPT !.key = o, !.opening = view.opening + 1,
                                                       !.alone = alone]
    BY <1>1 DEF OpenDeleteView
  <2>5. st' = [NoState EXCEPT !.key = o, !.loading = TRUE] /\ UNCHANGED <<del, web, object>>
    BY <1>1 DEF OpenDeleteView
  <2> QED BY <2>1, <2>3, <2>4, <2>5 DEF TypeOK, NoView, NoState
<1>2. CASE DeleteCancel
  BY <1>2 DEF DeleteCancel, TypeOK, NoView
<1>3. ASSUME NEW t \in Deletions, DeleteConfirm(t) PROVE TypeOK'
  <2>1. Open /\ Act \in Acts
    BY <1>3, ActType DEF DeleteConfirm, Confirmable
  <2>2. CASE SpawnDelete(t)
    BY <1>3, <2>1, <2>2, TypeSpawn DEF DeleteConfirm
  <2>3. CASE view' = [view EXCEPT !.typed = "other"] /\ UNCHANGED <<st, del>>
    BY <1>3, <2>3 DEF DeleteConfirm, TypeOK
  <2>4. CASE view' = [view EXCEPT !.armed = TRUE, !.agreed = Act] /\ UNCHANGED <<st, del>>
    BY <1>3, <2>1, <2>4 DEF DeleteConfirm, TypeOK
  <2> QED BY <1>3, <2>2, <2>3, <2>4 DEF DeleteConfirm
<1>4. ASSUME NEW text \in {"name", "other"}, DeleteInput(text) PROVE TypeOK'
  <2>1. Act \in Acts
    BY <1>4, ActType DEF DeleteInput
  <2>2. /\ UNCHANGED <<st, check, del, web, object>>
        /\ \E agreed \in {Act, None, view.agreed} :
             view' = [view EXCEPT !.typed = text, !.agreed = agreed]
    BY <1>4 DEF DeleteInput
  <2>3. PICK agreed \in Acts \cup {None} : view' = [view EXCEPT !.typed = text, !.agreed = agreed]
    BY <2>1, <2>2 DEF TypeOK
  <2> QED BY <2>2, <2>3 DEF TypeOK
<1>5. ASSUME NEW r \in Requests, NEW o \in Pages, NEW typed \in BOOLEAN, WebDelete(r, o, typed)
      PROVE  TypeOK'
  <2>1. [IdleRequest EXCEPT !.pc = "check", !.key = o, !.typed = typed] \in RequestType
    BY DeleteAssumption DEF IdleRequest, RequestType
  <2> QED BY <1>5, <2>1 DEF WebDelete, TypeOK
<1>6. CASE PollDelete
  BY <1>6 DEF PollDelete, TypeOK
<1>7. ASSUME NEW t \in Checks, Load(t) PROVE TypeOK'
  <2>1. check[t].key \in Objects
    BY <1>7 DEF Load, LiveTasks
  <2>2. PICK f \in Findings : check' = [check EXCEPT ![t].pc = "publish", ![t].got = f]
    BY <1>7, <2>1, VerdictType DEF Load
  <2>3. [check[t] EXCEPT !.pc = "publish", !.got = f] \in CheckType
    <3>1. check[t] \in CheckType
      BY DEF TypeOK
    <3> QED BY <3>1 DEF CheckType
  <2>4. check' \in [Checks -> CheckType]
    BY <2>2, <2>3 DEF TypeOK
  <2> QED BY <1>7, <2>4 DEF Load, TypeOK
<1>8. ASSUME NEW t \in Checks, Preflight(t) PROVE TypeOK'
  <2>1. check[t].got \in Findings
    BY <1>8 DEF Preflight, PublishKey, LiveTasks
  <2>2. /\ check[t].got.reasons \in SUBSET UNION {Assess(m) : m \in Manifests}
        /\ check[t].got.error \in BOOLEAN
    BY <2>1 DEF Findings
  <2>3. check' \in [Checks -> CheckType]
    BY <1>8, IdleTypes DEF Preflight, TypeOK
  <2>4. CASE PublishKey(t)
    <3>1. view' = view \/ view' = [view EXCEPT !.found = check[t].got]
      BY <1>8, <2>4 DEF Preflight
    <3>2. st' = [st EXCEPT !.loading = FALSE, !.reasons = check[t].got.reasons,
                           !.error = check[t].got.error] /\ UNCHANGED <<del, web, object>>
      BY <1>8, <2>4 DEF Preflight
    <3> QED BY <2>1, <2>2, <2>3, <3>1, <3>2 DEF TypeOK
  <2>5. CASE ~PublishKey(t)
    BY <1>8, <2>3, <2>5 DEF Preflight, TypeOK
  <2> QED BY <2>4, <2>5
<1>9. ASSUME NEW t \in Deletions, SendDelete(t) PROVE TypeOK'
  <2>1. del[t].key \in Objects
    BY <1>9 DEF SendDelete, LiveTasks
  <2>2. object' \in [Objects -> Manifests \cup {Gone}]
    BY <1>9, <2>1 DEF SendDelete, ServerDeletes, Deleted, TypeOK
  <2>3. \A ok \in BOOLEAN : [del[t] EXCEPT !.pc = "publish", !.ok = ok, !.typed = FALSE,
                                           !.found = None] \in DeletionType
    <3>1. del[t] \in DeletionType
      BY DEF TypeOK
    <3> QED BY <3>1 DEF DeletionType
  <2>4. del' \in [Deletions -> DeletionType]
    BY <1>9, <2>3 DEF SendDelete, TypeOK
  <2> QED BY <1>9, <2>2, <2>4 DEF SendDelete, TypeOK
<1>10. ASSUME NEW t \in Deletions, RunDelete(t) PROVE TypeOK'
  <2>1. del' \in [Deletions -> DeletionType]
    BY <1>10, IdleTypes DEF RunDelete, TypeOK
  <2>2. UNCHANGED <<view, check, web, object>>
    BY <1>10 DEF RunDelete
  <2>3. CASE st' = st
    BY <2>1, <2>2, <2>3 DEF TypeOK
  <2>4. ASSUME NEW done \in {"ok", "failed"}, st' = [st EXCEPT !.deleting = FALSE, !.done = done]
        PROVE  TypeOK'
    BY <2>1, <2>2, <2>4 DEF TypeOK
  <2> QED BY <1>10, <2>3, <2>4 DEF RunDelete
<1>11. ASSUME NEW r \in Requests, WebCheck(r) PROVE TypeOK'
  <2>1. web[r].key \in Objects
    BY <1>11 DEF WebCheck, LiveTasks
  <2>2. \A f \in Findings : [web[r] EXCEPT !.pc = "send", !.found = f] \in RequestType
    <3>1. web[r] \in RequestType
      BY DEF TypeOK
    <3> QED BY <3>1 DEF RequestType
  <2>3. PICK f \in Findings :
          web' = [web EXCEPT ![r] = IdleRequest]
            \/ web' = [web EXCEPT ![r].pc = "send", ![r].found = f]
    BY <1>11, <2>1, VerdictType DEF WebCheck
  <2>4. web' \in [Requests -> RequestType]
    BY <2>2, <2>3, IdleTypes DEF TypeOK
  <2> QED BY <1>11, <2>4 DEF WebCheck, TypeOK
<1>12. ASSUME NEW r \in Requests, WebSend(r) PROVE TypeOK'
  <2>1. web[r].key \in Objects
    BY <1>12 DEF WebSend, LiveTasks
  <2>2. object' \in [Objects -> Manifests \cup {Gone}]
    BY <1>12, <2>1 DEF WebSend, ServerDeletes, Deleted, TypeOK
  <2> QED BY <1>12, <2>2, IdleTypes DEF WebSend, TypeOK
<1>13. ASSUME NEW o \in Objects, NEW m \in Manifests \cup {Gone}, Changed(o, m) PROVE TypeOK'
  BY <1>13 DEF Changed, TypeOK
<1>14. CASE UNCHANGED vars
  BY <1>14 DEF vars, TypeOK
<1> QED
  BY <1>1, <1>2, <1>3, <1>4, <1>5, <1>6, <1>7, <1>8, <1>9, <1>10, <1>11, <1>12, <1>13, <1>14
  DEF Next, User, CheckStep, DeletionStep, WebStep

-----------------------------------------------------------------------------
(* The inductive invariant *)

LEMMA InvInit == Init => PanelInv
<1> SUFFICES ASSUME Init PROVE PanelInv
  OBVIOUS
<1>1. TypeOK
  BY TypeInit
<1>2. LiveTasks /\ OneDeletionPerOpening /\ DangerIsTyped
  BY DEF Init, LiveTasks, OneDeletionPerOpening, DangerIsTyped,
         IdleCheck, IdleDeletion, IdleRequest
<1>3. PanelHasState /\ OnlyItsOwn /\ OwnOutcome /\ GestureIsForTheScreen /\ OwnFindings
  BY DEF Init, Open, PanelHasState, OnlyItsOwn, OwnOutcome, GestureIsForTheScreen, OwnFindings,
         NoView
<1> QED BY <1>1, <1>2, <1>3 DEF PanelInv

LEMMA InvOpen ==
  ASSUME PanelInv, NEW o \in Objects, NEW t \in Checks, OpenDeleteView(o, t)
  PROVE  PanelInv'
<1> USE DEF PanelInv
<1>0. TypeOK'
  BY TypeNext DEF Next, User
<1>1. /\ view' = [NoView EXCEPT !.key = o, !.opening = view.opening + 1, !.alone = ~InFlight(o)]
      /\ st' = [NoState EXCEPT !.key = o, !.loading = TRUE]
      /\ check' = [check EXCEPT ![t] = [IdleCheck EXCEPT !.pc = "get", !.key = o]]
      /\ UNCHANGED <<del, web, object>>
      /\ check[t] = IdleCheck
  BY DEF OpenDeleteView
<1>2. /\ check'[t].pc = "get" /\ check'[t].key = o
      /\ \A u \in Checks \ {t} : check'[u] = check[u]
  BY <1>1 DEF TypeOK, IdleCheck
<1>3. /\ view'.key = o /\ view'.opening = view.opening + 1 /\ view'.begun = None
      /\ ~view'.armed /\ view'.typed = None /\ view'.alone = ~InFlight(o)
      /\ st'.key = o /\ st'.loading /\ ~st'.deleting /\ st'.done = None
  BY <1>1 DEF NoView, NoState
<1>4. /\ view.opening \in Nat
      /\ \A u \in Deletions : del[u].pc # "idle" => /\ del[u].opening \in Nat
                                                    /\ del[u].opening <= view.opening
  BY DeleteAssumption DEF TypeOK, DeletionType, LiveTasks
<1>5. LiveTasks'
  BY <1>1, <1>2, <1>3, <1>4 DEF LiveTasks
<1>6. OneDeletionPerOpening' /\ DangerIsTyped'
  BY <1>1, <1>3, <1>4 DEF OneDeletionPerOpening, DangerIsTyped
<1>7. view'.alone => /\ \A u \in Checks : check[u].key # o
                     /\ \A u \in Deletions : del[u].key # o
  BY <1>3 DEF InFlight
<1>8. OnlyItsOwn'
  BY <1>1, <1>2, <1>3, <1>7 DEF OnlyItsOwn
<1>9. OwnFindings'
  BY <1>2, <1>3 DEF OwnFindings
<1>10. PanelHasState' /\ OwnOutcome' /\ GestureIsForTheScreen'
  BY <1>3, NoneAssumption DEF PanelHasState, OwnOutcome, GestureIsForTheScreen, Open
<1> QED BY <1>0, <1>5, <1>6, <1>8, <1>9, <1>10

LEMMA InvCancel == ASSUME PanelInv, DeleteCancel PROVE PanelInv'
<1> USE DEF PanelInv
<1>0. TypeOK'
  BY TypeNext DEF Next, User
<1>1. /\ view'.key = None /\ view'.opening = view.opening /\ view'.begun = view.begun
      /\ UNCHANGED <<st, check, del, web, object>>
  BY DEF DeleteCancel, TypeOK, NoView
<1>2. LiveTasks' /\ OneDeletionPerOpening' /\ DangerIsTyped'
  BY <1>1 DEF LiveTasks, OneDeletionPerOpening, DangerIsTyped
<1>3. PanelHasState' /\ OnlyItsOwn' /\ OwnOutcome' /\ OwnFindings' /\ GestureIsForTheScreen'
  BY <1>1 DEF PanelHasState, OnlyItsOwn, OwnOutcome, OwnFindings, GestureIsForTheScreen, Open
<1> QED BY <1>0, <1>2, <1>3

(* An act that is started is the one agreed to, on findings the panel was  *)
(* told of its object, and typed through if they ask for it.               *)
LEMMA SpawnIsAgreed ==
  ASSUME PanelInv, NEW t \in Deletions, DeleteConfirm(t), SpawnDelete(t)
  PROVE  /\ Open /\ ~st.loading /\ ~st.deleting /\ st.done = None
         /\ view.begun = None /\ view.agreed = Act /\ view.found = Shown
         /\ Strict(Shown) => view.typed = "name"
<1> USE DEF PanelInv
<1>1. Open /\ ~st.loading /\ ~st.deleting /\ st.done = None
  BY DEF DeleteConfirm, Confirmable
<1>2. view.begun = None /\ view.found = Shown
  BY <1>1 DEF OwnOutcome, OwnFindings
<1>3. view'.begun = Act /\ Act \in Acts
  BY <1>1, ActType DEF SpawnDelete, TypeOK
<1>4. view'.begun # view.begun
  BY <1>2, <1>3, NoneAssumption
<1>5. \/ Strict(Shown) /\ view.typed = "name"
      \/ ~Strict(Shown) /\ view.armed
  BY <1>4 DEF DeleteConfirm, TypeOK
<1> QED BY <1>1, <1>2, <1>5 DEF GestureIsForTheScreen

LEMMA InvSpawn ==
  ASSUME PanelInv, NEW t \in Deletions, DeleteConfirm(t), SpawnDelete(t)
  PROVE  PanelInv'
<1> USE DEF PanelInv
<1>0. TypeOK'
  BY TypeNext DEF Next, User
<1>1. /\ Open /\ ~st.loading /\ ~st.deleting /\ st.done = None
      /\ view.begun = None /\ view.found = Shown /\ (Strict(Shown) => view.typed = "name")
  BY SpawnIsAgreed
<1>2. view.key \in Objects /\ Act \in Acts /\ Shown \in Findings /\ view.opening \in Nat
  BY <1>1, ActType, ShownType, DeleteAssumption DEF TypeOK, Open
<1>3. /\ view'.key = view.key /\ view'.opening = view.opening /\ view'.begun = Act
      /\ view'.armed = view.armed /\ view'.typed = view.typed /\ view'.found = view.found
      /\ view'.alone = view.alone
      /\ st'.key = st.key /\ st'.loading = st.loading /\ st'.deleting /\ st'.done = None
      /\ Shown' = Shown
      /\ UNCHANGED <<check, web, object>>
  BY DEF SpawnDelete, DeleteConfirm, TypeOK, Shown
<1>4. /\ del[t].pc = "idle"
      /\ del'[t].pc = "send" /\ del'[t].key = view.key /\ del'[t].found = view.found
      /\ del'[t].typed = (view.typed = "name") /\ del'[t].opening = view.opening
      /\ \A u \in Deletions \ {t} : del'[u] = del[u]
  BY DEF SpawnDelete, TypeOK, IdleDeletion
<1>5. LiveTasks'
  BY <1>2, <1>3, <1>4 DEF LiveTasks
<1>6. \A u \in Deletions : del[u].pc # "idle" => del[u].opening # view.opening
  BY <1>1 DEF OneDeletionPerOpening
<1>7. OneDeletionPerOpening'
  BY <1>2, <1>3, <1>4, <1>6, NoneAssumption DEF OneDeletionPerOpening
<1>8. DangerIsTyped'
  <2>1. del'[t].found = Shown /\ Shown # None
    BY <1>1, <1>2, <1>4, NoneAssumption
  <2>2. Strict(del'[t].found) => del'[t].typed
    BY <1>1, <1>4, <2>1
  <2>3. \A u \in Deletions : del'[u].pc = "send" =>
           del'[u].found # None /\ (Strict(del'[u].found) => del'[u].typed)
    BY <1>4, <2>1, <2>2 DEF DangerIsTyped
  <2> QED BY <1>3, <2>3 DEF DangerIsTyped, Strict
<1>9. OnlyItsOwn'
  BY <1>1, <1>3, <1>4 DEF OnlyItsOwn, Open
<1>10. PanelHasState' /\ OwnOutcome'
  BY <1>1, <1>2, <1>3, NoneAssumption DEF PanelHasState, OwnOutcome, Open
<1>11. OwnFindings'
  BY <1>1, <1>3 DEF OwnFindings, Open
<1>12. GestureIsForTheScreen'
  BY <1>1, <1>2, <1>3, NoneAssumption DEF GestureIsForTheScreen, Open, Strict
<1> QED BY <1>0, <1>5, <1>7, <1>8, <1>9, <1>10, <1>11, <1>12

(* A step of the panel that starts nothing and learns nothing keeps what   *)
(* relates it to its tasks; what it may change is the gesture.             *)
LEMMA PanelMoves ==
  ASSUME PanelInv, TypeOK', UNCHANGED <<st, check, del, web>>,
         view'.key = view.key, view'.opening = view.opening, view'.alone = view.alone,
         view'.begun = view.begun, view'.found = view.found,
         GestureIsForTheScreen'
  PROVE  PanelInv'
<1> USE DEF PanelInv
<1>1. LiveTasks' /\ OneDeletionPerOpening' /\ DangerIsTyped'
  BY DEF LiveTasks, OneDeletionPerOpening, DangerIsTyped
<1>2. PanelHasState' /\ OnlyItsOwn' /\ OwnOutcome' /\ OwnFindings'
  BY DEF PanelHasState, OnlyItsOwn, OwnOutcome, OwnFindings, Open, Shown
<1> QED BY <1>1, <1>2

LEMMA InvConfirm ==
  ASSUME PanelInv, NEW t \in Deletions, DeleteConfirm(t) PROVE PanelInv'
<1> USE DEF PanelInv
<1>0. TypeOK'
  BY TypeNext DEF Next, User
<1>1. CASE SpawnDelete(t)
  BY <1>1, InvSpawn
<1>2. CASE ~SpawnDelete(t)
  <2>1. Open /\ ~st.loading
    BY DEF DeleteConfirm, Confirmable
  <2>2. /\ UNCHANGED <<st, del, check, web, object>>
        /\ \/ /\ Strict(Shown) /\ view.typed = None
              /\ view' = [view EXCEPT !.typed = "other"]
           \/ /\ ~Strict(Shown) /\ ~view.armed
              /\ view' = [view EXCEPT !.armed = TRUE, !.agreed = Act]
    BY <1>2 DEF DeleteConfirm
  <2>3. view'.key = view.key /\ view'.opening = view.opening /\ view'.begun = view.begun
        /\ view'.found = view.found /\ view'.alone = view.alone /\ Shown' = Shown
    BY <2>2 DEF TypeOK, Shown
  <2>4. Act' = Act
    BY <2>3 DEF Act
  <2>5. CASE /\ Strict(Shown) /\ view.typed = None
             /\ view' = [view EXCEPT !.typed = "other"]
    <3>1. view'.typed = "other" /\ view'.armed = view.armed /\ view'.agreed = view.agreed
      BY <2>5 DEF TypeOK
    <3>2. GestureIsForTheScreen'
      BY <2>1, <2>2, <2>3, <2>4, <2>5, <3>1 DEF GestureIsForTheScreen, Strict
    <3> QED BY <1>0, <2>2, <2>3, <3>2, PanelMoves
  <2>6. CASE /\ ~Strict(Shown) /\ ~view.armed
             /\ view' = [view EXCEPT !.armed = TRUE, !.agreed = Act]
    <3>1. view'.typed = view.typed /\ view'.armed /\ view'.agreed = Act
      BY <2>6 DEF TypeOK
    <3>2. GestureIsForTheScreen'
      BY <2>1, <2>2, <2>3, <2>4, <2>6, <3>1 DEF GestureIsForTheScreen, Strict
    <3> QED BY <1>0, <2>2, <2>3, <3>2, PanelMoves
  <2> QED BY <2>2, <2>5, <2>6
<1> QED BY <1>1, <1>2

LEMMA InvInput ==
  ASSUME PanelInv, NEW text \in {"name", "other"}, DeleteInput(text) PROVE PanelInv'
<1> USE DEF PanelInv
<1>0. TypeOK'
  BY TypeNext DEF Next, User
<1>1. /\ Open /\ view.typed # None
      /\ view'.key = view.key /\ view'.opening = view.opening /\ view'.begun = view.begun
      /\ view'.found = view.found /\ view'.armed = view.armed /\ view'.typed = text
      /\ view'.alone = view.alone
      /\ UNCHANGED <<st, check, del, web, object>>
  BY DEF DeleteInput, TypeOK
<1>2. Shown' = Shown /\ Act' = Act
  BY <1>1 DEF Shown, Act
<1>3. view.begun = None /\ text = "name" => view'.agreed = Act
  BY DEF DeleteInput, TypeOK
<1>4. text = "other" /\ view.armed => view'.agreed = view.agreed
  BY DEF DeleteInput, TypeOK
<1>5. GestureIsForTheScreen'
  BY <1>1, <1>2, <1>3, <1>4, NoneAssumption DEF GestureIsForTheScreen, Strict
<1> QED BY <1>0, <1>1, <1>5, PanelMoves

LEMMA InvPreflight ==
  ASSUME PanelInv, NEW t \in Checks, Preflight(t) PROVE PanelInv'
<1> USE DEF PanelInv
<1>0. TypeOK'
  BY TypeNext DEF Next, CheckStep
<1>1. /\ check[t].pc = "publish" /\ check[t].got \in Findings /\ check[t].key \in Objects
      /\ check' = [check EXCEPT ![t] = IdleCheck] /\ UNCHANGED <<del, web, object>>
  BY DEF Preflight, PublishKey, LiveTasks
<1>2. /\ check'[t] = IdleCheck /\ IdleCheck.pc = "idle"
      /\ \A u \in Checks \ {t} : check'[u] = check[u]
  BY <1>1 DEF TypeOK, IdleCheck
<1>3. /\ view'.key = view.key /\ view'.opening = view.opening /\ view'.begun = view.begun
      /\ view'.armed = view.armed /\ view'.typed = view.typed /\ view'.agreed = view.agreed
      /\ view'.alone = view.alone
      /\ st'.key = st.key /\ st'.deleting = st.deleting /\ st'.done = st.done
  BY DEF Preflight, TypeOK
<1>4. LiveTasks' /\ OneDeletionPerOpening' /\ DangerIsTyped'
  BY <1>1, <1>2, <1>3 DEF LiveTasks, OneDeletionPerOpening, DangerIsTyped
<1>5. PanelHasState' /\ OwnOutcome'
  BY <1>3 DEF PanelHasState, OwnOutcome, Open
<1>6. CASE st.key # check[t].key
  <2>1. UNCHANGED <<view, st>>
    BY <1>1, <1>6 DEF Preflight, PublishKey
  <2>2. Open => check[t].key # view.key
    BY <1>6 DEF PanelHasState
  <2>3. \A u \in Checks : check'[u].pc # "idle" /\ check'[u].key = view.key
                            => u # t /\ check'[u] = check[u]
    BY <1>2
  <2>4. OnlyItsOwn'
    <3> SUFFICES ASSUME Open, view.alone PROVE OnlyItsOwn'
      BY <2>1 DEF OnlyItsOwn, Open
    <3>1. st.loading => \E u \in Checks \ {t} : check[u].pc # "idle" /\ check[u].key = view.key
      BY <2>2 DEF OnlyItsOwn
    <3> QED BY <1>1, <1>2, <2>1, <2>2, <3>1 DEF OnlyItsOwn
  <2>5. OwnFindings'
    <3>1. Shown' = Shown
      BY <2>1 DEF Shown
    <3> QED BY <1>2, <2>1, <2>2, <2>4, <3>1 DEF OwnFindings, OnlyItsOwn, Open
  <2>6. GestureIsForTheScreen'
    BY <2>1 DEF GestureIsForTheScreen, Open, Shown, Act, Strict
  <2> QED BY <1>0, <1>4, <1>5, <2>4, <2>5, <2>6
<1>7. CASE st.key = check[t].key
  <2>1. /\ st' = [st EXCEPT !.loading = FALSE, !.reasons = check[t].got.reasons,
                            !.error = check[t].got.error]
        /\ Open => view' = [view EXCEPT !.found = check[t].got]
    BY <1>1, <1>7 DEF Preflight, PublishKey, PanelHasState
  <2>2. /\ ~st'.loading
        /\ st'.reasons = check[t].got.reasons /\ st'.error = check[t].got.error
        /\ Open => view'.found = check[t].got
    BY <2>1 DEF TypeOK
  <2>3. Shown' = check[t].got
    BY <1>1, <2>2 DEF Shown, Findings
  <2>4. OnlyItsOwn'
    <3> SUFFICES ASSUME Open, view.alone PROVE OnlyItsOwn'
      BY <1>3 DEF OnlyItsOwn, Open
    <3>1. view.key = check[t].key
      BY <1>7 DEF PanelHasState
    <3>2. \A u \in Checks \ {t} : check[u].pc # "idle" => check[u].key # view.key
      BY <1>1, <3>1 DEF OnlyItsOwn
    <3>3. \A u \in Checks : check'[u].pc # "idle" => check'[u].key # view.key
      BY <1>2, <3>2
    <3>4. \A u \in Deletions :
            del'[u].pc # "idle" /\ del'[u].key = view.key => del'[u].opening = view.opening
      BY <1>1 DEF OnlyItsOwn
    <3> QED BY <1>3, <2>2, <3>3, <3>4 DEF OnlyItsOwn
  <2>5. OwnFindings'
    BY <1>3, <2>2, <2>3, <2>4 DEF OwnFindings, OnlyItsOwn, Open
  <2>6. GestureIsForTheScreen'
    <3> SUFFICES ASSUME Open PROVE GestureIsForTheScreen'
      BY <1>3 DEF GestureIsForTheScreen, Open
    <3>1. view.alone => st.loading
      BY <1>1, <1>7 DEF OnlyItsOwn, PanelHasState
    <3>2. view.alone => ~view.armed /\ view.typed = None
      BY <3>1 DEF GestureIsForTheScreen
    <3>3. ~view.alone => Act' = Act
      BY <1>3 DEF Act
    <3> QED BY <1>3, <3>2, <3>3, NoneAssumption DEF GestureIsForTheScreen
  <2> QED BY <1>0, <1>4, <1>5, <2>4, <2>5, <2>6
<1> QED BY <1>6, <1>7

LEMMA InvRunDelete ==
  ASSUME PanelInv, NEW t \in Deletions, RunDelete(t) PROVE PanelInv'
<1> USE DEF PanelInv
<1>0. TypeOK'
  BY TypeNext DEF Next, DeletionStep
<1>1. /\ del[t].pc = "publish" /\ del' = [del EXCEPT ![t] = IdleDeletion]
      /\ UNCHANGED <<view, check, web, object>>
  BY DEF RunDelete
<1>2. /\ del'[t] = IdleDeletion /\ IdleDeletion.pc = "idle"
      /\ \A u \in Deletions \ {t} : del'[u] = del[u]
  BY <1>1 DEF TypeOK, IdleDeletion
<1>3. LiveTasks' /\ OneDeletionPerOpening' /\ DangerIsTyped'
  BY <1>1, <1>2 DEF LiveTasks, OneDeletionPerOpening, DangerIsTyped
<1>4. /\ st'.key = st.key /\ st'.loading = st.loading /\ Shown' = Shown
      /\ IF st.key = del[t].key THEN ~st'.deleting /\ st'.done \in {"ok", "failed"}
         ELSE st' = st
  BY DEF RunDelete, TypeOK, Shown
<1>5. OnlyItsOwn'
  BY <1>1, <1>2, <1>4 DEF OnlyItsOwn, Open
<1>6. OwnOutcome'
  <2> SUFFICES ASSUME Open, st.key = del[t].key PROVE OwnOutcome'
    BY <1>1, <1>4 DEF OwnOutcome, Open
  <2>1. view.alone => view.begun # None
    BY <1>1 DEF OnlyItsOwn, OneDeletionPerOpening, PanelHasState
  <2> QED BY <1>1, <1>4, <2>1, NoneAssumption DEF OwnOutcome
<1>7. PanelHasState' /\ OwnFindings' /\ GestureIsForTheScreen'
  BY <1>1, <1>4 DEF PanelHasState, OwnFindings, GestureIsForTheScreen, Open, Act, Strict
<1> QED BY <1>0, <1>3, <1>5, <1>6, <1>7

(* The steps that leave the panel alone.                                   *)
LEMMA PanelFrame ==
  ASSUME PanelInv, TypeOK', LiveTasks', DangerIsTyped', UNCHANGED <<view, st>>,
         \A t \in Checks : /\ check'[t].pc # "idle" <=> check[t].pc # "idle"
                           /\ check'[t].key = check[t].key,
         \A t \in Deletions : /\ del'[t].pc # "idle" => del[t].pc # "idle"
                              /\ del'[t].key = del[t].key
                              /\ del'[t].opening = del[t].opening
  PROVE  PanelInv'
<1> USE DEF PanelInv
<1>1. OneDeletionPerOpening'
  BY DEF OneDeletionPerOpening
<1>2. OnlyItsOwn'
  BY DEF OnlyItsOwn, Open
<1>3. PanelHasState' /\ OwnOutcome' /\ OwnFindings' /\ GestureIsForTheScreen'
  BY DEF PanelHasState, OwnOutcome, OwnFindings, GestureIsForTheScreen, Open, Shown, Act, Strict
<1> QED BY <1>1, <1>2, <1>3

LEMMA InvOther ==
  ASSUME PanelInv, [Next]_vars,
         \/ PollDelete
         \/ \E t \in Checks : Load(t)
         \/ \E t \in Deletions : SendDelete(t)
         \/ \E r \in Requests, o \in Pages, typed \in BOOLEAN : WebDelete(r, o, typed)
         \/ \E r \in Requests : WebStep(r)
         \/ \E o \in Objects, m \in Manifests \cup {Gone} : Changed(o, m)
         \/ UNCHANGED vars
  PROVE  PanelInv'
<1> USE DEF PanelInv
<1>0. TypeOK'
  BY TypeNext
<1>1. CASE PollDelete
  <2>1. /\ view'.key = view.key /\ view'.opening = view.opening /\ view'.begun = view.begun
        /\ view'.found = view.found /\ view'.armed = view.armed /\ view'.typed = view.typed
        /\ view'.alone = view.alone
        /\ view'.agreed = view.agreed /\ UNCHANGED <<st, check, del, web, object>>
    BY <1>1 DEF PollDelete, TypeOK
  <2>2. GestureIsForTheScreen'
    BY <2>1 DEF GestureIsForTheScreen, Open, Shown, Act, Strict
  <2> QED BY <1>0, <2>1, <2>2, PanelMoves
<1>2. ASSUME NEW t \in Checks, Load(t) PROVE PanelInv'
  <2>1. check[t].key \in Objects /\ check[t].pc = "get"
    BY <1>2 DEF Load, LiveTasks
  <2>2. PICK f \in Findings : check' = [check EXCEPT ![t].pc = "publish", ![t].got = f]
    BY <1>2, <2>1, VerdictType DEF Load
  <2>3. check[t] \in CheckType
    BY DEF TypeOK
  <2>4. /\ check'[t].pc = "publish" /\ check'[t].got = f /\ check'[t].key = check[t].key
        /\ \A u \in Checks \ {t} : check'[u] = check[u]
    BY <2>2, <2>3 DEF CheckType, TypeOK
  <2>5. UNCHANGED <<view, st, del, web, object>>
    BY <1>2 DEF Load
  <2>6. LiveTasks' /\ DangerIsTyped'
    BY <2>1, <2>4, <2>5 DEF LiveTasks, DangerIsTyped
  <2>7. \A u \in Checks : /\ check'[u].pc # "idle" <=> check[u].pc # "idle"
                          /\ check'[u].key = check[u].key
    BY <2>1, <2>4
  <2> QED BY <1>0, <2>5, <2>6, <2>7, PanelFrame
<1>3. ASSUME NEW t \in Deletions, SendDelete(t) PROVE PanelInv'
  <2>1. PICK ok \in BOOLEAN :
          del' = [del EXCEPT ![t] = [del[t] EXCEPT !.pc = "publish", !.ok = ok,
                                                   !.typed = FALSE, !.found = None]]
    BY <1>3 DEF SendDelete
  <2>2. del[t] \in DeletionType /\ del[t].pc = "send"
    BY <1>3 DEF TypeOK, SendDelete
  <2>3. /\ del'[t].pc = "publish" /\ del'[t].key = del[t].key /\ del'[t].opening = del[t].opening
        /\ \A u \in Deletions \ {t} : del'[u] = del[u]
    BY <2>1, <2>2 DEF DeletionType, TypeOK
  <2>4. UNCHANGED <<view, st, check, web>>
    BY <1>3 DEF SendDelete
  <2>5. LiveTasks' /\ DangerIsTyped'
    BY <2>2, <2>3, <2>4 DEF LiveTasks, DangerIsTyped
  <2> QED BY <1>0, <2>2, <2>3, <2>4, <2>5, PanelFrame
<1>4. ASSUME NEW r \in Requests, NEW o \in Pages, NEW typed \in BOOLEAN, WebDelete(r, o, typed)
      PROVE  PanelInv'
  <2>1. /\ web'[r].pc = "check" /\ web'[r].key = o /\ o \in Objects
        /\ \A q \in Requests \ {r} : web'[q] = web[q]
        /\ UNCHANGED <<view, st, check, del, object>>
    BY <1>4, DeleteAssumption DEF WebDelete, TypeOK, IdleRequest
  <2>2. LiveTasks' /\ DangerIsTyped'
    BY <2>1 DEF LiveTasks, DangerIsTyped
  <2> QED BY <1>0, <2>1, <2>2, PanelFrame
<1>5. ASSUME NEW r \in Requests, WebCheck(r) PROVE PanelInv'
  <2>1. web[r].key \in Objects /\ web[r] \in RequestType
    BY <1>5 DEF WebCheck, LiveTasks, TypeOK
  <2>2. PICK f \in Findings : web' = IF Strict(f) /\ ~web[r].typed
                                    THEN [web EXCEPT ![r] = IdleRequest]
                                    ELSE [web EXCEPT ![r].pc = "send", ![r].found = f]
    BY <1>5, <2>1, VerdictType DEF WebCheck
  <2>3. \A q \in Requests \ {r} : web'[q] = web[q]
    BY <2>2 DEF TypeOK
  <2>4. UNCHANGED <<view, st, check, del, object>>
    BY <1>5 DEF WebCheck
  <2>5. CASE Strict(f) /\ ~web[r].typed
    <3>1. web'[r].pc = "idle"
      BY <2>2, <2>5 DEF TypeOK, IdleRequest
    <3>2. LiveTasks' /\ DangerIsTyped'
      BY <2>3, <2>4, <3>1 DEF LiveTasks, DangerIsTyped
    <3> QED BY <1>0, <2>4, <3>2, PanelFrame
  <2>6. CASE ~(Strict(f) /\ ~web[r].typed)
    <3>1. /\ web'[r].pc = "send" /\ web'[r].found = f /\ web'[r].typed = web[r].typed
          /\ web'[r].key = web[r].key
      BY <2>1, <2>2, <2>6 DEF TypeOK, RequestType
    <3>2. LiveTasks'
      BY <2>1, <2>3, <2>4, <3>1 DEF LiveTasks
    <3>3. Strict(web'[r].found) => web'[r].typed
      BY <2>6, <3>1
    <3>4. DangerIsTyped'
      BY <2>3, <2>4, <3>3 DEF DangerIsTyped, Strict
    <3> QED BY <1>0, <2>4, <3>2, <3>4, PanelFrame
  <2> QED BY <2>5, <2>6
<1>6. ASSUME NEW r \in Requests, WebSend(r) PROVE PanelInv'
  <2>1. /\ web'[r].pc = "idle" /\ \A q \in Requests \ {r} : web'[q] = web[q]
        /\ UNCHANGED <<view, st, check, del>>
    BY <1>6 DEF WebSend, TypeOK, IdleRequest
  <2>2. LiveTasks' /\ DangerIsTyped'
    BY <2>1 DEF LiveTasks, DangerIsTyped
  <2> QED BY <1>0, <2>1, <2>2, PanelFrame
<1>7. ASSUME NEW o \in Objects, NEW m \in Manifests \cup {Gone}, Changed(o, m) PROVE PanelInv'
  <2>1. UNCHANGED <<view, st, check, del, web>>
    BY <1>7 DEF Changed
  <2>2. LiveTasks' /\ DangerIsTyped'
    BY <2>1 DEF LiveTasks, DangerIsTyped
  <2> QED BY <1>0, <2>1, <2>2, PanelFrame
<1>8. CASE UNCHANGED vars
  <2>1. UNCHANGED <<view, st, check, del, web>>
    BY <1>8 DEF vars
  <2>2. LiveTasks' /\ DangerIsTyped'
    BY <2>1 DEF LiveTasks, DangerIsTyped
  <2> QED BY <1>0, <2>1, <2>2, PanelFrame
<1> QED BY <1>1, <1>2, <1>3, <1>4, <1>5, <1>6, <1>7, <1>8 DEF WebStep

LEMMA InvNext == PanelInv /\ [Next]_vars => PanelInv'
<1> SUFFICES ASSUME PanelInv, [Next]_vars PROVE PanelInv'
  OBVIOUS
<1>1. CASE \E o \in Objects, t \in Checks : OpenDeleteView(o, t)
  BY <1>1, InvOpen
<1>2. CASE DeleteCancel
  BY <1>2, InvCancel
<1>3. CASE \E t \in Deletions : DeleteConfirm(t)
  BY <1>3, InvConfirm
<1>4. CASE \E text \in {"name", "other"} : DeleteInput(text)
  BY <1>4, InvInput
<1>5. CASE \E t \in Checks : Preflight(t)
  BY <1>5, InvPreflight
<1>6. CASE \E t \in Deletions : RunDelete(t)
  BY <1>6, InvRunDelete
<1> QED BY <1>1, <1>2, <1>3, <1>4, <1>5, <1>6, InvOther
        DEF Next, User, CheckStep, DeletionStep, WebStep

-----------------------------------------------------------------------------
(* However often the panel is opened again while its tasks run: what is    *)
(* sent to the API server, from the panel or from a browser, had its name  *)
(* typed if what was last found of that very object is a danger or a       *)
(* failure; the panel shows what a check of its own object found; an       *)
(* opening starts one deletion at most.  If no request about the object    *)
(* was in flight at the opening, the findings and the outcome shown are    *)
(* this opening's own (src/delete.rs, `preflight`, `run_delete`;           *)
(* src/ui.rs, `delete_confirm`).                                           *)
THEOREM DeletionsAreOwned == Spec => []DeletionIsOwned
<1>1. PanelInv => DeletionIsOwned
  <2> SUFFICES ASSUME PanelInv PROVE OneDeletionAtATime
    BY DEF PanelInv, DeletionIsOwned
  <2> QED BY DEF PanelInv, OneDeletionAtATime, OneDeletionPerOpening, OnlyItsOwn
<1> QED BY <1>1, InvInit, InvNext, PTL DEF Spec

-----------------------------------------------------------------------------
(* Refinement *)

LEMMA ConsentNext ==
  ASSUME PanelInv, [Next]_vars PROVE [C!Next]_(C!vars)
<1> USE DEF PanelInv
<1> SUFFICES ASSUME ~UNCHANGED <<view.opening, view.agreed, view.begun>> PROVE C!Next
  BY DEF C!vars
<1>1. ASSUME NEW o \in Objects, NEW t \in Checks, OpenDeleteView(o, t) PROVE C!Next
  BY <1>1 DEF OpenDeleteView, NoView, C!Next, C!Open
<1>2. CASE DeleteCancel
  BY <1>2 DEF DeleteCancel, TypeOK, NoView, C!Next, C!Withdraw
<1>3. ASSUME NEW t \in Deletions, DeleteConfirm(t) PROVE C!Next
  <2>1. Open /\ view.begun = None
    BY <1>3 DEF DeleteConfirm, Confirmable, OwnOutcome
  <2>2. Act \in Acts /\ Act # None
    BY <2>1, ActType, NoneAssumption
  <2>3. CASE SpawnDelete(t)
    <3>1. view.agreed = Act
      BY <1>3, <2>3, SpawnIsAgreed
    <3>2. view'.opening = view.opening /\ view'.agreed = None /\ view'.begun = Act
      BY <2>3 DEF SpawnDelete, TypeOK
    <3> QED BY <2>1, <2>2, <3>1, <3>2 DEF C!Next, C!Start
  <2>4. CASE ~SpawnDelete(t)
    <3>1. \/ view' = [view EXCEPT !.typed = "other"]
          \/ view' = [view EXCEPT !.armed = TRUE, !.agreed = Act]
      BY <1>3, <2>4 DEF DeleteConfirm
    <3>2. view'.agreed = Act /\ view'.opening = view.opening /\ view'.begun = view.begun
      BY <3>1 DEF TypeOK
    <3> QED BY <2>1, <2>2, <3>2 DEF C!Next, C!Agree
  <2> QED BY <2>3, <2>4
<1>4. ASSUME NEW text \in {"name", "other"}, DeleteInput(text) PROVE C!Next
  <2>1. view'.opening = view.opening /\ view'.begun = view.begun
    BY <1>4 DEF DeleteInput, TypeOK
  <2>2. CASE view.begun = None /\ text = "name"
    <3>1. view'.agreed = Act /\ Act \in Acts
      BY <1>4, <2>2, ActType DEF DeleteInput, TypeOK
    <3> QED BY <2>1, <2>2, <3>1 DEF C!Next, C!Agree
  <2>3. CASE ~(view.begun = None /\ text = "name")
    <3>1. view'.agreed = None \/ view'.agreed = view.agreed
      BY <1>4, <2>3 DEF DeleteInput, TypeOK
    <3> QED BY <2>1, <3>1 DEF C!Next, C!Withdraw
  <2> QED BY <2>2, <2>3
<1>5. CASE PollDelete
  BY <1>5 DEF PollDelete, TypeOK
<1>6. ASSUME NEW t \in Checks, CheckStep(t) PROVE C!Next
  BY <1>6 DEF CheckStep, Load, Preflight, TypeOK
<1>7. ASSUME NEW t \in Deletions, DeletionStep(t) PROVE C!Next
  BY <1>7 DEF DeletionStep, SendDelete, RunDelete
<1>8. ASSUME NEW r \in Requests, WebStep(r) PROVE C!Next
  BY <1>8 DEF WebStep, WebCheck, WebSend
<1>9. CASE \/ \E r \in Requests, o \in Pages, typed \in BOOLEAN : WebDelete(r, o, typed)
           \/ \E o \in Objects, m \in Manifests \cup {Gone} : Changed(o, m)
           \/ UNCHANGED vars
  BY <1>9 DEF WebDelete, Changed, vars
<1> QED BY <1>1, <1>2, <1>3, <1>4, <1>5, <1>6, <1>7, <1>8, <1>9 DEF Next, User

(* The panel implements Consent: whenever it is opened and whatever tasks  *)
(* of earlier openings answer, a deletion starts only when the user has    *)
(* agreed, in this opening, to the deletion of that very object, and once  *)
(* per opening; if no request about the object was in flight at the        *)
(* opening, on the very findings that are shown when it starts             *)
(* (src/ui.rs, `delete_confirm`).                                          *)
THEOREM DeletePanelAsks == Spec => StartsWhatWasAgreed
<1>1. Init => C!Init
  BY DEF Init, NoView, C!Init
<1> QED BY <1>1, InvInit, InvNext, ConsentNext, PTL DEF Spec, StartsWhatWasAgreed, C!Spec
=============================================================================
