--------------------------- MODULE EditPanel_proofs ---------------------------
(***************************************************************************)
(* What holds of the edit panel for any number of objects, tasks, versions *)
(* and openings, however soon it is opened again, and on whatever object.  *)
(***************************************************************************)
EXTENDS EditPanel, TLAPS

(* A task that is not idle is about an object and carries a document of    *)
(* it; a write of a panel that was alone, the document that was reviewed.  *)
LiveTasks ==
  /\ \A t \in Loads : IF load[t].pc = "idle" THEN load[t] = IdleLoad
                      ELSE /\ load[t].key \in Objects
                           /\ load[t].got # None => load[t].got.of = load[t].key
  /\ \A t \in Applies :
       IF write[t].pc = "idle" THEN write[t] = IdleWrite
       ELSE /\ write[t].key \in Objects
            /\ write[t].doc \in Doc /\ write[t].doc.of = write[t].key
            /\ write[t].alone => write[t].from \in Doc /\ write[t].from.version = write[t].doc.version
            /\ write[t].opening \in 1..view.opening
            /\ write[t].pc = "publish" => write[t].result \in {"ok", "refused"}

(* The panel on the screen is the one the state is kept for.               *)
PanelHasState == Open => /\ view.key \in Objects /\ view.key = st.key
                         /\ view.opening >= 1

(* What this opening started is on its object, and it waits for it, unless *)
(* an answer to an earlier one came first.                                 *)
TasksOfTheOpening ==
  Open => \A t \in Applies :
    write[t].pc # "idle" /\ write[t].opening = view.opening =>
      /\ write[t].key = st.key
      /\ st.applying \/ (~view.alone /\ st.done # None)

(* On an object that was alone, what is in flight was started by this      *)
(* opening: one preflight, as long as the panel loads, and its writes.     *)
OnlyItsOwn ==
  Open /\ view.alone =>
    /\ \A t \in Loads : load[t].pc # "idle" /\ load[t].key = st.key => st.loading
    /\ \A t, u \in Loads :
         load[t].pc # "idle" /\ load[u].pc # "idle" /\ load[t].key = st.key /\ load[u].key = st.key
           => t = u
    /\ \A t \in Applies :
         write[t].pc # "idle" /\ write[t].key = st.key => write[t].opening = view.opening

(* An opening has one write in flight.                                     *)
OneWritePerOpening ==
  \A t, u \in Applies :
    write[t].pc # "idle" /\ write[u].pc # "idle" /\ write[t].opening = write[u].opening => t = u

(* Until its own checks land there is neither a document nor a file.       *)
NothingYet ==
  Open /\ view.alone /\ st.loading => st.doc = None /\ \A o \in Objects : file[o] = None

(* The temp file is of the object of the panel, and a later form of the    *)
(* document in hand, unless the object was not alone.                      *)
FileOfTheDocument ==
  /\ \A o \in Objects : file[o] # None =>
       /\ Open /\ view.key = o
       /\ file[o] \in File /\ file[o].doc.of = o
       /\ view.alone => st.doc \in Doc /\ file[o].doc.version = st.doc.version
  /\ view.phase = "editing" => file[view.key] # None

(* So is what is under review, of the document it is compared with.        *)
ReviewOfTheDocument ==
  Open /\ view.edited # None =>
    /\ view.edited.of = view.key
    /\ view.alone => view.from \in Doc /\ view.from.version = view.edited.version

(* The state is of its object: the document, and the outcome, which is of  *)
(* this opening unless the object was not alone.                           *)
StateIsOwn ==
  /\ st.doc # None => st.doc.of = st.key
  /\ st.done # None => st.done.doc.of = st.key
  /\ Open /\ view.alone /\ st.done # None => st.done.opening = view.opening

EditInv ==
  /\ TypeOK /\ LiveTasks /\ PanelHasState /\ TasksOfTheOpening
  /\ OnlyItsOwn /\ OneWritePerOpening
  /\ NothingYet /\ FileOfTheDocument /\ ReviewOfTheDocument /\ StateIsOwn

-----------------------------------------------------------------------------
(* The panel.                                                              *)

LEMMA NoneIsNoFile == None \notin File /\ \A f \in File : f # None
  BY NoneAssumption

LEMMA NoneIsNoOutcome == \A r \in Outcome : r # None
  BY NoneAssumption

LEMMA OneVersionOn ==
  ASSUME TypeOK, NEW o \in Objects, object[o].version < MaxVersion,
         object' = [object EXCEPT ![o].version = @ + 1]
  PROVE  object' \in [Objects -> ObjectType]
<1> DEFINE n == object[o].version + 1
           q == [object[o] EXCEPT !.version = n]
<1>1. object[o] \in ObjectType /\ object[o].version \in 1..MaxVersion
  BY DEF TypeOK, ObjectType, Versions
<1>2. n \in Versions
  BY <1>1, EditAssumption DEF Versions
<1>3. object' = [object EXCEPT ![o] = q]
  BY DEF TypeOK
<1> HIDE DEF n
<1>4. q \in ObjectType
  BY <1>1, <1>2 DEF ObjectType
<1> QED BY <1>3, <1>4 DEF TypeOK

(* Closing the panel.                                                      *)
LEMMA InvClosed ==
  ASSUME EditInv, Open, Closed, UNCHANGED <<st, load, write, object>>
  PROVE  EditInv'
<1> USE DEF EditInv
<1>1. /\ view' \in View /\ ~Open' /\ view'.opening = view.opening
      /\ view'.phase = "closed" /\ view'.edited = None
  BY EditAssumption DEF Closed, NoView, TypeOK, View, Open
<1>2. /\ file' \in [Objects -> File \cup {None}]
      /\ \A o \in Objects : file'[o] = None
  <2>1. \A o \in Objects : file[o] # None => view.key = o
    BY DEF FileOfTheDocument
  <2>2. file' = [file EXCEPT ![view.key] = None]
    BY DEF Closed
  <2> QED BY <2>1, <2>2 DEF TypeOK
<1>3. TypeOK'
  BY <1>1, <1>2 DEF TypeOK
<1>4. LiveTasks' /\ TasksOfTheOpening'
  BY <1>1 DEF LiveTasks, TasksOfTheOpening, Open
<1>5. OnlyItsOwn' /\ OneWritePerOpening' /\ StateIsOwn'
  BY <1>1 DEF OnlyItsOwn, OneWritePerOpening, StateIsOwn
<1>6. PanelHasState' /\ ReviewOfTheDocument'
  BY <1>1 DEF PanelHasState, ReviewOfTheDocument
<1>7. NothingYet' /\ FileOfTheDocument'
  BY <1>1, <1>2 DEF NothingYet, FileOfTheDocument
<1> QED BY <1>3, <1>4, <1>5, <1>6, <1>7

(* A step of the panel that stays open, or leaves the file of its object   *)
(* a version of the document.                                              *)
LEMMA InvPanel ==
  ASSUME EditInv, Open, UNCHANGED <<st, load, write, object>>,
         view' \in View, view'.key = view.key, view'.opening = view.opening,
         view'.phase # "closed", view'.alone = view.alone,
         view'.edited # None =>
           /\ view'.edited.of = view.key
           /\ view.alone => view'.from \in Doc /\ view'.from.version = view'.edited.version,
         file' \in [Objects -> File \cup {None}],
         \A o \in Objects \ {view.key} : file'[o] = file[o],
         file'[view.key] # None =>
           /\ file'[view.key] \in File /\ file'[view.key].doc.of = view.key
           /\ view.alone => /\ ~st.loading /\ st.doc \in Doc
                            /\ file'[view.key].doc.version = st.doc.version,
         view'.phase = "editing" => file'[view.key] # None
  PROVE  EditInv'
<1> USE DEF EditInv
<1>1. TypeOK' /\ Open'
  BY DEF TypeOK, Open
<1>2. view.key \in Objects
  BY DEF PanelHasState
<1>3. LiveTasks' /\ TasksOfTheOpening'
  BY DEF LiveTasks, TasksOfTheOpening, Open
<1>4. OnlyItsOwn' /\ OneWritePerOpening' /\ StateIsOwn'
  BY DEF OnlyItsOwn, OneWritePerOpening, StateIsOwn
<1>5. PanelHasState' /\ ReviewOfTheDocument'
  BY <1>1 DEF PanelHasState, ReviewOfTheDocument
<1>6. NothingYet'
  BY <1>1, <1>2 DEF NothingYet
<1>7. FileOfTheDocument'
  BY <1>1, <1>2 DEF FileOfTheDocument
<1> QED BY <1>1, <1>3, <1>4, <1>5, <1>6, <1>7

LEMMA InvToEditor ==
  ASSUME EditInv, Open, view.phase # "editing", ToEditor, UNCHANGED <<st, load, write, object>>
  PROVE  EditInv'
<1> USE DEF EditInv
<1>1. /\ view.key \in Objects /\ view.phase # "closed" /\ view \in View
      /\ view.edited # None =>
           /\ view.edited.of = view.key
           /\ view.alone => view.from \in Doc /\ view.from.version = view.edited.version
      /\ file \in [Objects -> File \cup {None}]
      /\ file[view.key] # None =>
           /\ file[view.key] \in File /\ file[view.key].doc.of = view.key
           /\ view.alone => /\ ~st.loading /\ st.doc \in Doc
                            /\ file[view.key].doc.version = st.doc.version
  BY DEF PanelHasState, Open, ReviewOfTheDocument, FileOfTheDocument, NothingYet, TypeOK
<1>2. CASE UNCHANGED <<view, file>>
  BY <1>1, <1>2, InvPanel
<1>3. CASE /\ Editable
           /\ view' = [view EXCEPT !.phase = "editing"]
           /\ file' = IF file[view.key] # None THEN file
                      ELSE [file EXCEPT ![view.key] = [doc |-> st.doc, valid |-> TRUE]]
  <2> DEFINE f == [doc |-> st.doc, valid |-> TRUE]
  <2>1. st.doc \in Doc /\ st.doc.of = view.key /\ (view.alone => ~st.loading)
    BY <1>3 DEF Editable, TypeOK, State, NothingYet, StateIsOwn, PanelHasState
  <2>2. f \in File /\ f.doc = st.doc /\ f # None
    <3>1. f \in File /\ f.doc = st.doc
      BY <2>1 DEF File
    <3>2. None \notin File
      BY NoneIsNoFile
    <3> QED BY <3>1, <3>2
  <2>3. /\ view' \in View /\ view'.key = view.key /\ view'.opening = view.opening
        /\ view'.alone = view.alone /\ view'.phase = "editing" /\ view'.edited = view.edited /\ view'.from = view.from
    BY <1>1, <1>3 DEF View
  <2>4. file' = IF file[view.key] # None THEN file ELSE [file EXCEPT ![view.key] = f]
    BY <1>3
  <2> HIDE DEF f
  <2>5. /\ file' \in [Objects -> File \cup {None}]
        /\ \A o \in Objects \ {view.key} : file'[o] = file[o]
        /\ file'[view.key] # None
        /\ file'[view.key] \in File /\ file'[view.key].doc.of = view.key
        /\ view.alone => file'[view.key].doc.version = st.doc.version
    BY <1>1, <2>1, <2>2, <2>4
  <2> QED BY <1>1, <2>1, <2>3, <2>5, InvPanel
<1>4. CASE /\ Editable /\ file[view.key] = None
           /\ view' = [view EXCEPT !.phase = "review", !.error = TRUE]
           /\ UNCHANGED file
  <2>1. /\ view' \in View /\ view'.key = view.key /\ view'.opening = view.opening
        /\ view'.alone = view.alone /\ view'.phase = "review" /\ view'.edited = view.edited /\ view'.from = view.from
    BY <1>1, <1>4 DEF View
  <2> QED BY <1>1, <1>4, <2>1, InvPanel
<1> QED BY <1>2, <1>3, <1>4 DEF ToEditor

LEMMA InvEditorReturned ==
  ASSUME EditInv, NEW ok \in BOOLEAN, EditorReturned(ok) PROVE EditInv'
<1> USE DEF EditInv
<1>1. /\ Open /\ view.phase = "editing" /\ view.key \in Objects /\ view \in View
      /\ UNCHANGED <<st, load, write, object>>
  BY DEF EditorReturned, Open, PanelHasState, TypeOK
<1>2. /\ file[view.key] \in File /\ file[view.key].doc.of = view.key
      /\ st.doc \in Doc \cup {None}
      /\ view.alone => /\ ~st.loading /\ st.doc \in Doc
                       /\ file[view.key].doc.version = st.doc.version
  BY <1>1 DEF FileOfTheDocument, NothingYet, TypeOK, State
<1>3. PICK f \in Buffers(file[view.key]) :
         IF ok /\ f.valid /\ f.doc = st.doc
         THEN Closed
         ELSE /\ file' = [file EXCEPT ![view.key] = f]
              /\ view' = IF ok /\ f.valid
                         THEN [view EXCEPT !.phase = "review", !.edited = f.doc,
                                           !.from = st.doc, !.error = FALSE]
                         ELSE [view EXCEPT !.phase = "review", !.edited = None,
                                           !.from = None, !.error = TRUE]
  BY DEF EditorReturned
<1>4. /\ f \in File /\ f # None /\ f.doc.of = view.key
      /\ f.doc.version = file[view.key].doc.version
  <2>1. CASE f = file[view.key]
    BY <1>2, <2>1, NoneIsNoFile
  <2>2. CASE \E e \in Edits, b \in BOOLEAN :
               f = [doc |-> [file[view.key].doc EXCEPT !.edit = e], valid |-> b]
    BY <1>2, <2>2, NoneIsNoFile DEF File, Doc
  <2> QED BY <1>3, <2>1, <2>2 DEF Buffers
<1>5. CASE Closed
  BY <1>1, <1>5, InvClosed
<1>6. CASE ~Closed
  <2>1. file' = [file EXCEPT ![view.key] = f]
    BY <1>3, <1>6
  <2>2. /\ file' \in [Objects -> File \cup {None}] /\ file'[view.key] = f
        /\ \A o \in Objects \ {view.key} : file'[o] = file[o]
    BY <1>1, <1>4, <2>1 DEF TypeOK
  <2>3. /\ view' \in View /\ view'.key = view.key /\ view'.opening = view.opening
        /\ view'.phase = "review" /\ view'.alone = view.alone
        /\ view'.edited # None =>
             /\ view'.edited.of = view.key
             /\ view.alone => view'.from \in Doc /\ view'.from.version = view'.edited.version
    <3>1. CASE view' = [view EXCEPT !.phase = "review", !.edited = f.doc,
                                    !.from = st.doc, !.error = FALSE]
      <4>1. f.doc \in Doc
        BY <1>4 DEF File
      <4> QED BY <1>1, <1>2, <1>4, <3>1, <4>1 DEF View
    <3>2. CASE view' = [view EXCEPT !.phase = "review", !.edited = None,
                                    !.from = None, !.error = TRUE]
      BY <1>1, <3>2 DEF View
    <3> QED BY <1>3, <1>6, <3>1, <3>2
  <2> QED BY <1>1, <1>2, <1>4, <2>2, <2>3, InvPanel
<1> QED BY <1>5, <1>6

LEMMA InvOpen ==
  ASSUME EditInv, NEW o \in Objects, NEW t \in Loads, OpenEditView(o, t)
  PROVE  EditInv'
<1> USE DEF EditInv
<1> DEFINE n == view.opening + 1
           p == [IdleLoad EXCEPT !.pc = "get", !.key = o]
           v == [NoView EXCEPT !.key = o, !.opening = n, !.alone = ~InFlight(o), !.phase = "loading"]
           s == [NoState EXCEPT !.key = o, !.loading = TRUE]
<1>1. /\ view' = v /\ st' = s /\ load' = [load EXCEPT ![t] = p]
      /\ UNCHANGED <<file, write, object>>
      /\ load[t] = IdleLoad /\ view.opening < MaxOpens /\ ~Open
  BY DEF OpenEditView
<1>2. n \in 1..MaxOpens /\ n \in 0..MaxOpens /\ view.opening \in 0..MaxOpens
  BY <1>1, EditAssumption DEF TypeOK, View
<1> HIDE DEF n
<1>3. p \in LoadType /\ p.pc = "get" /\ p.key = o /\ p.got = None
  BY DEF IdleLoad, LoadType
<1>4. /\ v \in View /\ v.key = o /\ v.opening = n /\ v.phase = "loading" /\ v.edited = None
      /\ v.alone => /\ \A u \in Loads : load[u].key # o
                    /\ \A u \in Applies : write[u].key # o
  <2>1. PICK b \in BOOLEAN : b = ~InFlight(o)
    OBVIOUS
  <2>2. v = [NoView EXCEPT !.key = o, !.opening = n, !.alone = b, !.phase = "loading"]
    BY <2>1
  <2> HIDE DEF v
  <2>3. /\ v \in View /\ v.key = o /\ v.opening = n /\ v.phase = "loading" /\ v.edited = None
        /\ v.alone = b
    BY <1>2, <2>2 DEF NoView, View
  <2> QED BY <2>1, <2>3 DEF InFlight
<1>5. /\ s \in State /\ s.key = o /\ s.loading /\ s.doc = None /\ s.done = None /\ ~s.applying
  BY DEF NoState, State
<1> HIDE DEF p, v, s
<1>6. /\ load' \in [Loads -> LoadType] /\ load'[t] = p
      /\ \A u \in Loads \ {t} : load'[u] = load[u]
  BY <1>1, <1>3 DEF TypeOK
<1>7. TypeOK' /\ Open'
  BY <1>1, <1>4, <1>5, <1>6 DEF TypeOK, Open
<1>8. \A u \in Applies : write[u].pc # "idle" =>
        write[u].opening # n /\ write[u].opening \in 1..n
  <2>1. \A k \in 1..view.opening : k # n /\ k \in 1..n
    BY <1>2 DEF n
  <2> QED BY <2>1 DEF LiveTasks
<1>9. LiveTasks'
  <2>1. view'.opening = n
    BY <1>1, <1>4
  <2>2. \A u \in Loads : IF load'[u].pc = "idle" THEN load'[u] = IdleLoad
                         ELSE /\ load'[u].key \in Objects
                              /\ load'[u].got # None => load'[u].got.of = load'[u].key
    BY <1>3, <1>6 DEF LiveTasks
  <2> QED BY <1>1, <1>8, <2>1, <2>2 DEF LiveTasks
<1>10. TasksOfTheOpening'
  BY <1>1, <1>3, <1>4, <1>5, <1>6, <1>8 DEF TasksOfTheOpening
<1>11. OnlyItsOwn' /\ OneWritePerOpening'
  BY <1>1, <1>3, <1>4, <1>5, <1>6, <1>7 DEF OnlyItsOwn, OneWritePerOpening, LiveTasks
<1>12. PanelHasState' /\ ReviewOfTheDocument' /\ StateIsOwn'
  BY <1>1, <1>2, <1>4, <1>5 DEF PanelHasState, ReviewOfTheDocument, StateIsOwn
<1>13. NothingYet' /\ FileOfTheDocument'
  <2>1. \A u \in Objects : file[u] = None
    BY <1>1 DEF FileOfTheDocument
  <2> QED BY <1>1, <1>4, <1>5, <2>1 DEF NothingYet, FileOfTheDocument
<1> QED BY <1>7, <1>9, <1>10, <1>11, <1>12, <1>13

LEMMA InvSpawn ==
  ASSUME EditInv, Open, view.phase # "editing", ~st.loading, ~st.applying, st.done = None,
         NEW t \in Applies, SpawnApply(t), UNCHANGED <<load, object>>
  PROVE  EditInv'
<1> USE DEF EditInv
<1> DEFINE p == [IdleWrite EXCEPT !.pc = "put", !.key = view.key, !.opening = view.opening,
                                  !.alone = view.alone, !.doc = view.edited, !.from = view.from]
           s == [st EXCEPT !.applying = TRUE, !.done = None]
<1>1. /\ write' = [write EXCEPT ![t] = p] /\ st' = s /\ UNCHANGED <<view, file, load, object>>
      /\ view.edited # None /\ write[t] = IdleWrite
  BY DEF SpawnApply
<1>2. /\ view.key \in Objects /\ view.key = st.key
      /\ view.edited \in Doc /\ view.edited.of = view.key
      /\ view.from \in Doc \cup {None} /\ view.alone \in BOOLEAN
      /\ view.alone => view.from \in Doc /\ view.from.version = view.edited.version
      /\ view.opening \in 1..view.opening /\ view.opening \in 0..MaxOpens
  <2>1. view.opening \in 0..MaxOpens /\ view.opening >= 1
    BY DEF TypeOK, View, PanelHasState
  <2> QED BY <1>1, <2>1, EditAssumption DEF TypeOK, View, PanelHasState, ReviewOfTheDocument
<1>3. /\ p \in WriteType /\ p.pc = "put" /\ p.key = view.key /\ p.opening = view.opening
      /\ p.alone = view.alone /\ p.doc = view.edited /\ p.from = view.from
  BY <1>2 DEF IdleWrite, WriteType
<1>4. /\ s \in State /\ s.key = st.key /\ ~s.loading /\ s.applying /\ s.done = None
      /\ s.doc = st.doc
  BY DEF State, TypeOK
<1> HIDE DEF p, s
<1>5. /\ write' \in [Applies -> WriteType] /\ write'[t] = p
      /\ \A u \in Applies \ {t} : write'[u] = write[u]
  BY <1>1, <1>3 DEF TypeOK
<1>6. TypeOK' /\ Open'
  BY <1>1, <1>4, <1>5 DEF TypeOK, Open
<1>7. \A u \in Applies : write[u].pc # "idle" =>
        write[u].opening # view.opening
  BY DEF TasksOfTheOpening
<1>8. LiveTasks'
  BY <1>1, <1>2, <1>3, <1>5 DEF LiveTasks
<1>9. TasksOfTheOpening'
  BY <1>1, <1>2, <1>3, <1>4, <1>5, <1>7 DEF TasksOfTheOpening
<1>10. OnlyItsOwn' /\ OneWritePerOpening'
  BY <1>1, <1>2, <1>3, <1>4, <1>5, <1>6, <1>7 DEF OnlyItsOwn, OneWritePerOpening
<1>11. PanelHasState' /\ ReviewOfTheDocument' /\ StateIsOwn' /\ NothingYet'
  BY <1>1, <1>4 DEF PanelHasState, ReviewOfTheDocument, StateIsOwn, NothingYet, Open
<1>12. FileOfTheDocument'
  BY <1>1, <1>4 DEF FileOfTheDocument, Open
<1> QED BY <1>6, <1>8, <1>9, <1>10, <1>11, <1>12

LEMMA InvConfirm ==
  ASSUME EditInv, EditConfirm PROVE EditInv'
<1>1. /\ Open /\ view.phase # "editing" /\ ~st.loading /\ ~st.applying
      /\ UNCHANGED <<load, object>>
  BY DEF EditConfirm, Keys, Confirmable
<1>2. CASE Closed /\ UNCHANGED <<st, write>>
  BY <1>1, <1>2, InvClosed
<1>3. CASE ToEditor /\ UNCHANGED <<st, write>>
  BY <1>1, <1>3, InvToEditor
<1>4. CASE st.done = None /\ \E t \in Applies : SpawnApply(t)
  BY <1>1, <1>4, InvSpawn
<1> QED BY <1>2, <1>3, <1>4 DEF EditConfirm

LEMMA InvPoll ==
  ASSUME EditInv, PollEdit PROVE EditInv'
<1>1. /\ Open /\ view.phase = "loading" /\ UNCHANGED <<st, load, write, object>>
  BY DEF PollEdit, Open
<1>2. CASE ToEditor
  BY <1>1, <1>2, InvToEditor
<1>3. CASE view' = [view EXCEPT !.phase = "warned"] /\ UNCHANGED file
  <2>1. /\ view.edited # None =>
             /\ view.edited.of = view.key
             /\ view.alone => view.from \in Doc /\ view.from.version = view.edited.version
        /\ file \in [Objects -> File \cup {None}]
        /\ view.key \in Objects
        /\ file[view.key] # None =>
             /\ file[view.key] \in File /\ file[view.key].doc.of = view.key
             /\ view.alone => /\ ~st.loading /\ st.doc \in Doc
                              /\ file[view.key].doc.version = st.doc.version
    BY <1>1 DEF EditInv, PanelHasState, ReviewOfTheDocument, FileOfTheDocument, NothingYet, TypeOK
  <2>2. /\ view' \in View /\ view'.key = view.key /\ view'.opening = view.opening
        /\ view'.alone = view.alone /\ view'.phase = "warned" /\ view'.edited = view.edited /\ view'.from = view.from
    BY <1>3 DEF EditInv, TypeOK, View
  <2> QED BY <1>1, <1>3, <2>1, <2>2, InvPanel
<1> QED BY <1>2, <1>3 DEF PollEdit

-----------------------------------------------------------------------------
(* The tasks and the server.                                               *)

LEMMA InvLoadObject ==
  ASSUME EditInv, NEW t \in Loads, LoadObject(t) PROVE EditInv'
<1> USE DEF EditInv
<1>1. /\ load[t].pc = "get" /\ load[t].key \in Objects /\ load[t] \in LoadType
      /\ object[load[t].key] \in ObjectType
      /\ UNCHANGED <<view, st, file, write, object>>
  BY DEF LoadObject, LiveTasks, TypeOK
<1>2. PICK p \in LoadType : /\ load' = [load EXCEPT ![t] = p]
                            /\ p.pc = "publish" /\ p.key = load[t].key
                            /\ p.got # None => p.got.of = p.key
  <2> DEFINE o == object[load[t].key]
  <2>1. CASE load' = [load EXCEPT ![t].pc = "publish", ![t].reasons = o.reasons,
                         ![t].got = [of |-> load[t].key, version |-> o.version,
                                     edit |-> AsFetched]]
    <3> DEFINE d == [of |-> load[t].key, version |-> o.version, edit |-> AsFetched]
               q == [load[t] EXCEPT !.pc = "publish", !.reasons = o.reasons, !.got = d]
    <3>1. d \in Doc /\ d.of = load[t].key /\ o.reasons \in SUBSET Levels
      BY <1>1 DEF Doc, ObjectType
    <3>2. load' = [load EXCEPT ![t] = q]
      BY <2>1 DEF TypeOK
    <3> HIDE DEF d, o
    <3>3. q \in LoadType /\ q.pc = "publish" /\ q.key = load[t].key /\ q.got = d
      BY <1>1, <3>1 DEF LoadType
    <3> QED BY <3>1, <3>2, <3>3
  <2>2. CASE load' = [load EXCEPT ![t].pc = "publish"]
    <3> DEFINE q == [load[t] EXCEPT !.pc = "publish"]
    <3>1. load' = [load EXCEPT ![t] = q]
      BY <2>2 DEF TypeOK
    <3>2. q \in LoadType /\ q.pc = "publish" /\ q.key = load[t].key /\ q.got = load[t].got
      BY <1>1 DEF LoadType
    <3>3. load[t].got # None => load[t].got.of = load[t].key
      BY <1>1 DEF LiveTasks
    <3> QED BY <3>1, <3>2, <3>3
  <2> QED BY <2>1, <2>2 DEF LoadObject
<1>3. /\ load' \in [Loads -> LoadType] /\ load'[t] = p
      /\ \A u \in Loads \ {t} : load'[u] = load[u]
  BY <1>2 DEF TypeOK
<1>4. TypeOK'
  BY <1>1, <1>3 DEF TypeOK
<1>5. LiveTasks' /\ TasksOfTheOpening'
  BY <1>1, <1>2, <1>3 DEF LiveTasks, TasksOfTheOpening, Open
<1>6. OnlyItsOwn' /\ OneWritePerOpening'
  BY <1>1, <1>2, <1>3 DEF OnlyItsOwn, OneWritePerOpening, Open
<1>7. PanelHasState' /\ ReviewOfTheDocument' /\ StateIsOwn' /\ NothingYet' /\ FileOfTheDocument'
  BY <1>1 DEF PanelHasState, ReviewOfTheDocument, StateIsOwn, NothingYet, FileOfTheDocument, Open
<1> QED BY <1>4, <1>5, <1>6, <1>7

LEMMA InvPreflight ==
  ASSUME EditInv, NEW t \in Loads, Preflight(t) PROVE EditInv'
<1> USE DEF EditInv
<1>1. /\ load[t].pc = "publish" /\ load[t] \in LoadType
      /\ load' = [load EXCEPT ![t] = IdleLoad]
      /\ UNCHANGED <<view, file, write, object>>
  BY DEF Preflight, TypeOK
<1>2. IdleLoad \in LoadType /\ IdleLoad.pc = "idle"
  BY EditAssumption DEF IdleLoad, LoadType
<1>3. /\ load' \in [Loads -> LoadType] /\ load'[t] = IdleLoad
      /\ \A u \in Loads \ {t} : load'[u] = load[u]
  BY <1>1, <1>2 DEF TypeOK
<1>4. OneWritePerOpening' /\ LiveTasks' /\ ReviewOfTheDocument'
  BY <1>1, <1>2, <1>3 DEF OneWritePerOpening, LiveTasks, ReviewOfTheDocument, Open
<1>5. CASE st.key # load[t].key
  <2>1. st' = st
    BY <1>5 DEF Preflight
  <2>2. TypeOK' /\ TasksOfTheOpening'
    BY <1>1, <1>3, <2>1 DEF TypeOK, TasksOfTheOpening, Open
  <2>3. OnlyItsOwn'
    BY <1>1, <1>2, <1>3, <2>1 DEF OnlyItsOwn, Open
  <2>4. PanelHasState' /\ StateIsOwn' /\ NothingYet' /\ FileOfTheDocument'
    BY <1>1, <2>1 DEF PanelHasState, StateIsOwn, NothingYet, FileOfTheDocument, Open
  <2> QED BY <1>4, <2>2, <2>3, <2>4
<1>6. CASE st.key = load[t].key
  <2> DEFINE s == [st EXCEPT !.loading = FALSE, !.reasons = load[t].reasons,
                             !.doc = load[t].got, !.error = load[t].got = None]
  <2>1. st' = s
    BY <1>6 DEF Preflight
  <2>2. /\ s \in State /\ s.key = st.key /\ ~s.loading /\ s.applying = st.applying
        /\ s.done = st.done /\ s.doc = load[t].got
    <3>1. load[t].reasons \in SUBSET Levels /\ load[t].got \in Doc \cup {None}
      BY <1>1 DEF LoadType
    <3>2. (load[t].got = None) \in BOOLEAN
      OBVIOUS
    <3> QED BY <3>1, <3>2 DEF TypeOK, State
  <2> HIDE DEF s
  <2>3. Open /\ view.alone => st.loading /\ \A o \in Objects : file[o] = None
    BY <1>1, <1>6 DEF OnlyItsOwn, NothingYet
  <2>4. TypeOK' /\ TasksOfTheOpening'
    BY <1>1, <1>3, <2>1, <2>2 DEF TypeOK, TasksOfTheOpening, Open
  <2>5. OnlyItsOwn'
    BY <1>1, <1>2, <1>3, <1>6, <2>1, <2>2 DEF OnlyItsOwn, Open
  <2>6. PanelHasState' /\ NothingYet'
    BY <1>1, <2>1, <2>2 DEF PanelHasState, NothingYet, Open
  <2>7. StateIsOwn'
    BY <1>1, <1>6, <2>1, <2>2 DEF StateIsOwn, LiveTasks, Open
  <2>8. FileOfTheDocument'
    BY <1>1, <2>3 DEF FileOfTheDocument, Open
  <2> QED BY <1>4, <2>4, <2>5, <2>6, <2>7, <2>8
<1> QED BY <1>5, <1>6

LEMMA InvReplace ==
  ASSUME EditInv, NEW t \in Applies, Replace(t) PROVE EditInv'
<1> USE DEF EditInv
<1>1. /\ write[t].pc = "put" /\ write[t] \in WriteType /\ write[t].key \in Objects
      /\ UNCHANGED <<view, st, file, load>>
  BY DEF Replace, LiveTasks, TypeOK
<1>2. PICK answer \in {"ok", "refused"} :
         write' = [write EXCEPT ![t].pc = "publish", ![t].result = answer]
  BY DEF Replace
<1> DEFINE p == [write[t] EXCEPT !.pc = "publish", !.result = answer]
<1>3. write' = [write EXCEPT ![t] = p]
  BY <1>2 DEF TypeOK
<1>4. /\ p \in WriteType /\ p.pc = "publish" /\ p.key = write[t].key
      /\ p.opening = write[t].opening /\ p.alone = write[t].alone /\ p.doc = write[t].doc /\ p.from = write[t].from
      /\ p.result = answer
  BY <1>1 DEF WriteType
<1> HIDE DEF p
<1>5. /\ write' \in [Applies -> WriteType] /\ write'[t] = p
      /\ \A u \in Applies \ {t} : write'[u] = write[u]
  BY <1>3, <1>4 DEF TypeOK
<1>6. object' \in [Objects -> ObjectType]
  <2>1. CASE UNCHANGED object
    BY <2>1 DEF TypeOK
  <2>2. CASE /\ object[write[t].key].version < MaxVersion
             /\ object' = [object EXCEPT ![write[t].key].version = @ + 1]
    BY <1>1, <2>2, OneVersionOn
  <2> QED BY <2>1, <2>2 DEF Replace
<1>7. TypeOK'
  BY <1>1, <1>5, <1>6 DEF TypeOK
<1>8. LiveTasks'
  BY <1>1, <1>4, <1>5 DEF LiveTasks
<1>9. TasksOfTheOpening'
  BY <1>1, <1>4, <1>5 DEF TasksOfTheOpening, Open
<1>10. OnlyItsOwn' /\ OneWritePerOpening'
  BY <1>1, <1>4, <1>5 DEF OnlyItsOwn, OneWritePerOpening, Open
<1>11. PanelHasState' /\ ReviewOfTheDocument' /\ StateIsOwn' /\ NothingYet' /\ FileOfTheDocument'
  BY <1>1 DEF PanelHasState, ReviewOfTheDocument, StateIsOwn, NothingYet, FileOfTheDocument, Open
<1> QED BY <1>7, <1>8, <1>9, <1>10, <1>11

LEMMA InvApply ==
  ASSUME EditInv, NEW t \in Applies, Apply(t) PROVE EditInv'
<1> USE DEF EditInv
<1>1. /\ write[t].pc = "publish" /\ write[t] \in WriteType
      /\ write[t].doc \in Doc /\ write[t].doc.of = write[t].key
      /\ write[t].opening \in 1..view.opening
      /\ write' = [write EXCEPT ![t] = IdleWrite]
      /\ UNCHANGED <<view, file, load, object>>
  BY DEF Apply, TypeOK, LiveTasks
<1>2. IdleWrite \in WriteType /\ IdleWrite.pc = "idle"
  BY EditAssumption DEF IdleWrite, WriteType
<1>3. /\ write' \in [Applies -> WriteType] /\ write'[t] = IdleWrite
      /\ \A u \in Applies \ {t} : write'[u] = write[u]
  BY <1>1, <1>2 DEF TypeOK
<1>4. LiveTasks'
  BY <1>1, <1>2, <1>3 DEF LiveTasks
<1>5. OneWritePerOpening' /\ ReviewOfTheDocument'
  BY <1>1, <1>2, <1>3 DEF OneWritePerOpening, ReviewOfTheDocument, Open
<1>6. CASE st.key # write[t].key
  <2>1. st' = st
    BY <1>6 DEF Apply
  <2>2. TypeOK' /\ TasksOfTheOpening' /\ OnlyItsOwn'
    BY <1>1, <1>2, <1>3, <2>1 DEF TypeOK, TasksOfTheOpening, OnlyItsOwn, Open
  <2>3. PanelHasState' /\ StateIsOwn' /\ NothingYet' /\ FileOfTheDocument'
    BY <1>1, <2>1 DEF PanelHasState, StateIsOwn, NothingYet, FileOfTheDocument, Open
  <2> QED BY <1>4, <1>5, <2>2, <2>3
<1>7. CASE st.key = write[t].key
  <2>1. Open /\ view.alone => write[t].opening = view.opening
    BY <1>1, <1>7 DEF OnlyItsOwn
  <2> DEFINE r == [result |-> write[t].result, doc |-> write[t].doc,
                   opening |-> write[t].opening]
             s == [st EXCEPT !.applying = FALSE, !.done = r]
  <2>2. st' = s
    BY <1>7 DEF Apply
  <2>3. /\ r \in Outcome
        /\ r.opening = write[t].opening /\ r.doc.of = st.key /\ r # None
    <3>1. write[t].result \in {"ok", "refused"}
      BY <1>1 DEF LiveTasks
    <3>2. write[t].opening \in 1..MaxOpens
      <4>1. view.opening \in 0..MaxOpens
        BY DEF TypeOK, View
      <4> QED BY <1>1, <4>1, EditAssumption
    <3>3. r \in Outcome
      BY <1>1, <3>1, <3>2 DEF Outcome
    <3> QED BY <1>7, <3>3, <1>1, NoneIsNoOutcome
  <2> HIDE DEF r
  <2>4. /\ s \in State /\ s.key = st.key /\ s.loading = st.loading /\ ~s.applying
        /\ s.done = r /\ s.doc = st.doc
    BY <2>3 DEF TypeOK, State
  <2> HIDE DEF s
  <2>5. TypeOK'
    BY <1>1, <1>3, <2>2, <2>4 DEF TypeOK
  <2>6. TasksOfTheOpening'
    <3> SUFFICES ASSUME Open, NEW u \in Applies, write'[u].pc # "idle",
                        write'[u].opening = view.opening
                 PROVE  write'[u].key = st'.key /\ ~view.alone /\ st'.done # None
      BY <1>1 DEF TasksOfTheOpening, Open
    <3>1. u # t /\ write'[u] = write[u]
      BY <1>2, <1>3
    <3>2. write[u].key = st.key
      BY <3>1 DEF TasksOfTheOpening
    <3>3. ~view.alone
      BY <1>1, <2>1, <3>1 DEF OneWritePerOpening
    <3> QED BY <2>2, <2>3, <2>4, <3>1, <3>2, <3>3
  <2>7. OnlyItsOwn'
    BY <1>1, <1>2, <1>3, <2>2, <2>4 DEF OnlyItsOwn, Open
  <2>8. PanelHasState' /\ StateIsOwn' /\ NothingYet' /\ FileOfTheDocument'
    BY <1>1, <2>1, <2>2, <2>3, <2>4 DEF PanelHasState, StateIsOwn, NothingYet,
                                        FileOfTheDocument, Open
  <2> QED BY <1>4, <1>5, <2>5, <2>6, <2>7, <2>8
<1> QED BY <1>6, <1>7

LEMMA InvServer ==
  ASSUME EditInv, UNCHANGED <<view, st, file, load, write>>, object' \in [Objects -> ObjectType]
  PROVE  EditInv'
<1>1. TypeOK'
  BY DEF EditInv, TypeOK
<1> QED BY <1>1 DEF EditInv, LiveTasks, PanelHasState, TasksOfTheOpening, OnlyItsOwn,
                    OneWritePerOpening, NothingYet, FileOfTheDocument, ReviewOfTheDocument,
                    StateIsOwn, Open

LEMMA InvInit == Init => EditInv
<1> SUFFICES ASSUME Init PROVE EditInv
  OBVIOUS
<1>1. view = NoView /\ NoView \in View /\ NoView.opening = 0 /\ NoView.phase = "closed"
      /\ NoView.edited = None
  BY EditAssumption DEF Init, NoView, View
<1>2. st = NoState /\ NoState \in State /\ NoState.done = None /\ ~NoState.loading
      /\ NoState.doc = None
  BY DEF Init, NoState, State
<1>3. load = [t \in Loads |-> IdleLoad] /\ IdleLoad \in LoadType /\ IdleLoad.pc = "idle"
  BY EditAssumption DEF Init, IdleLoad, LoadType
<1>4. write = [t \in Applies |-> IdleWrite] /\ IdleWrite \in WriteType /\ IdleWrite.pc = "idle"
  BY EditAssumption DEF Init, IdleWrite, WriteType
<1>5. object \in [Objects -> ObjectType] /\ file = [o \in Objects |-> None]
  <2>1. [version : {1}, alive : {TRUE}, reasons : SUBSET Levels] \subseteq ObjectType
    <3>1. 1 \in Versions
      BY EditAssumption DEF Versions
    <3> QED BY <3>1 DEF ObjectType
  <2> QED BY <2>1 DEF Init
<1>6. TypeOK
  BY <1>1, <1>2, <1>3, <1>4, <1>5 DEF TypeOK
<1>7. LiveTasks /\ TasksOfTheOpening /\ OnlyItsOwn /\ OneWritePerOpening
  BY <1>3, <1>4 DEF LiveTasks, TasksOfTheOpening, OnlyItsOwn, OneWritePerOpening
<1>8. PanelHasState /\ NothingYet /\ FileOfTheDocument /\ ReviewOfTheDocument /\ StateIsOwn
  BY <1>1, <1>2, <1>5 DEF PanelHasState, NothingYet, FileOfTheDocument, ReviewOfTheDocument,
                          StateIsOwn, Open
<1> QED BY <1>6, <1>7, <1>8 DEF EditInv

LEMMA InvNext ==
  ASSUME EditInv, [Next]_vars PROVE EditInv'
<1>1. ASSUME NEW o \in Objects, NEW t \in Loads, OpenEditView(o, t) PROVE EditInv'
  BY <1>1, InvOpen
<1>2. CASE CloseEditView
  BY <1>2, InvClosed DEF CloseEditView, Keys
<1>3. CASE RequestEditor
  BY <1>3, InvToEditor DEF RequestEditor, Keys
<1>4. CASE EditConfirm
  BY <1>4, InvConfirm
<1>5. CASE PollEdit
  BY <1>5, InvPoll
<1>6. ASSUME NEW ok \in BOOLEAN, EditorReturned(ok) PROVE EditInv'
  BY <1>6, InvEditorReturned
<1>7. ASSUME NEW t \in Loads, LoadStep(t) PROVE EditInv'
  BY <1>7, InvLoadObject, InvPreflight DEF LoadStep
<1>8. ASSUME NEW t \in Applies, WriteStep(t) PROVE EditInv'
  BY <1>8, InvReplace, InvApply DEF WriteStep
<1>9. ASSUME NEW o \in Objects, Changed(o) PROVE EditInv'
  <2>1. object' \in [Objects -> ObjectType]
    BY <1>9, OneVersionOn DEF EditInv, Changed
  <2> QED BY <1>9, <2>1, InvServer DEF Changed
<1>10. ASSUME NEW o \in Objects, Deleted(o) PROVE EditInv'
  <2> DEFINE q == [object[o] EXCEPT !.alive = FALSE]
  <2>1. object' = [object EXCEPT ![o] = q] /\ q \in ObjectType
    BY <1>10 DEF EditInv, TypeOK, Deleted, ObjectType
  <2>2. object' \in [Objects -> ObjectType]
    BY <2>1 DEF EditInv, TypeOK
  <2> QED BY <1>10, <2>2, InvServer DEF Deleted
<1>11. CASE UNCHANGED vars
  <2>1. object' \in [Objects -> ObjectType]
    BY <1>11 DEF EditInv, TypeOK, vars
  <2> QED BY <1>11, <2>1, InvServer DEF vars
<1> QED BY <1>1, <1>2, <1>3, <1>4, <1>5, <1>6, <1>7, <1>8, <1>9, <1>10, <1>11
        DEF Next, PanelStep, ServerStep

LEMMA InvImplies == EditInv => PanelTellsItsOwn
<1> SUFFICES ASSUME EditInv PROVE PanelTellsItsOwn
  OBVIOUS
<1> USE DEF EditInv
<1>1. OwnDocument
  BY DEF OwnDocument, FileOfTheDocument, LiveTasks, StateIsOwn, PanelHasState, ReviewOfTheDocument
<1>2. OwnOutcome
  BY DEF OwnOutcome, StateIsOwn, PanelHasState
<1>3. OneWriteAtATime
  <2>1. \A t, u \in Applies :
          write[t].pc # "idle" /\ write[u].pc # "idle" /\ write[t].opening = write[u].opening => t = u
    BY DEF OneWritePerOpening
  <2>2. ASSUME NEW t \in Applies, Open, write[t].opening = view.opening
        PROVE  st.applying \/ (~view.alone /\ st.done # None)
    <3>1. CASE write[t].pc = "idle"
      <4>1. write[t].opening = 0
        BY <3>1 DEF LiveTasks, IdleWrite
      <4>2. view.opening >= 1 /\ view.opening \in 0..MaxOpens
        BY <2>2 DEF PanelHasState, TypeOK, View
      <4> QED BY <2>2, <4>1, <4>2, EditAssumption
    <3>2. CASE write[t].pc # "idle"
      BY <2>2, <3>2 DEF TasksOfTheOpening
    <3> QED BY <3>1, <3>2
  <2> QED BY <2>1, <2>2 DEF OneWriteAtATime
<1>4. DiffIsTheChange
  <2> SUFFICES ASSUME view.alone, view.phase = "review", view.edited # None
               PROVE  view.from # None /\ view.from.version = view.edited.version
    BY DEF DiffIsTheChange
  <2>1. view.from \in Doc /\ view.from.version = view.edited.version
    BY DEF ReviewOfTheDocument, Open
  <2> QED BY <2>1, NoneAssumption
<1>5. FileGoesWithThePanel
  BY DEF FileGoesWithThePanel, FileOfTheDocument
<1> QED BY <1>1, <1>2, <1>3, <1>4, <1>5 DEF PanelTellsItsOwn

(* What the panel shows and holds is its own, however soon it was opened   *)
(* again: its documents, the outcome, its one write and the file, which    *)
(* goes with it, are of its object; and where nothing was in flight about  *)
(* the object when it was opened, the outcome is of a write of its own and *)
(* the diff is the change made (`open_edit_view` to `poll_edit`).          *)
THEOREM EditsAreOwned == Spec => []PanelTellsItsOwn
<1>1. Init => EditInv
  BY InvInit
<1>2. EditInv /\ [Next]_vars => EditInv'
  BY InvNext
<1>3. EditInv => PanelTellsItsOwn
  BY InvImplies
<1> QED BY <1>1, <1>2, <1>3, PTL DEF Spec

(* What a step may do to a document.                                       *)
LEMMA WriteIsReviewed ==
  ASSUME EditInv, Next, NEW t \in Applies, write[t].pc = "put",
         object'[write[t].key].version # object[write[t].key].version,
         write'[t].pc = "publish"
  PROVE  /\ write[t].doc.of = write[t].key
         /\ write[t].doc.version = object[write[t].key].version
         /\ write[t].alone => write[t].from # None /\ write[t].from.version = write[t].doc.version
<1>1. write' # write /\ object' # object
  OBVIOUS
<1>2. PICK u \in Applies : Replace(u)
  BY <1>1 DEF Next, PanelStep, OpenEditView, CloseEditView, RequestEditor, EditConfirm, PollEdit,
              EditorReturned, LoadStep, LoadObject, Preflight, WriteStep, Apply, ServerStep,
              Changed, Deleted
<1>3. u = t
  <2>1. PICK answer \in {"ok", "refused"} :
          write' = [write EXCEPT ![u].pc = "publish", ![u].result = answer]
    BY <1>2 DEF Replace
  <2>2. u # t => write'[t] = write[t]
    BY <2>1 DEF EditInv, TypeOK
  <2> QED BY <2>2
<1>4. object[write[t].key].version = write[t].doc.version
  BY <1>1, <1>2, <1>3 DEF Replace
<1>5. /\ write[t].doc.of = write[t].key
      /\ write[t].alone => write[t].from \in Doc /\ write[t].from.version = write[t].doc.version
  BY DEF EditInv, LiveTasks
<1> QED BY <1>4, <1>5, NoneAssumption

(* Only an editable panel goes to the editor.                              *)
LEMMA EditIsFree ==
  ASSUME EditInv, Next, view.phase # "editing", view'.phase = "editing",
         NEW t \in Applies, write[t].opening = view.opening, write[t].pc # "idle"
  PROVE  ~view.alone /\ Refused
<1>1. Open /\ ~st.applying /\ ~Accepted
  <2>1. ToEditor /\ view' # view => Editable \/ view'.phase = "review"
    BY DEF ToEditor, EditInv, TypeOK, View
  <2>2. Closed => view'.phase = "closed"
    BY DEF Closed, NoView
  <2>3. ASSUME NEW o \in Objects, NEW u \in Loads, OpenEditView(o, u)
        PROVE  view'.phase = "loading"
    BY <2>3 DEF OpenEditView, NoView
  <2>4. view' = [view EXCEPT !.phase = "warned"] => view'.phase = "warned"
    BY DEF EditInv, TypeOK, View
  <2>5. RequestEditor \/ EditConfirm \/ PollEdit => Open
    BY DEF RequestEditor, EditConfirm, PollEdit, Keys, Open
  <2>6. (RequestEditor \/ EditConfirm \/ PollEdit) /\ (Editable \/ view'.phase = "review")
    BY <2>1, <2>2, <2>3, <2>4
    DEF Next, PanelStep, CloseEditView, RequestEditor, EditConfirm, SpawnApply, PollEdit,
        EditorReturned, LoadStep, LoadObject, Preflight, WriteStep, Replace, Apply, ServerStep,
        Changed, Deleted
  <2> QED BY <2>5, <2>6 DEF Editable
<1>2. ~view.alone /\ st.done # None
  BY <1>1 DEF EditInv, TasksOfTheOpening
<1>3. st.done \in Outcome
  BY <1>2 DEF EditInv, TypeOK, State
<1> QED BY <1>1, <1>2, <1>3 DEF Accepted, Refused, Outcome

(* From the document shown to the document written nothing comes between,  *)
(* however soon the panel was opened again: the server takes a write of    *)
(* the object addressed alone, over the very version the document was made *)
(* from; that is the version it was reviewed against where nothing was in  *)
(* flight about the object at the opening; and nothing is edited while a   *)
(* write of this opening is under way, but after the refusal of an earlier *)
(* one (`editor_returned`, `request_editor`, `edit::apply`).               *)
THEOREM EditsAreReviewed == Spec => ReviewIsKept
<1>1. Init => EditInv
  BY InvInit
<1>2. EditInv /\ [Next]_vars => EditInv'
  BY InvNext
<1>3. EditInv /\ [Next]_vars =>
        [\A t \in Applies :
           /\ write[t].pc = "put"
           /\ object'[write[t].key].version # object[write[t].key].version
           /\ write'[t].pc = "publish"
           => /\ write[t].doc.of = write[t].key
              /\ write[t].doc.version = object[write[t].key].version
              /\ write[t].alone => /\ write[t].from # None
                                   /\ write[t].from.version = write[t].doc.version]_vars
  BY WriteIsReviewed
<1>4. EditInv /\ [Next]_vars =>
        [view.phase # "editing" /\ view'.phase = "editing"
         => \A t \in Applies :
              write[t].opening = view.opening /\ write[t].pc # "idle" => ~view.alone /\ Refused]_vars
  BY EditIsFree
<1> QED BY <1>1, <1>2, <1>3, <1>4, PTL DEF Spec, ReviewIsKept, WrittenAsReviewed, NoEditDuringWrite
=============================================================================
