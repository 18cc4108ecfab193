------------------------------ MODULE EditPanel ------------------------------
(***************************************************************************)
(* Editing an object in $EDITOR (src/ui.rs: `open_edit_view` to            *)
(* `poll_edit`; src/edit.rs: `preflight`, `apply`): the panel, the state   *)
(* it shares with the tasks it spawns, the temp file, the tasks, and the   *)
(* objects on the API server with their resourceVersion.                   *)
(*                                                                         *)
(* A document is of an object, at the version it was fetched, with what    *)
(* the user made of it; the user leaves the `metadata` alone.  The code    *)
(* knows a task's result by the object only: the panel may be opened again *)
(* on an object while a task of an earlier opening is in flight.           *)
(* `opening` and `alone` (nothing was in flight about the object at this   *)
(* opening) are history, and tell whose a result is.                       *)
(***************************************************************************)
EXTENDS Integers, FiniteSets

CONSTANTS None,                \* no object, no document, no answer
          Objects,
          Loads, Applies,      \* task slots: requests in flight at once
          MaxOpens,            \* openings of the panel
          MaxVersion,          \* versions of an object
          Edits                \* what the user can make of a document

AsFetched == "as fetched"

ASSUME EditAssumption ==
    /\ None \notin Objects
    /\ AsFetched \notin Edits
    /\ MaxOpens \in Nat /\ MaxVersion \in Nat /\ MaxVersion > 0

VARIABLES view,     \* the panel: [key, opening, alone, phase, edited, from, error]
          st,       \* EditState: [key, loading, error, reasons, doc, applying, done]
          file,     \* the temp file of each object
          load,     \* the preflight tasks
          write,    \* the apply tasks
          object    \* the API server: [version, alive, reasons]

vars == <<view, st, file, load, write, object>>

Versions == 1..MaxVersion
Doc == [of : Objects, version : Versions, edit : Edits \cup {AsFetched}]

File == [doc : Doc, valid : BOOLEAN]
Outcome == [result : {"ok", "refused"}, doc : Doc, opening : 1..MaxOpens]

(* None is no document, no file and no outcome.                            *)
ASSUME NoneAssumption == None \notin Doc /\ None \notin File /\ None \notin Outcome

Levels == {"info", "danger"}       \* a warning is treated as an information

NoView == [key |-> None, opening |-> 0, alone |-> TRUE, phase |-> "closed",
           edited |-> None, from |-> None, error |-> FALSE]

NoState == [key |-> None, loading |-> FALSE, error |-> FALSE, reasons |-> {},
            doc |-> None, applying |-> FALSE, done |-> None]

IdleLoad == [pc |-> "idle", key |-> None, got |-> None, reasons |-> {}]
IdleWrite == [pc |-> "idle", key |-> None, opening |-> 0, alone |-> TRUE, doc |-> None,
              from |-> None, result |-> None]

Init ==
    /\ view = NoView
    /\ st = NoState
    /\ file = [o \in Objects |-> None]
    /\ load = [t \in Loads |-> IdleLoad]
    /\ write = [t \in Applies |-> IdleWrite]
    /\ object \in [Objects -> [version : {1}, alive : {TRUE}, reasons : SUBSET Levels]]

Open == view.phase # "closed"

(* The dispatcher runs only while kdt has the terminal.                    *)
Keys == Open /\ view.phase # "editing"

Accepted == st.done # None /\ st.done.result = "ok"
Refused == st.done # None /\ st.done.result = "refused"

InFlight(o) == (\E t \in Loads : load[t].key = o) \/ (\E t \in Applies : write[t].key = o)

-----------------------------------------------------------------------------
(* The panel.                                                              *)

(* `e` on an object: a fresh panel and a fresh state under the same key.   *)
OpenEditView(o, t) ==
    /\ ~Open
    /\ view.opening < MaxOpens
    /\ load[t] = IdleLoad
    /\ view' = [NoView EXCEPT !.key = o, !.opening = view.opening + 1,
                              !.alone = ~InFlight(o), !.phase = "loading"]
    /\ st' = [NoState EXCEPT !.key = o, !.loading = TRUE]
    /\ load' = [load EXCEPT ![t] = [IdleLoad EXCEPT !.pc = "get", !.key = o]]
    /\ UNCHANGED <<file, write, object>>

(* Closing takes the temp file along; what is in flight stays in flight.   *)
Closed ==
    /\ view' = [NoView EXCEPT !.opening = view.opening]
    /\ file' = [file EXCEPT ![view.key] = None]

CloseEditView == Keys /\ Closed /\ UNCHANGED <<st, load, write, object>>

(* To the editor, unless there is no document or it is stale.  The file is *)
(* seeded on the first pass only; writing it can fail.                     *)
Editable == ~st.error /\ ~st.applying /\ ~Accepted /\ st.doc # None

ToEditor ==
    \/ /\ ~Editable
       /\ UNCHANGED <<view, file>>
    \/ /\ Editable
       /\ view' = [view EXCEPT !.phase = "editing"]
       /\ file' = IF file[view.key] # None THEN file
                  ELSE [file EXCEPT ![view.key] = [doc |-> st.doc, valid |-> TRUE]]
    \/ /\ Editable /\ file[view.key] = None
       /\ view' = [view EXCEPT !.phase = "review", !.error = TRUE]
       /\ UNCHANGED file

RequestEditor == Keys /\ ToEditor /\ UNCHANGED <<st, load, write, object>>

(* The buffer the user leaves: untouched, edited, or not a YAML object.    *)
Buffers(f) == {f} \cup [doc : {[f.doc EXCEPT !.edit = e] : e \in Edits}, valid : BOOLEAN]

(* `editor_returned`: what the file says now against the document in hand. *)
(* A document left as it is closes the panel.                              *)
EditorReturned(ok) ==
    /\ view.phase = "editing"
    /\ \E f \in Buffers(file[view.key]) :
         IF ok /\ f.valid /\ f.doc = st.doc
         THEN Closed
         ELSE /\ file' = [file EXCEPT ![view.key] = f]
              /\ view' = IF ok /\ f.valid
                         THEN [view EXCEPT !.phase = "review", !.edited = f.doc,
                                           !.from = st.doc, !.error = FALSE]
                         ELSE [view EXCEPT !.phase = "review", !.edited = None,
                                           !.from = None, !.error = TRUE]
    /\ UNCHANGED <<st, load, write, object>>

SpawnApply(t) ==
    /\ view.edited # None
    /\ write[t] = IdleWrite
    /\ write' = [write EXCEPT ![t] = [IdleWrite EXCEPT !.pc = "put", !.key = view.key,
                    !.opening = view.opening, !.alone = view.alone,
                    !.doc = view.edited, !.from = view.from]]
    /\ st' = [st EXCEPT !.applying = TRUE, !.done = None]
    /\ UNCHANGED <<view, file>>

(* Enter.  A write that was refused always leads back to the editor.       *)
Confirmable == ~st.loading /\ ~st.applying

EditConfirm ==
    /\ Keys /\ Confirmable
    /\ \/ Accepted /\ Closed /\ UNCHANGED <<st, write>>
       \/ Refused /\ ToEditor /\ UNCHANGED <<st, write>>
       \/ /\ st.done = None
          /\ \/ view.phase = "warned"
             \/ view.phase = "review" /\ view.error
          /\ ToEditor
          /\ UNCHANGED <<st, write>>
       \/ /\ st.done = None
          /\ view.phase = "review" /\ ~view.error
          /\ \E t \in Applies : SpawnApply(t)
    /\ UNCHANGED <<load, object>>

(* The tick: the preflight landed.  Nothing to warn about goes straight to *)
(* the editor.                                                             *)
PollEdit ==
    /\ view.phase = "loading" /\ ~st.loading
    /\ IF ~st.error /\ st.reasons = {}
       THEN ToEditor
       ELSE view' = [view EXCEPT !.phase = "warned"] /\ UNCHANGED file
    /\ UNCHANGED <<st, load, write, object>>

-----------------------------------------------------------------------------
(* The tasks.                                                              *)

(* `load`: the document and what it says of its fate; it can fail.         *)
LoadObject(t) ==
    /\ load[t].pc = "get"
    /\ LET o == object[load[t].key] IN
       \/ /\ o.alive
          /\ load' = [load EXCEPT ![t].pc = "publish", ![t].reasons = o.reasons,
                         ![t].got = [of |-> load[t].key, version |-> o.version,
                                     edit |-> AsFetched]]
       \/ load' = [load EXCEPT ![t].pc = "publish"]
    /\ UNCHANGED <<view, st, file, write, object>>

(* Mutant: the document of whatever object was loaded lands in the panel.  *)
LoadAnyKey(t) ==
    /\ load[t].pc = "publish"
    /\ st' = [st EXCEPT !.loading = FALSE, !.reasons = load[t].reasons,
                        !.doc = load[t].got, !.error = load[t].got = None]
    /\ load' = [load EXCEPT ![t] = IdleLoad]
    /\ UNCHANGED <<view, file, write, object>>

Preflight(t) ==
    /\ load[t].pc = "publish"
    /\ st' = IF st.key = load[t].key
             THEN [st EXCEPT !.loading = FALSE, !.reasons = load[t].reasons,
                             !.doc = load[t].got, !.error = load[t].got = None]
             ELSE st
    /\ load' = [load EXCEPT ![t] = IdleLoad]
    /\ UNCHANGED <<view, file, write, object>>

(* `replace`: the server takes the document only if it is of the object    *)
(* addressed and the object is still the version it carries.  It may       *)
(* refuse it anyway, and a lost answer is a refusal to the panel.          *)
Replace(t) ==
    /\ write[t].pc = "put"
    /\ LET o == write[t].key
           current == /\ object[o].alive /\ write[t].doc.of = o
                      /\ object[o].version = write[t].doc.version IN
       \/ /\ current /\ object[o].version < MaxVersion
          /\ object' = [object EXCEPT ![o].version = @ + 1]
          /\ \E answer \in {"ok", "refused"} :
                write' = [write EXCEPT ![t].pc = "publish", ![t].result = answer]
       \/ /\ write' = [write EXCEPT ![t].pc = "publish", ![t].result = "refused"]
          /\ UNCHANGED object
    /\ UNCHANGED <<view, st, file, load>>

(* Mutant: a result is published whatever object the panel is on by now.   *)
ApplyAnyKey(t) ==
    /\ write[t].pc = "publish"
    /\ st' = [st EXCEPT !.applying = FALSE,
                        !.done = [result |-> write[t].result, doc |-> write[t].doc,
                                  opening |-> write[t].opening]]
    /\ write' = [write EXCEPT ![t] = IdleWrite]
    /\ UNCHANGED <<view, file, load, object>>

(* Mutant: a refusal is shown, the write it answers still under way.       *)
RefusalKeepsApplying(t) ==
    /\ write[t].pc = "publish"
    /\ st' = IF st.key = write[t].key
             THEN [st EXCEPT !.applying = @ /\ write[t].result = "refused",
                             !.done = [result |-> write[t].result, doc |-> write[t].doc,
                                       opening |-> write[t].opening]]
             ELSE st
    /\ write' = [write EXCEPT ![t] = IdleWrite]
    /\ UNCHANGED <<view, file, load, object>>

Apply(t) ==
    /\ write[t].pc = "publish"
    /\ st' = IF st.key = write[t].key
             THEN [st EXCEPT !.applying = FALSE,
                             !.done = [result |-> write[t].result, doc |-> write[t].doc,
                                       opening |-> write[t].opening]]
             ELSE st
    /\ write' = [write EXCEPT ![t] = IdleWrite]
    /\ UNCHANGED <<view, file, load, object>>

(* Somebody else writes, or deletes, an object.                            *)
Changed(o) ==
    /\ object[o].alive /\ object[o].version < MaxVersion
    /\ object' = [object EXCEPT ![o].version = @ + 1]
    /\ UNCHANGED <<view, st, file, load, write>>

Deleted(o) ==
    /\ object[o].alive
    /\ object' = [object EXCEPT ![o].alive = FALSE]
    /\ UNCHANGED <<view, st, file, load, write>>

PanelStep ==
    \/ \E o \in Objects, t \in Loads : OpenEditView(o, t)
    \/ CloseEditView \/ RequestEditor \/ EditConfirm \/ PollEdit
    \/ \E ok \in BOOLEAN : EditorReturned(ok)

LoadStep(t) == LoadObject(t) \/ Preflight(t)

WriteStep(t) == Replace(t) \/ Apply(t)

ServerStep == \E o \in Objects : Changed(o) \/ Deleted(o)

Next ==
    \/ PanelStep
    \/ \E t \in Loads : LoadStep(t)
    \/ \E t \in Applies : WriteStep(t)
    \/ ServerStep

Spec == Init /\ [][Next]_vars

(* A spawned task runs, a request is answered, and the panel is polled at  *)
(* every turn of the loop.  The user owes nothing.                         *)
FairSpec ==
    /\ Spec
    /\ \A t \in Loads : WF_vars(LoadStep(t))
    /\ \A t \in Applies : WF_vars(WriteStep(t))
    /\ WF_vars(PollEdit)

-----------------------------------------------------------------------------
(* Properties.                                                             *)

View == [key : Objects \cup {None}, opening : 0..MaxOpens, alone : BOOLEAN,
         phase : {"closed", "loading", "warned", "editing", "review"},
         edited : Doc \cup {None}, from : Doc \cup {None}, error : BOOLEAN]

State == [key : Objects \cup {None}, loading : BOOLEAN, error : BOOLEAN,
          reasons : SUBSET Levels, doc : Doc \cup {None}, applying : BOOLEAN,
          done : Outcome \cup {None}]

LoadType == [pc : {"idle", "get", "publish"}, key : Objects \cup {None},
             got : Doc \cup {None}, reasons : SUBSET Levels]
WriteType == [pc : {"idle", "put", "publish"}, key : Objects \cup {None},
              opening : 0..MaxOpens, alone : BOOLEAN, doc : Doc \cup {None}, from : Doc \cup {None},
              result : {"ok", "refused", None}]
ObjectType == [version : Versions, alive : BOOLEAN, reasons : SUBSET Levels]

(* Every variable has its type: no handler leaves a half-built record.     *)
TypeOK ==
    /\ view \in View
    /\ st \in State
    /\ file \in [Objects -> File \cup {None}]
    /\ load \in [Loads -> LoadType]
    /\ write \in [Applies -> WriteType]
    /\ object \in [Objects -> ObjectType]

(* What the temp file holds may be a Secret: it is on disk only while the  *)
(* panel of its object is open (`close_edit_view`, on every way out).      *)
FileGoesWithThePanel ==
    \A o \in Objects : file[o] # None => Open /\ view.key = o

(* The documents the panel holds, in hand, edited, being written or in its *)
(* file, are of the very object it was opened on, although preflights of   *)
(* other objects are still about (the key of EditState).                   *)
OwnDocument ==
    /\ \A o \in Objects : file[o] # None => file[o].doc.of = o
    /\ \A t \in Applies : write[t].pc # "idle" => write[t].doc.of = write[t].key
    /\ Open => /\ st.doc # None => st.doc.of = view.key
               /\ view.edited # None => view.edited.of = view.key

(* The outcome the panel shows is of a write of its object, never the late *)
(* answer to a write of the object shown before; and of a write it started *)
(* itself, unless the object was not alone.                                *)
OwnOutcome ==
    Open /\ st.done # None =>
      /\ st.done.doc.of = view.key
      /\ view.alone => st.done.opening = view.opening

(* A panel has one write in flight at most, and shows it as applying, or   *)
(* has an outcome already, an earlier one's: two PUTs of one document      *)
(* would end on a conflict over a change that went through.                *)
OneWriteAtATime ==
    \A t, u \in Applies :
        /\ write[t].pc # "idle" /\ write[u].pc # "idle" /\ write[t].opening = write[u].opening => t = u
        /\ Open /\ write[t].opening = view.opening =>
             st.applying \/ (~view.alone /\ st.done # None)

(* The document a review compares is the one the user was given to edit:   *)
(* the changes listed are the changes made (`editor_returned`), unless the *)
(* object was not alone.                                                   *)
DiffIsTheChange ==
    view.alone /\ view.phase = "review" /\ view.edited # None
    => view.from # None /\ view.from.version = view.edited.version

(* A change the server takes is of the object it was made to and replaces  *)
(* the very version it was made from, so that nobody's write is lost; and  *)
(* that is the version it was shown against, unless the object was not     *)
(* alone.                                                                  *)
WrittenAsReviewed ==
    [][\A t \in Applies :
          /\ write[t].pc = "put"
          /\ object'[write[t].key].version # object[write[t].key].version
          /\ write'[t].pc = "publish"
          => /\ write[t].doc.of = write[t].key
             /\ write[t].doc.version = object[write[t].key].version
             /\ write[t].alone => /\ write[t].from # None
                                  /\ write[t].from.version = write[t].doc.version]_vars

(* Nothing is edited while a write of the panel is in flight or once it    *)
(* went through: what is written is what the panel was showing             *)
(* (`request_editor`).  Where the object was not alone, the refusal of an  *)
(* earlier write may lead there.                                           *)
NoEditDuringWrite ==
    [][view.phase # "editing" /\ view'.phase = "editing"
       => \A t \in Applies :
            write[t].opening = view.opening /\ write[t].pc # "idle" =>
              ~view.alone /\ Refused]_vars

(* The panel leaves its checks behind, whatever they answer, or says that  *)
(* a write went through: an earlier one, that of an opening before.        *)
ChecksEnd == view.phase = "loading" ~> (view.phase # "loading" \/ Accepted)

(* A write under way is answered.                                          *)
WritesAreAnswered == st.applying ~> ~st.applying

(* What the panel shows and holds is its own: its documents, its outcome,  *)
(* its one write, its diff, its file.                                      *)
PanelTellsItsOwn ==
    TypeOK /\ OwnDocument /\ OwnOutcome /\ OneWriteAtATime /\ DiffIsTheChange /\ FileGoesWithThePanel

(* From the document shown to the document written, nothing comes between. *)
ReviewIsKept == WrittenAsReviewed /\ NoEditDuringWrite

(* The panel does not stay waiting, for its checks or for its write.       *)
EditIsAnswered == ChecksEnd /\ WritesAreAnswered

(* Enter on a document corrected after a refusal applies it ("apply what   *)
(* came back"): it is not for ever the way back to the editor.  This does  *)
(* not hold (README, "What the code does otherwise"): no run checks it.    *)
CorrectedIsApplied ==
    [][/\ EditConfirm
       /\ Refused /\ view.phase = "review" /\ ~view.error
       /\ view.edited # st.done.doc
       => st'.applying]_vars
=============================================================================
