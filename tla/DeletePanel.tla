----------------------------- MODULE DeletePanel -----------------------------
(***************************************************************************)
(* Deleting an object: the panel of the terminal (src/ui.rs:               *)
(* `open_delete_view` to `poll_delete`; src/delete.rs: `preflight`,        *)
(* `run_delete`) and the same deletion asked for from a browser            *)
(* (src/crates/web/src/objects.rs: `delete_preflight`, `delete`).          *)
(*                                                                         *)
(* Nothing names what was checked but the object's name: others relabel    *)
(* the object, remove it and create it again at any time.  The panel may   *)
(* also be opened again on an object while a check or a deletion of an     *)
(* earlier opening of it is in flight: the tasks know the object and not   *)
(* the opening.  `opening`, `alone`, `found`, `agreed` and `begun` are     *)
(* history: whether nothing was in flight about the object when the panel  *)
(* was opened, what this panel was told of it, what its user saw when      *)
(* agreeing, what was started.                                             *)
(***************************************************************************)
EXTENDS DeleteRules, FiniteSets

CONSTANTS None, Gone,
          Objects,
          Manifests,           \* what an object can look like to the rules
          Checks, Deletions,   \* task slots of the panel
          Pages,               \* the objects a browser has a page of
          Requests,            \* the browser's, each in a handler
          MaxOpens

ASSUME DeleteAssumption ==
    /\ None \notin Objects
    /\ Pages \subseteq Objects
    /\ Gone \notin Manifests
    /\ MaxOpens \in Nat

VARIABLES view,     \* [key, opening, alone, armed, typed, refreshed, found, agreed, begun]
          st,       \* DeleteState: [key, loading, error, reasons, deleting, done]
          check,    \* preflight tasks
          del,      \* deletion tasks
          web,      \* handlers of `delete`, with the page behind them
          object    \* the API server

vars == <<view, st, check, del, web, object>>

(* What the panel shows once its checks are over.                          *)
Findings == [reasons : SUBSET UNION {Assess(m) : m \in Manifests}, error : BOOLEAN]
Acts == [object : Objects, findings : Findings \cup {None}]

ASSUME NoneAssumption ==
    None \notin Acts \cup Findings \cup {"ok", "failed", "other", "name"}

NoView == [key |-> None, opening |-> 0, alone |-> TRUE, armed |-> FALSE, typed |-> None,
           refreshed |-> FALSE, found |-> None, agreed |-> None, begun |-> None]
NoState == [key |-> None, loading |-> FALSE, error |-> FALSE, reasons |-> {},
            deleting |-> FALSE, done |-> None]

IdleCheck == [pc |-> "idle", key |-> None, got |-> None]
IdleDeletion == [pc |-> "idle", key |-> None, opening |-> 0, typed |-> FALSE,
                 found |-> None, ok |-> FALSE]
IdleRequest == [pc |-> "idle", key |-> None, typed |-> FALSE, found |-> None]

Init ==
    /\ view = NoView
    /\ st = NoState
    /\ check = [t \in Checks |-> IdleCheck]
    /\ del = [t \in Deletions |-> IdleDeletion]
    /\ web = [r \in Requests |-> IdleRequest]
    /\ object \in [Objects -> Manifests]

Open == view.key # None

Shown == [reasons |-> st.reasons, error |-> st.error]
Strict(f) == StrictRequired(f.reasons, f.error)

(* The act a further chord would start: on this object, as it is shown.    *)
(* Where an earlier check can still change what is shown, the object only. *)
Act == [object |-> view.key, findings |-> IF view.alone THEN Shown ELSE None]

InFlight(o) == (\E t \in Checks : check[t].key = o) \/ (\E t \in Deletions : del[t].key = o)

-----------------------------------------------------------------------------
(* The panel.                                                              *)

(* Ctrl-D on an object: a fresh panel, a fresh state under the object's    *)
(* key, and the checks.                                                    *)
OpenDeleteView(o, t) ==
    /\ ~Open
    /\ view.opening < MaxOpens
    /\ check[t] = IdleCheck
    /\ view' = [NoView EXCEPT !.key = o, !.opening = view.opening + 1,
                              !.alone = ~InFlight(o)]
    /\ st' = [NoState EXCEPT !.key = o, !.loading = TRUE]
    /\ check' = [check EXCEPT ![t] = [IdleCheck EXCEPT !.pc = "get", !.key = o]]
    /\ UNCHANGED <<del, web, object>>

(* Esc, Enter, and q outside the name prompt.                              *)
DeleteCancel ==
    /\ Open
    /\ view' = [NoView EXCEPT !.opening = view.opening, !.begun = view.begun]
    /\ UNCHANGED <<st, check, del, web, object>>

SpawnDelete(t) ==
    /\ del[t] = IdleDeletion
    /\ del' = [del EXCEPT ![t] = [IdleDeletion EXCEPT !.pc = "send", !.key = view.key,
                  !.opening = view.opening, !.typed = (view.typed = "name"),
                  !.found = view.found]]
    /\ st' = [st EXCEPT !.deleting = TRUE, !.done = None]
    /\ view' = [view EXCEPT !.begun = Act, !.agreed = None]

Confirmable == Open /\ ~st.loading /\ ~st.deleting /\ st.done = None

(* Mutant: two chords are enough, whatever was found.                      *)
ConfirmByChords(t) ==
    /\ Confirmable
    /\ IF view.armed THEN SpawnDelete(t)
       ELSE /\ view' = [view EXCEPT !.armed = TRUE, !.agreed = Act]
            /\ UNCHANGED <<st, del>>
    /\ UNCHANGED <<check, web, object>>

(* Ctrl-D again, one step further: open the name prompt, or arm, or go.    *)
DeleteConfirm(t) ==
    /\ Confirmable
    /\ \/ /\ Strict(Shown) /\ view.typed = None
          /\ view' = [view EXCEPT !.typed = "other"]
          /\ UNCHANGED <<st, del>>
       \/ /\ Strict(Shown) /\ view.typed = "name"
          /\ SpawnDelete(t)
       \/ /\ ~Strict(Shown) /\ ~view.armed
          /\ view' = [view EXCEPT !.armed = TRUE, !.agreed = Act]
          /\ UNCHANGED <<st, del>>
       \/ /\ ~Strict(Shown) /\ view.armed
          /\ SpawnDelete(t)
    /\ UNCHANGED <<check, web, object>>

(* Characters and backspaces in the name prompt: the name, or not.  Typing *)
(* the name to its end is agreeing to what is on the screen; erasing it    *)
(* takes that back, unless the deletion was armed too.                     *)
DeleteInput(text) ==
    /\ Open /\ view.typed \notin {None, text}
    /\ view' = [view EXCEPT !.typed = text,
                  !.agreed = CASE text = "name" /\ view.begun = None -> Act
                               [] text = "other" /\ ~view.armed -> None
                               [] OTHER -> @]
    /\ UNCHANGED <<st, check, del, web, object>>

(* Mutant: the poll waits for an object that is gone.                      *)
PollWhenGone ==
    /\ Open
    /\ st.done = "ok" /\ ~view.refreshed /\ object[view.key] = Gone
    /\ view' = [view EXCEPT !.refreshed = TRUE]
    /\ UNCHANGED <<st, check, del, web, object>>

(* The first poll after an accepted deletion refreshes the view behind.    *)
PollDelete ==
    /\ Open
    /\ st.done = "ok" /\ ~view.refreshed
    /\ view' = [view EXCEPT !.refreshed = TRUE]
    /\ UNCHANGED <<st, check, del, web, object>>

-----------------------------------------------------------------------------
(* The tasks.                                                              *)

(* What the checks say of an object: `load` then `assess`.  The call fails *)
(* for reasons of its own too.                                             *)
Verdicts(o) ==
    {[reasons |-> {}, error |-> TRUE]}
      \cup {[reasons |-> Assess(m), error |-> FALSE] : m \in {object[o]} \ {Gone}}

Load(t) ==
    /\ check[t].pc = "get"
    /\ \E f \in Verdicts(check[t].key) :
         check' = [check EXCEPT ![t].pc = "publish", ![t].got = f]
    /\ UNCHANGED <<view, st, del, web, object>>

(* Mutant: the checks publish whatever the panel is showing by now.        *)
PublishAnyway(t) == check[t].pc = "publish"

(* `preflight` publishes if the state still has its key.                   *)
PublishKey(t) == check[t].pc = "publish" /\ st.key = check[t].key

Preflight(t) ==
    \/ /\ PublishKey(t)
       /\ st' = [st EXCEPT !.loading = FALSE, !.reasons = check[t].got.reasons,
                           !.error = check[t].got.error]
       /\ view' = IF view.key = check[t].key
                  THEN [view EXCEPT !.found = check[t].got] ELSE view
       /\ check' = [check EXCEPT ![t] = IdleCheck]
       /\ UNCHANGED <<del, web, object>>
    \/ /\ check[t].pc = "publish" /\ ~PublishKey(t)
       /\ check' = [check EXCEPT ![t] = IdleCheck]
       /\ UNCHANGED <<view, st, del, web, object>>

(* DELETE by name at the API server: refused, accepted with the answer     *)
(* lost on the way, or accepted.  Finalizers keep the object there.        *)
Deleted(o) ==
    IF object[o] = Gone \/ object[o].finalizers THEN object ELSE [object EXCEPT ![o] = Gone]

ServerDeletes(o, ok) ==
    \/ ~ok /\ UNCHANGED object
    \/ ok /\ object[o] # Gone /\ object' = Deleted(o)
    \/ ~ok /\ object[o] # Gone /\ object' = Deleted(o)

SendDelete(t) ==
    /\ del[t].pc = "send"
    /\ \E ok \in BOOLEAN :
         /\ ServerDeletes(del[t].key, ok)
         /\ del' = [del EXCEPT ![t] = [@ EXCEPT !.pc = "publish", !.ok = ok,
                                         !.typed = FALSE, !.found = None]]
    /\ UNCHANGED <<view, st, check, web>>

(* `run_delete` ends: it publishes if the state still has its key.         *)
RunDelete(t) ==
    /\ del[t].pc = "publish"
    /\ st' = IF st.key # del[t].key THEN st
             ELSE [st EXCEPT !.deleting = FALSE,
                             !.done = IF del[t].ok THEN "ok" ELSE "failed"]
    /\ del' = [del EXCEPT ![t] = IdleDeletion]
    /\ UNCHANGED <<view, check, web, object>>

-----------------------------------------------------------------------------
(* The browser: the page asks with the name retyped or not, and the        *)
(* handler makes the checks again before it writes.                        *)

WebDelete(r, o, typed) ==
    /\ web[r] = IdleRequest
    /\ web' = [web EXCEPT ![r] = [IdleRequest EXCEPT !.pc = "check", !.key = o, !.typed = typed]]
    /\ UNCHANGED <<view, st, check, del, object>>

WebCheck(r) ==
    /\ web[r].pc = "check"
    /\ \E f \in Verdicts(web[r].key) :
         web' = IF Strict(f) /\ ~web[r].typed
                THEN [web EXCEPT ![r] = IdleRequest]
                ELSE [web EXCEPT ![r].pc = "send", ![r].found = f]
    /\ UNCHANGED <<view, st, check, del, object>>

WebSend(r) ==
    /\ web[r].pc = "send"
    /\ \E ok \in BOOLEAN : ServerDeletes(web[r].key, ok)
    /\ web' = [web EXCEPT ![r] = IdleRequest]
    /\ UNCHANGED <<view, st, check, del>>

-----------------------------------------------------------------------------
(* Everybody else: the object changes, goes, and comes back under its name. *)

Changed(o, m) ==
    /\ object[o] # m
    /\ object' = [object EXCEPT ![o] = m]
    /\ UNCHANGED <<view, st, check, del, web>>

User ==
    \/ \E o \in Objects, t \in Checks : OpenDeleteView(o, t)
    \/ DeleteCancel
    \/ \E t \in Deletions : DeleteConfirm(t)
    \/ \E text \in {"name", "other"} : DeleteInput(text)
    \/ \E r \in Requests, o \in Pages, typed \in BOOLEAN : WebDelete(r, o, typed)

CheckStep(t) == Load(t) \/ Preflight(t)
DeletionStep(t) == SendDelete(t) \/ RunDelete(t)
WebStep(r) == WebCheck(r) \/ WebSend(r)

Next ==
    \/ User
    \/ PollDelete
    \/ \E t \in Checks : CheckStep(t)
    \/ \E t \in Deletions : DeletionStep(t)
    \/ \E r \in Requests : WebStep(r)
    \/ \E o \in Objects, m \in Manifests \cup {Gone} : Changed(o, m)

Spec == Init /\ [][Next]_vars

FairSpec ==
    /\ Spec
    /\ \A t \in Checks : WF_vars(CheckStep(t))
    /\ \A t \in Deletions : WF_vars(DeletionStep(t))
    /\ WF_vars(PollDelete)

-----------------------------------------------------------------------------
(* Properties.                                                             *)

CheckType == [pc : {"idle", "get", "publish"}, key : Objects \cup {None},
              got : Findings \cup {None}]
DeletionType == [pc : {"idle", "send", "publish"}, key : Objects \cup {None},
                 opening : 0..MaxOpens, typed : BOOLEAN,
                 found : Findings \cup {None}, ok : BOOLEAN]
RequestType == [pc : {"idle", "check", "send"}, key : Objects \cup {None},
                typed : BOOLEAN, found : Findings \cup {None}]

TypeOK ==
    /\ view \in [key : Objects \cup {None}, opening : 0..MaxOpens,
                 alone : BOOLEAN, armed : BOOLEAN,
                 typed : {None, "other", "name"}, refreshed : BOOLEAN,
                 found : Findings \cup {None}, agreed : Acts \cup {None},
                 begun : Acts \cup {None}]
    /\ st \in [key : Objects \cup {None}, loading : BOOLEAN, error : BOOLEAN,
               reasons : SUBSET UNION {Assess(m) : m \in Manifests},
               deleting : BOOLEAN, done : {None, "ok", "failed"}]
    /\ check \in [Checks -> CheckType]
    /\ del \in [Deletions -> DeletionType]
    /\ web \in [Requests -> RequestType]
    /\ object \in [Objects -> Manifests \cup {Gone}]

(* Whatever is sent to the API server, from the panel or from a browser,   *)
(* had its name typed if what the panel was last told of that very object, *)
(* or what that very request found, is a danger or a failure               *)
(* (delete.rs:176: "when the checks could not run, nothing says the        *)
(* deletion is harmless").                                                 *)
DangerIsTyped ==
    /\ \A t \in Deletions :
         del[t].pc = "send" => del[t].found # None /\ (Strict(del[t].found) => del[t].typed)
    /\ \A r \in Requests :
         web[r].pc = "send" => (Strict(web[r].found) => web[r].typed)

(* The panel shows what a check of its own object found, or is still       *)
(* waiting for one, although tasks of earlier openings are still about;    *)
(* and while it waits its own check runs, unless the object was not        *)
(* alone.                                                                  *)
OwnFindings ==
    Open => /\ ~st.loading => view.found = Shown
            /\ view.alone => (st.loading <=> \E t \in Checks :
                                check[t].pc # "idle" /\ check[t].key = view.key)

(* A deletion said to be under way is this opening's, and so is a result   *)
(* on the screen if the object was alone; what an opening started is under *)
(* way or has its result, so that it starts nothing more.                  *)
OwnOutcome ==
    Open => /\ st.deleting => view.begun # None
            /\ view.begun # None => st.deleting \/ st.done # None
            /\ view.alone /\ st.done # None => view.begun # None

(* An opening has one deletion at most; two of one object at once are      *)
(* those of a panel opened on it while the first was in flight.            *)
OneDeletionAtATime ==
    \A t, u \in Deletions :
      t # u /\ del[t].pc # "idle" /\ del[u].pc # "idle" =>
        /\ del[t].opening # del[u].opening
        /\ Open /\ view.alone /\ del[t].key = view.key => del[u].key # view.key

(* The panel starts what its user agreed to in this opening, once: that    *)
(* object, and that object as it was shown if it was alone.                *)
C == INSTANCE Consent WITH opening <- view.opening,
                           agreed <- view.agreed, started <- view.begun

StartsWhatWasAgreed == C!Spec

(* The panel leaves its checks and its deletion, whatever happens to the   *)
(* object, and the view behind an accepted deletion is refreshed, unless   *)
(* another deletion of the object, refused, is answered before the poll.   *)
ChecksEnd == st.loading ~> ~st.loading
DeletionsAreAnswered == st.deleting ~> ~st.deleting
AcceptedIsRefreshed ==
    (Open /\ st.done = "ok") ~> (view.refreshed \/ ~Open \/ st.done = "failed")

(* A deletion is its opening's own: typed for, on checks of its object,    *)
(* once.                                                                   *)
DeletionIsOwned ==
    TypeOK /\ DangerIsTyped /\ OwnFindings /\ OwnOutcome /\ OneDeletionAtATime

(* The delete panel does not stay waiting, and the list behind it follows. *)
DeletionIsAnswered == ChecksEnd /\ DeletionsAreAnswered /\ AcceptedIsRefreshed
=============================================================================
