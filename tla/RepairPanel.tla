----------------------------- MODULE RepairPanel -----------------------------
(***************************************************************************)
(* Unblocking a Flux object: the panel of the terminal (src/ui.rs:         *)
(* `open_repair_view` to `poll_repair`) and its tasks (src/repair.rs:      *)
(* `probe`, `apply`).  The panel lists findings, the cursor rests on one   *)
(* of the moves against them, and a move is armed, or its target's name    *)
(* typed, before it is played.                                             *)
(*                                                                         *)
(* The cursor is an index: what it points at is read again by every key,   *)
(* and twice by the last one.  The panel may be opened again on an object  *)
(* a probe or a move of which is in flight: the tasks know the object and  *)
(* not the opening.  `opening`, `alone` (nothing was in flight about the   *)
(* object then), `found`, `pressed` (the move the last key was for),       *)
(* `agreed` and `begun` are history.                                       *)
(***************************************************************************)
EXTENDS RepairRules, FiniteSets

CONSTANTS None,
          Objects, Names,     \* Flux objects, and all that has to be named
          Situations,         \* what the cluster can look like to a probe
          Messages,           \* what a controller can say of an object
          Probes, Applies,    \* task slots
          MaxOpens

ASSUME RepairAssumption ==
    /\ None \notin Names /\ Objects \subseteq Names
    /\ MaxOpens \in Nat

VARIABLES view,     \* [key, opening, alone, cursor, armed, typed, refreshed,
                    \*  going, found, pressed, agreed, begun]
          st,       \* RepairState: [key, loading, error, blockers, swept, applying, done]
          probe,    \* the probes
          apply,    \* the moves being played
          situation \* what is there to be read

vars == <<view, st, probe, apply, situation>>

Whats == {"StuckTerminating", "HelmPending", "OrphanWebhook", "EmptyWebhookConfig",
          "RetriesExhausted", "WaitingOnDependency", "MissingKind", "ImmutableField",
          "AdmissionDenied"}
Blockers == [what : Whats, on : Names, closed : BOOLEAN]
Moves == [move : {"DeleteWebhookConfig", "RemoveFinalizers", "ResetFailures",
                  "ForceUpgrade", "SuspendResume"}, on : Names]
Acts == [object : Objects, move : Moves \cup {None}]
Findings == [blockers : Seq(Blockers), swept : BOOLEAN, error : BOOLEAN]

(* What a probe reads of the cluster.                                        *)
Meta == [deleting : BOOLEAN, finalizers : BOOLEAN]
NamespaceMeta == [name : Names, deleting : BOOLEAN, finalizers : BOOLEAN]
Configs == [name : Names, hooks : Seq([closed : BOOLEAN, dead : BOOLEAN])]
Clusters == [object : Meta, namespace : NamespaceMeta,
             releases : Seq([version : Nat, pending : BOOLEAN]), configs : Seq(Configs)]

(* None is none of what it stands for the absence of, and "other" stands   *)
(* for the texts that are no name.                                         *)
ASSUME NoneAssumption ==
    /\ None \notin Moves \cup Acts \cup Findings \cup {"ok", "failed", "other"}
    /\ "other" \notin Names
    /\ Situations \subseteq Clusters

NoView == [key |-> None, opening |-> 0, alone |-> TRUE, cursor |-> 0, armed |-> FALSE,
           typed |-> None, refreshed |-> FALSE, going |-> FALSE, found |-> None,
           pressed |-> None, agreed |-> None, begun |-> None]
NoState == [key |-> None, loading |-> FALSE, error |-> FALSE, blockers |-> <<>>,
            swept |-> FALSE, applying |-> FALSE, done |-> None]
IdleProbe == [pc |-> "idle", key |-> None, message |-> {}, got |-> None]
IdleApply == [pc |-> "idle", key |-> None, opening |-> 0, alone |-> TRUE, move |-> None,
              pressed |-> None, typed |-> None, ok |-> FALSE]

Init ==
    /\ view = NoView
    /\ st = NoState
    /\ probe = [t \in Probes |-> IdleProbe]
    /\ apply = [t \in Applies |-> IdleApply]
    /\ situation \in Situations

Open == view.key # None

(* Keys are handled one after the other.                                   *)
Keys == Open /\ ~view.going

Offered == MovesAgainst(st.blockers)
Clipped(i, n) == IF i < n THEN i ELSE n - 1
MoveAt(i) ==
    LET moves == Offered
    IN IF moves = <<>> THEN None ELSE moves[Clipped(i, Len(moves)) + 1]
Highlighted == MoveAt(view.cursor)

(* The act a further key would start: this move against this object.       *)
(* Where an earlier probe can still change the moves, the object only.     *)
Act == [object |-> view.key, move |-> IF view.alone THEN Highlighted ELSE None]

InFlight(o) == (\E t \in Probes : probe[t].key = o) \/ (\E t \in Applies : apply[t].key = o)

-----------------------------------------------------------------------------
(* The panel.                                                              *)

(* Ctrl-R in the Flux view.  The message is the row's, as old as the row.  *)
OpenRepairView(o, t, m) ==
    /\ ~Open
    /\ view.opening < MaxOpens
    /\ probe[t] = IdleProbe
    /\ view' = [NoView EXCEPT !.key = o, !.opening = view.opening + 1,
                              !.alone = ~InFlight(o)]
    /\ st' = [NoState EXCEPT !.key = o, !.loading = TRUE]
    /\ probe' = [probe EXCEPT ![t] = [IdleProbe EXCEPT !.pc = "read", !.key = o,
                                        !.message = m]]
    /\ UNCHANGED <<apply, situation>>

(* `sync_strict_buffer`: a name field when the move asks for it, and none  *)
(* otherwise.                                                              *)
Synced(v, r) ==
    IF r # None /\ IsDanger(r)
    THEN IF v.typed = None THEN [v EXCEPT !.typed = "other"] ELSE v
    ELSE [v EXCEPT !.typed = None, !.agreed = IF v.typed = None THEN @ ELSE None]

(* `rem_euclid`.                                                           *)
Wrapped(i, n) == i % n

(* Mutant: what was armed or typed stays when the cursor moves.            *)
RepairMoveKeeps(delta) ==
    LET at == Wrapped(Clipped(view.cursor, Len(Offered)) + delta, Len(Offered))
    IN /\ Keys /\ Offered # <<>>
       /\ view' = Synced([view EXCEPT !.cursor = at], MoveAt(at))
       /\ UNCHANGED <<st, probe, apply, situation>>

(* The arrows: the gesture made for the previous move is dropped.          *)
RepairMove(delta) ==
    LET at == Wrapped(Clipped(view.cursor, Len(Offered)) + delta, Len(Offered))
    IN /\ Keys /\ Offered # <<>>
       /\ view' = Synced([view EXCEPT !.cursor = at, !.armed = FALSE, !.typed = None,
                                      !.agreed = None], MoveAt(at))
       /\ UNCHANGED <<st, probe, apply, situation>>

Confirmable == ~st.loading /\ ~st.applying /\ st.done = None

(* The last key.  Where the moves can still change, what was typed or      *)
(* armed may have been so for another move, and this key is the agreement. *)
LastKey ==
    view' = [view EXCEPT !.going = TRUE, !.pressed = Highlighted,
                         !.agreed = IF view.alone THEN @ ELSE Act]

(* A move that removes something wants its name typed, the others are      *)
(* armed first.                                                            *)
Agreed ==
    \/ /\ IsDanger(Highlighted) /\ view.typed = ConfirmTarget(Highlighted)
       /\ LastKey
    \/ /\ ~IsDanger(Highlighted) /\ ~view.armed
       /\ view' = [view EXCEPT !.armed = TRUE, !.agreed = Act]
    \/ /\ ~IsDanger(Highlighted) /\ view.armed
       /\ LastKey

(* Ctrl-R again, one step further on what is highlighted.                  *)
RepairConfirm ==
    /\ Keys /\ Confirmable
    /\ Highlighted # None
    /\ Agreed
    /\ UNCHANGED <<st, probe, apply, situation>>

(* `spawn_repair` reads the findings anew.                                 *)
SpawnRepair(t) ==
    /\ view.going
    /\ apply[t] = IdleApply
    /\ IF Highlighted = None
       THEN /\ view' = [view EXCEPT !.going = FALSE, !.pressed = None]
            /\ UNCHANGED <<st, apply>>
       ELSE /\ view' = [view EXCEPT !.going = FALSE, !.pressed = None, !.begun = Act,
                                    !.agreed = None]
            /\ st' = [st EXCEPT !.applying = TRUE, !.done = None]
            /\ apply' = [apply EXCEPT ![t] = [IdleApply EXCEPT !.pc = "run", !.key = view.key,
                            !.opening = view.opening, !.alone = view.alone,
                            !.move = Highlighted, !.pressed = view.pressed,
                            !.typed = view.typed]]
    /\ UNCHANGED <<probe, situation>>

(* Esc and Enter, and q outside the name field.                            *)
RepairCancel ==
    /\ Keys
    /\ view' = [NoView EXCEPT !.opening = view.opening, !.begun = view.begun]
    /\ UNCHANGED <<st, probe, apply, situation>>

(* What the name field holds after a key: a name, or not.                  *)
RepairInput(text) ==
    /\ Keys /\ view.typed \notin {None, text}
    /\ view' = [view EXCEPT !.typed = text,
                  !.agreed = IF /\ Highlighted # None /\ IsDanger(Highlighted)
                                /\ text = ConfirmTarget(Highlighted) /\ view.begun = None
                             THEN Act ELSE None]
    /\ UNCHANGED <<st, probe, apply, situation>>

(* The first poll after a move that went through refreshes the Flux view.  *)
Refreshed(v) == [v EXCEPT !.refreshed = @ \/ st.done = "ok"]

(* Mutant: the poll only refreshes.                                        *)
PollRepairRefreshes ==
    /\ Keys
    /\ view' = Refreshed(view)
    /\ view' # view
    /\ UNCHANGED <<st, probe, apply, situation>>

PollRepair ==
    /\ Keys
    /\ view' = Refreshed(Synced(view, Highlighted))
    /\ view' # view
    /\ UNCHANGED <<st, probe, apply, situation>>

-----------------------------------------------------------------------------
(* The tasks.                                                              *)

Failed == [blockers |-> <<>>, swept |-> FALSE, error |-> TRUE]

Probe(t) ==
    /\ probe[t].pc = "read"
    /\ \E leads \in {Classify(probe[t].message)} :
       \E r \in {RunProbe(leads, probe[t].key, situation)} :
         LET found == [blockers |-> Ranked(r.blockers), swept |-> r.swept, error |-> FALSE]
         IN \E got \in {found} \cup {f \in {Failed} : ReadsWebhooks(probe[t].message)} :
              probe' = [probe EXCEPT ![t].pc = "publish", ![t].got = got]
    /\ UNCHANGED <<view, st, apply, situation>>

(* Mutant: the probe publishes whatever the panel is on by now.            *)
PublishAnyKey(t) == TRUE

PublishKey(t) == st.key = probe[t].key

(* `probe` publishes if the state still has its key.                       *)
ProbeEnds(t) ==
    /\ probe[t].pc = "publish"
    /\ IF PublishKey(t)
       THEN /\ st' = [st EXCEPT !.loading = FALSE, !.error = probe[t].got.error,
                         !.blockers = probe[t].got.blockers, !.swept = probe[t].got.swept]
            /\ view' = IF view.key = probe[t].key
                       THEN [view EXCEPT !.found = probe[t].got] ELSE view
       ELSE UNCHANGED <<st, view>>
    /\ probe' = [probe EXCEPT ![t] = IdleProbe]
    /\ UNCHANGED <<apply, situation>>

Without(configs, name) ==
    FlattenSeq([i \in 1..Len(configs) |-> If(configs[i].name # name, configs[i])])

(* What a move does when its call goes through.  Annotations and suspend   *)
(* are the controllers' business: see FluxWrites.                          *)
After(r) ==
    CASE r.move = "DeleteWebhookConfig" ->
            [situation EXCEPT !.configs = Without(@, r.on)]
      [] r.move = "RemoveFinalizers" ->
            [situation EXCEPT !.object.finalizers = FALSE]
      [] OTHER -> situation

(* The call is refused, its answer lost on the way back, or it succeeds.   *)
RunApply(t) ==
    /\ apply[t].pc = "run"
    /\ \E ok \in BOOLEAN, reached \in BOOLEAN :
         /\ ok => reached
         /\ situation' = IF reached THEN After(apply[t].move) ELSE situation
         /\ apply' = [apply EXCEPT ![t] = [IdleApply EXCEPT !.pc = "publish", !.key = apply[t].key,
                                             !.opening = apply[t].opening, !.ok = ok]]
    /\ UNCHANGED <<view, st, probe>>

OutcomeKey(t) == st.key = apply[t].key

ApplyEnds(t) ==
    /\ apply[t].pc = "publish"
    /\ st' = IF OutcomeKey(t)
             THEN [st EXCEPT !.applying = FALSE,
                             !.done = IF apply[t].ok THEN "ok" ELSE "failed"]
             ELSE st
    /\ apply' = [apply EXCEPT ![t] = IdleApply]
    /\ UNCHANGED <<view, probe, situation>>

(* Controllers, operators and everybody else.                              *)
Changed(c) ==
    /\ situation # c
    /\ situation' = c
    /\ UNCHANGED <<view, st, probe, apply>>

User ==
    \/ \E o \in Objects, t \in Probes, m \in Messages : OpenRepairView(o, t, m)
    \/ RepairMove(1) \/ RepairMove(-1)
    \/ RepairConfirm
    \/ RepairCancel
    \/ \E text \in Names \cup {"other"} : RepairInput(text)

ProbeStep(t) == Probe(t) \/ ProbeEnds(t)
ApplyStep(t) == RunApply(t) \/ ApplyEnds(t)
Going == \E t \in Applies : SpawnRepair(t)

Next ==
    \/ User
    \/ Going
    \/ PollRepair
    \/ \E t \in Probes : ProbeStep(t)
    \/ \E t \in Applies : ApplyStep(t)
    \/ \E c \in Situations : Changed(c)

Spec == Init /\ [][Next]_vars

FairSpec ==
    /\ Spec
    /\ WF_vars(Going)
    /\ WF_vars(PollRepair)
    /\ \A t \in Probes : WF_vars(ProbeStep(t))
    /\ \A t \in Applies : WF_vars(ApplyStep(t))

-----------------------------------------------------------------------------
(* Properties.                                                             *)

ViewType == [key : Objects \cup {None}, opening : 0..MaxOpens, alone : BOOLEAN,
             cursor : Nat, armed : BOOLEAN, typed : {None, "other"} \cup Names,
             refreshed : BOOLEAN, going : BOOLEAN, found : Findings \cup {None},
             pressed : Moves \cup {None},
             agreed : Acts \cup {None}, begun : Acts \cup {None}]
StateType == [key : Objects \cup {None}, loading : BOOLEAN, error : BOOLEAN,
              blockers : Seq(Blockers), swept : BOOLEAN, applying : BOOLEAN,
              done : {None, "ok", "failed"}]
ProbeType == [pc : {"idle", "read", "publish"}, key : Objects \cup {None},
              message : Messages \cup {{}}, got : Findings \cup {None}]
ApplyType == [pc : {"idle", "run", "publish"}, key : Objects \cup {None},
              opening : 0..MaxOpens, alone : BOOLEAN,
              move : Moves \cup {None}, pressed : Moves \cup {None},
              typed : {None, "other"} \cup Names, ok : BOOLEAN]

(* The cursor is on a move when there is one, while the moves stay.        *)
CursorFits == view.alone /\ Offered # <<>> => view.cursor < Len(Offered)

TypeOK ==
    /\ view \in ViewType
    /\ st \in StateType
    /\ probe \in [Probes -> ProbeType]
    /\ apply \in [Applies -> ApplyType]
    /\ situation \in Clusters
    /\ CursorFits

(* A move is played on an object only if one was agreed to in this opening, *)
(* once; and it is the one armed, or typed through, unless an earlier       *)
(* probe of the object was in flight at the opening (ui.rs:3291: nothing    *)
(* fires that the user "never agreed to").                                  *)
C == INSTANCE Consent WITH opening <- view.opening,
                           agreed <- view.agreed, started <- view.begun

StartsWhatWasAgreed == C!Spec

(* No finalizer is cleared and no admission configuration deleted without  *)
(* that very object's name having been typed: this holds of the move the   *)
(* last key was for, which is the move played unless the object was not    *)
(* alone and its findings came in between.                                 *)
DangerIsTyped ==
    \A t \in Applies :
      apply[t].pc = "run" =>
        /\ IsDanger(apply[t].pressed) => apply[t].typed = ConfirmTarget(apply[t].pressed)
        /\ apply[t].alone => apply[t].move = apply[t].pressed

(* The panel shows what a probe of its own object found, or is still       *)
(* waiting for one; and while it waits its own probe runs, unless the      *)
(* object was not alone.                                                   *)
OwnFindings ==
    Open => /\ ~st.loading =>
                 view.found = [blockers |-> st.blockers, swept |-> st.swept, error |-> st.error]
            /\ view.alone => (st.loading <=> \E t \in Probes :
                                probe[t].pc # "idle" /\ probe[t].key = view.key)

(* A move said to be under way is this opening's, and so is an outcome on  *)
(* the screen if the object was alone; what an opening started is under    *)
(* way or has its outcome, so that it starts nothing more.                 *)
OwnOutcome ==
    Open => /\ st.applying => view.begun # None
            /\ view.begun # None => st.applying \/ st.done # None
            /\ view.alone /\ st.done # None => view.begun # None

(* An opening plays one move at most; two against one object at once are   *)
(* those of a panel opened on it while the first was in flight.            *)
OneMoveAtATime ==
    \A t, u \in Applies :
      t # u /\ apply[t].pc # "idle" /\ apply[u].pc # "idle" =>
        /\ apply[t].opening # apply[u].opening
        /\ Open /\ view.alone /\ apply[t].key = view.key => apply[u].key # view.key

(* A move that has to be typed through gets its field, and the field goes  *)
(* with it (ui.rs:3308: a panel that asks for a name has somewhere to put  *)
(* it).                                                                    *)
FieldFits ==
    LET r == Highlighted
    IN Open => (view.typed # None) = (r # None /\ IsDanger(r))

FieldFollowsMove == []<>FieldFits

(* The panel leaves its probe and its move; the view behind is refreshed,  *)
(* unless another move against the object fails before the poll.           *)
PanelSettles == (st.loading \/ st.applying) ~> ~(st.loading \/ st.applying)
SuccessIsRefreshed ==
    (Open /\ st.done = "ok") ~> (view.refreshed \/ ~Open \/ st.done = "failed")

(* A move is its opening's own: typed for, on a probe of its object, once. *)
RepairIsOwned ==
    TypeOK /\ DangerIsTyped /\ OwnFindings /\ OwnOutcome /\ OneMoveAtATime

(* The repair panel does not stay waiting nor without its field, and the   *)
(* view behind it follows.                                                 *)
RepairSettles == FieldFollowsMove /\ PanelSettles /\ SuccessIsRefreshed
=============================================================================
