------------------------------ MODULE AppShell ------------------------------
(***************************************************************************)
(* The shell of the terminal program (src/ui.rs): which view has the       *)
(* keyboard, which loops refresh which lists behind it, what the lists     *)
(* show, and how one session gives way to the next (`:ctx`).               *)
(*                                                                         *)
(* Three things make it hard.  Every view starts its loop on the way in    *)
(* and every way out of it has to stop that loop: Esc, the palette, a jump *)
(* to another view, the namespace picker, the end of the session.  The     *)
(* palette, the search prompt and the AI panel lie over a view that keeps  *)
(* refreshing, each with a slot of its own to go back to.  And a list is   *)
(* written by its loop and by one-shot fetches, each with the namespace    *)
(* scope it was started under, in the order of their answers.              *)
(*                                                                         *)
(* A slot to go back to is cleared when its overlay closes: the code       *)
(* leaves the old value in it and writes it before it reads it again.      *)
(***************************************************************************)
EXTENDS Naturals, FiniteSets

CONSTANTS
    Used,         \* the views of the instance
    Scopes,       \* the namespace scopes a user chooses from
    AllNs,        \* the scope that covers the cluster
    MaxShots,     \* bound: one-shot fetches of a list under way, per scope
    MaxSessions,  \* bound: sessions
    None

-----------------------------------------------------------------------------
(* Views and modes *)

Views == {"nodes", "flux", "pods", "rbac", "vuln", "secrets", "certs", "kyverno",
          "hooks", "reflector", "rbk", "velero", "k8c", "rancher", "argo",
          "identity", "configmaps", "namespaces", "network", "storage", "capacity"}

ASSUME ShellAssumption ==
    /\ {"nodes", "flux"} \subseteq Used /\ Used \subseteq Views
    /\ AllNs \in Scopes
    /\ None \notin [phase : {"idle", "fetching"}, scope : Scopes]
    /\ MaxShots \in Nat /\ MaxSessions \in Nat \ {0}

\* The views whose fetch carries the namespace scope; the others list the whole
\* cluster and narrow what they draw.
Scoped == Used \cap {"pods", "network", "storage", "configmaps", "secrets"}

\* The views whose command takes a namespace.
TakesNs == {"pods", "rbac", "configmaps", "secrets", "certs", "vuln", "network",
            "storage", "capacity", "velero", "k8c"}

\* The views that bind `n`, `N` or `0`.
Narrowing == Used \cap {"pods", "network", "storage", "velero", "k8c", "reflector",
                        "configmaps", "secrets", "certs", "vuln", "rbac", "capacity"}

\* The views that re-enter through their own constructor when the scope changes.
Reentered == {"pods", "network", "storage", "velero", "k8c", "reflector",
              "configmaps", "secrets", "certs", "vuln", "rbac", "capacity"}

\* The keys that jump from a row of one view to an object of another.
JumpKeys == {<<"rbac", "flux">>, <<"secrets", "certs">>, <<"certs", "secrets">>,
             <<"network", "secrets">>}

(* Mutant: the loop of a view added later is not in the list. *)
HandlesButSecrets ==
    {"nodes", "flux_logs", "flux", "pods", "network", "hooks", "storage", "capacity",
     "rbac", "vuln", "certs", "kyverno", "velero", "k8c", "argo", "rancher", "identity",
     "reflector", "rbk", "configmaps", "namespaces"}

\* Every handle of a session that runs a loop, in the order `shutdown` lists them.
Handles == {"nodes", "flux_logs", "flux", "pods", "network", "hooks", "storage",
            "capacity", "rbac", "vuln", "secrets", "certs", "kyverno", "velero", "k8c",
            "argo", "rancher", "identity", "reflector", "rbk", "configmaps", "namespaces"}

Table(v) == <<"table", v>>
Full(v)  == <<"full", v>>
Selection   == <<"selection">>
DetailFull  == <<"detail">>
AiPanel     == <<"ai">>
Diagnostic  == <<"diagnostic">>
Extract     == <<"extract">>
NodeUsage   == <<"usage">>
FluxLogs    == <<"flux_logs">>
Command     == <<"command">>
Search      == <<"search">>

Tables  == {Table(v) : v \in Used}
Fulls   == {Full(v) : v \in Used \ {"namespaces"}}
\* `:` opens the palette here, `/` the search prompt in these and the text panels.
Palette == {Selection} \cup Tables \cup Fulls
Prompts == Palette \cup {DetailFull, AiPanel, Diagnostic, FluxLogs}
Modes   == Prompts \cup {Extract, NodeUsage, Command, Search}

Loop == [phase : {"idle", "fetching"}, scope : Scopes]
Running == Used \cup {"flux_logs"}

VARIABLES
    mode,       \* who gets the keys
    ret,        \* return_mode: under the AI panel, the logs of Flux, the extraction
    cmdRet,     \* command_return_mode: under the palette
    searchRet,  \* search_return_mode: under the search prompt
    scope,      \* ns_scope
    loops,      \* per handle: the refresh loop, or None
    shots,      \* one-shot fetches under way, and answers of loops stopped too late
    shown,      \* per scoped list: the scope of the rows it holds
    extracting, \* extract_state.running
    pending,    \* pending_context: a switch was asked for
    session,    \* the number of the session
    orphans     \* loops of earlier sessions that were never stopped

vars  == <<mode, ret, cmdRet, searchRet, scope, loops, shots, shown, extracting,
           pending, session, orphans>>
slots == <<ret, cmdRet, searchRet>>
life  == <<pending, session, orphans>>

TypeOK ==
    /\ mode \in Modes
    /\ {ret, cmdRet, searchRet} \subseteq Modes
    /\ scope \in Scopes
    /\ loops \in [Running -> Loop \cup {None}]
    /\ shots \in [Scoped \X Scopes -> 0..MaxShots]
    /\ shown \in [Scoped -> Scopes \cup {None}]
    /\ {extracting, pending} \subseteq BOOLEAN
    /\ session \in 1..MaxSessions
    /\ orphans \subseteq (1..MaxSessions) \X Running

Quiet == [h \in Running |-> None]
NoShots == [f \in Scoped \X Scopes |-> 0]

\* The first session takes the scope of the command line.
Init ==
    /\ mode = Selection
    /\ ret = Selection /\ cmdRet = Selection /\ searchRet = Selection
    /\ scope \in Scopes
    /\ loops = Quiet
    /\ shots = NoShots
    /\ shown = [v \in Scoped |-> None]
    /\ extracting = FALSE /\ pending = FALSE
    /\ session = 1
    /\ orphans = {}

-----------------------------------------------------------------------------
(* Loops *)

\* The view whose table or detail a mode shows.
ViewsOf(m) == IF m[1] \in {"table", "full"} THEN {m[2]}
              ELSE IF m = NodeUsage THEN {"nodes"}
              ELSE IF m = FluxLogs THEN {"flux"}
              ELSE {}

\* `view_mode`, followed down: the search prompt may lie over the AI panel.
Under(m) == IF m = AiPanel THEN ret ELSE IF m = Command THEN cmdRet ELSE m
Shown == Under(IF mode = Search THEN searchRet ELSE mode)

Fetching(h) == loops[h] # None /\ loops[h].phase = "fetching"

\* A loop is stopped with `abort`, which does not wait: one that is just being
\* polled ends that poll, and with it may still write its answer.
CountLate(late) ==
    [f \in Scoped \X Scopes |->
        shots[f] + IF f[1] \in late /\ loops[f[1]].scope = f[2] THEN 1 ELSE 0]

\* start_*_auto_refresh, which stops the loop of an earlier visit first.
Restarted(starts, stops, s) ==
    [h \in Running |-> IF h \in starts THEN [phase |-> "idle", scope |-> s]
                       ELSE IF h \in stops THEN None
                       ELSE loops[h]]

\* Go to mode m: stop the loops in stops, put scope s in force, and enter the views
\* in starts, each with a fetch of its own before the first turn of its loop.
Go(m, stops, starts, s) ==
    /\ \E late \in SUBSET {h \in Scoped \cap (stops \cup starts) : Fetching(h)} :
           shots' = [f \in Scoped \X Scopes |->
                        CountLate(late)[f] + IF f[1] \in starts /\ f[2] = s THEN 1 ELSE 0]
    /\ \A f \in Scoped \X Scopes : shots'[f] <= MaxShots       \* bound
    /\ loops' = Restarted(starts, stops, s)
    /\ mode' = m
    /\ scope' = s
    /\ UNCHANGED <<shown, life>>

\* A key that only moves between a view and what lies over it.
Turn(m) == mode' = m /\ UNCHANGED <<scope, loops, shots, shown, life>>

\* The loop's ticker, and the answer or the error of the fetch it waits for. An
\* error leaves the rows as they are.
LoopTicks(v) ==
    /\ loops[v] # None /\ loops[v].phase = "idle"
    /\ loops' = [loops EXCEPT ![v].phase = "fetching"]
    /\ UNCHANGED <<mode, slots, scope, shots, shown, extracting, life>>

(* Mutant: the rows are written only while there are none. *)
LoopFillsOnce(v) ==
    /\ Fetching(v)
    /\ loops' = [loops EXCEPT ![v].phase = "idle"]
    /\ shown' = IF shown[v] = None THEN [shown EXCEPT ![v] = loops[v].scope] ELSE shown
    /\ UNCHANGED <<mode, slots, scope, shots, extracting, life>>

LoopAnswered(v) ==
    /\ Fetching(v)
    /\ loops' = [loops EXCEPT ![v].phase = "idle"]
    /\ shown' = [shown EXCEPT ![v] = loops[v].scope]
    /\ UNCHANGED <<mode, slots, scope, shots, extracting, life>>

LoopRefused(v) ==
    /\ Fetching(v)
    /\ loops' = [loops EXCEPT ![v].phase = "idle"]
    /\ UNCHANGED <<mode, slots, scope, shots, shown, extracting, life>>

\* A one-shot fetch ends: it writes the rows of the scope it was started under,
\* whatever the scope is by now, or leaves an error.
ShotEnds(v, s) ==
    /\ shots[<<v, s>>] > 0
    /\ shots' = [shots EXCEPT ![<<v, s>>] = @ - 1]
    /\ shown' \in {shown, [shown EXCEPT ![v] = s]}
    /\ UNCHANGED <<mode, slots, scope, loops, extracting, life>>

\* refresh_*: one fetch more, asked by the user or by a write that wants to be seen.
Refresh(v) ==
    /\ ViewsOf(Shown) = {v}
    /\ shots[<<v, scope>>] < MaxShots       \* bound
    /\ shots' = [shots EXCEPT ![<<v, scope>>] = @ + 1]
    /\ UNCHANGED <<mode, slots, scope, loops, shown, extracting, life>>

-----------------------------------------------------------------------------
(* Keys: further into a view, and over it *)

EnterFull(v) == mode = Table(v) /\ v # "namespaces" /\ Turn(Full(v))
                /\ UNCHANGED <<slots, extracting>>

OpenDetail == mode = Selection /\ Turn(DetailFull) /\ UNCHANGED <<slots, extracting>>

OpenUsage == mode = Table("nodes") /\ Turn(NodeUsage) /\ UNCHANGED <<slots, extracting>>

OpenDiagnostic == /\ mode = Selection
                  /\ Turn(Diagnostic)
                  /\ UNCHANGED <<slots, extracting>>

\* Without an AI provider the screen opens on the error and nothing runs.
OpenExtract ==
    /\ mode = Selection
    /\ ret' = mode
    /\ extracting' \in BOOLEAN
    /\ Turn(Extract)
    /\ UNCHANGED <<cmdRet, searchRet>>

ExtractEnds == /\ extracting
               /\ extracting' = FALSE
               /\ Turn(mode) /\ UNCHANGED slots

(* Mutant: asking again from the panel itself makes the panel its own way back. *)
OpenAiAnywhere ==
    /\ mode \in Tables \cup Fulls \cup {Selection, DetailFull, NodeUsage, Diagnostic, AiPanel}
    /\ ret' = mode
    /\ Turn(AiPanel)
    /\ UNCHANGED <<cmdRet, searchRet, extracting>>

\* `i`, and `m` in the panel, which asks another provider about the same row.
OpenAi ==
    /\ mode \in Tables \cup Fulls \cup {Selection, DetailFull, NodeUsage, Diagnostic, AiPanel}
    /\ ret' = IF mode = AiPanel THEN ret ELSE mode
    /\ Turn(AiPanel)
    /\ UNCHANGED <<cmdRet, searchRet, extracting>>

OpenCommand ==
    /\ mode \in Palette
    /\ cmdRet' = mode
    /\ Turn(Command)
    /\ UNCHANGED <<ret, searchRet, extracting>>

OpenSearch ==
    /\ mode \in Prompts
    /\ searchRet' = mode
    /\ Turn(Search)
    /\ UNCHANGED <<ret, cmdRet, extracting>>

OpenFluxLogs ==
    /\ mode \in {Table("flux"), Full("flux")}
    /\ ret' = mode
    /\ Go(FluxLogs, {}, {"flux_logs"}, scope)
    /\ UNCHANGED <<cmdRet, searchRet, extracting>>

\* Where Esc leads: exit_*.
Back(m, r, c, s) ==
    CASE m[1] = "full"  -> Table(m[2])
      [] m[1] = "table" -> Selection
      [] m = NodeUsage  -> Table("nodes")
      [] m = AiPanel    -> r
      [] m = Extract    -> IF r = Extract THEN Selection ELSE r
      [] m = FluxLogs   -> IF r \in {Table("flux"), Full("flux")} THEN r ELSE Table("flux")
      [] m = Command    -> c
      [] m = Search     -> s
      [] OTHER          -> Selection

\* The loop Esc ends: only leaving the table itself ends that of a view.
EndedByEsc(m) == IF m[1] = "table" THEN {m[2]}
                 ELSE IF m = FluxLogs THEN {"flux_logs"}
                 ELSE {}

Kept(m, here, slot) == IF m = here THEN Selection ELSE slot

Esc ==
    /\ mode # Selection
    /\ mode = Extract => ~extracting
    /\ Go(Back(mode, ret, cmdRet, searchRet), EndedByEsc(mode), {}, scope)
    /\ ret' = IF mode \in {AiPanel, Extract, FluxLogs} THEN Selection ELSE ret
    /\ cmdRet' = Kept(mode, Command, cmdRet)
    /\ searchRet' = Kept(mode, Search, searchRet)
    /\ UNCHANGED extracting

-----------------------------------------------------------------------------
(* Keys: from one view to another *)

\* leave_special_modes stops the loop of the view it leaves.
LeaveSpecial(m) == ViewsOf(m)

\* The palette's commands run from the view it lies over.
RunView(v, s) ==
    /\ mode = Command
    /\ v \in TakesNs \/ s = scope
    /\ Go(Table(v), LeaveSpecial(cmdRet), {v}, s)
    /\ cmdRet' = Selection
    /\ UNCHANGED <<ret, searchRet, extracting>>

\* `:events`, and `:namespace` with a name.
RunEvents(s) ==
    /\ mode = Command
    /\ Go(Selection, LeaveSpecial(cmdRet), {}, s)
    /\ cmdRet' = Selection
    /\ UNCHANGED <<ret, searchRet, extracting>>

RunFluxLogs ==
    LET inFlux == cmdRet \in {Table("flux"), Full("flux")} IN
    /\ mode = Command
    /\ ret' = IF inFlux THEN cmdRet ELSE Table("flux")
    /\ cmdRet' = Selection
    /\ Go(FluxLogs, IF inFlux THEN {} ELSE LeaveSpecial(cmdRet),
          IF inFlux THEN {"flux_logs"} ELSE {"flux", "flux_logs"}, scope)
    /\ UNCHANGED <<searchRet, extracting>>

\* `:ctx` with the name of another context. (An unknown one, an unknown command and
\* `:forward` put the view back, as Esc does.)
RunContext ==
    /\ mode = Command
    /\ mode' = cmdRet
    /\ cmdRet' = Selection
    /\ pending' = TRUE
    /\ UNCHANGED <<ret, searchRet, scope, loops, shots, shown, extracting, session, orphans>>

\* `o` and `s`: from a row to the object of another view it comes from.
Jump(a, b) ==
    /\ mode = Table(a) \/ (a = "certs" /\ mode = Full(a))
    /\ Go(Table(b), {a}, {b}, scope)
    /\ UNCHANGED <<slots, extracting>>

NodesOfEvent ==
    /\ mode \in {Selection, DetailFull}
    /\ Go(Table("nodes"), {}, {"nodes"}, scope)
    /\ UNCHANGED <<slots, extracting>>

PickNamespace(s) ==
    /\ mode = Table("namespaces") /\ s # AllNs
    /\ Go(Selection, {"namespaces"}, {}, s)
    /\ UNCHANGED <<slots, extracting>>

\* `n`, `N`, `0`: the scope changes, and the view is entered again under it.
Narrow(s) ==
    /\ s # scope
    /\ \/ mode = Selection /\ Go(Selection, {}, {}, s)
       \/ \E v \in Narrowing :
              /\ mode = Table(v)
              /\ IF v \in Reentered THEN Go(Table(v), {}, {v}, s) ELSE Go(Selection, {}, {}, s)
    /\ UNCHANGED <<slots, extracting>>

-----------------------------------------------------------------------------
(* Sessions *)

\* The startup screen of the other context was left, or its client not built.
Stay == pending /\ pending' = FALSE
        /\ UNCHANGED <<mode, slots, scope, loops, shots, shown, extracting, session, orphans>>

\* `shutdown`, then `rebuild`: the new session has states of its own, so what the old
\* one still has under way cannot reach it.
Switch ==
    /\ pending /\ session < MaxSessions
    /\ orphans' = orphans \cup {<<session, h>> : h \in {k \in Running \ Handles : loops[k] # None}}
    /\ session' = session + 1
    /\ pending' = FALSE
    /\ mode' = Selection /\ ret' = Selection /\ cmdRet' = Selection /\ searchRet' = Selection
    /\ scope' = AllNs
    /\ loops' = Quiet /\ shots' = NoShots
    /\ shown' = [v \in Scoped |-> None]
    /\ extracting' = FALSE

-----------------------------------------------------------------------------

\* No key is read between the request for another context and its outcome.
Key ==
    /\ ~pending
    /\ \/ OpenDetail \/ OpenUsage \/ OpenDiagnostic \/ OpenExtract \/ OpenAi
       \/ OpenCommand \/ OpenSearch \/ Esc \/ RunContext \/ NodesOfEvent
       \/ OpenFluxLogs \/ RunFluxLogs
       \/ \E v \in Used : EnterFull(v)
       \/ \E v \in Scoped : Refresh(v)
       \/ \E v \in Used, s \in Scopes : RunView(v, s)
       \/ \E s \in Scopes : RunEvents(s) \/ PickNamespace(s) \/ Narrow(s)
       \/ \E j \in JumpKeys : {j[1], j[2]} \subseteq Used /\ Jump(j[1], j[2])

Next ==
    \/ Key
    \/ ExtractEnds
    \/ Stay \/ Switch
    \/ \E v \in Scoped : LoopTicks(v) \/ LoopAnswered(v) \/ LoopRefused(v)
    \/ \E v \in Scoped, s \in Scopes : ShotEnds(v, s)

\* The runtime runs every loop and every fetch it was given. An apiserver that is
\* asked again and again answers again and again; nobody has to press a key.
Fairness ==
    /\ \A v \in Scoped : WF_vars(LoopTicks(v)) /\ SF_vars(LoopAnswered(v))
    /\ \A v \in Scoped, s \in Scopes : WF_vars(ShotEnds(v, s))

Spec == Init /\ [][Next]_vars /\ Fairness

-----------------------------------------------------------------------------
(* Properties *)

\* A loop runs exactly for the view on screen, and for the logs of Flux when they are
\* up: no way out of a view leaves its loop polling the cluster, and nothing that
\* opens over a view stops it. (ui.rs leave_special_modes, exit_*, the jumps.)
LoopsMatchView ==
    {h \in Running : loops[h] # None} =
        ViewsOf(Shown) \cup (IF Shown = FluxLogs THEN {"flux_logs"} ELSE {})

\* A loop fetches under the scope in force, never under one it captured before the
\* user chose another. (ui.rs reenter_after_namespace_change.)
LoopReadsScope == \A v \in Scoped : loops[v] # None => loops[v].scope = scope

\* Esc pressed again and again leads back to the event list from anywhere, except out
\* of an extraction that runs: the slots the overlays return to never form a loop.
EscGoesHome ==
    LET back(m) == Back(m, ret, cmdRet, searchRet)
    IN  back(back(back(back(mode)))) = Selection

\* No loop of a session goes on polling its cluster behind the next one's back.
NothingOutlivesSession == orphans = {}

\* Once the user settles on a view and a scope, its rows become those of that scope
\* and stay so, even if older fetches answered last.
ListCatchesUp ==
    \A v \in Scoped, s \in Scopes :
        <>[](ViewsOf(Shown) = {v} /\ scope = s /\ ~pending) => <>[](shown[v] = s)

(* The loops are those of the view, of its scope and of its session.       *)
LoopsFollowTheView ==
    TypeOK /\ LoopsMatchView /\ LoopReadsScope /\ NothingOutlivesSession
=============================================================================
