--------------------------- MODULE CassandraView ---------------------------
(***************************************************************************)
(* The Cassandra operations of the TUI (src/ui.rs, k8ssandra.rs,           *)
(* nodetool.rs): three worlds over one inventory, a cursor, the menu of    *)
(* what the row under it offers, and what is started from there: a restore *)
(* of a capture, a maintenance task, a `nodetool` command run by a Job.    *)
(*                                                                         *)
(* The inventory is read by tasks of their own, and the table is built     *)
(* again on every turn of the main loop, under an open menu too.  A        *)
(* question is asked about one row, then, and answered when another may be *)
(* under the cursor, the row asked about being gone or the cursor having   *)
(* been sent to a Job that has just appeared.                              *)
(*                                                                         *)
(* Rows that offer nothing, folds, filters and the search are left out; so *)
(* is the text of a command, but for its being there or not.               *)
(***************************************************************************)
EXTENDS Naturals, FiniteSets, Sequences

CONSTANTS
    Members,   \* the Cassandra nodes, numbered in the order of their rows
    Captures,  \* the backups of the catalogue, the newest with the highest number
    Failed,    \* the captures that a node failed in
    MaxCommands,   \* bound: `nodetool` commands confirmed
    Nil

ASSUME CassandraAssumption ==
    /\ Members \subseteq Nat /\ Captures \subseteq Nat /\ Failed \subseteq Captures
    /\ MaxCommands \in Nat
    /\ Nil \notin Nat

VARIABLES
    captures,  \* what each capture has come to, in the cluster
    inv,       \* k8c_state, and the table drawn from it
    world,     \* k8c_world
    uid,       \* selected_uid
    focus,     \* k8c_focus: the Job the cursor is to go to once it is listed
    menu,      \* action_menu
    ntTarget,  \* k8c_nt_target: the node a command is for
    runs,      \* the `nodetool::run` tasks under way
    asked,     \* history: the node named by each question that was answered yes
    made,      \* history: the Jobs created, the command each one came from
    restored   \* history: the capture the last restore was started from

viewVars == <<world, uid, focus>>
askVars == <<menu, ntTarget>>
jobVars == <<runs, asked, made>>
cassandraVars == <<captures, inv, viewVars, askVars, jobVars, restored>>

(* A capture is short of nodes, for good or for now; then whole, then gone  *)
(* from the catalogue.                                                     *)
CaptureStates == {"partial", "whole", "gone"}

(* What a reading may have of a capture: what it was at some moment.  (A     *)
(* list that could not be read, and shows none, is left out.)              *)
Readings == [partial |-> {"partial"}, whole |-> {"partial", "whole"}, gone |-> CaptureStates]

Worlds == {"Cluster", "Backups", "Ops"}

Inventories == [nodes : SUBSET Members, captures : [Captures -> CaptureStates],
                jobs : SUBSET (1..MaxCommands)]

(* `build_k8c_rows` *)
RowsOf(i, w) ==
    LET shown == {c \in Captures : i.captures[c] # "gone"}
    IN CASE w = "Cluster" -> {<<"datacenter", 0>>} \cup ({"node"} \X i.nodes)
         [] w = "Backups" -> {<<"catalogue", 0>> : c \in shown} \cup ({"capture"} \X shown)
         [] w = "Ops"     -> {"job"} \X i.jobs

AllRows == {<<"datacenter", 0>>, <<"catalogue", 0>>} \cup ({"node"} \X Members)
               \cup ({"capture"} \X Captures) \cup ({"job"} \X (1..MaxCommands))

(* Headings come first, then the nodes by number, captures and Jobs from    *)
(* the newest.                                                             *)
Before(q, r) ==
    \/ q[1] # r[1] /\ q[1] \in {"datacenter", "catalogue"}
    \/ q[1] = r[1] /\ IF r[1] = "node" THEN q[2] < r[2] ELSE q[2] > r[2]

Place(rows, u) == IF u \in rows THEN 1 + Cardinality({r \in rows : Before(r, u)}) ELSE 1

K8cTable == RowsOf(inv, world)

(* The row under the cursor, if there is one: `k8c_selected`. *)
Selected(r) == r = uid /\ r \in K8cTable

(* `K8cRow::actions`: the whole of a datacenter, one node, a whole capture. *)
Offered(r) ==
    CASE r[1] = "datacenter" -> {"task"}
      [] r[1] = "node"       -> {"nodetool"}
      [] r[1] = "capture"    -> IF inv.captures[r[2]] = "whole" THEN {"restore"} ELSE {}
      [] OTHER               -> {}

(* `refresh_k8c_snapshot` over the inventory `i` and the world `w`: the Job  *)
(* that was waited for, or the row `u` that was under the cursor, or the   *)
(* one that has come to its place (the last one, if there are fewer).      *)
Refreshed(i, w, u, place, f) ==
    LET rows == RowsOf(i, w)
        last == Cardinality(rows)
    IN /\ inv' = i
       /\ world' = w
       /\ focus' = IF f \in rows THEN Nil ELSE f
       /\ \/ rows = {} /\ uid' = u
          \/ f \in rows /\ uid' = f
          \/ f \notin rows /\ u \in rows /\ uid' = u
          \/ /\ f \notin rows /\ u \notin rows
             /\ uid' \in {r \in rows : Place(rows, r) = IF place > last THEN last ELSE place}

CassandraInit ==
    /\ captures = [c \in Captures |-> "partial"]
    /\ inv = [nodes |-> {}, captures |-> [c \in Captures |-> "gone"], jobs |-> {}]
    /\ world = "Cluster" /\ uid = <<"datacenter", 0>> /\ focus = Nil
    /\ menu = Nil /\ ntTarget = Nil
    /\ runs = {} /\ asked = <<>> /\ made = <<>> /\ restored = Nil

-----------------------------------------------------------------------------
(* The inventory: the loop's reading, a manual one, the one after a write *)

(* A reading lands, and the loop builds the table again before it takes a   *)
(* key.  What a reading has of a list may be as old as can be, readings     *)
(* being overtaken by later ones; pods go and come back under their names, *)
(* and Jobs are removed some time after they ended.                        *)
Lands(i) ==
    /\ Refreshed(i, world, uid, Place(K8cTable, uid), focus)
    /\ UNCHANGED <<captures, askVars, jobVars, restored>>

Fetch ==
    \/ \E nodes \in SUBSET Members : Lands([inv EXCEPT !.nodes = nodes])
    \/ \E jobs \in SUBSET DOMAIN made : Lands([inv EXCEPT !.jobs = jobs])
    \/ \E cs \in [Captures -> CaptureStates] :
        /\ \A c \in Captures : cs[c] \in Readings[captures[c]]
        /\ Lands([inv EXCEPT !.captures = cs])

-----------------------------------------------------------------------------
(* Keys over the table *)

(* `move_k8c_selection` *)
MoveTo(r) ==
    /\ menu = Nil
    /\ r \in K8cTable
    /\ LET from == Place(K8cTable, uid) to == Place(K8cTable, r)
       IN from = to + 1 \/ to = from + 1
    /\ uid' = r
    /\ UNCHANGED <<captures, inv, world, focus, askVars, jobVars, restored>>

(* Another world, or the view left and entered again. *)
Enter(w) ==
    /\ menu = Nil
    /\ Refreshed(inv, w, Nil, 1, focus)
    /\ UNCHANGED <<captures, askVars, jobVars, restored>>

Menus == [action : {"restore", "task", "nodetool"}, named : Members \cup {Nil},
          line : {"none", "blank", "typed"}, armed : BOOLEAN]

Menu(action, node, line) ==
    [action |-> action, named |-> node, line |-> line, armed |-> FALSE]

(* `open_k8c_action_menu`: what the row offers.  The note names the node. *)
OpenActionMenu(r) ==
    /\ menu = Nil
    /\ Selected(r)
    /\ \E action \in Offered(r) :
        LET node == IF r[1] = "node" THEN r[2] ELSE Nil
        IN /\ menu' = Menu(action, node, "none")
           /\ ntTarget' = node
    /\ UNCHANGED <<captures, inv, viewVars, jobVars, restored>>

(* `x`: the line is open on arrival. *)
OpenNodetoolPrompt(r) ==
    /\ menu = Nil
    /\ Selected(r)
    /\ r[1] = "node"
    /\ menu' = Menu("nodetool", r[2], "blank")
    /\ ntTarget' = r[2]
    /\ UNCHANGED <<captures, inv, viewVars, jobVars, restored>>

-----------------------------------------------------------------------------
(* Keys over the menu, which takes them all *)

Typing == menu # Nil /\ menu.line # "none"
Armed == menu # Nil /\ menu.armed

(* Characters and Backspace; once the line has been shown for confirmation, *)
(* digits and Backspace still.                                             *)
EditLine(l) ==
    /\ Typing
    /\ menu.line # l
    /\ menu' = [menu EXCEPT !.line = l]
    /\ UNCHANGED <<captures, inv, viewVars, ntTarget, jobVars, restored>>

(* The first Enter: a command gets its line, a line is shown with its node, *)
(* any other entry its question.                                           *)
FirstEnter ==
    /\ menu # Nil
    /\ CASE menu.action = "nodetool" /\ menu.line = "none" ->
                menu' = [menu EXCEPT !.line = "blank", !.armed = FALSE]
         [] menu.action = "nodetool" /\ menu.line = "typed" /\ ~menu.armed ->
                menu' = [menu EXCEPT !.armed = TRUE, !.named = ntTarget]
         [] menu.action # "nodetool" /\ ~menu.armed ->
                menu' = [menu EXCEPT !.armed = TRUE]
         [] OTHER -> FALSE
    /\ UNCHANGED <<captures, inv, viewVars, ntTarget, jobVars, restored>>

(* Mutant: the node under the cursor when the command is confirmed. *)
TargetUnderCursor == IF \E n \in Members : Selected(<<"node", n>>) THEN uid[2] ELSE Nil

(* What a confirmed command is aimed at. *)
Target == ntTarget

(* The second Enter on a line: `k8c_nodetool_run`. *)
RunCommand ==
    /\ Armed /\ menu.line = "typed"
    /\ Target # Nil
    /\ Len(asked) < MaxCommands
    /\ menu' = Nil
    /\ ntTarget' = Nil
    /\ asked' = Append(asked, menu.named)
    /\ runs' = runs \cup {[ask |-> Len(asked'), node |-> Target, job |-> Nil]}
    /\ Refreshed(inv, "Ops", Nil, 1, focus)
    /\ UNCHANGED <<captures, made, restored>>

(* Mutant: the row is not asked again what it offers. *)
WriteForAnyRow(r, action) == Selected(r)

(* `write_for`: the row builds the object, and only one that it offers. *)
WriteFor(r, action) == Selected(r) /\ action \in Offered(r)

(* The second Enter on an entry: `k8c_write`, from the row that is under    *)
(* the cursor by now.                                                      *)
ConfirmWrite ==
    /\ Armed /\ menu.action # "nodetool"
    /\ menu' = Nil
    /\ restored' = IF menu.action = "restore" /\ \E c \in Captures :
                                                    WriteFor(<<"capture", c>>, "restore")
                   THEN uid[2]
                   ELSE restored
    /\ UNCHANGED <<captures, inv, viewVars, ntTarget, jobVars>>

(* Esc: the entry, the question, the menu. *)
EscMenu ==
    /\ menu # Nil
    /\ menu' = CASE menu.line # "none" -> [menu EXCEPT !.line = "none"]
                 [] menu.line = "none" /\ menu.armed -> [menu EXCEPT !.armed = FALSE]
                 [] OTHER -> Nil
    /\ UNCHANGED <<captures, inv, viewVars, ntTarget, jobVars, restored>>

-----------------------------------------------------------------------------
(* The task of a confirmed command: `nodetool::run`, then the focus *)

RunCreates(r) ==
    /\ r.job = Nil
    /\ made' = Append(made, [ask |-> r.ask, node |-> r.node])
    /\ runs' = (runs \ {r}) \cup {[r EXCEPT !.job = Len(made')]}
    /\ UNCHANGED <<captures, inv, viewVars, askVars, asked, restored>>

RunAnswered(r) ==
    /\ r.job # Nil
    /\ runs' = runs \ {r}
    /\ Refreshed(inv, world, uid, Place(K8cTable, uid), <<"job", r.job>>)
    /\ UNCHANGED <<captures, askVars, asked, made, restored>>

(* The pod is gone, a call failed, or the answer to the creation was lost. *)
RunFails(r) ==
    /\ runs' = runs \ {r}
    /\ UNCHANGED <<captures, inv, viewVars, askVars, asked, made, restored>>

-----------------------------------------------------------------------------
(* The cluster *)

CaptureBecomes(c, from, to) ==
    /\ captures[c] = from
    /\ captures' = [captures EXCEPT ![c] = to]
    /\ UNCHANGED <<inv, viewVars, askVars, jobVars, restored>>

CaptureEnds(c) == c \notin Failed /\ CaptureBecomes(c, "partial", "whole")

(* A partial one offers nothing: that it may be purged too is left out.     *)
CapturePurged(c) == CaptureBecomes(c, "whole", "gone")

-----------------------------------------------------------------------------
CassandraNext ==
    \/ Fetch
    \/ \E r \in AllRows : MoveTo(r)
    \/ \E w \in Worlds : Enter(w)
    \/ \E r \in AllRows : OpenActionMenu(r)
    \/ \E r \in AllRows : OpenNodetoolPrompt(r)
    \/ \E l \in {"blank", "typed"} : EditLine(l)
    \/ FirstEnter
    \/ RunCommand
    \/ ConfirmWrite
    \/ EscMenu
    \/ \E r \in runs : RunCreates(r)
    \/ \E r \in runs : RunAnswered(r)
    \/ \E r \in runs : RunFails(r)
    \/ \E c \in Captures : CaptureEnds(c)
    \/ \E c \in Captures : CapturePurged(c)

CassandraSpec == CassandraInit /\ [][CassandraNext]_cassandraVars

-----------------------------------------------------------------------------
CassandraTypeOK ==
    /\ captures \in [Captures -> CaptureStates]
    /\ inv \in Inventories
    /\ world \in Worlds
    /\ uid \in AllRows \cup {Nil}
    /\ focus \in ({"job"} \X DOMAIN made) \cup {Nil}
    /\ menu \in Menus \cup {Nil}
    /\ ntTarget \in Members \cup {Nil}
    /\ runs \subseteq [ask : DOMAIN asked, node : Members, job : DOMAIN made \cup {Nil}]
    /\ asked \in Seq(Members)
    /\ made \in Seq([ask : DOMAIN asked, node : Members])
    /\ restored \in Captures \cup {Nil}

(* A Job runs on the node its question named, whatever came under the       *)
(* cursor while the question was open, and one yes makes one Job at most,  *)
(* whatever became of the answer to its creation.                          *)
OneJobPerYes ==
    /\ \A j \in DOMAIN made : made[j].node = asked[made[j].ask]
    /\ \A j, k \in DOMAIN made : made[j].ask = made[k].ask => j = k

JobsAreAsked == CassandraTypeOK /\ OneJobPerYes

(* A restore only ever starts from a capture that covered every node: the   *)
(* one of the row asked about, or of the row that took its place, and      *)
(* however old the inventory it was read in ("a partial one would be       *)
(* replayed as if it were whole").                                         *)
OnlyWholeIsRestored ==
    restored # Nil => captures[restored] \in {"whole", "gone"}
=============================================================================
