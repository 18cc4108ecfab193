----------------------------- MODULE PortForward -----------------------------
(***************************************************************************)
(* Port forwards (src/portfwd.rs, and src/ui.rs `open_pf_view` to          *)
(* `forwards_stop_selected`): the registry the views read, the task of     *)
(* each forward, the connections it carries, and the local ports.          *)
(*                                                                         *)
(* A forward is known by its number.  Stopping one removes its row at once *)
(* and asks its task to end, which it does at its next await: until then   *)
(* the task holds what it holds.                                           *)
(***************************************************************************)
EXTENDS Integers, Sequences, FiniteSets, SequencesExt

CONSTANTS None,
          Services,        \* ports of services, what a forward leads to
          Ports,           \* local ports
          Pods,
          EndpointLists,   \* what the slices of a service port can say
          Conns,           \* connections at once
          MaxStarts,       \* forwards started
          MaxServed        \* connections one forward serves

AnyPort == 0                   \* "any free port"

ASSUME ForwardAssumption ==
    /\ None \notin Services \cup Pods
    /\ Ports \subseteq Nat \ {AnyPort}
    /\ \A list \in EndpointLists : list = None \/ list \in Seq([pod : Pods, ready : BOOLEAN])
    /\ IsFiniteSet(Conns)
    /\ MaxStarts \in Nat /\ MaxServed \in Nat

VARIABLES entries,    \* the registry: a sequence of rows
          started,    \* next_id
          task,       \* the task of each forward
          conn,       \* the connections
          form,       \* the service port the form is on, or None
          cursor,     \* of the list of forwards, or None
          endpoints,  \* EndpointSlices: of each service port, a sequence of
                      \* [pod, ready]; None when there is no such port over TCP
          wasReady    \* history: the pods seen ready, by service port

vars == <<entries, started, task, conn, form, cursor, endpoints, wasReady>>

Ids == 1..MaxStarts

NoTask == [pc |-> "none", for |-> None, asked |-> AnyPort, pod |-> None, bound |-> AnyPort,
           aborted |-> FALSE]
NoConn == [pc |-> "none", id |-> 0]

Ready(list) == {k \in DOMAIN list : list[k].ready}
Readies(list) == {list[k].pod : k \in Ready(list)}
ReadyNow(e) == [s \in Services |-> IF e[s] = None THEN {} ELSE Readies(e[s])]

Init ==
    /\ entries = <<>>
    /\ started = 0
    /\ task = [i \in Ids |-> NoTask]
    /\ conn = [c \in Conns |-> NoConn]
    /\ form = None
    /\ cursor = None
    /\ endpoints \in [Services -> EndpointLists]
    /\ wasReady = ReadyNow(endpoints)

Rows == ToSet(entries)
Listed(i) == \E r \in Rows : r.id = i

(* `update`: the row of that number, if it is still there;                 *)
(* `become` tells what each row turns into.                                *)
Updated(i, become) ==
    [k \in DOMAIN entries |->
        IF entries[k].id = i THEN become[entries[k]] ELSE entries[k]]

Held == {task[i].bound : i \in Ids} \ {AnyPort}

-----------------------------------------------------------------------------
(* The two panels.                                                         *)

(* Where the first of a sequence that has it is, among those that have it. *)
IsFirst(k, places) == k \in places /\ \A j \in places : k <= j

(* `find`: the places of what leads to this service port, failed or not.   *)
Find(s) == {k \in DOMAIN entries : entries[k].for = s}

(* Mutant: the row goes and nobody tells the task.                         *)
StopForgetsTask(k) ==
    /\ entries' = RemoveAt(entries, k)
    /\ UNCHANGED task

(* `stop`: the row goes, the task is asked to end.  It is called with the  *)
(* number of a row, here the row's place: numbers are not given twice.     *)
Stop(k) ==
    /\ entries' = RemoveAt(entries, k)
    /\ task' = [task EXCEPT ![entries[k].id].aborted = TRUE]

(* `start`: a row that says it is starting, and its task.                  *)
Start(s, port) ==
    /\ started < MaxStarts
    /\ started' = started + 1
    /\ entries' = Append(entries, [id |-> started + 1, for |-> s, local |-> port, pod |-> None,
                      state |-> "starting", open |-> 0, served |-> 0, error |-> FALSE])
    /\ task' = [task EXCEPT ![started + 1] = [NoTask EXCEPT !.pc = "resolve", !.for = s,
                                                             !.asked = port]]

(* `f` on a service; Esc.                                                  *)
OpenPfView(s) ==
    /\ form = None /\ cursor = None
    /\ form' = s
    /\ UNCHANGED <<entries, started, task, conn, cursor, endpoints, wasReady>>

PfClose ==
    /\ form # None
    /\ form' = None
    /\ UNCHANGED <<entries, started, task, conn, cursor, endpoints, wasReady>>

(* Enter: stops what is there and stays, or starts on the port typed.      *)
PfActivate(port) ==
    /\ form # None
    /\ \/ /\ \E k \in DOMAIN entries : IsFirst(k, Find(form)) /\ Stop(k)
          /\ UNCHANGED <<started, form>>
       \/ /\ Find(form) = {}
          /\ Start(form, port)
          /\ form' = None
    /\ UNCHANGED <<conn, cursor, endpoints, wasReady>>

(* `F`: the list of forwards.                                              *)
OpenForwardsView ==
    /\ form = None /\ cursor = None
    /\ cursor' = 0
    /\ UNCHANGED <<entries, started, task, conn, form, endpoints, wasReady>>

ForwardsClose ==
    /\ cursor # None
    /\ cursor' = None
    /\ UNCHANGED <<entries, started, task, conn, form, endpoints, wasReady>>

Clamped(to, n) == IF n = 0 \/ to < 0 THEN 0 ELSE IF to > n - 1 THEN n - 1 ELSE to

ForwardsMove(delta) ==
    /\ cursor # None
    /\ cursor' = Clamped(cursor + delta, Len(entries))
    /\ UNCHANGED <<entries, started, task, conn, form, endpoints, wasReady>>

Clipped(i, n) == IF n = 0 THEN 0 ELSE IF i < n THEN i ELSE n - 1

(* `d` on the list.                                                        *)
ForwardsStopSelected ==
    /\ cursor # None
    /\ cursor < Len(entries)
    /\ Stop(cursor + 1)
    /\ cursor' = Clipped(cursor, Len(entries) - 1)
    /\ UNCHANGED <<started, conn, form, endpoints, wasReady>>

(* kdt leaves, or moves to another context.                                *)
StopAll ==
    /\ entries # <<>>
    /\ entries' = <<>>
    /\ task' = [i \in Ids |-> IF Listed(i) THEN [task[i] EXCEPT !.aborted = TRUE] ELSE task[i]]
    /\ form' = None /\ cursor' = None
    /\ UNCHANGED <<started, conn, endpoints, wasReady>>

-----------------------------------------------------------------------------
(* The task of a forward.                                                  *)

Running(i, pc) == task[i].pc = pc /\ ~task[i].aborted

(* The service, its port and the first of its endpoints that is ready, or  *)
(* what is missing.                                                        *)
Resolve(i) ==
    /\ Running(i, "resolve")
    /\ \/ task' = [task EXCEPT ![i].pc = "failing"]
       \/ LET list == endpoints[task[i].for]
          IN /\ list # None
             /\ \E k \in DOMAIN list :
                  /\ IsFirst(k, Ready(list))
                  /\ task' = [task EXCEPT ![i].pc = "bind", ![i].pod = list[k].pod]
    /\ UNCHANGED <<entries, started, conn, form, cursor, endpoints, wasReady>>

(* The local socket: the port asked for if it is free, or any; somebody    *)
(* else's use of it is a failure like another.                             *)
Bind(i) ==
    /\ Running(i, "bind")
    /\ \/ task' = [task EXCEPT ![i].pc = "failing"]
       \/ \E p \in Ports \ Held :
            /\ task[i].asked \in {p, AnyPort}
            /\ task' = [task EXCEPT ![i].pc = "announce", ![i].bound = p]
    /\ UNCHANGED <<entries, started, conn, form, cursor, endpoints, wasReady>>

(* Between two awaits the task runs on, asked to end or not.               *)
Fail(i) ==
    /\ task[i].pc = "failing"
    /\ entries' = Updated(i, [r \in Rows |-> [r EXCEPT !.state = "failed"]])
    /\ task' = [task EXCEPT ![i].pc = "done"]
    /\ UNCHANGED <<started, conn, form, cursor, endpoints, wasReady>>

(* Mutant: the row keeps the port that was asked for.                      *)
Announced(i, r) == [r EXCEPT !.state = "listening", !.pod = task[i].pod]

(* The row learns where the forward listens.                               *)
Listening(i, r) ==
    [r EXCEPT !.state = "listening", !.pod = task[i].pod, !.local = task[i].bound]

Announce(i) ==
    /\ task[i].pc = "announce"
    /\ entries' = Updated(i, [r \in Rows |-> Listening(i, r)])
    /\ task' = [task EXCEPT ![i].pc = "serve"]
    /\ UNCHANGED <<started, conn, form, cursor, endpoints, wasReady>>

(* A connection is accepted, counted, and given a task of its own.         *)
Accept(i, c) ==
    /\ Running(i, "serve")
    /\ conn[c] = NoConn
    /\ \A r \in Rows : r.id = i => r.served < MaxServed
    /\ entries' = Updated(i, [r \in Rows |-> [r EXCEPT !.open = r.open + 1, !.served = r.served + 1]])
    /\ conn' = [conn EXCEPT ![c] = [pc |-> "pump", id |-> i]]
    /\ UNCHANGED <<started, task, form, cursor, endpoints, wasReady>>

(* Every end of a connection takes it off, and says how it ended: an end   *)
(* without an error erases the one before.                                 *)
Ended(i, ok, r) ==
    [r EXCEPT !.open = IF r.open > 0 THEN r.open - 1 ELSE 0, !.error = ~ok]

PumpEnds(c, ok) ==
    /\ conn[c].pc = "pump"
    /\ entries' = Updated(conn[c].id, [r \in Rows |-> Ended(conn[c].id, ok, r)])
    /\ conn' = [conn EXCEPT ![c] = NoConn]
    /\ UNCHANGED <<started, task, form, cursor, endpoints, wasReady>>

(* At an await the task ends as asked: the listener and the connections it *)
(* carries go with it.                                                     *)
Aborted(i) ==
    /\ task[i].aborted /\ task[i].pc \in {"resolve", "bind", "serve"}
    /\ task' = [task EXCEPT ![i].pc = "done", ![i].bound = AnyPort]
    /\ conn' = [c \in Conns |-> IF conn[c].id = i THEN NoConn ELSE conn[c]]
    /\ UNCHANGED <<entries, started, form, cursor, endpoints, wasReady>>

(* The cluster: endpoints come, go, and change.                            *)
Changed(s) ==
    /\ \E list \in EndpointLists \ {endpoints[s]} :
         endpoints' = [endpoints EXCEPT ![s] = list]
    /\ wasReady' = [wasReady EXCEPT ![s] = @ \cup ReadyNow(endpoints')[s]]
    /\ UNCHANGED <<entries, started, task, conn, form, cursor>>

User ==
    \/ \E s \in Services : OpenPfView(s)
    \/ PfClose
    \/ \E port \in Ports \cup {AnyPort} : PfActivate(port)
    \/ OpenForwardsView
    \/ ForwardsClose
    \/ ForwardsMove(1) \/ ForwardsMove(-1)
    \/ ForwardsStopSelected
    \/ StopAll

ForwardStep(i) == Resolve(i) \/ Bind(i) \/ Fail(i) \/ Announce(i) \/ Aborted(i)

Next ==
    \/ User
    \/ \E i \in Ids : ForwardStep(i)
    \/ \E i \in Ids, c \in Conns : Accept(i, c)
    \/ \E c \in Conns, ok \in BOOLEAN : PumpEnds(c, ok)
    \/ \E s \in Services : Changed(s)

Spec == Init /\ [][Next]_vars

FairSpec ==
    /\ Spec
    /\ \A i \in Ids : WF_vars(ForwardStep(i))

-----------------------------------------------------------------------------
(* Properties.                                                             *)

RowType ==
    [id : Ids, for : Services, local : Ports \cup {AnyPort}, pod : Pods \cup {None},
     state : {"starting", "listening", "failed"}, open : 0..Cardinality(Conns),
     served : 0..MaxServed, error : BOOLEAN]

TaskType ==
    [pc : {"none", "resolve", "bind", "failing", "announce", "serve", "done"},
     for : Services \cup {None}, asked : Ports \cup {AnyPort},
     pod : Pods \cup {None}, bound : Ports \cup {AnyPort}, aborted : BOOLEAN]

TypeOK ==
    /\ entries \in Seq(RowType)
    /\ started \in 0..MaxStarts
    /\ task \in [Ids -> TaskType]
    /\ conn \in [Conns -> [pc : {"none", "pump"}, id : 0..MaxStarts]]
    /\ form \in Services \cup {None}
    /\ cursor \in Nat \cup {None}
    /\ \A s \in Services : endpoints[s] \in EndpointLists /\ wasReady[s] \subseteq Pods

(* A service port has one forward at most, whatever was started, stopped   *)
(* or failed before: the form stops what is there before it starts.        *)
OneForwardPerPort == \A r, q \in Rows : r.for = q.for => r = q

(* "A row that showed `listening` before the socket exists would be a row  *)
(* that lies" (portfwd.rs:46): it has the very port its task holds, and    *)
(* nobody else listens there.                                              *)
ListeningIsBound ==
    \A r \in Rows :
      r.state = "listening" =>
        /\ r.local # AnyPort /\ task[r.id].bound = r.local
        /\ \A i \in Ids \ {r.id} : task[i].bound # r.local

(* The count of open connections is that of the connections carried, for   *)
(* every row, whatever ended badly.                                        *)
OpenCounts ==
    \A r \in Rows : r.open = Cardinality({c \in Conns : conn[c].id = r.id})

(* A forward leads to a pod that has been ready behind that very service   *)
(* port.                                                                   *)
LedToReady == \A r \in Rows : r.pod # None => r.pod \in wasReady[r.for]

(* The list's cursor rests on a row as long as there is one.               *)
CursorOnARow == cursor # None /\ entries # <<>> => cursor < Len(entries)

(* A connection belongs to a forward whose task is there, and what no row  *)
(* stands for any more ends: the port is given back and nothing goes on    *)
(* through it.                                                             *)
CarriedByATask == \A c \in Conns : conn[c] # NoConn => task[conn[c].id].pc = "serve"

StoppedIsOver ==
    \A i \in Ids : (task[i].pc # "none" /\ ~Listed(i)) ~> (task[i].pc = "done" /\ task[i].bound = AnyPort)

(* What a row says is so, and no other says otherwise: its port, its pod,  *)
(* its connections, its place.                                             *)
RowsTellTheTruth ==
    /\ TypeOK /\ CursorOnARow /\ OneForwardPerPort
    /\ ListeningIsBound /\ OpenCounts /\ LedToReady /\ CarriedByATask
=============================================================================
