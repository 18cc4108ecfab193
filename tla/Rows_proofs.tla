---------------------------- MODULE Rows_proofs ----------------------------
(***************************************************************************)
(* Rows that stand for something else.  For any number of service ports,   *)
(* local ports, pods, forwards and connections: what the registry's rows   *)
(* say of a forward is so.  For any resources of Flux and of cert-manager: *)
(* the rows of their trees account for all of them.                        *)
(***************************************************************************)
EXTENDS PortForward, MCCertChains, SequenceTheorems, FiniteSetTheorems, WellFoundedInduction, TLAPS

Through(i) == {c \in Conns : conn[c].id = i}

Tables ==
  /\ started \in 0..MaxStarts
  /\ task \in [Ids -> TaskType]
  /\ conn \in [Conns -> [pc : {"none", "pump"}, id : 0..MaxStarts]]

(* What the slices say now has been said.                                  *)
Cluster ==
  /\ endpoints \in [Services -> EndpointLists]
  /\ wasReady \in [Services -> SUBSET Pods]
  /\ \A s \in Services : ReadyNow(endpoints)[s] \subseteq wasReady[s]

(* The list has the cursor, or the form has the keyboard.                  *)
Panels ==
  /\ form \in Services \cup {None}
  /\ cursor \in Nat \cup {None}
  /\ form = None \/ cursor = None
  /\ CursorOnARow

(* No number and no service port has two rows.                             *)
Once(q) ==
  \A j, k \in DOMAIN q : q[j].id = q[k].id \/ q[j].for = q[k].for => j = k

(* A row stands for a task that has not been asked to end, and is where it *)
(* says.                                                                   *)
RowSound(r) ==
  /\ r.id <= started
  /\ ~task[r.id].aborted
  /\ r.for = task[r.id].for
  /\ r.pod # None => r.pod \in wasReady[r.for]
  /\ r.open = Cardinality(Through(r.id))
  /\ r.state = "starting" => task[r.id].pc \in {"resolve", "bind", "failing", "announce"}
  /\ r.state = "listening" => task[r.id].pc = "serve" /\ r.local = task[r.id].bound
  /\ r.state = "failed" => task[r.id].pc = "done"

Registry ==
  /\ entries \in Seq(RowType)
  /\ Once(entries)
  /\ \A r \in Rows : RowSound(r)

(* A task was started, knows a pod that has been ready once it has         *)
(* resolved its service, and has its port once it is bound.                *)
TaskSound(i) ==
  /\ i > started => task[i] = NoTask
  /\ i <= started => task[i].pc # "none" /\ task[i].for \in Services
  /\ task[i].pc \in {"bind", "announce", "serve"} => task[i].pod \in wasReady[task[i].for]
  /\ task[i].pc \in {"announce", "serve"} => task[i].bound # AnyPort

BoundOnce == \A i, j \in Ids : task[i].bound = task[j].bound /\ i # j => task[i].bound = AnyPort

Tasks ==
  /\ \A i \in Ids : TaskSound(i)
  /\ BoundOnce

Carried ==
  \A c \in Conns :
    conn[c] # NoConn => conn[c].pc = "pump" /\ conn[c].id \in Ids /\ task[conn[c].id].pc = "serve"

ForwardInv == Tables /\ Cluster /\ Panels /\ Registry /\ Tasks /\ Carried

-----------------------------------------------------------------------------
(* The registry as a sequence *)

LEMMA RemovedRow ==
  ASSUME NEW S, NEW q \in Seq(S), NEW k \in 1..Len(q), Once(q)
  PROVE  /\ RemoveAt(q, k) \in Seq(S)
         /\ Len(RemoveAt(q, k)) = Len(q) - 1
         /\ Once(RemoveAt(q, k))
         /\ ToSet(RemoveAt(q, k)) \subseteq {r \in ToSet(q) : r.id # q[k].id}
<1> DEFINE R == RemoveAt(q, k)
           Place(j) == IF j < k THEN j ELSE j + 1
<1>0. Len(q) \in Nat /\ k \in Nat /\ k >= 1 /\ k <= Len(q) /\ DOMAIN q = 1..Len(q)
  OBVIOUS
<1>1. /\ SubSeq(q, 1, k - 1) \in Seq(S) /\ Len(SubSeq(q, 1, k - 1)) = k - 1
      /\ \A j \in 1..(k - 1) : SubSeq(q, 1, k - 1)[j] = q[j]
  OBVIOUS
<1>2. /\ SubSeq(q, k + 1, Len(q)) \in Seq(S) /\ Len(SubSeq(q, k + 1, Len(q))) = Len(q) - k
      /\ \A j \in 1..(Len(q) - k) : SubSeq(q, k + 1, Len(q))[j] = q[j + k]
  OBVIOUS
<1>3. PICK a \in Seq(S) :
        /\ a = SubSeq(q, 1, k - 1) /\ Len(a) = k - 1 /\ \A j \in 1..(k - 1) : a[j] = q[j]
  BY <1>1
<1>4. PICK b \in Seq(S) :
        /\ b = SubSeq(q, k + 1, Len(q)) /\ Len(b) = Len(q) - k
        /\ \A j \in 1..(Len(q) - k) : b[j] = q[j + k]
  BY <1>2
<1>5. R = a \o b
  BY <1>3, <1>4 DEF RemoveAt
<1> HIDE DEF R
<1>l. Len(a) = k - 1 /\ Len(b) = Len(q) - k
  BY <1>3, <1>4
<1>6. R \in Seq(S) /\ Len(R) = Len(q) - 1 /\ DOMAIN R = 1..(Len(q) - 1)
  <2>1. R \in Seq(S) /\ Len(R) = Len(a) + Len(b)
    BY <1>5, ConcatProperties
  <2>2. Len(R) = Len(q) - 1
    BY <1>0, <1>l, <2>1
  <2> QED BY <2>1, <2>2
<1>7. \A j \in 1..(Len(q) - 1) : R[j] = q[Place(j)]
  <2>1. \A j \in 1..(Len(a) + Len(b)) : R[j] = IF j <= Len(a) THEN a[j] ELSE b[j - Len(a)]
    BY <1>5, ConcatProperties
  <2>2. ASSUME NEW j \in 1..(Len(q) - 1) PROVE R[j] = q[Place(j)]
    <3>1. j \in 1..(Len(a) + Len(b))
      BY <1>0, <1>l
    <3>2. R[j] = IF j <= k - 1 THEN a[j] ELSE b[j - (k - 1)]
      BY <1>l, <2>1, <3>1
    <3>3. CASE j <= k - 1
      BY <1>0, <1>3, <3>2, <3>3
    <3>4. CASE j > k - 1
      <4>1. j - (k - 1) \in 1..(Len(q) - k) /\ (j - (k - 1)) + k = j + 1
        BY <1>0, <3>4
      <4>2. R[j] = b[j - (k - 1)]
        BY <1>0, <3>2, <3>4
      <4>3. b[j - (k - 1)] = q[j + 1]
        BY <1>4, <4>1
      <4> QED BY <1>0, <3>4, <4>2, <4>3
    <3> QED BY <1>0, <3>3, <3>4
  <2> QED BY <2>2
<1>8. /\ \A j \in 1..(Len(q) - 1) : Place(j) \in 1..Len(q) /\ Place(j) # k
      /\ \A i, j \in 1..(Len(q) - 1) : Place(i) = Place(j) => i = j
  BY <1>0
<1> HIDE DEF Place
<1>9. Once(R)
  <2> SUFFICES ASSUME NEW i \in 1..(Len(q) - 1), NEW j \in 1..(Len(q) - 1),
                      R[i].id = R[j].id \/ R[i].for = R[j].for
               PROVE  i = j
    BY <1>6 DEF Once
  <2>1. Place(i) = Place(j)
    BY <1>0, <1>7, <1>8 DEF Once
  <2> QED BY <1>8, <2>1
<1>10. ToSet(R) \subseteq {r \in ToSet(q) : r.id # q[k].id}
  <2> SUFFICES ASSUME NEW j \in 1..(Len(q) - 1) PROVE R[j] \in ToSet(q) /\ R[j].id # q[k].id
    BY <1>6 DEF ToSet
  <2>1. R[j] = q[Place(j)] /\ Place(j) \in 1..Len(q) /\ Place(j) # k
    BY <1>7, <1>8
  <2> QED BY <1>0, <2>1 DEF Once, ToSet
<1> QED BY <1>6, <1>9, <1>10 DEF R

LEMMA AppendedRow ==
  ASSUME NEW q \in Seq(RowType), NEW x \in RowType, Once(q),
         \A r \in ToSet(q) : r.id # x.id /\ r.for # x.for
  PROVE  /\ Append(q, x) \in Seq(RowType)
         /\ Once(Append(q, x))
         /\ ToSet(Append(q, x)) = ToSet(q) \cup {x}
<1> DEFINE a == Append(q, x)
<1>1. /\ a \in Seq(RowType) /\ Len(a) = Len(q) + 1 /\ DOMAIN a = 1..(Len(q) + 1)
      /\ \A i \in 1..Len(q) : a[i] = q[i]
      /\ a[Len(q) + 1] = x
  BY AppendProperties
<1> HIDE DEF a
<1>2. Len(q) \in Nat /\ DOMAIN q = 1..Len(q) /\ 1..(Len(q) + 1) = 1..Len(q) \cup {Len(q) + 1}
  OBVIOUS
<1>3. \A i \in 1..Len(q) : q[i].id # x.id /\ q[i].for # x.for
  BY <1>2 DEF ToSet
<1>4. Once(a)
  <2> SUFFICES ASSUME NEW i \in 1..Len(q) \cup {Len(q) + 1}, NEW j \in 1..Len(q) \cup {Len(q) + 1},
                      a[i].id = a[j].id \/ a[i].for = a[j].for
               PROVE  i = j
    BY <1>1, <1>2 DEF Once
  <2> QED BY <1>1, <1>2, <1>3 DEF Once
<1>5. ToSet(a) = ToSet(q) \cup {x}
  <2>1. ToSet(a) = {a[i] : i \in 1..Len(q) \cup {Len(q) + 1}}
    BY <1>1, <1>2 DEF ToSet
  <2> QED BY <1>1, <1>2, <2>1 DEF ToSet
<1> QED BY <1>1, <1>4, <1>5 DEF a

(* `update` changes what the row of one number says, and neither its       *)
(* number nor what it leads to.                                            *)
LEMMA UpdatedRow ==
  ASSUME NEW i, NEW become, entries \in Seq(RowType), Once(entries),
         \A r \in Rows : r.id = i =>
            become[r] \in RowType /\ become[r].id = r.id /\ become[r].for = r.for
  PROVE  /\ Updated(i, become) \in Seq(RowType)
         /\ Once(Updated(i, become))
         /\ Len(Updated(i, become)) = Len(entries)
         /\ \A r \in ToSet(Updated(i, become)) :
              \E o \in Rows : r = IF o.id = i THEN become[o] ELSE o
<1> DEFINE u == Updated(i, become)
<1>1. Len(entries) \in Nat /\ DOMAIN entries = 1..Len(entries)
      /\ \A k \in 1..Len(entries) : entries[k] \in RowType /\ entries[k] \in Rows
  BY DEF Rows, ToSet
<1>2. u = [k \in 1..Len(entries) |-> IF entries[k].id = i THEN become[entries[k]] ELSE entries[k]]
  BY <1>1 DEF Updated
<1> HIDE DEF u
<1>3. \A k \in 1..Len(entries) : u[k] \in RowType /\ u[k].id = entries[k].id
                               /\ u[k].for = entries[k].for
  BY <1>1, <1>2
<1>4. u \in Seq(RowType) /\ Len(u) = Len(entries) /\ DOMAIN u = 1..Len(entries)
  <2>1. u \in [1..Len(entries) -> RowType]
    BY <1>2, <1>3
  <2> QED BY <1>1, <2>1
<1>5. Once(u)
  BY <1>1, <1>3, <1>4 DEF Once
<1>6. \A r \in ToSet(u) : \E o \in Rows : r = IF o.id = i THEN become[o] ELSE o
  BY <1>1, <1>2, <1>4 DEF ToSet
<1> QED BY <1>4, <1>5, <1>6 DEF u

-----------------------------------------------------------------------------
(* What a step leaves alone *)

(* A row stays as sound as it was while its task, its connections and what *)
(* is known of its service port stay.                                      *)
LEMMA RowStays ==
  ASSUME NEW r, RowSound(r), r.id \in Ids, started \in Nat, started' \in Nat, started <= started',
         task'[r.id] = task[r.id], Through(r.id)' = Through(r.id),
         wasReady[r.for] \subseteq wasReady'[r.for]
  PROVE  RowSound(r)'
<1>1. r.id <= started'
  BY DEF RowSound, Ids
<1> QED BY <1>1 DEF RowSound

LEMMA RowTypes ==
  ASSUME Registry, NEW r \in Rows
  PROVE  r \in RowType /\ r.id \in Ids /\ r.for \in Services /\ RowSound(r)
<1>1. r \in RowType
  BY DEF Registry, Rows, ToSet
<1> QED BY <1>1 DEF RowType, Registry

LEMMA ThroughAside == ASSUME conn' = conn, NEW i PROVE Through(i)' = Through(i)
  BY DEF Through

LEMMA CarriedThrough ==
  ASSUME Tables, Carried, NEW i \in Ids, task[i].pc # "serve"
  PROVE  Through(i) = {}
<1> SUFFICES ASSUME NEW c \in Conns, conn[c].id = i PROVE FALSE
  BY DEF Through
<1>1. conn[c] # NoConn
  BY ForwardAssumption DEF NoConn, Ids
<1> QED BY <1>1 DEF Carried

(* The panels move and nothing else does.                                  *)
LEMMA PanelStep ==
  ASSUME ForwardInv, UNCHANGED <<entries, started, task, conn, endpoints, wasReady>>, Panels'
  PROVE  ForwardInv'
<1>1. Tables' /\ Cluster' /\ Tasks' /\ Carried'
  BY DEF ForwardInv, Tables, Cluster, ReadyNow, Tasks, TaskSound, BoundOnce, Carried
<1>2. Registry'
  BY DEF ForwardInv, Registry, RowSound, Rows, Through
<1> QED BY <1>1, <1>2 DEF ForwardInv

(* A task moves, and the row it may have still says so.                    *)
LEMMA TaskStep ==
  ASSUME ForwardInv, NEW i \in Ids, NEW p \in TaskType, task' = [task EXCEPT ![i] = p],
         UNCHANGED <<started, form, cursor, endpoints, wasReady>>,
         Registry', Carried', conn' \in [Conns -> [pc : {"none", "pump"}, id : 0..MaxStarts]],
         Len(entries') = Len(entries),
         task[i].pc # "none", p.pc # "none", p.for = task[i].for,
         p.pc \in {"bind", "announce", "serve"} => p.pod \in wasReady[p.for],
         p.pc \in {"announce", "serve"} => p.bound # AnyPort,
         p.bound \in {task[i].bound, AnyPort} \/ p.bound \notin Held
  PROVE  ForwardInv'
<1>1. task' \in [Ids -> TaskType] /\ task'[i] = p /\ \A j \in Ids \ {i} : task'[j] = task[j]
  BY DEF ForwardInv, Tables
<1>2. Tables' /\ Cluster'
  BY <1>1 DEF ForwardInv, Tables, Cluster, ReadyNow
<1>3. Panels'
  <2>1. CursorOnARow'
    <3>1. entries \in Seq(RowType) /\ entries' \in Seq(RowType)
      BY DEF ForwardInv, Registry
    <3>2. entries' # <<>> => entries # <<>>
      BY <3>1
    <3> QED BY <3>2 DEF ForwardInv, Panels, CursorOnARow
  <2> QED BY <2>1 DEF ForwardInv, Panels
<1>4. ASSUME NEW j \in Ids PROVE TaskSound(j)'
  <2>1. CASE j = i
    <3>1. i <= started /\ ~(i > started) /\ p.for \in Services
      BY DEF ForwardInv, Tables, Tasks, TaskSound, NoTask, Ids
    <3> QED BY <1>1, <2>1, <3>1 DEF TaskSound
  <2>2. CASE j # i
    BY <1>1, <2>2 DEF ForwardInv, Tasks, TaskSound
  <2> QED BY <2>1, <2>2
<1>5. BoundOnce'
  <2> SUFFICES ASSUME NEW j \in Ids, NEW k \in Ids, j # k, task'[j].bound = task'[k].bound
               PROVE  task'[j].bound = AnyPort
    BY DEF BoundOnce
  <2>1. \A m \in Ids \ {i} : task[m].bound = p.bound => p.bound = AnyPort
    BY DEF ForwardInv, Tasks, BoundOnce, Held
  <2> QED BY <1>1, <2>1 DEF ForwardInv, Tasks, BoundOnce
<1> QED BY <1>2, <1>3, <1>4, <1>5 DEF ForwardInv, Tasks

(* The rows of the other forwards, in a step of one task.                  *)
LEMMA OtherRow ==
  ASSUME ForwardInv, NEW i \in Ids, NEW r \in Rows, r.id # i,
         \A j \in Ids \ {i} : task'[j] = task[j] /\ Through(j)' = Through(j),
         UNCHANGED <<started, wasReady>>
  PROVE  RowSound(r)'
<1>1. r.id \in Ids /\ RowSound(r)
  BY RowTypes DEF ForwardInv
<1>2. started \in Nat /\ started <= started
  BY ForwardAssumption DEF ForwardInv, Tables
<1> QED BY <1>1, <1>2, RowStays

-----------------------------------------------------------------------------
(* The task of a forward *)

(* The row says that the forward is starting while it resolves, binds and  *)
(* fails.                                                                  *)
LEMMA Starting ==
  ASSUME ForwardInv, NEW i \in Ids, NEW p \in TaskType, task' = [task EXCEPT ![i] = p],
         UNCHANGED <<entries, started, conn, form, cursor, endpoints, wasReady>>,
         task[i].pc \in {"resolve", "bind"}, p.pc \in {"bind", "failing", "announce"},
         p.for = task[i].for, p.aborted = task[i].aborted,
         p.pc \in {"bind", "announce"} => p.pod \in wasReady[p.for],
         p.pc = "announce" => p.bound # AnyPort,
         p.bound = task[i].bound \/ p.bound \notin Held
  PROVE  ForwardInv'
<1>1. task' \in [Ids -> TaskType] /\ task'[i] = p /\ \A j \in Ids \ {i} : task'[j] = task[j]
  BY DEF ForwardInv, Tables
<1>2. \A j : Through(j)' = Through(j)
  BY ThroughAside
<1>3. ASSUME NEW r \in Rows PROVE RowSound(r)'
  <2>1. CASE r.id # i
    BY <1>1, <1>2, <2>1, OtherRow
  <2>2. CASE r.id = i
    <3>1. RowSound(r) /\ r.state \in {"starting", "listening", "failed"}
      BY RowTypes DEF ForwardInv, RowType
    <3> QED BY <1>1, <1>2, <2>2, <3>1 DEF RowSound
  <2> QED BY <2>1, <2>2
<1>4. Registry'
  BY <1>3 DEF ForwardInv, Registry, Rows
<1>5. Carried'
  BY <1>1 DEF ForwardInv, Carried
<1>6. conn' \in [Conns -> [pc : {"none", "pump"}, id : 0..MaxStarts]] /\ Len(entries') = Len(entries)
  BY DEF ForwardInv, Tables
<1> QED BY <1>4, <1>5, <1>6, TaskStep

LEMMA InvResolve == ASSUME ForwardInv, NEW i \in Ids, Resolve(i) PROVE ForwardInv'
<1>1. task[i] \in TaskType /\ task[i].pc = "resolve"
      /\ UNCHANGED <<entries, started, conn, form, cursor, endpoints, wasReady>>
  BY DEF ForwardInv, Tables, Resolve, Running
<1>2. CASE task' = [task EXCEPT ![i].pc = "failing"]
  <2> DEFINE p == [task[i] EXCEPT !.pc = "failing"]
  <2>1. /\ p \in TaskType /\ p.pc = "failing" /\ p.for = task[i].for
        /\ p.aborted = task[i].aborted /\ p.bound = task[i].bound
    BY <1>1 DEF TaskType
  <2>2. task' = [task EXCEPT ![i] = p]
    BY <1>2
  <2> HIDE DEF p
  <2> QED BY <1>1, <2>1, <2>2, Starting
<1>3. ASSUME NEW k \in DOMAIN endpoints[task[i].for], endpoints[task[i].for] # None,
             IsFirst(k, Ready(endpoints[task[i].for])),
             task' = [task EXCEPT ![i].pc = "bind", ![i].pod = endpoints[task[i].for][k].pod]
      PROVE  ForwardInv'
  <2> DEFINE s == task[i].for
             pod == endpoints[s][k].pod
             p == [task[i] EXCEPT !.pc = "bind", !.pod = pod]
  <2>1. s \in Services
    <3>1. i <= started
      BY <1>1 DEF ForwardInv, Tables, Tasks, TaskSound, NoTask, Ids
    <3> QED BY <3>1 DEF ForwardInv, Tasks, TaskSound
  <2>2. endpoints[s] \in Seq([pod : Pods, ready : BOOLEAN])
    BY <1>3, <2>1, ForwardAssumption DEF ForwardInv, Cluster
  <2>3. pod \in Pods /\ pod \in wasReady[s]
    <3>1. k \in Ready(endpoints[s])
      BY <1>3 DEF IsFirst
    <3>2. pod \in ReadyNow(endpoints)[s]
      BY <1>3, <2>1, <3>1 DEF ReadyNow, Readies
    <3> QED BY <2>1, <3>2 DEF ForwardInv, Cluster
  <2> HIDE DEF pod
  <2>4. /\ p \in TaskType /\ p.pc = "bind" /\ p.for = s /\ p.pod = pod
        /\ p.aborted = task[i].aborted /\ p.bound = task[i].bound
    BY <1>1, <2>3 DEF TaskType
  <2>5. task' = [task EXCEPT ![i] = p]
    BY <1>3 DEF pod
  <2> HIDE DEF p
  <2> QED BY <1>1, <2>3, <2>4, <2>5, Starting
<1> QED BY <1>2, <1>3 DEF Resolve

LEMMA InvBind == ASSUME ForwardInv, NEW i \in Ids, Bind(i) PROVE ForwardInv'
<1>1. task[i] \in TaskType /\ task[i].pc = "bind"
      /\ UNCHANGED <<entries, started, conn, form, cursor, endpoints, wasReady>>
  BY DEF ForwardInv, Tables, Bind, Running
<1>2. CASE task' = [task EXCEPT ![i].pc = "failing"]
  <2> DEFINE p == [task[i] EXCEPT !.pc = "failing"]
  <2>1. /\ p \in TaskType /\ p.pc = "failing" /\ p.for = task[i].for
        /\ p.aborted = task[i].aborted /\ p.bound = task[i].bound
    BY <1>1 DEF TaskType
  <2>2. task' = [task EXCEPT ![i] = p]
    BY <1>2
  <2> HIDE DEF p
  <2> QED BY <1>1, <2>1, <2>2, Starting
<1>3. ASSUME NEW port \in Ports \ Held, task' = [task EXCEPT ![i].pc = "announce", ![i].bound = port]
      PROVE  ForwardInv'
  <2> DEFINE p == [task[i] EXCEPT !.pc = "announce", !.bound = port]
  <2>1. /\ p \in TaskType /\ p.pc = "announce" /\ p.for = task[i].for /\ p.bound = port
        /\ p.aborted = task[i].aborted /\ p.pod = task[i].pod
    BY <1>1 DEF TaskType
  <2>2. task' = [task EXCEPT ![i] = p]
    BY <1>3
  <2> HIDE DEF p
  <2>3. p.bound # AnyPort /\ p.bound \notin Held
    BY <2>1, ForwardAssumption
  <2>4. p.pod \in wasReady[p.for]
    BY <1>1, <2>1 DEF ForwardInv, Tasks, TaskSound
  <2> QED BY <1>1, <2>1, <2>2, <2>3, <2>4, Starting
<1> QED BY <1>2, <1>3 DEF Bind

LEMMA InvFail == ASSUME ForwardInv, NEW i \in Ids, Fail(i) PROVE ForwardInv'
<1> DEFINE p == [task[i] EXCEPT !.pc = "done"]
           become == [r \in Rows |-> [r EXCEPT !.state = "failed"]]
<1>1. /\ task[i].pc = "failing"
      /\ UNCHANGED <<started, conn, form, cursor, endpoints, wasReady>>
      /\ entries' = Updated(i, become)
  BY DEF Fail
<1>2. /\ p \in TaskType /\ p.pc = "done" /\ p.for = task[i].for
      /\ p.aborted = task[i].aborted /\ p.bound = task[i].bound
  BY DEF TaskType, ForwardInv, Tables
<1>3. task' = [task EXCEPT ![i] = p]
  BY DEF Fail
<1> HIDE DEF p
<1>4. task'[i] = p /\ \A j \in Ids \ {i} : task'[j] = task[j]
  BY <1>3 DEF ForwardInv, Tables
<1>5. \A r \in Rows : /\ become[r] \in RowType /\ become[r].id = r.id /\ become[r].for = r.for
                      /\ become[r].state = "failed" /\ become[r].pod = r.pod
                      /\ become[r].open = r.open
  BY RowTypes DEF ForwardInv, RowType
<1> HIDE DEF become
<1>6. \A j : Through(j)' = Through(j)
  BY <1>1, ThroughAside
<1>7. ASSUME NEW r \in ToSet(entries') PROVE RowSound(r)'
  <2>1. PICK o \in Rows : r = IF o.id = i THEN become[o] ELSE o
    BY <1>1, <1>5, <1>7, UpdatedRow DEF ForwardInv, Registry
  <2>2. CASE o.id # i
    BY <1>1, <1>4, <1>6, <2>1, <2>2, OtherRow
  <2>3. CASE o.id = i
    <3>1. RowSound(o)
      BY RowTypes DEF ForwardInv
    <3> QED BY <1>1, <1>2, <1>4, <1>5, <1>6, <2>1, <2>3, <3>1 DEF RowSound
  <2> QED BY <2>2, <2>3
<1>8. Registry' /\ Len(entries') = Len(entries)
  BY <1>1, <1>5, <1>7, UpdatedRow DEF ForwardInv, Registry, Rows
<1>9. Carried' /\ conn' \in [Conns -> [pc : {"none", "pump"}, id : 0..MaxStarts]]
  BY <1>1, <1>4 DEF ForwardInv, Carried, Tables
<1> QED BY <1>1, <1>2, <1>3, <1>8, <1>9, TaskStep

LEMMA InvAnnounce == ASSUME ForwardInv, NEW i \in Ids, Announce(i) PROVE ForwardInv'
<1> DEFINE p == [task[i] EXCEPT !.pc = "serve"]
           become == [r \in Rows |-> Listening(i, r)]
<1>1. /\ task[i].pc = "announce"
      /\ UNCHANGED <<started, conn, form, cursor, endpoints, wasReady>>
      /\ entries' = Updated(i, become)
  BY DEF Announce
<1>2. /\ p \in TaskType /\ p.pc = "serve" /\ p.for = task[i].for /\ p.pod = task[i].pod
      /\ p.aborted = task[i].aborted /\ p.bound = task[i].bound
  BY DEF TaskType, ForwardInv, Tables
<1>3. task' = [task EXCEPT ![i] = p]
  BY DEF Announce
<1>t. task[i].pod \in Pods \cup {None} /\ task[i].bound \in Ports \cup {AnyPort}
  BY DEF TaskType, ForwardInv, Tables
<1>s. task[i].pod \in wasReady[task[i].for] /\ task[i].bound # AnyPort
  BY <1>1 DEF ForwardInv, Tasks, TaskSound
<1> HIDE DEF p
<1>4. task'[i] = p /\ \A j \in Ids \ {i} : task'[j] = task[j]
  BY <1>3 DEF ForwardInv, Tables
<1>5. \A r \in Rows : /\ become[r] \in RowType /\ become[r].id = r.id /\ become[r].for = r.for
                      /\ become[r].state = "listening" /\ become[r].pod = task[i].pod
                      /\ become[r].local = task[i].bound /\ become[r].open = r.open
  <2> SUFFICES ASSUME NEW r \in Rows
               PROVE  /\ become[r] \in RowType /\ become[r].id = r.id /\ become[r].for = r.for
                      /\ become[r].state = "listening" /\ become[r].pod = task[i].pod
                      /\ become[r].local = task[i].bound /\ become[r].open = r.open
    OBVIOUS
  <2>1. r \in RowType
    BY RowTypes DEF ForwardInv
  <2>2. become[r] = [r EXCEPT !.state = "listening", !.pod = task[i].pod, !.local = task[i].bound]
    BY DEF Listening
  <2> HIDE DEF become
  <2>b. PICK b : b = become[r]
    OBVIOUS
  <2>3. PICK pod \in Pods \cup {None}, port \in Ports \cup {AnyPort} :
          pod = task[i].pod /\ port = task[i].bound
    BY <1>t
  <2>4. b = [r EXCEPT !.state = "listening", !.pod = pod, !.local = port]
    BY <2>b, <2>2, <2>3
  <2>5. /\ b \in RowType /\ b.id = r.id /\ b.for = r.for /\ b.state = "listening"
        /\ b.pod = pod /\ b.local = port /\ b.open = r.open
    BY <2>1, <2>4 DEF RowType
  <2> QED BY <2>b, <2>3, <2>5
<1> HIDE DEF become
<1>6. \A j : Through(j)' = Through(j)
  BY <1>1, ThroughAside
<1>7. ASSUME NEW r \in ToSet(entries') PROVE RowSound(r)'
  <2>1. PICK o \in Rows : r = IF o.id = i THEN become[o] ELSE o
    BY <1>1, <1>5, <1>7, UpdatedRow DEF ForwardInv, Registry
  <2>2. CASE o.id # i
    BY <1>1, <1>4, <1>6, <2>1, <2>2, OtherRow
  <2>3. CASE o.id = i
    <3>1. RowSound(o)
      BY RowTypes DEF ForwardInv
    <3> QED BY <1>1, <1>2, <1>4, <1>5, <1>6, <1>s, <2>1, <2>3, <3>1 DEF RowSound
  <2> QED BY <2>2, <2>3
<1>8. Registry' /\ Len(entries') = Len(entries)
  BY <1>1, <1>5, <1>7, UpdatedRow DEF ForwardInv, Registry, Rows
<1>9. Carried' /\ conn' \in [Conns -> [pc : {"none", "pump"}, id : 0..MaxStarts]]
  BY <1>1, <1>2, <1>4 DEF ForwardInv, Carried, Tables
<1> QED BY <1>1, <1>2, <1>3, <1>8, <1>9, <1>s, TaskStep

(* No row stands for a task that was asked to end.                         *)
LEMMA InvAborted == ASSUME ForwardInv, NEW i \in Ids, Aborted(i) PROVE ForwardInv'
<1> DEFINE p == [task[i] EXCEPT !.pc = "done", !.bound = AnyPort]
<1>1. /\ task[i].aborted /\ task[i].pc # "none"
      /\ UNCHANGED <<entries, started, form, cursor, endpoints, wasReady>>
      /\ conn' = [c \in Conns |-> IF conn[c].id = i THEN NoConn ELSE conn[c]]
  BY DEF Aborted
<1>2. /\ p \in TaskType /\ p.pc = "done" /\ p.for = task[i].for /\ p.bound = AnyPort
  BY DEF TaskType, ForwardInv, Tables
<1>3. task' = [task EXCEPT ![i] = p]
  BY DEF Aborted
<1> HIDE DEF p
<1>4. task'[i] = p /\ \A j \in Ids \ {i} : task'[j] = task[j]
  BY <1>3 DEF ForwardInv, Tables
<1>5. \A j \in Ids \ {i} : Through(j)' = Through(j)
  <2> SUFFICES ASSUME NEW j \in Ids \ {i} PROVE Through(j)' = Through(j)
    OBVIOUS
  <2>1. \A c \in Conns : conn'[c].id = j <=> conn[c].id = j
    BY <1>1, ForwardAssumption DEF NoConn, Ids
  <2> QED BY <2>1 DEF Through
<1>6. ASSUME NEW r \in Rows PROVE RowSound(r)'
  <2>1. r.id # i
    BY <1>1, RowTypes DEF ForwardInv, RowSound
  <2> QED BY <1>1, <1>4, <1>5, <2>1, OtherRow
<1>7. Registry' /\ Len(entries') = Len(entries)
  BY <1>1, <1>6 DEF ForwardInv, Registry, Rows
<1>8. NoConn \in [pc : {"none", "pump"}, id : 0..MaxStarts]
  BY ForwardAssumption DEF NoConn
<1>9. conn' \in [Conns -> [pc : {"none", "pump"}, id : 0..MaxStarts]]
  BY <1>1, <1>8 DEF ForwardInv, Tables
<1>10. Carried'
  <2> SUFFICES ASSUME NEW c \in Conns, conn'[c] # NoConn
               PROVE  conn'[c].pc = "pump" /\ conn'[c].id \in Ids /\ task'[conn'[c].id].pc = "serve"
    BY DEF Carried
  <2>1. conn'[c] = conn[c] /\ conn[c].id # i
    BY <1>1
  <2>2. conn[c].pc = "pump" /\ conn[c].id \in Ids /\ task[conn[c].id].pc = "serve"
    BY <2>1 DEF ForwardInv, Carried
  <2> QED BY <1>4, <2>1, <2>2
<1> QED BY <1>1, <1>2, <1>3, <1>7, <1>9, <1>10, TaskStep

-----------------------------------------------------------------------------
(* Connections and endpoints *)

(* What the row of a forward turns into when a connection comes or goes.   *)
Recounted(i, become) ==
  \A r \in Rows : r.id = i =>
    /\ become[r] \in RowType /\ become[r].id = r.id /\ become[r].for = r.for
    /\ become[r].state = r.state /\ become[r].pod = r.pod /\ become[r].local = r.local
    /\ become[r].open = Cardinality(Through(i)')

(* A connection that comes or goes, and the row of its forward with it.    *)
LEMMA ConnStep ==
  ASSUME ForwardInv, NEW c \in Conns, NEW i \in Ids, NEW k \in [pc : {"none", "pump"}, id : 0..MaxStarts],
         NEW become, conn' = [conn EXCEPT ![c] = k], entries' = Updated(i, become),
         UNCHANGED <<started, task, form, cursor, endpoints, wasReady>>,
         task[i].pc = "serve",
         k = NoConn \/ (k.pc = "pump" /\ k.id = i),
         conn[c] = NoConn \/ conn[c].id = i,
         Recounted(i, become)
  PROVE  ForwardInv'
<1>0. \A r \in Rows : r.id = i =>
        /\ become[r] \in RowType /\ become[r].id = r.id /\ become[r].for = r.for
        /\ become[r].state = r.state /\ become[r].pod = r.pod /\ become[r].local = r.local
        /\ become[r].open = Cardinality(Through(i)')
  BY DEF Recounted
<1>1. conn'[c] = k /\ \A d \in Conns \ {c} : conn'[d] = conn[d]
  BY DEF ForwardInv, Tables
<1>2. \A j \in Ids \ {i} : Through(j)' = Through(j)
  <2> SUFFICES ASSUME NEW j \in Ids \ {i} PROVE Through(j)' = Through(j)
    OBVIOUS
  <2>1. conn'[c].id # j /\ conn[c].id # j
    BY <1>1, ForwardAssumption DEF NoConn, Ids
  <2>2. \A d \in Conns : conn'[d].id = j <=> conn[d].id = j
    BY <1>1, <2>1
  <2> QED BY <2>2 DEF Through
<1>3. ASSUME NEW r \in ToSet(entries') PROVE RowSound(r)'
  <2>1. PICK o \in Rows : r = IF o.id = i THEN become[o] ELSE o
    BY <1>0, <1>3, UpdatedRow DEF ForwardInv, Registry
  <2>2. CASE o.id # i
    BY <1>2, <2>1, <2>2, OtherRow
  <2>3. CASE o.id = i
    <3>1. RowSound(o)
      BY RowTypes DEF ForwardInv
    <3>2. /\ r.id = i /\ r.for = o.for /\ r.state = o.state /\ r.pod = o.pod
          /\ r.local = o.local /\ r.open = Cardinality(Through(i)')
      BY <1>0, <2>1, <2>3
    <3> QED BY <2>3, <3>1, <3>2 DEF RowSound
  <2> QED BY <2>2, <2>3
<1>4. Registry' /\ Len(entries') = Len(entries)
  BY <1>0, <1>3, UpdatedRow DEF ForwardInv, Registry, Rows
<1>5. Tables' /\ Cluster' /\ Tasks'
  BY DEF ForwardInv, Tables, Cluster, ReadyNow, Tasks, TaskSound, BoundOnce
<1>6. Panels'
  <2>1. entries \in Seq(RowType) /\ entries' \in Seq(RowType)
    BY <1>4 DEF ForwardInv, Registry
  <2>2. entries' # <<>> => entries # <<>>
    BY <1>4, <2>1
  <2> QED BY <1>4, <2>2 DEF ForwardInv, Panels, CursorOnARow
<1>7. Carried'
  BY <1>1 DEF ForwardInv, Carried
<1> QED BY <1>4, <1>5, <1>6, <1>7 DEF ForwardInv

LEMMA ThroughFinite ==
  ASSUME NEW T \in SUBSET Conns
  PROVE  IsFiniteSet(T) /\ Cardinality(T) \in 0..Cardinality(Conns)
<1>1. IsFiniteSet(T) /\ Cardinality(T) <= Cardinality(Conns)
  BY ForwardAssumption, FS_Subset
<1>2. Cardinality(T) \in Nat /\ Cardinality(Conns) \in Nat
  BY <1>1, ForwardAssumption, FS_CardinalityType
<1> QED BY <1>1, <1>2

LEMMA InvAccept == ASSUME ForwardInv, NEW i \in Ids, NEW c \in Conns, Accept(i, c) PROVE ForwardInv'
<1> DEFINE become == [r \in Rows |-> [r EXCEPT !.open = r.open + 1, !.served = r.served + 1]]
           k == [pc |-> "pump", id |-> i]
<1>1. /\ task[i].pc = "serve" /\ conn[c] = NoConn /\ entries' = Updated(i, become)
      /\ \A r \in Rows : r.id = i => r.served < MaxServed
      /\ conn' = [conn EXCEPT ![c] = k]
      /\ UNCHANGED <<started, task, form, cursor, endpoints, wasReady>>
  BY DEF Accept, Running
<1>2. k \in [pc : {"none", "pump"}, id : 0..MaxStarts] /\ k.pc = "pump" /\ k.id = i
  BY ForwardAssumption DEF Ids
<1>b. ASSUME NEW r \in Rows PROVE become[r] = [r EXCEPT !.open = r.open + 1, !.served = r.served + 1]
  OBVIOUS
<1> HIDE DEF k, become
<1>3. Through(i)' = Through(i) \cup {c} /\ c \notin Through(i)
  <2>1. conn'[c].id = i /\ \A d \in Conns \ {c} : conn'[d] = conn[d]
    BY <1>1, <1>2 DEF ForwardInv, Tables
  <2>2. conn[c].id # i
    <3>1. conn[c].id = 0
      BY <1>1 DEF NoConn
    <3>2. i # 0
      BY ForwardAssumption DEF Ids
    <3> QED BY <3>1, <3>2
  <2> QED BY <2>1, <2>2 DEF Through
<1>4. /\ Cardinality(Through(i)') = Cardinality(Through(i)) + 1
      /\ Cardinality(Through(i)') \in 0..Cardinality(Conns)
  <2>1. Through(i) \in SUBSET Conns /\ Through(i) \cup {c} \in SUBSET Conns
    BY DEF Through
  <2> QED BY <1>3, <2>1, ThroughFinite, FS_AddElement
<1>5. ASSUME NEW r \in Rows, r.id = i
      PROVE  /\ become[r] \in RowType /\ become[r].id = r.id /\ become[r].for = r.for
             /\ become[r].state = r.state /\ become[r].pod = r.pod /\ become[r].local = r.local
             /\ become[r].open = Cardinality(Through(i)')
  <2>1. r \in RowType /\ r.open = Cardinality(Through(i))
    BY <1>5, RowTypes DEF ForwardInv, RowSound
  <2>2. r.open + 1 = Cardinality(Through(i)') /\ r.open + 1 \in 0..Cardinality(Conns)
    BY <1>4, <2>1
  <2>3. r.served + 1 \in 0..MaxServed
    <3>1. r.served \in 0..MaxServed /\ r.served < MaxServed
      BY <1>1, <1>5, <2>1 DEF RowType
    <3> QED BY <3>1, ForwardAssumption
  <2>4. PICK b : b = become[r]
    OBVIOUS
  <2>5. b = [r EXCEPT !.open = r.open + 1, !.served = r.served + 1]
    BY <1>b, <2>4
  <2>6. /\ b \in RowType /\ b.id = r.id /\ b.for = r.for /\ b.state = r.state
        /\ b.pod = r.pod /\ b.local = r.local /\ b.open = r.open + 1
    BY <2>1, <2>2, <2>3, <2>5 DEF RowType
  <2> QED BY <2>2, <2>4, <2>6
<1>6. Recounted(i, become)
  BY <1>5 DEF Recounted
<1> QED BY <1>1, <1>2, <1>6, ConnStep

LEMMA InvPumpEnds ==
  ASSUME ForwardInv, NEW c \in Conns, NEW ok \in BOOLEAN, PumpEnds(c, ok)
  PROVE  ForwardInv'
<1>0. PICK i : i = conn[c].id
  OBVIOUS
<1> DEFINE become == [r \in Rows |-> Ended(i, ok, r)]
<1>1. /\ conn[c].pc = "pump" /\ entries' = Updated(i, become)
      /\ conn' = [conn EXCEPT ![c] = NoConn]
      /\ UNCHANGED <<started, task, form, cursor, endpoints, wasReady>>
  BY <1>0 DEF PumpEnds
<1>2. i \in Ids /\ task[i].pc = "serve"
  <2>1. conn[c] # NoConn
    BY <1>1 DEF NoConn
  <2> QED BY <1>0, <2>1 DEF ForwardInv, Carried
<1>3. NoConn \in [pc : {"none", "pump"}, id : 0..MaxStarts] /\ NoConn.id = 0
  BY ForwardAssumption DEF NoConn
<1>4. Through(i)' = Through(i) \ {c} /\ c \in Through(i)
  <2>1. conn'[c].id # i /\ \A d \in Conns \ {c} : conn'[d] = conn[d]
    BY <1>1, <1>2, <1>3, ForwardAssumption DEF Ids, ForwardInv, Tables
  <2> QED BY <1>0, <2>1 DEF Through
<1>5. /\ Cardinality(Through(i)') = Cardinality(Through(i)) - 1
      /\ Cardinality(Through(i)') \in 0..Cardinality(Conns)
      /\ Cardinality(Through(i)) \in Nat
  <2>1. Through(i) \in SUBSET Conns /\ Through(i) \ {c} \in SUBSET Conns
    BY DEF Through
  <2> QED BY <1>4, <2>1, ThroughFinite, FS_RemoveElement
<1>6. ASSUME NEW r \in Rows, r.id = i
      PROVE  /\ become[r] \in RowType /\ become[r].id = r.id /\ become[r].for = r.for
             /\ become[r].state = r.state /\ become[r].pod = r.pod /\ become[r].local = r.local
             /\ become[r].open = Cardinality(Through(i)')
  <2>1. r \in RowType /\ r.open = Cardinality(Through(i))
    BY <1>6, RowTypes DEF ForwardInv, RowSound
  <2>2. (IF r.open > 0 THEN r.open - 1 ELSE 0) = Cardinality(Through(i)')
    BY <1>5, <2>1
  <2>3. become[r] = [r EXCEPT !.open = IF r.open > 0 THEN r.open - 1 ELSE 0, !.error = ~ok]
    BY DEF Ended
  <2> HIDE DEF become
  <2>4. become[r] = [r EXCEPT !.open = Cardinality(Through(i)'), !.error = ~ok]
    BY <2>2, <2>3
  <2> QED BY <1>5, <2>1, <2>4 DEF RowType
<1> HIDE DEF become
<1>7. Recounted(i, become)
  BY <1>6 DEF Recounted
<1> QED BY <1>0, <1>1, <1>2, <1>3, <1>7, ConnStep

LEMMA ReadyPods ==
  ASSUME NEW list \in EndpointLists, list # None
  PROVE  Readies(list) \subseteq Pods
<1> DEFINE Place == [pod : Pods, ready : BOOLEAN]
<1>1. \A q \in Place : q.pod \in Pods
  OBVIOUS
<1>2. list \in Seq([pod : Pods, ready : BOOLEAN])
  BY ForwardAssumption
<1> HIDE DEF Place
<1>3. list \in Seq(Place)
  BY <1>2 DEF Place
<1>4. \A k \in DOMAIN list : list[k].pod \in Pods
  BY <1>1, <1>3
<1> QED BY <1>4 DEF Readies, Ready

LEMMA InvChanged == ASSUME ForwardInv, NEW s \in Services, Changed(s) PROVE ForwardInv'
<1>1. PICK list \in EndpointLists : endpoints' = [endpoints EXCEPT ![s] = list]
  BY DEF Changed
<1>2. /\ wasReady' = [wasReady EXCEPT ![s] = @ \cup ReadyNow(endpoints')[s]]
      /\ UNCHANGED <<entries, started, task, conn, form, cursor>>
  BY DEF Changed
<1>3. ReadyNow(endpoints')[s] \subseteq Pods
  <2>1. endpoints'[s] = list
    BY <1>1 DEF ForwardInv, Cluster
  <2>2. CASE list = None
    BY <2>1, <2>2 DEF ReadyNow
  <2>3. CASE list # None
    <3>3. Readies(list) \subseteq Pods
      BY <2>3, ReadyPods
    <3> QED BY <2>1, <2>3, <3>3 DEF ReadyNow
  <2> QED BY <2>2, <2>3
<1>4. Cluster'
  <2>1. endpoints' \in [Services -> EndpointLists] /\ wasReady' \in [Services -> SUBSET Pods]
    BY <1>1, <1>2, <1>3 DEF ForwardInv, Cluster
  <2>2. ASSUME NEW q \in Services PROVE ReadyNow(endpoints')[q] \subseteq wasReady'[q]
    <3>1. CASE q = s
      BY <1>2, <3>1 DEF ForwardInv, Cluster
    <3>2. CASE q # s
      <4>1. ReadyNow(endpoints')[q] = ReadyNow(endpoints)[q] /\ wasReady'[q] = wasReady[q]
        BY <1>1, <1>2, <3>2 DEF ForwardInv, Cluster, ReadyNow
      <4> QED BY <4>1 DEF ForwardInv, Cluster
    <3> QED BY <3>1, <3>2
  <2>3. ReadyNow(endpoints)' = ReadyNow(endpoints')
    BY DEF ReadyNow
  <2> QED BY <2>1, <2>2, <2>3 DEF Cluster
<1>5. \A q \in Services : wasReady[q] \subseteq wasReady'[q]
  BY <1>2 DEF ForwardInv, Cluster
<1>6. Registry'
  <2>1. ASSUME NEW r \in Rows PROVE RowSound(r)'
    <3>1. r.id \in Ids /\ r.for \in Services /\ RowSound(r)
      BY RowTypes DEF ForwardInv
    <3>2. Through(r.id)' = Through(r.id) /\ started \in Nat /\ started <= started
      BY <1>2, ThroughAside, ForwardAssumption DEF ForwardInv, Tables
    <3> QED BY <1>2, <1>5, <3>1, <3>2, RowStays
  <2> QED BY <1>2, <2>1 DEF ForwardInv, Registry, Rows
<1>7. Tasks'
  <2>1. ASSUME NEW i \in Ids PROVE TaskSound(i)'
    <3>1. TaskSound(i) /\ task' = task /\ started' = started
      BY <1>2 DEF ForwardInv, Tasks
    <3>2. task[i].pc \in {"bind", "announce", "serve"} => task[i].for \in Services
      <4>1. i > started \/ i <= started
        BY ForwardAssumption DEF Ids, ForwardInv, Tables
      <4> QED BY <3>1, <4>1 DEF TaskSound, NoTask
    <3> QED BY <1>5, <3>1, <3>2 DEF TaskSound
  <2>2. BoundOnce'
    BY <1>2 DEF ForwardInv, Tasks, BoundOnce
  <2> QED BY <2>1, <2>2 DEF Tasks
<1>8. Tables' /\ Panels' /\ Carried'
  BY <1>2 DEF ForwardInv, Tables, Panels, CursorOnARow, Carried
<1> QED BY <1>4, <1>6, <1>7, <1>8 DEF ForwardInv

-----------------------------------------------------------------------------
(* The panels *)

LEMMA InvPanels ==
  ASSUME ForwardInv,
         \/ \E s \in Services : OpenPfView(s)
         \/ PfClose \/ OpenForwardsView \/ ForwardsClose
         \/ \E delta \in {-1, 1} : ForwardsMove(delta)
  PROVE  ForwardInv'
<1>0. entries \in Seq(RowType) /\ Len(entries) \in Nat /\ (entries # <<>> => Len(entries) > 0)
  <2>1. entries \in Seq(RowType)
    BY DEF ForwardInv, Registry
  <2>2. Len(entries) = 0 => entries = <<>>
    BY <2>1, EmptySeq
  <2> QED BY <2>1, <2>2
<1>1. ASSUME NEW s \in Services, OpenPfView(s) PROVE ForwardInv'
  <2>1. Panels'
    BY <1>1 DEF OpenPfView, ForwardInv, Panels, CursorOnARow
  <2> QED BY <1>1, <2>1, PanelStep DEF OpenPfView
<1>2. CASE PfClose
  <2>1. Panels'
    BY <1>2 DEF PfClose, ForwardInv, Panels, CursorOnARow
  <2> QED BY <1>2, <2>1, PanelStep DEF PfClose
<1>3. CASE OpenForwardsView
  <2>1. Panels'
    BY <1>0, <1>3 DEF OpenForwardsView, ForwardInv, Panels, CursorOnARow
  <2> QED BY <1>3, <2>1, PanelStep DEF OpenForwardsView
<1>4. CASE ForwardsClose
  <2>1. Panels'
    BY <1>4 DEF ForwardsClose, ForwardInv, Panels, CursorOnARow
  <2> QED BY <1>4, <2>1, PanelStep DEF ForwardsClose
<1>5. ASSUME NEW delta \in {-1, 1}, ForwardsMove(delta) PROVE ForwardInv'
  <2>0. /\ cursor # None /\ cursor' = Clamped(cursor + delta, Len(entries))
        /\ UNCHANGED <<entries, started, task, conn, form, endpoints, wasReady>>
    BY <1>5 DEF ForwardsMove
  <2>1. cursor \in Nat /\ cursor + delta \in Int
    BY <2>0 DEF ForwardInv, Panels
  <2>2. /\ Clamped(cursor + delta, Len(entries)) \in Nat
        /\ entries # <<>> => Clamped(cursor + delta, Len(entries)) < Len(entries)
    BY <1>0, <2>1 DEF Clamped
  <2>3. Panels'
    BY <2>0, <2>2 DEF ForwardInv, Panels, CursorOnARow
  <2> QED BY <2>0, <2>3, PanelStep
<1> QED BY <1>1, <1>2, <1>3, <1>4, <1>5

(* A row goes and its task is asked to end: no row stands for it any more. *)
LEMMA RowGoes ==
  ASSUME ForwardInv, NEW k \in DOMAIN entries, Stop(k), Panels',
         UNCHANGED <<started, conn, endpoints, wasReady>>
  PROVE  ForwardInv'
<1>1. PICK r \in Rows : r = entries[k]
  BY DEF Rows, ToSet
<1>2. r.id \in Ids /\ r.id <= started
  BY RowTypes DEF ForwardInv, RowSound
<1>3. PICK i \in Ids : i = r.id
  BY <1>2
<1> DEFINE p == [task[i] EXCEPT !.aborted = TRUE]
<1>4. task' = [task EXCEPT ![i] = p] /\ entries' = RemoveAt(entries, k)
  BY <1>1, <1>3 DEF Stop
<1>5. /\ p \in TaskType /\ p.pc = task[i].pc /\ p.for = task[i].for /\ p.pod = task[i].pod
      /\ p.bound = task[i].bound
  BY DEF TaskType, ForwardInv, Tables
<1> HIDE DEF p
<1>6. task' \in [Ids -> TaskType] /\ task'[i] = p /\ \A j \in Ids \ {i} : task'[j] = task[j]
  BY <1>4, <1>5 DEF ForwardInv, Tables
<1>7. /\ entries' \in Seq(RowType) /\ Once(entries')
      /\ ToSet(entries') \subseteq {q \in Rows : q.id # i}
  <2>1. entries \in Seq(RowType) /\ k \in 1..Len(entries) /\ Once(entries)
    BY DEF ForwardInv, Registry
  <2> QED BY <1>1, <1>3, <1>4, <2>1, RemovedRow DEF Rows
<1>8. \A j : Through(j)' = Through(j)
  BY ThroughAside
<1>9. ASSUME NEW q \in ToSet(entries') PROVE RowSound(q)'
  <2>1. q \in Rows /\ q.id # i
    BY <1>7
  <2> QED BY <1>6, <1>8, <2>1, OtherRow
<1>10. Registry'
  BY <1>7, <1>9 DEF Registry, Rows
<1>11. Tables' /\ Cluster'
  BY <1>6 DEF ForwardInv, Tables, Cluster, ReadyNow
<1>12. ASSUME NEW j \in Ids PROVE TaskSound(j)'
  <2>1. TaskSound(j)
    BY DEF ForwardInv, Tasks
  <2>2. CASE j # i
    BY <1>6, <2>1, <2>2 DEF TaskSound
  <2>3. CASE j = i
    <3>1. i <= started /\ ~(i > started)
      BY <1>2, <1>3, ForwardAssumption DEF ForwardInv, Tables, Ids
    <3> QED BY <1>5, <1>6, <2>1, <2>3, <3>1 DEF TaskSound
  <2> QED BY <2>2, <2>3
<1>13. BoundOnce'
  <2>1. \A j \in Ids : task'[j].bound = task[j].bound
    BY <1>5, <1>6
  <2> QED BY <2>1 DEF ForwardInv, Tasks, BoundOnce
<1>14. Carried'
  <2>1. \A j \in Ids : task'[j].pc = task[j].pc
    BY <1>5, <1>6
  <2> QED BY <2>1 DEF ForwardInv, Carried
<1> QED BY <1>10, <1>11, <1>12, <1>13, <1>14 DEF ForwardInv, Tasks

LEMMA InvStop ==
  ASSUME ForwardInv, ForwardsStopSelected
  PROVE  ForwardInv'
<1>1. /\ cursor # None /\ cursor < Len(entries) /\ Stop(cursor + 1)
      /\ cursor' = Clipped(cursor, Len(entries) - 1)
      /\ UNCHANGED <<started, conn, form, endpoints, wasReady>>
  BY DEF ForwardsStopSelected
<1>2. entries \in Seq(RowType) /\ Once(entries) /\ Len(entries) \in Nat /\ cursor \in Nat
  BY <1>1 DEF ForwardInv, Registry, Panels
<1>3. cursor + 1 \in 1..Len(entries) /\ cursor + 1 \in DOMAIN entries
  BY <1>1, <1>2
<1>4. entries' \in Seq(RowType) /\ Len(entries') = Len(entries) - 1
  BY <1>1, <1>2, <1>3, RemovedRow DEF Stop
<1>5. entries' # <<>> => Len(entries') > 0
  <2>1. Len(entries') = 0 => entries' = <<>>
    BY <1>4, EmptySeq
  <2> QED BY <1>4, <2>1
<1>6. cursor' \in Nat /\ (entries' # <<>> => cursor' < Len(entries'))
  <2>4. Len(entries) - 1 \in Nat
    BY <1>1, <1>2
  <2>0. PICK i \in Nat, n \in Nat : i = cursor /\ n = Len(entries) - 1
    BY <1>2, <2>4
  <2>3. Clipped(i, n) \in Nat /\ (n > 0 => Clipped(i, n) < n)
    BY DEF Clipped
  <2>1. Clipped(cursor, Len(entries) - 1) \in Nat
    BY <2>0, <2>3
  <2>2. Len(entries) - 1 > 0 => Clipped(cursor, Len(entries) - 1) < Len(entries) - 1
    BY <2>0, <2>3
  <2> QED BY <1>1, <1>4, <1>5, <2>1, <2>2
<1>7. Panels'
  BY <1>1, <1>6 DEF ForwardInv, Panels, CursorOnARow
<1> QED BY <1>1, <1>3, <1>7, RowGoes

(* A forward starts on a service port that no row has.                     *)
LEMMA InvStart ==
  ASSUME ForwardInv, NEW port \in Ports \cup {AnyPort}, form # None, Find(form) = {},
         Start(form, port), form' = None,
         UNCHANGED <<conn, cursor, endpoints, wasReady>>
  PROVE  ForwardInv'
<1>1. PICK i : i = started + 1
  OBVIOUS
<1>2. PICK s : s = form
  OBVIOUS
<1>3. started \in Nat /\ i \in Ids /\ started' = i /\ started' \in 0..MaxStarts /\ started <= i
      /\ i > started /\ s \in Services
  BY <1>1, <1>2, ForwardAssumption DEF Start, Ids, ForwardInv, Tables, Panels
<1> DEFINE x == [id |-> i, for |-> s, local |-> port, pod |-> None,
                 state |-> "starting", open |-> 0, served |-> 0, error |-> FALSE]
           p == [NoTask EXCEPT !.pc = "resolve", !.for = s, !.asked = port]
<1>4. entries' = Append(entries, x) /\ task' = [task EXCEPT ![i] = p]
  BY <1>1, <1>2 DEF Start
<1>5. /\ x \in RowType /\ x.id = i /\ x.for = s /\ x.pod = None /\ x.open = 0
      /\ x.state = "starting"
  <2>1. 0 \in 0..Cardinality(Conns) /\ 0 \in 0..MaxServed
    BY ForwardAssumption, FS_CardinalityType
  <2> QED BY <1>3, <2>1 DEF RowType
<1>6. /\ p \in TaskType /\ p.pc = "resolve" /\ p.for = s /\ p.bound = AnyPort /\ ~p.aborted
  BY <1>3 DEF TaskType, NoTask
<1> HIDE DEF x, p
<1>7. task' \in [Ids -> TaskType] /\ task'[i] = p /\ \A j \in Ids \ {i} : task'[j] = task[j]
  BY <1>3, <1>4, <1>6 DEF ForwardInv, Tables
<1>8. task[i] = NoTask
  BY <1>3 DEF ForwardInv, Tasks, TaskSound
<1>9. entries \in Seq(RowType) /\ Once(entries)
  BY DEF ForwardInv, Registry
<1>10. \A r \in Rows : r.id # i /\ r.for # s
  <2> SUFFICES ASSUME NEW r \in Rows PROVE r.id # i /\ r.for # s
    OBVIOUS
  <2>1. r.id \in Nat /\ r.id <= started
    BY RowTypes, ForwardAssumption DEF ForwardInv, RowSound, Ids
  <2>2. r.for # s
    BY <1>2 DEF Find, Rows, ToSet
  <2> QED BY <1>3, <2>1, <2>2
<1>11. /\ entries' \in Seq(RowType) /\ Once(entries') /\ ToSet(entries') = Rows \cup {x}
  BY <1>4, <1>5, <1>9, <1>10, AppendedRow DEF Rows
<1>12. \A j : Through(j)' = Through(j)
  BY ThroughAside
<1>13. Through(i)' = {}
  <2>1. Through(i) = {}
    BY <1>3, <1>8, CarriedThrough DEF NoTask, ForwardInv
  <2> QED BY <1>12, <2>1
<1>14. ASSUME NEW r \in Rows PROVE RowSound(r)'
  <2>1. RowSound(r) /\ r.id \in Ids /\ r.id # i
    BY <1>10, RowTypes DEF ForwardInv
  <2>2. task'[r.id] = task[r.id] /\ Through(r.id)' = Through(r.id)
    BY <1>7, <1>12, <2>1
  <2>3. started' \in Nat /\ started <= started'
    BY <1>3 DEF Ids
  <2> QED BY <1>3, <2>1, <2>2, <2>3, RowStays
<1>15. RowSound(x)'
  <2>1. x.id <= started' /\ x.open = Cardinality(Through(x.id)')
    BY <1>3, <1>5, <1>13, FS_EmptySet DEF Ids
  <2> QED BY <1>5, <1>6, <1>7, <2>1 DEF RowSound
<1>16. Registry'
  BY <1>11, <1>14, <1>15 DEF Registry, Rows
<1>17. Tables' /\ Cluster'
  BY <1>3, <1>7 DEF ForwardInv, Tables, Cluster, ReadyNow
<1>18. Panels'
  <2>1. cursor = None
    BY DEF ForwardInv, Panels
  <2> QED BY <2>1 DEF ForwardInv, Panels, CursorOnARow
<1>19. ASSUME NEW j \in Ids PROVE TaskSound(j)'
  <2>1. CASE j = i
    <3>1. ~(i > started')
      BY <1>3 DEF Ids
    <3> QED BY <1>3, <1>6, <1>7, <2>1, <3>1 DEF TaskSound
  <2>2. CASE j # i
    <3>1. TaskSound(j) /\ task'[j] = task[j]
      BY <1>7, <2>2 DEF ForwardInv, Tasks
    <3>2. (j > started' => j > started) /\ (j <= started' => j <= started)
      BY <1>1, <1>3, <2>2 DEF Ids
    <3> QED BY <3>1, <3>2 DEF TaskSound
  <2> QED BY <2>1, <2>2
<1>20. BoundOnce'
  <2>1. \A j \in Ids : task'[j].bound = task[j].bound
    BY <1>6, <1>7, <1>8 DEF NoTask
  <2> QED BY <2>1 DEF ForwardInv, Tasks, BoundOnce
<1>21. Carried'
  <2>1. \A j \in Ids : task[j].pc = "serve" => task'[j].pc = "serve"
    BY <1>7, <1>8 DEF NoTask
  <2> QED BY <2>1 DEF ForwardInv, Carried
<1> QED BY <1>16, <1>17, <1>18, <1>19, <1>20, <1>21 DEF ForwardInv, Tasks

LEMMA InvActivate ==
  ASSUME ForwardInv, NEW port \in Ports \cup {AnyPort}, PfActivate(port)
  PROVE  ForwardInv'
<1>1. form # None /\ UNCHANGED <<conn, cursor, endpoints, wasReady>>
  BY DEF PfActivate
<1>2. ASSUME NEW k \in DOMAIN entries, Stop(k), UNCHANGED <<started, form>> PROVE ForwardInv'
  <2>1. Panels'
    BY <1>1, <1>2 DEF ForwardInv, Panels, CursorOnARow
  <2> QED BY <1>1, <1>2, <2>1, RowGoes
<1>3. CASE Find(form) = {} /\ Start(form, port) /\ form' = None
  BY <1>1, <1>3, InvStart
<1> QED BY <1>2, <1>3 DEF PfActivate

LEMMA InvStopAll == ASSUME ForwardInv, StopAll PROVE ForwardInv'
<1>1. /\ entries' = <<>> /\ form' = None /\ cursor' = None
      /\ UNCHANGED <<started, conn, endpoints, wasReady>>
      /\ task' = [i \in Ids |-> IF Listed(i) THEN [task[i] EXCEPT !.aborted = TRUE] ELSE task[i]]
  BY DEF StopAll
<1>2. ASSUME NEW i \in Ids
      PROVE  /\ task'[i] \in TaskType /\ task'[i].pc = task[i].pc /\ task'[i].for = task[i].for
             /\ task'[i].pod = task[i].pod /\ task'[i].bound = task[i].bound
             /\ ~Listed(i) => task'[i] = task[i]
  <2>1. task[i] \in TaskType
    BY DEF ForwardInv, Tables
  <2>2. CASE Listed(i)
    <3> DEFINE p == [task[i] EXCEPT !.aborted = TRUE]
    <3>1. /\ p \in TaskType /\ p.pc = task[i].pc /\ p.for = task[i].for
          /\ p.pod = task[i].pod /\ p.bound = task[i].bound
      BY <2>1 DEF TaskType
    <3>2. task'[i] = p
      BY <1>1, <2>2
    <3> HIDE DEF p
    <3> QED BY <2>2, <3>1, <3>2
  <2>3. CASE ~Listed(i)
    BY <1>1, <2>1, <2>3
  <2> QED BY <2>2, <2>3
<1>3. \A i \in Ids : Listed(i) => i <= started
  BY RowTypes DEF Listed, ForwardInv, RowSound
<1>4. Tables' /\ Cluster'
  <2>1. task' \in [Ids -> TaskType]
    BY <1>1, <1>2
  <2> QED BY <1>1, <2>1 DEF ForwardInv, Tables, Cluster, ReadyNow
<1>5. Panels'
  BY <1>1 DEF ForwardInv, Panels, CursorOnARow
<1>6. Registry'
  <2>1. entries' \in Seq(RowType) /\ DOMAIN entries' = {}
    BY <1>1, EmptySeq
  <2> QED BY <2>1 DEF Registry, Rows, ToSet, Once
<1>7. ASSUME NEW i \in Ids PROVE TaskSound(i)'
  <2>1. TaskSound(i)
    BY DEF ForwardInv, Tasks
  <2>2. i > started => ~Listed(i)
    BY <1>3, ForwardAssumption DEF ForwardInv, Tables, Ids
  <2> QED BY <1>1, <1>2, <2>1, <2>2 DEF TaskSound
<1>8. BoundOnce'
  BY <1>2 DEF ForwardInv, Tasks, BoundOnce
<1>9. Carried'
  BY <1>1, <1>2 DEF ForwardInv, Carried
<1> QED BY <1>4, <1>5, <1>6, <1>7, <1>8, <1>9 DEF ForwardInv, Tasks

-----------------------------------------------------------------------------
(* The theorem *)

LEMMA InvInit == Init => ForwardInv
<1> SUFFICES ASSUME Init PROVE ForwardInv
  OBVIOUS
<1>0. NoTask \in TaskType /\ NoConn \in [pc : {"none", "pump"}, id : 0..MaxStarts]
  BY ForwardAssumption DEF NoTask, TaskType, NoConn
<1>1. Tables
  BY <1>0, ForwardAssumption DEF Init, Tables
<1>2. Cluster
  <2>1. ASSUME NEW s \in Services PROVE ReadyNow(endpoints)[s] \subseteq Pods
    <3>1. PICK list \in EndpointLists : list = endpoints[s]
      BY DEF Init
    <3>2. ReadyNow(endpoints)[s] = IF list = None THEN {} ELSE Readies(list)
      BY <3>1 DEF ReadyNow
    <3>3. list # None => Readies(list) \subseteq Pods
      BY ReadyPods
    <3> QED BY <3>2, <3>3
  <2>2. wasReady \in [Services -> SUBSET Pods]
    BY <2>1 DEF Init, ReadyNow
  <2> QED BY <2>2 DEF Init, Cluster
<1>3. Panels
  BY DEF Init, Panels, CursorOnARow
<1>4. Registry
  <2>1. entries \in Seq(RowType) /\ DOMAIN entries = {}
    BY EmptySeq DEF Init
  <2> QED BY <2>1 DEF Registry, Rows, ToSet, Once
<1>5. Tasks
  <2>1. \A i \in Ids : ~(i <= started) /\ task[i] = NoTask
    BY ForwardAssumption DEF Init, Ids
  <2>2. NoTask.pc = "none" /\ NoTask.bound = AnyPort
    BY DEF NoTask
  <2>3. \A i \in Ids : TaskSound(i)
    BY <2>1, <2>2 DEF TaskSound
  <2>4. BoundOnce
    BY <2>1, <2>2 DEF BoundOnce
  <2> QED BY <2>3, <2>4 DEF Tasks
<1>6. Carried
  BY DEF Init, Carried
<1> QED BY <1>1, <1>2, <1>3, <1>4, <1>5, <1>6 DEF ForwardInv

LEMMA InvNext == ForwardInv /\ [Next]_vars => ForwardInv'
<1> SUFFICES ASSUME ForwardInv, [Next]_vars PROVE ForwardInv'
  OBVIOUS
<1>1. CASE User
  <2>1. ASSUME NEW port \in Ports \cup {AnyPort}, PfActivate(port) PROVE ForwardInv'
    BY <2>1, InvActivate
  <2>2. CASE ForwardsStopSelected
    BY <2>2, InvStop
  <2>3. CASE StopAll
    BY <2>3, InvStopAll
  <2> QED BY <1>1, <2>1, <2>2, <2>3, InvPanels DEF User
<1>2. ASSUME NEW i \in Ids, ForwardStep(i) PROVE ForwardInv'
  BY <1>2, InvResolve, InvBind, InvFail, InvAnnounce, InvAborted DEF ForwardStep
<1>3. ASSUME NEW i \in Ids, NEW c \in Conns, Accept(i, c) PROVE ForwardInv'
  BY <1>3, InvAccept
<1>4. ASSUME NEW c \in Conns, NEW ok \in BOOLEAN, PumpEnds(c, ok) PROVE ForwardInv'
  BY <1>4, InvPumpEnds
<1>5. ASSUME NEW s \in Services, Changed(s) PROVE ForwardInv'
  BY <1>5, InvChanged
<1>6. CASE UNCHANGED vars
  <2>1. Panels'
    BY <1>6 DEF vars, ForwardInv, Panels, CursorOnARow
  <2> QED BY <1>6, <2>1, PanelStep DEF vars
<1> QED BY <1>1, <1>2, <1>3, <1>4, <1>5, <1>6 DEF Next

LEMMA InvImplies == ForwardInv => RowsTellTheTruth
<1> SUFFICES ASSUME ForwardInv PROVE RowsTellTheTruth
  OBVIOUS
<1>1. TypeOK
  BY DEF ForwardInv, TypeOK, Tables, Cluster, Panels, Registry
<1>2. CursorOnARow
  BY DEF ForwardInv, Panels
<1>3. OneForwardPerPort
  BY DEF ForwardInv, Registry, Once, OneForwardPerPort, Rows, ToSet
<1>4. ListeningIsBound
  <2> SUFFICES ASSUME NEW r \in Rows, r.state = "listening"
               PROVE  /\ r.local # AnyPort /\ task[r.id].bound = r.local
                      /\ \A i \in Ids \ {r.id} : task[i].bound # r.local
    BY DEF ListeningIsBound
  <2>1. r.id \in Ids /\ task[r.id].pc = "serve" /\ r.local = task[r.id].bound
    BY RowTypes DEF ForwardInv, RowSound
  <2>2. r.local # AnyPort
    BY <2>1 DEF ForwardInv, Tasks, TaskSound
  <2> QED BY <2>1, <2>2 DEF ForwardInv, Tasks, BoundOnce
<1>5. OpenCounts /\ LedToReady
  BY RowTypes DEF ForwardInv, RowSound, OpenCounts, LedToReady, Through
<1>6. CarriedByATask
  BY DEF ForwardInv, Carried, CarriedByATask
<1> QED BY <1>1, <1>2, <1>3, <1>4, <1>5, <1>6 DEF RowsTellTheTruth

(* What a row of the registry says of a forward is so at any time: the     *)
(* port it shows is held by its own task and by no other, its count is     *)
(* that of the connections carried, its pod has been ready behind that     *)
(* service port, and no service port has two rows.                         *)
THEOREM RowsAreTrue == Spec => []RowsTellTheTruth
<1>1. Init => ForwardInv
  BY InvInit
<1>2. ForwardInv /\ [Next]_vars => ForwardInv'
  BY InvNext
<1>3. ForwardInv => RowsTellTheTruth
  BY InvImplies
<1> QED BY <1>1, <1>2, <1>3, PTL DEF Spec


-----------------------------------------------------------------------------
(* The trees: definitions by steps, and closures *)

(* A set of naturals that is not empty has a least.                        *)
LEMMA LeastNatural ==
  ASSUME NEW T \in SUBSET Nat, T # {}
  PROVE  \E n \in T : \A m \in T : n <= m
<1> DEFINE I == {0..n : n \in T}
<1>1. I \subseteq FiniteSubsetsOf(Nat) /\ I # {}
  <2>1. \A n \in T : IsFiniteSet(0..n) /\ 0..n \subseteq Nat
    BY FS_Interval
  <2>2. I # {}
    OBVIOUS
  <2>3. \A A \in I : A \subseteq Nat /\ IsFiniteSet(A)
    BY <2>1
  <2> HIDE DEF I
  <2> QED BY <2>2, <2>3 DEF FiniteSubsetsOf
<1>2. IsWellFoundedOn(StrictSubsetOrdering(Nat), FiniteSubsetsOf(Nat))
  BY FS_StrictSubsetOrderingWellFounded
<1>3. PICK A \in I : \A B \in I : ~(<<B, A>> \in StrictSubsetOrdering(Nat))
  <2> HIDE DEF I
  <2> QED BY <1>1, <1>2, WFMin
<1>4. PICK n \in T : A = 0..n
  BY <1>3
<1>5. ASSUME NEW m \in T, m < n PROVE FALSE
  <2>1. 0..m \in I /\ 0..m \subseteq A /\ 0..m # A
    BY <1>4, <1>5
  <2>2. <<0..m, A>> \in StrictSubsetOrdering(Nat)
    BY <1>4, <2>1 DEF StrictSubsetOrdering
  <2> QED BY <1>3, <2>1, <2>2
<1>6. \A m \in T : n <= m
  <2>1. n \in Nat /\ T \subseteq Nat
    OBVIOUS
  <2>2. \A m \in T : ~(m < n)
    BY <1>5
  <2> QED BY ONLY <2>1, <2>2
<1> QED BY <1>6

(* A set of places that has 0, and with a place the next, has them all.    *)
LEMMA AllPlaces ==
  ASSUME NEW n \in Nat, NEW G, 0 \in G, \A i \in 1..n : i - 1 \in G => i \in G
  PROVE  \A i \in 0..n : i \in G
<1> DEFINE T == {i \in 0..n : i \notin G}
<1> SUFFICES ASSUME T # {} PROVE FALSE
  OBVIOUS
<1>1. T \in SUBSET Nat
  OBVIOUS
<1>2. PICK k \in T : \A m \in T : k <= m
  <2> HIDE DEF T
  <2> QED BY <1>1, LeastNatural
<1>3. k \in 1..n /\ k - 1 \in 0..n /\ k - 1 \notin T
  BY <1>2
<1> QED BY <1>2, <1>3

(* f goes from base through n steps of op.                                 *)
Goes(f, n, S, base, op) ==
  f \in [0..n -> S] /\ f[0] = base /\ \A i \in 1..n : f[i] = op[i][f[i - 1]]

(* A function that is defined by steps exists, and goes as it is defined.  *)
LEMMA StepsExist ==
  ASSUME NEW n \in Nat, NEW S, NEW base \in S, NEW op \in [1..n -> [S -> S]]
  PROVE  \E f : Goes(f, n, S, base, op)
<1> DEFINE Upto(k, f) == /\ f \in [0..k -> S] /\ f[0] = base
                         /\ \A i \in 1..k : f[i] = op[i][f[i - 1]]
           G == {k \in 0..n : \E f : Upto(k, f)}
<1>1. 0 \in G
  <2>1. Upto(0, [i \in 0..0 |-> base])
    OBVIOUS
  <2> HIDE DEF Upto
  <2> QED BY <2>1
<1>2. ASSUME NEW k \in 1..n, k - 1 \in G PROVE k \in G
  <2>1. PICK f : Upto(k - 1, f)
    BY <1>2
  <2> DEFINE g == [i \in 0..k |-> IF i = k THEN op[k][f[k - 1]] ELSE f[i]]
  <2>2. f[k - 1] \in S /\ op[k][f[k - 1]] \in S
    BY <2>1
  <2>3. g \in [0..k -> S] /\ g[0] = base
    BY <2>1, <2>2
  <2>4. ASSUME NEW i \in 1..k PROVE g[i] = op[i][g[i - 1]]
    <3>1. CASE i = k
      BY <3>1
    <3>2. CASE i # k
      <4>1. i \in 1..(k - 1) /\ g[i] = f[i] /\ g[i - 1] = f[i - 1]
        BY <3>2
      <4> HIDE DEF g
      <4> QED BY <2>1, <4>1
    <3> QED BY <3>1, <3>2
  <2> HIDE DEF g
  <2>5. Upto(k, g)
    BY <2>3, <2>4
  <2> HIDE DEF Upto
  <2> QED BY <2>5
<1>3. PICK f : Upto(n, f)
  <2>1. \A i \in 1..n : i - 1 \in G => i \in G
    BY <1>2
  <2>2. n \in G
    <3> HIDE DEF G
    <3>1. \A i \in 0..n : i \in G
      BY <1>1, <2>1, AllPlaces
    <3> QED BY <3>1
  <2> QED BY <2>2
<1> QED BY <1>3 DEF Goes

-----------------------------------------------------------------------------
(* Indices: what a set leads to, and its order in the view *)

(* Where each of the indices leads. *)
Links(next, N) == N \in Nat /\ next \in [1..N -> SUBSET (1..N)]

(* A set nothing leads out of. *)
Kept(next, P) == \A i \in P : i \in DOMAIN next => next[i] \subseteq P

(* The links of N indices are a sequence of N sets of indices.             *)
LEMMA LinksLen ==
  ASSUME NEW N, NEW next, Links(next, N)
  PROVE  N \in Nat /\ Len(next) = N /\ DOMAIN next = 1..N /\ \A i \in 1..N : next[i] \subseteq 1..N
<1>1. next \in Seq(SUBSET (1..N)) /\ Len(next) = N
  BY DEF Links
<1> QED BY <1>1 DEF Links

GrowStep(next, n, from, f) ==
  IF n = 0 THEN from ELSE f[n - 1] \cup UNION {next[i] : i \in f[n - 1]}

(* The stages of a closure. *)
Stages(f, next, N, from) ==
  /\ Closure(next, from) = f[N]
  /\ f \in [0..N -> SUBSET (1..N)] /\ f[0] = from
  /\ \A n \in 1..N : f[n] = f[n - 1] \cup UNION {next[i] : i \in f[n - 1]}

(* The steps of a closure go as its definition says.                       *)
LEMMA ClosureStages ==
  ASSUME NEW N, NEW next, Links(next, N), NEW from \in SUBSET (1..N)
  PROVE  \E f : Stages(f, next, N, from)
<1>1. N \in Nat /\ Len(next) = N /\ DOMAIN next = 1..N /\ \A i \in 1..N : next[i] \subseteq 1..N
  BY LinksLen
<1> DEFINE Grows(f) == f = [n \in 0..N |-> GrowStep(next, n, from, f)]
           op == [n \in 1..N |-> [A \in SUBSET (1..N) |-> A \cup UNION {next[i] : i \in A}]]
<1>2. Closure(next, from) = (CHOOSE f : Grows(f))[N]
  BY <1>1 DEF Closure, GrowStep
<1>3. op \in [1..N -> [SUBSET (1..N) -> SUBSET (1..N)]]
  <2>1. ASSUME NEW A \in SUBSET (1..N) PROVE A \cup UNION {next[i] : i \in A} \in SUBSET (1..N)
    BY <1>1
  <2> QED BY <2>1
<1>4. PICK g : Goes(g, N, SUBSET (1..N), from, op)
  <2> HIDE DEF op
  <2> QED BY <1>1, <1>3, StepsExist
<1>5. /\ g \in [0..N -> SUBSET (1..N)] /\ g[0] = from
      /\ \A n \in 1..N : g[n] = g[n - 1] \cup UNION {next[i] : i \in g[n - 1]}
  <2>1. \A n \in 1..N : n - 1 \in 0..N
    BY <1>1
  <2> QED BY <1>4, <2>1 DEF Goes
<1>6. Grows(g)
  <2>1. \A n \in 0..N : g[n] = GrowStep(next, n, from, g)
    <3>1. \A n \in 0..N : n = 0 \/ n \in 1..N
      BY <1>1
    <3>2. \A n \in 1..N : n # 0
      BY <1>1
    <3> QED BY <1>5, <3>1, <3>2 DEF GrowStep
  <2> QED BY <1>5, <2>1
<1>7. PICK f : f = (CHOOSE h : Grows(h)) /\ Grows(f)
  <2> HIDE DEF Grows
  <2> QED BY <1>6
<1>8. /\ f[0] = from
      /\ \A n \in 1..N : f[n] = f[n - 1] \cup UNION {next[i] : i \in f[n - 1]}
  <2>1. \A n \in 1..N : n \in 0..N /\ n # 0
    BY <1>1
  <2>2. 0 \in 0..N
    BY <1>1
  <2> QED BY <1>7, <2>1, <2>2 DEF GrowStep
<1>9. \A n \in 0..N : f[n] \in SUBSET (1..N)
  <2> DEFINE G == {n \in 0..N : f[n] \in SUBSET (1..N)}
  <2>1. 0 \in G
    <3>1. 0 \in 0..N
      BY <1>1
    <3> QED BY <1>8, <3>1
  <2>2. ASSUME NEW n \in 1..N, n - 1 \in G PROVE n \in G
    <3>1. f[n - 1] \in SUBSET (1..N)
      BY <2>2
    <3>2. f[n] \in SUBSET (1..N)
      BY <1>1, <1>8, <3>1
    <3> QED BY <1>1, <3>2
  <2> HIDE DEF G
  <2>3. \A n \in 0..N : n \in G
    BY <1>1, <2>1, <2>2, AllPlaces
  <2> QED BY <2>3 DEF G
<1>10. f \in [0..N -> SUBSET (1..N)]
  BY <1>7, <1>9
<1> QED BY <1>2, <1>7, <1>8, <1>10 DEF Stages

(* A closure holds what it starts from, leads nowhere else, and is the      *)
(* least that does: after as many steps as there are indices it has        *)
(* stopped growing.                                                        *)
LEMMA ClosureIs ==
  ASSUME NEW N, NEW next, Links(next, N), NEW from \in SUBSET (1..N)
  PROVE  /\ Closure(next, from) \in SUBSET (1..N)
         /\ from \subseteq Closure(next, from)
         /\ Kept(next, Closure(next, from))
         /\ \A P : from \subseteq P /\ Kept(next, P) => Closure(next, from) \subseteq P
<1>1. N \in Nat /\ Len(next) = N /\ DOMAIN next = 1..N /\ \A i \in 1..N : next[i] \subseteq 1..N
  BY LinksLen
<1>2. PICK f : /\ Closure(next, from) = f[N]
               /\ f \in [0..N -> SUBSET (1..N)] /\ f[0] = from
               /\ \A n \in 1..N : f[n] = f[n - 1] \cup UNION {next[i] : i \in f[n - 1]}
  <2>1. PICK f : Stages(f, next, N, from)
    BY ClosureStages
  <2> QED BY <2>1 DEF Stages
<1>3. N \in 0..N /\ 0 \in 0..N /\ \A n \in 1..N : n \in 0..N /\ n - 1 \in 0..N
  BY <1>1
<1>4. from \subseteq f[N]
  <2> DEFINE G == {n \in 0..N : from \subseteq f[n]}
  <2>1. 0 \in G /\ \A n \in 1..N : n - 1 \in G => n \in G
    BY <1>2, <1>3
  <2> HIDE DEF G
  <2>2. \A n \in 0..N : n \in G
    BY <1>1, <2>1, AllPlaces
  <2> QED BY <1>3, <2>2 DEF G
<1>5. ASSUME NEW P, from \subseteq P, Kept(next, P) PROVE f[N] \subseteq P
  <2> DEFINE G == {n \in 0..N : f[n] \subseteq P}
  <2>1. 0 \in G
    BY <1>2, <1>3, <1>5
  <2>2. ASSUME NEW n \in 1..N, n - 1 \in G PROVE n \in G
    <3>1. f[n - 1] \subseteq P /\ f[n - 1] \subseteq 1..N
      BY <1>2, <1>3, <2>2
    <3>2. f[n] \subseteq P
      BY <1>1, <1>2, <1>5, <3>1 DEF Kept
    <3> QED BY <1>3, <3>2
  <2> HIDE DEF G
  <2>3. \A n \in 0..N : n \in G
    BY <1>1, <2>1, <2>2, AllPlaces
  <2> QED BY <1>3, <2>3 DEF G
<1>6. Kept(next, f[N])
  <2> DEFINE G == {n \in 0..N : Kept(next, f[n]) \/ Cardinality(f[n]) >= n}
  <2>0. IsFiniteSet(1..N) /\ Cardinality(1..N) = N
    <3>1. IsFiniteSet(1..N) /\ Cardinality(1..N) = IF 1 > N THEN 0 ELSE N - 1 + 1
      BY <1>1, FS_Interval
    <3> QED BY <1>1, <3>1
  <2>1. \A n \in 0..N : f[n] \subseteq 1..N /\ IsFiniteSet(f[n]) /\ Cardinality(f[n]) \in Nat
    BY <1>2, <2>0, FS_Subset, FS_CardinalityType
  <2>2. 0 \in G
    BY <1>3, <2>1
  <2>3. ASSUME NEW n \in 1..N, n - 1 \in G PROVE n \in G
    <3>1. f[n - 1] \subseteq 1..N /\ f[n] = f[n - 1] \cup UNION {next[i] : i \in f[n - 1]}
      BY <1>2, <1>3, <2>1
    <3>2. CASE Kept(next, f[n - 1])
      <4>1. f[n] = f[n - 1]
        BY <1>1, <3>1, <3>2 DEF Kept
      <4> QED BY <1>3, <3>2, <4>1
    <3>3. CASE ~Kept(next, f[n - 1])
      <4>1. f[n] # f[n - 1]
        BY <1>1, <3>1, <3>3 DEF Kept
      <4>2. Cardinality(f[n - 1]) < Cardinality(f[n])
        <5>1. f[n - 1] \subseteq f[n]
          BY <3>1
        <5>2. IsFiniteSet(f[n]) /\ Cardinality(f[n - 1]) \in Nat /\ Cardinality(f[n]) \in Nat
          BY <1>3, <2>1
        <5>3. Cardinality(f[n - 1]) <= Cardinality(f[n])
              /\ (Cardinality(f[n - 1]) = Cardinality(f[n]) => f[n - 1] = f[n])
          BY <5>1, <5>2, FS_Subset
        <5> QED BY <4>1, <5>2, <5>3
      <4>3. Cardinality(f[n - 1]) >= n - 1
        BY <2>3, <3>3
      <4>4. Cardinality(f[n]) >= n
        BY <1>1, <1>3, <2>1, <4>2, <4>3
      <4> QED BY <1>3, <4>4
    <3> QED BY <3>2, <3>3
  <2> HIDE DEF G
  <2>4. N \in G
    <3>1. \A n \in 0..N : n \in G
      BY <1>1, <2>2, <2>3, AllPlaces
    <3> QED BY <1>3, <3>1
  <2>5. CASE Kept(next, f[N])
    BY <2>5
  <2>6. CASE Cardinality(f[N]) >= N
    <3>1. f[N] \subseteq 1..N /\ Cardinality(f[N]) \in Nat
      BY <1>3, <2>1
    <3>2. Cardinality(f[N]) <= Cardinality(1..N) /\ (Cardinality(f[N]) = Cardinality(1..N) => f[N] = 1..N)
      BY <2>0, <3>1, FS_Subset
    <3>3. f[N] = 1..N
      BY <1>1, <2>0, <2>6, <3>1, <3>2
    <3> QED BY <1>1, <3>3 DEF Kept
  <2> QED BY <2>4, <2>5, <2>6 DEF G
<1> QED BY <1>2, <1>3, <1>4, <1>5, <1>6

-----------------------------------------------------------------------------
(* Sequences, and what is in them *)

(* What is appended for the first time leaves no element twice.            *)
LEMMA AppendOnce ==
  ASSUME NEW S, NEW q \in Seq(S), IsInjective(q), NEW x \in S, x \notin ToSet(q)
  PROVE  /\ Append(q, x) \in Seq(S)
         /\ IsInjective(Append(q, x))
         /\ ToSet(Append(q, x)) = ToSet(q) \cup {x}
         /\ q # << >> => Head(Append(q, x)) = Head(q)
<1> DEFINE a == Append(q, x)
<1>1. /\ a \in Seq(S) /\ Len(a) = Len(q) + 1 /\ DOMAIN a = 1..(Len(q) + 1)
      /\ \A i \in 1..Len(q) : a[i] = q[i]
      /\ a[Len(q) + 1] = x
  BY AppendProperties
<1> HIDE DEF a
<1>2. Len(q) \in Nat /\ DOMAIN q = 1..Len(q)
  OBVIOUS
<1>3. \A i \in 1..Len(q) : q[i] # x
  BY DEF ToSet
<1>4. \A i \in 1..(Len(q) + 1) : i \in 1..Len(q) \/ i = Len(q) + 1
  BY <1>2
<1>5. IsInjective(a)
  <2> SUFFICES ASSUME NEW i \in 1..(Len(q) + 1), NEW j \in 1..(Len(q) + 1), a[i] = a[j]
               PROVE  i = j
    BY <1>1 DEF IsInjective
  <2> QED BY <1>1, <1>2, <1>3, <1>4 DEF IsInjective
<1>6. ToSet(a) = ToSet(q) \cup {x}
  <2>1. ToSet(a) = {a[i] : i \in 1..(Len(q) + 1)}
    BY <1>1 DEF ToSet
  <2>2. 1..(Len(q) + 1) = 1..Len(q) \cup {Len(q) + 1}
    BY <1>2
  <2> QED BY <1>1, <1>2, <2>1, <2>2 DEF ToSet
<1>7. q # << >> => Head(a) = Head(q)
  <2> SUFFICES ASSUME q # << >> PROVE a[1] = q[1]
    BY <1>1
  <2>1. 1 \in 1..Len(q)
    BY <1>2
  <2> QED BY <1>1, <2>1
<1> QED BY <1>1, <1>5, <1>6, <1>7 DEF a

(* A concatenation has what both have, and the length of both.             *)
LEMMA ConcatHas ==
  ASSUME NEW S, NEW s \in Seq(S), NEW t \in Seq(S)
  PROVE  /\ s \o t \in Seq(S)
         /\ Len(s \o t) = Len(s) + Len(t)
         /\ ToSet(s \o t) = ToSet(s) \cup ToSet(t)
         /\ \A i \in 1..Len(s) : (s \o t)[i] = s[i]
<1>1. /\ Len(s) \in Nat /\ DOMAIN s = 1..Len(s) /\ Len(t) \in Nat /\ DOMAIN t = 1..Len(t)
  BY LenProperties
<1> DEFINE u == s \o t
<1>2. /\ u \in Seq(S) /\ Len(u) = Len(s) + Len(t)
      /\ \A i \in 1..Len(s) + Len(t) : u[i] = IF i <= Len(s) THEN s[i] ELSE t[i - Len(s)]
  BY ConcatProperties
<1> HIDE DEF u
<1>3. DOMAIN u = 1..(Len(s) + Len(t))
  BY <1>2, LenProperties
<1>4. \A i \in 1..Len(s) : i \in DOMAIN u /\ u[i] = s[i]
  <2> SUFFICES ASSUME NEW i \in 1..Len(s) PROVE i \in DOMAIN u /\ u[i] = s[i]
    OBVIOUS
  <2>1. i \in 1..Len(s) + Len(t) /\ i <= Len(s)
    BY <1>1
  <2> QED BY <1>2, <1>3, <2>1
<1>5. \A i \in 1..Len(t) : Len(s) + i \in DOMAIN u /\ u[Len(s) + i] = t[i]
  <2> SUFFICES ASSUME NEW i \in 1..Len(t) PROVE Len(s) + i \in DOMAIN u /\ u[Len(s) + i] = t[i]
    OBVIOUS
  <2>1. PICK k \in Nat : k = Len(s) + i
    BY <1>1
  <2>2. k \in 1..Len(s) + Len(t) /\ ~(k <= Len(s)) /\ k - Len(s) = i
    BY <1>1, <2>1
  <2> QED BY <1>2, <1>3, <2>1, <2>2
<1>6. \A i \in DOMAIN u : u[i] \in ToSet(s) \cup ToSet(t)
  <2> SUFFICES ASSUME NEW i \in 1..(Len(s) + Len(t)) PROVE u[i] \in ToSet(s) \cup ToSet(t)
    BY <1>3
  <2>1. CASE i <= Len(s)
    <3>1. i \in 1..Len(s)
      BY <1>1, <2>1
    <3> QED BY <1>1, <1>4, <3>1 DEF ToSet
  <2>2. CASE ~(i <= Len(s))
    <3>1. PICK k \in 1..Len(t) : k = i - Len(s)
      <4>1. i \in Int /\ i <= Len(s) + Len(t) /\ i > Len(s)
        BY <1>1, <2>2
      <4>2. i - Len(s) \in 1..Len(t)
        BY <1>1, <4>1
      <4> QED BY <4>2
    <3>2. u[i] = t[k]
      BY <1>2, <2>2, <3>1
    <3> QED BY <1>1, <3>2 DEF ToSet
  <2> QED BY <2>1, <2>2
<1>7. ToSet(u) = ToSet(s) \cup ToSet(t)
  <2>1. ToSet(u) \subseteq ToSet(s) \cup ToSet(t)
    BY <1>6 DEF ToSet
  <2>2. ToSet(s) \subseteq ToSet(u)
    BY <1>1, <1>4 DEF ToSet
  <2>3. ToSet(t) \subseteq ToSet(u)
    BY <1>1, <1>5 DEF ToSet
  <2> QED BY <2>1, <2>2, <2>3
<1> QED BY <1>2, <1>4, <1>7 DEF u

(* A sequence has its head, its tail, and nothing else.                    *)
LEMMA HeadRest ==
  ASSUME NEW S, NEW s \in Seq(S), s # << >>
  PROVE  /\ Head(s) \in S /\ Tail(s) \in Seq(S) /\ Len(s) = Len(Tail(s)) + 1
         /\ ToSet(s) = {Head(s)} \cup ToSet(Tail(s))
<1>1. /\ Head(s) \in S /\ Tail(s) \in Seq(S) /\ Len(Tail(s)) = Len(s) - 1
      /\ \A i \in 1..Len(Tail(s)) : Tail(s)[i] = s[i + 1]
  BY HeadTailProperties
<1>2. Len(s) \in Nat /\ DOMAIN s = 1..Len(s) /\ Head(s) = s[1] /\ Len(s) > 0
  BY EmptySeq, LenProperties
<1> DEFINE r == Tail(s)
<1>3. Len(r) \in Nat /\ DOMAIN r = 1..Len(r) /\ Len(s) = Len(r) + 1
  BY <1>1, <1>2, LenProperties
<1> HIDE DEF r
<1>4. \A i \in 1..Len(r) : r[i] = s[i + 1]
  BY <1>1 DEF r
<1>5. ToSet(r) \subseteq ToSet(s)
  <2>1. \A i \in 1..Len(r) : i + 1 \in 1..Len(s)
    BY <1>3
  <2> QED BY <1>2, <1>3, <1>4, <2>1 DEF ToSet
<1>6. ToSet(s) \subseteq {Head(s)} \cup ToSet(r)
  <2>1. ASSUME NEW i \in 1..Len(s) PROVE s[i] \in {s[1]} \cup ToSet(r)
    <3>1. CASE i = 1
      BY <3>1
    <3>2. CASE i # 1
      <4>1. PICK k \in 1..Len(r) : k + 1 = i
        BY <1>3, <3>2
      <4> QED BY <1>3, <1>4, <4>1 DEF ToSet
    <3> QED BY <3>1, <3>2
  <2> QED BY <1>2, <2>1 DEF ToSet
<1>7. Head(s) \in ToSet(s)
  <2>1. 1 \in 1..Len(s)
    BY <1>2
  <2> QED BY <1>2, <2>1 DEF ToSet
<1> QED BY <1>1, <1>3, <1>5, <1>6, <1>7 DEF r

(* The empty sequence has nothing.                                         *)
LEMMA EmptyHas == ToSet(<< >>) = {} /\ \A S : << >> \in Seq(S) /\ IsInjective(<< >>) /\ Len(<< >>) = 0
<1>1. DOMAIN << >> = {}
  OBVIOUS
<1> QED BY <1>1, EmptySeq DEF ToSet, IsInjective

InStep(set, n, f) ==
  IF n = 0 THEN << >> ELSE IF n \in set THEN Append(f[n - 1], n) ELSE f[n - 1]

Ordered(s, set, n) ==
  /\ s \in Seq(1..n) /\ IsInjective(s) /\ ToSet(s) = set \cap 1..n /\ Len(s) <= n

(* The indices of a set in the order of the view: each of them, once.      *)
LEMMA InOrderIs ==
  ASSUME NEW N \in Nat, NEW set
  PROVE  Ordered(InOrder(set, N), set, N)
<1> DEFINE Goeson(f) == f = [n \in 0..N |-> InStep(set, n, f)]
           op == [n \in 1..N |-> [s \in Seq(Nat) |-> IF n \in set THEN Append(s, n) ELSE s]]
<1>1. InOrder(set, N) = (CHOOSE f : Goeson(f))[N]
  BY DEF InOrder, InStep
<1>2. op \in [1..N -> [Seq(Nat) -> Seq(Nat)]]
  <2>1. ASSUME NEW n \in 1..N, NEW s \in Seq(Nat) PROVE (IF n \in set THEN Append(s, n) ELSE s) \in Seq(Nat)
    OBVIOUS
  <2> QED BY <2>1
<1>3. PICK g : Goes(g, N, Seq(Nat), << >>, op)
  <2> HIDE DEF op
  <2>1. << >> \in Seq(Nat)
    OBVIOUS
  <2> QED BY <1>2, <2>1, StepsExist
<1>4. Goeson(g)
  <2>1. g \in [0..N -> Seq(Nat)] /\ g[0] = << >> /\ \A n \in 1..N : g[n] = op[n][g[n - 1]]
    BY <1>3 DEF Goes
  <2>2. \A n \in 1..N : g[n - 1] \in Seq(Nat)
    <3>1. \A n \in 1..N : n - 1 \in 0..N
      OBVIOUS
    <3> QED BY <2>1, <3>1
  <2>3. \A n \in 1..N : g[n] = InStep(set, n, g)
    BY <2>1, <2>2 DEF InStep
  <2>4. \A n \in 0..N : g[n] = InStep(set, n, g)
    <3>1. \A n \in 0..N : n = 0 \/ n \in 1..N
      OBVIOUS
    <3>2. g[0] = InStep(set, 0, g)
      BY <2>1 DEF InStep
    <3> QED BY <2>3, <3>1, <3>2
  <2> QED BY <2>1, <2>4
<1>5. PICK f : f = (CHOOSE h : Goeson(h)) /\ Goeson(f)
  <2> HIDE DEF Goeson
  <2> QED BY <1>4
<1>6. f[0] = << >> /\ \A n \in 1..N : f[n] = IF n \in set THEN Append(f[n - 1], n) ELSE f[n - 1]
  <2>1. 0 \in 0..N /\ \A n \in 1..N : n \in 0..N /\ n # 0
    OBVIOUS
  <2> QED BY <1>5, <2>1 DEF InStep
<1> DEFINE G == {n \in 0..N : Ordered(f[n], set, n)}
<1>7. 0 \in G
  <2>1. set \cap 1..0 = {}
    OBVIOUS
  <2>2. f[0] = << >> /\ 0 \in 0..N
    BY <1>6
  <2>3. << >> \in Seq(1..0) /\ IsInjective(<< >>) /\ ToSet(<< >>) = {} /\ Len(<< >>) <= 0
    BY EmptyHas
  <2> QED BY <2>1, <2>2, <2>3 DEF Ordered
<1>8. ASSUME NEW n \in 1..N, n - 1 \in G PROVE n \in G
  <2>1. Ordered(f[n - 1], set, n - 1)
    BY <1>8
  <2>2. PICK s : s = f[n - 1]
    OBVIOUS
  <2>3. s \in Seq(1..n) /\ IsInjective(s) /\ ToSet(s) = set \cap 1..(n - 1) /\ Len(s) <= n - 1 /\ Len(s) \in Nat
    <3>1. s \in Seq(1..(n - 1)) /\ 1..(n - 1) \subseteq 1..n
      BY <2>1, <2>2 DEF Ordered
    <3>2. s \in Seq(1..n)
      BY <3>1, SeqMonotonic
    <3> QED BY <2>1, <2>2, <3>2, LenProperties DEF Ordered
  <2>4. 1..n = 1..(n - 1) \cup {n} /\ n \notin 1..(n - 1) /\ n \in 1..n
    OBVIOUS
  <2>5. CASE n \in set
    <3>1. f[n] = Append(s, n)
      BY <1>6, <2>2, <2>5
    <3>2. n \notin ToSet(s)
      BY <2>3, <2>4
    <3>3. Append(s, n) \in Seq(1..n) /\ IsInjective(Append(s, n)) /\ ToSet(Append(s, n)) = ToSet(s) \cup {n}
      BY <2>3, <2>4, <3>2, AppendOnce
    <3>4. Len(Append(s, n)) = Len(s) + 1
      BY <2>3
    <3>5. Len(Append(s, n)) <= n
      BY <2>3, <3>4
    <3>6. ToSet(s) \cup {n} = set \cap 1..n
      BY <2>3, <2>4, <2>5
    <3>7. Ordered(Append(s, n), set, n)
      BY <3>3, <3>5, <3>6 DEF Ordered
    <3>8. Ordered(f[n], set, n)
      BY <3>1, <3>7, Zenon
    <3>9. n \in 0..N
      OBVIOUS
    <3> QED BY <3>8, <3>9
  <2>6. CASE n \notin set
    <3>1. f[n] = s
      BY <1>6, <2>2, <2>6
    <3>2. set \cap 1..(n - 1) = set \cap 1..n
      BY <2>4, <2>6
    <3>3. Len(s) <= n
      BY <2>3
    <3> QED BY <2>3, <3>1, <3>2, <3>3 DEF Ordered
  <2> QED BY <2>5, <2>6
<1> HIDE DEF G
<1>9. \A n \in 0..N : n \in G
  BY <1>7, <1>8, AllPlaces
<1>10. N \in 0..N
  OBVIOUS
<1> QED BY <1>1, <1>5, <1>9, <1>10 DEF G

-----------------------------------------------------------------------------
(* Trees: each index has one parent at most *)

Forest(parent, N) ==
  N \in Nat /\ parent \in [1..N -> SUBSET (1..N)] /\ \A i \in 1..N : AtMostOne(parent[i])

(* What is at or above an index, and at or below it. *)
Up(parent, i) == Closure(parent, {i})
Kids(parent) == [j \in DOMAIN parent |-> Children(parent, j)]
Under(parent, i) == Closure(Kids(parent), {i})

(* What a forest is, index by index.                                       *)
LEMMA ForestIs ==
  ASSUME NEW N, NEW parent, Forest(parent, N)
  PROVE  /\ N \in Nat /\ Len(parent) = N /\ DOMAIN parent = 1..N
         /\ \A i \in 1..N : parent[i] \subseteq 1..N /\ AtMostOne(parent[i])
         /\ Links(parent, N) /\ Links(Kids(parent), N)
         /\ \A i \in 1..N : Kids(parent)[i] = Children(parent, i)
         /\ \A i \in 1..N : Children(parent, i) = {j \in 1..N : j # i /\ i \in parent[j]}
<1>1. Links(parent, N)
  BY DEF Forest, Links
<1>2. N \in Nat /\ Len(parent) = N /\ DOMAIN parent = 1..N /\ \A i \in 1..N : parent[i] \subseteq 1..N
  BY <1>1, LinksLen
<1>3. \A i \in 1..N : Children(parent, i) = {j \in 1..N : j # i /\ i \in parent[j]}
  BY <1>2 DEF Children
<1>4. Kids(parent) = [j \in 1..N |-> Children(parent, j)]
  BY <1>2 DEF Kids
<1>5. Links(Kids(parent), N)
  <2>1. \A i \in 1..N : Children(parent, i) \subseteq 1..N
    BY <1>3
  <2> QED BY <1>2, <1>4, <2>1 DEF Links
<1> QED BY <1>1, <1>2, <1>3, <1>4, <1>5 DEF Forest

(* What is above an index is the least set that holds it and every parent. *)
LEMMA UpIs ==
  ASSUME NEW N, NEW parent, Forest(parent, N), NEW i \in 1..N
  PROVE  /\ Up(parent, i) \subseteq 1..N /\ i \in Up(parent, i)
         /\ \A x \in Up(parent, i) : parent[x] \subseteq Up(parent, i)
         /\ \A P : i \in P /\ (\A x \in P : x \in 1..N => parent[x] \subseteq P) => Up(parent, i) \subseteq P
<1>1. Links(parent, N) /\ DOMAIN parent = 1..N
  BY ForestIs
<1>2. {i} \in SUBSET (1..N)
  OBVIOUS
<1>3. /\ Closure(parent, {i}) \in SUBSET (1..N)
      /\ {i} \subseteq Closure(parent, {i})
      /\ Kept(parent, Closure(parent, {i}))
      /\ \A P : {i} \subseteq P /\ Kept(parent, P) => Closure(parent, {i}) \subseteq P
  BY <1>1, <1>2, ClosureIs
<1>4. \A P : i \in P /\ (\A x \in P : x \in 1..N => parent[x] \subseteq P) => {i} \subseteq P /\ Kept(parent, P)
  BY <1>1 DEF Kept
<1> QED BY <1>1, <1>3, <1>4 DEF Up, Kept

(* What is under an index is the least set that holds it and every child.  *)
LEMMA UnderIs ==
  ASSUME NEW N, NEW parent, Forest(parent, N), NEW i \in 1..N
  PROVE  /\ Under(parent, i) \subseteq 1..N /\ i \in Under(parent, i)
         /\ \A x \in Under(parent, i) : Children(parent, x) \subseteq Under(parent, i)
         /\ \A P : i \in P /\ (\A x \in P : x \in 1..N => Children(parent, x) \subseteq P)
                   => Under(parent, i) \subseteq P
<1> DEFINE kids == Kids(parent)
<1>1. Links(kids, N) /\ DOMAIN kids = 1..N /\ \A x \in 1..N : kids[x] = Children(parent, x)
  BY ForestIs, LinksLen
<1>2. {i} \in SUBSET (1..N)
  OBVIOUS
<1> HIDE DEF kids
<1>3. /\ Closure(kids, {i}) \in SUBSET (1..N)
      /\ {i} \subseteq Closure(kids, {i})
      /\ Kept(kids, Closure(kids, {i}))
      /\ \A P : {i} \subseteq P /\ Kept(kids, P) => Closure(kids, {i}) \subseteq P
  BY <1>1, <1>2, ClosureIs
<1>4. \A P : i \in P /\ (\A x \in P : x \in 1..N => Children(parent, x) \subseteq P) => {i} \subseteq P /\ Kept(kids, P)
  BY <1>1 DEF Kept
<1>5. Under(parent, i) = Closure(kids, {i})
  BY DEF Under, kids
<1>6. \A x \in Closure(kids, {i}) : Children(parent, x) \subseteq Closure(kids, {i})
  BY <1>1, <1>3 DEF Kept
<1> QED BY <1>3, <1>4, <1>5, <1>6

(* Going up is going down from the other end. *)
LEMMA UpUnder ==
  ASSUME NEW N, NEW parent, Forest(parent, N), NEW i \in 1..N, NEW j \in 1..N
  PROVE  j \in Under(parent, i) <=> i \in Up(parent, j)
<1>0. /\ \A x \in 1..N : parent[x] \subseteq 1..N
      /\ \A x \in 1..N : Children(parent, x) = {y \in 1..N : y # x /\ x \in parent[y]}
  BY ForestIs
<1>1. ASSUME j \in Under(parent, i) PROVE i \in Up(parent, j)
  <2> DEFINE P == {x \in 1..N : i \in Up(parent, x)}
  <2>1. i \in P
    BY UpIs
  <2>2. ASSUME NEW x \in P, NEW y \in Children(parent, x) PROVE y \in P
    <3>1. y \in 1..N /\ x \in parent[y]
      BY <1>0, <2>2
    <3>2. y \in Up(parent, y) /\ parent[y] \subseteq Up(parent, y) /\ \A z \in Up(parent, y) : parent[z] \subseteq Up(parent, y)
      BY <3>1, UpIs
    <3>3. Up(parent, x) \subseteq Up(parent, y)
      BY <3>1, <3>2, UpIs
    <3> QED BY <3>1, <3>3
  <2>3. Under(parent, i) \subseteq P
    <3> HIDE DEF P
    <3> QED BY <2>1, <2>2, UnderIs
  <2> QED BY <1>1, <2>3
<1>2. ASSUME i \in Up(parent, j) PROVE j \in Under(parent, i)
  <2> DEFINE P == {x \in 1..N : j \in Under(parent, x)}
  <2>1. j \in P
    BY UnderIs
  <2>2. ASSUME NEW x \in P, NEW y \in parent[x] PROVE y \in P
    <3>1. y \in 1..N /\ (x = y \/ x \in Children(parent, y))
      BY <1>0
    <3>2. CASE x = y
      BY <3>2
    <3>3. CASE x \in Children(parent, y)
      <4>1. /\ y \in Under(parent, y)
            /\ \A z \in Under(parent, y) : Children(parent, z) \subseteq Under(parent, y)
        BY <3>1, UnderIs
      <4>2. Under(parent, x) \subseteq Under(parent, y)
        BY <3>3, <4>1, UnderIs
      <4> QED BY <3>1, <4>2
    <3> QED BY <3>1, <3>2, <3>3
  <2>3. Up(parent, j) \subseteq P
    <3> HIDE DEF P
    <3> QED BY <2>1, <2>2, UpIs
  <2> QED BY <1>2, <2>3
<1> QED BY <1>1, <1>2

(* A step up: what is above the parent is above. *)
LEMMA UpStep ==
  ASSUME NEW N, NEW parent, Forest(parent, N), NEW i \in 1..N, NEW p \in parent[i]
  PROVE  p \in 1..N /\ Up(parent, i) = {i} \cup Up(parent, p)
<1>1. p \in 1..N /\ \A x \in parent[i] : x = p
  BY ForestIs DEF AtMostOne
<1>2. p \in Up(parent, p) /\ \A x \in Up(parent, p) : parent[x] \subseteq Up(parent, p)
  BY <1>1, UpIs
<1>3. Up(parent, i) \subseteq {i} \cup Up(parent, p)
  <2> DEFINE P == {i} \cup Up(parent, p)
  <2>1. i \in P /\ \A x \in P : x \in 1..N => parent[x] \subseteq P
    BY <1>1, <1>2
  <2> HIDE DEF P
  <2>2. Up(parent, i) \subseteq P
    BY <2>1, UpIs
  <2> QED BY <2>2 DEF P
<1>4. i \in Up(parent, i) /\ \A x \in Up(parent, i) : parent[x] \subseteq Up(parent, i)
  BY UpIs
<1>5. Up(parent, p) \subseteq Up(parent, i)
  BY <1>1, <1>4, UpIs
<1> QED BY <1>1, <1>3, <1>4, <1>5

-----------------------------------------------------------------------------
(* The rows of Flux, one call after another *)

RowOf(N) == [idx : 1..N, hidden : SUBSET (1..N)]
AccOf(N) == [calls : Seq(1..N), seen : SUBSET (1..N), rows : Seq(RowOf(N))]
Put(rows) == UNION {rows[k].hidden : k \in DOMAIN rows}

(* No two rows are of the same index, or hide the same one, and what has a  *)
(* row is hidden by none.                                                  *)
ToldOnce(rows) ==
  \A k, l \in DOMAIN rows :
    /\ rows[k].idx = rows[l].idx => k = l
    /\ rows[k].idx \notin rows[l].hidden
    /\ rows[k].hidden \cap rows[l].hidden # {} => k = l

FoldsHide(parent, collapsed, rows) ==
  \A k \in DOMAIN rows : \A i \in rows[k].hidden :
    rows[k].idx \in collapsed /\ i \in Under(parent, rows[k].idx)

Drawing(parent, collapsed, N, acc) ==
  /\ acc \in AccOf(N)
  /\ acc.seen = Shown(acc.rows) \cup Put(acc.rows)
  /\ ToldOnce(acc.rows) /\ FoldsHide(parent, collapsed, acc.rows)
  /\ \A x \in acc.seen : Children(parent, x) \subseteq acc.seen \cup ToSet(acc.calls)

(* An index whose turn comes is a root, or the child of one that is shown   *)
(* and open.                                                               *)
Reasoned(parent, collapsed, rows, x) ==
  parent[x] \subseteq {x} \/ \E p \in parent[x] : p \in Shown(rows) /\ p \notin collapsed
Open(parent, collapsed, acc) ==
  \A x \in Shown(acc.rows) \cup ToSet(acc.calls) : Reasoned(parent, collapsed, acc.rows, x)

(* The calls that may still come. *)
Budget(N, acc) == (N + 1) * (N - Cardinality(acc.seen)) + Len(acc.calls)

(* What a fold marks is under it and new, and all that leads out of it is seen. *)
LEMMA MarkedIs ==
  ASSUME NEW N, NEW parent, Forest(parent, N), NEW i \in 1..N, NEW seen \in SUBSET (1..N),
         NEW under, under = MarkSubtree(parent, seen, i)
  PROVE  /\ under \subseteq 1..N /\ under \cap seen = {} /\ under \subseteq Under(parent, i)
         /\ Children(parent, i) \subseteq seen \cup under
         /\ \A x \in under : Children(parent, x) \subseteq seen \cup under
<1>1. /\ N \in Nat /\ DOMAIN parent = 1..N
      /\ \A x \in 1..N : Children(parent, x) = {j \in 1..N : j # x /\ x \in parent[j]}
  BY ForestIs
<1>2. PICK next : next = [j \in 1..N |-> Children(parent, j) \ seen]
  OBVIOUS
<1>3. PICK from : from = Children(parent, i) \ seen
  OBVIOUS
<1>4. Links(next, N) /\ from \in SUBSET (1..N) /\ DOMAIN next = 1..N
  <2>1. \A j \in 1..N : Children(parent, j) \ seen \in SUBSET (1..N)
    BY <1>1
  <2> QED BY <1>1, <1>2, <1>3, <2>1 DEF Links
<1>5. under = Closure(next, from)
  BY <1>1, <1>2, <1>3 DEF MarkSubtree
<1>7. /\ under \subseteq 1..N /\ from \subseteq under /\ Kept(next, under)
      /\ \A P : from \subseteq P /\ Kept(next, P) => under \subseteq P
  BY <1>4, <1>5, ClosureIs
<1>8. under \cap seen = {}
  <2>1. from \subseteq (1..N) \ seen
    BY <1>3, <1>4
  <2>2. Kept(next, (1..N) \ seen)
    BY <1>1, <1>2, <1>4 DEF Kept
  <2> QED BY <1>7, <2>1, <2>2
<1>9. under \subseteq Under(parent, i)
  <2>1. /\ i \in Under(parent, i) /\ Under(parent, i) \subseteq 1..N
        /\ \A x \in Under(parent, i) : Children(parent, x) \subseteq Under(parent, i)
    BY UnderIs
  <2>2. from \subseteq Under(parent, i) /\ Kept(next, Under(parent, i))
    BY <1>2, <1>3, <2>1 DEF Kept
  <2> QED BY <1>7, <2>2
<1>10. Children(parent, i) \subseteq seen \cup under
  BY <1>3, <1>7
<1>11. \A x \in under : Children(parent, x) \subseteq seen \cup under
  BY <1>2, <1>4, <1>7 DEF Kept
<1> QED BY <1>7, <1>8, <1>9, <1>10, <1>11

(* One more row. *)
LEMMA RowAdded ==
  ASSUME NEW N, NEW rows \in Seq(RowOf(N)), NEW row \in RowOf(N)
  PROVE  /\ Append(rows, row) \in Seq(RowOf(N))
         /\ DOMAIN Append(rows, row) = DOMAIN rows \cup {Len(rows) + 1} /\ Len(rows) + 1 \notin DOMAIN rows
         /\ \A k \in DOMAIN rows : Append(rows, row)[k] = rows[k]
         /\ Append(rows, row)[Len(rows) + 1] = row
         /\ Shown(Append(rows, row)) = Shown(rows) \cup {row.idx}
         /\ Put(Append(rows, row)) = Put(rows) \cup row.hidden
<1> DEFINE all == Append(rows, row)
           last == Len(rows) + 1
<1>1. /\ all \in Seq(RowOf(N)) /\ Len(all) = Len(rows) + 1 /\ all[Len(rows) + 1] = row
      /\ \A k \in 1..Len(rows) : all[k] = rows[k]
  BY AppendProperties
<1> HIDE DEF all
<1>2. Len(rows) \in Nat /\ DOMAIN rows = 1..Len(rows) /\ DOMAIN all = 1..(Len(rows) + 1)
  BY <1>1, LenProperties
<1>3. DOMAIN all = DOMAIN rows \cup {last} /\ last \notin DOMAIN rows
  BY <1>2
<1>4. (\A k \in DOMAIN rows : all[k] = rows[k]) /\ all[last] = row
  BY <1>1, <1>2
<1> HIDE DEF last
<1>5. Shown(all) = Shown(rows) \cup {row.idx}
  BY <1>3, <1>4 DEF Shown
<1>6. Put(all) = Put(rows) \cup row.hidden
  <2>1. \A x : x \in Put(all) <=> \E k \in DOMAIN all : x \in all[k].hidden
    BY DEF Put
  <2>2. \A x : x \in Put(rows) <=> \E k \in DOMAIN rows : x \in rows[k].hidden
    BY DEF Put
  <2>3. \A x : x \in Put(all) <=> x \in Put(rows) \/ x \in row.hidden
    BY <1>3, <1>4, <2>1, <2>2
  <2> QED BY <2>3
<1> QED BY <1>1, <1>3, <1>4, <1>5, <1>6 DEF all, last

(* A row for what was not seen yet leaves each index told of once.         *)
LEMMA OnceMore ==
  ASSUME NEW N, NEW rows \in Seq(RowOf(N)), NEW row \in RowOf(N), ToldOnce(rows),
         row.idx \notin Shown(rows) \cup Put(rows), row.idx \notin row.hidden,
         row.hidden \cap (Shown(rows) \cup Put(rows)) = {}
  PROVE  ToldOnce(Append(rows, row))
<1>1. PICK all, last : all = Append(rows, row) /\ last = Len(rows) + 1
  OBVIOUS
<1>2. /\ DOMAIN all = DOMAIN rows \cup {last} /\ last \notin DOMAIN rows
      /\ (\A k \in DOMAIN rows : all[k] = rows[k]) /\ all[last] = row
  BY <1>1, RowAdded
<1>3. \A k \in DOMAIN rows : /\ rows[k].idx \in Shown(rows)
                             /\ \A x \in rows[k].hidden : x \in Put(rows)
  BY DEF Shown, Put
<1>4. \A k \in DOMAIN rows : /\ rows[k].idx # row.idx /\ rows[k].idx \notin row.hidden
                             /\ row.idx \notin rows[k].hidden /\ rows[k].hidden \cap row.hidden = {}
  BY <1>3
<1>5. ToldOnce(all)
  BY <1>2, <1>4 DEF ToldOnce
<1> QED BY <1>1, <1>5

(* What a drawing that goes on is made of.                                 *)
LEMMA AccIs ==
  ASSUME NEW N, NEW acc \in AccOf(N)
  PROVE  /\ acc.calls \in Seq(1..N) /\ acc.seen \in SUBSET (1..N) /\ acc.rows \in Seq(RowOf(N))
BY DEF AccOf

(* The rows of a folded index, and of one that is open or has no children. *)
Under2(parent, collapsed, acc, i) ==
  IF i \in collapsed /\ Children(parent, i) # {} THEN MarkSubtree(parent, acc.seen \cup {i}, i) ELSE {}
Calls2(parent, collapsed, acc, i) ==
  IF i \in collapsed /\ Children(parent, i) # {} THEN Tail(acc.calls)
  ELSE InOrder(Children(parent, i), Len(parent)) \o Tail(acc.calls)

(* What a call on a new index adds.                                        *)
LEMMA NewRow ==
  ASSUME NEW N, NEW parent, Forest(parent, N), NEW collapsed, NEW acc \in AccOf(N),
         acc.calls # << >>, NEW i, i = Head(acc.calls), i \notin acc.seen
  PROVE  PushSubtree(parent, collapsed, acc) =
           [calls |-> Calls2(parent, collapsed, acc, i),
            seen  |-> acc.seen \cup {i} \cup Under2(parent, collapsed, acc, i),
            rows  |-> Append(acc.rows, [idx |-> i, hidden |-> Under2(parent, collapsed, acc, i)])]
BY DEF PushSubtree, Calls2, Under2

TurnOf(parent, collapsed, N, acc, i, under, calls) ==
  /\ i \in 1..N /\ under \in SUBSET (1..N) /\ under \cap (acc.seen \cup {i}) = {}
  /\ under # {} => i \in collapsed
  /\ under \subseteq Under(parent, i)
  /\ \A x \in under : Children(parent, x) \subseteq acc.seen \cup {i} \cup under
  /\ calls \in Seq(1..N) /\ Len(calls) + 1 <= Len(acc.calls) + N
  /\ ToSet(acc.calls) \subseteq {i} \cup ToSet(calls)
  /\ ToSet(calls) \subseteq ToSet(acc.calls) \cup (IF i \in collapsed THEN {} ELSE Children(parent, i))
  /\ Children(parent, i) \subseteq acc.seen \cup {i} \cup under \cup ToSet(calls)

(* The calls and the marks that a new row brings.                          *)
LEMMA NewRowIs ==
  ASSUME NEW N, NEW parent, Forest(parent, N), NEW collapsed, NEW acc \in AccOf(N),
         acc.calls # << >>, NEW i, i = Head(acc.calls)
  PROVE  TurnOf(parent, collapsed, N, acc, i,
                Under2(parent, collapsed, acc, i), Calls2(parent, collapsed, acc, i))
<1>1. /\ N \in Nat /\ DOMAIN parent = 1..N /\ Len(parent) = N
      /\ \A x \in 1..N : Children(parent, x) = {j \in 1..N : j # x /\ x \in parent[j]}
  BY ForestIs
<1>2. /\ acc.calls \in Seq(1..N) /\ acc.seen \in SUBSET (1..N)
  BY AccIs
<1>3. /\ i \in 1..N /\ Tail(acc.calls) \in Seq(1..N) /\ Len(acc.calls) = Len(Tail(acc.calls)) + 1
      /\ ToSet(acc.calls) = {i} \cup ToSet(Tail(acc.calls)) /\ Len(Tail(acc.calls)) \in Nat
  BY <1>2, HeadRest, LenProperties
<1>4. PICK rest : rest = Tail(acc.calls)
  OBVIOUS
<1>5. PICK under, calls : /\ under = Under2(parent, collapsed, acc, i)
                          /\ calls = Calls2(parent, collapsed, acc, i)
  OBVIOUS
<1> SUFFICES TurnOf(parent, collapsed, N, acc, i, under, calls)
  BY <1>5
<1>6. CASE i \in collapsed /\ Children(parent, i) # {}
  <2>1. under = MarkSubtree(parent, acc.seen \cup {i}, i) /\ calls = rest
    BY <1>4, <1>5, <1>6 DEF Under2, Calls2
  <2>2. acc.seen \cup {i} \in SUBSET (1..N)
    BY <1>2, <1>3
  <2>3. PICK seen \in SUBSET (1..N) : seen = acc.seen \cup {i}
    BY <2>2
  <2>6. under = MarkSubtree(parent, seen, i)
    BY <2>1, <2>3
  <2>5. /\ under \subseteq 1..N /\ under \cap seen = {} /\ under \subseteq Under(parent, i)
        /\ Children(parent, i) \subseteq seen \cup under
        /\ \A x \in under : Children(parent, x) \subseteq seen \cup under
    BY <1>3, <2>6, MarkedIs
  <2>4. calls \in Seq(1..N) /\ Len(calls) + 1 <= Len(acc.calls) + N
        /\ ToSet(acc.calls) = {i} \cup ToSet(calls)
    BY <1>1, <1>3, <1>4, <2>1
  <2> QED BY <1>3, <1>6, <2>3, <2>4, <2>5 DEF TurnOf
<1>7. CASE ~(i \in collapsed /\ Children(parent, i) # {})
  <2>1. PICK kids : kids = InOrder(Children(parent, i), N)
    OBVIOUS
  <2>2. under = {} /\ calls = kids \o rest
    BY <1>1, <1>4, <1>5, <1>7, <2>1 DEF Under2, Calls2
  <2>3. kids \in Seq(1..N) /\ Len(kids) <= N /\ ToSet(kids) = Children(parent, i) \cap 1..N /\ Len(kids) \in Nat
    BY <1>1, <2>1, InOrderIs, LenProperties DEF Ordered
  <2>4. calls \in Seq(1..N) /\ Len(calls) = Len(kids) + Len(rest) /\ ToSet(calls) = ToSet(kids) \cup ToSet(rest)
    BY <1>3, <1>4, <2>2, <2>3, ConcatHas
  <2>5. Len(calls) + 1 <= Len(acc.calls) + N
    BY <1>1, <1>3, <1>4, <2>3, <2>4
  <2>6. ToSet(kids) = Children(parent, i)
    BY <1>1, <1>3, <2>3
  <2>7. Children(parent, i) = {} \/ i \notin collapsed
    BY <1>7
  <2> QED BY <1>3, <1>4, <2>2, <2>4, <2>5, <2>6, <2>7 DEF TurnOf
<1> QED BY <1>6, <1>7

(* What a new index brings is made up for by its being new. *)
LEMMA LessToCome ==
  ASSUME NEW N \in Nat, NEW b \in Nat, NEW c \in Nat, NEW n \in Nat, NEW m \in Nat,
         b + 1 <= c, c <= N, m + 1 <= n + N
  PROVE  (N + 1) * (N - c) + m + 1 <= (N + 1) * (N - b) + n
<1>1. PICK d \in Nat : N - b = (N - c) + d + 1
  <2>1. c - b - 1 \in Nat /\ N - b = (N - c) + (c - b - 1) + 1
    OBVIOUS
  <2> QED BY <2>1
<1>2. PICK e \in Nat : e = N - c
  OBVIOUS
<1>3. (N + 1) * (e + d + 1) = (N + 1) * e + (N + 1) * d + (N + 1)
  OBVIOUS
<1>4. (N + 1) * e \in Nat /\ (N + 1) * d \in Nat
  OBVIOUS
<1> QED BY <1>1, <1>2, <1>3, <1>4

(* A call keeps the rows as they should be, forgets no index, and shortens *)
(* what is to come.                                                        *)
Follows(parent, collapsed, N, acc, next) ==
  /\ Drawing(parent, collapsed, N, next)
  /\ acc.seen \subseteq next.seen
  /\ acc.seen \cup ToSet(acc.calls) \subseteq next.seen \cup ToSet(next.calls)
  /\ Shown(acc.rows) \subseteq Shown(next.rows)
  /\ Shown(next.rows) \cap acc.seen \subseteq Shown(acc.rows)
  /\ Open(parent, collapsed, acc) => Open(parent, collapsed, next)

(* A call on what was seen already only takes itself off the stack.        *)
LEMMA PushSeen ==
  ASSUME NEW N, NEW parent, Forest(parent, N), NEW collapsed, NEW acc, Drawing(parent, collapsed, N, acc),
         acc.calls # << >>, Head(acc.calls) \in acc.seen
  PROVE  /\ Follows(parent, collapsed, N, acc, PushSubtree(parent, collapsed, acc))
         /\ Budget(N, PushSubtree(parent, collapsed, acc)) + 1 = Budget(N, acc)
<1>1. acc \in AccOf(N) /\ acc.calls \in Seq(1..N) /\ acc.seen \in SUBSET (1..N)
  BY AccIs DEF Drawing
<1>2. /\ Tail(acc.calls) \in Seq(1..N) /\ Len(acc.calls) = Len(Tail(acc.calls)) + 1
      /\ ToSet(acc.calls) = {Head(acc.calls)} \cup ToSet(Tail(acc.calls)) /\ Len(Tail(acc.calls)) \in Nat
  BY <1>1, HeadRest, LenProperties
<1>3. PICK next : next = [acc EXCEPT !.calls = Tail(acc.calls)]
  OBVIOUS
<1>4. next = PushSubtree(parent, collapsed, acc)
  BY <1>3 DEF PushSubtree
<1>5. next \in AccOf(N) /\ next.calls = Tail(acc.calls) /\ next.seen = acc.seen /\ next.rows = acc.rows
  <2>1. PICK rest \in Seq(1..N) : rest = Tail(acc.calls)
    BY <1>2
  <2>2. next = [acc EXCEPT !.calls = rest]
    BY <1>3, <2>1
  <2>3. next \in AccOf(N) /\ next.calls = rest /\ next.seen = acc.seen /\ next.rows = acc.rows
    BY <1>1, <2>2 DEF AccOf
  <2> QED BY <2>1, <2>3
<1>6. acc.seen \cup ToSet(acc.calls) = next.seen \cup ToSet(next.calls)
  BY <1>2, <1>5
<1>7. Drawing(parent, collapsed, N, next)
  BY <1>5, <1>6 DEF Drawing
<1>8. Open(parent, collapsed, acc) => Open(parent, collapsed, next)
  BY <1>2, <1>5 DEF Open
<1>9. Budget(N, next) + 1 = Budget(N, acc)
  <2>1. N \in Nat
    BY ForestIs
  <2>2. Cardinality(acc.seen) \in Nat
    <3>1. IsFiniteSet(1..N)
      BY <2>1, FS_Interval
    <3> QED BY <1>1, <3>1, FS_Subset, FS_CardinalityType
  <2>3. PICK b : b = (N + 1) * (N - Cardinality(acc.seen)) /\ b \in Int
    BY <2>1, <2>2
  <2>4. Budget(N, acc) = b + Len(acc.calls) /\ Budget(N, next) = b + Len(Tail(acc.calls))
    BY <1>5, <2>3 DEF Budget
  <2> QED BY <1>2, <2>3, <2>4
<1> QED BY <1>4, <1>5, <1>6, <1>7, <1>8, <1>9 DEF Follows

(* A call on what is new keeps the drawing, with fewer calls to come.      *)
LEMMA PushNew ==
  ASSUME NEW N, NEW parent, Forest(parent, N), NEW collapsed, NEW acc, Drawing(parent, collapsed, N, acc),
         acc.calls # << >>, Head(acc.calls) \notin acc.seen
  PROVE  /\ Follows(parent, collapsed, N, acc, PushSubtree(parent, collapsed, acc))
         /\ Budget(N, PushSubtree(parent, collapsed, acc)) + 1 <= Budget(N, acc)
<1>1. acc \in AccOf(N) /\ acc.calls \in Seq(1..N) /\ acc.seen \in SUBSET (1..N) /\ acc.rows \in Seq(RowOf(N))
  BY AccIs DEF Drawing
<1>2. PICK i : i = Head(acc.calls)
  OBVIOUS
<1>3. PICK under, calls : under = Under2(parent, collapsed, acc, i) /\ calls = Calls2(parent, collapsed, acc, i)
  OBVIOUS
<1>4. /\ i \in 1..N /\ under \in SUBSET (1..N) /\ under \cap (acc.seen \cup {i}) = {}
      /\ under # {} => i \in collapsed
      /\ under \subseteq Under(parent, i)
      /\ \A x \in under : Children(parent, x) \subseteq acc.seen \cup {i} \cup under
      /\ calls \in Seq(1..N) /\ Len(calls) + 1 <= Len(acc.calls) + N
      /\ ToSet(acc.calls) \subseteq {i} \cup ToSet(calls)
      /\ ToSet(calls) \subseteq ToSet(acc.calls) \cup (IF i \in collapsed THEN {} ELSE Children(parent, i))
      /\ Children(parent, i) \subseteq acc.seen \cup {i} \cup under \cup ToSet(calls)
  <2>1. TurnOf(parent, collapsed, N, acc, i, under, calls)
    BY <1>1, <1>2, <1>3, NewRowIs
  <2> QED BY <2>1 DEF TurnOf
<1>5. PICK row : row = [idx |-> i, hidden |-> under]
  OBVIOUS
<1>6. row \in RowOf(N) /\ row.idx = i /\ row.hidden = under
  BY <1>4, <1>5 DEF RowOf
<1>7. PICK next : next = PushSubtree(parent, collapsed, acc)
  OBVIOUS
<1>8. next = [calls |-> calls, seen |-> acc.seen \cup {i} \cup under, rows |-> Append(acc.rows, row)]
  BY <1>1, <1>2, <1>3, <1>5, <1>7, NewRow
<1>9. PICK rows : rows = Append(acc.rows, row)
  OBVIOUS
<1>10. /\ rows \in Seq(RowOf(N))
       /\ DOMAIN rows = DOMAIN acc.rows \cup {Len(acc.rows) + 1}
       /\ \A k \in DOMAIN acc.rows : rows[k] = acc.rows[k]
       /\ rows[Len(acc.rows) + 1] = row
       /\ Shown(rows) = Shown(acc.rows) \cup {i}
       /\ Put(rows) = Put(acc.rows) \cup under
  BY <1>1, <1>6, <1>9, RowAdded
<1>11. /\ next \in AccOf(N) /\ next.calls = calls /\ next.rows = rows
       /\ next.seen = acc.seen \cup {i} \cup under
  <2>1. acc.seen \cup {i} \cup under \in SUBSET (1..N)
    BY <1>1, <1>4
  <2> QED BY <1>4, <1>8, <1>9, <1>10, <2>1 DEF AccOf
<1>12. acc.seen = Shown(acc.rows) \cup Put(acc.rows) /\ ToldOnce(acc.rows) /\ FoldsHide(parent, collapsed, acc.rows)
  BY DEF Drawing
<1>13. next.seen = Shown(next.rows) \cup Put(next.rows)
  BY <1>10, <1>11, <1>12
<1>14. ToldOnce(rows)
  BY <1>1, <1>2, <1>4, <1>6, <1>9, <1>12, OnceMore
<1>15. FoldsHide(parent, collapsed, rows)
  <2>1. \A k \in DOMAIN rows : k \in DOMAIN acc.rows \/ rows[k] = row
    BY <1>10
  <2> QED BY <1>4, <1>6, <1>10, <1>12, <2>1 DEF FoldsHide
<1>16. \A x \in next.seen : Children(parent, x) \subseteq next.seen \cup ToSet(next.calls)
  <2>1. \A x \in acc.seen : Children(parent, x) \subseteq acc.seen \cup ToSet(acc.calls)
    BY DEF Drawing
  <2> QED BY <1>4, <1>11, <2>1
<1>17. Drawing(parent, collapsed, N, next)
  BY <1>11, <1>13, <1>14, <1>15, <1>16 DEF Drawing
<1>18. /\ acc.seen \subseteq next.seen
       /\ acc.seen \cup ToSet(acc.calls) \subseteq next.seen \cup ToSet(next.calls)
       /\ Shown(acc.rows) \subseteq Shown(next.rows)
       /\ Shown(next.rows) \cap acc.seen \subseteq Shown(acc.rows)
  BY <1>2, <1>4, <1>10, <1>11
<1>19. ASSUME Open(parent, collapsed, acc) PROVE Open(parent, collapsed, next)
  <2>0. \A x \in 1..N : Children(parent, x) = {j \in 1..N : j # x /\ x \in parent[j]}
    BY ForestIs
  <2>1. \A x : Reasoned(parent, collapsed, acc.rows, x) => Reasoned(parent, collapsed, next.rows, x)
    BY <1>18 DEF Reasoned
  <2>2. \A x \in Shown(acc.rows) \cup ToSet(acc.calls) : Reasoned(parent, collapsed, next.rows, x)
    BY <1>19, <2>1 DEF Open
  <2>3. i \in ToSet(acc.calls)
    BY <1>1, <1>2, HeadRest
  <2>4. ASSUME NEW x \in Children(parent, i), i \notin collapsed PROVE Reasoned(parent, collapsed, next.rows, x)
    <3>1. i \in parent[x] /\ i \in Shown(next.rows)
      BY <1>4, <1>10, <1>11, <2>0
    <3> QED BY <2>4, <3>1 DEF Reasoned
  <2>5. ASSUME NEW x \in Shown(next.rows) \cup ToSet(next.calls) PROVE Reasoned(parent, collapsed, next.rows, x)
    <3>1. x \in Shown(acc.rows) \cup ToSet(acc.calls) \/ (x \in Children(parent, i) /\ i \notin collapsed)
      BY <1>4, <1>10, <1>11, <2>3
    <3> QED BY <2>2, <2>4, <3>1
  <2> QED BY <2>5 DEF Open
<1>20. Budget(N, next) + 1 <= Budget(N, acc)
  <2>1. N \in Nat
    BY ForestIs
  <2>2. IsFiniteSet(1..N) /\ Cardinality(1..N) = N
    <3>1. IsFiniteSet(1..N) /\ Cardinality(1..N) = IF 1 > N THEN 0 ELSE N - 1 + 1
      BY <2>1, FS_Interval
    <3> QED BY <2>1, <3>1
  <2>3. next.seen \in SUBSET (1..N)
    BY <1>1, <1>4, <1>11
  <2>4. /\ IsFiniteSet(next.seen) /\ Cardinality(next.seen) \in Nat /\ Cardinality(next.seen) <= N
        /\ IsFiniteSet(acc.seen) /\ Cardinality(acc.seen) \in Nat
    BY <1>1, <2>2, <2>3, FS_Subset, FS_CardinalityType
  <2>5. Cardinality(acc.seen) + 1 <= Cardinality(next.seen)
    <3>1. acc.seen \in SUBSET next.seen /\ acc.seen # next.seen
      BY <1>2, <1>11
    <3>2. Cardinality(acc.seen) <= Cardinality(next.seen) /\ Cardinality(acc.seen) # Cardinality(next.seen)
      BY <2>4, <3>1, FS_Subset
    <3> QED BY <2>4, <3>2
  <2>6. PICK b, c \in Nat : b = Cardinality(acc.seen) /\ c = Cardinality(next.seen)
    BY <2>4
  <2>7. PICK n, m \in Nat : n = Len(acc.calls) /\ m = Len(calls)
    BY <1>1, <1>4, LenProperties
  <2>8. (N + 1) * (N - c) + m + 1 <= (N + 1) * (N - b) + n
    <3>1. m + 1 <= n + N /\ b + 1 <= c /\ c <= N
      BY <1>4, <2>4, <2>5, <2>6, <2>7
    <3> QED BY <2>1, <2>6, <2>7, <3>1, LessToCome
  <2> QED BY <1>11, <2>6, <2>7, <2>8 DEF Budget
<1> QED BY <1>7, <1>17, <1>18, <1>19, <1>20 DEF Follows

(* No call is left once the budget of the calls is spent.                  *)
LEMMA BudgetIs ==
  ASSUME NEW N, NEW parent, Forest(parent, N), NEW collapsed, NEW acc, Drawing(parent, collapsed, N, acc)
  PROVE  /\ Budget(N, acc) \in Int /\ Len(acc.calls) <= Budget(N, acc)
         /\ Len(acc.calls) <= N => Budget(N, acc) <= N * (N + 2)
<1>1. N \in Nat /\ acc.seen \in SUBSET (1..N) /\ Len(acc.calls) \in Nat
  BY ForestIs, AccIs, LenProperties DEF Drawing
<1>2. IsFiniteSet(1..N) /\ Cardinality(1..N) = N
  <2>1. IsFiniteSet(1..N) /\ Cardinality(1..N) = IF 1 > N THEN 0 ELSE N - 1 + 1
    BY <1>1, FS_Interval
  <2> QED BY <1>1, <2>1
<1>3. Cardinality(acc.seen) \in Nat /\ Cardinality(acc.seen) <= N
  BY <1>1, <1>2, FS_Subset, FS_CardinalityType
<1>4. PICK d \in Nat : N = d + Cardinality(acc.seen)
  <2>1. N - Cardinality(acc.seen) \in Nat /\ N = (N - Cardinality(acc.seen)) + Cardinality(acc.seen)
    BY <1>1, <1>3
  <2> QED BY <2>1
<1>5. PICK s \in Nat : s = Cardinality(acc.seen)
  BY <1>3
<1>6. PICK l \in Nat : l = Len(acc.calls)
  BY <1>1
<1>7. N - Cardinality(acc.seen) = d
  BY <1>1, <1>3, <1>4
<1>8. Budget(N, acc) = (N + 1) * d + l
  BY <1>6, <1>7 DEF Budget
<1>9. (N + 1) * d \in Nat
  BY <1>1
<1>10. (N + 1) * d <= (N + 1) * N
  <2>1. N = d + s
    BY <1>4, <1>5
  <2>2. (N + 1) * N = (N + 1) * d + (N + 1) * s /\ (N + 1) * s \in Nat
    BY <1>1, <2>1
  <2> QED BY <1>1, <1>9, <2>2
<1>11. N * (N + 2) = (N + 1) * N + N
  BY <1>1
<1> QED
  <2>1. PICK x, y \in Nat : x = (N + 1) * d /\ y = (N + 1) * N
    BY <1>1, <1>9
  <2>2. PICK z, b : z = N * (N + 2) /\ b = Budget(N, acc)
    OBVIOUS
  <2>3. b = x + l
    BY <1>8, <2>1, <2>2
  <2>4. z = y + N /\ x <= y
    BY <1>10, <1>11, <2>1, <2>2
  <2>5. b \in Int /\ l <= b /\ (l <= N => b <= z)
    BY <1>1, <2>3, <2>4
  <2> QED BY <1>6, <2>2, <2>5

(* One call, whatever it finds. *)
LEMMA PushOnce ==
  ASSUME NEW N, NEW parent, Forest(parent, N), NEW collapsed, NEW acc, Drawing(parent, collapsed, N, acc),
         NEW next, next = PushSubtree(parent, collapsed, acc)
  PROVE  /\ Follows(parent, collapsed, N, acc, next)
         /\ IF acc.calls = << >> THEN next = acc ELSE Budget(N, next) + 1 <= Budget(N, acc)
<1>1. CASE acc.calls = << >>
  <2>1. next = acc
    BY <1>1 DEF PushSubtree
  <2> QED BY <1>1, <2>1 DEF Follows
<1>2. CASE acc.calls # << >> /\ Head(acc.calls) \in acc.seen
  <2>1. Follows(parent, collapsed, N, acc, next) /\ Budget(N, next) + 1 = Budget(N, acc)
    BY <1>2, PushSeen
  <2>2. Budget(N, next) + 1 <= Budget(N, acc)
    <3>1. Drawing(parent, collapsed, N, acc) /\ acc \in AccOf(N)
      BY DEF Drawing
    <3>2. Budget(N, acc) \in Int
      BY <3>1, BudgetIs
    <3> QED BY <2>1, <3>2
  <2> QED BY <1>2, <2>1, <2>2
<1>3. CASE acc.calls # << >> /\ Head(acc.calls) \notin acc.seen
  BY <1>3, PushNew
<1> QED BY <1>1, <1>2, <1>3

(* What follows on what follows, follows.                                  *)
LEMMA FollowsOn ==
  ASSUME NEW N, NEW parent, NEW collapsed, NEW a, NEW b, NEW c,
         Follows(parent, collapsed, N, a, b), Follows(parent, collapsed, N, b, c)
  PROVE  Follows(parent, collapsed, N, a, c)
BY DEF Follows

TurnStep(parent, collapsed, N, start, n, f) ==
  IF n = 0 THEN start ELSE PushSubtree(parent, collapsed, f[n - 1])

(* The calls of `push_subtree` come to an end, and each one keeps what is   *)
(* drawn.                                                                  *)
LEMMA PushAllIs ==
  ASSUME NEW N, NEW parent, Forest(parent, N), NEW collapsed, NEW acc, NEW from \in SUBSET (1..N),
         NEW start, start = [acc EXCEPT !.calls = InOrder(from, N)], Drawing(parent, collapsed, N, start),
         NEW end, end = PushAll(parent, collapsed, acc, from)
  PROVE  Follows(parent, collapsed, N, start, end) /\ end.calls = << >>
<1>1. N \in Nat /\ Len(parent) = N
  BY ForestIs
<1>2. PICK M : M = N * (N + 2)
  OBVIOUS
<1>3. M \in Nat
  <2>1. \A a, b \in Nat : a * b \in Nat
    OBVIOUS
  <2>2. N \in Nat /\ N + 2 \in Nat
    BY <1>1
  <2> QED BY <1>2, <2>1, <2>2
<1> DEFINE Goeson(f) == f = [n \in 0..M |-> TurnStep(parent, collapsed, N, start, n, f)]
           S == {a \in AccOf(N) : Drawing(parent, collapsed, N, a)}
           op == [n \in 1..M |-> [a \in S |-> PushSubtree(parent, collapsed, a)]]
<1>4. end = (CHOOSE f : Goeson(f))[M]
  <2>1. end = LET turn[n \in 0..M] ==
                IF n = 0 THEN start
                ELSE PushSubtree(parent, collapsed, turn[n - 1])
              IN turn[M]
    BY <1>1, <1>2 DEF PushAll
  <2> QED BY <2>1 DEF TurnStep
<1>5. op \in [1..M -> [S -> S]]
  <2>1. ASSUME NEW a \in S PROVE PushSubtree(parent, collapsed, a) \in S
    <3>1. PICK b : b = PushSubtree(parent, collapsed, a)
      OBVIOUS
    <3>2. Follows(parent, collapsed, N, a, b)
      BY <3>1, PushOnce
    <3> QED BY <3>1, <3>2 DEF Follows, Drawing
  <2> HIDE DEF S
  <2> QED BY <2>1
<1>6. start \in S
  BY DEF Drawing
<1>7. PICK g : Goes(g, M, S, start, op)
  <2> HIDE DEF op, S
  <2> QED BY <1>3, <1>5, <1>6, StepsExist
<1>8. Goeson(g)
  <2> HIDE DEF S
  <2>1. g \in [0..M -> S] /\ g[0] = start /\ \A n \in 1..M : g[n] = op[n][g[n - 1]]
    BY <1>7 DEF Goes
  <2>2. \A n \in 1..M : g[n - 1] \in S
    <3>1. \A n \in 1..M : n - 1 \in 0..M
      BY <1>3
    <3> QED BY <2>1, <3>1
  <2>3. \A n \in 1..M : g[n] = TurnStep(parent, collapsed, N, start, n, g)
    BY <2>1, <2>2 DEF TurnStep
  <2>4. \A n \in 0..M : g[n] = TurnStep(parent, collapsed, N, start, n, g)
    <3>1. \A n \in 0..M : n = 0 \/ n \in 1..M
      BY <1>3
    <3>2. g[0] = TurnStep(parent, collapsed, N, start, 0, g)
      BY <2>1 DEF TurnStep
    <3> QED BY <2>3, <3>1, <3>2
  <2> QED BY <2>1, <2>4
<1>9. PICK f : f = (CHOOSE h : Goeson(h)) /\ Goeson(f)
  <2> HIDE DEF Goeson
  <2> QED BY <1>8
<1>10. f[0] = start /\ \A n \in 1..M : f[n] = PushSubtree(parent, collapsed, f[n - 1])
  <2>1. 0 \in 0..M /\ \A n \in 1..M : n \in 0..M /\ n # 0
    BY <1>3
  <2> QED BY <1>9, <2>1 DEF TurnStep
<1> DEFINE G == {n \in 0..M : /\ Follows(parent, collapsed, N, start, f[n])
                              /\ f[n].calls = << >> \/ Budget(N, f[n]) + n <= M}
<1>11. 0 \in G
  <2>1. Follows(parent, collapsed, N, start, start)
    BY DEF Follows
  <2>2. Budget(N, start) <= M
    <3>1. start.calls = InOrder(from, N)
      BY DEF Drawing, AccOf
    <3>2. Len(start.calls) <= N
      BY <1>1, <3>1, InOrderIs DEF Ordered
    <3> QED BY <1>2, <3>2, BudgetIs
  <2>3. Budget(N, start) + 0 <= M /\ 0 \in 0..M
    BY <1>3, <2>2, BudgetIs
  <2> QED BY <1>10, <2>1, <2>3
<1>12. ASSUME NEW n \in 1..M, n - 1 \in G PROVE n \in G
  <2>1. PICK a, b : a = f[n - 1] /\ b = f[n]
    OBVIOUS
  <2>2. /\ Follows(parent, collapsed, N, start, a)
        /\ a.calls = << >> \/ Budget(N, a) + (n - 1) <= M
    BY <1>12, <2>1
  <2>3. b = PushSubtree(parent, collapsed, a)
    BY <1>10, <2>1
  <2>4. Drawing(parent, collapsed, N, a)
    BY <2>2 DEF Follows
  <2>5. /\ Follows(parent, collapsed, N, a, b)
        /\ IF a.calls = << >> THEN b = a ELSE Budget(N, b) + 1 <= Budget(N, a)
    BY <2>3, <2>4, PushOnce
  <2>6. Follows(parent, collapsed, N, start, b)
    BY <2>2, <2>5, FollowsOn
  <2>7. Drawing(parent, collapsed, N, b)
    BY <2>5 DEF Follows
  <2>8. Budget(N, a) \in Int /\ Budget(N, b) \in Int
    BY <2>4, <2>7, BudgetIs
  <2>9. b.calls = << >> \/ Budget(N, b) + n <= M
    BY <1>3, <2>2, <2>5, <2>8
  <2>10. n \in 0..M
    BY <1>3
  <2> QED BY <2>1, <2>6, <2>9, <2>10
<1>13. M \in G
  <2> HIDE DEF G
  <2>1. \A n \in 0..M : n \in G
    BY <1>3, <1>11, <1>12, AllPlaces
  <2> QED BY <1>3, <2>1
<1>14. end = f[M]
  BY <1>4, <1>9
<1>15. Drawing(parent, collapsed, N, end)
  BY <1>13, <1>14 DEF Follows
<1>16. end.calls = << >> \/ Len(end.calls) <= 0
  <2>1. Budget(N, end) \in Int /\ Len(end.calls) <= Budget(N, end)
    BY <1>15, BudgetIs
  <2>2. end.calls = << >> \/ Budget(N, end) + M <= M
    BY <1>13, <1>14
  <2>3. Len(end.calls) \in Nat
    <3>1. end.calls \in Seq(1..N)
      BY <1>15, AccIs DEF Drawing
    <3> QED BY <3>1, LenProperties
  <2> QED BY <1>3, <2>1, <2>2, <2>3
<1>17. end.calls = << >>
  <2>1. end.calls \in Seq(1..N)
    BY <1>15, AccIs DEF Drawing
  <2> QED BY <1>16, <2>1, EmptySeq, LenProperties
<1> QED BY <1>13, <1>14, <1>17

-----------------------------------------------------------------------------
(* The tree of Flux, from roots to rescued cycles *)

RootsOf(parent) == {i \in DOMAIN parent : parent[i] \subseteq {i}}
Blank == [calls |-> << >>, seen |-> {}, rows |-> << >>]

(* What is drawn from the roots stays as it is when the cycles are rescued, *)
(* and then every index is told.                                           *)
Drawn(parent, collapsed, N, seen, first, rows) ==
  /\ rows \in Seq(RowOf(N)) /\ ToldOnce(rows) /\ FoldsHide(parent, collapsed, rows)
  /\ 1..N \subseteq Shown(rows) \cup Put(rows)
  /\ RootsOf(parent) \subseteq seen /\ \A x \in seen : Children(parent, x) \subseteq seen
  /\ Shown(rows) \cap seen \subseteq Shown(first)
  /\ \A x \in Shown(first) : Reasoned(parent, collapsed, first, x)

(* Nothing is drawn to begin with.                                         *)
LEMMA BlankIs ==
  ASSUME NEW N, NEW parent, Forest(parent, N), NEW collapsed, NEW from \in SUBSET (1..N),
         NEW start, start = [Blank EXCEPT !.calls = InOrder(from, N)]
  PROVE  /\ Drawing(parent, collapsed, N, start) /\ ToSet(start.calls) = from
         /\ start.rows = << >> /\ Shown(start.rows) = {}
<1>1. N \in Nat /\ InOrder(from, N) \in Seq(1..N) /\ ToSet(InOrder(from, N)) = from
  <2>1. N \in Nat
    BY ForestIs
  <2> QED BY <2>1, InOrderIs DEF Ordered
<1>2. PICK calls \in Seq(1..N) : calls = InOrder(from, N)
  BY <1>1
<1>3. start = [calls |-> calls, seen |-> {}, rows |-> << >>]
  BY <1>2 DEF Blank
<1>4. << >> \in Seq(RowOf(N)) /\ DOMAIN << >> = {}
  BY EmptySeq
<1>5. start \in AccOf(N) /\ start.calls = calls /\ start.seen = {} /\ start.rows = << >>
  <2>1. PICK none \in Seq(RowOf(N)) : none = << >>
    BY <1>4
  <2>2. PICK seen \in SUBSET (1..N) : seen = {}
    OBVIOUS
  <2>3. start = [calls |-> calls, seen |-> seen, rows |-> none]
    BY <1>3, <2>1, <2>2
  <2>4. start.calls = calls /\ start.seen = seen /\ start.rows = none
    BY <2>3
  <2>5. start \in AccOf(N)
    <3>1. calls \in Seq(1..N) /\ seen \in SUBSET (1..N) /\ none \in Seq(RowOf(N))
      BY <1>2, <2>1, <2>2
    <3> QED BY ONLY <2>3, <3>1 DEF AccOf
  <2> QED BY <2>1, <2>2, <2>4, <2>5
<1>6. Shown(<< >>) = {} /\ Put(<< >>) = {}
  BY <1>4 DEF Shown, Put
<1>7. ToldOnce(<< >>) /\ FoldsHide(parent, collapsed, << >>)
  BY <1>4 DEF ToldOnce, FoldsHide
<1> QED BY <1>1, <1>2, <1>5, <1>6, <1>7 DEF Drawing

(* The rows of a tree that is drawn to its end.                            *)
LEMMA RowsOfTree ==
  ASSUME NEW N, NEW parent, Forest(parent, N), NEW collapsed,
         NEW above, above = PushAll(parent, collapsed, Blank, RootsOf(parent)),
         NEW end, end = PushAll(parent, collapsed, above, DOMAIN parent)
  PROVE  Drawn(parent, collapsed, N, above.seen, above.rows, end.rows)
<1>1. N \in Nat /\ DOMAIN parent = 1..N /\ RootsOf(parent) \in SUBSET (1..N)
  BY ForestIs DEF RootsOf
<1>2. PICK from \in SUBSET (1..N) : from = RootsOf(parent)
  BY <1>1
<1>3. PICK start : start = [Blank EXCEPT !.calls = InOrder(from, N)]
  OBVIOUS
<1>4. /\ Drawing(parent, collapsed, N, start) /\ ToSet(start.calls) = from
      /\ start.rows = << >> /\ Shown(start.rows) = {}
  BY <1>3, BlankIs
<1>5. Follows(parent, collapsed, N, start, above) /\ above.calls = << >>
  BY <1>2, <1>3, <1>4, PushAllIs
<1>6. Drawing(parent, collapsed, N, above) /\ above \in AccOf(N)
  BY <1>5 DEF Follows, Drawing
<1>7. ToSet(<< >>) = {}
  BY EmptyHas
<1>8. from \subseteq above.seen
  BY <1>4, <1>5, <1>7 DEF Follows
<1>9. \A x \in above.seen : Children(parent, x) \subseteq above.seen
  BY <1>5, <1>6, <1>7 DEF Drawing
<1>10. Open(parent, collapsed, above)
  <2>1. \A x \in from : Reasoned(parent, collapsed, start.rows, x)
    BY <1>2 DEF RootsOf, Reasoned
  <2>2. Open(parent, collapsed, start)
    BY <1>4, <2>1 DEF Open
  <2> QED BY <1>5, <2>2 DEF Follows
<1>11. \A x \in Shown(above.rows) : Reasoned(parent, collapsed, above.rows, x)
  BY <1>10 DEF Open
<1>12. PICK again : again = [above EXCEPT !.calls = InOrder(1..N, N)]
  OBVIOUS
<1>13. InOrder(1..N, N) \in Seq(1..N) /\ ToSet(InOrder(1..N, N)) = 1..N
  BY <1>1, InOrderIs DEF Ordered
<1>14. PICK calls \in Seq(1..N) : calls = InOrder(1..N, N)
  BY <1>13
<1>15. /\ again \in AccOf(N) /\ again.calls = calls /\ again.seen = above.seen /\ again.rows = above.rows
  BY <1>6, <1>12, <1>14 DEF AccOf
<1>16. Drawing(parent, collapsed, N, again)
  BY <1>6, <1>9, <1>15 DEF Drawing
<1>17. Follows(parent, collapsed, N, again, end) /\ end.calls = << >>
  <2>1. 1..N \in SUBSET (1..N) /\ end = PushAll(parent, collapsed, above, 1..N)
    BY <1>1
  <2> QED BY <1>12, <1>16, <2>1, PushAllIs
<1>18. Drawing(parent, collapsed, N, end) /\ end.rows \in Seq(RowOf(N))
  BY <1>17, AccIs DEF Follows, Drawing
<1>19. 1..N \subseteq Shown(end.rows) \cup Put(end.rows)
  BY <1>7, <1>13, <1>14, <1>15, <1>17, <1>18 DEF Follows, Drawing
<1>20. Shown(end.rows) \cap above.seen \subseteq Shown(above.rows)
  BY <1>15, <1>17 DEF Follows
<1> QED BY <1>2, <1>8, <1>9, <1>11, <1>18, <1>19, <1>20 DEF Drawn, Drawing

(* The tree of any resources that refer to one another is drawn to its end. *)
LEMMA RowsDrawn ==
  ASSUME NEW N, NEW resources, NEW parent, parent = ResolveParents(resources), Forest(parent, N), NEW collapsed
  PROVE  \E seen, first : Drawn(parent, collapsed, N, seen, first, BuildFluxTree(resources, collapsed))
<1>1. PICK above : above = PushAll(parent, collapsed, Blank, RootsOf(parent))
  OBVIOUS
<1>2. PICK end : end = PushAll(parent, collapsed, above, DOMAIN parent)
  OBVIOUS
<1>3. BuildFluxTree(resources, collapsed) = end.rows
  BY <1>1, <1>2 DEF BuildFluxTree, RootsOf, Blank
<1>4. Drawn(parent, collapsed, N, above.seen, above.rows, end.rows)
  BY <1>1, <1>2, RowsOfTree
<1> QED BY <1>3, <1>4

(* One row tells of an index, or hides it. *)
LEMMA OneRow ==
  ASSUME NEW N, NEW rows \in Seq(RowOf(N)), ToldOnce(rows), NEW i \in Shown(rows) \cup Put(rows)
  PROVE  Cardinality({k \in DOMAIN rows : rows[k].idx = i})
           + Cardinality({k \in DOMAIN rows : i \in rows[k].hidden}) = 1
<1> DEFINE A == {k \in DOMAIN rows : rows[k].idx = i}
           B == {k \in DOMAIN rows : i \in rows[k].hidden}
<1>0. Cardinality({}) = 0 /\ \A k : Cardinality({k}) = 1
  BY FS_EmptySet, FS_Singleton
<1>1. CASE i \in Shown(rows)
  <2>1. PICK k \in DOMAIN rows : rows[k].idx = i
    BY <1>1 DEF Shown
  <2>2. A = {k} /\ B = {}
    BY <2>1 DEF ToldOnce
  <2> HIDE DEF A, B
  <2>3. Cardinality(A) = 1 /\ Cardinality(B) = 0
    BY <1>0, <2>2
  <2>4. Cardinality(A) + Cardinality(B) = 1
    BY <2>3
  <2> QED BY <2>4 DEF A, B
<1>2. CASE i \in Put(rows)
  <2>1. PICK k \in DOMAIN rows : i \in rows[k].hidden
    BY <1>2 DEF Put
  <2>2. A = {}
    BY <2>1 DEF ToldOnce
  <2>3. B = {k}
    <3>1. \A l \in DOMAIN rows : i \in rows[l].hidden => rows[l].hidden \cap rows[k].hidden # {}
      BY <2>1
    <3> QED BY <2>1, <3>1 DEF ToldOnce
  <2> HIDE DEF A, B
  <2>4. Cardinality(A) = 0 /\ Cardinality(B) = 1
    BY <1>0, <2>2, <2>3
  <2>5. Cardinality(A) + Cardinality(B) = 1
    BY <2>4
  <2> QED BY <2>5 DEF A, B
<1> QED BY <1>1, <1>2

-----------------------------------------------------------------------------
(* What is above an index, one step after another *)

RiseStep(i, k, f) == IF k = 0 THEN {i} ELSE UNION {ParentOf[j] : j \in f[k - 1]}

Rises(up, N, parent, i) ==
  /\ up \in [0..N -> SUBSET (1..N)] /\ up[0] = {i}
  /\ \A n \in 1..N : up[n] = UNION {parent[j] : j \in up[n - 1]}

(* The resources above another, step by step.                              *)
LEMMA AboveSteps ==
  ASSUME NEW N, NEW parent, Forest(parent, N), parent = ParentOf, NEW i \in 1..N
  PROVE  \E up : Rises(up, N, parent, i) /\ \A n \in 0..N : Above(i, n) = up[n]
<1>1. N \in Nat /\ \A j \in 1..N : parent[j] \subseteq 1..N
  BY ForestIs
<1> DEFINE op == [n \in 1..N |-> [A \in SUBSET (1..N) |-> UNION {parent[j] : j \in A}]]
<1>2. op \in [1..N -> [SUBSET (1..N) -> SUBSET (1..N)]]
  <2>1. ASSUME NEW A \in SUBSET (1..N) PROVE UNION {parent[j] : j \in A} \in SUBSET (1..N)
    BY <1>1
  <2> QED BY <2>1
<1>3. PICK up : Goes(up, N, SUBSET (1..N), {i}, op)
  <2> HIDE DEF op
  <2>1. {i} \in SUBSET (1..N)
    OBVIOUS
  <2> QED BY <1>1, <1>2, <2>1, StepsExist
<1>4. Rises(up, N, parent, i)
  <2>1. up \in [0..N -> SUBSET (1..N)] /\ up[0] = {i} /\ \A n \in 1..N : up[n] = op[n][up[n - 1]]
    BY <1>3 DEF Goes
  <2>2. \A n \in 1..N : n - 1 \in 0..N
    BY <1>1
  <2>3. \A n \in 1..N : up[n - 1] \in SUBSET (1..N)
    BY <2>1, <2>2
  <2>4. \A n \in 1..N : up[n] = UNION {parent[j] : j \in up[n - 1]}
    BY <2>1, <2>3
  <2> HIDE DEF op
  <2> QED BY <2>1, <2>4 DEF Rises
<1>5. ASSUME NEW n \in 0..N PROVE Above(i, n) = up[n]
  <2> DEFINE Goeson(f) == f = [k \in 0..n |-> RiseStep(i, k, f)]
  <2>1. Above(i, n) = (CHOOSE f : Goeson(f))[n]
    BY DEF Above, RiseStep
  <2> DEFINE g == [k \in 0..n |-> up[k]]
  <2>2. n \in Nat /\ n <= N /\ n \in 0..n
    BY <1>1
  <2>3. Goeson(g)
    <3>1. g[0] = RiseStep(i, 0, g)
      BY <1>4, <2>2 DEF RiseStep, Rises
    <3>2. ASSUME NEW k \in 1..n PROVE g[k] = RiseStep(i, k, g)
      <4>1. k \in 1..N /\ k \in 0..n /\ k - 1 \in 0..n /\ k # 0
        BY <1>1, <2>2
      <4>2. up[k] = UNION {parent[j] : j \in up[k - 1]}
        BY <1>4, <4>1 DEF Rises
      <4> QED BY <4>1, <4>2 DEF RiseStep
    <3>3. \A k \in 0..n : k = 0 \/ k \in 1..n
      BY <2>2
    <3>4. \A k \in 0..n : g[k] = RiseStep(i, k, g)
      BY <3>1, <3>2, <3>3
    <3> HIDE DEF g
    <3>5. g = [k \in 0..n |-> g[k]]
      BY DEF g
    <3> QED BY <3>4, <3>5
  <2> HIDE DEF g
  <2>4. PICK f : f = (CHOOSE h : Goeson(h)) /\ Goeson(f)
    <3> HIDE DEF Goeson
    <3> QED BY <2>3
  <2>5. f[0] = {i} /\ \A k \in 1..n : f[k] = UNION {parent[j] : j \in f[k - 1]}
    <3>1. 0 \in 0..n /\ \A k \in 1..n : k \in 0..n /\ k # 0
      BY <2>2
    <3>2. \A k \in 0..n : f[k] = RiseStep(i, k, f)
      BY <2>4
    <3>3. f[0] = {i}
      BY <3>1, <3>2 DEF RiseStep
    <3>4. \A k \in 1..n : f[k] = UNION {ParentOf[j] : j \in f[k - 1]}
      BY <3>1, <3>2 DEF RiseStep
    <3> QED BY <3>3, <3>4
  <2> DEFINE G == {k \in 0..n : f[k] = up[k]}
  <2>6. 0 \in G
    <3>1. up[0] = {i} /\ 0 \in 0..n
      BY <1>4, <2>2 DEF Rises
    <3> QED BY <2>5, <3>1
  <2>7. ASSUME NEW k \in 1..n, k - 1 \in G PROVE k \in G
    <3>1. k \in 1..N /\ k \in 0..n
      BY <1>1, <2>2
    <3>2. up[k] = UNION {parent[j] : j \in up[k - 1]}
      BY <1>4, <3>1 DEF Rises
    <3> QED BY <2>5, <2>7, <3>1, <3>2
  <2>8. n \in G
    <3> HIDE DEF G
    <3>1. \A k \in 0..n : k \in G
      BY <2>2, <2>6, <2>7, AllPlaces
    <3> QED BY <2>2, <3>1
  <2> QED BY <2>1, <2>4, <2>8
<1> QED BY <1>4, <1>5

(* Where nothing goes round, going up ends at a root, comes through all     *)
(* that is above, and never comes back.                                    *)
Passed(up, N) == UNION {up[n] : n \in 1..N}

(* Past as many steps as there are indices, what is above has been passed. *)
LEMMA RiseEnds ==
  ASSUME NEW N, NEW parent, Forest(parent, N), NEW i \in 1..N, NEW up, Rises(up, N, parent, i), up[N] = {}
  PROVE  /\ Passed(up, N) \subseteq Up(parent, i) /\ Up(parent, i) \subseteq {i} \cup Passed(up, N)
         /\ i \notin Passed(up, N)
         /\ \E x \in Up(parent, i) : parent[x] = {}
<1>0. PICK A : A = Passed(up, N) /\ A = UNION {up[n] : n \in 1..N}
  BY DEF Passed
<1>1. N \in Nat /\ \A j \in 1..N : parent[j] \subseteq 1..N /\ AtMostOne(parent[j])
  BY ForestIs
<1>2. /\ up \in [0..N -> SUBSET (1..N)] /\ up[0] = {i}
      /\ \A n \in 1..N : up[n] = UNION {parent[j] : j \in up[n - 1]}
  BY DEF Rises
<1>3. \A n \in 0..N : up[n] \subseteq Up(parent, i)
  <2> DEFINE G == {n \in 0..N : up[n] \subseteq Up(parent, i)}
  <2>1. 0 \in G
    BY <1>1, <1>2, UpIs
  <2>2. ASSUME NEW n \in 1..N, n - 1 \in G PROVE n \in G
    <3>1. n \in 0..N /\ up[n - 1] \subseteq Up(parent, i)
      BY <1>1, <2>2
    <3> QED BY <1>2, <3>1, UpIs
  <2> HIDE DEF G
  <2>3. \A n \in 0..N : n \in G
    BY <1>1, <2>1, <2>2, AllPlaces
  <2> QED BY <2>3 DEF G
<1>4. A \subseteq Up(parent, i)
  <2>1. \A n \in 1..N : n \in 0..N
    BY <1>1
  <2> QED BY <1>0, <1>3, <2>1
<1>5. Up(parent, i) \subseteq {i} \cup A
  <2> DEFINE P == {i} \cup A
  <2>1. ASSUME NEW x \in P, x \in 1..N PROVE parent[x] \subseteq P
    <3>1. PICK n \in 0..N : x \in up[n]
      <4>1. 0 \in 0..N /\ \A n \in 1..N : n \in 0..N
        BY <1>1
      <4> QED BY <1>0, <1>2, <4>1
    <3>2. n # N
      BY <3>1
    <3>3. n + 1 \in 1..N /\ (n + 1) - 1 = n
      BY <1>1, <3>2
    <3>4. up[n + 1] = UNION {parent[j] : j \in up[n]}
      BY <1>2, <3>3
    <3> QED BY <1>0, <3>1, <3>3, <3>4
  <2> HIDE DEF P
  <2>2. i \in P
    BY DEF P
  <2>3. Up(parent, i) \subseteq P
    BY <2>1, <2>2, UpIs
  <2> QED BY <2>3 DEF P
<1> DEFINE T == {n \in 0..N : up[n] = {}}
<1>6. PICK m \in T : \A n \in T : m <= n
  <2>1. T \in SUBSET Nat /\ T # {}
    BY <1>1
  <2> HIDE DEF T
  <2> QED BY <2>1, LeastNatural
<1>7. m \in 1..N /\ m - 1 \in 0..N /\ m - 1 \notin T
  <2>1. m # 0
    BY <1>2
  <2> QED BY <1>1, <1>6, <2>1
<1>8. \E x \in Up(parent, i) : parent[x] = {}
  <2>1. PICK x \in up[m - 1] : TRUE
    BY <1>7
  <2>2. up[m] = {} /\ up[m] = UNION {parent[j] : j \in up[m - 1]}
    BY <1>2, <1>6, <1>7
  <2>3. parent[x] = {}
    BY <2>1, <2>2
  <2> QED BY <1>3, <1>7, <2>1, <2>3
<1>9. i \notin A
  <2> SUFFICES ASSUME NEW n \in 1..N, i \in up[n] PROVE FALSE
    BY <1>0
  <2>1. \A k \in 0..N : AtMostOne(up[k])
    <3> DEFINE G == {k \in 0..N : AtMostOne(up[k])}
    <3>1. 0 \in G
      BY <1>1, <1>2 DEF AtMostOne
    <3>2. ASSUME NEW k \in 1..N, k - 1 \in G PROVE k \in G
      <4>1. k \in 0..N /\ k - 1 \in 0..N /\ up[k - 1] \subseteq 1..N
        BY <1>1, <1>2
      <4>2. up[k] = UNION {parent[j] : j \in up[k - 1]}
        BY <1>2
      <4>3. AtMostOne(up[k])
        BY <1>1, <3>2, <4>1, <4>2 DEF AtMostOne
      <4> QED BY <4>1, <4>3
    <3> HIDE DEF G
    <3>3. \A k \in 0..N : k \in G
      BY <1>1, <3>1, <3>2, AllPlaces
    <3> QED BY <3>3 DEF G
  <2>2. up[n] = {i}
    <3>1. n \in 0..N
      BY <1>1
    <3> QED BY <2>1, <3>1 DEF AtMostOne
  <2>3. \A k \in 0..(N - n) : up[n + k] = up[k]
    <3> DEFINE G == {k \in 0..(N - n) : up[n + k] = up[k]}
    <3>1. 0 \in G
      <4>1. n + 0 = n /\ 0 \in 0..(N - n)
        BY <1>1
      <4>2. up[n + 0] = up[0]
        BY <1>2, <2>2, <4>1
      <4> QED BY <4>1, <4>2
    <3>2. ASSUME NEW k \in 1..(N - n), k - 1 \in G PROVE k \in G
      <4>1. k \in 1..N /\ n + k \in 1..N /\ (n + k) - 1 = n + (k - 1) /\ k \in 0..(N - n)
        BY <1>1
      <4>2. up[k] = UNION {parent[j] : j \in up[k - 1]} /\ up[n + k] = UNION {parent[j] : j \in up[n + (k - 1)]}
        BY <1>2, <4>1
      <4>3. up[n + (k - 1)] = up[k - 1]
        BY <3>2
      <4>4. up[n + k] = up[k]
        BY <4>2, <4>3
      <4> QED BY <4>1, <4>4
    <3> HIDE DEF G
    <3>3. N - n \in Nat
      BY <1>1
    <3>4. \A k \in 0..(N - n) : k \in G
      BY <3>1, <3>2, <3>3, AllPlaces
    <3> QED BY <3>4 DEF G
  <2>5. CASE m >= n
    <3>1. m - n \in 0..(N - n) /\ n + (m - n) = m /\ m - n \in 0..N
      BY <1>1, <1>6, <2>5
    <3>2. up[m] = up[m - n]
      BY <2>3, <3>1
    <3>3. m - n \in T
      BY <1>6, <3>1, <3>2
    <3> QED BY <1>1, <1>6, <3>1, <3>3
  <2>6. CASE m < n
    <3> DEFINE G == {k \in 0..(N - m) : up[m + k] = {}}
    <3>1. 0 \in G
      BY <1>1, <1>6
    <3>2. ASSUME NEW k \in 1..(N - m), k - 1 \in G PROVE k \in G
      <4>1. m + k \in 1..N /\ (m + k) - 1 = m + (k - 1) /\ k \in 0..(N - m)
        BY <1>1, <1>7
      <4>2. up[m + k] = UNION {parent[j] : j \in up[m + (k - 1)]}
        BY <1>2, <4>1
      <4>3. up[m + k] = {}
        BY <3>2, <4>2
      <4> QED BY <4>1, <4>3
    <3> HIDE DEF G
    <3>3. N - m \in Nat /\ n - m \in 0..(N - m) /\ m + (n - m) = n
      BY <1>1, <1>7, <2>6
    <3>4. \A k \in 0..(N - m) : k \in G
      BY <3>1, <3>2, <3>3, AllPlaces
    <3>5. up[n] = {}
      BY <3>3, <3>4 DEF G
    <3> QED BY <2>2, <3>5
  <2>7. m \in Int /\ n \in Int
    BY <1>1, <1>7
  <2> QED BY <2>5, <2>6, <2>7
<1> QED BY <1>0, <1>4, <1>5, <1>8, <1>9

-----------------------------------------------------------------------------
(* What is wrong unfolds what is above it *)

(* What walking up adds is the ancestors, if what it met had brought its own. *)
LEMMA WalkUpIs ==
  ASSUME NEW N, NEW parent, Forest(parent, N), NEW i \in 1..N, NEW out \in SUBSET (1..N), Kept(parent, out)
  PROVE  /\ WalkUp(parent, i, out) \in SUBSET (1..N) /\ out \subseteq WalkUp(parent, i, out)
         /\ parent[i] \subseteq WalkUp(parent, i, out) /\ Kept(parent, WalkUp(parent, i, out))
<1>1. N \in Nat /\ DOMAIN parent = 1..N /\ Len(parent) = N /\ \A j \in 1..N : parent[j] \subseteq 1..N
  BY ForestIs
<1>2. PICK next : next = [j \in 1..N |-> parent[j] \ out]
  OBVIOUS
<1>3. PICK from : from = parent[i] \ out
  OBVIOUS
<1>4. Links(next, N) /\ from \in SUBSET (1..N) /\ DOMAIN next = 1..N
  <2>1. \A j \in 1..N : parent[j] \ out \in SUBSET (1..N)
    BY <1>1
  <2> QED BY <1>1, <1>2, <1>3, <2>1 DEF Links
<1>5. WalkUp(parent, i, out) = out \cup Closure(next, from)
  BY <1>1, <1>2, <1>3 DEF WalkUp
<1>6. /\ Closure(next, from) \in SUBSET (1..N) /\ from \subseteq Closure(next, from)
      /\ Kept(next, Closure(next, from))
  BY <1>4, ClosureIs
<1>7. Kept(parent, out \cup Closure(next, from))
  BY <1>1, <1>2, <1>4, <1>6 DEF Kept
<1> QED BY <1>3, <1>5, <1>6, <1>7

WalkStep(resources, parent, n, f) ==
  IF n = 0 THEN {} ELSE IF Problem(resources[n]) THEN WalkUp(parent, n, f[n - 1]) ELSE f[n - 1]

(* What is unfolded for a problem: everything above it, and nothing else.  *)
LEMMA ProblemAncestorsIs ==
  ASSUME NEW N, NEW resources, Len(resources) = N,
         NEW parent, parent = ResolveParents(resources), Forest(parent, N)
  PROVE  /\ Kept(parent, ProblemAncestors(resources))
         /\ \A i \in 1..N : Problem(resources[i]) => parent[i] \subseteq ProblemAncestors(resources)
<1>1. N \in Nat /\ DOMAIN parent = 1..N
  BY ForestIs
<1> DEFINE Goeson(f) == f = [n \in 0..N |-> WalkStep(resources, parent, n, f)]
           S == {out \in SUBSET (1..N) : Kept(parent, out)}
           op == [n \in 1..N |-> [out \in S |-> IF Problem(resources[n]) THEN WalkUp(parent, n, out) ELSE out]]
<1>2. ProblemAncestors(resources) = (CHOOSE f : Goeson(f))[N]
  BY DEF ProblemAncestors, WalkStep
<1>3. op \in [1..N -> [S -> S]]
  <2>1. ASSUME NEW n \in 1..N, NEW out \in S PROVE (IF Problem(resources[n]) THEN WalkUp(parent, n, out) ELSE out) \in S
    BY WalkUpIs
  <2> HIDE DEF S
  <2> QED BY <2>1
<1>4. {} \in S
  BY DEF Kept
<1>5. PICK g : Goes(g, N, S, {}, op)
  <2> HIDE DEF op, S
  <2> QED BY <1>1, <1>3, <1>4, StepsExist
<1>6. Goeson(g)
  <2> HIDE DEF S
  <2>1. g \in [0..N -> S] /\ g[0] = {} /\ \A n \in 1..N : g[n] = op[n][g[n - 1]]
    BY <1>5 DEF Goes
  <2>2. \A n \in 1..N : g[n - 1] \in S
    <3>1. \A n \in 1..N : n - 1 \in 0..N
      BY <1>1
    <3> QED BY <2>1, <3>1
  <2>3. \A n \in 1..N : g[n] = WalkStep(resources, parent, n, g)
    BY <2>1, <2>2 DEF WalkStep
  <2>4. \A n \in 0..N : g[n] = WalkStep(resources, parent, n, g)
    <3>1. \A n \in 0..N : n = 0 \/ n \in 1..N
      BY <1>1
    <3>2. g[0] = WalkStep(resources, parent, 0, g)
      BY <2>1 DEF WalkStep
    <3> QED BY <2>3, <3>1, <3>2
  <2> QED BY <2>1, <2>4
<1>7. PICK f : f = (CHOOSE h : Goeson(h)) /\ Goeson(f)
  <2> HIDE DEF Goeson
  <2> QED BY <1>6
<1>8. /\ f[0] = {}
      /\ \A n \in 1..N : f[n] = IF Problem(resources[n]) THEN WalkUp(parent, n, f[n - 1]) ELSE f[n - 1]
  <2>1. 0 \in 0..N /\ \A n \in 1..N : n \in 0..N /\ n # 0
    BY <1>1
  <2> QED BY <1>7, <2>1 DEF WalkStep
<1> DEFINE G == {n \in 0..N : /\ f[n] \in S
                              /\ \A i \in 1..n : Problem(resources[i]) => parent[i] \subseteq f[n]}
<1>9. 0 \in G
  <2>1. f[0] \in S
    BY <1>4, <1>8
  <2>2. 0 \in 0..N /\ 1..0 = {}
    BY <1>1
  <2> HIDE DEF S
  <2> QED BY <2>1, <2>2
<1>10. ASSUME NEW n \in 1..N, n - 1 \in G PROVE n \in G
  <2>1. n \in 0..N /\ \A i \in 1..n : i = n \/ i \in 1..(n - 1)
    BY <1>1
  <2>2. PICK out : out = f[n - 1]
    OBVIOUS
  <2>3. /\ out \in SUBSET (1..N) /\ Kept(parent, out)
        /\ \A i \in 1..(n - 1) : Problem(resources[i]) => parent[i] \subseteq out
    BY <1>10, <2>2
  <2>4. CASE Problem(resources[n])
    <3>1. f[n] = WalkUp(parent, n, out)
      BY <1>8, <2>2, <2>4
    <3>2. /\ WalkUp(parent, n, out) \in SUBSET (1..N) /\ out \subseteq WalkUp(parent, n, out)
          /\ parent[n] \subseteq WalkUp(parent, n, out) /\ Kept(parent, WalkUp(parent, n, out))
      BY <2>3, WalkUpIs
    <3>3. f[n] \in S /\ out \subseteq f[n] /\ parent[n] \subseteq f[n]
      BY <3>1, <3>2
    <3> HIDE DEF S
    <3> QED BY <2>1, <2>3, <3>3
  <2>5. CASE ~Problem(resources[n])
    <3>1. f[n] = out
      BY <1>8, <2>2, <2>5
    <3> QED BY <2>1, <2>3, <2>5, <3>1
  <2> QED BY <2>4, <2>5
<1>11. N \in G
  <2> HIDE DEF G
  <2>1. \A n \in 0..N : n \in G
    BY <1>1, <1>9, <1>10, AllPlaces
  <2> QED BY <1>1, <2>1
<1> QED BY <1>2, <1>7, <1>11

-----------------------------------------------------------------------------
(* The parents of the tree *)

(* An id names one resource at most.                                       *)
LEMMA ByIdIs ==
  ASSUME NEW resources, Indexed(resources), NEW id
  PROVE  ById(resources, id) \subseteq DOMAIN resources /\ AtMostOne(ById(resources, id))
         /\ \A i \in ById(resources, id) : resources[i].id = id
BY DEF ById, Indexed, AtMostOne

(* The row of a place of the tree.                                         *)
LEMMA RowIn ==
  ASSUME NEW N, NEW rows \in Seq(RowOf(N)), NEW k \in DOMAIN rows
  PROVE  rows[k].idx \in 1..N
<1>1. rows[k] \in RowOf(N)
  BY ElementOfSeq, LenProperties
<1> QED BY <1>1 DEF RowOf

(* Each resource of Flux has one parent at most.                           *)
LEMMA TreeForest ==
  ASSUME NEW resources, GoodTree(resources)
  PROVE  Forest(ResolveParents(resources), Len(resources))
<1>1. PICK N : N = Len(resources)
  OBVIOUS
<1>2. N \in Nat /\ DOMAIN resources = 1..N /\ Indexed(resources)
  BY <1>1 DEF GoodTree, Indexed
<1>3. ASSUME NEW i \in 1..N, NEW r, r = resources[i]
      PROVE  DependsParent(resources, r) \subseteq 1..N /\ AtMostOne(DependsParent(resources, r))
  <2>1. Indexed(r.depends)
    BY <1>2, <1>3 DEF GoodTree
  <2> DEFINE found(k) == ById(resources, <<r.id[1], r.depends[k]>>)
             known == {k \in DOMAIN r.depends : found(k) # {}}
             first == {x \in known : \A y \in known : x <= y}
  <2>2. \A k : found(k) \subseteq 1..N /\ AtMostOne(found(k))
    BY <1>2, ByIdIs
  <2>3. known \subseteq Nat
    BY <2>1 DEF Indexed
  <2>4. DependsParent(resources, r) = UNION {found(k) : k \in first}
    BY DEF DependsParent
  <2> HIDE DEF found, known
  <2>5. \A x, y \in first : x = y
    BY <2>3
  <2> HIDE DEF first
  <2> QED BY <2>2, <2>4, <2>5 DEF AtMostOne
<1>4. ASSUME NEW i \in 1..N PROVE ResolveParents(resources)[i] \in SUBSET (1..N) /\ AtMostOne(ResolveParents(resources)[i])
  <2>1. PICK r : r = resources[i]
    OBVIOUS
  <2>2. PICK waits : waits = DependsParent(resources, r)
    OBVIOUS
  <2>3. waits \subseteq 1..N /\ AtMostOne(waits)
    BY <1>3, <2>1, <2>2
  <2>4. AtMostOne(r.chart) /\ AtMostOne(r.source)
    BY <1>2, <2>1 DEF GoodTree
  <2>5. \A id : ById(resources, id) \subseteq 1..N /\ AtMostOne(ById(resources, id))
    BY <1>2, ByIdIs
  <2>6. PICK chart : chart = UNION {ById(resources, <<"HelmChart", c>>) : c \in r.chart}
    OBVIOUS
  <2>7. chart \subseteq 1..N /\ AtMostOne(chart)
    <3>1. \A x : x \in chart <=> \E c \in r.chart : x \in ById(resources, <<"HelmChart", c>>)
      BY <2>6
    <3>2. \A x \in chart : x \in 1..N
      BY <2>5, <3>1
    <3>3. ASSUME NEW x \in chart, NEW y \in chart PROVE x = y
      <4>1. PICK c \in r.chart : x \in ById(resources, <<"HelmChart", c>>)
        BY <3>1
      <4>2. PICK d \in r.chart : y \in ById(resources, <<"HelmChart", d>>)
        BY <3>1
      <4>3. c = d
        BY <2>4 DEF AtMostOne
      <4>4. y \in ById(resources, <<"HelmChart", c>>)
        BY <4>2, <4>3
      <4> QED BY <2>5, <4>1, <4>4 DEF AtMostOne
    <3> QED BY <3>2, <3>3 DEF AtMostOne
  <2>8. PICK source : source = UNION {ById(resources, s) : s \in r.source}
    OBVIOUS
  <2>9. source \subseteq 1..N /\ AtMostOne(source)
    <3>1. \A x : x \in source <=> \E s \in r.source : x \in ById(resources, s)
      BY <2>8
    <3>2. \A x \in source : x \in 1..N
      BY <2>5, <3>1
    <3>3. ASSUME NEW x \in source, NEW y \in source PROVE x = y
      <4>1. PICK c \in r.source : x \in ById(resources, c)
        BY <3>1
      <4>2. PICK d \in r.source : y \in ById(resources, d)
        BY <3>1
      <4>3. c = d
        BY <2>4 DEF AtMostOne
      <4>4. y \in ById(resources, c)
        BY <4>2, <4>3
      <4> QED BY <2>5, <4>1, <4>4 DEF AtMostOne
    <3> QED BY <3>2, <3>3 DEF AtMostOne
  <2>10. ResolveParents(resources)[i] = IF waits # {} THEN waits ELSE IF chart # {} THEN chart ELSE source
    BY <1>2, <2>1, <2>2, <2>6, <2>8 DEF ResolveParents
  <2> QED BY <2>3, <2>7, <2>9, <2>10
<1>5. ResolveParents(resources) \in [1..N -> SUBSET (1..N)]
  <2>1. PICK parent : parent = ResolveParents(resources)
    OBVIOUS
  <2>2. parent = [i \in 1..N |-> parent[i]]
    BY <1>2, <2>1 DEF ResolveParents
  <2>3. \A i \in 1..N : parent[i] \in SUBSET (1..N)
    BY <1>4, <2>1
  <2> QED BY <2>1, <2>2, <2>3
<1> QED BY <1>1, <1>2, <1>4, <1>5 DEF Forest

-----------------------------------------------------------------------------
(* The tree of Flux is whole *)

TreeDrawn ==
  Judged("tree") =>
    /\ GoodTree(cluster.resources)
    /\ reasons.rows = BuildFluxTree(cluster.resources, cluster.collapsed)
    /\ reasons.revealed = BuildFluxTree(cluster.resources,
                            cluster.collapsed \ ProblemAncestors(cluster.resources))

(* The tree of Flux, as it is collected, is whole.                         *)
LEMMA TreeKept ==
  ASSUME TreeDrawn
  PROVE  TreeIsWhole
<1> SUFFICES ASSUME Judged("tree") PROVE EveryResourceAccounted /\ FoldIsKept /\ ProblemsAreRevealed
  BY DEF TreeIsWhole, EveryResourceAccounted, FoldIsKept, ProblemsAreRevealed
<1>1. PICK resources : resources = cluster.resources
  OBVIOUS
<1>2. PICK collapsed : collapsed = cluster.collapsed
  OBVIOUS
<1>3. PICK parent : parent = ResolveParents(resources)
  OBVIOUS
<1>4. PICK N : N = Size
  OBVIOUS
<1>5. /\ GoodTree(resources) /\ N = Len(resources) /\ parent = ParentOf
      /\ reasons.rows = BuildFluxTree(resources, collapsed)
      /\ reasons.revealed = BuildFluxTree(resources, collapsed \ ProblemAncestors(resources))
  BY <1>1, <1>2, <1>3, <1>4 DEF TreeDrawn, Size, ParentOf
<1>6. Forest(parent, N)
  BY <1>3, <1>5, TreeForest
<1>7. /\ N \in Nat /\ DOMAIN parent = 1..N
      /\ \A x \in 1..N : parent[x] \subseteq 1..N /\ AtMostOne(parent[x])
  BY <1>6, ForestIs
<1>8. PICK rows : rows = reasons.rows
  OBVIOUS
<1>9. PICK seen, first : Drawn(parent, collapsed, N, seen, first, rows)
  BY <1>3, <1>5, <1>6, <1>8, RowsDrawn
<1>10. EveryResourceAccounted
  <2>1. ASSUME NEW i \in 1..N
        PROVE  Cardinality({k \in DOMAIN rows : rows[k].idx = i})
                 + Cardinality({k \in DOMAIN rows : i \in rows[k].hidden}) = 1
    <3>1. rows \in Seq(RowOf(N)) /\ ToldOnce(rows) /\ i \in Shown(rows) \cup Put(rows)
      BY <1>9 DEF Drawn
    <3> QED BY <3>1, OneRow
  <2> QED BY <1>4, <1>8, <2>1 DEF EveryResourceAccounted
<1>11. FoldIsKept
  <2>1. ASSUME NEW i \in 1..N, ~InACycle(i)
        PROVE  i \in Shown(rows) <=> Ancestors(i) \cap collapsed = {}
    <3>1. PICK up : Rises(up, N, parent, i) /\ \A n \in 0..N : Above(i, n) = up[n]
      BY <1>5, <1>6, AboveSteps
    <3>2. up[N] = {} /\ N \in 0..N /\ \A n \in 1..N : n \in 0..N
      BY <1>4, <1>7, <2>1, <3>1 DEF InACycle
    <3>3. PICK A : A = Passed(up, N)
      OBVIOUS
    <3>4. Ancestors(i) = A
      BY <1>4, <3>1, <3>2, <3>3 DEF Ancestors, Passed
    <3>5. /\ A \subseteq Up(parent, i) /\ Up(parent, i) \subseteq {i} \cup A /\ i \notin A
          /\ \E x \in Up(parent, i) : parent[x] = {}
      BY <1>6, <3>1, <3>2, <3>3, RiseEnds
    <3>6. ASSUME i \in Shown(rows) PROVE A \cap collapsed = {}
      <4>1. PICK x \in Up(parent, i) : parent[x] = {}
        BY <3>5
      <4>2. x \in 1..N /\ i \in Under(parent, x)
        BY <1>6, <4>1, UpIs, UpUnder
      <4>3. x \in seen /\ \A y \in seen : Children(parent, y) \subseteq seen
        BY <1>7, <1>9, <4>1, <4>2 DEF Drawn, RootsOf
      <4>4. Under(parent, x) \subseteq seen
        BY <1>6, <4>2, <4>3, UnderIs
      <4>5. i \in Shown(first) /\ \A y \in Shown(first) : Reasoned(parent, collapsed, first, y)
        BY <1>9, <3>6, <4>2, <4>4 DEF Drawn
      <4> DEFINE Q == {y \in Shown(first) : y = i \/ y \notin collapsed}
      <4>6. ASSUME NEW y \in Q, y \in 1..N PROVE parent[y] \subseteq Q
        <5>1. Reasoned(parent, collapsed, first, y)
          BY <4>5
        <5>2. CASE parent[y] \subseteq {y}
          BY <5>2
        <5>3. CASE \E p \in parent[y] : p \in Shown(first) /\ p \notin collapsed
          BY <1>7, <4>6, <5>3 DEF AtMostOne
        <5> QED BY <5>1, <5>2, <5>3 DEF Reasoned
      <4>7. i \in Q
        BY <4>5
      <4> HIDE DEF Q
      <4>8. Up(parent, i) \subseteq Q
        BY <1>6, <4>6, <4>7, UpIs
      <4> QED BY <3>5, <4>8 DEF Q
    <3>7. ASSUME A \cap collapsed = {} PROVE i \in Shown(rows)
      <4> SUFFICES ASSUME i \in Put(rows) PROVE FALSE
        BY <1>9 DEF Drawn
      <4>1. PICK k \in DOMAIN rows : i \in rows[k].hidden
        BY DEF Put
      <4>2. rows[k].idx \in collapsed /\ i \in Under(parent, rows[k].idx) /\ rows[k].idx # i
        BY <1>9, <4>1 DEF Drawn, FoldsHide, ToldOnce
      <4>3. rows[k].idx \in 1..N
        BY <1>9, <4>1, RowIn DEF Drawn
      <4>4. rows[k].idx \in Up(parent, i)
        BY <1>6, <4>2, <4>3, UpUnder
      <4> QED BY <3>5, <3>7, <4>2, <4>4
    <3> QED BY <3>4, <3>6, <3>7
  <2> QED BY <1>2, <1>4, <1>8, <2>1 DEF FoldIsKept
<1>12. ProblemsAreRevealed
  <2>1. PICK out : out = ProblemAncestors(resources)
    OBVIOUS
  <2>2. Kept(parent, out) /\ \A i \in 1..N : Problem(resources[i]) => parent[i] \subseteq out
    BY <1>3, <1>5, <1>6, <2>1, ProblemAncestorsIs
  <2>3. PICK shown : shown = reasons.revealed
    OBVIOUS
  <2>4. PICK s, f : Drawn(parent, collapsed \ out, N, s, f, shown)
    BY <1>3, <1>5, <1>6, <2>1, <2>3, RowsDrawn
  <2>5. ASSUME NEW i \in 1..N, Problem(resources[i]) PROVE i \in Shown(shown)
    <3> SUFFICES ASSUME i \in Put(shown) PROVE FALSE
      BY <2>4 DEF Drawn
    <3>1. PICK k \in DOMAIN shown : i \in shown[k].hidden
      BY DEF Put
    <3>2. /\ shown[k].idx \in collapsed \ out /\ i \in Under(parent, shown[k].idx)
          /\ shown[k].idx # i
      BY <2>4, <3>1 DEF Drawn, FoldsHide, ToldOnce
    <3>3. shown[k].idx \in 1..N
      BY <2>4, <3>1, RowIn DEF Drawn
    <3>4. shown[k].idx \in Up(parent, i)
      BY <1>6, <3>2, <3>3, UpUnder
    <3> DEFINE P == {i} \cup out
    <3>5. i \in P /\ \A x \in P : x \in 1..N => parent[x] \subseteq P
      BY <1>7, <2>2, <2>5 DEF Kept
    <3> HIDE DEF P
    <3>6. Up(parent, i) \subseteq P
      BY <1>6, <3>5, UpIs
    <3> QED BY <3>2, <3>4, <3>6 DEF P
  <2> QED BY <1>1, <1>4, <2>3, <2>5 DEF ProblemsAreRevealed
<1> QED BY <1>10, <1>11, <1>12

-----------------------------------------------------------------------------
(* The parents of the chains *)

(* The first of a set of places, if there is any.                          *)
LEMMA FirstOf ==
  ASSUME NEW set \in SUBSET Nat
  PROVE  /\ AtMostOne({x \in set : \A y \in set : x <= y})
         /\ set # {} => {x \in set : \A y \in set : x <= y} # {}
<1>1. AtMostOne({x \in set : \A y \in set : x <= y})
  BY DEF AtMostOne
<1>2. ASSUME set # {} PROVE {x \in set : \A y \in set : x <= y} # {}
  <2>1. \E x \in set : \A y \in set : x <= y
    BY <1>2, LeastNatural
  <2> QED BY <2>1
<1> QED BY <1>1, <1>2

LineagePlaces(owners) ==
  {n \in DOMAIN owners : \/ owners[n].controller
                         \/ owners[n].kind \in {"Certificate", "CertificateRequest", "Order"}}

(* The owner that tells the lineage is one that can, as soon as one can.   *)
LEMMA LineageOwnerIs ==
  ASSUME NEW owners, Indexed(owners)
  PROVE  /\ AtMostOne(LineageOwner(owners))
         /\ \A o \in LineageOwner(owners) : \E n \in LineagePlaces(owners) : o = owners[n]
         /\ LineagePlaces(owners) # {} => LineageOwner(owners) # {}
<1> DEFINE controllers == {i \in DOMAIN owners : owners[i].controller}
           lineage == {i \in DOMAIN owners : owners[i].kind \in {"Certificate", "CertificateRequest", "Order"}}
<1>1. PICK told : told = IF controllers # {} THEN controllers ELSE lineage
  OBVIOUS
<1>2. PICK first : first = {k \in told : \A j \in told : k <= j}
  OBVIOUS
<1>3. LineageOwner(owners) = {owners[i] : i \in first}
  BY <1>1, <1>2 DEF LineageOwner
<1>4. told \in SUBSET Nat /\ told \subseteq LineagePlaces(owners)
      /\ (LineagePlaces(owners) # {} => told # {})
  BY <1>1 DEF LineagePlaces, Indexed
<1>5. AtMostOne(first) /\ (told # {} => first # {}) /\ first \subseteq told
  BY <1>2, <1>4, FirstOf
<1>6. AtMostOne(LineageOwner(owners))
  BY <1>3, <1>5 DEF AtMostOne
<1> QED BY <1>3, <1>4, <1>5, <1>6

OwnerOf(resources, r) == UNION {ById(resources, <<o.kind, r.id[2], o.name>>) : o \in LineageOwner(r.owners)}
IssuerOf(resources, r) == UNION {ById(resources, id) : id \in r.issuer}
HangsUnder(resources, r) ==
  IF KindOf(r) = "Certificate" THEN IF IssuerOf(resources, r) # {} THEN IssuerOf(resources, r) ELSE OwnerOf(resources, r)
  ELSE IF OwnerOf(resources, r) # {} THEN OwnerOf(resources, r) ELSE IssuerOf(resources, r)

(* The parent of each resource, by what it hangs under.                    *)
LEMMA ParentMapIs ==
  ASSUME NEW resources
  PROVE  ParentMap(resources) =
           [i \in DOMAIN resources |->
              IF KindOf(resources[i]) \in Issuers THEN {} ELSE HangsUnder(resources, resources[i]) \ {i}]
BY DEF ParentMap, HangsUnder, OwnerOf, IssuerOf

(* A resource has one owner and one issuer at most.                        *)
LEMMA OwnerAlone ==
  ASSUME NEW resources, Indexed(resources), NEW r, Indexed(r.owners), AtMostOne(r.issuer)
  PROVE  /\ AtMostOne(OwnerOf(resources, r)) /\ AtMostOne(IssuerOf(resources, r))
         /\ OwnerOf(resources, r) \subseteq DOMAIN resources /\ IssuerOf(resources, r) \subseteq DOMAIN resources
<1>1. \A id : ById(resources, id) \subseteq DOMAIN resources /\ AtMostOne(ById(resources, id))
  BY ByIdIs
<1>2. AtMostOne(LineageOwner(r.owners))
  BY LineageOwnerIs
<1>3. /\ \A x : x \in OwnerOf(resources, r) <=>
             \E o \in LineageOwner(r.owners) : x \in ById(resources, <<o.kind, r.id[2], o.name>>)
      /\ \A x : x \in IssuerOf(resources, r) <=> \E id \in r.issuer : x \in ById(resources, id)
  BY DEF OwnerOf, IssuerOf
<1>4. ASSUME NEW x \in OwnerOf(resources, r), NEW y \in OwnerOf(resources, r) PROVE x = y
  <2>1. PICK o \in LineageOwner(r.owners) : x \in ById(resources, <<o.kind, r.id[2], o.name>>)
    BY <1>3
  <2>2. PICK p \in LineageOwner(r.owners) : y \in ById(resources, <<p.kind, r.id[2], p.name>>)
    BY <1>3
  <2>3. o = p
    BY <1>2 DEF AtMostOne
  <2>4. y \in ById(resources, <<o.kind, r.id[2], o.name>>)
    BY <2>2, <2>3
  <2> QED BY <1>1, <2>1, <2>4 DEF AtMostOne
<1>5. ASSUME NEW x \in IssuerOf(resources, r), NEW y \in IssuerOf(resources, r) PROVE x = y
  <2>1. PICK a \in r.issuer : x \in ById(resources, a)
    BY <1>3
  <2>2. PICK b \in r.issuer : y \in ById(resources, b)
    BY <1>3
  <2>3. a = b
    BY DEF AtMostOne
  <2> QED BY <1>1, <2>1, <2>2, <2>3 DEF AtMostOne
<1>6. OwnerOf(resources, r) \subseteq DOMAIN resources /\ IssuerOf(resources, r) \subseteq DOMAIN resources
  BY <1>1, <1>3
<1> QED BY <1>4, <1>5, <1>6 DEF AtMostOne

(* Each resource of a chain has one parent at most, and not itself.        *)
LEMMA ChainForest ==
  ASSUME NEW resources, GoodChains(resources)
  PROVE  /\ Forest(ParentMap(resources), Len(resources))
         /\ \A i \in 1..Len(resources) : i \notin ParentMap(resources)[i]
<1>1. PICK N : N = Len(resources)
  OBVIOUS
<1>2. N \in Nat /\ DOMAIN resources = 1..N /\ Indexed(resources)
  BY <1>1 DEF GoodChains, Indexed
<1>3. PICK parent : parent = ParentMap(resources)
  OBVIOUS
<1>4. ASSUME NEW i \in 1..N
      PROVE  parent[i] \in SUBSET (1..N) /\ AtMostOne(parent[i]) /\ i \notin parent[i]
  <2>1. PICK r : r = resources[i]
    OBVIOUS
  <2>2. Indexed(r.owners) /\ AtMostOne(r.issuer)
    BY <1>2, <2>1 DEF GoodChains
  <2>3. PICK h : h = HangsUnder(resources, r)
    OBVIOUS
  <2>4. h \in SUBSET (1..N) /\ AtMostOne(h)
    BY <1>2, <2>2, <2>3, OwnerAlone DEF HangsUnder
  <2>5. parent[i] = IF KindOf(r) \in Issuers THEN {} ELSE h \ {i}
    BY <1>2, <1>3, <2>1, <2>3, ParentMapIs
  <2> QED BY <2>4, <2>5 DEF AtMostOne
<1>5. parent \in [1..N -> SUBSET (1..N)]
  <2>2. parent = [i \in 1..N |-> parent[i]]
    BY <1>2, <1>3 DEF ParentMap
  <2>3. \A i \in 1..N : parent[i] \in SUBSET (1..N)
    BY <1>4
  <2> QED BY <2>2, <2>3
<1> QED BY <1>1, <1>2, <1>3, <1>4, <1>5 DEF Forest

-----------------------------------------------------------------------------
(* The chain above an index *)

WalkOn(parent, path) ==
  IF parent[Last(path)] \ ToSet(path) = {} THEN path
  ELSE Append(path, CHOOSE p \in parent[Last(path)] \ ToSet(path) : TRUE)
PathStep(parent, i, n, f) == IF n = 0 THEN <<i>> ELSE WalkOn(parent, f[n - 1])

(* A path of different indices, whose parents are on it but for that of     *)
(* the last one.                                                           *)
PathOf(parent, N, i, path) ==
  /\ path \in Seq(1..N) /\ path # << >> /\ IsInjective(path) /\ Head(path) = i
  /\ Last(path) \in ToSet(path) /\ Len(path) \in Nat
  /\ ToSet(path) \subseteq Up(parent, i)
  /\ \A x \in ToSet(path) : x = Last(path) \/ parent[x] \subseteq ToSet(path)

(* The last of a sequence is in it.                                        *)
LEMMA LastIs ==
  ASSUME NEW S, NEW path \in Seq(S), path # << >>
  PROVE  /\ Last(path) \in S /\ Last(path) \in ToSet(path) /\ Head(path) = path[1]
         /\ Len(path) \in Nat /\ Len(path) > 0 /\ DOMAIN path = 1..Len(path) /\ ToSet(path) \subseteq S
         /\ \A x : Last(Append(path, x)) = x /\ Append(path, x) # << >>
<1>1. Len(path) \in Nat /\ Len(path) > 0 /\ DOMAIN path = 1..Len(path) /\ Head(path) = path[1]
  BY EmptySeq, LenProperties
<1>2. \A n \in 1..Len(path) : path[n] \in S
  BY ElementOfSeq
<1>3. Last(path) = path[Len(path)]
  BY DEF Last
<1>4. \A x : Last(Append(path, x)) = x /\ Append(path, x) # << >>
  <2> SUFFICES ASSUME NEW x PROVE Last(Append(path, x)) = x /\ Append(path, x) # << >>
    OBVIOUS
  <2>1. path \in Seq(S \cup {x})
    BY SeqMonotonic
  <2>2. /\ Append(path, x) \in Seq(S \cup {x}) /\ Len(Append(path, x)) = Len(path) + 1
        /\ Append(path, x)[Len(path) + 1] = x
    BY <2>1, AppendProperties
  <2> QED BY <1>1, <2>2, EmptySeq DEF Last
<1>5. ToSet(path) = {path[n] : n \in 1..Len(path)}
  BY <1>1 DEF ToSet
<1> QED BY <1>1, <1>2, <1>3, <1>4, <1>5

(* One step up keeps a path a path.                                        *)
LEMMA WalkOnIs ==
  ASSUME NEW N, NEW parent, Forest(parent, N), NEW i \in 1..N, NEW path, PathOf(parent, N, i, path),
         NEW next, next = WalkOn(parent, path)
  PROVE  /\ PathOf(parent, N, i, next)
         /\ (parent[Last(next)] \subseteq ToSet(next)) \/ Len(next) = Len(path) + 1
         /\ (parent[Last(path)] \subseteq ToSet(path)) => next = path
<1>1. /\ path \in Seq(1..N) /\ path # << >> /\ IsInjective(path) /\ Head(path) = i
      /\ Last(path) \in ToSet(path) /\ Len(path) \in Nat
      /\ ToSet(path) \subseteq Up(parent, i)
      /\ \A x \in ToSet(path) : x = Last(path) \/ parent[x] \subseteq ToSet(path)
  BY DEF PathOf
<1>2. PICK up : up = parent[Last(path)] \ ToSet(path)
  OBVIOUS
<1>3. CASE up = {}
  <2>1. next = path
    BY <1>2, <1>3 DEF WalkOn
  <2> QED BY <1>2, <1>3, <2>1
<1>4. CASE up # {}
  <2>1. PICK p : p = CHOOSE x \in up : TRUE
    OBVIOUS
  <2>2. p \in up
    BY <1>4, <2>1
  <2>3. next = Append(path, p)
    BY <1>2, <1>4, <2>1 DEF WalkOn
  <2>4. Last(path) \in 1..N /\ Last(path) \in Up(parent, i)
    BY <1>1, LastIs
  <2>5. /\ p \in 1..N /\ p \in Up(parent, i) /\ p \notin ToSet(path)
        /\ \A x \in parent[Last(path)] : x = p
    BY <1>2, <2>2, <2>4, ForestIs, UpIs DEF AtMostOne
  <2>6. /\ next \in Seq(1..N) /\ IsInjective(next) /\ ToSet(next) = ToSet(path) \cup {p} /\ Head(next) = i
    <3>1. path \in Seq(1..N) /\ IsInjective(path) /\ p \in 1..N /\ p \notin ToSet(path)
      BY <1>1, <2>5
    <3>2. /\ Append(path, p) \in Seq(1..N)
          /\ IsInjective(Append(path, p))
          /\ ToSet(Append(path, p)) = ToSet(path) \cup {p}
          /\ path # << >> => Head(Append(path, p)) = Head(path)
      BY <3>1, AppendOnce
    <3> QED BY <1>1, <2>3, <3>2
  <2>7. Last(next) = p /\ next # << >>
    BY <1>1, <2>3, LastIs
  <2>8. Len(next) = Len(path) + 1
    BY <1>1, <2>3, <2>5, AppendProperties
  <2>9. \A x \in ToSet(next) : x = p \/ parent[x] \subseteq ToSet(next)
    BY <1>1, <2>5, <2>6
  <2>10. PathOf(parent, N, i, next)
    BY <1>1, <2>5, <2>6, <2>7, <2>8, <2>9 DEF PathOf
  <2> QED BY <1>2, <1>4, <2>8, <2>10
<1> QED BY <1>3, <1>4

(* No more different indices than there are. *)
LEMMA ShortEnough ==
  ASSUME NEW N \in Nat, NEW path \in Seq(1..N), IsInjective(path)
  PROVE  Len(path) \in Nat /\ Len(path) <= N
<1>1. Len(path) \in Nat /\ DOMAIN path = 1..Len(path)
  BY LenProperties
<1>2. \A n \in 1..Len(path) : path[n] \in 1..N
  BY ElementOfSeq
<1>3. /\ IsFiniteSet(1..N) /\ Cardinality(1..N) = N
      /\ IsFiniteSet(1..Len(path)) /\ Cardinality(1..Len(path)) = Len(path)
  <2>1. \A n \in Nat : IsFiniteSet(1..n) /\ Cardinality(1..n) = IF 1 > n THEN 0 ELSE n - 1 + 1
    BY FS_Interval
  <2>2. \A n \in Nat : (IF 1 > n THEN 0 ELSE n - 1 + 1) = n
    OBVIOUS
  <2> QED BY <1>1, <2>1, <2>2
<1>4. path \in Injection(1..Len(path), 1..N)
  <2>1. path \in [1..Len(path) -> 1..N]
    BY <1>1, <1>2
  <2> QED BY <1>1, <2>1 DEF Injection, IsInjective
<1> QED BY <1>1, <1>3, <1>4, FS_Injection

(* The chain above an index is what is above it, itself first.             *)
LEMMA ChainPathIs ==
  ASSUME NEW N, NEW parent, Forest(parent, N), NEW i \in 1..N
  PROVE  /\ ChainPath(parent, i) \in Seq(1..N) /\ ChainPath(parent, i) # << >>
         /\ IsInjective(ChainPath(parent, i)) /\ Head(ChainPath(parent, i)) = i
         /\ ToSet(ChainPath(parent, i)) = Up(parent, i)
<1>1. N \in Nat /\ DOMAIN parent = 1..N /\ Len(parent) = N
  BY ForestIs
<1> DEFINE Goeson(f) == f = [n \in 0..N |-> PathStep(parent, i, n, f)]
           S == {path \in Seq(1..N) : PathOf(parent, N, i, path)}
           op == [n \in 1..N |-> [path \in S |-> WalkOn(parent, path)]]
<1>2. ChainPath(parent, i) = (CHOOSE f : Goeson(f))[N]
  BY <1>1 DEF ChainPath, PathStep, WalkOn
<1>3. op \in [1..N -> [S -> S]]
  <2>1. ASSUME NEW path \in S PROVE WalkOn(parent, path) \in S
    <3>1. PICK next : next = WalkOn(parent, path)
      OBVIOUS
    <3>2. PathOf(parent, N, i, next)
      BY <3>1, WalkOnIs
    <3> QED BY <3>1, <3>2 DEF PathOf
  <2> HIDE DEF S
  <2> QED BY <2>1
<1>4. <<i>> \in S /\ Len(<<i>>) = 1
  <2>1. <<i>> \in Seq(1..N) /\ <<i>> # << >> /\ Len(<<i>>) = 1 /\ Head(<<i>>) = i /\ DOMAIN <<i>> = 1..1
    OBVIOUS
  <2>2. <<i>>[1] = i /\ 1..1 = {1}
    OBVIOUS
  <2>3. ToSet(<<i>>) = {i} /\ IsInjective(<<i>>)
    BY <2>1, <2>2 DEF ToSet, IsInjective
  <2>4. Last(<<i>>) = i
    BY <2>1, <2>2 DEF Last
  <2>5. i \in Up(parent, i)
    BY UpIs
  <2>6. PICK one : one = <<i>>
    OBVIOUS
  <2>7. PathOf(parent, N, i, one)
    BY <2>1, <2>3, <2>4, <2>5, <2>6 DEF PathOf
  <2> QED BY <2>1, <2>6, <2>7
<1>5. PICK g : Goes(g, N, S, <<i>>, op)
  <2> HIDE DEF op, S
  <2> QED BY <1>1, <1>3, <1>4, StepsExist
<1>6. Goeson(g)
  <2> HIDE DEF S
  <2>1. g \in [0..N -> S] /\ g[0] = <<i>> /\ \A n \in 1..N : g[n] = op[n][g[n - 1]]
    BY <1>5 DEF Goes
  <2>2. \A n \in 1..N : g[n - 1] \in S
    <3>1. \A n \in 1..N : n - 1 \in 0..N
      BY <1>1
    <3> QED BY <2>1, <3>1
  <2>3. \A n \in 1..N : g[n] = PathStep(parent, i, n, g)
    BY <2>1, <2>2 DEF PathStep
  <2>4. \A n \in 0..N : g[n] = PathStep(parent, i, n, g)
    <3>1. \A n \in 0..N : n = 0 \/ n \in 1..N
      BY <1>1
    <3>2. g[0] = PathStep(parent, i, 0, g)
      BY <2>1 DEF PathStep
    <3> QED BY <2>3, <3>1, <3>2
  <2> QED BY <2>1, <2>4
<1>7. PICK f : f = (CHOOSE h : Goeson(h)) /\ Goeson(f)
  <2> HIDE DEF Goeson
  <2> QED BY <1>6
<1>8. f[0] = <<i>> /\ \A n \in 1..N : f[n] = WalkOn(parent, f[n - 1])
  <2>1. 0 \in 0..N /\ \A n \in 1..N : n \in 0..N /\ n # 0
    BY <1>1
  <2> QED BY <1>7, <2>1 DEF PathStep
<1> DEFINE G == {n \in 0..N : /\ f[n] \in S
                              /\ Len(f[n]) = n + 1 \/ parent[Last(f[n])] \subseteq ToSet(f[n])}
<1>9. 0 \in G
  <2> HIDE DEF S
  <2>1. 0 \in 0..N /\ 0 + 1 = 1
    BY <1>1
  <2> QED BY <1>4, <1>8, <2>1
<1>10. ASSUME NEW n \in 1..N, n - 1 \in G PROVE n \in G
  <2>1. n \in 0..N /\ (n - 1) + 1 = n
    BY <1>1
  <2>2. PICK path, next : path = f[n - 1] /\ next = f[n]
    OBVIOUS
  <2>3. path \in S /\ (Len(path) = n \/ parent[Last(path)] \subseteq ToSet(path)) /\ next = WalkOn(parent, path)
    BY <1>8, <1>10, <2>1, <2>2
  <2>4. /\ PathOf(parent, N, i, next)
        /\ (parent[Last(next)] \subseteq ToSet(next)) \/ Len(next) = Len(path) + 1
        /\ (parent[Last(path)] \subseteq ToSet(path)) => next = path
    BY <2>3, WalkOnIs
  <2>5. next \in S
    BY <2>4 DEF PathOf
  <2>6. Len(next) = n + 1 \/ parent[Last(next)] \subseteq ToSet(next)
    <3> HIDE DEF S
    <3> QED BY <2>3, <2>4
  <2> HIDE DEF S
  <2> QED BY <2>1, <2>2, <2>5, <2>6
<1>11. N \in G
  <2> HIDE DEF G
  <2>1. \A n \in 0..N : n \in G
    BY <1>1, <1>9, <1>10, AllPlaces
  <2> QED BY <1>1, <2>1
<1>12. PICK path : path = ChainPath(parent, i)
  OBVIOUS
<1>13. PathOf(parent, N, i, path) /\ (Len(path) = N + 1 \/ parent[Last(path)] \subseteq ToSet(path))
  BY <1>2, <1>7, <1>11, <1>12
<1>14. /\ path \in Seq(1..N) /\ path # << >> /\ IsInjective(path) /\ Head(path) = i
       /\ Last(path) \in ToSet(path) /\ ToSet(path) \subseteq Up(parent, i)
       /\ \A x \in ToSet(path) : x = Last(path) \/ parent[x] \subseteq ToSet(path)
  BY <1>13 DEF PathOf
<1>15. Len(path) \in Nat /\ Len(path) <= N
  BY <1>1, <1>14, ShortEnough
<1>16. \A x \in ToSet(path) : parent[x] \subseteq ToSet(path)
  <2>1. Len(path) # N + 1
    BY <1>1, <1>15
  <2> QED BY <1>13, <1>14, <2>1
<1>17. i \in ToSet(path)
  <2>1. 1 \in DOMAIN path /\ path[1] = i
    BY <1>14, LastIs
  <2> QED BY <2>1 DEF ToSet
<1>18. Up(parent, i) \subseteq ToSet(path)
  BY <1>16, <1>17, UpIs
<1> QED BY <1>12, <1>14, <1>18

(* Past its first, a sequence of different elements has all the others.    *)
LEMMA TailHas ==
  ASSUME NEW S, NEW s \in Seq(S), s # << >>, IsInjective(s)
  PROVE  /\ ToSet(Tail(s)) = ToSet(s) \ {Head(s)} /\ Tail(s) \in Seq(S)
         /\ Head(s) \in ToSet(s) /\ ToSet(s) \subseteq S
<1>1. /\ Tail(s) \in Seq(S) /\ ToSet(s) = {Head(s)} \cup ToSet(Tail(s))
  BY HeadRest
<1>2. ToSet(s) \subseteq S
  BY LastIs
<1>3. Head(s) \notin ToSet(Tail(s))
  <2> SUFFICES ASSUME Head(s) \in ToSet(Tail(s)) PROVE FALSE
    OBVIOUS
  <2>1. /\ Len(Tail(s)) = Len(s) - 1 /\ Len(s) \in Nat /\ Len(s) > 0 /\ DOMAIN s = 1..Len(s) /\ Head(s) = s[1]
        /\ DOMAIN Tail(s) = 1..Len(Tail(s))
        /\ \A k \in 1..Len(Tail(s)) : Tail(s)[k] = s[k + 1]
    BY <1>1, HeadTailProperties, LastIs, LenProperties
  <2>2. PICK k \in DOMAIN Tail(s) : Tail(s)[k] = Head(s)
    BY DEF ToSet
  <2>3. k \in 1..Len(Tail(s)) /\ k + 1 \in DOMAIN s /\ 1 \in DOMAIN s /\ k + 1 # 1
    BY <2>1, <2>2
  <2>4. s[k + 1] = s[1]
    BY <2>1, <2>2, <2>3
  <2> QED BY <2>3, <2>4 DEF IsInjective
<1> QED BY <1>1, <1>2, <1>3

-----------------------------------------------------------------------------
(* What is below an index *)

(* Two sequences that share nothing leave, together, no element twice.     *)
LEMMA ConcatOnce ==
  ASSUME NEW S, NEW s \in Seq(S), NEW t \in Seq(S), IsInjective(s), IsInjective(t), ToSet(s) \cap ToSet(t) = {}
  PROVE  IsInjective(s \o t)
<1>1. /\ Len(s) \in Nat /\ DOMAIN s = 1..Len(s) /\ Len(t) \in Nat /\ DOMAIN t = 1..Len(t)
  BY LenProperties
<1>2. PICK u : u = s \o t
  OBVIOUS
<1>3. /\ u \in Seq(S) /\ Len(u) = Len(s) + Len(t)
      /\ \A k \in 1..(Len(s) + Len(t)) : u[k] = IF k <= Len(s) THEN s[k] ELSE t[k - Len(s)]
  BY <1>2, ConcatProperties
<1>4. DOMAIN u = 1..(Len(s) + Len(t))
  BY <1>3, LenProperties
<1>5. ASSUME NEW k \in DOMAIN u, NEW l \in DOMAIN u, u[k] = u[l] PROVE k = l
  <2>1. k \in Nat /\ l \in Nat /\ k >= 1 /\ l >= 1 /\ k <= Len(s) + Len(t) /\ l <= Len(s) + Len(t)
    BY <1>1, <1>4
  <2>2. \A n \in DOMAIN s : s[n] \in ToSet(s)
    BY DEF ToSet
  <2>3. \A n \in DOMAIN t : t[n] \in ToSet(t)
    BY DEF ToSet
  <2>4. CASE k <= Len(s) /\ l <= Len(s)
    <3>1. u[k] = s[k] /\ u[l] = s[l] /\ k \in DOMAIN s /\ l \in DOMAIN s
      BY <1>1, <1>3, <1>4, <2>1, <2>4
    <3> QED BY <1>5, <3>1 DEF IsInjective
  <2>5. CASE k <= Len(s) /\ ~(l <= Len(s))
    <3>1. u[k] = s[k] /\ u[l] = t[l - Len(s)] /\ k \in DOMAIN s /\ l - Len(s) \in DOMAIN t
      BY <1>1, <1>3, <1>4, <2>1, <2>5
    <3> QED BY <1>5, <2>2, <2>3, <3>1
  <2>6. CASE ~(k <= Len(s)) /\ l <= Len(s)
    <3>1. u[l] = s[l] /\ u[k] = t[k - Len(s)] /\ l \in DOMAIN s /\ k - Len(s) \in DOMAIN t
      BY <1>1, <1>3, <1>4, <2>1, <2>6
    <3> QED BY <1>5, <2>2, <2>3, <3>1
  <2>7. CASE ~(k <= Len(s)) /\ ~(l <= Len(s))
    <3>1. u[k] = t[k - Len(s)] /\ u[l] = t[l - Len(s)] /\ k - Len(s) \in DOMAIN t /\ l - Len(s) \in DOMAIN t
      BY <1>1, <1>3, <1>4, <2>1, <2>7
    <3>2. k - Len(s) = l - Len(s)
      BY <1>5, <3>1 DEF IsInjective
    <3> QED BY <1>1, <2>1, <3>2
  <2> QED BY <2>4, <2>5, <2>6, <2>7
<1> QED BY <1>2, <1>5 DEF IsInjective

JoinOn(parent, n, out) ==
  IF n > Len(out) THEN out
  ELSE out \o InOrder(Children(parent, out[n]) \ ToSet(out), Len(parent))
QueueStep(parent, i, n, f) == IF n = 0 THEN <<i>> ELSE JoinOn(parent, n, f[n - 1])

(* A queue of different indices below the first, once the children of its   *)
(* first n have joined it.                                                 *)
QueueOf(parent, N, i, n, out) ==
  /\ out \in Seq(1..N) /\ out # << >> /\ IsInjective(out) /\ Head(out) = i
  /\ ToSet(out) \subseteq Under(parent, i)
  /\ \A m \in 1..n : m \in DOMAIN out => Children(parent, out[m]) \subseteq ToSet(out)

(* One turn of the queue joins the children of one index.                  *)
LEMMA JoinOnIs ==
  ASSUME NEW N, NEW parent, Forest(parent, N), NEW i \in 1..N, NEW n \in 1..N,
         NEW out, QueueOf(parent, N, i, n - 1, out), NEW next, next = JoinOn(parent, n, out)
  PROVE  QueueOf(parent, N, i, n, next)
<1>1. /\ out \in Seq(1..N) /\ out # << >> /\ IsInjective(out) /\ Head(out) = i
      /\ ToSet(out) \subseteq Under(parent, i)
      /\ \A m \in 1..(n - 1) : m \in DOMAIN out => Children(parent, out[m]) \subseteq ToSet(out)
  BY DEF QueueOf
<1>2. N \in Nat /\ Len(parent) = N /\ \A x \in 1..N : Children(parent, x) \subseteq 1..N
  BY ForestIs
<1>3. Len(out) \in Nat /\ Len(out) > 0 /\ DOMAIN out = 1..Len(out) /\ Head(out) = out[1]
      /\ \A m \in 1..Len(out) : out[m] \in 1..N /\ out[m] \in ToSet(out)
  <2>1. Len(out) \in Nat /\ Len(out) > 0 /\ DOMAIN out = 1..Len(out) /\ Head(out) = out[1]
    BY <1>1, LastIs
  <2>2. \A m \in 1..Len(out) : out[m] \in 1..N
    BY <1>1, ElementOfSeq
  <2> QED BY <2>1, <2>2 DEF ToSet
<1>4. \A m \in 1..n : m \in 1..(n - 1) \/ m = n
  OBVIOUS
<1>5. CASE n > Len(out)
  <2>1. next = out /\ n \notin DOMAIN out
    BY <1>3, <1>5 DEF JoinOn
  <2> QED BY <1>1, <1>4, <2>1 DEF QueueOf
<1>6. CASE ~(n > Len(out))
  <2>1. PICK kids : kids = InOrder(Children(parent, out[n]) \ ToSet(out), N)
    OBVIOUS
  <2>2. n \in 1..Len(out) /\ out[n] \in 1..N /\ out[n] \in ToSet(out)
    BY <1>2, <1>3, <1>6
  <2>3. Children(parent, out[n]) \subseteq 1..N
    BY <1>2, <2>2
  <2>4. kids \in Seq(1..N) /\ IsInjective(kids) /\ ToSet(kids) = Children(parent, out[n]) \ ToSet(out)
    BY <1>2, <2>1, <2>3, InOrderIs DEF Ordered
  <2>5. next = out \o kids
    BY <1>2, <1>6, <2>1 DEF JoinOn
  <2>6. /\ next \in Seq(1..N) /\ Len(next) = Len(out) + Len(kids) /\ ToSet(next) = ToSet(out) \cup ToSet(kids)
        /\ \A m \in 1..Len(out) : next[m] = out[m]
    BY <1>1, <2>4, <2>5, ConcatHas
  <2>7. IsInjective(next)
    <3>1. ToSet(out) \cap ToSet(kids) = {}
      BY <2>4
    <3> QED BY <1>1, <2>4, <2>5, <3>1, ConcatOnce
  <2>8. ToSet(next) \subseteq Under(parent, i)
    BY <1>1, <2>2, <2>4, <2>6, UnderIs
  <2>9. next # << >> /\ Head(next) = i
    <3>1. Len(kids) \in Nat
      BY <2>4, LenProperties
    <3>2. next # << >>
      BY <1>3, <2>6, <3>1, EmptySeq
    <3>3. Head(next) = next[1] /\ 1 \in 1..Len(out)
      BY <1>3, <2>6, <3>2, LastIs
    <3> QED BY <1>1, <1>3, <2>6, <3>2, <3>3
  <2>10. ASSUME NEW m \in 1..n, m \in DOMAIN next PROVE Children(parent, next[m]) \subseteq ToSet(next)
    <3>1. m \in 1..Len(out) /\ next[m] = out[m]
      BY <1>3, <2>2, <2>6
    <3>2. CASE m = n
      <4>1. Children(parent, out[n]) \subseteq ToSet(out) \cup ToSet(kids)
        BY <2>4
      <4> QED BY <2>6, <3>1, <3>2, <4>1
    <3>3. CASE m \in 1..(n - 1)
      <4>1. Children(parent, out[m]) \subseteq ToSet(out)
        BY <1>1, <1>3, <3>1, <3>3
      <4> QED BY <2>6, <3>1, <4>1
    <3> QED BY <1>4, <3>2, <3>3
  <2> QED BY <2>6, <2>7, <2>8, <2>9, <2>10 DEF QueueOf
<1> QED BY <1>5, <1>6

(* The descendants of an index are what is under it, but for itself.       *)
LEMMA DescendantsIs ==
  ASSUME NEW N, NEW parent, Forest(parent, N), NEW i \in 1..N
  PROVE  /\ Descendants(parent, i) \in Seq(1..N)
         /\ ToSet(Descendants(parent, i)) = Under(parent, i) \ {i}
         /\ Below(parent, i) = Under(parent, i)
<1>1. N \in Nat /\ DOMAIN parent = 1..N /\ Len(parent) = N
  BY ForestIs
<1> DEFINE Goeson(f) == f = [n \in 0..N |-> QueueStep(parent, i, n, f)]
           S == Seq(1..N)
           op == [n \in 1..N |-> [out \in S |-> JoinOn(parent, n, out)]]
<1>2. Descendants(parent, i) = Tail((CHOOSE f : Goeson(f))[N])
  BY <1>1 DEF Descendants, QueueStep, JoinOn
<1>3. op \in [1..N -> [S -> S]]
  <2>1. ASSUME NEW n \in 1..N, NEW out \in S PROVE JoinOn(parent, n, out) \in S
    <3>1. PICK kids : kids = InOrder(Children(parent, out[n]) \ ToSet(out), N)
      OBVIOUS
    <3>2. kids \in Seq(1..N)
      BY <1>1, <3>1, InOrderIs DEF Ordered
    <3>3. out \o kids \in Seq(1..N)
      BY <3>2, ConcatHas
    <3>4. JoinOn(parent, n, out) = IF n > Len(out) THEN out ELSE out \o kids
      BY <1>1, <3>1 DEF JoinOn
    <3> QED BY <3>3, <3>4
  <2> HIDE DEF S
  <2> QED BY <2>1
<1>4. <<i>> \in S
  OBVIOUS
<1>5. PICK g : Goes(g, N, S, <<i>>, op)
  <2> HIDE DEF op, S
  <2> QED BY <1>1, <1>3, <1>4, StepsExist
<1>6. Goeson(g)
  <2> HIDE DEF S
  <2>1. g \in [0..N -> S] /\ g[0] = <<i>> /\ \A n \in 1..N : g[n] = op[n][g[n - 1]]
    BY <1>5 DEF Goes
  <2>2. \A n \in 1..N : g[n - 1] \in S
    <3>1. \A n \in 1..N : n - 1 \in 0..N
      BY <1>1
    <3> QED BY <2>1, <3>1
  <2>3. \A n \in 1..N : g[n] = QueueStep(parent, i, n, g)
    BY <2>1, <2>2 DEF QueueStep
  <2>4. \A n \in 0..N : g[n] = QueueStep(parent, i, n, g)
    <3>1. \A n \in 0..N : n = 0 \/ n \in 1..N
      BY <1>1
    <3>2. g[0] = QueueStep(parent, i, 0, g)
      BY <2>1 DEF QueueStep
    <3> QED BY <2>3, <3>1, <3>2
  <2> QED BY <2>1, <2>4
<1>7. PICK f : f = (CHOOSE h : Goeson(h)) /\ Goeson(f)
  <2> HIDE DEF Goeson
  <2> QED BY <1>6
<1>8. f[0] = <<i>> /\ \A n \in 1..N : f[n] = JoinOn(parent, n, f[n - 1])
  <2>1. 0 \in 0..N /\ \A n \in 1..N : n \in 0..N /\ n # 0
    BY <1>1
  <2> QED BY <1>7, <2>1 DEF QueueStep
<1> DEFINE G == {n \in 0..N : QueueOf(parent, N, i, n, f[n])}
<1>9. 0 \in G
  <2>1. <<i>> \in Seq(1..N) /\ <<i>> # << >> /\ Head(<<i>>) = i /\ DOMAIN <<i>> = 1..1
    OBVIOUS
  <2>2. <<i>>[1] = i /\ 1..1 = {1}
    OBVIOUS
  <2>3. ToSet(<<i>>) = {i} /\ IsInjective(<<i>>)
    BY <2>1, <2>2 DEF ToSet, IsInjective
  <2>4. i \in Under(parent, i)
    BY UnderIs
  <2>5. PICK one : one = <<i>>
    OBVIOUS
  <2>6. 0 \in 0..N /\ \A m \in 1..0 : FALSE
    BY <1>1
  <2>7. QueueOf(parent, N, i, 0, one)
    BY <2>1, <2>3, <2>4, <2>5, <2>6 DEF QueueOf
  <2> QED BY <1>8, <2>5, <2>6, <2>7
<1>10. ASSUME NEW n \in 1..N, n - 1 \in G PROVE n \in G
  <2>1. n \in 0..N
    BY <1>1
  <2>2. PICK out, next : out = f[n - 1] /\ next = f[n]
    OBVIOUS
  <2>3. QueueOf(parent, N, i, n - 1, out) /\ next = JoinOn(parent, n, out)
    BY <1>8, <1>10, <2>2
  <2>4. QueueOf(parent, N, i, n, next)
    BY <2>3, JoinOnIs
  <2> QED BY <2>1, <2>2, <2>4
<1>11. N \in G
  <2> HIDE DEF G
  <2>1. \A n \in 0..N : n \in G
    BY <1>1, <1>9, <1>10, AllPlaces
  <2> QED BY <1>1, <2>1
<1>12. PICK out : out = f[N]
  OBVIOUS
<1>13. /\ out \in Seq(1..N) /\ out # << >> /\ IsInjective(out) /\ Head(out) = i
       /\ ToSet(out) \subseteq Under(parent, i)
       /\ \A m \in 1..N : m \in DOMAIN out => Children(parent, out[m]) \subseteq ToSet(out)
  BY <1>11, <1>12 DEF QueueOf
<1>14. Len(out) <= N /\ DOMAIN out = 1..Len(out) /\ Len(out) \in Nat
  BY <1>1, <1>13, ShortEnough, LenProperties
<1>15. \A x \in ToSet(out) : Children(parent, x) \subseteq ToSet(out)
  <2>1. \A m \in DOMAIN out : m \in 1..N
    BY <1>1, <1>14
  <2> QED BY <1>13, <2>1 DEF ToSet
<1>16. /\ ToSet(Tail(out)) = ToSet(out) \ {i} /\ Tail(out) \in Seq(1..N) /\ i \in ToSet(out)
  BY <1>13, TailHas
<1>17. ToSet(out) = Under(parent, i)
  <2>1. Under(parent, i) \subseteq ToSet(out)
    BY <1>15, <1>16, UnderIs
  <2> QED BY <1>13, <2>1
<1>18. Descendants(parent, i) = Tail(out)
  BY <1>2, <1>7, <1>12
<1>19. ToSet(Descendants(parent, i)) = Under(parent, i) \ {i}
  BY <1>16, <1>17, <1>18
<1> QED BY <1>16, <1>17, <1>18, <1>19 DEF Below

-----------------------------------------------------------------------------
(* The rows of the certificates, one call after another *)

CallsOf(N) == [calls : Seq(1..N), rows : Seq(1..N)]

Chained(parent, collapsed, N, start, acc) ==
  /\ acc \in CallsOf(N) /\ IsInjective(acc.rows)
  /\ \A x \in ToSet(acc.rows) : x \in collapsed \/ Children(parent, x) \subseteq ToSet(acc.rows) \cup ToSet(acc.calls)
  /\ start \subseteq ToSet(acc.rows) \cup ToSet(acc.calls)
  /\ \A x \in ToSet(acc.rows) \cup ToSet(acc.calls) :
       x \in start \/ \E p \in parent[x] : p \in ToSet(acc.rows) /\ p \notin collapsed
Left(N, acc) == (N + 1) * (N - Len(acc.rows)) + Len(acc.calls)

(* What a drawing of the chains is made of.                                *)
LEMMA CallsAre ==
  ASSUME NEW N, NEW acc \in CallsOf(N)
  PROVE  acc.calls \in Seq(1..N) /\ acc.rows \in Seq(1..N)
BY DEF CallsOf

(* A call on what has its row already only takes itself off the stack.     *)
LEMMA ChainSeen ==
  ASSUME NEW N, NEW parent, Forest(parent, N), NEW collapsed, NEW start, NEW acc,
         Chained(parent, collapsed, N, start, acc), acc.calls # << >>, Head(acc.calls) \in ToSet(acc.rows),
         NEW next, next = PushChain(parent, collapsed, acc)
  PROVE  /\ Chained(parent, collapsed, N, start, next)
         /\ Left(N, next) + 1 <= Left(N, acc)
<1>1. acc \in CallsOf(N) /\ acc.calls \in Seq(1..N) /\ acc.rows \in Seq(1..N)
  BY CallsAre DEF Chained
<1>2. /\ Tail(acc.calls) \in Seq(1..N) /\ Len(acc.calls) = Len(Tail(acc.calls)) + 1
      /\ ToSet(acc.calls) = {Head(acc.calls)} \cup ToSet(Tail(acc.calls)) /\ Len(Tail(acc.calls)) \in Nat
  BY <1>1, HeadRest, LenProperties
<1>3. next = [acc EXCEPT !.calls = Tail(acc.calls)]
  BY DEF PushChain
<1>4. next \in CallsOf(N) /\ next.calls = Tail(acc.calls) /\ next.rows = acc.rows
  <2>1. PICK rest \in Seq(1..N) : rest = Tail(acc.calls)
    BY <1>2
  <2>2. next = [acc EXCEPT !.calls = rest]
    BY <1>3, <2>1
  <2>3. next \in CallsOf(N) /\ next.calls = rest /\ next.rows = acc.rows
    BY <1>1, <2>2 DEF CallsOf
  <2> QED BY <2>1, <2>3
<1>5. ToSet(acc.rows) \cup ToSet(acc.calls) = ToSet(next.rows) \cup ToSet(next.calls)
  BY <1>2, <1>4
<1>6. Chained(parent, collapsed, N, start, next)
  BY <1>4, <1>5 DEF Chained
<1>7. Left(N, next) + 1 <= Left(N, acc)
  <2>1. N \in Nat /\ Len(acc.rows) \in Nat
    BY <1>1, ForestIs, LenProperties
  <2>2. PICK b : b = (N + 1) * (N - Len(acc.rows)) /\ b \in Int
    <3>1. PICK l \in Nat : l = Len(acc.rows)
      BY <2>1
    <3>2. (N + 1) * (N - l) \in Int
      BY <2>1
    <3> QED BY <3>1, <3>2
  <2>3. Left(N, acc) = b + Len(acc.calls) /\ Left(N, next) = b + Len(Tail(acc.calls))
    BY <1>4, <2>2 DEF Left
  <2> QED BY <1>2, <2>2, <2>3
<1> QED BY <1>6, <1>7

(* A call on what has no row yet gives it one, with fewer calls to come.   *)
LEMMA ChainNew ==
  ASSUME NEW N, NEW parent, Forest(parent, N), NEW collapsed, NEW start, NEW acc,
         Chained(parent, collapsed, N, start, acc), acc.calls # << >>, Head(acc.calls) \notin ToSet(acc.rows),
         NEW next, next = PushChain(parent, collapsed, acc)
  PROVE  /\ Chained(parent, collapsed, N, start, next)
         /\ Left(N, next) + 1 <= Left(N, acc)
<1>1. acc \in CallsOf(N) /\ acc.calls \in Seq(1..N) /\ acc.rows \in Seq(1..N) /\ IsInjective(acc.rows)
  BY CallsAre DEF Chained
<1>2. PICK i : i = Head(acc.calls)
  OBVIOUS
<1>3. PICK rest : rest = Tail(acc.calls)
  OBVIOUS
<1>4. /\ i \in 1..N /\ rest \in Seq(1..N) /\ Len(acc.calls) = Len(rest) + 1
      /\ ToSet(acc.calls) = {i} \cup ToSet(rest) /\ Len(rest) \in Nat
  BY <1>1, <1>2, <1>3, HeadRest, LenProperties
<1>5. N \in Nat /\ Len(parent) = N
      /\ \A x \in 1..N : Children(parent, x) = {j \in 1..N : j # x /\ x \in parent[j]}
  BY ForestIs
<1>6. PICK kids : kids = InOrder(Children(parent, i), N)
  OBVIOUS
<1>7. Children(parent, i) \subseteq 1..N
  BY <1>4, <1>5
<1>8. kids \in Seq(1..N) /\ Len(kids) \in Nat /\ Len(kids) <= N /\ ToSet(kids) = Children(parent, i)
  <2>1. Ordered(kids, Children(parent, i), N)
    BY <1>5, <1>6, InOrderIs
  <2>2. kids \in Seq(1..N) /\ Len(kids) <= N /\ ToSet(kids) = Children(parent, i)
    BY <1>7, <2>1 DEF Ordered
  <2> QED BY <2>2, LenProperties
<1>9. PICK calls : calls = IF i \in collapsed THEN rest ELSE kids \o rest
  OBVIOUS
<1>10. /\ calls \in Seq(1..N) /\ Len(calls) \in Nat /\ Len(calls) + 1 <= Len(acc.calls) + N
       /\ ToSet(calls) = ToSet(rest) \cup (IF i \in collapsed THEN {} ELSE Children(parent, i))
  <2>1. kids \o rest \in Seq(1..N) /\ Len(kids \o rest) = Len(kids) + Len(rest)
        /\ ToSet(kids \o rest) = ToSet(kids) \cup ToSet(rest)
    BY <1>4, <1>8, ConcatHas
  <2>2. CASE i \in collapsed
    BY <1>4, <1>5, <1>9, <2>2
  <2>3. CASE i \notin collapsed
    <3>1. calls = kids \o rest
      BY <1>9, <2>3
    <3>2. calls \in Seq(1..N) /\ Len(calls) = Len(kids) + Len(rest) /\ ToSet(calls) = ToSet(kids) \cup ToSet(rest)
      BY <2>1, <3>1
    <3>3. Len(calls) \in Nat /\ Len(calls) + 1 <= Len(acc.calls) + N
      BY <1>4, <1>5, <1>8, <3>2
    <3> QED BY <1>8, <2>3, <3>2, <3>3
  <2> QED BY <2>2, <2>3
<1>11. PICK rows : rows = Append(acc.rows, i)
  OBVIOUS
<1>12. /\ rows \in Seq(1..N) /\ IsInjective(rows) /\ ToSet(rows) = ToSet(acc.rows) \cup {i}
       /\ Len(rows) = Len(acc.rows) + 1
  <2>1. /\ acc.rows \in Seq(1..N) /\ IsInjective(acc.rows) /\ i \in 1..N /\ i \notin ToSet(acc.rows)
    BY <1>1, <1>2, <1>4
  <2>2. /\ Append(acc.rows, i) \in Seq(1..N)
        /\ IsInjective(Append(acc.rows, i))
        /\ ToSet(Append(acc.rows, i)) = ToSet(acc.rows) \cup {i}
        /\ acc.rows # << >> => Head(Append(acc.rows, i)) = Head(acc.rows)
    BY <2>1, AppendOnce
  <2>3. Len(Append(acc.rows, i)) = Len(acc.rows) + 1
    BY <2>1, AppendProperties
  <2> QED BY <1>11, <2>2, <2>3
<1>13. next = [calls |-> calls, rows |-> rows]
  BY <1>2, <1>3, <1>5, <1>6, <1>9, <1>11 DEF PushChain
<1>14. next \in CallsOf(N) /\ next.calls = calls /\ next.rows = rows
  BY <1>10, <1>12, <1>13 DEF CallsOf
<1>15. /\ \A x \in ToSet(acc.rows) : x \in collapsed \/ Children(parent, x) \subseteq ToSet(acc.rows) \cup ToSet(acc.calls)
       /\ start \subseteq ToSet(acc.rows) \cup ToSet(acc.calls)
       /\ \A x \in ToSet(acc.rows) \cup ToSet(acc.calls) :
            x \in start \/ \E p \in parent[x] : p \in ToSet(acc.rows) /\ p \notin collapsed
  BY DEF Chained
<1>16. ToSet(acc.rows) \cup ToSet(acc.calls) \subseteq ToSet(rows) \cup ToSet(calls)
  BY <1>4, <1>10, <1>12
<1>17. \A x \in ToSet(rows) : x \in collapsed \/ Children(parent, x) \subseteq ToSet(rows) \cup ToSet(calls)
  <2>1. i \in collapsed \/ Children(parent, i) \subseteq ToSet(calls)
    BY <1>10
  <2> QED BY <1>12, <1>15, <1>16, <2>1
<1>18. start \subseteq ToSet(rows) \cup ToSet(calls)
  BY <1>15, <1>16
<1>19. ASSUME NEW x \in ToSet(rows) \cup ToSet(calls)
       PROVE  x \in start \/ \E p \in parent[x] : p \in ToSet(rows) /\ p \notin collapsed
  <2>1. CASE x \in ToSet(acc.rows) \cup ToSet(acc.calls)
    BY <1>12, <1>15, <2>1
  <2>2. CASE i \notin collapsed /\ x \in Children(parent, i)
    <3>1. i \in parent[x] /\ i \in ToSet(rows)
      BY <1>4, <1>5, <1>12, <2>2
    <3> QED BY <2>2, <3>1
  <2> QED BY <1>4, <1>10, <1>12, <2>1, <2>2
<1>20. Chained(parent, collapsed, N, start, next)
  BY <1>12, <1>14, <1>17, <1>18, <1>19 DEF Chained
<1>21. Left(N, next) + 1 <= Left(N, acc)
  <2>1. Len(acc.rows) \in Nat /\ Len(rows) \in Nat /\ Len(rows) <= N
    BY <1>1, <1>5, <1>12, ShortEnough
  <2>2. PICK b, c \in Nat : b = Len(acc.rows) /\ c = Len(rows)
    BY <2>1
  <2>3. PICK n, m \in Nat : n = Len(acc.calls) /\ m = Len(calls)
    BY <1>1, <1>10, LenProperties
  <2>4. (N + 1) * (N - c) + m + 1 <= (N + 1) * (N - b) + n
    <3>1. m + 1 <= n + N /\ b + 1 <= c /\ c <= N
      BY <1>10, <1>12, <2>1, <2>2, <2>3
    <3> QED BY <1>5, <2>2, <2>3, <3>1, LessToCome
  <2> QED BY <1>14, <2>2, <2>3, <2>4 DEF Left
<1> QED BY <1>20, <1>21

(* No call is left once as many were made as the indices can bring.        *)
LEMMA LeftIs ==
  ASSUME NEW N, NEW parent, Forest(parent, N), NEW collapsed, NEW start, NEW acc,
         Chained(parent, collapsed, N, start, acc)
  PROVE  /\ Left(N, acc) \in Int /\ Len(acc.calls) <= Left(N, acc)
         /\ Len(acc.calls) <= N + N => Left(N, acc) <= N * (N + 3)
<1>1. N \in Nat /\ acc.rows \in Seq(1..N) /\ IsInjective(acc.rows) /\ Len(acc.calls) \in Nat
  BY ForestIs, CallsAre, LenProperties DEF Chained
<1>2. Len(acc.rows) \in Nat /\ Len(acc.rows) <= N
  BY <1>1, ShortEnough
<1>3. PICK d, s \in Nat : s = Len(acc.rows) /\ N = d + s
  <2>1. N - Len(acc.rows) \in Nat /\ N = (N - Len(acc.rows)) + Len(acc.rows)
    BY <1>1, <1>2
  <2> QED BY <1>2, <2>1
<1>4. PICK l \in Nat : l = Len(acc.calls)
  BY <1>1
<1>5. N - Len(acc.rows) = d
  BY <1>1, <1>2, <1>3
<1>6. Left(N, acc) = (N + 1) * d + l
  BY <1>4, <1>5 DEF Left
<1>7. (N + 1) * d \in Nat /\ (N + 1) * d <= (N + 1) * N
  <2>1. (N + 1) * N = (N + 1) * d + (N + 1) * s /\ (N + 1) * s \in Nat /\ (N + 1) * d \in Nat
    BY <1>1, <1>3
  <2> QED BY <1>1, <2>1
<1>8. N * (N + 3) = (N + 1) * N + N + N
  BY <1>1
<1>9. PICK x, y \in Nat : x = (N + 1) * d /\ y = (N + 1) * N
  BY <1>1, <1>7
<1>10. PICK z, b : z = N * (N + 3) /\ b = Left(N, acc)
  OBVIOUS
<1>11. b = x + l
  BY <1>6, <1>9, <1>10
<1>12. z = y + N + N /\ x <= y
  BY <1>7, <1>8, <1>9, <1>10
<1>13. b \in Int /\ l <= b /\ (l <= N + N => b <= z)
  BY <1>1, <1>11, <1>12
<1> QED BY <1>4, <1>10, <1>13

(* One call, whatever it finds, keeps the drawing of the chains.           *)
LEMMA ChainOnce ==
  ASSUME NEW N, NEW parent, Forest(parent, N), NEW collapsed, NEW start, NEW acc,
         Chained(parent, collapsed, N, start, acc), NEW next, next = PushChain(parent, collapsed, acc)
  PROVE  /\ Chained(parent, collapsed, N, start, next)
         /\ IF acc.calls = << >> THEN next = acc ELSE Left(N, next) + 1 <= Left(N, acc)
<1>1. CASE acc.calls = << >>
  <2>1. next = acc
    BY <1>1 DEF PushChain
  <2> QED BY <1>1, <2>1
<1>2. CASE acc.calls # << >> /\ Head(acc.calls) \in ToSet(acc.rows)
  BY <1>2, ChainSeen
<1>3. CASE acc.calls # << >> /\ Head(acc.calls) \notin ToSet(acc.rows)
  BY <1>3, ChainNew
<1> QED BY <1>1, <1>2, <1>3

StartOf(parent) ==
  [calls |-> InOrder(Roots(parent), Len(parent)) \o InOrder(Unreached(parent), Len(parent)), rows |-> << >>]
DrawStep(parent, collapsed, n, f) ==
  IF n = 0 THEN StartOf(parent) ELSE PushChain(parent, collapsed, f[n - 1])

(* The rows are what the roots and the unreached lead to through what is    *)
(* not folded, each once.                                                  *)
RowsFrom(parent, collapsed, N, start, rows) ==
  /\ rows \in Seq(1..N) /\ IsInjective(rows) /\ start \subseteq ToSet(rows)
  /\ \A x \in ToSet(rows) : x \in collapsed \/ Children(parent, x) \subseteq ToSet(rows)
  /\ \A x \in ToSet(rows) : x \in start \/ \E p \in parent[x] : p \in ToSet(rows) /\ p \notin collapsed

(* The rows of the chains once all the calls have returned.                *)
LEMMA CertTreeIs ==
  ASSUME NEW N, NEW parent, Forest(parent, N), NEW collapsed,
         NEW rows, rows = BuildCertTree(parent, collapsed),
         NEW start, start = Roots(parent) \cup Unreached(parent)
  PROVE  RowsFrom(parent, collapsed, N, start, rows)
<1>1. N \in Nat /\ Len(parent) = N /\ DOMAIN parent = 1..N
  BY ForestIs
<1>2. PICK M : M = N * (N + 3)
  OBVIOUS
<1>3. M \in Nat
  <2>1. \A a, b \in Nat : a * b \in Nat
    OBVIOUS
  <2>2. N \in Nat /\ N + 3 \in Nat
    BY <1>1
  <2> QED BY <1>2, <2>1, <2>2
<1> DEFINE Goeson(f) == f = [n \in 0..M |-> DrawStep(parent, collapsed, n, f)]
           S == {a \in CallsOf(N) : Chained(parent, collapsed, N, start, a)}
           op == [n \in 1..M |-> [a \in S |-> PushChain(parent, collapsed, a)]]
<1>4. rows = (CHOOSE f : Goeson(f))[M].rows
  BY <1>1, <1>2 DEF BuildCertTree, DrawStep, StartOf
<1>5. op \in [1..M -> [S -> S]]
  <2>1. ASSUME NEW a \in S PROVE PushChain(parent, collapsed, a) \in S
    <3>1. PICK b : b = PushChain(parent, collapsed, a)
      OBVIOUS
    <3>2. Chained(parent, collapsed, N, start, b)
      BY <3>1, ChainOnce
    <3> QED BY <3>1, <3>2 DEF Chained
  <2> HIDE DEF S
  <2> QED BY <2>1
<1>6. PICK first : first = StartOf(parent)
  OBVIOUS
<1>7. Chained(parent, collapsed, N, start, first) /\ Len(first.calls) <= N + N
  <2>1. PICK roots, rest : roots = InOrder(Roots(parent), N) /\ rest = InOrder(Unreached(parent), N)
    OBVIOUS
  <2>2. Roots(parent) \subseteq 1..N /\ Unreached(parent) \subseteq 1..N
    BY <1>1 DEF Roots, Unreached
  <2>3. /\ roots \in Seq(1..N) /\ Len(roots) <= N /\ ToSet(roots) = Roots(parent)
    <3>1. Ordered(roots, Roots(parent), N)
      BY <1>1, <2>1, InOrderIs
    <3> QED BY <2>2, <3>1 DEF Ordered
  <2>4. /\ rest \in Seq(1..N) /\ Len(rest) <= N /\ ToSet(rest) = Unreached(parent)
    <3>1. Ordered(rest, Unreached(parent), N)
      BY <1>1, <2>1, InOrderIs
    <3> QED BY <2>2, <3>1 DEF Ordered
  <2>5. /\ roots \o rest \in Seq(1..N) /\ Len(roots \o rest) = Len(roots) + Len(rest)
        /\ ToSet(roots \o rest) = ToSet(roots) \cup ToSet(rest)
    BY <2>3, <2>4, ConcatHas
  <2>6. PICK calls \in Seq(1..N) : calls = roots \o rest
    BY <2>5
  <2>7. PICK none \in Seq(1..N) : none = << >>
    BY EmptyHas
  <2>8. first = [calls |-> calls, rows |-> none]
    BY <1>1, <1>6, <2>1, <2>6, <2>7 DEF StartOf
  <2>9. first.calls = calls /\ first.rows = none /\ first \in CallsOf(N)
    <3>1. calls \in Seq(1..N) /\ none \in Seq(1..N)
      BY <2>6, <2>7
    <3> QED BY ONLY <2>8, <3>1 DEF CallsOf
  <2>10. ToSet(none) = {} /\ IsInjective(none) /\ ToSet(calls) = start
    BY <2>3, <2>4, <2>5, <2>6, <2>7, EmptyHas
  <2>11. Chained(parent, collapsed, N, start, first)
    BY <2>9, <2>10 DEF Chained
  <2>12. Len(calls) <= N + N
    <3>1. Len(roots) \in Nat /\ Len(rest) \in Nat
      BY <2>3, <2>4, LenProperties
    <3> QED BY <1>1, <2>3, <2>4, <2>5, <2>6, <3>1
  <2> QED BY <2>9, <2>11, <2>12
<1>8. PICK g : Goes(g, M, S, first, op)
  <2>1. first \in S
    BY <1>7 DEF Chained
  <2> HIDE DEF op, S
  <2> QED BY <1>3, <1>5, <2>1, StepsExist
<1>9. Goeson(g)
  <2> HIDE DEF S
  <2>1. g \in [0..M -> S] /\ g[0] = first /\ \A n \in 1..M : g[n] = op[n][g[n - 1]]
    BY <1>8 DEF Goes
  <2>2. \A n \in 1..M : g[n - 1] \in S
    <3>1. \A n \in 1..M : n - 1 \in 0..M
      BY <1>3
    <3> QED BY <2>1, <3>1
  <2>3. \A n \in 1..M : g[n] = DrawStep(parent, collapsed, n, g)
    <3>1. \A n \in 1..M : op[n][g[n - 1]] = PushChain(parent, collapsed, g[n - 1])
      BY <2>2
    <3>2. \A n \in 1..M : n # 0
      OBVIOUS
    <3> HIDE DEF op
    <3> QED BY <2>1, <3>1, <3>2 DEF DrawStep
  <2>4. \A n \in 0..M : g[n] = DrawStep(parent, collapsed, n, g)
    <3>1. \A n \in 0..M : n = 0 \/ n \in 1..M
      BY <1>3
    <3>2. g[0] = DrawStep(parent, collapsed, 0, g)
      BY <1>6, <2>1 DEF DrawStep
    <3> QED BY <2>3, <3>1, <3>2
  <2> QED BY <2>1, <2>4
<1>10. PICK f : f = (CHOOSE h : Goeson(h)) /\ Goeson(f)
  <2> HIDE DEF Goeson
  <2> QED BY <1>9
<1>11. f[0] = first /\ \A n \in 1..M : f[n] = PushChain(parent, collapsed, f[n - 1])
  <2>1. 0 \in 0..M /\ \A n \in 1..M : n \in 0..M /\ n # 0
    BY <1>3
  <2> QED BY <1>6, <1>10, <2>1 DEF DrawStep
<1> DEFINE G == {n \in 0..M : /\ Chained(parent, collapsed, N, start, f[n])
                              /\ f[n].calls = << >> \/ Left(N, f[n]) + n <= M}
<1>12. 0 \in G
  <2>1. Left(N, first) \in Int /\ Left(N, first) <= M
    BY <1>2, <1>7, LeftIs
  <2>2. Left(N, first) + 0 <= M /\ 0 \in 0..M
    BY <1>3, <2>1
  <2> QED BY <1>7, <1>11, <2>2
<1>13. ASSUME NEW n \in 1..M, n - 1 \in G PROVE n \in G
  <2>1. PICK a, b : a = f[n - 1] /\ b = f[n]
    OBVIOUS
  <2>2. Chained(parent, collapsed, N, start, a) /\ (a.calls = << >> \/ Left(N, a) + (n - 1) <= M)
    BY <1>13, <2>1
  <2>3. b = PushChain(parent, collapsed, a)
    BY <1>11, <2>1
  <2>4. /\ Chained(parent, collapsed, N, start, b)
        /\ IF a.calls = << >> THEN b = a ELSE Left(N, b) + 1 <= Left(N, a)
    BY <2>2, <2>3, ChainOnce
  <2>5. Left(N, a) \in Int /\ Left(N, b) \in Int
    BY <2>2, <2>4, LeftIs
  <2>6. b.calls = << >> \/ Left(N, b) + n <= M
    BY <1>3, <2>2, <2>4, <2>5
  <2>7. n \in 0..M
    BY <1>3
  <2> QED BY <2>1, <2>4, <2>6, <2>7
<1>14. M \in G
  <2> HIDE DEF G
  <2>1. \A n \in 0..M : n \in G
    BY <1>3, <1>12, <1>13, AllPlaces
  <2> QED BY <1>3, <2>1
<1>15. PICK end : end = f[M]
  OBVIOUS
<1>16. Chained(parent, collapsed, N, start, end) /\ (end.calls = << >> \/ Left(N, end) + M <= M)
  BY <1>14, <1>15
<1>17. rows = end.rows
  BY <1>4, <1>10, <1>15
<1>18. end.calls = << >>
  <2>1. end.calls \in Seq(1..N) /\ Len(end.calls) \in Nat
    BY <1>16, CallsAre, LenProperties DEF Chained
  <2>2. Left(N, end) \in Int /\ Len(end.calls) <= Left(N, end)
    BY <1>16, LeftIs
  <2>3. end.calls = << >> \/ Len(end.calls) = 0
    BY <1>3, <1>16, <2>1, <2>2
  <2> QED BY <2>1, <2>3, EmptySeq
<1>19. ToSet(end.calls) = {} /\ rows \in Seq(1..N)
  BY <1>16, <1>17, <1>18, CallsAre, EmptyHas DEF Chained
<1> QED BY <1>16, <1>17, <1>19 DEF Chained, RowsFrom

-----------------------------------------------------------------------------
(* Where references go round, no root is above *)

(* Nothing is above a root.                                                *)
LEMMA UpOfRoot ==
  ASSUME NEW N, NEW parent, Forest(parent, N), NEW r \in 1..N, parent[r] = {}
  PROVE  Up(parent, r) = {r}
<1>1. r \in {r} /\ \A x \in {r} : x \in 1..N => parent[x] \subseteq {r}
  OBVIOUS
<1>2. Up(parent, r) \subseteq {r}
  BY <1>1, UpIs
<1> QED BY <1>2, UpIs

(* Of two above the same index, one is above the other. *)
LEMMA OneAbove ==
  ASSUME NEW N, NEW parent, Forest(parent, N), NEW i \in 1..N, NEW x \in Up(parent, i), NEW y \in Up(parent, i)
  PROVE  x \in Up(parent, y) \/ y \in Up(parent, x)
<1>1. Up(parent, i) \subseteq 1..N /\ y \in 1..N
  BY UpIs
<1> DEFINE P == {z \in 1..N : z \in Up(parent, y) \/ y \in Up(parent, z)}
<1>2. i \in P
  OBVIOUS
<1>3. ASSUME NEW z \in P, NEW p \in parent[z] PROVE p \in P
  <2>1. p \in 1..N /\ Up(parent, z) = {z} \cup Up(parent, p)
    BY UpStep
  <2>2. CASE z \in Up(parent, y)
    BY <1>1, <2>1, <2>2, UpIs
  <2>3. CASE y \in Up(parent, z) /\ y # z
    BY <2>1, <2>3
  <2>4. CASE y = z
    <3>1. p \in Up(parent, y)
      BY <1>1, <2>1, <2>4, UpIs
    <3> QED BY <2>1, <3>1
  <2> QED BY <2>2, <2>3, <2>4
<1> HIDE DEF P
<1>4. Up(parent, i) \subseteq P
  BY <1>2, <1>3, UpIs
<1> QED BY <1>4 DEF P

(* What no root reaches is what has no root above it.                      *)
LEMMA UnreachedAre ==
  ASSUME NEW N, NEW parent, Forest(parent, N), NEW i \in 1..N
  PROVE  i \in Unreached(parent) <=> Up(parent, i) \cap Roots(parent) = {}
<1>1. N \in Nat /\ DOMAIN parent = 1..N /\ Links(Kids(parent), N)
      /\ \A x \in 1..N : Kids(parent)[x] = Children(parent, x)
  BY ForestIs
<1>2. DOMAIN Kids(parent) = 1..N
  BY <1>1, LinksLen
<1>3. Roots(parent) \in SUBSET (1..N)
  BY <1>1 DEF Roots
<1>4. PICK kids, roots, reached : kids = Kids(parent) /\ roots = Roots(parent) /\ reached = Closure(kids, roots)
  OBVIOUS
<1>5. /\ reached \in SUBSET (1..N) /\ roots \subseteq reached /\ Kept(kids, reached)
      /\ \A P : roots \subseteq P /\ Kept(kids, P) => reached \subseteq P
  BY <1>1, <1>3, <1>4, ClosureIs
<1>6. Unreached(parent) = (1..N) \ reached
  BY <1>1, <1>4 DEF Unreached, Kids
<1>7. ASSUME i \in reached PROVE Up(parent, i) \cap roots # {}
  <2> DEFINE P == {x \in 1..N : Up(parent, x) \cap roots # {}}
  <2>1. roots \subseteq P
    BY <1>3, <1>4, UpIs
  <2>2. ASSUME NEW x \in P, NEW y \in Children(parent, x) PROVE y \in P
    <3>1. y \in 1..N /\ x \in parent[y]
      BY <2>2, ForestIs
    <3>2. Up(parent, y) = {y} \cup Up(parent, x)
      BY <3>1, UpStep
    <3> QED BY <3>1, <3>2
  <2>3. Kept(kids, P)
    <3>1. \A x \in P : x \in 1..N
      OBVIOUS
    <3> HIDE DEF P
    <3> QED BY <1>1, <1>2, <1>4, <2>2, <3>1 DEF Kept
  <2> HIDE DEF P
  <2>4. reached \subseteq P
    BY <1>5, <2>1, <2>3
  <2> QED BY <1>7, <2>4 DEF P
<1>8. ASSUME NEW r \in Up(parent, i) \cap roots PROVE i \in reached
  <2>1. r \in 1..N /\ i \in Under(parent, r)
    BY <1>3, <1>4, UpUnder
  <2>2. r \in reached /\ \A x \in reached : x \in 1..N => Children(parent, x) \subseteq reached
    BY <1>1, <1>2, <1>4, <1>5 DEF Kept
  <2> QED BY <2>1, <2>2, UnderIs
<1> QED BY <1>4, <1>6, <1>7, <1>8

(* An index that is above its own parent has no root above it.             *)
LEMMA RoundHasNoRoot ==
  ASSUME NEW N, NEW parent, Forest(parent, N), NEW i \in 1..N,
         NEW j \in Up(parent, i), NEW k \in parent[j], j \in Up(parent, k)
  PROVE  Up(parent, i) \cap Roots(parent) = {}
<1>1. j \in 1..N /\ k \in 1..N /\ \A x \in parent[j] : x = k
  BY UpIs, ForestIs DEF AtMostOne
<1> SUFFICES ASSUME NEW r \in Up(parent, i) \cap Roots(parent) PROVE FALSE
  OBVIOUS
<1>2. r \in 1..N /\ parent[r] = {}
  BY ForestIs DEF Roots
<1>3. Up(parent, r) = {r}
  BY <1>2, UpOfRoot
<1>4. r # j
  BY <1>2
<1>5. r \in Up(parent, j)
  BY <1>3, <1>4, OneAbove
<1> DEFINE P == {x \in 1..N : j \in Up(parent, x)}
<1>6. j \in P
  BY <1>1, UpIs
<1>7. ASSUME NEW x \in P, NEW p \in parent[x] PROVE p \in P
  <2>1. p \in 1..N /\ Up(parent, x) = {x} \cup Up(parent, p)
    BY UpStep
  <2>2. CASE x = j
    BY <1>1, <2>1, <2>2
  <2>3. CASE x # j
    BY <2>1, <2>3
  <2> QED BY <2>2, <2>3
<1> HIDE DEF P
<1>8. Up(parent, j) \subseteq P
  BY <1>1, <1>6, <1>7, UpIs
<1>9. j \in Up(parent, r)
  BY <1>5, <1>8 DEF P
<1> QED BY <1>3, <1>4, <1>9

(* Where no root is above, going up comes back somewhere.                  *)
LEMMA NoRootIsRound ==
  ASSUME NEW N, NEW parent, Forest(parent, N), NEW i \in 1..N, Up(parent, i) \cap Roots(parent) = {}
  PROVE  \E j \in Up(parent, i) : \E k \in parent[j] : j \in Up(parent, k)
<1>1. N \in Nat /\ DOMAIN parent = 1..N /\ \A x \in 1..N : parent[x] \subseteq 1..N
  BY ForestIs
<1>2. \A x \in 1..N : Up(parent, x) \subseteq 1..N /\ IsFiniteSet(Up(parent, x)) /\ Cardinality(Up(parent, x)) \in Nat
  <2>1. IsFiniteSet(1..N)
    BY <1>1, FS_Interval
  <2>2. \A x \in 1..N : Up(parent, x) \subseteq 1..N
    BY UpIs
  <2> QED BY <2>1, <2>2, FS_Subset, FS_CardinalityType
<1>3. Up(parent, i) \subseteq 1..N /\ i \in Up(parent, i) /\ \A x \in Up(parent, i) : parent[x] \subseteq Up(parent, i)
  BY UpIs
<1> DEFINE T == {Cardinality(Up(parent, x)) : x \in Up(parent, i)}
<1>4. PICK n \in T : \A m \in T : n <= m
  <2>1. T \in SUBSET Nat /\ T # {}
    BY <1>2, <1>3
  <2> HIDE DEF T
  <2> QED BY <2>1, LeastNatural
<1>5. PICK j \in Up(parent, i) : n = Cardinality(Up(parent, j))
  OBVIOUS
<1>6. j \in 1..N /\ parent[j] # {}
  BY <1>1, <1>3 DEF Roots
<1>7. PICK k \in parent[j] : TRUE
  BY <1>6
<1>8. k \in 1..N /\ k \in Up(parent, i) /\ Up(parent, j) = {j} \cup Up(parent, k)
  BY <1>1, <1>3, <1>6, UpStep
<1>9. n <= Cardinality(Up(parent, k))
  BY <1>4, <1>8
<1>10. Up(parent, k) = Up(parent, j)
  <2>1. Up(parent, k) \in SUBSET Up(parent, j)
    BY <1>8
  <2>2. Cardinality(Up(parent, k)) <= Cardinality(Up(parent, j))
        /\ (Cardinality(Up(parent, k)) = Cardinality(Up(parent, j)) => Up(parent, k) = Up(parent, j))
    BY <1>2, <1>6, <2>1, FS_Subset
  <2>3. Cardinality(Up(parent, k)) \in Nat /\ Cardinality(Up(parent, j)) \in Nat
    BY <1>2, <1>6, <1>8
  <2> QED BY <1>5, <1>9, <2>2, <2>3
<1>11. j \in Up(parent, k)
  BY <1>8, <1>10
<1> QED BY <1>7, <1>11

RoundAbove(parent, i) == \E j \in Up(parent, i) : \E k \in parent[j] : j \in Up(parent, k) \ {k}

(* An index has a row when nothing above it is folded, or where it goes round. *)
LEMMA LinksAccounted ==
  ASSUME NEW N, NEW parent, Forest(parent, N), \A i \in 1..N : i \notin parent[i], NEW collapsed,
         NEW rows, rows = BuildCertTree(parent, collapsed), NEW i \in 1..N
  PROVE  i \in ToSet(rows) <=> (RoundAbove(parent, i) \/ (Up(parent, i) \ {i}) \cap collapsed = {})
<1>1. /\ N \in Nat /\ DOMAIN parent = 1..N
      /\ \A x \in 1..N : parent[x] \subseteq 1..N /\ AtMostOne(parent[x])
      /\ \A x \in 1..N : Children(parent, x) = {j \in 1..N : j # x /\ x \in parent[j]}
  BY ForestIs
<1>2. PICK start : start = Roots(parent) \cup Unreached(parent)
  OBVIOUS
<1>3. /\ rows \in Seq(1..N) /\ IsInjective(rows) /\ start \subseteq ToSet(rows)
      /\ \A x \in ToSet(rows) : x \in collapsed \/ Children(parent, x) \subseteq ToSet(rows)
      /\ \A x \in ToSet(rows) : x \in start \/ \E p \in parent[x] : p \in ToSet(rows) /\ p \notin collapsed
  <2>1. RowsFrom(parent, collapsed, N, start, rows)
    BY <1>2, CertTreeIs
  <2> QED BY <2>1 DEF RowsFrom
<1>4. /\ Up(parent, i) \subseteq 1..N /\ i \in Up(parent, i)
      /\ \A x \in Up(parent, i) : parent[x] \subseteq Up(parent, i)
  BY UpIs
<1>5. RoundAbove(parent, i) <=> i \in Unreached(parent)
  <2>1. ASSUME RoundAbove(parent, i) PROVE i \in Unreached(parent)
    <3>1. PICK j \in Up(parent, i) : \E k \in parent[j] : j \in Up(parent, k)
      BY <2>1 DEF RoundAbove
    <3>2. Up(parent, i) \cap Roots(parent) = {}
      <4>1. PICK k \in parent[j] : j \in Up(parent, k)
        BY <3>1
      <4> QED BY <4>1, RoundHasNoRoot
    <3> QED BY <3>2, UnreachedAre
  <2>2. ASSUME i \in Unreached(parent) PROVE RoundAbove(parent, i)
    <3>1. Up(parent, i) \cap Roots(parent) = {}
      BY <2>2, UnreachedAre
    <3>2. PICK j \in Up(parent, i) : \E k \in parent[j] : j \in Up(parent, k)
      BY <3>1, NoRootIsRound
    <3>3. \A k \in parent[j] : j # k
      BY <1>4, <3>2
    <3> QED BY <3>2, <3>3 DEF RoundAbove
  <2> QED BY <2>1, <2>2
<1>6. ASSUME i \in Unreached(parent) PROVE i \in ToSet(rows)
  BY <1>2, <1>3, <1>6
<1>7. ASSUME i \notin Unreached(parent) PROVE \E r \in Up(parent, i) : r \in Roots(parent)
  BY <1>7, UnreachedAre
<1>8. ASSUME i \notin Unreached(parent), (Up(parent, i) \ {i}) \cap collapsed = {} PROVE i \in ToSet(rows)
  <2> SUFFICES ASSUME i \notin ToSet(rows) PROVE FALSE
    OBVIOUS
  <2> DEFINE P == {x \in Up(parent, i) : x \notin ToSet(rows)}
  <2>1. i \in P
    BY <1>4
  <2>2. ASSUME NEW x \in P, NEW p \in parent[x] PROVE p \in P
    <3>1. p \in Up(parent, i) /\ x \in 1..N /\ p \in 1..N
      BY <1>1, <1>4
    <3>2. x \in Children(parent, p)
      BY <1>1, <3>1
    <3>3. CASE p \in ToSet(rows)
      <4>1. p \in collapsed
        BY <1>3, <3>2, <3>3
      <4>2. p # i
        BY <3>3
      <4> QED BY <1>8, <3>1, <4>1, <4>2
    <3> QED BY <3>1, <3>3
  <2> HIDE DEF P
  <2>3. Up(parent, i) \subseteq P
    BY <2>1, <2>2, UpIs
  <2>4. PICK r \in Up(parent, i) : r \in Roots(parent)
    BY <1>7, <1>8
  <2> QED BY <1>2, <1>3, <2>3, <2>4 DEF P
<1>9. ASSUME i \notin Unreached(parent), i \in ToSet(rows) PROVE (Up(parent, i) \ {i}) \cap collapsed = {}
  <2> DEFINE P == {x \in Up(parent, i) : x \in ToSet(rows) /\ (x = i \/ x \notin collapsed)}
  <2>1. i \in P
    BY <1>4, <1>9
  <2>2. PICK r \in Up(parent, i) : r \in Roots(parent)
    BY <1>7, <1>9
  <2>3. r \in 1..N /\ parent[r] = {} /\ Up(parent, r) = {r}
    BY <1>4, <2>2, UpOfRoot DEF Roots
  <2>4. ASSUME NEW x \in P, NEW p \in parent[x] PROVE p \in P
    <3>1. x \in 1..N /\ p \in Up(parent, i) /\ x \in Up(parent, i)
      BY <1>4
    <3>2. x \notin Roots(parent)
      BY <2>4 DEF Roots
    <3>3. x \notin Unreached(parent)
      <4>1. x # r
        BY <2>2, <3>2
      <4>2. r \in Up(parent, x)
        BY <2>3, <3>1, <4>1, OneAbove
      <4> QED BY <2>2, <3>1, <4>2, UnreachedAre
    <3>4. PICK q \in parent[x] : q \in ToSet(rows) /\ q \notin collapsed
      BY <1>2, <1>3, <3>2, <3>3
    <3>5. q = p
      BY <1>1, <3>1, <3>4 DEF AtMostOne
    <3> QED BY <3>1, <3>4, <3>5
  <2> HIDE DEF P
  <2>5. Up(parent, i) \subseteq P
    BY <2>1, <2>4, UpIs
  <2> QED BY <2>5 DEF P
<1> QED BY <1>5, <1>6, <1>8, <1>9

-----------------------------------------------------------------------------
(* The chains are kept *)

ChainsDrawn ==
  Judged("cert") =>
    LET all    == cluster.resources
        parent == ParentMap(all)
        folded == Autofold(all, cluster.collapsed, cluster.toggled)
    IN  /\ GoodChains(all)
        /\ reasons.up = parent
        /\ reasons.above = [i \in DOMAIN all |-> ToSet(Tail(ChainPath(parent, i)))]
        /\ reasons.below = [i \in DOMAIN all |-> Below(parent, i)]
        /\ reasons.owner = [i \in DOMAIN all |-> OwningCertificate(all, parent, i)]
        /\ reasons.live = {i \in DOMAIN all : InFlight(all[i])}
        /\ reasons.kept = FilterChains(all, parent, cluster.filter)
        /\ reasons.rows = BuildCertTree(parent, cluster.collapsed)
        /\ reasons.auto = folded
        /\ reasons.first = BuildCertTree(parent, folded)
        /\ reasons.retry = [i \in DOMAIN all |-> AcmeRetry(all, parent, i)]

(* What the view collected, in terms of what is above and below.           *)
Collected(all, parent, N) ==
  /\ GoodChains(all) /\ DOMAIN all = 1..N /\ parent = ParentMap(all) /\ Forest(parent, N)
  /\ \A i \in 1..N : i \notin parent[i]
  /\ reasons.up = parent
  /\ \A i \in 1..N : reasons.above[i] = Up(parent, i) \ {i} /\ reasons.below[i] = Under(parent, i)
  /\ all = cluster.resources /\ Judged("cert")

(* What is collected of the chains, in those terms.                        *)
LEMMA CollectedIs ==
  ASSUME ChainsDrawn, Judged("cert")
  PROVE  \E N : Collected(cluster.resources, ParentMap(cluster.resources), N)
<1>1. PICK all : all = cluster.resources
  OBVIOUS
<1>2. PICK parent : parent = ParentMap(all)
  OBVIOUS
<1>3. PICK N : N = Len(all)
  OBVIOUS
<1>4. /\ GoodChains(all) /\ reasons.up = parent
      /\ reasons.above = [i \in DOMAIN all |-> ToSet(Tail(ChainPath(parent, i)))]
      /\ reasons.below = [i \in DOMAIN all |-> Below(parent, i)]
  BY <1>1, <1>2 DEF ChainsDrawn
<1>5. DOMAIN all = 1..N
  BY <1>3, <1>4 DEF GoodChains, Indexed
<1>6. Forest(parent, N) /\ \A i \in 1..N : i \notin parent[i]
  BY <1>2, <1>3, <1>4, ChainForest
<1>7. ASSUME NEW i \in 1..N PROVE reasons.above[i] = Up(parent, i) \ {i} /\ reasons.below[i] = Under(parent, i)
  <2>1. PICK path : path = ChainPath(parent, i)
    OBVIOUS
  <2>2. path \in Seq(1..N) /\ path # << >> /\ IsInjective(path) /\ Head(path) = i /\ ToSet(path) = Up(parent, i)
    BY <1>6, <2>1, ChainPathIs
  <2>3. ToSet(Tail(path)) = Up(parent, i) \ {i}
    BY <2>2, TailHas
  <2>4. Below(parent, i) = Under(parent, i)
    BY <1>6, DescendantsIs
  <2> QED BY <1>4, <1>5, <2>1, <2>3, <2>4
<1>8. Collected(all, parent, N)
  BY <1>1, <1>2, <1>4, <1>5, <1>6, <1>7 DEF Collected
<1> QED BY <1>1, <1>2, <1>8

(* Each resource of a chain is accounted for.                              *)
LEMMA EveryLinkKept ==
  ASSUME ChainsDrawn
  PROVE  EveryLinkAccounted
<1> SUFFICES ASSUME Judged("cert")
             PROVE  /\ IsInjective(reasons.rows)
                    /\ \A i \in DOMAIN cluster.resources :
                         (i \in ToSet(reasons.rows)) <=> (Looped(i) \/ reasons.above[i] \cap cluster.collapsed = {})
  BY DEF EveryLinkAccounted
<1>1. PICK all, parent, N : Collected(all, parent, N) /\ all = cluster.resources
  BY CollectedIs
<1>2. /\ DOMAIN all = 1..N /\ parent = ParentMap(all) /\ Forest(parent, N)
      /\ \A i \in 1..N : i \notin parent[i]
      /\ reasons.up = parent
      /\ \A i \in 1..N : reasons.above[i] = Up(parent, i) \ {i}
  BY <1>1 DEF Collected
<1>3. PICK rows, collapsed : rows = reasons.rows /\ collapsed = cluster.collapsed
  OBVIOUS
<1>4. rows = BuildCertTree(parent, collapsed)
  BY <1>1, <1>2, <1>3 DEF ChainsDrawn
<1>5. IsInjective(rows)
  BY <1>2, <1>4, CertTreeIs DEF RowsFrom
<1>6. ASSUME NEW i \in 1..N PROVE Looped(i) <=> RoundAbove(parent, i)
  <2>1. /\ Up(parent, i) \subseteq 1..N /\ i \in Up(parent, i)
        /\ \A x \in 1..N : parent[x] \subseteq 1..N
    BY <1>2, UpIs, ForestIs
  <2>2. reasons.above[i] \cup {i} = Up(parent, i)
    BY <1>2, <2>1
  <2>3. \A j \in Up(parent, i) : \A k \in parent[j] : reasons.above[k] = Up(parent, k) \ {k}
    BY <1>2, <2>1
  <2> QED BY <1>2, <2>2, <2>3 DEF Looped, RoundAbove
<1>7. ASSUME NEW i \in 1..N PROVE (i \in ToSet(rows)) <=> (Looped(i) \/ reasons.above[i] \cap collapsed = {})
  BY <1>2, <1>4, <1>6, LinksAccounted
<1> QED BY <1>1, <1>2, <1>3, <1>5, <1>7

(* A challenge hangs under its order.                                      *)
LEMMA ChallengesKept ==
  ASSUME ChainsDrawn
  PROVE  ChallengesFollowTheirOrder
<1> SUFFICES ASSUME Judged("cert"), NEW i \in DOMAIN cluster.resources, NEW j \in DOMAIN cluster.resources,
                    KindOf(cluster.resources[i]) = "Challenge", KindOf(cluster.resources[j]) = "Order",
                    NEW n \in DOMAIN cluster.resources[i].owners,
                    <<cluster.resources[i].owners[n].kind, cluster.resources[i].id[2],
                      cluster.resources[i].owners[n].name>> = cluster.resources[j].id
             PROVE  reasons.up[i] = {j}
  BY DEF ChallengesFollowTheirOrder
<1>1. PICK all, parent, N : Collected(all, parent, N) /\ all = cluster.resources
  BY CollectedIs
<1>2. GoodChains(all) /\ DOMAIN all = 1..N /\ parent = ParentMap(all) /\ reasons.up = parent
  BY <1>1 DEF Collected
<1>3. PICK c, o : c = all[i] /\ o = all[j]
  OBVIOUS
<1>4. PICK owners : owners = c.owners
  OBVIOUS
<1>5. /\ KindOf(c) = "Challenge" /\ KindOf(o) = "Order" /\ n \in DOMAIN owners
      /\ <<owners[n].kind, c.id[2], owners[n].name>> = o.id
  BY <1>1, <1>3, <1>4
<1>6. /\ Indexed(all) /\ Indexed(owners)
      /\ \A m, k \in LineagePlaces(owners) : owners[m].kind = "Order" /\ owners[m].name = owners[k].name
      /\ \A m \in DOMAIN all : all[m].id = all[j].id => m = j
  BY <1>1, <1>2, <1>3, <1>4, <1>5 DEF GoodChains, LineagePlaces
<1>7. owners[n].kind = "Order"
  BY <1>5 DEF KindOf
<1>8. n \in LineagePlaces(owners)
  BY <1>5, <1>7 DEF LineagePlaces
<1>9. /\ LineageOwner(owners) # {}
      /\ \A x \in LineageOwner(owners) : x.kind = "Order" /\ x.name = owners[n].name
  BY <1>6, <1>8, LineageOwnerIs
<1>10. \A x \in LineageOwner(owners) : <<x.kind, c.id[2], x.name>> = o.id
  BY <1>5, <1>7, <1>9
<1>11. ById(all, o.id) = {j}
  <2>1. {m \in DOMAIN all : all[m].id = o.id} = {j}
    BY <1>1, <1>3, <1>6
  <2>2. j \in Nat
    BY <1>1, <1>6 DEF Indexed
  <2> QED BY <2>1, <2>2 DEF ById
<1>12. OwnerOf(all, c) = {j}
  <2>1. \A x : x \in OwnerOf(all, c) <=> \E p \in LineageOwner(owners) : x \in ById(all, <<p.kind, c.id[2], p.name>>)
    BY <1>4 DEF OwnerOf
  <2> QED BY <1>9, <1>10, <1>11, <2>1
<1>13. parent[i] = {j} \ {i}
  <2>1. KindOf(c) \notin Issuers /\ KindOf(c) # "Certificate"
    BY <1>5 DEF Issuers
  <2>2. HangsUnder(all, c) = {j}
    BY <1>12, <2>1 DEF HangsUnder
  <2>3. parent[i] = HangsUnder(all, c) \ {i}
    BY <1>1, <1>2, <1>3, <2>1, ParentMapIs
  <2> QED BY <2>2, <2>3
<1>14. i # j
  BY <1>3, <1>5
<1> QED BY <1>2, <1>13, <1>14

(* Trouble is not folded by itself.                                        *)
LEMMA TroubleKept ==
  ASSUME ChainsDrawn
  PROVE  TroubleIsUnfolded
<1> SUFFICES ASSUME Judged("cert")
             PROVE  /\ (cluster.collapsed = {} /\ cluster.toggled = {}) =>
                         \A i \in DOMAIN cluster.resources :
                           (\A c \in reasons.above[i] : KindOf(cluster.resources[c]) = "Certificate" =>
                              Readiness(cluster.resources[c]) # "Ready") => i \in ToSet(reasons.first)
                    /\ reasons.auto \cap cluster.toggled = cluster.collapsed \cap cluster.toggled
  BY DEF TroubleIsUnfolded
<1>1. PICK all, parent, N : Collected(all, parent, N) /\ all = cluster.resources
  BY CollectedIs
<1>2. /\ DOMAIN all = 1..N /\ parent = ParentMap(all) /\ Forest(parent, N)
      /\ \A i \in 1..N : i \notin parent[i]
      /\ \A i \in 1..N : reasons.above[i] = Up(parent, i) \ {i}
  BY <1>1 DEF Collected
<1>3. PICK collapsed, toggled : collapsed = cluster.collapsed /\ toggled = cluster.toggled
  OBVIOUS
<1>4. PICK folded : folded = Autofold(all, collapsed, toggled)
  OBVIOUS
<1>5. reasons.auto = folded /\ reasons.first = BuildCertTree(parent, folded)
  BY <1>1, <1>2, <1>3, <1>4 DEF ChainsDrawn
<1>6. PICK certs : certs = {i \in DOMAIN all : KindOf(all[i]) = "Certificate"} \ toggled
  OBVIOUS
<1>7. folded = (collapsed \ certs) \cup {i \in certs : Readiness(all[i]) = "Ready"}
  BY <1>4, <1>6 DEF Autofold
<1>8. folded \cap toggled = collapsed \cap toggled
  BY <1>6, <1>7
<1>9. ASSUME collapsed = {}, toggled = {}, NEW i \in 1..N,
             \A c \in reasons.above[i] : KindOf(all[c]) = "Certificate" => Readiness(all[c]) # "Ready"
      PROVE  i \in ToSet(reasons.first)
  <2>1. (Up(parent, i) \ {i}) \cap folded = {}
    BY <1>2, <1>6, <1>7, <1>9
  <2> QED BY <1>2, <1>5, <2>1, LinksAccounted
<1> QED BY <1>1, <1>2, <1>3, <1>5, <1>8, <1>9

(* An id that is no other's names the resource it is of, in any list.      *)
LEMMA ByIdAlone ==
  ASSUME NEW all, Indexed(all), \A i, j \in DOMAIN all : all[i].id = all[j].id => i = j, NEW id
  PROVE  ById(all, id) = {i \in DOMAIN all : all[i].id = id}
BY DEF ById, Indexed

KeptList(all, ks) == [n \in DOMAIN ks |-> all[ks[n]]]

(* What is kept, in a list of its own, refers to what it did.              *)
LEMMA KeptRefers ==
  ASSUME NEW all, GoodChains(all), NEW N, N = Len(all), NEW ks \in Seq(1..N), IsInjective(ks),
         NEW kept, kept = KeptList(all, ks)
  PROVE  /\ Indexed(kept) /\ DOMAIN kept = DOMAIN ks
         /\ \A n, m \in DOMAIN kept : kept[n].id = kept[m].id => n = m
         /\ \A n \in DOMAIN kept : ks[n] \in 1..N /\ kept[n] = all[ks[n]]
         /\ \A id : ById(kept, id) = {n \in DOMAIN ks : ks[n] \in ById(all, id)}
<1>1. /\ N \in Nat /\ Indexed(all) /\ DOMAIN all = 1..N
      /\ \A i, j \in DOMAIN all : all[i].id = all[j].id => i = j
  BY DEF GoodChains, Indexed
<1>2. DOMAIN ks = 1..Len(ks) /\ Len(ks) \in Nat
  BY LenProperties
<1>3. DOMAIN kept = DOMAIN ks /\ \A n \in DOMAIN ks : kept[n] = all[ks[n]]
  BY DEF KeptList
<1>4. Indexed(kept)
  <2>1. kept = [n \in 1..Len(ks) |-> all[ks[n]]]
    BY <1>2 DEF KeptList
  <2>2. Len(kept) = Len(ks)
    BY <1>2, <2>1
  <2> QED BY <1>2, <1>3, <2>2 DEF Indexed
<1>5. \A n \in DOMAIN ks : ks[n] \in 1..N
  BY <1>2, ElementOfSeq
<1>6. ASSUME NEW n \in DOMAIN kept, NEW m \in DOMAIN kept, kept[n].id = kept[m].id PROVE n = m
  <2>1. ks[n] = ks[m]
    BY <1>1, <1>3, <1>5, <1>6
  <2> QED BY <1>3, <2>1 DEF IsInjective
<1>7. ASSUME NEW id PROVE ById(kept, id) = {n \in DOMAIN ks : ks[n] \in ById(all, id)}
  <2>1. ById(kept, id) = {n \in DOMAIN kept : kept[n].id = id}
    BY <1>4, <1>6, ByIdAlone
  <2>2. ById(all, id) = {i \in DOMAIN all : all[i].id = id}
    BY <1>1, ByIdAlone
  <2> QED BY <1>1, <1>3, <1>5, <2>1, <2>2
<1> QED BY <1>3, <1>4, <1>5, <1>6, <1>7

(* What a filter keeps, it keeps with its lineage.                         *)
LEMMA FilterKept ==
  ASSUME ChainsDrawn
  PROVE  FilterKeepsLineage
<1> SUFFICES ASSUME Judged("cert")
             PROVE  /\ \A n \in DOMAIN reasons.kept : \A i \in DOMAIN cluster.resources :
                         reasons.kept[n].id = cluster.resources[i].id =>
                           {reasons.kept[m].id : m \in ParentMap(reasons.kept)[n]} =
                             {cluster.resources[j].id : j \in reasons.up[i]}
                    /\ \A i \in DOMAIN cluster.resources :
                         (\E n \in DOMAIN reasons.kept : reasons.kept[n].id = cluster.resources[i].id) <=>
                           \E j \in reasons.below[i] : Matches(cluster.filter, cluster.resources[j])
  BY DEF FilterKeepsLineage
<1>1. PICK all, parent, N : Collected(all, parent, N) /\ all = cluster.resources
  BY CollectedIs
<1>2. /\ GoodChains(all) /\ DOMAIN all = 1..N /\ parent = ParentMap(all) /\ Forest(parent, N)
      /\ reasons.up = parent
      /\ \A i \in 1..N : reasons.below[i] = Under(parent, i)
  BY <1>1 DEF Collected
<1>3. /\ N = Len(all) /\ N \in Nat
      /\ \A i, j \in 1..N : all[i].id = all[j].id => i = j
      /\ \A i \in 1..N : Indexed(all[i].owners) /\ AtMostOne(all[i].issuer)
  <2>1. Indexed(all)
    BY <1>2 DEF GoodChains
  <2>2. 1..Len(all) = 1..N /\ Len(all) \in Nat /\ N \in Nat
    BY <1>2, <2>1, ForestIs DEF Indexed
  <2>3. Len(all) = N
    BY <2>2
  <2> QED BY <1>2, <2>2, <2>3 DEF GoodChains
<1>4. PICK filter : filter = cluster.filter
  OBVIOUS
<1>5. PICK set : set = KeptByFilter(all, parent, filter)
  OBVIOUS
<1>6. \A x : x \in set <=> \E i \in 1..N : Matches(filter, all[i]) /\ x \in Up(parent, i)
  <2>1. \A i \in 1..N : ToSet(ChainPath(parent, i)) = Up(parent, i)
    BY <1>2, ChainPathIs
  <2> QED BY <1>2, <1>5, <2>1 DEF KeptByFilter, MatchedOnly
<1>7. set \subseteq 1..N /\ \A x \in set : parent[x] \subseteq set
  BY <1>2, <1>6, UpIs
<1>8. PICK ks : ks = InOrder(set, N)
  OBVIOUS
<1>9. ks \in Seq(1..N) /\ IsInjective(ks) /\ ToSet(ks) = set
  <2>1. Ordered(ks, set, N)
    BY <1>3, <1>8, InOrderIs
  <2> QED BY <1>7, <2>1 DEF Ordered
<1>10. PICK kept : kept = KeptList(all, ks)
  OBVIOUS
<1>11. reasons.kept = kept
  BY <1>1, <1>2, <1>3, <1>4, <1>5, <1>8, <1>10 DEF ChainsDrawn, FilterChains, KeptList
<1>12. /\ DOMAIN kept = DOMAIN ks
       /\ \A n \in DOMAIN kept : ks[n] \in 1..N /\ kept[n] = all[ks[n]]
       /\ \A id : ById(kept, id) = {n \in DOMAIN ks : ks[n] \in ById(all, id)}
  BY <1>2, <1>3, <1>9, <1>10, KeptRefers
<1>13. PICK up : up = ParentMap(kept)
  OBVIOUS
<1>14. ASSUME NEW r PROVE /\ OwnerOf(kept, r) = {n \in DOMAIN ks : ks[n] \in OwnerOf(all, r)}
                          /\ IssuerOf(kept, r) = {n \in DOMAIN ks : ks[n] \in IssuerOf(all, r)}
  <2>1. \A list : \A x : x \in OwnerOf(list, r) <=>
          \E o \in LineageOwner(r.owners) : x \in ById(list, <<o.kind, r.id[2], o.name>>)
    BY DEF OwnerOf
  <2>2. \A list : \A x : x \in IssuerOf(list, r) <=> \E id \in r.issuer : x \in ById(list, id)
    BY DEF IssuerOf
  <2>3. \A x : x \in OwnerOf(kept, r) <=> x \in DOMAIN ks /\ ks[x] \in OwnerOf(all, r)
    <3>1. \A o : \A x : x \in ById(kept, <<o.kind, r.id[2], o.name>>) <=>
                     x \in DOMAIN ks /\ ks[x] \in ById(all, <<o.kind, r.id[2], o.name>>)
      BY <1>12
    <3>2. /\ \A x : x \in OwnerOf(kept, r) <=>
                \E o \in LineageOwner(r.owners) : x \in ById(kept, <<o.kind, r.id[2], o.name>>)
          /\ \A x : x \in OwnerOf(all, r) <=>
                \E o \in LineageOwner(r.owners) : x \in ById(all, <<o.kind, r.id[2], o.name>>)
      BY <2>1
    <3> QED BY <3>1, <3>2
  <2>4. \A x : x \in IssuerOf(kept, r) <=> x \in DOMAIN ks /\ ks[x] \in IssuerOf(all, r)
    BY <1>12, <2>2
  <2> QED BY <2>3, <2>4
<1>15. ASSUME NEW n \in DOMAIN ks
       PROVE  \A m : m \in up[n] <=> m \in DOMAIN ks /\ ks[m] \in parent[ks[n]]
  <2>1. PICK i \in 1..N : i = ks[n]
    BY <1>12, <1>15
  <2>2. PICK r : r = all[i]
    OBVIOUS
  <2>3. kept[n] = r
    BY <1>12, <1>15, <2>1, <2>2
  <2>4. /\ up[n] = IF KindOf(r) \in Issuers THEN {} ELSE HangsUnder(kept, r) \ {n}
        /\ parent[i] = IF KindOf(r) \in Issuers THEN {} ELSE HangsUnder(all, r) \ {i}
    BY <1>2, <1>12, <1>13, <2>2, <2>3, ParentMapIs
  <2>5. PICK o, s, h : o = OwnerOf(all, r) /\ s = IssuerOf(all, r) /\ h = HangsUnder(all, r)
    OBVIOUS
  <2>6. PICK o2, s2, h2 : o2 = OwnerOf(kept, r) /\ s2 = IssuerOf(kept, r) /\ h2 = HangsUnder(kept, r)
    OBVIOUS
  <2>7. /\ \A x : x \in o2 <=> x \in DOMAIN ks /\ ks[x] \in o
        /\ \A x : x \in s2 <=> x \in DOMAIN ks /\ ks[x] \in s
    BY <1>14, <2>5, <2>6
  <2>8. /\ h = IF KindOf(r) = "Certificate" THEN IF s # {} THEN s ELSE o ELSE IF o # {} THEN o ELSE s
        /\ h2 = IF KindOf(r) = "Certificate" THEN IF s2 # {} THEN s2 ELSE o2 ELSE IF o2 # {} THEN o2 ELSE s2
    BY <2>5, <2>6 DEF HangsUnder
  <2>9. ToSet(ks) = {ks[m] : m \in DOMAIN ks}
    BY DEF ToSet
  <2>10. i \in set /\ parent[i] \subseteq set
    BY <1>7, <1>9, <1>15, <2>1, <2>9
  <2>11. CASE KindOf(r) \in Issuers
    BY <2>1, <2>4, <2>11
  <2>12. CASE KindOf(r) \notin Issuers
    <3>1. h \subseteq set
      BY <2>4, <2>5, <2>10, <2>12
    <3>2. \A x \in h : \E m \in DOMAIN ks : ks[m] = x
      BY <1>9, <2>9, <3>1
    <3>3. \A x : x \in h2 <=> x \in DOMAIN ks /\ ks[x] \in h
      <4>1. CASE h = s
        <5>1. CASE s = {}
          BY <2>7, <2>8, <4>1, <5>1
        <5>2. CASE s # {}
          <6>1. s2 # {}
            BY <2>7, <3>2, <4>1, <5>2
          <6>2. CASE KindOf(r) = "Certificate"
            BY <2>7, <2>8, <4>1, <6>1, <6>2
          <6>3. CASE KindOf(r) # "Certificate"
            <7>1. o = {} \/ o = s
              BY <2>8, <4>1, <6>3
            <7>2. o2 = {} \/ o = s
              BY <2>7, <7>1
            <7> QED BY <2>7, <2>8, <4>1, <6>3, <7>2
          <6> QED BY <6>2, <6>3
        <5> QED BY <5>1, <5>2
      <4>2. CASE h = o /\ h # s
        <5>1. CASE o = {}
          BY <2>7, <2>8, <4>2, <5>1
        <5>2. CASE o # {}
          <6>1. o2 # {}
            BY <2>7, <3>2, <4>2, <5>2
          <6>2. CASE KindOf(r) = "Certificate"
            <7>1. s = {}
              BY <2>8, <4>2, <6>2
            <7>2. s2 = {}
              BY <2>7, <7>1
            <7> QED BY <2>7, <2>8, <4>2, <6>2, <7>2
          <6>3. CASE KindOf(r) # "Certificate"
            BY <2>7, <2>8, <4>2, <6>1, <6>3
          <6> QED BY <6>2, <6>3
        <5> QED BY <5>1, <5>2
      <4> QED BY <2>8, <4>1, <4>2
    <3>4. \A m \in DOMAIN ks : m = n <=> ks[m] = i
      BY <1>9, <1>15, <2>1 DEF IsInjective
    <3> QED BY <2>1, <2>4, <2>5, <2>6, <2>12, <3>3, <3>4
  <2> QED BY <2>11, <2>12
<1>16. ASSUME NEW n \in DOMAIN kept, NEW i \in 1..N, kept[n].id = all[i].id
       PROVE  {kept[m].id : m \in up[n]} = {all[j].id : j \in parent[i]}
  <2>1. n \in DOMAIN ks /\ ks[n] = i
    BY <1>3, <1>12, <1>16
  <2>2. \A m : m \in up[n] <=> m \in DOMAIN ks /\ ks[m] \in parent[i]
    BY <1>15, <2>1
  <2>3. i \in set
    BY <1>9, <2>1 DEF ToSet
  <2>4. \A j \in parent[i] : \E m \in DOMAIN ks : ks[m] = j
    BY <1>7, <1>9, <2>3 DEF ToSet
  <2>5. \A m \in up[n] : kept[m] = all[ks[m]] /\ ks[m] \in parent[i]
    BY <1>12, <2>2
  <2>6. \A j \in parent[i] : \E m \in up[n] : kept[m] = all[j]
    BY <1>12, <2>2, <2>4
  <2> QED BY <2>5, <2>6
<1>17. ASSUME NEW i \in 1..N
       PROVE  (\E n \in DOMAIN kept : kept[n].id = all[i].id) <=> \E j \in reasons.below[i] : Matches(filter, all[j])
  <2>1. (\E n \in DOMAIN kept : kept[n].id = all[i].id) <=> i \in set
    <3>1. ToSet(ks) = {ks[m] : m \in DOMAIN ks}
      BY DEF ToSet
    <3> QED BY <1>3, <1>9, <1>12, <3>1
  <2>2. reasons.below[i] = Under(parent, i) /\ Under(parent, i) \subseteq 1..N
    BY <1>2, UnderIs
  <2>3. \A j \in 1..N : j \in Under(parent, i) <=> i \in Up(parent, j)
    BY <1>2, UpUnder
  <2> QED BY <1>6, <2>1, <2>2, <2>3
<1>18. ASSUME NEW n \in DOMAIN reasons.kept, NEW i \in DOMAIN cluster.resources,
              reasons.kept[n].id = cluster.resources[i].id
       PROVE  {reasons.kept[m].id : m \in ParentMap(reasons.kept)[n]} =
                {cluster.resources[j].id : j \in reasons.up[i]}
  <2>1. {kept[m].id : m \in up[n]} = {all[j].id : j \in parent[i]}
    BY <1>1, <1>2, <1>11, <1>16, <1>18
  <2>2. up[n] = ParentMap(reasons.kept)[n] /\ parent[i] = reasons.up[i]
    BY <1>2, <1>11, <1>13
  <2>3. \A x : x \in {reasons.kept[m].id : m \in ParentMap(reasons.kept)[n]} <=> x \in {kept[m].id : m \in up[n]}
    BY <1>11, <2>2
  <2>4. \A x : x \in {cluster.resources[j].id : j \in reasons.up[i]} <=> x \in {all[j].id : j \in parent[i]}
    BY <1>1, <2>2
  <2> QED BY <2>1, <2>3, <2>4
<1>19. \A i \in DOMAIN cluster.resources :
         (\E n \in DOMAIN reasons.kept : reasons.kept[n].id = cluster.resources[i].id) <=>
           \E j \in reasons.below[i] : Matches(cluster.filter, cluster.resources[j])
  BY <1>1, <1>2, <1>4, <1>11, <1>17
<1> QED BY <1>18, <1>19

(* The certificate of a row is one at most, and a certificate is its own.  *)
LEMMA OwningIs ==
  ASSUME NEW all, NEW N, NEW parent, Forest(parent, N), NEW i \in 1..N
  PROVE  /\ AtMostOne(OwningCertificate(all, parent, i))
         /\ \A c \in OwningCertificate(all, parent, i) : c \in 1..N /\ KindOf(all[c]) = "Certificate"
         /\ KindOf(all[i]) = "Certificate" => OwningCertificate(all, parent, i) = {i}
<1>1. PICK path : path = ChainPath(parent, i)
  OBVIOUS
<1>2. path \in Seq(1..N) /\ path # << >> /\ Head(path) = i
  BY <1>1, ChainPathIs
<1>3. /\ Len(path) \in Nat /\ Len(path) > 0 /\ DOMAIN path = 1..Len(path) /\ path[1] = i
      /\ \A n \in 1..Len(path) : path[n] \in 1..N
  <2>1. Len(path) \in Nat /\ Len(path) > 0 /\ DOMAIN path = 1..Len(path) /\ path[1] = i
    BY <1>2, LastIs
  <2> QED BY <1>2, <2>1, ElementOfSeq
<1>4. PICK certs : certs = {n \in DOMAIN path : KindOf(all[path[n]]) = "Certificate"}
  OBVIOUS
<1>5. PICK first : first = {x \in certs : \A y \in certs : x <= y}
  OBVIOUS
<1>6. OwningCertificate(all, parent, i) = {path[n] : n \in first}
  BY <1>1, <1>4, <1>5 DEF OwningCertificate
<1>7. AtMostOne(first) /\ first \subseteq certs
  <2>1. certs \in SUBSET Nat
    BY <1>3, <1>4
  <2> QED BY <1>5, <2>1, FirstOf
<1>8. AtMostOne({path[n] : n \in first})
  BY <1>7 DEF AtMostOne
<1>9. \A c \in {path[n] : n \in first} : c \in 1..N /\ KindOf(all[c]) = "Certificate"
  BY <1>3, <1>4, <1>7
<1>10. ASSUME KindOf(all[i]) = "Certificate" PROVE {path[n] : n \in first} = {i}
  <2>1. 1 \in certs /\ \A y \in certs : 1 <= y
    BY <1>3, <1>4, <1>10
  <2>2. first = {1}
    BY <1>5, <1>7, <2>1 DEF AtMostOne
  <2> QED BY <1>3, <2>2
<1> QED BY <1>6, <1>8, <1>9, <1>10

(* A request that is in flight, or under which an order or a challenge is. *)
Alive(all, parent, q) ==
  /\ KindOf(all[q]) = "CertificateRequest"
  /\ \/ InFlight(all[q])
     \/ \E j \in Under(parent, q) \ {q} : KindOf(all[j]) \in AcmeKinds /\ InFlight(all[j])
Restartable(all, parent, c) == {q \in Under(parent, c) \ {c} : Alive(all, parent, q)}

(* What is restarted is such a request, and one is whenever there is any.  *)
LEMMA RestartIs ==
  ASSUME NEW all, NEW N, NEW parent, Forest(parent, N), NEW c \in 1..N
  PROVE  /\ InFlightRequest(all, parent, c) \subseteq Restartable(all, parent, c)
         /\ Restartable(all, parent, c) # {} => InFlightRequest(all, parent, c) # {}
<1>1. PICK below : below = Descendants(parent, c)
  OBVIOUS
<1>2. below \in Seq(1..N) /\ ToSet(below) = Under(parent, c) \ {c}
  BY <1>1, DescendantsIs
<1>3. DOMAIN below = 1..Len(below) /\ Len(below) \in Nat /\ ToSet(below) = {below[n] : n \in DOMAIN below}
  BY <1>2, LenProperties DEF ToSet
<1>4. PICK live : live = {n \in DOMAIN below :
                    /\ KindOf(all[below[n]]) = "CertificateRequest"
                    /\ \/ InFlight(all[below[n]])
                       \/ \E j \in ToSet(Descendants(parent, below[n])) :
                             KindOf(all[j]) \in AcmeKinds /\ InFlight(all[j])}
  OBVIOUS
<1>5. PICK first : first = {x \in live : \A y \in live : x <= y}
  OBVIOUS
<1>6. InFlightRequest(all, parent, c) = {below[n] : n \in first}
  BY <1>1, <1>4, <1>5 DEF InFlightRequest
<1>7. \A n \in DOMAIN below : n \in live <=> Alive(all, parent, below[n])
  <2>1. ASSUME NEW n \in DOMAIN below PROVE ToSet(Descendants(parent, below[n])) = Under(parent, below[n]) \ {below[n]}
    <3>1. below[n] \in 1..N
      BY <1>2, <1>3, UnderIs
    <3> QED BY <3>1, DescendantsIs
  <2> QED BY <1>4, <2>1 DEF Alive
<1>8. live \in SUBSET Nat /\ first \subseteq live /\ (live # {} => first # {}) /\ live \subseteq DOMAIN below
  <2>1. live \in SUBSET Nat /\ live \subseteq DOMAIN below
    BY <1>3, <1>4
  <2> QED BY <1>5, <2>1, FirstOf
<1>9. ASSUME NEW n \in first PROVE below[n] \in Restartable(all, parent, c)
  <2>1. n \in DOMAIN below /\ Alive(all, parent, below[n])
    BY <1>7, <1>8
  <2>2. below[n] \in Under(parent, c) \ {c}
    BY <1>2, <1>3, <2>1
  <2> QED BY <2>1, <2>2 DEF Restartable
<1>10. ASSUME NEW q \in Restartable(all, parent, c) PROVE first # {}
  <2>1. q \in ToSet(below) /\ Alive(all, parent, q)
    BY <1>2 DEF Restartable
  <2>2. PICK n \in DOMAIN below : q = below[n]
    BY <1>3, <2>1
  <2>3. n \in live
    BY <1>7, <2>1, <2>2
  <2> QED BY <1>8, <2>3
<1> QED BY <1>6, <1>9, <1>10

(* What is under something under `c` is under `c`.                         *)
LEMMA UnderOfUnder ==
  ASSUME NEW N, NEW parent, Forest(parent, N), NEW c \in 1..N, NEW q \in Under(parent, c)
  PROVE  q \in 1..N /\ Under(parent, q) \subseteq Under(parent, c)
<1>1. q \in 1..N /\ \A x \in Under(parent, c) : Children(parent, x) \subseteq Under(parent, c)
  BY UnderIs
<1> QED BY <1>1, UnderIs

(* A certificate has something to restart as soon as anything but a        *)
(* certificate is in flight at or under one of its requests.               *)
LEMMA RestartWhen ==
  ASSUME NEW all, GoodChains(all), NEW N, DOMAIN all = 1..N, NEW parent, parent = ParentMap(all),
         Forest(parent, N), NEW c \in 1..N, KindOf(all[c]) = "Certificate", NEW q \in Under(parent, c),
         KindOf(all[q]) = "CertificateRequest", NEW j \in Under(parent, q), InFlight(all[j]),
         KindOf(all[j]) # "Certificate"
  PROVE  Restartable(all, parent, c) # {}
<1>1. q \in 1..N /\ j \in 1..N /\ j \in Under(parent, c)
  BY UnderOfUnder
<1>2. q # c /\ j # c
  OBVIOUS
<1>3. CASE j = q
  <2>1. Alive(all, parent, q)
    BY <1>3 DEF Alive
  <2> QED BY <1>2, <2>1 DEF Restartable
<1>4. CASE j # q
  <2>1. KindOf(all[j]) \notin Issuers
    <3>1. q \in Up(parent, j)
      BY <1>1, UpUnder
    <3>2. parent[j] # {}
      <4> SUFFICES ASSUME parent[j] = {} PROVE FALSE
        OBVIOUS
      <4>1. Up(parent, j) \subseteq {j}
        BY <1>1, UpIs
      <4> QED BY <1>4, <3>1, <4>1
    <3>3. KindOf(all[j]) \in Issuers => parent[j] = {}
      BY <1>1, ParentMapIs
    <3> QED BY <3>2, <3>3
  <2>2. KindOf(all[j]) \in AcmeKinds \cup {"CertificateRequest"}
    BY <1>1, <2>1 DEF GoodChains
  <2>3. CASE KindOf(all[j]) \in AcmeKinds
    <3>1. Alive(all, parent, q)
      BY <1>4, <2>3 DEF Alive
    <3> QED BY <1>2, <3>1 DEF Restartable
  <2>4. CASE KindOf(all[j]) = "CertificateRequest"
    <3>1. Alive(all, parent, j)
      BY <2>4 DEF Alive
    <3> QED BY <1>1, <1>2, <3>1 DEF Restartable
  <2> QED BY <2>2, <2>3, <2>4
<1> QED BY <1>3, <1>4

(* What is restarted of a certificate, in terms of what is above and below. *)
LEMMA RetryOfIs ==
  ASSUME NEW all, NEW N, NEW parent, Forest(parent, N), NEW c \in 1..N
  PROVE  IsRateLimited(all, parent, c) <=> \E j \in Under(parent, c) \cup Up(parent, c) : all[j].limited
<1>1. Below(parent, c) = Under(parent, c)
  BY DescendantsIs
<1>2. ToSet(ChainPath(parent, c)) = Up(parent, c)
  BY ChainPathIs
<1> QED BY <1>1, <1>2 DEF IsRateLimited

(* The chain of the certificates `certs`, and what is alive under them.    *)
ChainOf(certs) == UNION {reasons.below[c] \cup reasons.above[c] : c \in certs}
LiveOf(certs) ==
  {q \in UNION {reasons.below[c] : c \in certs} :
     /\ KindOf(cluster.resources[q]) = "CertificateRequest"
     /\ \E j \in reasons.below[q] \cap reasons.live : KindOf(cluster.resources[j]) # "Certificate"}

RetryOf(all, parent, c) ==
  IF IsRateLimited(all, parent, c) THEN {} ELSE InFlightRequest(all, parent, c)

(* From any row of a chain the retry is the same, and safe.                *)
LEMMA RetryKept ==
  ASSUME ChainsDrawn
  PROVE  RetryIsSafe
<1> SUFFICES ASSUME Judged("cert"), NEW i \in DOMAIN cluster.resources
             PROVE  /\ \A c \in reasons.owner[i] : reasons.retry[i] = reasons.retry[c]
                    /\ reasons.retry[i] \subseteq LiveOf(reasons.owner[i])
                    /\ (reasons.retry[i] # {}) <=>
                          (LiveOf(reasons.owner[i]) # {}
                             /\ \A j \in ChainOf(reasons.owner[i]) : ~cluster.resources[j].limited)
  BY DEF RetryIsSafe, LiveOf, ChainOf
<1>1. PICK all, parent, N : Collected(all, parent, N) /\ all = cluster.resources
  BY CollectedIs
<1>2. /\ GoodChains(all) /\ DOMAIN all = 1..N /\ parent = ParentMap(all) /\ Forest(parent, N)
      /\ \A x \in 1..N : reasons.above[x] = Up(parent, x) \ {x} /\ reasons.below[x] = Under(parent, x)
  BY <1>1 DEF Collected
<1>3. PICK certs : certs = reasons.owner[i]
  OBVIOUS
<1>4. \A x \in 1..N : /\ reasons.owner[x] = OwningCertificate(all, parent, x)
                      /\ reasons.retry[x] = AcmeRetry(all, parent, x)
  BY <1>1, <1>2 DEF ChainsDrawn
<1>5. reasons.live = {x \in 1..N : InFlight(all[x])}
  BY <1>1, <1>2 DEF ChainsDrawn
<1>6. i \in 1..N /\ certs = OwningCertificate(all, parent, i)
  BY <1>1, <1>2, <1>3, <1>4
<1>7. AtMostOne(certs) /\ \A c \in certs : c \in 1..N /\ KindOf(all[c]) = "Certificate"
  <2>1. /\ AtMostOne(OwningCertificate(all, parent, i))
        /\ \A c \in OwningCertificate(all, parent, i) : c \in 1..N /\ KindOf(all[c]) = "Certificate"
    <3>1. Forest(parent, N) /\ i \in 1..N
      BY <1>2, <1>6
    <3> QED BY ONLY <3>1, OwningIs
  <2> QED BY <1>6, <2>1
<1>8. \A x \in 1..N : AcmeRetry(all, parent, x) =
                        UNION {RetryOf(all, parent, c) : c \in OwningCertificate(all, parent, x)}
  BY DEF AcmeRetry, RetryOf
<1>9. CASE certs = {}
  <2>1. reasons.retry[i] = {}
    BY <1>4, <1>6, <1>8, <1>9
  <2>2. LiveOf(certs) = {}
    BY <1>9 DEF LiveOf
  <2> QED BY <1>3, <1>9, <2>1, <2>2
<1>10. CASE certs # {}
  <2>1. PICK c : certs = {c}
    BY <1>7, <1>10 DEF AtMostOne
  <2>2. c \in 1..N /\ KindOf(all[c]) = "Certificate"
    BY <1>7, <2>1
  <2>3. PICK retry : retry = RetryOf(all, parent, c)
    OBVIOUS
  <2>4. reasons.retry[i] = retry
    BY <1>4, <1>6, <1>8, <2>1, <2>3
  <2>5. reasons.retry[c] = retry
    <3>1. OwningCertificate(all, parent, c) = {c}
      BY <1>2, <2>2, OwningIs
    <3> QED BY <1>4, <1>8, <2>2, <2>3, <3>1
  <2>6. /\ InFlightRequest(all, parent, c) \subseteq Restartable(all, parent, c)
        /\ Restartable(all, parent, c) # {} => InFlightRequest(all, parent, c) # {}
    BY <1>2, <2>2, RestartIs
  <2>7. LiveOf(certs) = {q \in Under(parent, c) :
                           /\ KindOf(all[q]) = "CertificateRequest"
                           /\ \E j \in Under(parent, q) : InFlight(all[j]) /\ KindOf(all[j]) # "Certificate"}
    <3>1. Under(parent, c) \subseteq 1..N
      BY <1>2, <2>2, UnderIs
    <3>2. \A q \in 1..N : Under(parent, q) \subseteq 1..N
      BY <1>2, UnderIs
    <3>3. UNION {reasons.below[x] : x \in certs} = Under(parent, c)
      BY <1>2, <2>1, <2>2
    <3>4. \A q \in 1..N : reasons.below[q] \cap reasons.live = {j \in Under(parent, q) : InFlight(all[j])}
      BY <1>2, <1>5, <3>2
    <3> QED BY <1>1, <3>1, <3>3, <3>4 DEF LiveOf
  <2>8. Restartable(all, parent, c) \subseteq LiveOf(certs)
    <3> SUFFICES ASSUME NEW q \in Restartable(all, parent, c)
                 PROVE  q \in LiveOf(certs)
      OBVIOUS
    <3>1. q \in Under(parent, c) /\ Alive(all, parent, q) /\ q \in 1..N
      BY <1>2, <2>2, UnderIs DEF Restartable
    <3>2. KindOf(all[q]) = "CertificateRequest"
      BY <3>1 DEF Alive
    <3>3. \E j \in Under(parent, q) : InFlight(all[j]) /\ KindOf(all[j]) # "Certificate"
      <4>1. CASE InFlight(all[q])
        <5>1. q \in Under(parent, q)
          BY <1>2, <3>1, UnderIs
        <5> QED BY <3>2, <4>1, <5>1
      <4>2. ASSUME NEW j \in Under(parent, q), KindOf(all[j]) \in AcmeKinds, InFlight(all[j])
            PROVE  KindOf(all[j]) # "Certificate"
        BY <4>2 DEF AcmeKinds
      <4> QED BY <3>1, <4>1, <4>2 DEF Alive
    <3> QED BY <2>7, <3>1, <3>2, <3>3
  <2>9. ASSUME NEW q \in LiveOf(certs) PROVE Restartable(all, parent, c) # {}
    <3>1. q \in Under(parent, c) /\ KindOf(all[q]) = "CertificateRequest"
      BY <2>7
    <3>2. PICK j \in Under(parent, q) : InFlight(all[j]) /\ KindOf(all[j]) # "Certificate"
      BY <2>7
    <3>3. GoodChains(all) /\ DOMAIN all = 1..N /\ parent = ParentMap(all) /\ Forest(parent, N)
      BY <1>2
    <3>4. c \in 1..N /\ KindOf(all[c]) = "Certificate"
      BY <2>2
    <3>5. InFlight(all[j]) /\ KindOf(all[j]) # "Certificate"
      BY <3>2
    <3> QED BY ONLY <3>1, <3>3, <3>4, <3>5, j \in Under(parent, q), RestartWhen
  <2>10. ChainOf(certs) = Under(parent, c) \cup Up(parent, c)
    <3>1. ChainOf(certs) = reasons.below[c] \cup reasons.above[c]
      BY <2>1 DEF ChainOf
    <3>2. c \in Under(parent, c)
      BY <1>2, <2>2, UnderIs
    <3> QED BY <1>2, <2>2, <3>1, <3>2
  <2>11. IsRateLimited(all, parent, c) <=> \E j \in ChainOf(certs) : all[j].limited
    BY <1>2, <2>2, <2>10, RetryOfIs
  <2>12. retry \subseteq LiveOf(certs)
    BY <2>3, <2>6, <2>8 DEF RetryOf
  <2>13. (retry # {}) <=> (LiveOf(certs) # {} /\ \A j \in ChainOf(certs) : ~all[j].limited)
    BY <2>3, <2>6, <2>8, <2>9, <2>11 DEF RetryOf
  <2> QED BY <1>1, <1>3, <2>1, <2>4, <2>5, <2>12, <2>13
<1> QED BY <1>9, <1>10

(* Whatever the resources of Flux and what they wait on or read, whatever  *)
(* the certificates, their issuers, their requests, orders and challenges  *)
(* and who owns them, references that are missing or go round included:    *)
(* the trees that are drawn lose nothing and hide nothing that matters, a  *)
(* filter strands no one, and the retry restarts a request of its own      *)
(* chain, if any and if no rate limit forbids it (src/flux.rs:292-464,     *)
(* src/certmanager.rs:690-1010).                                           *)
THEOREM TreesToldOfAll == TreeSpec => []TreesAreWhole
<1> DEFINE Good == \/ About("tree") /\ GoodTree(cluster.resources)
                   \/ About("cert") /\ GoodChains(cluster.resources)
           Inv == Good /\ assessed \in BOOLEAN /\ TreeDrawn /\ ChainsDrawn
           Collecting == /\ ~assessed /\ assessed' = TRUE /\ (CollectTree \/ CollectCerts)
                         /\ UNCHANGED cluster
           seen == <<cluster, reasons, assessed>>
<1>1. (Good /\ assessed = FALSE) => Inv
  BY DEF TreeDrawn, ChainsDrawn, Judged
<1>2. Inv /\ [Collecting]_seen => Inv'
  <2>1. ASSUME Inv, Collecting PROVE Inv'
    <3>0. cluster' = cluster /\ assessed' = TRUE
      BY <2>1
    <3>1. CASE CollectTree
      <4>1. About("tree")' /\ GoodTree(cluster'.resources) /\ ~About("cert")'
        BY <2>1, <3>0, <3>1 DEF CollectTree, About
      <4>2. ChainsDrawn'
        BY <4>1 DEF ChainsDrawn, Judged
      <4>3. TreeDrawn'
        BY <3>0, <3>1, <4>1 DEF TreeDrawn, CollectTree
      <4> QED BY <3>0, <4>1, <4>2, <4>3
    <3>2. CASE CollectCerts
      <4>1. About("cert")' /\ GoodChains(cluster'.resources) /\ ~About("tree")'
        BY <2>1, <3>0, <3>2 DEF CollectCerts, About
      <4>2. TreeDrawn'
        BY <4>1 DEF TreeDrawn, Judged
      <4>3. ChainsDrawn'
        BY <3>0, <3>2, <4>1 DEF ChainsDrawn, CollectCerts
      <4> QED BY <3>0, <4>1, <4>2, <4>3
    <3> QED BY <2>1, <3>1, <3>2
  <2>2. ASSUME Inv, UNCHANGED seen PROVE Inv'
    <3>1. cluster' = cluster /\ reasons' = reasons /\ assessed' = assessed
      BY <2>2
    <3> QED BY <2>2, <3>1 DEF TreeDrawn, ChainsDrawn, Judged, About
  <2> QED BY <2>1, <2>2
<1>3. Inv => TreesAreWhole
  <2> SUFFICES ASSUME Inv PROVE TreesAreWhole
    OBVIOUS
  <2>1. TreeIsWhole
    BY TreeKept
  <2>2. ChainsAreKept
    BY EveryLinkKept, ChallengesKept, FilterKept, RetryKept, TroubleKept DEF ChainsAreKept
  <2> QED BY <2>1, <2>2 DEF TreesAreWhole
<1> QED BY <1>1, <1>2, <1>3, PTL DEF TreeSpec
=============================================================================
