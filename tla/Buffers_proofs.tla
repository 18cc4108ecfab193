---------------------------- MODULE Buffers_proofs ----------------------------
(***************************************************************************)
(* What two bounded stores keep, whatever fills and empties them.  For any *)
(* number of slots, spares, windows, connections and openings: no slot of  *)
(* a jump is lost or shared, the count of openings is right, and the first *)
(* hop is started one at a time.  For any events, namespaces, filter and   *)
(* capacity: the ring of the events view keeps what its watches tell, and  *)
(* the cursor of its table the event it was put on.                        *)
(***************************************************************************)
EXTENDS JumpPool, MCJumpRules, EventFeed, SequenceTheorems, FiniteSetTheorems,
        WellFoundedInduction, TLAPS

At(t, places) == task[t].pc \in places

(* Who has a session: from the slot it is given to its end, to the         *)
(* reserve, or to a relay.                                                 *)
Owns(t, place) ==
  \/ place \in {"hop", "first", "later", "opened", "push", "stream", "relay"}
  \/ t \in Conns /\ place \in {"count", "spawn"}

Tables ==
  /\ prepared \in BOOLEAN
  /\ opening \in Nat
  /\ task \in [Tasks -> TaskType]

(* Both queues hold those who wait, once, and who starts the first hop is  *)
(* at the head of the second.                                              *)
Queues ==
  /\ atSlots \in Seq(Tasks) /\ IsInjective(atSlots)
  /\ atHop \in Seq(Tasks) /\ IsInjective(atHop)
  /\ ToSet(atSlots) = {t \in Tasks : At(t, {"slot"})}
  /\ ToSet(atHop) = {t \in Tasks : At(t, {"hop", "first"})}
  /\ \A t \in Tasks : At(t, {"first"}) => Head(atHop) = t

Reserve ==
  /\ spares \in Seq(Slots) /\ IsInjective(spares)
  /\ dead \subseteq ToSet(spares)

(* A slot is free, in the reserve, or of one task that owns one.           *)
Owners ==
  /\ free \subseteq Slots
  /\ \A t \in Tasks : task[t].slot # NoSlot <=> Owns(t, task[t].pc)
  /\ \A t, u \in Tasks : task[t].slot = task[u].slot /\ t # u => task[t].slot = NoSlot
  /\ free \cap ToSet(spares) = {} /\ free \cap Held = {} /\ ToSet(spares) \cap Held = {}
  /\ free \cup ToSet(spares) \cup Held = Slots

(* The openings under way are finitely many, and as many as is said.       *)
UnderWay == {t \in Refills : ~At(t, {"idle", "push"})}
Counts == IsFiniteSet(UnderWay) /\ opening = Cardinality(UnderWay)

PoolInv == Tables /\ Queues /\ Reserve /\ Owners /\ Counts

-----------------------------------------------------------------------------
(* Sequences without repetitions *)

(* A sequence without one of its places. *)
LEMMA RemoveAtIs ==
  ASSUME NEW S, NEW q \in Seq(S), NEW i \in 1..Len(q)
  PROVE  /\ RemoveAt(q, i) \in Seq(S)
         /\ Len(RemoveAt(q, i)) = Len(q) - 1
         /\ \A j \in 1..(Len(q) - 1) : RemoveAt(q, i)[j] = q[IF j < i THEN j ELSE j + 1]
<1> DEFINE R == RemoveAt(q, i)
<1>0. Len(q) \in Nat /\ i \in Nat /\ i >= 1 /\ i <= Len(q)
  OBVIOUS
<1>a. /\ SubSeq(q, 1, i - 1) \in Seq(S) /\ Len(SubSeq(q, 1, i - 1)) = i - 1
      /\ \A j \in 1..(i - 1) : SubSeq(q, 1, i - 1)[j] = q[j]
  OBVIOUS
<1>b. /\ SubSeq(q, i + 1, Len(q)) \in Seq(S) /\ Len(SubSeq(q, i + 1, Len(q))) = Len(q) - i
      /\ \A j \in 1..(Len(q) - i) : SubSeq(q, i + 1, Len(q))[j] = q[j + i]
  OBVIOUS
<1>5. PICK a \in Seq(S) :
        /\ a = SubSeq(q, 1, i - 1) /\ Len(a) = i - 1
        /\ \A j \in 1..(i - 1) : a[j] = q[j]
  BY <1>a
<1>6. PICK b \in Seq(S) :
        /\ b = SubSeq(q, i + 1, Len(q)) /\ Len(b) = Len(q) - i
        /\ \A j \in 1..(Len(q) - i) : b[j] = q[j + i]
  BY <1>b
<1> HIDE DEF R
<1>r. R = a \o b
  BY <1>5, <1>6 DEF R, RemoveAt
<1>1. R \in Seq(S) /\ Len(R) = Len(a) + Len(b)
  BY <1>r, ConcatProperties
<1>2. Len(R) = Len(q) - 1
  <2>1. Len(R) = Len(a) + Len(b) /\ Len(a) = i - 1 /\ Len(b) = Len(q) - i
    BY <1>5, <1>6, <1>1
  <2> QED BY <1>0, <2>1
<1>3. \A j \in 1..(Len(a) + Len(b)) : R[j] = IF j <= Len(a) THEN a[j] ELSE b[j - Len(a)]
  BY <1>r, ConcatProperties
<1>4. ASSUME NEW j \in 1..(Len(q) - 1) PROVE R[j] = q[IF j < i THEN j ELSE j + 1]
  <2>0. j \in 1..(Len(a) + Len(b))
    <3>1. Len(a) = i - 1 /\ Len(b) = Len(q) - i
      BY <1>5, <1>6
    <3> QED BY <1>0, <3>1
  <2>1. R[j] = IF j <= i - 1 THEN a[j] ELSE b[j - (i - 1)]
    BY <1>5, <1>3, <2>0
  <2>2. CASE j <= i - 1
    BY <1>0, <1>5, <2>1, <2>2
  <2>3. CASE j > i - 1
    <3>1. j - (i - 1) \in 1..(Len(q) - i) /\ (j - (i - 1)) + i = j + 1
      BY <1>0, <2>3
    <3>2. R[j] = b[j - (i - 1)]
      BY <1>0, <2>1, <2>3
    <3>3. b[j - (i - 1)] = q[j + 1]
      BY <1>6, <3>1
    <3> QED BY <1>0, <2>3, <3>2, <3>3
  <2> QED BY <1>0, <2>2, <2>3
<1> QED BY <1>1, <1>2, <1>4 DEF R

(* What leaving does to a queue without repetitions.                       *)
LEMMA RemoveOnce ==
  ASSUME NEW S, NEW q \in Seq(S), IsInjective(q), NEW r
  PROVE  /\ RemoveFirst(q, r) \in Seq(S)
         /\ IsInjective(RemoveFirst(q, r))
         /\ ToSet(RemoveFirst(q, r)) = ToSet(q) \ {r}
         /\ q # << >> /\ Head(q) # r =>
              RemoveFirst(q, r) # << >> /\ Head(RemoveFirst(q, r)) = Head(q)
<1>1. CASE ~ \E i \in 1..Len(q) : q[i] = r
  <2>1. RemoveFirst(q, r) = q
    BY <1>1 DEF RemoveFirst
  <2>2. r \notin ToSet(q)
    BY <1>1 DEF ToSet
  <2> QED BY <2>1, <2>2
<1>2. CASE \E i \in 1..Len(q) : q[i] = r
  <2>1. PICK i \in 1..Len(q) : q[i] = r
    BY <1>2
  <2>2. {j \in 1..Len(q) : q[j] = r} = {i}
    BY <2>1 DEF IsInjective
  <2>3. Min({i}) = i
    BY DEF Min
  <2>4. RemoveFirst(q, r) = RemoveAt(q, i)
    BY <1>2, <2>2, <2>3 DEF RemoveFirst, SelectInSeq
  <2> DEFINE R == RemoveFirst(q, r)
             Place(j) == IF j < i THEN j ELSE j + 1
  <2>0. Len(q) \in Nat /\ i \in Nat /\ i >= 1 /\ i <= Len(q) /\ DOMAIN q = 1..Len(q)
    OBVIOUS
  <2>7. R \in Seq(S) /\ Len(R) = Len(q) - 1 /\ DOMAIN R = 1..(Len(q) - 1)
        /\ \A j \in 1..(Len(q) - 1) : R[j] = q[Place(j)]
    <3>1. /\ R \in Seq(S) /\ Len(R) = Len(q) - 1
          /\ \A j \in 1..(Len(q) - 1) : R[j] = q[Place(j)]
      BY <2>1, <2>4, RemoveAtIs
    <3> HIDE DEF R
    <3> QED BY <3>1
  <2> HIDE DEF R
  <2>8. \A j \in 1..(Len(q) - 1) : R[j] = q[Place(j)]
    BY <2>7
  <2>9. IsInjective(R)
    <3> SUFFICES ASSUME NEW j \in 1..(Len(q) - 1), NEW k \in 1..(Len(q) - 1), R[j] = R[k]
                 PROVE  j = k
      BY <2>7 DEF IsInjective
    <3>1. Place(j) \in 1..Len(q) /\ Place(k) \in 1..Len(q) /\ q[Place(j)] = q[Place(k)]
      BY <2>8
    <3>2. Place(j) = Place(k)
      BY <3>1 DEF IsInjective
    <3> QED BY <3>2
  <2>10. ToSet(R) \subseteq ToSet(q) \ {r}
    <3> SUFFICES ASSUME NEW j \in 1..(Len(q) - 1) PROVE R[j] \in ToSet(q) /\ R[j] # r
      BY <2>7 DEF ToSet
    <3>1. Place(j) \in 1..Len(q) /\ Place(j) # i
      BY <2>0
    <3>2. R[j] = q[Place(j)]
      BY <2>8
    <3> HIDE DEF Place
    <3>3. q[Place(j)] # q[i]
      BY <2>0, <3>1 DEF IsInjective
    <3> QED BY <2>0, <2>1, <3>1, <3>2, <3>3 DEF ToSet
  <2>11. ToSet(q) \ {r} \subseteq ToSet(R)
    <3> SUFFICES ASSUME NEW k \in 1..Len(q), q[k] # r PROVE q[k] \in ToSet(R)
      BY DEF ToSet
    <3>1. CASE k < i
      <4>1. k \in 1..(Len(q) - 1) /\ Place(k) = k
        BY <2>0, <3>1
      <4> QED BY <2>7, <2>8, <4>1 DEF ToSet
    <3>2. CASE k > i
      <4>1. k - 1 \in 1..Len(R) /\ Place(k - 1) = k
        BY <2>7, <3>2
      <4>2. R[k - 1] = q[k]
        BY <2>7, <2>8, <4>1
      <4> HIDE DEF R
      <4> QED BY <2>7, <4>1, <4>2 DEF ToSet
    <3> QED BY <2>1, <3>1, <3>2
  <2>12. q # << >> /\ Head(q) # r => R # << >> /\ Head(R) = Head(q)
    <3> SUFFICES ASSUME Head(q) # r PROVE R # << >> /\ Head(R) = Head(q)
      OBVIOUS
    <3>1. i > 1
      BY <2>1
    <3>2. 1 \in 1..Len(R) /\ R[1] = q[1]
      BY <2>7, <2>8, <3>1
    <3> QED BY <2>7, <3>2
  <2> QED BY <2>7, <2>9, <2>10, <2>11, <2>12 DEF R
<1> QED BY <1>1, <1>2

LEMMA AppendOnce ==
  ASSUME NEW S, NEW q \in Seq(S), IsInjective(q), NEW x \in S, x \notin ToSet(q)
  PROVE  /\ Append(q, x) \in Seq(S)
         /\ IsInjective(Append(q, x))
         /\ ToSet(Append(q, x)) = ToSet(q) \cup {x}
         /\ q # << >> => Head(Append(q, x)) = Head(q)
<1> DEFINE a == Append(q, x)
<1>1. /\ a \in Seq(S) /\ Len(a) = Len(q) + 1 /\ DOMAIN a = 1..(Len(q) + 1)
      /\ \A i \in 1..Len(q) : a[i] = q[i]
      /\ a[Len(q) + 1] = x
  BY AppendProperties
<1> HIDE DEF a
<1>2. Len(q) \in Nat /\ DOMAIN q = 1..Len(q)
  OBVIOUS
<1>3. \A i \in 1..Len(q) : q[i] # x
  BY DEF ToSet
<1>4. \A i \in 1..(Len(q) + 1) : i \in 1..Len(q) \/ i = Len(q) + 1
  BY <1>2
<1>5. IsInjective(a)
  <2> SUFFICES ASSUME NEW i \in 1..(Len(q) + 1), NEW j \in 1..(Len(q) + 1), a[i] = a[j]
               PROVE  i = j
    BY <1>1 DEF IsInjective
  <2> QED BY <1>1, <1>2, <1>3, <1>4 DEF IsInjective
<1>6. ToSet(a) = ToSet(q) \cup {x}
  <2>1. ToSet(a) = {a[i] : i \in 1..(Len(q) + 1)}
    BY <1>1 DEF ToSet
  <2>2. 1..(Len(q) + 1) = 1..Len(q) \cup {Len(q) + 1}
    BY <1>2
  <2> QED BY <1>1, <1>2, <2>1, <2>2 DEF ToSet
<1>7. q # << >> => Head(a) = Head(q)
  <2> SUFFICES ASSUME q # << >> PROVE a[1] = q[1]
    BY <1>1
  <2>1. 1 \in 1..Len(q)
    BY <1>2
  <2> QED BY <1>1, <2>1
<1> QED BY <1>1, <1>5, <1>6, <1>7 DEF a

LEMMA TailOnce ==
  ASSUME NEW S, NEW q \in Seq(S), IsInjective(q), q # << >>
  PROVE  /\ Tail(q) \in Seq(S)
         /\ IsInjective(Tail(q))
         /\ ToSet(Tail(q)) = ToSet(q) \ {Head(q)}
<1> DEFINE r == Tail(q)
<1>1. /\ r \in Seq(S) /\ Len(r) = Len(q) - 1 /\ DOMAIN r = 1..(Len(q) - 1)
      /\ \A i \in 1..(Len(q) - 1) : r[i] = q[i + 1]
  BY HeadTailProperties
<1> HIDE DEF r
<1>2. Len(q) \in Nat /\ Len(q) > 0 /\ DOMAIN q = 1..Len(q) /\ Head(q) = q[1]
  OBVIOUS
<1>3. IsInjective(r)
  <2> SUFFICES ASSUME NEW i \in 1..(Len(q) - 1), NEW j \in 1..(Len(q) - 1), r[i] = r[j]
               PROVE  i = j
    BY <1>1 DEF IsInjective
  <2>1. i + 1 \in 1..Len(q) /\ j + 1 \in 1..Len(q)
    BY <1>2
  <2>2. i + 1 = j + 1
    BY <1>1, <1>2, <2>1 DEF IsInjective
  <2> QED BY <2>2
<1>4. ToSet(r) \subseteq ToSet(q) \ {Head(q)}
  <2> SUFFICES ASSUME NEW i \in 1..(Len(q) - 1) PROVE r[i] \in ToSet(q) /\ r[i] # q[1]
    BY <1>1, <1>2 DEF ToSet
  <2>1. i + 1 \in 1..Len(q) /\ i + 1 # 1 /\ 1 \in 1..Len(q)
    BY <1>2
  <2> QED BY <1>1, <1>2, <2>1 DEF ToSet, IsInjective
<1>5. ToSet(q) \ {Head(q)} \subseteq ToSet(r)
  <2> SUFFICES ASSUME NEW k \in 1..Len(q), q[k] # q[1] PROVE q[k] \in ToSet(r)
    BY <1>2 DEF ToSet
  <2>1. k - 1 \in 1..(Len(q) - 1) /\ (k - 1) + 1 = k
    BY <1>2
  <2>2. r[k - 1] = q[k]
    BY <1>1, <2>1
  <2> QED BY <1>1, <2>1, <2>2 DEF ToSet
<1> QED BY <1>1, <1>3, <1>4, <1>5 DEF r

(* What is left of a stack popped down to a place.                         *)
LEMMA PopOnce ==
  ASSUME NEW S, NEW q \in Seq(S), IsInjective(q), NEW i \in 1..Len(q)
  PROVE  /\ SubSeq(q, 1, i - 1) \in Seq(S)
         /\ IsInjective(SubSeq(q, 1, i - 1))
         /\ ToSet(SubSeq(q, 1, i - 1)) = {q[j] : j \in 1..(i - 1)}
<1> DEFINE r == SubSeq(q, 1, i - 1)
<1>1. Len(q) \in Nat /\ i \in Nat /\ i >= 1 /\ i <= Len(q) /\ DOMAIN q = 1..Len(q)
  OBVIOUS
<1>2. /\ r \in Seq(S) /\ Len(r) = i - 1 /\ DOMAIN r = 1..(i - 1)
      /\ \A j \in 1..(i - 1) : r[j] = q[j]
  OBVIOUS
<1> HIDE DEF r
<1>3. \A j \in 1..(i - 1) : j \in 1..Len(q)
  BY <1>1
<1>4. IsInjective(r)
  BY <1>1, <1>2, <1>3 DEF IsInjective
<1>5. ToSet(r) = {q[j] : j \in 1..(i - 1)}
  BY <1>2 DEF ToSet
<1> QED BY <1>2, <1>4, <1>5 DEF r

(* What is left of the reserve once the dead are dropped.                  *)
LEMMA RetainOnce ==
  ASSUME Reserve, NEW kept, Retained(kept)
  PROVE  /\ kept \in Seq(Slots)
         /\ IsInjective(kept)
         /\ ToSet(kept) = ToSet(spares) \ dead
<1>1. Len(spares) \in Nat /\ DOMAIN spares = 1..Len(spares)
      /\ \A i \in 1..Len(spares) : spares[i] \in Slots
  BY DEF Reserve
<1>2. Cardinality(Live) \in Nat
  <2>1. Live \in SUBSET (1..Len(spares))
    BY <1>1 DEF Live
  <2>2. IsFiniteSet(1..Len(spares))
    BY <1>1, FS_Interval
  <2> HIDE DEF Live
  <2>3. IsFiniteSet(Live)
    BY <2>1, <2>2, FS_Subset
  <2> QED BY <2>3, FS_CardinalityType
<1> DEFINE n == Cardinality(Live)
<1>3. PICK place \in Bijection(1..n, Live) : kept = [i \in DOMAIN place |-> spares[place[i]]]
  BY DEF Retained
<1>4. /\ place \in [1..n -> Live] /\ IsInjective(place)
      /\ \A p \in Live : \E i \in 1..n : place[i] = p
  BY <1>3 DEF Bijection, Injection, Surjection
<1> HIDE DEF n
<1>5. /\ kept = [i \in 1..n |-> spares[place[i]]]
      /\ \A i \in 1..n : place[i] \in 1..Len(spares) /\ spares[place[i]] \notin dead
  BY <1>1, <1>3, <1>4 DEF Live
<1>6. kept \in Seq(Slots) /\ DOMAIN kept = 1..Len(kept) /\ Len(kept) = n
  <2>1. \A i \in 1..n : kept[i] \in Slots
    BY <1>1, <1>5
  <2>2. kept \in [1..n -> Slots]
    BY <1>5, <2>1
  <2> QED BY <1>2, <2>2 DEF n
<1>7. IsInjective(kept)
  <2> SUFFICES ASSUME NEW i \in 1..n, NEW j \in 1..n, kept[i] = kept[j] PROVE i = j
    BY <1>6 DEF IsInjective
  <2>1. spares[place[i]] = spares[place[j]]
    BY <1>5
  <2>2. place[i] = place[j]
    BY <1>1, <1>5, <2>1 DEF Reserve, IsInjective
  <2> QED BY <1>4, <2>2 DEF IsInjective
<1>8. ToSet(kept) \subseteq ToSet(spares) \ dead
  BY <1>1, <1>5, <1>6 DEF ToSet
<1>9. ToSet(spares) \ dead \subseteq ToSet(kept)
  <2> SUFFICES ASSUME NEW p \in 1..Len(spares), spares[p] \notin dead
               PROVE  spares[p] \in ToSet(kept)
    BY <1>1 DEF ToSet
  <2>1. p \in Live
    BY <1>1 DEF Live
  <2>2. PICK i \in 1..n : place[i] = p
    BY <1>4, <2>1
  <2> QED BY <1>5, <1>6, <2>2 DEF ToSet
<1> QED BY <1>6, <1>7, <1>8, <1>9

-----------------------------------------------------------------------------
(* What one step leaves of each part *)

Mine(t) == {task[t].slot} \ {NoSlot}

LEMMA IdleType == Idle \in TaskType
  BY PoolAssumption DEF Idle, TaskType

LEMMA GoesType ==
  ASSUME Tables, NEW t \in Tasks, NEW r \in TaskType, Goes(t, r)
  PROVE  /\ task' \in [Tasks -> TaskType]
         /\ task'[t] = r
         /\ \A u \in Tasks \ {t} : task'[u] = task[u]
  BY DEF Tables, Goes

(* The slots of a step that concerns one task: those it gave, took or kept *)
(* are those it found.                                                     *)
LEMMA OwnersMove ==
  ASSUME Owners, NEW t \in Tasks,
         \A u \in Tasks \ {t} : task'[u].slot = task[u].slot
                               /\ (Owns(u, task'[u].pc) <=> Owns(u, task[u].pc)),
         task'[t].slot # NoSlot <=> Owns(t, task'[t].pc),
         free' \cup ToSet(spares') \cup Mine(t)' = free \cup ToSet(spares) \cup Mine(t),
         free' \cap ToSet(spares') = {}, free' \cap Mine(t)' = {}, ToSet(spares') \cap Mine(t)' = {}
  PROVE  Owners'
<1> DEFINE Others == {task[u].slot : u \in Tasks \ {t}} \ {NoSlot}
<1>1. Held = Others \cup Mine(t) /\ Held' = Others \cup Mine(t)'
  BY DEF Held, Mine
<1>2. Others \cap Mine(t) = {}
  BY DEF Owners, Mine
<1>3. /\ free \cap Others = {} /\ ToSet(spares) \cap Others = {}
      /\ free \cup ToSet(spares) \cup Mine(t) \subseteq Slots
      /\ free \cup ToSet(spares) \cup Mine(t) \cup Others = Slots
  BY <1>1 DEF Owners
<1>4. Mine(t)' \cap Others = {}
  BY <1>2, <1>3
<1>5. \A u, v \in Tasks : task'[u].slot = task'[v].slot /\ u # v => task'[u].slot = NoSlot
  <2>1. ASSUME NEW u \in Tasks, u # t, task'[u].slot = task'[t].slot PROVE task'[t].slot = NoSlot
    BY <1>4, <2>1 DEF Mine
  <2>2. ASSUME NEW u \in Tasks \ {t}, NEW v \in Tasks \ {t}, u # v,
               task'[u].slot = task'[v].slot
        PROVE  task'[u].slot = NoSlot
    BY <2>2 DEF Owners
  <2> QED BY <2>1, <2>2
<1>6. \A u \in Tasks : task'[u].slot # NoSlot <=> Owns(u, task'[u].pc)
  BY DEF Owners
<1> HIDE DEF Others
<1>7. free' \cup ToSet(spares') \cup Held' = Slots
  BY <1>1, <1>3
<1>8. free' \cap Held' = {} /\ ToSet(spares') \cap Held' = {}
  <2>1. free' \cup ToSet(spares') \subseteq free \cup ToSet(spares) \cup Mine(t)
    OBVIOUS
  <2> QED BY <1>1, <1>2, <1>3, <2>1
<1> QED BY <1>5, <1>6, <1>7, <1>8 DEF Owners, Owns

LEMMA QueuesAside ==
  ASSUME Queues, UNCHANGED <<atSlots, atHop>>,
         \A u \in Tasks : /\ At(u, {"slot"})' <=> At(u, {"slot"})
                          /\ At(u, {"hop", "first"})' <=> At(u, {"hop", "first"})
                          /\ At(u, {"first"})' => At(u, {"first"})
  PROVE  Queues'
<1>1. {u \in Tasks : At(u, {"slot"})}' = {u \in Tasks : At(u, {"slot"})}
  OBVIOUS
<1>2. {u \in Tasks : At(u, {"hop", "first"})}' = {u \in Tasks : At(u, {"hop", "first"})}
  OBVIOUS
<1>3. \A u \in Tasks : At(u, {"first"})' => Head(atHop') = u
  BY DEF Queues
<1> QED BY <1>1, <1>2, <1>3 DEF Queues

LEMMA CountsAside ==
  ASSUME Counts, opening' = opening,
         \A u \in Refills : At(u, {"idle", "push"})' <=> At(u, {"idle", "push"})
  PROVE  Counts'
<1>1. UnderWay' = UnderWay
  BY DEF UnderWay
<1> QED BY <1>1 DEF Counts

(* A step of a task that is at neither queue, and of no opening that       *)
(* begins or ends.                                                         *)
LEMMA Aside ==
  ASSUME PoolInv, NEW t \in Tasks, NEW r \in TaskType, Goes(t, r), prepared' \in BOOLEAN,
         UNCHANGED <<opening, atSlots, atHop>>,
         task[t].pc \notin {"slot", "hop", "first"}, r.pc \notin {"slot", "hop", "first"},
         t \in Refills => (task[t].pc \in {"idle", "push"} <=> r.pc \in {"idle", "push"}),
         Reserve', r.slot # NoSlot <=> Owns(t, r.pc),
         free' \cup ToSet(spares') \cup ({r.slot} \ {NoSlot})
            = free \cup ToSet(spares) \cup Mine(t),
         free' \cap ToSet(spares') = {}, free' \cap ({r.slot} \ {NoSlot}) = {},
         ToSet(spares') \cap ({r.slot} \ {NoSlot}) = {}
  PROVE  PoolInv'
<1>1. /\ task' \in [Tasks -> TaskType] /\ task'[t] = r
      /\ \A u \in Tasks \ {t} : task'[u] = task[u]
  BY GoesType DEF PoolInv
<1>2. Tables'
  BY <1>1 DEF PoolInv, Tables
<1>3. Queues'
  <2>1. \A u \in Tasks : /\ At(u, {"slot"})' <=> At(u, {"slot"})
                         /\ At(u, {"hop", "first"})' <=> At(u, {"hop", "first"})
                         /\ At(u, {"first"})' => At(u, {"first"})
    BY <1>1 DEF At
  <2> QED BY <2>1, QueuesAside DEF PoolInv
<1>4. Owners'
  <2>1. Mine(t)' = {r.slot} \ {NoSlot}
    BY <1>1 DEF Mine
  <2>2. \A u \in Tasks \ {t} : task'[u].slot = task[u].slot
                              /\ (Owns(u, task'[u].pc) <=> Owns(u, task[u].pc))
    BY <1>1
  <2> QED BY <1>1, <2>1, <2>2, OwnersMove DEF PoolInv
<1>5. Counts'
  <2>1. \A u \in Refills : At(u, {"idle", "push"})' <=> At(u, {"idle", "push"})
    BY <1>1 DEF At, Tasks
  <2> QED BY <2>1, CountsAside DEF PoolInv
<1> QED BY <1>2, <1>3, <1>4, <1>5 DEF PoolInv

-----------------------------------------------------------------------------
(* The window *)

LEMMA TaskFields ==
  ASSUME Tables, NEW t \in Tasks
  PROVE  /\ task[t] \in TaskType
         /\ task[t].slot \in Slots \cup {NoSlot}
         /\ task[t].left \in 0..Spare
  BY DEF Tables, TaskType

LEMMA InvPrepare == ASSUME PoolInv, NEW t \in Windows, Prepare(t) PROVE PoolInv'
<1>1. t \in Tasks /\ t \notin Refills /\ t \notin Conns
  BY PoolAssumption DEF Tasks
<1>2. /\ spares' \in Seq(Slots) /\ IsInjective(spares')
      /\ ToSet(spares') = ToSet(spares) \ dead
      /\ dead' = {} /\ free' = free \cup dead /\ dead \subseteq ToSet(spares)
  BY RetainOnce DEF PoolInv, Reserve, Prepare, Dropped
<1>3. Reserve'
  BY <1>2 DEF Reserve
<1>4. task[t].slot = NoSlot /\ task[t].pc = "idle" /\ Mine(t) = {}
  BY <1>1 DEF PoolInv, Owners, Owns, Prepare, Mine
<1>5. /\ free' \cup ToSet(spares') = free \cup ToSet(spares)
      /\ free' \cap ToSet(spares') = {}
  BY <1>2 DEF PoolInv, Owners
<1>6. PICK r \in {Idle, [Idle EXCEPT !.pc = "account"], task[t]} : Goes(t, r) /\ r.slot = NoSlot
                 /\ r.pc \in {"idle", "account"} /\ r \in TaskType
  <2>1. CASE spares' = << >>
    <3>1. [Idle EXCEPT !.pc = "account"] \in TaskType
      BY PoolAssumption DEF Idle, TaskType
    <3> QED BY <2>1, <3>1 DEF Prepare, Idle
  <2>2. CASE spares' # << >>
    <3>1. Goes(t, task[t])
      BY <1>1, <2>2 DEF Prepare, Goes, PoolInv, Tables
    <3> QED BY <1>1, <1>4, <3>1, TaskFields DEF PoolInv
  <2> QED BY <2>1, <2>2
<1>7. prepared' \in BOOLEAN /\ UNCHANGED <<opening, atSlots, atHop>>
  BY DEF Prepare, PoolInv, Tables
<1>8. r.slot # NoSlot <=> Owns(t, r.pc)
  BY <1>1, <1>6 DEF Owns
<1> QED BY <1>1, <1>3, <1>4, <1>5, <1>6, <1>7, <1>8, Aside

LEMMA InvPrepared == ASSUME PoolInv, NEW t \in Windows, Prepared(t) PROVE PoolInv'
<1>1. t \in Tasks /\ t \notin Refills /\ t \notin Conns
  BY PoolAssumption DEF Tasks
<1> DEFINE r == [Idle EXCEPT !.pc = "count"]
<1>2. r \in TaskType /\ r.slot = NoSlot /\ r.pc = "count" /\ Goes(t, r)
  BY PoolAssumption DEF Prepared, Idle, TaskType
<1> HIDE DEF r
<1>3. task[t].pc = "opened" /\ task[t].slot # NoSlot /\ task[t].slot \in Slots
  BY <1>1, TaskFields DEF PoolInv, Owners, Owns, Prepared
<1>4. Mine(t) = {task[t].slot} /\ task[t].slot \in Held
  BY <1>1, <1>3 DEF Mine, Held
<1>5. /\ spares' \in Seq(Slots) /\ IsInjective(spares')
      /\ ToSet(spares') = ToSet(spares) \cup {task[t].slot}
      /\ dead' = dead /\ free' = free
  BY <1>3, <1>4, AppendOnce DEF PoolInv, Reserve, Owners, Prepared
<1>6. Reserve'
  BY <1>5 DEF PoolInv, Reserve
<1>7. free' \cap ToSet(spares') = {}
  BY <1>4, <1>5 DEF PoolInv, Owners
<1>8. prepared' \in BOOLEAN /\ UNCHANGED <<opening, atSlots, atHop>>
  BY DEF Prepared
<1>9. r.slot # NoSlot <=> Owns(t, r.pc)
  BY <1>1, <1>2 DEF Owns
<1> QED BY <1>1, <1>2, <1>3, <1>4, <1>5, <1>6, <1>7, <1>8, <1>9, Aside

(* Letting go of everything, wherever the opening was.                     *)
LEMMA Leaving ==
  ASSUME PoolInv, NEW t \in Tasks, NEW r \in TaskType, LetGo(t), Goes(t, r),
         UNCHANGED <<prepared, spares, dead, opening>>,
         r.slot = NoSlot, r.pc \in {"idle", "failed"},
         t \in Refills => (task[t].pc \in {"idle", "push"} <=> r.pc \in {"idle", "push"})
  PROVE  PoolInv'
<1>1. /\ task' \in [Tasks -> TaskType] /\ task'[t] = r
      /\ \A u \in Tasks \ {t} : task'[u] = task[u]
  BY GoesType DEF PoolInv
<1>2. Tables'
  BY <1>1 DEF PoolInv, Tables
<1>3. Queues'
  <2>1. /\ atSlots' \in Seq(Tasks) /\ IsInjective(atSlots')
        /\ ToSet(atSlots') = ToSet(atSlots) \ {t}
    BY RemoveOnce DEF LetGo, PoolInv, Queues
  <2>2. /\ atHop' \in Seq(Tasks) /\ IsInjective(atHop')
        /\ ToSet(atHop') = ToSet(atHop) \ {t}
        /\ atHop # << >> /\ Head(atHop) # t => Head(atHop') = Head(atHop)
    BY RemoveOnce DEF LetGo, PoolInv, Queues
  <2>3. /\ {u \in Tasks : At(u, {"slot"})}' = {u \in Tasks : At(u, {"slot"})} \ {t}
        /\ {u \in Tasks : At(u, {"hop", "first"})}' = {u \in Tasks : At(u, {"hop", "first"})} \ {t}
    BY <1>1 DEF At
  <2>4. ASSUME NEW u \in Tasks, At(u, {"first"})' PROVE Head(atHop') = u
    <3>1. u # t /\ At(u, {"first"}) /\ At(u, {"hop", "first"})
      BY <1>1, <2>4 DEF At
    <3>2. Head(atHop) = u /\ u \in ToSet(atHop)
      BY <3>1 DEF PoolInv, Queues
    <3>3. atHop # << >>
      BY <3>2 DEF ToSet
    <3> QED BY <2>2, <3>1, <3>2, <3>3
  <2> QED BY <2>1, <2>2, <2>3, <2>4 DEF PoolInv, Queues
<1>4. Reserve'
  BY DEF PoolInv, Reserve
<1>5. Owners'
  <2>1. Mine(t)' = {} /\ free' = free \cup Mine(t) /\ Mine(t) \subseteq Held
    BY <1>1 DEF Mine, LetGo, Dropped, Held
  <2>2. \A u \in Tasks \ {t} : task'[u].slot = task[u].slot
                              /\ (Owns(u, task'[u].pc) <=> Owns(u, task[u].pc))
    BY <1>1
  <2>3. task'[t].slot # NoSlot <=> Owns(t, task'[t].pc)
    BY <1>1 DEF Owns
  <2>4. /\ free' \cup ToSet(spares') \cup Mine(t)' = free \cup ToSet(spares) \cup Mine(t)
        /\ free' \cap ToSet(spares') = {}
    BY <2>1 DEF PoolInv, Owners
  <2> QED BY <2>1, <2>2, <2>3, <2>4, OwnersMove DEF PoolInv
<1>6. Counts'
  <2>1. \A u \in Refills : At(u, {"idle", "push"})' <=> At(u, {"idle", "push"})
    BY <1>1 DEF At, Tasks
  <2> QED BY <2>1, CountsAside DEF PoolInv
<1> QED BY <1>2, <1>3, <1>4, <1>5, <1>6 DEF PoolInv

LEMMA InvAbandon == ASSUME PoolInv, NEW t \in Windows, Abandon(t) PROVE PoolInv'
<1>1. t \in Tasks /\ t \notin Refills
  BY PoolAssumption DEF Tasks
<1>2. Idle \in TaskType /\ Idle.slot = NoSlot /\ Idle.pc = "idle"
  BY IdleType DEF Idle
<1> QED BY <1>1, <1>2, Leaving DEF Abandon

LEMMA InvOpenFails == ASSUME PoolInv, NEW t \in Tasks, OpenFails(t) PROVE PoolInv'
<1> DEFINE r == IF t \in Refills THEN [Idle EXCEPT !.pc = "failed"] ELSE Idle
<1>1. /\ r \in TaskType /\ r.slot = NoSlot
      /\ r.pc = IF t \in Refills THEN "failed" ELSE "idle"
  BY PoolAssumption DEF Idle, TaskType
<1>2. task[t].pc \notin {"idle", "push"} /\ LetGo(t) /\ Goes(t, r)
      /\ UNCHANGED <<prepared, spares, dead, opening>>
  BY DEF OpenFails
<1> HIDE DEF r
<1> QED BY <1>1, <1>2, Leaving

-----------------------------------------------------------------------------
(* An opening, at the queues *)

(* A step of an opening that keeps its slot or is given a free one.        *)
LEMMA AtQueues ==
  ASSUME PoolInv, NEW t \in Tasks, NEW r \in TaskType, Goes(t, r), Queues',
         UNCHANGED <<prepared, spares, dead, opening>>,
         {task[t].pc, r.pc} \cap {"idle", "push"} = {},
         r.slot # NoSlot <=> Owns(t, r.pc),
         free' \cup ({r.slot} \ {NoSlot}) = free \cup Mine(t),
         free' \cap ({r.slot} \ {NoSlot}) = {}
  PROVE  PoolInv'
<1>1. /\ task' \in [Tasks -> TaskType] /\ task'[t] = r
      /\ \A u \in Tasks \ {t} : task'[u] = task[u]
  BY GoesType DEF PoolInv
<1>2. Tables' /\ Reserve'
  BY <1>1 DEF PoolInv, Tables, Reserve
<1>3. Owners'
  <2>1. Mine(t)' = {r.slot} \ {NoSlot} /\ Mine(t) \subseteq Held
    BY <1>1 DEF Mine, Held
  <2>2. \A u \in Tasks \ {t} : task'[u].slot = task[u].slot
                              /\ (Owns(u, task'[u].pc) <=> Owns(u, task[u].pc))
    BY <1>1
  <2>3. /\ free' \cap ToSet(spares') = {} /\ ToSet(spares') \cap Mine(t)' = {}
        /\ free' \cup ToSet(spares') \cup Mine(t)' = free \cup ToSet(spares) \cup Mine(t)
    BY <2>1 DEF PoolInv, Owners
  <2> QED BY <1>1, <2>1, <2>2, <2>3, OwnersMove DEF PoolInv
<1>4. Counts'
  <2>1. \A u \in Refills : At(u, {"idle", "push"})' <=> At(u, {"idle", "push"})
    BY <1>1 DEF At, Tasks
  <2> QED BY <2>1, CountsAside DEF PoolInv
<1> QED BY <1>2, <1>3, <1>4 DEF PoolInv

LEMMA InvAskSlot == ASSUME PoolInv, NEW t \in Tasks, AskSlot(t) PROVE PoolInv'
<1> DEFINE r == [task[t] EXCEPT !.pc = "slot"]
<1>1. r \in TaskType /\ r.pc = "slot" /\ r.slot = task[t].slot /\ Goes(t, r)
  BY TaskFields DEF PoolInv, TaskType, AskSlot
<1> HIDE DEF r
<1>2. /\ task'[t] = r /\ \A u \in Tasks \ {t} : task'[u] = task[u]
  BY <1>1, GoesType DEF PoolInv
<1>3. task[t].pc = "account" /\ task[t].slot = NoSlot /\ free' = free /\ Mine(t) = {}
      /\ UNCHANGED <<prepared, spares, dead, opening, atHop>>
  BY DEF AskSlot, PoolInv, Owners, Owns, Mine
<1>4. Queues'
  <2>1. t \notin ToSet(atSlots)
    BY <1>3 DEF PoolInv, Queues, At
  <2>2. /\ atSlots' \in Seq(Tasks) /\ IsInjective(atSlots')
        /\ ToSet(atSlots') = ToSet(atSlots) \cup {t}
    BY <2>1, AppendOnce DEF AskSlot, PoolInv, Queues
  <2>3. /\ {u \in Tasks : At(u, {"slot"})}' = {u \in Tasks : At(u, {"slot"})} \cup {t}
        /\ {u \in Tasks : At(u, {"hop", "first"})}' = {u \in Tasks : At(u, {"hop", "first"})}
        /\ \A u \in Tasks : At(u, {"first"})' => At(u, {"first"})
    BY <1>1, <1>2, <1>3 DEF At
  <2> QED BY <1>3, <2>2, <2>3 DEF PoolInv, Queues
<1>5. r.slot # NoSlot <=> Owns(t, r.pc)
  BY <1>1, <1>3 DEF Owns
<1> QED BY <1>1, <1>3, <1>4, <1>5, AtQueues

LEMMA InvTakeSlot == ASSUME PoolInv, NEW t \in Tasks, TakeSlot(t) PROVE PoolInv'
<1>1. PICK s \in free : /\ free' = free \ {s}
                        /\ Goes(t, [task[t] EXCEPT !.pc = "hop", !.slot = s])
  BY DEF TakeSlot
<1> DEFINE r == [task[t] EXCEPT !.pc = "hop", !.slot = s]
<1>2. s \in Slots /\ s # NoSlot
  BY PoolAssumption DEF PoolInv, Owners
<1>3. r \in TaskType /\ r.pc = "hop" /\ r.slot = s /\ Goes(t, r)
  BY <1>1, <1>2, TaskFields DEF PoolInv, TaskType
<1> HIDE DEF r
<1>4. /\ task'[t] = r /\ \A u \in Tasks \ {t} : task'[u] = task[u]
  BY <1>3, GoesType DEF PoolInv
<1>5. task[t].pc = "slot" /\ task[t].slot = NoSlot /\ Mine(t) = {}
      /\ UNCHANGED <<prepared, spares, dead, opening>>
  BY DEF TakeSlot, PoolInv, Owners, Owns, Mine
<1>6. Queues'
  <2>1. t \in ToSet(atSlots) /\ t \notin ToSet(atHop) /\ Head(atSlots) = t
        /\ atSlots' = Tail(atSlots) /\ atHop' = Append(atHop, t)
    BY <1>5 DEF PoolInv, Queues, At, TakeSlot
  <2>2. atSlots # << >>
    BY <2>1 DEF ToSet
  <2>3. /\ atSlots' \in Seq(Tasks) /\ IsInjective(atSlots')
        /\ ToSet(atSlots') = ToSet(atSlots) \ {t}
    BY <2>1, <2>2, TailOnce DEF PoolInv, Queues
  <2>4. /\ atHop' \in Seq(Tasks) /\ IsInjective(atHop')
        /\ ToSet(atHop') = ToSet(atHop) \cup {t}
        /\ atHop # << >> => Head(atHop') = Head(atHop)
    BY <2>1, AppendOnce DEF PoolInv, Queues
  <2>5. /\ {u \in Tasks : At(u, {"slot"})}' = {u \in Tasks : At(u, {"slot"})} \ {t}
        /\ {u \in Tasks : At(u, {"hop", "first"})}' = {u \in Tasks : At(u, {"hop", "first"})} \cup {t}
    BY <1>3, <1>4, <1>5 DEF At
  <2>6. ASSUME NEW u \in Tasks, At(u, {"first"})' PROVE Head(atHop') = u
    <3>1. At(u, {"first"}) /\ At(u, {"hop", "first"})
      BY <1>3, <1>4, <2>6 DEF At
    <3>2. Head(atHop) = u /\ u \in ToSet(atHop)
      BY <3>1 DEF PoolInv, Queues
    <3>3. atHop # << >>
      BY <3>2 DEF ToSet
    <3> QED BY <2>4, <3>2, <3>3
  <2> QED BY <2>3, <2>4, <2>5, <2>6 DEF PoolInv, Queues
<1>7. r.slot # NoSlot <=> Owns(t, r.pc)
  BY <1>2, <1>3 DEF Owns
<1>8. free' \cup ({r.slot} \ {NoSlot}) = free \cup Mine(t) /\ free' \cap ({r.slot} \ {NoSlot}) = {}
  BY <1>1, <1>2, <1>3, <1>5
<1> QED BY <1>3, <1>5, <1>6, <1>7, <1>8, AtQueues

LEMMA InvStartHop == ASSUME PoolInv, NEW t \in Tasks, StartHop(t) PROVE PoolInv'
<1> DEFINE r == [task[t] EXCEPT !.pc = "first"]
<1>1. r \in TaskType /\ r.pc = "first" /\ r.slot = task[t].slot /\ Goes(t, r)
  BY TaskFields DEF PoolInv, TaskType, StartHop
<1> HIDE DEF r
<1>2. /\ task'[t] = r /\ \A u \in Tasks \ {t} : task'[u] = task[u]
  BY <1>1, GoesType DEF PoolInv
<1>3. task[t].pc = "hop" /\ task[t].slot # NoSlot /\ free' = free
      /\ UNCHANGED <<prepared, spares, dead, opening, atSlots, atHop>> /\ Head(atHop) = t
  BY DEF StartHop, PoolInv, Owners, Owns
<1>4. Queues'
  <2>1. /\ {u \in Tasks : At(u, {"slot"})}' = {u \in Tasks : At(u, {"slot"})}
        /\ {u \in Tasks : At(u, {"hop", "first"})}' = {u \in Tasks : At(u, {"hop", "first"})}
        /\ \A u \in Tasks : At(u, {"first"})' => At(u, {"first"}) \/ u = t
    BY <1>1, <1>2, <1>3 DEF At
  <2>2. \A u \in Tasks : At(u, {"first"})' => Head(atHop') = u
    BY <1>3, <2>1 DEF PoolInv, Queues
  <2> QED BY <1>3, <2>1, <2>2 DEF PoolInv, Queues
<1>5. /\ r.slot # NoSlot <=> Owns(t, r.pc)
      /\ free' \cup ({r.slot} \ {NoSlot}) = free \cup Mine(t)
      /\ free' \cap ({r.slot} \ {NoSlot}) = {}
  <2>1. Mine(t) \subseteq Held
    BY DEF Mine, Held
  <2> QED BY <1>1, <1>3, <2>1 DEF Owns, Mine, PoolInv, Owners
<1> QED BY <1>1, <1>3, <1>4, <1>5, AtQueues

LEMMA InvFirstHopReady == ASSUME PoolInv, NEW t \in Tasks, FirstHopReady(t) PROVE PoolInv'
<1> DEFINE r == [task[t] EXCEPT !.pc = "later"]
<1>1. r \in TaskType /\ r.pc = "later" /\ r.slot = task[t].slot /\ Goes(t, r)
  BY TaskFields DEF PoolInv, TaskType, FirstHopReady
<1> HIDE DEF r
<1>2. /\ task'[t] = r /\ \A u \in Tasks \ {t} : task'[u] = task[u]
  BY <1>1, GoesType DEF PoolInv
<1>3. task[t].pc = "first" /\ task[t].slot # NoSlot /\ free' = free
      /\ UNCHANGED <<prepared, spares, dead, opening, atSlots>> /\ atHop' = Tail(atHop)
  BY DEF FirstHopReady, PoolInv, Owners, Owns
<1>4. Queues'
  <2>1. t \in ToSet(atHop) /\ Head(atHop) = t
        /\ \A u \in Tasks : At(u, {"first"}) => u = t
    BY <1>3 DEF PoolInv, Queues, At
  <2>2. atHop # << >>
    BY <2>1 DEF ToSet
  <2>3. /\ atHop' \in Seq(Tasks) /\ IsInjective(atHop')
        /\ ToSet(atHop') = ToSet(atHop) \ {t}
    BY <1>3, <2>1, <2>2, TailOnce DEF PoolInv, Queues
  <2>4. /\ {u \in Tasks : At(u, {"slot"})}' = {u \in Tasks : At(u, {"slot"})}
        /\ {u \in Tasks : At(u, {"hop", "first"})}' = {u \in Tasks : At(u, {"hop", "first"})} \ {t}
        /\ \A u \in Tasks : ~At(u, {"first"})'
    BY <1>1, <1>2, <1>3, <2>1 DEF At
  <2> QED BY <1>3, <2>3, <2>4 DEF PoolInv, Queues
<1>5. /\ r.slot # NoSlot <=> Owns(t, r.pc)
      /\ free' \cup ({r.slot} \ {NoSlot}) = free \cup Mine(t)
      /\ free' \cap ({r.slot} \ {NoSlot}) = {}
  <2>1. Mine(t) \subseteq Held
    BY DEF Mine, Held
  <2> QED BY <1>1, <1>3, <2>1 DEF Owns, Mine, PoolInv, Owners
<1> QED BY <1>1, <1>3, <1>4, <1>5, AtQueues

-----------------------------------------------------------------------------
(* Away from the queues: a task keeps its session, or drops it *)

LEMMA Keeping ==
  ASSUME PoolInv, NEW t \in Tasks, NEW r \in TaskType, Goes(t, r),
         UNCHANGED <<prepared, spares, dead, free, opening, atSlots, atHop>>,
         task[t].pc \notin {"slot", "hop", "first"}, r.pc \notin {"slot", "hop", "first"},
         t \in Refills => (task[t].pc \in {"idle", "push"} <=> r.pc \in {"idle", "push"}),
         r.slot = task[t].slot, Owns(t, r.pc) <=> Owns(t, task[t].pc)
  PROVE  PoolInv'
<1>1. prepared' \in BOOLEAN /\ Reserve'
  BY DEF PoolInv, Tables, Reserve
<1>2. {r.slot} \ {NoSlot} = Mine(t) /\ Mine(t) \subseteq Held
  BY DEF Mine, Held
<1>3. r.slot # NoSlot <=> Owns(t, r.pc)
  BY DEF PoolInv, Owners
<1>4. /\ free' \cap ToSet(spares') = {} /\ free' \cap ({r.slot} \ {NoSlot}) = {}
      /\ ToSet(spares') \cap ({r.slot} \ {NoSlot}) = {}
  BY <1>2 DEF PoolInv, Owners
<1> QED BY <1>1, <1>2, <1>3, <1>4, Aside

LEMMA Ending ==
  ASSUME PoolInv, NEW t \in Conns, NEW r \in TaskType, Goes(t, r), Dropped({task[t].slot}),
         UNCHANGED <<prepared, spares, dead, opening, atSlots, atHop>>,
         task[t].pc \in {"stream", "relay"}, r.slot = NoSlot, r.pc \in {"idle", "account"}
  PROVE  PoolInv'
<1>1. t \in Tasks /\ t \notin Refills
  BY PoolAssumption DEF Tasks
<1>2. prepared' \in BOOLEAN /\ Reserve'
  BY DEF PoolInv, Tables, Reserve
<1>3. Mine(t) = {task[t].slot} /\ task[t].slot \in Held
  BY <1>1 DEF PoolInv, Owners, Owns, Mine, Held
<1>4. r.slot # NoSlot <=> Owns(t, r.pc)
  BY DEF Owns
<1>5. free' \cup ToSet(spares') = free \cup ToSet(spares) \cup Mine(t)
      /\ free' \cap ToSet(spares') = {}
  BY <1>3 DEF Dropped, PoolInv, Owners
<1> QED BY <1>1, <1>2, <1>4, <1>5, Aside

LEMMA InvOpened == ASSUME PoolInv, NEW t \in Tasks, Opened(t) PROVE PoolInv'
<1> DEFINE r == [task[t] EXCEPT !.pc = "opened"]
<1>1. r \in TaskType /\ r.pc = "opened" /\ r.slot = task[t].slot /\ Goes(t, r)
  BY TaskFields DEF PoolInv, TaskType, Opened
<1> HIDE DEF r
<1>2. task[t].pc = "later" /\ UNCHANGED <<prepared, spares, dead, free, opening, atSlots, atHop>>
  BY DEF Opened
<1> QED BY <1>1, <1>2, Keeping DEF Owns

LEMMA ToSpawn ==
  ASSUME NEW n \in Int, n <= Spare
  PROVE  Max({0, n}) \in 0..Spare
<1>1. CASE n <= 0
  BY <1>1, PoolAssumption DEF Max
<1>2. CASE n > 0
  BY <1>2, PoolAssumption DEF Max
<1> QED BY <1>1, <1>2

LEMMA InvCount == ASSUME PoolInv, NEW t \in Windows \cup Conns, Count(t) PROVE PoolInv'
<1>1. t \in Tasks /\ t \notin Refills
  BY PoolAssumption DEF Tasks
<1> DEFINE n == Spare - Len(spares) - opening
<1>2. n \in Int /\ n <= Spare
  BY PoolAssumption DEF PoolInv, Tables, Reserve
<1>3. Max({0, n}) \in 0..Spare
  BY <1>2, ToSpawn
<1> HIDE DEF n
<1> DEFINE r == [task[t] EXCEPT !.pc = "spawn", !.left = Max({0, n})]
<1>4. r \in TaskType /\ r.pc = "spawn" /\ r.slot = task[t].slot
  BY <1>1, <1>3, TaskFields DEF PoolInv, TaskType
<1>5. Goes(t, r) /\ task[t].pc = "count"
      /\ UNCHANGED <<prepared, spares, dead, free, opening, atSlots, atHop>>
  BY DEF Count, n
<1> HIDE DEF r
<1> QED BY <1>1, <1>4, <1>5, Keeping DEF Owns

LEMMA InvRefilled == ASSUME PoolInv, NEW t \in Windows \cup Conns, Refilled(t) PROVE PoolInv'
<1>1. t \in Tasks /\ t \notin Refills
  BY PoolAssumption DEF Tasks
<1>2. task[t].pc = "spawn" /\ UNCHANGED <<prepared, spares, dead, free, opening, atSlots, atHop>>
  BY DEF Refilled
<1>3. CASE t \in Windows
  <2>1. t \notin Conns /\ Goes(t, Idle)
    BY <1>3, PoolAssumption DEF Refilled
  <2>2. Idle \in TaskType /\ Idle.pc = "idle" /\ Idle.slot = task[t].slot
    BY <1>1, <1>2, <2>1, IdleType DEF Idle, PoolInv, Owners, Owns
  <2> QED BY <1>1, <1>2, <2>1, <2>2, Keeping DEF Owns
<1>4. CASE t \notin Windows
  <2> DEFINE r == [task[t] EXCEPT !.pc = "stream"]
  <2>1. r \in TaskType /\ r.pc = "stream" /\ r.slot = task[t].slot /\ Goes(t, r) /\ t \in Conns
    BY <1>1, <1>4, TaskFields DEF PoolInv, TaskType, Refilled
  <2> HIDE DEF r
  <2> QED BY <1>1, <1>2, <2>1, Keeping DEF Owns
<1> QED BY <1>3, <1>4

LEMMA InvSpawn ==
  ASSUME PoolInv, NEW t \in Windows \cup Conns, NEW r \in Refills, Spawn(t, r)
  PROVE  PoolInv'
<1>1. t \in Tasks /\ r \in Tasks /\ t # r /\ t \notin Refills
  BY PoolAssumption DEF Tasks
<1> DEFINE p == [task[t] EXCEPT !.left = @ - 1]
           q == [Idle EXCEPT !.pc = "account"]
<1>2. task[t].left - 1 \in 0..Spare
  BY <1>1, TaskFields, PoolAssumption DEF PoolInv, Spawn
<1>3. p \in TaskType /\ p.pc = "spawn" /\ p.slot = task[t].slot /\ task[t].pc = "spawn"
  BY <1>1, <1>2, TaskFields DEF PoolInv, TaskType, Spawn
<1>4. q \in TaskType /\ q.pc = "account" /\ q.slot = NoSlot
  BY PoolAssumption DEF Idle, TaskType
<1>5. task' = [task EXCEPT ![t] = p, ![r] = q]
  BY DEF Spawn
<1> HIDE DEF p, q
<1>6. /\ task' \in [Tasks -> TaskType] /\ task'[t] = p /\ task'[r] = q
      /\ \A u \in Tasks \ {t, r} : task'[u] = task[u]
  BY <1>1, <1>3, <1>4, <1>5 DEF PoolInv, Tables
<1>7. /\ task[r].pc = "idle" /\ task[r].slot = NoSlot /\ opening' = opening + 1
      /\ UNCHANGED <<prepared, spares, dead, free, atSlots, atHop>>
  BY <1>1 DEF Spawn, PoolInv, Owners, Owns
<1>8. Tables' /\ Reserve'
  BY <1>6, <1>7 DEF PoolInv, Tables, Reserve
<1>9. Queues'
  <2>1. \A u \in Tasks : /\ At(u, {"slot"})' <=> At(u, {"slot"})
                         /\ At(u, {"hop", "first"})' <=> At(u, {"hop", "first"})
                         /\ At(u, {"first"})' => At(u, {"first"})
    BY <1>3, <1>4, <1>6, <1>7 DEF At
  <2> QED BY <1>7, <2>1, QueuesAside DEF PoolInv
<1>10. Owners'
  <2>1. \A u \in Tasks : task'[u].slot = task[u].slot
                       /\ (Owns(u, task'[u].pc) <=> Owns(u, task[u].pc))
    <3>1. r \notin Conns
      BY PoolAssumption
    <3> QED BY <1>3, <1>4, <1>6, <1>7, <3>1 DEF Owns
  <2>2. Mine(t)' = Mine(t) /\ Mine(t) \subseteq Held
    BY <1>1, <2>1 DEF Mine, Held
  <2>3. task'[t].slot # NoSlot <=> Owns(t, task'[t].pc)
    BY <1>1, <2>1 DEF PoolInv, Owners
  <2>4. /\ free' \cup ToSet(spares') \cup Mine(t)' = free \cup ToSet(spares) \cup Mine(t)
        /\ free' \cap ToSet(spares') = {} /\ free' \cap Mine(t)' = {}
        /\ ToSet(spares') \cap Mine(t)' = {}
    BY <1>7, <2>2 DEF PoolInv, Owners
  <2> QED BY <1>1, <2>1, <2>3, <2>4, OwnersMove DEF PoolInv
<1>11. Counts'
  <2>1. UnderWay' = UnderWay \cup {r} /\ r \notin UnderWay
    BY <1>1, <1>4, <1>6, <1>7 DEF UnderWay, At, Tasks
  <2> QED BY <1>7, <2>1, FS_AddElement DEF PoolInv, Counts
<1> QED BY <1>8, <1>9, <1>10, <1>11 DEF PoolInv

-----------------------------------------------------------------------------
(* A spawned opening *)

LEMMA InvUncount == ASSUME PoolInv, NEW t \in Refills, Uncount(t) PROVE PoolInv'
<1>1. t \in Tasks /\ t \notin Conns
  BY PoolAssumption DEF Tasks
<1>2. PICK r \in TaskType :
        /\ Goes(t, r) /\ r.slot = task[t].slot /\ r.pc \in {"idle", "push"}
        /\ Owns(t, r.pc) <=> Owns(t, task[t].pc)
  <2>1. CASE task[t].pc = "opened"
    <3>1. [task[t] EXCEPT !.pc = "push"] \in TaskType
      BY <1>1, TaskFields DEF PoolInv, TaskType
    <3> QED BY <1>1, <2>1, <3>1, TaskFields DEF PoolInv, TaskType, Uncount, Owns
  <2>2. CASE task[t].pc = "failed"
    <3>1. task[t].slot = NoSlot
      BY <1>1, <2>2 DEF PoolInv, Owners, Owns
    <3> QED BY <1>1, <2>2, <3>1, IdleType DEF Uncount, Idle, Owns
  <2> QED BY <2>1, <2>2 DEF Uncount
<1>3. /\ task' \in [Tasks -> TaskType] /\ task'[t] = r
      /\ \A u \in Tasks \ {t} : task'[u] = task[u]
  BY <1>1, <1>2, GoesType DEF PoolInv
<1>4. /\ task[t].pc \in {"opened", "failed"} /\ opening' = opening - 1
      /\ UNCHANGED <<prepared, spares, dead, free, atSlots, atHop>>
  BY DEF Uncount
<1>5. Counts' /\ opening' \in Nat
  <2>1. UnderWay' = UnderWay \ {t} /\ t \in UnderWay
    BY <1>1, <1>2, <1>3, <1>4 DEF UnderWay, At, Tasks
  <2>2. IsFiniteSet(UnderWay') /\ Cardinality(UnderWay') = Cardinality(UnderWay) - 1
    BY <2>1, FS_RemoveElement DEF PoolInv, Counts
  <2>3. Cardinality(UnderWay') \in Nat
    BY <2>2, FS_CardinalityType
  <2> QED BY <1>4, <2>2, <2>3 DEF PoolInv, Counts
<1>6. Tables' /\ Reserve'
  BY <1>3, <1>4, <1>5 DEF PoolInv, Tables, Reserve
<1>7. Queues'
  <2>1. \A u \in Tasks : /\ At(u, {"slot"})' <=> At(u, {"slot"})
                         /\ At(u, {"hop", "first"})' <=> At(u, {"hop", "first"})
                         /\ At(u, {"first"})' => At(u, {"first"})
    BY <1>2, <1>3, <1>4 DEF At
  <2> QED BY <1>4, <2>1, QueuesAside DEF PoolInv
<1>8. Owners'
  <2>1. Mine(t)' = Mine(t) /\ Mine(t) \subseteq Held
    BY <1>1, <1>2, <1>3 DEF Mine, Held
  <2>2. \A u \in Tasks \ {t} : task'[u].slot = task[u].slot
                              /\ (Owns(u, task'[u].pc) <=> Owns(u, task[u].pc))
    BY <1>3
  <2>3. task'[t].slot # NoSlot <=> Owns(t, task'[t].pc)
    BY <1>1, <1>2, <1>3 DEF PoolInv, Owners
  <2>4. /\ free' \cup ToSet(spares') \cup Mine(t)' = free \cup ToSet(spares) \cup Mine(t)
        /\ free' \cap ToSet(spares') = {} /\ free' \cap Mine(t)' = {}
        /\ ToSet(spares') \cap Mine(t)' = {}
    BY <1>4, <2>1 DEF PoolInv, Owners
  <2> QED BY <1>1, <2>2, <2>3, <2>4, OwnersMove DEF PoolInv
<1> QED BY <1>5, <1>6, <1>7, <1>8 DEF PoolInv

LEMMA InvPush == ASSUME PoolInv, NEW t \in Refills, Push(t) PROVE PoolInv'
<1>1. t \in Tasks
  BY DEF Tasks
<1>2. Idle \in TaskType /\ Idle.slot = NoSlot /\ Idle.pc = "idle" /\ Goes(t, Idle)
  BY IdleType DEF Push, Idle
<1>3. task[t].pc = "push" /\ task[t].slot # NoSlot /\ task[t].slot \in Slots
  BY <1>1, TaskFields DEF PoolInv, Owners, Owns, Push
<1>4. Mine(t) = {task[t].slot} /\ task[t].slot \in Held
  BY <1>1, <1>3 DEF Mine, Held
<1>5. /\ spares' \in Seq(Slots) /\ IsInjective(spares')
      /\ ToSet(spares') = ToSet(spares) \cup {task[t].slot}
      /\ dead' = dead /\ free' = free
  BY <1>3, <1>4, AppendOnce DEF PoolInv, Reserve, Owners, Push
<1>6. Reserve'
  BY <1>5 DEF PoolInv, Reserve
<1>7. free' \cap ToSet(spares') = {}
  BY <1>4, <1>5 DEF PoolInv, Owners
<1>8. prepared' \in BOOLEAN /\ UNCHANGED <<opening, atSlots, atHop>>
  BY DEF Push, PoolInv, Tables
<1>9. Idle.slot # NoSlot <=> Owns(t, Idle.pc)
  BY <1>2 DEF Owns
<1> QED BY <1>1, <1>2, <1>3, <1>4, <1>5, <1>6, <1>7, <1>8, <1>9, Aside

LEMMA InvSpareDies == ASSUME PoolInv, NEW s \in Slots, SpareDies(s) PROVE PoolInv'
<1>1. Reserve'
  BY DEF SpareDies, PoolInv, Reserve
<1>2. Tables' /\ Queues' /\ Owners' /\ Counts'
  BY DEF SpareDies, PoolInv, Tables, Queues, Owners, Counts, UnderWay, Held, At
<1> QED BY <1>1, <1>2 DEF PoolInv

-----------------------------------------------------------------------------
(* A connection *)

LEMMA ConnIsTask == ASSUME NEW t \in Conns PROVE t \in Tasks /\ t \notin Refills
  BY PoolAssumption DEF Tasks

LEMMA InvAccept == ASSUME PoolInv, NEW t \in Conns, Accept(t) PROVE PoolInv'
<1> DEFINE r == [Idle EXCEPT !.pc = "waiting"]
<1>1. r \in TaskType /\ r.pc = "waiting" /\ r.slot = NoSlot /\ Goes(t, r)
  BY PoolAssumption DEF Idle, TaskType, Accept
<1> HIDE DEF r
<1>2. /\ task[t].pc = "idle" /\ task[t].slot = NoSlot
      /\ UNCHANGED <<prepared, spares, dead, free, opening, atSlots, atHop>>
  BY ConnIsTask DEF Accept, PoolInv, Owners, Owns
<1> QED BY <1>1, <1>2, ConnIsTask, Keeping DEF Owns

LEMMA InvTakeSpare == ASSUME PoolInv, NEW t \in Conns, TakeSpare(t) PROVE PoolInv'
<1>1. PICK i \in Live :
        /\ \A j \in Live : j <= i
        /\ spares' = SubSeq(spares, 1, i - 1)
        /\ dead' = dead \ {spares[j] : j \in (i + 1)..Len(spares)}
        /\ Dropped({spares[j] : j \in (i + 1)..Len(spares)})
        /\ Goes(t, [Idle EXCEPT !.pc = "count", !.slot = spares[i], !.kind = "spare"])
  BY DEF TakeSpare
<1> DEFINE r == [Idle EXCEPT !.pc = "count", !.slot = spares[i], !.kind = "spare"]
           popped == {spares[j] : j \in (i + 1)..Len(spares)}
           left == {spares[j] : j \in 1..(i - 1)}
<1>2. /\ Len(spares) \in Nat /\ DOMAIN spares = 1..Len(spares) /\ i \in 1..Len(spares)
      /\ \A j \in 1..Len(spares) : spares[j] \in Slots
      /\ spares[i] \notin dead
  BY DEF PoolInv, Reserve, Live
<1>3. spares[i] \in Slots /\ spares[i] # NoSlot
  BY <1>2, PoolAssumption
<1>4. r \in TaskType /\ r.pc = "count" /\ r.slot = spares[i] /\ Goes(t, r)
  BY <1>1, <1>3, IdleType DEF TaskType
<1>5. /\ spares' \in Seq(Slots) /\ IsInjective(spares') /\ ToSet(spares') = left
  BY <1>1, <1>2, PopOnce DEF PoolInv, Reserve
<1>6. ToSet(spares) = left \cup {spares[i]} \cup popped
  <2>1. 1..Len(spares) = (1..(i - 1)) \cup {i} \cup ((i + 1)..Len(spares))
    BY <1>2
  <2>2. ToSet(spares) = {spares[j] : j \in 1..Len(spares)}
    BY <1>2 DEF ToSet
  <2> QED BY <2>1, <2>2
<1>7. left \cap popped = {} /\ spares[i] \notin left \cup popped
  <2>1. \A j, k \in 1..Len(spares) : spares[j] = spares[k] => j = k
    BY <1>2 DEF PoolInv, Reserve, IsInjective
  <2>2. /\ \A j \in 1..(i - 1) : j \in 1..Len(spares) /\ j < i
        /\ \A j \in (i + 1)..Len(spares) : j \in 1..Len(spares) /\ j > i
    BY <1>2
  <2> QED BY <1>2, <2>1, <2>2
<1>8. dead' = dead \ popped /\ free' = free \cup popped
  BY <1>1 DEF Dropped
<1> HIDE DEF r, popped, left
<1>9. Reserve'
  BY <1>2, <1>5, <1>6, <1>8 DEF PoolInv, Reserve
<1>10. task[t].pc = "waiting" /\ task[t].slot = NoSlot /\ Mine(t) = {}
       /\ prepared' \in BOOLEAN /\ UNCHANGED <<opening, atSlots, atHop>>
  BY ConnIsTask DEF TakeSpare, PoolInv, Tables, Owners, Owns, Mine
<1>11. {r.slot} \ {NoSlot} = {spares[i]}
  BY <1>3, <1>4
<1>12. /\ free' \cup ToSet(spares') \cup {spares[i]} = free \cup ToSet(spares)
       /\ free' \cap ToSet(spares') = {} /\ free' \cap {spares[i]} = {}
       /\ ToSet(spares') \cap {spares[i]} = {}
  BY <1>5, <1>6, <1>7, <1>8 DEF PoolInv, Owners
<1>13. r.slot # NoSlot <=> Owns(t, r.pc)
  BY <1>3, <1>4 DEF Owns
<1> QED BY <1>4, <1>9, <1>10, <1>11, <1>12, <1>13, ConnIsTask, Aside

LEMMA InvNoSpare == ASSUME PoolInv, NEW t \in Conns, NoSpare(t) PROVE PoolInv'
<1> DEFINE r == [Idle EXCEPT !.pc = "account", !.kind = "own"]
<1>1. r \in TaskType /\ r.pc = "account" /\ r.slot = NoSlot /\ Goes(t, r)
  <2>1. Idle.slot = NoSlot
    BY DEF Idle
  <2> QED BY <2>1, IdleType DEF TaskType, NoSpare
<1> HIDE DEF r
<1>2. ToSet(spares) = dead
  <2>1. \A i \in DOMAIN spares : spares[i] \in dead
    BY DEF NoSpare, Live
  <2>2. ToSet(spares) \subseteq dead
    BY <2>1 DEF ToSet
  <2> QED BY <2>2 DEF PoolInv, Reserve
<1>3. spares' = << >> /\ dead' = {} /\ free' = free \cup dead
  BY DEF NoSpare, Dropped
<1>4. ToSet(spares') = {}
  BY <1>3 DEF ToSet
<1>5. Reserve'
  BY <1>3 DEF Reserve, IsInjective
<1>6. task[t].pc = "waiting" /\ task[t].slot = NoSlot /\ Mine(t) = {}
      /\ prepared' \in BOOLEAN /\ UNCHANGED <<opening, atSlots, atHop>>
  BY ConnIsTask DEF NoSpare, PoolInv, Tables, Owners, Owns, Mine
<1>7. r.slot # NoSlot <=> Owns(t, r.pc)
  BY <1>1 DEF Owns
<1> QED BY <1>1, <1>2, <1>3, <1>4, <1>5, <1>6, <1>7, ConnIsTask, Aside

LEMMA InvOwnSession == ASSUME PoolInv, NEW t \in Conns, OwnSession(t) PROVE PoolInv'
<1> DEFINE r == [task[t] EXCEPT !.pc = "count"]
<1>1. r \in TaskType /\ r.pc = "count" /\ r.slot = task[t].slot /\ Goes(t, r)
  BY ConnIsTask, TaskFields DEF PoolInv, TaskType, OwnSession
<1> HIDE DEF r
<1>2. task[t].pc = "opened" /\ UNCHANGED <<prepared, spares, dead, free, opening, atSlots, atHop>>
  BY DEF OwnSession
<1> QED BY <1>1, <1>2, ConnIsTask, Keeping DEF Owns

LEMMA InvStreams == ASSUME PoolInv, NEW t \in Conns, Streams(t) PROVE PoolInv'
<1> DEFINE r == [task[t] EXCEPT !.pc = "relay"]
<1>1. r \in TaskType /\ r.pc = "relay" /\ r.slot = task[t].slot /\ Goes(t, r)
  BY ConnIsTask, TaskFields DEF PoolInv, TaskType, Streams
<1> HIDE DEF r
<1>2. task[t].pc = "stream" /\ UNCHANGED <<prepared, spares, dead, free, opening, atSlots, atHop>>
  BY DEF Streams
<1> QED BY <1>1, <1>2, ConnIsTask, Keeping DEF Owns

LEMMA InvStreamFails == ASSUME PoolInv, NEW t \in Conns, StreamFails(t) PROVE PoolInv'
<1> DEFINE r == IF task[t].kind # "spare" THEN Idle
                ELSE [Idle EXCEPT !.pc = "account", !.kind = "replacement"]
<1>1. r \in TaskType /\ r.pc \in {"idle", "account"} /\ r.slot = NoSlot
  <2>1. CASE task[t].kind # "spare"
    BY <2>1, IdleType DEF Idle
  <2>2. CASE task[t].kind = "spare"
    <3>1. Idle.slot = NoSlot
      BY DEF Idle
    <3> QED BY <2>2, <3>1, IdleType DEF TaskType
  <2> QED BY <2>1, <2>2
<1>2. Goes(t, r) /\ task[t].pc = "stream" /\ Dropped({task[t].slot})
      /\ UNCHANGED <<prepared, spares, dead, opening, atSlots, atHop>>
  BY DEF StreamFails
<1> HIDE DEF r
<1> QED BY <1>1, <1>2, Ending

LEMMA InvRelayEnds == ASSUME PoolInv, NEW t \in Conns, RelayEnds(t) PROVE PoolInv'
<1>1. Idle.pc = "idle" /\ Idle.slot = NoSlot
  BY DEF Idle
<1> QED BY <1>1, IdleType, Ending DEF RelayEnds

-----------------------------------------------------------------------------
(* The pool *)

LEMMA InvInit == Init => PoolInv
<1> SUFFICES ASSUME Init PROVE PoolInv
  OBVIOUS
<1>1. \A t \in Tasks : task[t] = Idle /\ task[t].slot = NoSlot /\ task[t].pc = "idle"
  BY DEF Init, Idle
<1>2. Tables
  BY IdleType DEF Init, Tables
<1>3. << >> \in Seq(Tasks) /\ << >> \in Seq(Slots) /\ IsInjective(<< >>) /\ ToSet(<< >>) = {}
  BY DEF IsInjective, ToSet
<1>4. Queues /\ Reserve
  BY <1>1, <1>3 DEF Init, Queues, Reserve, At
<1>5. Held = {} /\ ToSet(spares) = {}
  BY <1>1, <1>3 DEF Held, Init
<1>6. Owners
  BY <1>1, <1>5 DEF Owners, Owns, Init
<1>7. UnderWay = {}
  BY <1>1 DEF UnderWay, At, Tasks
<1>8. Counts
  BY <1>7, FS_EmptySet DEF Counts, Init
<1> QED BY <1>2, <1>4, <1>6, <1>8 DEF PoolInv

LEMMA InvOpens == ASSUME PoolInv, NEW t \in Tasks, Opens(t) PROVE PoolInv'
  BY InvAskSlot, InvTakeSlot, InvStartHop, InvFirstHopReady, InvOpened, InvOpenFails DEF Opens

LEMMA InvRefill == ASSUME PoolInv, NEW t \in Windows \cup Conns, Refill(t) PROVE PoolInv'
  BY InvCount, InvRefilled, InvSpawn DEF Refill

LEMMA InvNext == PoolInv /\ [Next]_vars => PoolInv'
<1> SUFFICES ASSUME PoolInv, [Next]_vars PROVE PoolInv'
  OBVIOUS
<1>1. ASSUME NEW t \in Windows, Prepare(t) \/ Abandon(t) \/ WindowStep(t) PROVE PoolInv'
  <2>1. t \in Tasks
    BY DEF Tasks
  <2> QED BY <1>1, <2>1, InvPrepare, InvAbandon, InvOpens, InvPrepared, InvRefill DEF WindowStep
<1>2. ASSUME NEW t \in Refills, RefillStep(t) PROVE PoolInv'
  <2>1. t \in Tasks
    BY DEF Tasks
  <2> QED BY <1>2, <2>1, InvOpens, InvUncount, InvPush DEF RefillStep
<1>3. ASSUME NEW t \in Conns, Accept(t) \/ RelayEnds(t) PROVE PoolInv'
  BY <1>3, InvAccept, InvRelayEnds
<1>4. ASSUME NEW t \in Conns, ConnStep(t) PROVE PoolInv'
  BY <1>4, ConnIsTask, InvTakeSpare, InvNoSpare, InvOpens, InvOwnSession, InvRefill, InvStreams,
     InvStreamFails DEF ConnStep
<1>5. ASSUME NEW s \in Slots, SpareDies(s) PROVE PoolInv'
  BY <1>5, InvSpareDies
<1>6. CASE UNCHANGED vars
  BY <1>6 DEF vars, PoolInv, Tables, Queues, Reserve, Owners, Counts, UnderWay, Held, At
<1> QED BY <1>1, <1>2, <1>3, <1>4, <1>5, <1>6 DEF Next

LEMMA InvImplies == PoolInv => PoolAccounted
<1> SUFFICES ASSUME PoolInv PROVE PoolAccounted
  OBVIOUS
<1>1. TypeOK
  <2>1. /\ {t \in Tasks : At(t, {"slot"})} = {t \in Tasks : task[t].pc = "slot"}
        /\ {t \in Tasks : At(t, {"hop", "first"})} = {t \in Tasks : task[t].pc \in {"hop", "first"}}
    BY DEF At
  <2> QED BY <2>1 DEF TypeOK, PoolInv, Tables, Queues, Reserve, Owners
<1>2. SlotsAccounted
  BY DEF SlotsAccounted, PoolInv, Reserve, Owners
<1>3. OpeningCounts
  <2>1. UnderWay = {t \in Refills : task[t].pc \notin {"idle", "push"}}
    BY DEF UnderWay, At
  <2> QED BY <2>1 DEF OpeningCounts, PoolInv, Counts
<1>4. OneFirstHop
  BY DEF OneFirstHop, PoolInv, Queues, At
<1> QED BY <1>1, <1>2, <1>3, <1>4 DEF PoolAccounted

(* Whatever fails, dies or is abandoned on the way, and in any order: a    *)
(* slot is free, in the reserve, or of one task; `opening` counts the      *)
(* openings that have not ended; and the first hop is started one at a     *)
(* time.                                                                   *)
THEOREM NoSlotIsLost == Spec => []PoolAccounted
<1>1. Init => PoolInv
  BY InvInit
<1>2. PoolInv /\ [Next]_vars => PoolInv'
  BY InvNext
<1>3. PoolInv => PoolAccounted
  BY InvImplies
<1> QED BY <1>1, <1>2, <1>3, PTL DEF Spec

-----------------------------------------------------------------------------
(* The events view *)

FeedRecords == [uid : Events, time : Nat]
TableRows == FeedRecords \cup {OtherRow}
Views == [mode : {"events", "other"}, rows : Seq(TableRows), cursor : Nat,
          anchor : Events \cup {Nobody}, frozen : BOOLEAN,
          filter : {All, "errors"}, search : {Nobody, "typed"}]

(* A record is of something that did happen. *)
Happened(r) == r.time >= 1 /\ r.time <= happened[r.uid]

Times ==
  /\ clock \in Nat
  /\ happened \in [Events -> Nat]
  /\ \A e \in Events : happened[e] <= clock

(* No event is of two watches: there is one for all, or one per namespace. *)
Scopes ==
  /\ scope \in {All} \cup SUBSET Namespaces
  /\ DOMAIN watches = Watched(scope)
  /\ watches = [w \in DOMAIN watches |-> watches[w]]
  /\ \A w \in DOMAIN watches : watches[w] = Nobody \/ watches[w] \in Seq(FeedRecords)

OnceEach(b) == \A i, j \in DOMAIN b : b[i].uid = b[j].uid => i = j
Rings(b) == b \in Seq(FeedRecords) /\ Len(b) <= Capacity /\ OnceEach(b)

Absent(b, e) == \A i \in DOMAIN b : b[i].uid # e
Owned(e) == \E w \in DOMAIN watches : Covers(w, e)

Ring ==
  /\ Rings(buffer)
  /\ \A i \in DOMAIN buffer : Happened(buffer[i])
  /\ \A i \in DOMAIN buffer : buffer[i].uid \in strays \/ Owned(buffer[i].uid)

(* Of an event that nothing is left to be told of: as it last happened, or  *)
(* pushed out of a full buffer.                                            *)
Settled(e) ==
  /\ \A i \in DOMAIN buffer : buffer[i].uid = e => buffer[i] = Record(e)
  /\ Absent(buffer, e) /\ happened[e] > 0 => Len(buffer) = Capacity

(* The last a watch has to tell of an event is how it last happened.       *)
LastTold(q) ==
  \A i \in DOMAIN q : (\A j \in DOMAIN q : j > i => q[j].uid # q[i].uid) => q[i] = Record(q[i].uid)

Queue(w, q) ==
  /\ \A i \in DOMAIN q : Covers(w, q[i].uid) /\ Happened(q[i])
  /\ LastTold(q)
  /\ \A e \in Events \ strays : Covers(w, e) /\ Absent(q, e) => Settled(e)

Told == \A w \in DOMAIN watches : watches[w] # Nobody => Queue(w, watches[w])

(* A table, whatever the buffer has come to: each event once, and the      *)
(* cursor on the one that was chosen, if it is there.                      *)
Tabled(v) ==
  /\ v \in Views
  /\ v.cursor <= Len(v.rows)
  /\ v.mode = "other" => v.anchor = Nobody
  /\ OnceEach(v.rows)
  /\ \A i \in DOMAIN v.rows : v.rows[i].uid = v.anchor /\ v.rows[i] # OtherRow => v.cursor = i

(* A table that was drawn from the buffer. *)
Fresh(v, b) ==
  Matching(v, b) # {} =>
    /\ \A k \in DOMAIN v.rows : \E i \in Matching(v, b) : b[i] = v.rows[k]
    /\ v.cursor \in DOMAIN v.rows
    /\ v.anchor = Nobody => \A i \in Matching(v, b) : b[i].time <= v.rows[v.cursor].time
    /\ v.anchor # Nobody => v.rows[v.cursor].uid = v.anchor

Table ==
  /\ Tabled(view)
  /\ chosen = view.anchor
  /\ view.mode = "events" /\ ~view.frozen => Fresh(view, buffer)

FeedInv == Times /\ Scopes /\ Ring /\ Told /\ Table
-----------------------------------------------------------------------------
(* What is left of a ring without an event: the records of the others.     *)
LEMMA WithoutIs ==
  ASSUME NEW b, Rings(b), NEW u
  PROVE  /\ Rings(Without(b, u)) /\ Absent(Without(b, u), u)
         /\ \A i \in DOMAIN Without(b, u) : \E j \in DOMAIN b : Without(b, u)[i] = b[j]
         /\ \A j \in DOMAIN b : b[j].uid # u => \E i \in DOMAIN Without(b, u) : Without(b, u)[i] = b[j]
         /\ Len(Without(b, u)) <= Len(b) /\ Len(b) <= Len(Without(b, u)) + 1
<1>0. /\ b \in Seq(FeedRecords) /\ OnceEach(b) /\ Len(b) \in Nat /\ Len(b) <= Capacity
      /\ DOMAIN b = 1..Len(b)
  BY DEF Rings
<1>1. CASE \A i \in DOMAIN b : b[i].uid # u
  <2>1. Without(b, u) = b
    BY <1>1 DEF Without
  <2> QED BY <1>0, <1>1, <2>1 DEF Rings, Absent
<1>2. CASE \E i \in DOMAIN b : b[i].uid = u
  <2>1. PICK i \in DOMAIN b : b[i].uid = u
    BY <1>2
  <2>2. {j \in DOMAIN b : b[j].uid = u} = {i}
    BY <1>0, <2>1 DEF OnceEach
  <2>3. Max({i}) = i
    BY <1>0 DEF Max
  <2>4. Without(b, u) = RemoveAt(b, i)
    BY <2>2, <2>3 DEF Without
  <2> DEFINE R == Without(b, u)
             Place(j) == IF j < i THEN j ELSE j + 1
  <2>5. i \in 1..Len(b) /\ i \in Nat
    BY <1>0
  <2>6. /\ R \in Seq(FeedRecords) /\ Len(R) = Len(b) - 1
        /\ \A j \in 1..(Len(b) - 1) : R[j] = b[Place(j)]
    BY <1>0, <2>4, <2>5, RemoveAtIs
  <2> HIDE DEF R
  <2>7. DOMAIN R = 1..(Len(b) - 1)
    BY <2>6
  <2>8. \A j \in 1..(Len(b) - 1) : Place(j) \in DOMAIN b /\ Place(j) # i
    BY <1>0, <2>5
  <2>9. OnceEach(R)
    <3> SUFFICES ASSUME NEW j \in 1..(Len(b) - 1), NEW k \in 1..(Len(b) - 1), R[j].uid = R[k].uid
                 PROVE  j = k
      BY <2>7 DEF OnceEach
    <3>1. b[Place(j)].uid = b[Place(k)].uid
      BY <2>6
    <3>2. Place(j) = Place(k)
      BY <1>0, <2>8, <3>1 DEF OnceEach
    <3> QED BY <2>5, <3>2
  <2>10. Absent(R, u)
    <3> SUFFICES ASSUME NEW j \in 1..(Len(b) - 1) PROVE R[j].uid # u
      BY <2>7 DEF Absent
    <3>1. R[j] = b[Place(j)] /\ Place(j) \in DOMAIN b /\ Place(j) # i
      BY <2>6, <2>8
    <3> HIDE DEF Place
    <3> QED BY <1>0, <2>1, <3>1 DEF OnceEach
  <2>11. \A k \in DOMAIN R : \E j \in DOMAIN b : R[k] = b[j]
    BY <2>6, <2>7, <2>8
  <2>12. ASSUME NEW k \in DOMAIN b, b[k].uid # u PROVE \E j \in DOMAIN R : R[j] = b[k]
    <3>1. k \in 1..Len(b) /\ k # i
      BY <1>0, <2>1, <2>12
    <3>2. CASE k < i
      <4>1. k \in 1..(Len(b) - 1) /\ Place(k) = k
        BY <1>0, <2>5, <3>1, <3>2
      <4> QED BY <2>6, <2>7, <4>1
    <3>3. CASE k > i
      <4>1. k - 1 \in 1..(Len(b) - 1) /\ Place(k - 1) = k
        BY <1>0, <2>5, <3>1, <3>3
      <4>2. R[k - 1] = b[k]
        BY <2>6, <4>1
      <4> QED BY <2>7, <4>1, <4>2
    <3> QED BY <1>0, <2>5, <3>1, <3>2, <3>3
  <2>13. Rings(R) /\ Len(R) <= Len(b) /\ Len(b) <= Len(R) + 1
    <3>1. Len(R) = Len(b) - 1 /\ Len(b) \in Nat /\ Len(b) <= Capacity /\ Capacity \in Nat
      BY <1>0, <2>6, FeedAssumption
    <3>2. Len(R) <= Capacity /\ Len(R) <= Len(b) /\ Len(b) <= Len(R) + 1
      BY <3>1
    <3> QED BY <2>6, <2>9, <3>2 DEF Rings
  <2> QED BY <2>9, <2>10, <2>11, <2>12, <2>13 DEF R
<1> QED BY <1>1, <1>2

LEMMA MadeRoom ==
  ASSUME NEW x \in Seq(FeedRecords), Len(x) <= Capacity
  PROVE  LET room == IF Len(x) >= Capacity THEN Tail(x) ELSE x
         IN  \E o \in {0, 1} :
               /\ room \in Seq(FeedRecords) /\ Len(room) = Len(x) - o
               /\ \A i \in 1..Len(room) : room[i] = x[i + o]
               /\ o = 1 <=> Len(x) = Capacity
<1>0. Len(x) \in Nat /\ Capacity \in Nat /\ Capacity >= 1
  BY FeedAssumption
<1>1. CASE Len(x) >= Capacity
  <2>1. Len(x) = Capacity
    BY <1>0, <1>1
  <2>2. x # << >>
    <3>1. Len(<< >>) = 0
      OBVIOUS
    <3> QED BY <1>0, <2>1, <3>1
  <2>3. /\ Tail(x) \in Seq(FeedRecords) /\ Len(Tail(x)) = Len(x) - 1
        /\ \A i \in 1..Len(Tail(x)) : Tail(x)[i] = x[i + 1]
    BY <2>2, HeadTailProperties
  <2> QED BY <1>1, <2>1, <2>3
<1>2. CASE ~ Len(x) >= Capacity
  <2>1. Len(x) # Capacity
    BY <1>0, <1>2
  <2>2. /\ x \in Seq(FeedRecords) /\ Len(x) = Len(x) - 0
        /\ \A i \in 1..Len(x) : x[i] = x[i + 0]
        /\ 0 = 1 <=> Len(x) = Capacity
    BY <1>0, <2>1
  <2>3. (IF Len(x) >= Capacity THEN Tail(x) ELSE x) = x
    BY <1>2
  <2>4. 0 \in {0, 1}
    OBVIOUS
  <2> QED BY <2>2, <2>3, <2>4, Zenon
<1> QED BY <1>1, <1>2

(* The ring after an event: its record is last, the others are those there *)
(* were, but the oldest where there was no room.                           *)
LEMMA PushedIs ==
  ASSUME NEW b, Rings(b), NEW r \in FeedRecords
  PROVE  /\ Rings(Pushed(b, r))
         /\ \E i \in DOMAIN Pushed(b, r) : Pushed(b, r)[i] = r
         /\ \A i \in DOMAIN Pushed(b, r) :
               Pushed(b, r)[i] = r \/ \E j \in DOMAIN b : b[j] = Pushed(b, r)[i] /\ b[j].uid # r.uid
         /\ \A j \in DOMAIN b :
               b[j].uid = r.uid \/ (\E i \in DOMAIN Pushed(b, r) : Pushed(b, r)[i] = b[j])
                                \/ Len(Pushed(b, r)) = Capacity
         /\ Len(b) = Capacity => Len(Pushed(b, r)) = Capacity
<1> DEFINE X == Without(b, r.uid)
           Room == IF Len(X) >= Capacity THEN Tail(X) ELSE X
           P == Pushed(b, r)
<1>0. Capacity \in Nat /\ Capacity >= 1 /\ Len(b) \in Nat
  BY FeedAssumption DEF Rings
<1>1. /\ Rings(X) /\ Absent(X, r.uid)
      /\ \A i \in DOMAIN X : \E j \in DOMAIN b : X[i] = b[j]
      /\ \A j \in DOMAIN b : b[j].uid # r.uid => \E i \in DOMAIN X : X[i] = b[j]
      /\ Len(X) <= Len(b) /\ Len(b) <= Len(X) + 1
  BY WithoutIs
<1>2. P = Append(Room, r)
  BY DEF Pushed
<1> HIDE DEF X
<1>3. X \in Seq(FeedRecords) /\ Len(X) \in Nat /\ Len(X) <= Capacity /\ DOMAIN X = 1..Len(X) /\ OnceEach(X)
  BY <1>1 DEF Rings
<1>4. PICK o \in {0, 1} :
        /\ Room \in Seq(FeedRecords) /\ Len(Room) = Len(X) - o
        /\ \A i \in 1..Len(Room) : Room[i] = X[i + o]
        /\ o = 1 <=> Len(X) = Capacity
  BY <1>3, MadeRoom
<1> HIDE DEF Room
<1>5. /\ P \in Seq(FeedRecords) /\ Len(P) = Len(Room) + 1 /\ DOMAIN P = 1..(Len(Room) + 1)
      /\ \A i \in 1..Len(Room) : P[i] = Room[i]
      /\ P[Len(Room) + 1] = r
  BY <1>2, <1>4, AppendProperties
<1> HIDE DEF P
<1>6. PICK n \in Nat : n = Len(Room)
  <2>1. Room \in Seq(FeedRecords)
    BY <1>4
  <2>2. Len(Room) \in Nat
    BY <2>1, LenProperties
  <2> QED BY <2>2
<1>7. PICK m \in Nat : m = Len(X)
  BY <1>3
<1>8. /\ DOMAIN P = 1..(n + 1) /\ P[n + 1] = r /\ Len(P) = n + 1 /\ n = m - o /\ DOMAIN X = 1..m
      /\ m <= Capacity
      /\ o = 1 <=> m = Capacity
  BY <1>3, <1>4, <1>5, <1>6, <1>7
<1>9. \A i \in 1..n : P[i] = X[i + o] /\ i + o \in 1..m
  BY <1>4, <1>5, <1>6, <1>8
<1>10. Rings(P)
  <2>1. OnceEach(P)
    <3> SUFFICES ASSUME NEW i \in 1..(n + 1), NEW j \in 1..(n + 1), P[i].uid = P[j].uid
                 PROVE  i = j
      BY <1>8 DEF OnceEach
    <3>1. CASE i \in 1..n /\ j \in 1..n
      <4>1. X[i + o].uid = X[j + o].uid /\ i + o \in DOMAIN X /\ j + o \in DOMAIN X
        BY <1>8, <1>9, <3>1
      <4>2. i + o = j + o
        BY <1>3, <4>1 DEF OnceEach
      <4> QED BY <4>2
    <3>2. CASE i \in 1..n /\ j = n + 1
      <4>1. X[i + o].uid = r.uid /\ i + o \in DOMAIN X
        BY <1>8, <1>9, <3>2
      <4> QED BY <1>1, <4>1 DEF Absent
    <3>3. CASE j \in 1..n /\ i = n + 1
      <4>1. X[j + o].uid = r.uid /\ j + o \in DOMAIN X
        BY <1>8, <1>9, <3>3
      <4> QED BY <1>1, <4>1 DEF Absent
    <3>4. i = j \/ i \in 1..n \/ j \in 1..n
      OBVIOUS
    <3> QED BY <3>1, <3>2, <3>3
  <2>2. Len(P) <= Capacity
    BY <1>0, <1>8
  <2> QED BY <1>5, <2>1, <2>2 DEF Rings
<1>11. \E i \in DOMAIN P : P[i] = r
  BY <1>8
<1>12. ASSUME NEW i \in DOMAIN P, P[i] # r
       PROVE  \E j \in DOMAIN b : b[j] = P[i] /\ b[j].uid # r.uid
  <2>1. i \in 1..n
    BY <1>8, <1>12
  <2>2. P[i] = X[i + o] /\ i + o \in DOMAIN X
    BY <1>8, <1>9, <2>1
  <2>3. P[i].uid # r.uid
    BY <1>1, <2>2 DEF Absent
  <2> QED BY <1>1, <2>2, <2>3
<1>13. ASSUME NEW j \in DOMAIN b, b[j].uid # r.uid, Len(P) # Capacity
       PROVE  \E i \in DOMAIN P : P[i] = b[j]
  <2>1. PICK k \in DOMAIN X : X[k] = b[j]
    BY <1>1, <1>13
  <2>2. o = 0
    BY <1>0, <1>8, <1>13
  <2>3. k \in 1..n /\ k + o = k
    BY <1>8, <2>2
  <2> QED BY <1>8, <1>9, <2>1, <2>3
<1>14. Len(b) = Capacity => Len(P) = Capacity
  <2>1. Len(b) <= m + 1
    BY <1>1, <1>7
  <2> QED BY <1>0, <1>8, <2>1
<1> QED BY <1>10, <1>11, <1>12, <1>13, <1>14 DEF P

-----------------------------------------------------------------------------
(* The table *)

LEMMA Counted ==
  ASSUME NEW n \in Nat
  PROVE  IsFiniteSet(1..n) /\ Cardinality(1..n) = n
<1>1. IsFiniteSet(1..n) /\ Cardinality(1..n) = IF 1 > n THEN 0 ELSE n - 1 + 1
  BY FS_Interval
<1> QED BY <1>1

(* The places of a buffer are in order. *)
LEMMA EarlierOrders ==
  ASSUME NEW b, Rings(b)
  PROVE  \A i, j, k \in DOMAIN b :
            /\ ~ Earlier(b, i, i)
            /\ Earlier(b, i, j) /\ Earlier(b, j, k) => Earlier(b, i, k)
            /\ i = j \/ Earlier(b, i, j) \/ Earlier(b, j, i)
<1> SUFFICES ASSUME NEW i \in DOMAIN b, NEW j \in DOMAIN b, NEW k \in DOMAIN b
             PROVE  /\ ~ Earlier(b, i, i)
                    /\ Earlier(b, i, j) /\ Earlier(b, j, k) => Earlier(b, i, k)
                    /\ i = j \/ Earlier(b, i, j) \/ Earlier(b, j, i)
  OBVIOUS
<1>1. i \in Nat /\ j \in Nat /\ k \in Nat
  BY DEF Rings
<1>2. b[i] \in FeedRecords /\ b[j] \in FeedRecords /\ b[k] \in FeedRecords
  BY DEF Rings
<1>3. b[i].time \in Nat /\ b[j].time \in Nat /\ b[k].time \in Nat
  BY <1>2 DEF FeedRecords
<1> QED BY <1>1, <1>3 DEF Earlier

(* Each place has a rank of its own, and each rank is of some place.       *)
LEMMA RanksAreOwn ==
  ASSUME NEW b, Rings(b), NEW S \in SUBSET DOMAIN b
  PROVE  /\ IsFiniteSet(S) /\ Cardinality(S) \in Nat
         /\ \A i \in S : Rank(b, S, i) \in 1..Cardinality(S)
         /\ \A i, j \in S : Earlier(b, i, j) => Rank(b, S, i) < Rank(b, S, j)
         /\ \A k \in 1..Cardinality(S) : \E i \in S : Rank(b, S, i) = k
<1> DEFINE n == Cardinality(S)
           Before(i) == {j \in S : Earlier(b, j, i)}
<1>1. IsFiniteSet(S) /\ n \in Nat
  <2>1. Len(b) \in Nat /\ S \in SUBSET (1..Len(b))
    BY DEF Rings
  <2>2. IsFiniteSet(1..Len(b))
    BY <2>1, Counted
  <2> QED BY <2>1, <2>2, FS_Subset, FS_CardinalityType
<1>2. \A i \in S : IsFiniteSet(Before(i)) /\ Cardinality(Before(i)) \in Nat
  <2> TAKE i \in S
  <2>1. Before(i) \in SUBSET S
    OBVIOUS
  <2> HIDE DEF Before
  <2> QED BY <1>1, <2>1, FS_Subset, FS_CardinalityType
<1>3. \A i \in S : Rank(b, S, i) = Cardinality(Before(i)) + 1
  BY DEF Rank
<1>4. \A i \in S : Cardinality(Before(i)) + 1 <= n
  <2> TAKE i \in S
  <2>1. Before(i) \in SUBSET S /\ i \notin Before(i)
    BY EarlierOrders
  <2> HIDE DEF Before
  <2>2. Cardinality(Before(i)) <= n /\ (n = Cardinality(Before(i)) => S = Before(i))
    BY <1>1, <2>1, FS_Subset
  <2>3. n # Cardinality(Before(i))
    BY <2>1, <2>2
  <2> HIDE DEF n
  <2> QED BY <1>1, <1>2, <2>2, <2>3
<1>5. \A i, j \in S : Earlier(b, i, j) => Cardinality(Before(i)) + 1 <= Cardinality(Before(j))
  <2> SUFFICES ASSUME NEW i \in S, NEW j \in S, Earlier(b, i, j)
               PROVE  Cardinality(Before(i)) + 1 <= Cardinality(Before(j))
    OBVIOUS
  <2>1. Before(i) \cup {i} \in SUBSET Before(j) /\ i \notin Before(i)
    BY EarlierOrders
  <2> HIDE DEF Before
  <2>2. Cardinality(Before(i) \cup {i}) = Cardinality(Before(i)) + 1
    BY <1>2, <2>1, FS_AddElement
  <2>3. Cardinality(Before(i) \cup {i}) <= Cardinality(Before(j))
    BY <1>2, <2>1, FS_Subset
  <2> QED BY <2>2, <2>3
<1> HIDE DEF Before
<1>6. \A i \in S : Rank(b, S, i) \in 1..n
  BY <1>1, <1>2, <1>3, <1>4
<1>7. \A i, j \in S : Earlier(b, i, j) => Rank(b, S, i) < Rank(b, S, j)
  <2> SUFFICES ASSUME NEW i \in S, NEW j \in S, Earlier(b, i, j)
               PROVE  Rank(b, S, i) < Rank(b, S, j)
    OBVIOUS
  <2> QED BY <1>2, <1>3, <1>5
<1>8. \A k \in 1..n : \E i \in S : Rank(b, S, i) = k
  <2> DEFINE f == [i \in S |-> Rank(b, S, i)]
  <2>1. f \in [S -> 1..n]
    BY <1>6
  <2>2. \A i, j \in S : f[i] = f[j] => i = j
    <3> SUFFICES ASSUME NEW i \in S, NEW j \in S, Rank(b, S, i) = Rank(b, S, j), i # j
                 PROVE  FALSE
      OBVIOUS
    <3>1. Earlier(b, i, j) \/ Earlier(b, j, i)
      BY EarlierOrders
    <3>2. Rank(b, S, i) \in Nat /\ Rank(b, S, j) \in Nat
      BY <1>1, <1>6
    <3> QED BY <1>7, <3>1, <3>2
  <2>3. f \in Injection(S, 1..n)
    BY <2>1, <2>2 DEF Injection, IsInjective
  <2>4. IsFiniteSet(1..n) /\ Cardinality(1..n) = Cardinality(S)
    BY <1>1, Counted
  <2>5. f \in Surjection(S, 1..n)
    BY <2>3, <2>4, FS_Injection
  <2> QED BY <2>5 DEF Surjection
<1> QED BY <1>1, <1>6, <1>7, <1>8

(* The table has each of those records once, the last of them at its end.  *)
LEMMA ByTimeIs ==
  ASSUME NEW b, Rings(b), NEW S \in SUBSET DOMAIN b
  PROVE  /\ ByTime(b, S) \in Seq(FeedRecords) /\ OnceEach(ByTime(b, S))
         /\ S = {} <=> ByTime(b, S) = << >>
         /\ \A k \in DOMAIN ByTime(b, S) : \E i \in S : b[i] = ByTime(b, S)[k]
         /\ \A i \in S : \E k \in DOMAIN ByTime(b, S) : ByTime(b, S)[k] = b[i]
         /\ S # {} => /\ Len(ByTime(b, S)) \in DOMAIN ByTime(b, S)
                      /\ \A i \in S : b[i].time <= ByTime(b, S)[Len(ByTime(b, S))].time
<1> DEFINE n == Cardinality(S)
           Origin(k) == CHOOSE i \in S : Rank(b, S, i) = k
           rows == ByTime(b, S)
<1>1. /\ n \in Nat /\ IsFiniteSet(S)
      /\ \A i \in S : Rank(b, S, i) \in 1..n
      /\ \A i, j \in S : Earlier(b, i, j) => Rank(b, S, i) < Rank(b, S, j)
      /\ \A k \in 1..n : \E i \in S : Rank(b, S, i) = k
  BY RanksAreOwn
<1>2. rows = [k \in 1..n |-> b[Origin(k)]]
  BY DEF ByTime
<1>3. \A k \in 1..n : Origin(k) \in S /\ Rank(b, S, Origin(k)) = k
  <2> TAKE k \in 1..n
  <2>1. \E i \in S : Rank(b, S, i) = k
    BY <1>1
  <2> QED BY <2>1
<1>4. \A i, j \in S : Rank(b, S, i) = Rank(b, S, j) => i = j
  <2> SUFFICES ASSUME NEW i \in S, NEW j \in S, Rank(b, S, i) = Rank(b, S, j), i # j
               PROVE  FALSE
    OBVIOUS
  <2>1. Earlier(b, i, j) \/ Earlier(b, j, i)
    BY EarlierOrders
  <2>2. Rank(b, S, i) \in Nat /\ Rank(b, S, j) \in Nat
    BY <1>1
  <2> QED BY <1>1, <2>1, <2>2
<1>5. b \in Seq(FeedRecords) /\ OnceEach(b) /\ \A i \in S : i \in DOMAIN b /\ b[i] \in FeedRecords
  BY DEF Rings
<1> HIDE DEF Origin, n, rows
<1>6. rows \in Seq(FeedRecords) /\ Len(rows) = n /\ DOMAIN rows = 1..n
  <2>1. rows \in [1..n -> FeedRecords]
    BY <1>2, <1>3, <1>5
  <2> QED BY <1>1, <2>1
<1>7. \A k \in 1..n : rows[k] = b[Origin(k)]
  BY <1>2
<1>8. OnceEach(rows)
  <2> SUFFICES ASSUME NEW j \in 1..n, NEW k \in 1..n, rows[j].uid = rows[k].uid
               PROVE  j = k
    BY <1>6 DEF OnceEach
  <2>1. b[Origin(j)].uid = b[Origin(k)].uid
    BY <1>7
  <2>2. Origin(j) = Origin(k)
    BY <1>3, <1>5, <2>1 DEF OnceEach
  <2> QED BY <1>3, <2>2
<1>9. \A i \in S : \E k \in DOMAIN rows : rows[k] = b[i]
  <2> TAKE i \in S
  <2>1. Rank(b, S, i) \in 1..n
    BY <1>1
  <2>2. Origin(Rank(b, S, i)) = i
    BY <1>3, <1>4, <2>1
  <2> QED BY <1>6, <1>7, <2>1, <2>2
<1>10. \A k \in DOMAIN rows : \E i \in S : b[i] = rows[k]
  BY <1>3, <1>6, <1>7
<1>11. S = {} <=> rows = << >>
  <2>1. S = {} => rows = << >>
    <3>1. S = {} => n = 0
      BY FS_EmptySet DEF n
    <3> QED BY <1>6, <3>1
  <2>2. S # {} => rows # << >>
    <3>1. S # {} => DOMAIN rows # {}
      BY <1>9
    <3> QED BY <3>1
  <2> QED BY <2>1, <2>2
<1>12. ASSUME S # {} PROVE n \in DOMAIN rows
  <2>1. PICK i \in S : TRUE
    BY <1>12
  <2>2. Rank(b, S, i) \in 1..n
    BY <1>1
  <2> QED BY <1>1, <1>6, <2>2
<1>13. ASSUME S # {}, NEW i \in S PROVE b[i].time <= rows[n].time
  <2>1. n \in 1..n
    BY <1>6, <1>12, <1>13
  <2>2. Origin(n) \in S /\ Rank(b, S, Origin(n)) = n /\ rows[n] = b[Origin(n)]
    BY <1>3, <1>7, <2>1
  <2>3. ~ Earlier(b, Origin(n), i)
    <3>1. Rank(b, S, i) \in 1..n /\ (Earlier(b, Origin(n), i) => Rank(b, S, Origin(n)) < Rank(b, S, i))
      BY <1>1, <2>2
    <3> QED BY <1>1, <2>2, <3>1
  <2>4. Origin(n) \in DOMAIN b /\ i \in DOMAIN b
    BY <1>5, <2>2
  <2>5. b[i].time \in Nat /\ b[Origin(n)].time \in Nat
    BY <1>5, <2>2 DEF FeedRecords
  <2> QED BY <2>2, <2>3, <2>5 DEF Earlier
<1> QED BY <1>6, <1>8, <1>9, <1>10, <1>11, <1>12, <1>13 DEF rows

LEMMA FoundAt ==
  ASSUME NEW q \in Seq(FeedRecords), OnceEach(q), NEW u
  PROVE  LET at == SelectInSeq(q, LAMBDA r : r.uid = u)
         IN  \/ at = 0 /\ Absent(q, u)
             \/ at # 0 /\ at \in DOMAIN q /\ q[at].uid = u
<1>0. DOMAIN q = 1..Len(q) /\ Len(q) \in Nat
  OBVIOUS
<1>1. CASE \E i \in 1..Len(q) : q[i].uid = u
  <2>1. PICK i \in 1..Len(q) : q[i].uid = u
    BY <1>1
  <2>2. {j \in 1..Len(q) : q[j].uid = u} = {i}
    BY <1>0, <2>1 DEF OnceEach
  <2>3. Min({i}) = i
    BY DEF Min
  <2>4. SelectInSeq(q, LAMBDA r : r.uid = u) = i
    BY <2>2, <2>3 DEF SelectInSeq
  <2> QED BY <1>0, <2>1, <2>4
<1>2. CASE ~ \E i \in 1..Len(q) : q[i].uid = u
  <2>1. {j \in 1..Len(q) : q[j].uid = u} = {}
    BY <1>2
  <2>2. SelectInSeq(q, LAMBDA r : r.uid = u) = 0
    BY <2>1 DEF SelectInSeq
  <2> QED BY <1>0, <1>2, <2>2 DEF Absent
<1> QED BY <1>1, <1>2

(* What is chosen is chosen no more when it is not among what there is.    *)
Lasting(v, b) ==
  IF Matching(v, b) # {} /\ \A i \in Matching(v, b) : b[i].uid # v.anchor THEN Nobody ELSE v.anchor

(* A table drawn again is drawn from the buffer, its cursor on what was    *)
(* chosen or on the newest.                                                *)
LEMMA RefreshedIs ==
  ASSUME NEW b, Rings(b), NEW v, Tabled(v)
  PROVE  /\ Tabled(Refreshed(v, b)) /\ Fresh(Refreshed(v, b), b)
         /\ Refreshed(v, b).mode = v.mode /\ Refreshed(v, b).frozen = v.frozen
         /\ Matching(Refreshed(v, b), b) = Matching(v, b)
         /\ Refreshed(v, b).anchor = Lasting(v, b)
<1> DEFINE S == Matching(v, b)
           rows == ByTime(b, S)
           at == SelectInSeq(rows, LAMBDA r : r.uid = v.anchor)
           w == Refreshed(v, b)
<1>0. /\ rows \in Seq(FeedRecords) /\ OnceEach(rows) /\ DOMAIN rows = 1..Len(rows) /\ Len(rows) \in Nat
      /\ S = {} <=> rows = << >>
      /\ \A k \in DOMAIN rows : \E i \in S : b[i] = rows[k]
      /\ \A i \in S : \E k \in DOMAIN rows : rows[k] = b[i]
      /\ S # {} => Len(rows) \in DOMAIN rows /\ \A i \in S : b[i].time <= rows[Len(rows)].time
  <2>1. S \in SUBSET DOMAIN b
    BY DEF Matching
  <2> HIDE DEF S
  <2> QED BY <2>1, ByTimeIs
<1>1. v \in Views
  BY DEF Tabled
<1>2. w = IF rows = << >>
          THEN IF v.search = Nobody THEN v ELSE [v EXCEPT !.rows = << >>, !.cursor = 0]
          ELSE [v EXCEPT !.rows = rows, !.cursor = IF at = 0 THEN Len(rows) ELSE at,
                         !.anchor = IF at = 0 THEN Nobody ELSE @]
  BY DEF Refreshed
<1>3. \A x : x.filter = v.filter /\ x.search = v.search => Matching(x, b) = S
  BY DEF Matching, Passes, Found
<1>4. CASE rows = << >> /\ v.search = Nobody
  <2>1. w = v /\ S = {}
    BY <1>0, <1>2, <1>4
  <2> QED BY <2>1 DEF Fresh, Lasting
<1>5. CASE rows = << >> /\ v.search # Nobody
  <2>1. w = [v EXCEPT !.rows = << >>, !.cursor = 0]
    BY <1>2, <1>5
  <2>e. << >> \in Seq(TableRows) /\ Len(<< >>) = 0 /\ DOMAIN << >> = {}
    OBVIOUS
  <2>2. /\ w \in Views /\ w.rows = << >> /\ w.cursor = 0 /\ w.anchor = v.anchor /\ w.mode = v.mode
        /\ w.frozen = v.frozen /\ w.filter = v.filter /\ w.search = v.search
    <3>1. PICK e \in Seq(TableRows) : e = << >>
      BY <2>e
    <3>2. w = [v EXCEPT !.rows = e, !.cursor = 0]
      BY <2>1, <3>1
    <3> HIDE DEF w
    <3>3. /\ w \in Views /\ w.rows = e /\ w.cursor = 0 /\ w.anchor = v.anchor /\ w.mode = v.mode
          /\ w.frozen = v.frozen /\ w.filter = v.filter /\ w.search = v.search
      BY <1>1, <3>2 DEF Views
    <3> QED BY <3>1, <3>3
  <2>3. S = {} /\ Matching(w, b) = S
    BY <1>0, <1>3, <1>5, <2>2
  <2>4. Tabled(w)
    <3>1. w.cursor <= Len(w.rows) /\ DOMAIN w.rows = {}
      BY <2>2, <2>e
    <3>2. w.mode = "other" => w.anchor = Nobody
      BY <2>2 DEF Tabled
    <3> QED BY <2>2, <3>1, <3>2 DEF Tabled, OnceEach
  <2> QED BY <2>2, <2>3, <2>4 DEF Fresh, Lasting
<1>6. CASE rows # << >>
  <2>0. S # {} /\ Len(rows) \in DOMAIN rows
    BY <1>0, <1>6
  <2>1. \/ at = 0 /\ Absent(rows, v.anchor)
        \/ at # 0 /\ at \in DOMAIN rows /\ rows[at].uid = v.anchor
    BY <1>0, FoundAt
  <2> HIDE DEF at
  <2> DEFINE to == IF at = 0 THEN Len(rows) ELSE at
             anchor == IF at = 0 THEN Nobody ELSE v.anchor
  <2>2. w = [v EXCEPT !.rows = rows, !.cursor = to, !.anchor = anchor]
    BY <1>2, <1>6
  <2>3. to \in DOMAIN rows
    BY <2>0, <2>1
  <2>4. rows \in Seq(TableRows)
    BY <1>0 DEF TableRows
  <2> HIDE DEF rows
  <2>5. to \in Nat /\ to <= Len(rows) /\ anchor \in Events \cup {Nobody}
    BY <1>0, <1>1, <2>3 DEF Views
  <2> HIDE DEF to, anchor
  <2>6. /\ w \in Views /\ w.rows = rows /\ w.cursor = to /\ w.anchor = anchor /\ w.mode = v.mode
        /\ w.frozen = v.frozen /\ w.filter = v.filter /\ w.search = v.search
    BY <1>1, <2>2, <2>4, <2>5 DEF Views
  <2>7. Matching(w, b) = S
    BY <1>3, <2>6
  <2> HIDE DEF w, S
  <2>8. \A i \in DOMAIN rows : rows[i] \in FeedRecords /\ rows[i].uid # Nobody
    <3> TAKE i \in DOMAIN rows
    <3>1. rows[i] \in FeedRecords
      BY <1>0
    <3> QED BY <3>1, FeedAssumption DEF FeedRecords
  <2>9. Tabled(w)
    <3>1. w.mode = "other" => w.anchor = Nobody
      BY <2>6 DEF anchor, Tabled
    <3>2. \A i \in DOMAIN rows : rows[i].uid = anchor => to = i
      <4> SUFFICES ASSUME NEW i \in DOMAIN rows, rows[i].uid = anchor PROVE to = i
        OBVIOUS
      <4>1. anchor # Nobody
        BY <2>8
      <4>2. at # 0 /\ anchor = v.anchor /\ to = at
        BY <4>1 DEF anchor, to
      <4>3. rows[at].uid = v.anchor /\ at \in DOMAIN rows
        BY <2>1, <4>2
      <4> QED BY <1>0, <4>2, <4>3 DEF OnceEach
    <3> QED BY <1>0, <2>5, <2>6, <3>1, <3>2 DEF Tabled
  <2>10. Fresh(w, b)
    <3>1. anchor = Nobody => \A i \in S : b[i].time <= rows[to].time
      <4> SUFFICES ASSUME anchor = Nobody PROVE to = Len(rows)
        BY <1>0, <2>0
      <4>1. CASE at = 0
        BY <4>1 DEF to
      <4>2. CASE at # 0
        BY <2>1, <2>8, <4>2 DEF anchor
      <4> QED BY <4>1, <4>2
    <3>2. anchor # Nobody => rows[to].uid = anchor
      BY <2>1 DEF anchor, to
    <3> QED BY <1>0, <2>3, <2>6, <2>7, <3>1, <3>2 DEF Fresh
  <2>11. anchor = Lasting(v, b)
    <3>1. at = 0 => \A i \in S : b[i].uid # v.anchor
      <4> SUFFICES ASSUME at = 0, NEW i \in S PROVE b[i].uid # v.anchor
        OBVIOUS
      <4>1. PICK k \in DOMAIN rows : rows[k] = b[i]
        BY <1>0
      <4> QED BY <2>1, <4>1 DEF Absent
    <3>2. at # 0 => \E i \in S : b[i].uid = v.anchor
      <4> SUFFICES ASSUME at # 0 PROVE \E i \in S : b[i].uid = v.anchor
        OBVIOUS
      <4>1. rows[at].uid = v.anchor /\ at \in DOMAIN rows
        BY <2>1
      <4>2. PICK i \in S : b[i] = rows[at]
        BY <1>0, <4>1
      <4> QED BY <4>1, <4>2
    <3> QED BY <2>0, <3>1, <3>2 DEF anchor, Lasting, S
  <2> QED BY <2>6, <2>7, <2>9, <2>10, <2>11 DEF w, S
<1> QED BY <1>4, <1>5, <1>6

-----------------------------------------------------------------------------
(* The user *)

LEMMA Drawing ==
  ASSUME NEW b, Rings(b), NEW v, Tabled(v), view' = Drawn(v, b), buffer' = b,
         chosen' = IF v.mode = "events" /\ ~v.frozen THEN Lasting(v, b) ELSE v.anchor
  PROVE  Table'
<1>1. CASE v.mode = "events" /\ ~v.frozen
  <2> DEFINE w == Refreshed(v, b)
  <2>1. /\ Tabled(w) /\ Fresh(w, b) /\ w.anchor = Lasting(v, b)
    BY RefreshedIs
  <2>2. view' = w /\ chosen' = Lasting(v, b)
    BY <1>1 DEF Drawn
  <2> HIDE DEF w
  <2> QED BY <2>1, <2>2 DEF Table
<1>2. CASE ~(v.mode = "events" /\ ~v.frozen)
  <2>1. view' = v /\ chosen' = v.anchor
    BY <1>2 DEF Drawn
  <2> QED BY <1>2, <2>1 DEF Table
<1> QED BY <1>1, <1>2

(* What is fed is left alone by the keys that keep the scope.              *)
LEMMA FeedAside ==
  ASSUME FeedInv, UNCHANGED <<happened, clock, scope, watches, strays, buffer>>
  PROVE  Times' /\ Scopes' /\ Ring' /\ Told'
<1>1. Times'
  BY DEF FeedInv, Times
<1>2. Scopes'
  BY DEF FeedInv, Scopes
<1>3. Ring'
  BY DEF FeedInv, Ring, Happened, Owned
<1>4. Told'
  BY DEF FeedInv, Told, Queue, Happened, LastTold, Record, Settled
<1> QED BY <1>1, <1>2, <1>3, <1>4

LEMMA KeyKeeps ==
  ASSUME FeedInv, NEW v, Tabled(v), NEW choice, Key(v, choice),
         choice = IF v.mode = "events" /\ ~v.frozen THEN Lasting(v, buffer) ELSE v.anchor
  PROVE  FeedInv'
<1>1. UNCHANGED <<happened, clock, scope, watches, strays, buffer>>
  BY DEF Key
<1>2. Rings(buffer)
  BY DEF FeedInv, Ring
<1>3. view' = Drawn(v, buffer) /\ chosen' = choice /\ buffer' = buffer
  BY DEF Key
<1>4. Table'
  BY <1>2, <1>3, Drawing
<1> QED BY <1>1, <1>4, FeedAside DEF FeedInv

(* The choice of a table that follows is nobody, drawn or not.             *)
LEMMA KeyFollows ==
  ASSUME FeedInv, NEW v, Tabled(v), v.anchor = Nobody, Key(v, Nobody)
  PROVE  FeedInv'
<1>1. Lasting(v, buffer) = Nobody
  BY DEF Lasting
<1> QED BY <1>1, KeyKeeps

LEMMA NobodyIsOther ==
  ASSUME NEW r \in TableRows, r.uid = Nobody
  PROVE  r = OtherRow
BY FeedAssumption DEF TableRows, FeedRecords

LEMMA OtherIsTable ==
  /\ <<OtherRow>> \in Seq(TableRows) /\ Len(<<OtherRow>>) = 1
  /\ OnceEach(<<OtherRow>>) /\ \A i \in DOMAIN <<OtherRow>> : <<OtherRow>>[i] = OtherRow
  /\ << >> \in Seq(TableRows) /\ Len(<< >>) = 0 /\ DOMAIN << >> = {} /\ OnceEach(<< >>)
<1>1. OtherRow \in TableRows
  BY DEF TableRows
<1> HIDE DEF OtherRow
<1>2. <<OtherRow>> \in Seq(TableRows) /\ Len(<<OtherRow>>) = 1 /\ DOMAIN <<OtherRow>> = {1}
      /\ <<OtherRow>>[1] = OtherRow
  BY <1>1
<1>3. << >> \in Seq(TableRows)
  OBVIOUS
<1>4. Len(<< >>) = 0 /\ DOMAIN << >> = {}
  OBVIOUS
<1> QED BY <1>2, <1>3, <1>4 DEF OnceEach

LEMMA FollowingIs ==
  ASSUME NEW v, Tabled(v)
  PROVE  Tabled(Following(v)) /\ Following(v).anchor = Nobody
<1> DEFINE w == Following(v)
<1>1. v \in Views
  BY DEF Tabled
<1>2. /\ w \in Views /\ w.rows = v.rows /\ w.cursor = v.cursor /\ w.anchor = Nobody
  BY <1>1 DEF Views, Following
<1> HIDE DEF w
<1>3. \A i \in DOMAIN w.rows : w.rows[i].uid = Nobody => w.rows[i] = OtherRow
  <2>1. \A i \in DOMAIN w.rows : w.rows[i] \in TableRows
    BY <1>2 DEF Views
  <2> QED BY <2>1, NobodyIsOther
<1>4. Tabled(w)
  BY <1>2, <1>3 DEF Tabled
<1> QED BY <1>2, <1>4 DEF w

LEMMA BlankIs ==
  ASSUME NEW v, Tabled(v)
  PROVE  Tabled(Blank(v)) /\ Blank(v).anchor = Nobody
<1> DEFINE w == Blank(v)
<1>1. v \in Views
  BY DEF Tabled
<1>2. PICK e \in Seq(TableRows) : e = << >> /\ Len(e) = 0 /\ DOMAIN e = {} /\ OnceEach(e)
  BY OtherIsTable
<1>3. w = [v EXCEPT !.rows = e, !.cursor = 0, !.anchor = Nobody]
  BY <1>2 DEF Blank
<1> HIDE DEF w
<1>4. w \in Views /\ w.rows = e /\ w.cursor = 0 /\ w.anchor = Nobody
  BY <1>1, <1>3 DEF Views
<1>5. Tabled(w)
  BY <1>2, <1>4 DEF Tabled
<1> QED BY <1>4, <1>5 DEF w

LEMMA TakenIs ==
  ASSUME NEW v, Tabled(v)
  PROVE  Tabled(Taken(v)) /\ Taken(v).anchor = Nobody
<1> DEFINE w == Taken(v)
<1>1. v \in Views
  BY DEF Tabled
<1>2. PICK e \in Seq(TableRows) :
        /\ e = <<OtherRow>> /\ Len(e) = 1 /\ OnceEach(e)
        /\ \A i \in DOMAIN e : e[i] = OtherRow
  BY OtherIsTable
<1>3. w = [v EXCEPT !.mode = "other", !.rows = e, !.cursor = 1, !.anchor = Nobody]
  BY <1>2 DEF Taken
<1> HIDE DEF w
<1>4. w \in Views /\ w.rows = e /\ w.cursor = 1 /\ w.anchor = Nobody
  BY <1>1, <1>3 DEF Views
<1>5. Tabled(w)
  BY <1>2, <1>4 DEF Tabled
<1> QED BY <1>4, <1>5 DEF w

LEMMA InvMoveSelection ==
  ASSUME FeedInv, NEW delta \in {-1, 1}, MoveSelection(delta)
  PROVE  FeedInv'
<1>1. /\ Tabled(view) /\ view \in Views /\ view.mode = "events" /\ view.rows # << >>
      /\ ~view.frozen => Fresh(view, buffer)
  BY DEF FeedInv, Table, Tabled, MoveSelection
<1>2. PICK last, from, to, uid :
        /\ last = Len(view.rows)
        /\ from = IF view.cursor = 0 THEN last ELSE view.cursor
        /\ to = IF from + delta < 1 THEN 1 ELSE IF from + delta > last THEN last ELSE from + delta
        /\ uid = IF to = last THEN Nobody ELSE view.rows[to].uid
        /\ Key([view EXCEPT !.cursor = to, !.anchor = uid], uid)
  BY DEF MoveSelection
<1>3. PICK rows \in Seq(TableRows) : rows = view.rows
  BY <1>1 DEF Views
<1>4. /\ rows # << >> /\ last = Len(rows) /\ OnceEach(rows)
      /\ DOMAIN rows = 1..last /\ last \in Nat /\ view.cursor \in Nat /\ view.cursor <= last
  <2>1. rows # << >> /\ last = Len(rows) /\ OnceEach(rows)
    BY <1>1, <1>2, <1>3 DEF Tabled
  <2>2. view.cursor \in Nat /\ view.cursor <= last
    BY <1>1, <1>2 DEF Tabled, Views
  <2> QED BY <2>1, <2>2
<1>5. last >= 1
  <2>1. Len(rows) # 0
    BY <1>3, <1>4, EmptySeq
  <2> QED BY <1>4, <2>1
<1>6. to \in 1..last
  <2>1. from \in 1..last
    BY <1>2, <1>4, <1>5
  <2> QED BY <1>2, <1>4, <1>5, <2>1
<1>7. rows[to] \in TableRows /\ uid \in Events \cup {Nobody} /\ (uid # Nobody => uid = rows[to].uid)
  <2>1. rows[to] \in TableRows
    BY <1>4, <1>6
  <2>2. rows[to].uid \in Events \cup {Nobody}
    BY <2>1 DEF TableRows, FeedRecords, OtherRow
  <2> QED BY <1>2, <1>3, <2>1, <2>2
<1> DEFINE v == [view EXCEPT !.cursor = to, !.anchor = uid]
<1>8. /\ v \in Views /\ v.rows = rows /\ v.cursor = to /\ v.anchor = uid /\ v.mode = "events"
      /\ v.frozen = view.frozen /\ v.filter = view.filter /\ v.search = view.search
  <2>1. to \in Nat
    BY <1>4, <1>6
  <2> QED BY <1>1, <1>3, <1>7, <2>1 DEF Views
<1>9. Key(v, uid)
  BY <1>2
<1> HIDE DEF v
<1>10. Tabled(v)
  <2>1. \A i \in DOMAIN rows : rows[i].uid = uid /\ rows[i] # OtherRow => to = i
    <3> SUFFICES ASSUME NEW i \in DOMAIN rows, rows[i].uid = uid, rows[i] # OtherRow
                 PROVE  to = i
      OBVIOUS
    <3>1. uid # Nobody
      BY NobodyIsOther
    <3>2. rows[to].uid = rows[i].uid /\ to \in DOMAIN rows
      BY <1>4, <1>6, <1>7, <3>1
    <3> QED BY <1>4, <3>2 DEF OnceEach
  <2>2. v.cursor <= Len(v.rows)
    BY <1>4, <1>6, <1>8
  <2>3. v.mode # "other"
    BY <1>8
  <2> QED BY <1>4, <1>8, <2>1, <2>2, <2>3 DEF Tabled
<1>11. uid = IF v.mode = "events" /\ ~v.frozen THEN Lasting(v, buffer) ELSE v.anchor
  <2>1. Matching(v, buffer) = Matching(view, buffer)
    BY <1>8 DEF Matching, Passes, Found
  <2>2. CASE view.frozen \/ Matching(view, buffer) = {} \/ uid = Nobody
    BY <1>8, <2>1, <2>2 DEF Lasting
  <2>3. CASE ~view.frozen /\ Matching(view, buffer) # {} /\ uid # Nobody
    <3>1. PICK i \in Matching(view, buffer) : buffer[i] = rows[to]
      BY <1>1, <1>3, <1>4, <1>6, <2>3 DEF Fresh
    <3>2. buffer[i].uid = uid
      BY <1>7, <2>3, <3>1
    <3> QED BY <1>8, <2>1, <3>1, <3>2 DEF Lasting
  <2> QED BY <2>2, <2>3
<1> QED BY <1>9, <1>10, <1>11, KeyKeeps

(* The choice that outlives a turn is the one the table keeps.             *)
LEMMA StillIsLasting ==
  ASSUME FeedInv, NEW v, v.anchor = view.anchor, NEW b
  PROVE  StillChosen(v, b)
           = IF v.mode = "events" /\ ~v.frozen THEN Lasting(v, b) ELSE v.anchor
<1>1. chosen = v.anchor
  BY DEF FeedInv, Table
<1> QED BY <1>1 DEF StillChosen, Lasting

LEMMA InvSetFilter ==
  ASSUME FeedInv, NEW f \in {All, "errors"}, SetFilter(f)
  PROVE  FeedInv'
<1> DEFINE v == [view EXCEPT !.filter = f]
<1>1. Tabled(view) /\ view \in Views
  BY DEF FeedInv, Table, Tabled
<1>2. /\ v \in Views /\ v.rows = view.rows /\ v.cursor = view.cursor /\ v.anchor = view.anchor
      /\ v.mode = view.mode
  BY <1>1 DEF Views
<1>3. Key(v, StillChosen(v, buffer))
  BY DEF SetFilter
<1> HIDE DEF v
<1>4. Tabled(v)
  BY <1>1, <1>2 DEF Tabled
<1> QED BY <1>2, <1>3, <1>4, StillIsLasting, KeyKeeps

LEMMA InvFreeze ==
  ASSUME FeedInv, Freeze
  PROVE  FeedInv'
<1> DEFINE v == [view EXCEPT !.frozen = ~@]
<1>1. Tabled(view) /\ view \in Views
  BY DEF FeedInv, Table, Tabled
<1>2. PICK frozen \in BOOLEAN : frozen = ~view.frozen
  OBVIOUS
<1>3. v = [view EXCEPT !.frozen = frozen]
  BY <1>2
<1>4. Key(v, StillChosen(v, buffer))
  BY DEF Freeze
<1> HIDE DEF v
<1>5. /\ v \in Views /\ v.rows = view.rows /\ v.cursor = view.cursor /\ v.anchor = view.anchor
      /\ v.mode = view.mode
  BY <1>1, <1>3 DEF Views
<1>6. Tabled(v)
  BY <1>1, <1>5 DEF Tabled
<1> QED BY <1>4, <1>5, <1>6, StillIsLasting, KeyKeeps

LEMMA InvSetSearch ==
  ASSUME FeedInv, NEW q \in {Nobody, "typed"}, SetSearch(q)
  PROVE  FeedInv'
<1> DEFINE v == [view EXCEPT !.search = q]
           w == Refreshed(v, buffer)
           thawed == [v EXCEPT !.frozen = FALSE]
<1>1. Tabled(view) /\ view \in Views /\ view.mode = "events" /\ Rings(buffer)
  BY DEF FeedInv, Table, Tabled, Ring, SetSearch
<1>2. /\ v \in Views /\ v.rows = view.rows /\ v.cursor = view.cursor /\ v.anchor = view.anchor
      /\ v.mode = "events"
  BY <1>1 DEF Views
<1>3. Key(w, StillChosen(thawed, buffer))
  BY DEF SetSearch
<1> HIDE DEF v
<1>4. Tabled(v)
  BY <1>1, <1>2 DEF Tabled
<1>5. /\ Tabled(w) /\ w.mode = "events" /\ w.frozen = v.frozen
      /\ Matching(w, buffer) = Matching(v, buffer) /\ w.anchor = Lasting(v, buffer)
  BY <1>1, <1>2, <1>4, RefreshedIs
<1>6. /\ thawed.anchor = view.anchor /\ thawed.mode = "events" /\ thawed.frozen = FALSE
      /\ thawed.filter = v.filter /\ thawed.search = v.search
  BY <1>2 DEF Views
<1> HIDE DEF w, thawed
<1>7. StillChosen(thawed, buffer) = Lasting(thawed, buffer)
  BY <1>6, StillIsLasting
<1>8. Lasting(thawed, buffer) = Lasting(v, buffer)
  BY <1>2, <1>6 DEF Lasting, Matching, Passes, Found
<1>9. Lasting(w, buffer) = w.anchor
  BY <1>5 DEF Lasting
<1>10. StillChosen(thawed, buffer)
         = IF w.mode = "events" /\ ~w.frozen THEN Lasting(w, buffer) ELSE w.anchor
  BY <1>5, <1>7, <1>8, <1>9
<1> QED BY <1>3, <1>5, <1>10, KeyKeeps

-----------------------------------------------------------------------------
(* Scopes *)

LEMMA InvApplyNamespace ==
  ASSUME FeedInv, NEW s \in {All} \cup SUBSET Namespaces, NEW v, Tabled(v), v.anchor = Nobody,
         ApplyNamespace(s, v)
  PROVE  FeedInv'
<1>0. /\ scope' = s /\ chosen' = Nobody /\ UNCHANGED <<happened, clock>>
      /\ \/ buffer' = << >>
         \/ \E w \in DOMAIN watches :
               watches[w] \notin {Nobody, << >>} /\ buffer' = <<Head(watches[w])>>
      /\ strays' = {r.uid : r \in Range(buffer')}
      /\ watches' = [w \in Watched(s) |-> Nobody]
      /\ view' = Drawn([v EXCEPT !.frozen = FALSE], buffer')
  BY DEF ApplyNamespace
<1>1. Times'
  BY <1>0 DEF FeedInv, Times
<1>2. Scopes'
  BY <1>0 DEF FeedInv, Scopes
<1>3. Told'
  BY <1>0 DEF Told
<1>4. Rings(buffer') /\ (\A i \in DOMAIN buffer : Happened(buffer[i]))'
  <2>1. CASE buffer' = << >>
    <3>1. buffer' \in Seq(FeedRecords)
      BY <2>1
    <3>2. Len(buffer') = 0 /\ DOMAIN buffer' = {}
      BY <2>1
    <3> QED BY <3>1, <3>2, FeedAssumption DEF Rings, OnceEach
  <2>2. CASE \E w \in DOMAIN watches :
               watches[w] \notin {Nobody, << >>} /\ buffer' = <<Head(watches[w])>>
    <3>1. PICK w \in DOMAIN watches :
               watches[w] \notin {Nobody, << >>} /\ buffer' = <<Head(watches[w])>>
      BY <2>2
    <3>2. watches[w] \in Seq(FeedRecords) /\ Queue(w, watches[w])
      BY <3>1 DEF FeedInv, Scopes, Told
    <3>3. PICK q \in Seq(FeedRecords) : q = watches[w] /\ q # << >>
      BY <3>1, <3>2
    <3>4. 1 \in DOMAIN q /\ Head(q) = q[1] /\ q[1] \in FeedRecords
      BY <3>3
    <3>5. PICK r \in FeedRecords : r = q[1] /\ r = Head(watches[w])
      BY <3>3, <3>4
    <3>6. Happened(r)
      BY <3>2, <3>3, <3>4, <3>5 DEF Queue
    <3>7. buffer' = <<r>>
      BY <3>1, <3>5
    <3>8. buffer' \in Seq(FeedRecords) /\ Len(buffer') = 1 /\ DOMAIN buffer' = {1} /\ buffer'[1] = r
      BY <3>7
    <3>9. Happened(r)'
      BY <1>0, <3>6 DEF Happened
    <3> QED BY <3>8, <3>9, FeedAssumption DEF Rings, OnceEach
  <2> QED BY <1>0, <2>1, <2>2
<1>5. Ring'
  <2>1. \A i \in DOMAIN buffer' : buffer'[i].uid \in strays'
    <3> TAKE i \in DOMAIN buffer'
    <3>1. buffer'[i] \in Range(buffer')
      BY DEF Range
    <3> QED BY <1>0, <3>1
  <2> QED BY <1>4, <2>1 DEF Ring
<1>6. Table'
  <2> DEFINE w == [v EXCEPT !.frozen = FALSE]
  <2>1. v \in Views
    BY DEF Tabled
  <2>2. /\ w \in Views /\ w.rows = v.rows /\ w.cursor = v.cursor /\ w.anchor = Nobody
        /\ w.mode = v.mode
    BY <2>1 DEF Views
  <2>3. view' = Drawn(w, buffer')
    BY <1>0
  <2> HIDE DEF w
  <2>4. Tabled(w)
    BY <2>2 DEF Tabled
  <2>5. chosen' = IF w.mode = "events" /\ ~w.frozen THEN Lasting(w, buffer') ELSE w.anchor
    BY <1>0, <2>2 DEF Lasting
  <2> QED BY <1>4, <2>3, <2>4, <2>5, Drawing
<1> QED BY <1>1, <1>2, <1>3, <1>5, <1>6 DEF FeedInv

LEMMA ReopenedIs ==
  ASSUME FeedInv
  PROVE  Tabled(Reopened) /\ Reopened.anchor = Nobody
<1>1. Tabled(view)
  BY DEF FeedInv, Table
<1> QED BY <1>1, BlankIs, TakenIs DEF Reopened

LEMMA InvFilterToSelected ==
  ASSUME FeedInv, FilterToSelected
  PROVE  FeedInv'
<1>1. /\ view.cursor > 0 /\ view.rows[view.cursor] # OtherRow
      /\ ApplyNamespace({NsOf[view.rows[view.cursor].uid]}, Reopened)
  BY DEF FilterToSelected
<1>2. view \in Views /\ view.cursor <= Len(view.rows)
  BY DEF FeedInv, Table, Tabled
<1>3. PICK rows \in Seq(TableRows) : rows = view.rows
  BY <1>2 DEF Views
<1>4. view.cursor \in Nat /\ view.cursor <= Len(rows)
  BY <1>2, <1>3 DEF Views
<1>5. rows[view.cursor] \in TableRows
  BY <1>1, <1>4
<1>6. rows[view.cursor].uid \in Events
  BY <1>1, <1>3, <1>5 DEF TableRows, FeedRecords
<1>7. {NsOf[view.rows[view.cursor].uid]} \in SUBSET Namespaces
  BY <1>3, <1>6, FeedAssumption
<1> QED BY <1>1, <1>7, ReopenedIs, InvApplyNamespace

LEMMA InvToggleNamespace ==
  ASSUME FeedInv, NEW n \in Namespaces, ToggleNamespace(n)
  PROVE  FeedInv'
<1>1. Toggled(scope, n) \in {All} \cup SUBSET Namespaces
  BY DEF FeedInv, Scopes, Toggled
<1>2. ApplyNamespace(Toggled(scope, n), Reopened)
  BY DEF ToggleNamespace
<1> QED BY <1>1, <1>2, ReopenedIs, InvApplyNamespace

LEMMA InvRescoped ==
  ASSUME FeedInv, ClearScope \/ RunEventsIn(Namespaces)
  PROVE  FeedInv'
<1>1. CASE ClearScope
  <2>1. ApplyNamespace(All, Reopened)
    BY <1>1 DEF ClearScope
  <2> QED BY <2>1, ReopenedIs, InvApplyNamespace
<1>2. CASE RunEventsIn(Namespaces)
  <2>1. ApplyNamespace(Namespaces, Following(Blank(view)))
    BY <1>2 DEF RunEventsIn
  <2>2. Tabled(Following(Blank(view))) /\ Following(Blank(view)).anchor = Nobody
    BY BlankIs, FollowingIs DEF FeedInv, Table
  <2> QED BY <2>1, <2>2, InvApplyNamespace
<1> QED BY <1>1, <1>2

(* The keys after which the table follows what is newest.                  *)
LEMMA InvFollow ==
  ASSUME FeedInv, ResetToFollow \/ EnterView \/ ExitView \/ RunEvents
  PROVE  FeedInv'
<1>1. Tabled(view)
  BY DEF FeedInv, Table
<1>2. CASE ResetToFollow \/ RunEvents
  <2>1. Key(Following(view), Nobody)
    BY <1>2 DEF ResetToFollow, RunEvents
  <2> QED BY <1>1, <2>1, FollowingIs, KeyFollows
<1>3. CASE EnterView
  <2>1. Key(Taken(view), Nobody)
    BY <1>3 DEF EnterView
  <2> QED BY <1>1, <2>1, TakenIs, KeyFollows
<1>4. CASE ExitView
  <2>1. Key(Following(Blank(view)), Nobody)
    BY <1>4 DEF ExitView
  <2> QED BY <1>1, <2>1, BlankIs, FollowingIs, KeyFollows
<1> QED BY <1>2, <1>3, <1>4

-----------------------------------------------------------------------------
(* Watches *)

(* An event is of one watch of the scope at most.                          *)
LEMMA OneWatch ==
  ASSUME Scopes, NEW e \in Events, NEW w \in DOMAIN watches, NEW u \in DOMAIN watches,
         Covers(w, e), Covers(u, e)
  PROVE  w = u
<1>1. DOMAIN watches = {All} \/ DOMAIN watches \subseteq Namespaces
  BY DEF Scopes, Watched
<1>2. NsOf[e] # All
  BY FeedAssumption
<1> QED BY <1>1, FeedAssumption DEF Covers

LEMMA InvBreaks ==
  ASSUME FeedInv, NEW w, Breaks(w)
  PROVE  FeedInv'
<1>1. /\ w \in DOMAIN watches /\ watches' = [watches EXCEPT ![w] = Nobody]
      /\ UNCHANGED <<happened, clock, scope, strays, buffer, view, chosen>>
  BY DEF Breaks
<1>2. Times' /\ Table'
  BY <1>1 DEF FeedInv, Times, Table
<1>3. DOMAIN watches' = DOMAIN watches /\ watches'[w] = Nobody
      /\ \A u \in DOMAIN watches \ {w} : watches'[u] = watches[u]
  BY <1>1 DEF FeedInv, Scopes
<1>4. watches' = [u \in DOMAIN watches' |-> watches'[u]]
  BY <1>1 DEF FeedInv, Scopes
<1>5. Scopes'
  BY <1>1, <1>3, <1>4 DEF FeedInv, Scopes
<1>6. Ring'
  BY <1>1, <1>3 DEF FeedInv, Ring, Happened, Owned
<1>7. Told'
  <2> SUFFICES ASSUME NEW u \in DOMAIN watches', watches'[u] # Nobody
               PROVE  Queue(u, watches[u])'
    BY DEF Told
  <2>1. u \in DOMAIN watches /\ watches'[u] = watches[u] /\ watches[u] # Nobody
    BY <1>3
  <2>2. Queue(u, watches[u])
    BY <2>1 DEF FeedInv, Told
  <2> QED BY <1>1, <2>1, <2>2 DEF Queue, Happened, LastTold, Record, Settled
<1> QED BY <1>2, <1>5, <1>6, <1>7 DEF FeedInv

LEMMA InvLists ==
  ASSUME FeedInv, NEW w, Lists(w)
  PROVE  FeedInv'
<1> DEFINE G == {f \in Events : Covers(w, f) /\ happened[f] > 0}
           there == {Record(f) : f \in G}
<1>1. /\ w \in DOMAIN watches
      /\ \E q \in [1..Cardinality(there) -> there] :
            Range(q) = there /\ watches' = [watches EXCEPT ![w] = q]
      /\ UNCHANGED <<happened, clock, scope, strays, buffer, view, chosen>>
  BY DEF Lists
<1>2. Cardinality(there) \in Nat
  <2> DEFINE f == [e \in G |-> Record(e)]
  <2>1. G \in SUBSET Events
    OBVIOUS
  <2> HIDE DEF G
  <2>2. IsFiniteSet(G)
    BY <2>1, FS_Subset, FeedAssumption
  <2>3. f \in Surjection(G, there)
    BY DEF Surjection
  <2> HIDE DEF f, there
  <2>4. IsFiniteSet(there)
    BY <2>2, <2>3, FS_Surjection
  <2> QED BY <2>4, FS_CardinalityType
<1>3. \A f \in G : /\ Record(f) \in FeedRecords /\ Record(f).uid = f /\ Covers(w, f)
                   /\ Happened(Record(f))
  <2> SUFFICES ASSUME NEW f \in Events, Covers(w, f), happened[f] > 0
               PROVE  /\ Record(f) \in FeedRecords /\ Record(f).uid = f /\ Covers(w, f)
                      /\ Happened(Record(f))
    OBVIOUS
  <2>1. happened[f] \in Nat
    BY DEF FeedInv, Times
  <2> QED BY <2>1 DEF Record, FeedRecords, Happened
<1>4. PICK q \in [1..Cardinality(there) -> there] :
        Range(q) = there /\ watches' = [watches EXCEPT ![w] = q]
  BY <1>1
<1>5. \A i \in DOMAIN q : \E f \in G : q[i] = Record(f)
  OBVIOUS
<1>6. \A f \in G : \E i \in DOMAIN q : q[i] = Record(f)
  BY <1>4 DEF Range
<1>7. q \in Seq(FeedRecords)
  <2>1. \A i \in 1..Cardinality(there) : q[i] \in FeedRecords
    BY <1>3, <1>5
  <2>2. q \in [1..Cardinality(there) -> FeedRecords]
    BY <2>1
  <2> HIDE DEF there
  <2> QED BY <1>2, <2>2
<1> HIDE DEF there
<1>8. Queue(w, q)
  <2>1. \A i \in DOMAIN q : Covers(w, q[i].uid) /\ Happened(q[i]) /\ q[i] = Record(q[i].uid)
    BY <1>3, <1>5
  <2>2. ASSUME NEW e \in Events \ strays, Covers(w, e), Absent(q, e)
        PROVE  Settled(e)
    <3>1. e \notin G
      BY <1>3, <1>6, <2>2 DEF Absent
    <3>2. happened[e] \in Nat /\ ~(happened[e] > 0)
      BY <2>2, <3>1 DEF FeedInv, Times
    <3>3. \A i \in DOMAIN buffer : buffer[i].uid # e
      <4> SUFFICES ASSUME NEW i \in DOMAIN buffer, buffer[i].uid = e PROVE FALSE
        OBVIOUS
      <4>1. buffer[i] \in FeedRecords /\ Happened(buffer[i])
        BY DEF FeedInv, Ring, Rings
      <4> QED BY <3>2, <4>1 DEF FeedRecords, Happened
    <3> QED BY <3>2, <3>3 DEF Settled
  <2> QED BY <2>1, <2>2 DEF Queue, LastTold
<1>9. DOMAIN watches' = DOMAIN watches /\ watches'[w] = q
      /\ \A u \in DOMAIN watches \ {w} : watches'[u] = watches[u]
  BY <1>1, <1>4 DEF FeedInv, Scopes
<1>10. watches' = [u \in DOMAIN watches' |-> watches'[u]]
  BY <1>4 DEF FeedInv, Scopes
<1>11. Scopes'
  BY <1>1, <1>7, <1>9, <1>10 DEF FeedInv, Scopes
<1>12. Times' /\ Table'
  BY <1>1 DEF FeedInv, Times, Table
<1>13. Ring'
  BY <1>1, <1>9 DEF FeedInv, Ring, Happened, Owned
<1>14. Told'
  <2> SUFFICES ASSUME NEW u \in DOMAIN watches', watches'[u] # Nobody
               PROVE  Queue(u, watches[u])'
    BY DEF Told
  <2>1. PICK p : p = watches'[u]
    OBVIOUS
  <2>2. Queue(u, p)
    BY <1>8, <1>9, <2>1 DEF FeedInv, Told
  <2> QED BY <1>1, <2>1, <2>2 DEF Queue, Happened, LastTold, Record, Settled
<1> QED BY <1>11, <1>12, <1>13, <1>14 DEF FeedInv

LEMMA InvHappens ==
  ASSUME FeedInv, NEW e \in Events, Happens(e)
  PROVE  FeedInv'
<1>0. PICK new : new = [uid |-> e, time |-> clock']
  OBVIOUS
<1>1. /\ clock' = clock + 1 /\ happened' = [happened EXCEPT ![e] = clock']
      /\ watches' = [w \in DOMAIN watches |->
                       IF Covers(w, e) /\ watches[w] # Nobody
                       THEN Append(watches[w], new) ELSE watches[w]]
      /\ UNCHANGED <<scope, strays, buffer, view, chosen>>
  BY <1>0 DEF Happens
<1>2. /\ clock \in Nat /\ clock' \in Nat /\ clock' = clock + 1
      /\ happened \in [Events -> Nat] /\ \A f \in Events : happened[f] <= clock
      /\ happened' \in [Events -> Nat] /\ happened'[e] = clock'
      /\ \A f \in Events \ {e} : happened'[f] = happened[f]
  BY <1>1 DEF FeedInv, Times
<1>3. Times' /\ \A f \in Events : happened[f] <= happened'[f]
  <2>1. \A f \in Events : happened'[f] <= clock' /\ happened[f] <= happened'[f]
    <3> TAKE f \in Events
    <3>1. happened[f] \in Nat /\ happened[f] <= clock
      BY <1>2
    <3>2. happened'[f] = happened[f] \/ happened'[f] = clock'
      BY <1>2
    <3> QED BY <1>2, <3>1, <3>2
  <2> QED BY <1>2, <2>1 DEF Times
<1>4. new \in FeedRecords /\ new.uid = e /\ new = Record(e)' /\ Happened(new)'
  <2>1. new \in FeedRecords /\ new.uid = e /\ new.time = clock'
    BY <1>0, <1>2 DEF FeedRecords
  <2>2. new = Record(e)'
    BY <1>0, <1>2 DEF Record
  <2>3. clock' >= 1
    BY <1>2
  <2> QED BY <1>2, <2>1, <2>2, <2>3 DEF Happened
<1>5. \A r \in FeedRecords : Happened(r) => Happened(r)'
  <2> SUFFICES ASSUME NEW r \in FeedRecords, Happened(r) PROVE Happened(r)'
    OBVIOUS
  <2>1. r.uid \in Events /\ r.time \in Nat
    BY DEF FeedRecords
  <2>2. happened[r.uid] \in Nat /\ happened'[r.uid] \in Nat /\ happened[r.uid] <= happened'[r.uid]
    BY <1>2, <1>3, <2>1
  <2> QED BY <2>1, <2>2 DEF Happened
<1>6. \A f \in Events \ {e} : Record(f)' = Record(f) /\ (Settled(f) => Settled(f)')
  BY <1>1, <1>2 DEF Record, Settled
<1>7. DOMAIN watches' = DOMAIN watches
      /\ \A w \in DOMAIN watches : watches'[w] = IF Covers(w, e) /\ watches[w] # Nobody
                                                 THEN Append(watches[w], new) ELSE watches[w]
  BY <1>1
<1>8. Table'
  BY <1>1 DEF FeedInv, Table
<1>9. Ring'
  <2>1. Rings(buffer) /\ \A i \in DOMAIN buffer : buffer[i] \in FeedRecords /\ Happened(buffer[i])
    BY DEF FeedInv, Ring, Rings
  <2>2. (\A i \in DOMAIN buffer : Happened(buffer[i]))'
    BY <1>1, <1>5, <2>1
  <2>3. (\A i \in DOMAIN buffer : buffer[i].uid \in strays \/ Owned(buffer[i].uid))'
    BY <1>1, <1>7 DEF FeedInv, Ring, Owned
  <2> QED BY <1>1, <2>1, <2>2, <2>3 DEF Ring
<1>10. Scopes'
  <2>1. \A w \in DOMAIN watches : watches'[w] = Nobody \/ watches'[w] \in Seq(FeedRecords)
    <3> TAKE w \in DOMAIN watches
    <3>1. watches[w] = Nobody \/ watches[w] \in Seq(FeedRecords)
      BY DEF FeedInv, Scopes
    <3>2. watches[w] \in Seq(FeedRecords) => Append(watches[w], new) \in Seq(FeedRecords)
      BY <1>4, AppendProperties
    <3> QED BY <1>7, <3>1, <3>2
  <2>2. watches' = [w \in DOMAIN watches' |-> watches'[w]]
    BY <1>1
  <2> QED BY <1>1, <1>7, <2>1, <2>2 DEF FeedInv, Scopes
<1>11. Told'
  <2> SUFFICES ASSUME NEW w \in DOMAIN watches', watches'[w] # Nobody
               PROVE  Queue(w, watches[w])'
    BY DEF Told
  <2>1. w \in DOMAIN watches /\ watches[w] # Nobody /\ watches[w] \in Seq(FeedRecords)
    BY <1>7 DEF FeedInv, Scopes
  <2>2. PICK q \in Seq(FeedRecords) : q = watches[w] /\ Queue(w, q)
    BY <2>1 DEF FeedInv, Told
  <2>3. /\ \A i \in DOMAIN q : q[i] \in FeedRecords /\ q[i].uid \in Events
        /\ \A i \in DOMAIN q : Covers(w, q[i].uid) /\ Happened(q[i])
        /\ \A i \in DOMAIN q : (\A j \in DOMAIN q : j > i => q[j].uid # q[i].uid) => q[i] = Record(q[i].uid)
        /\ \A f \in Events \ strays : Covers(w, f) /\ Absent(q, f) => Settled(f)
    <3>1. \A i \in DOMAIN q : q[i] \in FeedRecords /\ q[i].uid \in Events
      <4>1. \A i \in DOMAIN q : q[i] \in FeedRecords
        OBVIOUS
      <4> QED BY <4>1 DEF FeedRecords
    <3> QED BY <2>2, <3>1 DEF Queue, LastTold
  <2>4. CASE Covers(w, e)
    <3>1. PICK p \in Seq(FeedRecords) : p = Append(q, new) /\ p = watches'[w]
      BY <1>4, <1>7, <2>1, <2>2, <2>4, AppendProperties
    <3>2. PICK n \in Nat : n = Len(q) /\ DOMAIN q = 1..n
      OBVIOUS
    <3>3. DOMAIN p = 1..(n + 1) /\ p[n + 1] = new /\ \A i \in 1..n : p[i] = q[i]
      <4>1. new \in FeedRecords
        BY <1>4
      <4>2. /\ Len(Append(q, new)) = Len(q) + 1
            /\ \A i \in 1..Len(q) : Append(q, new)[i] = q[i]
            /\ Append(q, new)[Len(q) + 1] = new
        BY <4>1, AppendProperties
      <4>3. Len(p) = n + 1 /\ p[n + 1] = new /\ \A i \in 1..n : p[i] = q[i]
        BY <3>1, <3>2, <4>2
      <4> QED BY <4>3
    <3>4. \A i \in DOMAIN p : i = n + 1 \/ i \in DOMAIN q
      BY <3>2, <3>3
    <3>5. (\A i \in DOMAIN p : Covers(w, p[i].uid) /\ Happened(p[i]))'
      BY <1>4, <1>5, <2>3, <2>4, <3>2, <3>3, <3>4
    <3>6. ASSUME NEW i \in DOMAIN p, \A j \in DOMAIN p : j > i => p[j].uid # p[i].uid
          PROVE  p[i] = Record(p[i].uid)'
      <4>1. CASE i = n + 1
        BY <1>4, <3>3, <4>1
      <4>2. CASE i \in DOMAIN q
        <5>1. i \in 1..n /\ n + 1 > i /\ n + 1 \in DOMAIN p
          BY <3>2, <3>3, <4>2
        <5>2. p[i] = q[i] /\ q[i].uid # e
          BY <1>4, <3>3, <3>6, <5>1
        <5>3. \A j \in DOMAIN q : j > i => q[j].uid # q[i].uid
          BY <3>2, <3>3, <3>6, <5>2
        <5>4. q[i] = Record(q[i].uid) /\ q[i].uid \in Events \ {e}
          BY <2>3, <4>2, <5>2, <5>3
        <5> QED BY <1>6, <5>2, <5>4
      <4> QED BY <3>4, <4>1, <4>2
    <3>7. ASSUME NEW f \in Events \ strays, Covers(w, f), Absent(p, f)
          PROVE  Settled(f)'
      <4>1. f # e
        BY <1>4, <3>2, <3>3, <3>7 DEF Absent
      <4>2. Absent(q, f)
        BY <3>2, <3>3, <3>7 DEF Absent
      <4> QED BY <1>6, <2>3, <3>7, <4>1, <4>2
    <3>8. LastTold(p)'
      BY <3>6 DEF LastTold
    <3> QED BY <1>1, <3>1, <3>5, <3>7, <3>8 DEF Queue
  <2>5. CASE ~Covers(w, e)
    <3>1. watches'[w] = q
      BY <1>7, <2>1, <2>2, <2>5
    <3>2. \A i \in DOMAIN q : q[i].uid # e
      BY <2>3, <2>5
    <3>3. (\A i \in DOMAIN q : Covers(w, q[i].uid) /\ Happened(q[i]))'
      BY <1>5, <2>3
    <3>4. LastTold(q)'
      BY <1>6, <2>3, <3>2 DEF LastTold
    <3>5. ASSUME NEW f \in Events \ strays, Covers(w, f), Absent(q, f)
          PROVE  Settled(f)'
      BY <1>6, <2>3, <2>5, <3>5
    <3> QED BY <1>1, <3>1, <3>3, <3>4, <3>5 DEF Queue
  <2> QED BY <2>4, <2>5
<1> QED BY <1>3, <1>8, <1>9, <1>10, <1>11 DEF FeedInv

(* An event that is not the one told stays as it was, or is pushed out.    *)
LEMMA SettledStays ==
  ASSUME Rings(buffer), NEW r \in FeedRecords, buffer' = Pushed(buffer, r), happened' = happened,
         NEW f, f # r.uid, Settled(f)
  PROVE  Settled(f)'
<1>1. PICK p : p = buffer'
  OBVIOUS
<1>2. /\ \A i \in DOMAIN p : p[i] = r \/ \E j \in DOMAIN buffer : buffer[j] = p[i] /\ buffer[j].uid # r.uid
      /\ \A j \in DOMAIN buffer :
            buffer[j].uid = r.uid \/ (\E i \in DOMAIN p : p[i] = buffer[j]) \/ Len(p) = Capacity
      /\ Len(buffer) = Capacity => Len(p) = Capacity
  BY <1>1, PushedIs
<1>3. Record(f)' = Record(f) /\ happened'[f] = happened[f]
  BY DEF Record
<1>4. ASSUME NEW i \in DOMAIN p, p[i].uid = f PROVE p[i] = Record(f)
  <2>1. PICK j \in DOMAIN buffer : buffer[j] = p[i]
    BY <1>2, <1>4
  <2> QED BY <1>4, <2>1 DEF Settled
<1>5. ASSUME Absent(p, f), happened[f] > 0 PROVE Len(p) = Capacity
  <2>1. CASE Absent(buffer, f)
    BY <1>2, <1>5, <2>1 DEF Settled
  <2>2. CASE ~Absent(buffer, f)
    <3>1. PICK j \in DOMAIN buffer : buffer[j].uid = f
      BY <2>2 DEF Absent
    <3>2. ~ \E i \in DOMAIN p : p[i] = buffer[j]
      BY <1>5, <3>1 DEF Absent
    <3> QED BY <1>2, <3>1, <3>2
  <2> QED BY <2>1, <2>2
<1> QED BY <1>1, <1>3, <1>4, <1>5 DEF Settled

LEMMA InvTells ==
  ASSUME FeedInv, NEW w, Tells(w)
  PROVE  FeedInv'
<1>1. /\ w \in DOMAIN watches /\ watches[w] \notin {Nobody, << >>}
      /\ buffer' = Pushed(buffer, Head(watches[w]))
      /\ watches' = [watches EXCEPT ![w] = Tail(@)]
      /\ view' = Drawn(view, buffer')
      /\ chosen' = StillChosen(view, buffer')
      /\ strays' = strays \ {Head(watches[w]).uid}
      /\ UNCHANGED <<happened, clock, scope>>
  BY DEF Tells
<1>2. PICK q \in Seq(FeedRecords) : q = watches[w] /\ q # << >> /\ Queue(w, q)
  BY <1>1 DEF FeedInv, Scopes, Told
<1>3. PICK n \in Nat : n = Len(q) /\ DOMAIN q = 1..n
  OBVIOUS
<1>4. n >= 1 /\ Head(q) = q[1]
  <2>1. Len(q) # 0
    BY <1>2, EmptySeq
  <2> QED BY <1>3, <2>1
<1>5. PICK t \in Seq(FeedRecords) :
        t = Tail(q) /\ DOMAIN t = 1..(n - 1) /\ \A i \in 1..(n - 1) : t[i] = q[i + 1]
  <2>1. /\ Tail(q) \in Seq(FeedRecords) /\ Len(Tail(q)) = Len(q) - 1
        /\ \A i \in 1..Len(Tail(q)) : Tail(q)[i] = q[i + 1]
    BY <1>2, HeadTailProperties
  <2>2. PICK s \in Seq(FeedRecords) :
          s = Tail(q) /\ Len(s) = n - 1 /\ \A i \in 1..Len(s) : s[i] = q[i + 1]
    BY <1>3, <2>1
  <2>3. DOMAIN s = 1..Len(s)
    OBVIOUS
  <2>4. DOMAIN s = 1..(n - 1) /\ \A i \in 1..(n - 1) : s[i] = q[i + 1]
    BY <2>2, <2>3
  <2> QED BY <2>2, <2>4
<1>6. PICK r \in FeedRecords : r = q[1] /\ r = Head(watches[w])
  <2>1. q[1] \in FeedRecords
    BY <1>3, <1>4
  <2> QED BY <1>2, <1>4, <2>1
<1>7. r.uid \in Events /\ Covers(w, r.uid) /\ Happened(r)
  <2>1. 1 \in DOMAIN q
    BY <1>3, <1>4
  <2> QED BY <1>2, <1>6, <2>1 DEF Queue, FeedRecords
<1>8. /\ buffer' = Pushed(buffer, r) /\ strays' = strays \ {r.uid}
      /\ DOMAIN watches' = DOMAIN watches /\ watches'[w] = t
      /\ \A u \in DOMAIN watches \ {w} : watches'[u] = watches[u]
      /\ watches' = [u \in DOMAIN watches' |-> watches'[u]]
  <2>1. watches = [u \in DOMAIN watches |-> watches[u]]
    BY DEF FeedInv, Scopes
  <2>2. watches' = [u \in DOMAIN watches |-> IF u = w THEN t ELSE watches[u]]
    BY <1>1, <1>2, <1>5, <2>1
  <2> QED BY <1>1, <1>6, <2>2
<1>9. PICK p : p = buffer'
  OBVIOUS
<1>10. /\ Rings(p)
       /\ \E i \in DOMAIN p : p[i] = r
       /\ \A i \in DOMAIN p : p[i] = r \/ \E j \in DOMAIN buffer : buffer[j] = p[i] /\ buffer[j].uid # r.uid
       /\ Rings(buffer)
  <2>1. Rings(buffer)
    BY DEF FeedInv, Ring
  <2> QED BY <1>8, <1>9, <2>1, PushedIs
<1>11. Times'
  BY <1>1 DEF FeedInv, Times
<1>12. Scopes'
  BY <1>1, <1>5, <1>8 DEF FeedInv, Scopes
<1>13. Table'
  <2>1. Tabled(view) /\ view.anchor = view.anchor
    BY DEF FeedInv, Table
  <2>2. StillChosen(view, p)
          = IF view.mode = "events" /\ ~view.frozen THEN Lasting(view, p) ELSE view.anchor
    BY StillIsLasting
  <2>3. view' = Drawn(view, p) /\ buffer' = p
        /\ chosen' = IF view.mode = "events" /\ ~view.frozen THEN Lasting(view, p) ELSE view.anchor
    BY <1>1, <1>9, <2>2
  <2> QED BY <1>10, <2>1, <2>3, Drawing
<1>14. Ring'
  <2>1. \A i \in DOMAIN p : Happened(p[i]) /\ (p[i].uid \in strays' \/ Owned(p[i].uid))
    <3> TAKE i \in DOMAIN p
    <3>1. CASE p[i] = r
      BY <1>1, <1>7, <3>1 DEF Owned
    <3>2. CASE p[i] # r
      <4>1. PICK j \in DOMAIN buffer : buffer[j] = p[i] /\ buffer[j].uid # r.uid
        BY <1>10, <3>2
      <4> QED BY <1>8, <4>1 DEF FeedInv, Ring
    <3> QED BY <3>1, <3>2
  <2>2. \A i \in DOMAIN p : Happened(p[i])' /\ (p[i].uid \in strays' \/ Owned(p[i].uid)')
    BY <1>1, <1>8, <2>1 DEF Happened, Owned
  <2> QED BY <1>9, <1>10, <2>2 DEF Ring
<1>15. \A f : f # r.uid /\ Settled(f) => Settled(f)'
  BY <1>1, <1>8, <1>10, SettledStays
<1>16. Told'
  <2> SUFFICES ASSUME NEW u \in DOMAIN watches', watches'[u] # Nobody
               PROVE  Queue(u, watches[u])'
    BY DEF Told
  <2>1. CASE u = w
    <3>1. \A i \in DOMAIN t : i + 1 \in DOMAIN q /\ t[i] = q[i + 1]
      BY <1>3, <1>5
    <3>2. \A i \in DOMAIN t : Covers(w, t[i].uid) /\ Happened(t[i])
      BY <1>2, <3>1 DEF Queue
    <3>3. ASSUME NEW i \in DOMAIN t, \A j \in DOMAIN t : j > i => t[j].uid # t[i].uid
          PROVE  t[i] = Record(t[i].uid)
      <4>1. \A j \in DOMAIN q : j > i + 1 => q[j].uid # q[i + 1].uid
        <5> SUFFICES ASSUME NEW j \in DOMAIN q, j > i + 1 PROVE q[j].uid # q[i + 1].uid
          OBVIOUS
        <5>1. j - 1 \in DOMAIN t /\ j - 1 > i /\ (j - 1) + 1 = j
          BY <1>3, <1>5
        <5>2. t[j - 1] = q[j] /\ t[i] = q[i + 1]
          BY <3>1, <5>1
        <5> QED BY <3>3, <5>1, <5>2
      <4>2. q[i + 1] = Record(q[i + 1].uid)
        BY <1>2, <3>1, <4>1 DEF Queue, LastTold
      <4> QED BY <3>1, <4>2
    <3>4. ASSUME NEW e \in Events \ strays', Covers(w, e), Absent(t, e)
          PROVE  Settled(e)'
      <4>0. \A j \in DOMAIN q : j > 1 => q[j].uid # e
        <5> SUFFICES ASSUME NEW j \in DOMAIN q, j > 1 PROVE q[j].uid # e
          OBVIOUS
        <5>1. j - 1 \in DOMAIN t /\ (j - 1) + 1 = j
          BY <1>3, <1>5
        <5>2. t[j - 1] = q[j]
          BY <3>1, <5>1
        <5> QED BY <3>4, <5>1, <5>2 DEF Absent
      <4>1. CASE e = r.uid
        <5>1. r = Record(e)
          <6>1. 1 \in DOMAIN q /\ q[1].uid = e
            BY <1>3, <1>4, <1>6, <4>1
          <6> QED BY <1>2, <1>6, <4>0, <6>1 DEF Queue, LastTold
        <5>2. Record(e)' = Record(e)
          BY <1>1 DEF Record
        <5>3. \A i \in DOMAIN p : p[i].uid = e => p[i] = r
          BY <1>10, <4>1
        <5>4. ~Absent(p, e)
          BY <1>10, <4>1 DEF Absent
        <5> QED BY <1>9, <5>1, <5>2, <5>3, <5>4 DEF Settled
      <4>2. CASE e # r.uid
        <5>1. e \in Events \ strays
          BY <1>8, <3>4, <4>2
        <5>2. Absent(q, e)
          <6> SUFFICES ASSUME NEW j \in DOMAIN q PROVE q[j].uid # e
            BY DEF Absent
          <6>1. j = 1 \/ j > 1
            BY <1>3
          <6> QED BY <1>6, <4>0, <4>2, <6>1
        <5> QED BY <1>2, <1>15, <3>4, <4>2, <5>1, <5>2 DEF Queue
      <4> QED BY <4>1, <4>2
    <3>5. (\A i \in DOMAIN t : Covers(w, t[i].uid) /\ Happened(t[i]))'
      BY <1>1, <3>2 DEF Happened
    <3>6. LastTold(t)'
      BY <1>1, <3>3 DEF LastTold, Record
    <3> QED BY <1>8, <2>1, <3>4, <3>5, <3>6 DEF Queue
  <2>2. CASE u # w
    <3>1. u \in DOMAIN watches /\ watches'[u] = watches[u] /\ watches[u] # Nobody
      BY <1>8, <2>2
    <3>2. PICK c : c = watches[u] /\ Queue(u, c)
      BY <3>1 DEF FeedInv, Told
    <3>3. ASSUME NEW e \in Events \ strays', Covers(u, e), Absent(c, e)
          PROVE  Settled(e)'
      <4>1. e # r.uid
        BY <1>1, <1>7, <2>2, <3>1, <3>3, OneWatch DEF FeedInv
      <4>2. e \in Events \ strays
        BY <1>8, <3>3, <4>1
      <4>3. Settled(e)
        BY <3>2, <3>3, <4>2 DEF Queue
      <4> QED BY <1>15, <4>1, <4>3
    <3>4. (\A i \in DOMAIN c : Covers(u, c[i].uid) /\ Happened(c[i]))'
      BY <1>1, <3>2 DEF Queue, Happened
    <3>5. LastTold(c)'
      BY <1>1, <3>2 DEF Queue, LastTold, Record
    <3> QED BY <3>1, <3>2, <3>3, <3>4, <3>5 DEF Queue
  <2> QED BY <2>1, <2>2
<1> QED BY <1>11, <1>12, <1>13, <1>14, <1>16 DEF FeedInv

LEMMA InvFeedInit == FeedInit => FeedInv
<1> SUFFICES ASSUME FeedInit PROVE FeedInv
  OBVIOUS
<1>1. Times
  BY DEF FeedInit, Times
<1>2. Scopes
  BY DEF FeedInit, Scopes, Watched
<1>3. Ring
  <2>1. buffer = << >> /\ << >> \in Seq(FeedRecords) /\ Len(<< >>) = 0 /\ DOMAIN << >> = {}
    BY DEF FeedInit
  <2> QED BY <2>1, FeedAssumption DEF Ring, Rings, OnceEach
<1>4. Told
  BY DEF FeedInit, Told
<1>5. Table
  <2>1. PICK e \in Seq(TableRows) : e = << >> /\ Len(e) = 0 /\ DOMAIN e = {} /\ OnceEach(e)
    BY OtherIsTable
  <2>2. view = [mode |-> "events", rows |-> e, cursor |-> 0, anchor |-> Nobody,
                frozen |-> FALSE, filter |-> All, search |-> Nobody]
        /\ chosen = Nobody /\ DOMAIN buffer = {}
    BY <2>1 DEF FeedInit
  <2>3. view \in Views
    BY <2>2 DEF Views
  <2>4. /\ view.rows = e /\ view.cursor = 0 /\ view.anchor = Nobody /\ view.mode = "events"
        /\ Matching(view, buffer) = {}
    BY <2>2 DEF Matching
  <2>5. Tabled(view)
    <3>1. view.cursor <= Len(view.rows) /\ view.mode # "other"
      BY <2>1, <2>4
    <3>2. DOMAIN view.rows = {} /\ OnceEach(view.rows)
      BY <2>1, <2>4
    <3> QED BY <2>3, <3>1, <3>2 DEF Tabled
  <2>6. Fresh(view, buffer)
    BY <2>4 DEF Fresh
  <2> QED BY <2>2, <2>4, <2>5, <2>6 DEF Table
<1> QED BY <1>1, <1>2, <1>3, <1>4, <1>5 DEF FeedInv

LEMMA InvFeedNext == FeedInv /\ [FeedNext]_feedVars => FeedInv'
<1> SUFFICES ASSUME FeedInv, [FeedNext]_feedVars PROVE FeedInv'
  OBVIOUS
<1>1. ASSUME NEW e \in Events, Happens(e) PROVE FeedInv'
  BY <1>1, InvHappens
<1>2. ASSUME NEW w \in Namespaces \cup {All}, Lists(w) \/ Breaks(w) \/ Tells(w) PROVE FeedInv'
  BY <1>2, InvLists, InvBreaks, InvTells
<1>3. ASSUME NEW d \in {-1, 1}, MoveSelection(d) PROVE FeedInv'
  BY <1>3, InvMoveSelection
<1>4. ASSUME NEW f \in {All, "errors"}, SetFilter(f) PROVE FeedInv'
  BY <1>4, InvSetFilter
<1>5. ASSUME NEW q \in {Nobody, "typed"}, SetSearch(q) PROVE FeedInv'
  BY <1>5, InvSetSearch
<1>6. CASE Freeze
  BY <1>6, InvFreeze
<1>7. CASE ResetToFollow \/ EnterView \/ ExitView \/ RunEvents
  BY <1>7, InvFollow
<1>8. CASE FilterToSelected
  BY <1>8, InvFilterToSelected
<1>9. CASE ClearScope \/ RunEventsIn(Namespaces)
  BY <1>9, InvRescoped
<1>10. ASSUME NEW n \in Namespaces, ToggleNamespace(n) PROVE FeedInv'
  BY <1>10, InvToggleNamespace
<1>11. CASE UNCHANGED feedVars
  <2>1. UNCHANGED <<happened, clock, scope, watches, strays, buffer, view, chosen>>
    BY <1>11 DEF feedVars
  <2>2. Table'
    BY <2>1 DEF FeedInv, Table
  <2> QED BY <2>1, <2>2, FeedAside DEF FeedInv
<1> QED BY <1>1, <1>2, <1>3, <1>4, <1>5, <1>6, <1>7, <1>8, <1>9, <1>10, <1>11 DEF FeedNext

LEMMA FeedInvHolds == FeedSpec => []FeedInv
<1> QED BY InvFeedInit, InvFeedNext, PTL DEF FeedSpec

(* Each event once, no more of them than the buffer holds, and once a      *)
(* watch has nothing left to hand over, all of its namespace as they last  *)
(* happened, unless the buffer is full (`watch_into`).                     *)
THEOREM FeedKeepsAll == FeedSpec => []FeedIsKept
<1>1. FeedInv => FeedIsKept
  <2> SUFFICES ASSUME FeedInv PROVE FeedIsKept
    OBVIOUS
  <2>1. Len(buffer) <= Capacity /\ \A i, j \in DOMAIN buffer : buffer[i].uid = buffer[j].uid => i = j
    BY DEF FeedInv, Ring, Rings, OnceEach
  <2>2. ASSUME NEW e \in Events \ strays
        PROVE  {i \in DOMAIN buffer : buffer[i].uid = e} # {} => \E w \in DOMAIN watches : Covers(w, e)
    BY DEF FeedInv, Ring, Owned
  <2>3. ASSUME NEW e \in Events \ strays, NEW w \in DOMAIN watches, Covers(w, e), watches[w] = << >>
        PROVE  Settled(e)
    <3>1. << >> \in Seq([uid : Events, time : Nat]) /\ DOMAIN << >> = {}
      OBVIOUS
    <3>2. watches[w] # Nobody
      BY <2>3, <3>1, FeedAssumption
    <3>3. Queue(w, << >>)
      BY <2>3, <3>2 DEF FeedInv, Told
    <3> QED BY <2>3, <3>1, <3>3 DEF Queue, Absent
  <2>4. ASSUME NEW e, Settled(e)
        PROVE  LET held == {i \in DOMAIN buffer : buffer[i].uid = e}
               IN  /\ \A i \in held : buffer[i] = Record(e)
                   /\ (held = {} /\ happened[e] > 0) => Len(buffer) = Capacity
    BY <2>4 DEF Settled, Absent
  <2> QED BY <2>1, <2>2, <2>3, <2>4 DEF FeedIsKept
<1> QED BY <1>1, FeedInvHolds, PTL

(* The cursor stays on the event it was put on while there is one to show, *)
(* and is on the newest otherwise (`refresh_live_snapshot`).               *)
THEOREM CursorStays == FeedSpec => []CursorKeepsItsEvent
<1>1. FeedInv => CursorKeepsItsEvent
  <2> SUFFICES ASSUME FeedInv, view.mode = "events", Matching(view, buffer) # {}
               PROVE  CursorKeepsItsEvent
    BY DEF CursorKeepsItsEvent
  <2>1. chosen = view.anchor /\ Tabled(view)
    BY DEF FeedInv, Table
  <2>2. \A i \in DOMAIN view.rows :
           view.rows[i].uid = chosen => (view.cursor = i \/ view.rows[i] = OtherRow)
    BY <2>1 DEF Tabled
  <2>3. ASSUME ~view.frozen
        PROVE  IF chosen = Nobody
               THEN \A i \in Matching(view, buffer) : buffer[i].time <= view.rows[view.cursor].time
               ELSE \E i \in Matching(view, buffer) :
                      buffer[i].uid = chosen /\ buffer[i] = view.rows[view.cursor]
    <3>1. Fresh(view, buffer)
      BY <2>3 DEF FeedInv, Table
    <3>2. /\ \A k \in DOMAIN view.rows : \E i \in Matching(view, buffer) : buffer[i] = view.rows[k]
          /\ view.cursor \in DOMAIN view.rows
          /\ chosen = Nobody => \A i \in Matching(view, buffer) : buffer[i].time <= view.rows[view.cursor].time
          /\ chosen # Nobody => view.rows[view.cursor].uid = chosen
      BY <2>1, <3>1 DEF Fresh
    <3>3. PICK i \in Matching(view, buffer) : buffer[i] = view.rows[view.cursor]
      BY <3>2
    <3> QED BY <3>2, <3>3
  <2> QED BY <2>2, <2>3 DEF CursorKeepsItsEvent
<1> QED BY <1>1, FeedInvHolds, PTL

-----------------------------------------------------------------------------
(* What crosses a jump.  A thing done along a sequence is a walk: from one  *)
(* state to the next by a function of the element, so that what holds of   *)
(* the empty sequence and of what is appended holds of every sequence.     *)

(* A set of places that has 0, and the next of each that it has. *)
LEMMA EveryPlace ==
  ASSUME NEW n \in Nat, NEW G, 0 \in G, \A i \in 1..n : i - 1 \in G => i \in G
  PROVE  \A i \in 0..n : i \in G
<1> DEFINE Bad == {i \in 0..n : i \notin G}
<1> SUFFICES ASSUME Bad # {} PROVE FALSE
  OBVIOUS
<1>1. PICK k \in Bad : \A m \in Bad : k <= m
  <2> DEFINE I == {0..i : i \in Bad}
  <2>1. I \subseteq FiniteSubsetsOf(Nat) /\ I # {}
    <3>1. \A i \in Bad : 0..i \subseteq Nat /\ IsFiniteSet(0..i)
      BY FS_Interval
    <3> HIDE DEF Bad
    <3> QED BY <3>1 DEF FiniteSubsetsOf
  <2>2. PICK A \in I : \A B \in I : ~(<<B, A>> \in StrictSubsetOrdering(Nat))
    <3> HIDE DEF I
    <3>1. IsWellFoundedOn(StrictSubsetOrdering(Nat), FiniteSubsetsOf(Nat))
      BY FS_StrictSubsetOrderingWellFounded
    <3> QED BY <2>1, <3>1, WFMin
  <2>3. PICK k \in Bad : A = 0..k
    OBVIOUS
  <2>4. ASSUME NEW m \in Bad, ~(k <= m) PROVE FALSE
    <3>1. 0..m \subseteq 0..k /\ 0..m # 0..k /\ 0..k \subseteq Nat /\ 0..m \subseteq Nat
      BY <2>4
    <3>2. 0..m \in I
      OBVIOUS
    <3> HIDE DEF I
    <3>3. <<0..m, A>> \in StrictSubsetOrdering(Nat)
      BY <2>3, <3>1 DEF StrictSubsetOrdering
    <3> QED BY <2>2, <3>2, <3>3
  <2> QED BY <2>4
<1>2. k \in 1..n /\ k - 1 \in 0..n /\ k - 1 \notin Bad
  BY <1>1
<1> QED BY <1>1, <1>2

(* So has a set of sequences the empty one, and what can be appended. *)
LEMMA EverySequence ==
  ASSUME NEW E, NEW G, << >> \in G, \A s \in Seq(E), e \in E : s \in G => Append(s, e) \in G,
         NEW s \in Seq(E)
  PROVE  s \in G
<1> DEFINE H == {i \in 0..Len(s) : SubSeq(s, 1, i) \in G}
<1>0. Len(s) \in Nat
  BY LenProperties
<1>1. 0 \in H
  <2>1. SubSeq(s, 1, 0) = << >>
    BY SubSeqEmpty
  <2>2. SubSeq(s, 1, 0) \in G
    BY <2>1
  <2> QED BY <1>0, <2>2
<1>2. ASSUME NEW i \in 1..Len(s), i - 1 \in H PROVE i \in H
  <2>1. SubSeq(s, 1, i) = SubSeq(s, 1, i - 1) \o <<s[i]>>
    BY <1>0, SubSeqRecursiveSecond
  <2>2. SubSeq(s, 1, i - 1) \in Seq(E) /\ s[i] \in E
    <3>1. \A j \in 1..(i - 1) : s[j] \in E
      BY <1>0, ElementOfSeq
    <3> QED BY <1>0, <3>1, ElementOfSeq, SubSeqProperties
  <2>3. SubSeq(s, 1, i) = Append(SubSeq(s, 1, i - 1), s[i])
    BY <2>1, <2>2, AppendIsConcat
  <2>4. SubSeq(s, 1, i - 1) \in G
    BY <1>2
  <2>5. SubSeq(s, 1, i) \in G
    BY <2>2, <2>3, <2>4
  <2> QED BY <1>0, <2>5
<1>3. Len(s) \in H
  <2> HIDE DEF H
  <2>1. Len(s) \in Nat
    OBVIOUS
  <2>2. \A i \in 0..Len(s) : i \in H
    BY <1>1, <1>2, <2>1, EveryPlace
  <2> QED BY <2>1, <2>2
<1>4. SubSeq(s, 1, Len(s)) = s
  BY SubSeqFull
<1> QED BY <1>3, <1>4

-----------------------------------------------------------------------------
(* From a, op goes along s to b, within S. *)
Walks(f, op, S, a, s) ==
  /\ f \in [0..Len(s) -> S] /\ f[0] = a
  /\ \A i \in 1..Len(s) : f[i] = op[s[i]][f[i - 1]]

LEMMA WalkExists ==
  ASSUME NEW S, NEW E, NEW op \in [E -> [S -> S]], NEW a \in S, NEW s \in Seq(E)
  PROVE  \E f : Walks(f, op, S, a, s)
<1> DEFINE G == {t \in Seq(E) : \E f : Walks(f, op, S, a, t)}
<1>1. << >> \in G
  <2>1. Walks([i \in 0..0 |-> a], op, S, a, << >>)
    BY DEF Walks
  <2> QED BY <2>1
<1>2. ASSUME NEW t \in Seq(E), NEW e \in E, t \in G PROVE Append(t, e) \in G
  <2>1. PICK f : Walks(f, op, S, a, t)
    BY <1>2
  <2>2. PICK n \in Nat : n = Len(t)
    BY LenProperties
  <2>3. PICK u \in Seq(E) : u = Append(t, e) /\ Len(u) = n + 1 /\ u[n + 1] = e
                            /\ \A i \in 1..n : u[i] = t[i]
    <3>1. Append(t, e) \in Seq(E) /\ Len(Append(t, e)) = Len(t) + 1 /\ Append(t, e)[Len(t) + 1] = e
          /\ \A i \in 1..Len(t) : Append(t, e)[i] = t[i]
      BY AppendProperties
    <3> QED BY <2>2, <3>1
  <2> DEFINE g == [i \in 0..(n + 1) |-> IF i = n + 1 THEN op[e][f[n]] ELSE f[i]]
  <2>4. f \in [0..n -> S] /\ f[0] = a /\ \A i \in 1..n : f[i] = op[t[i]][f[i - 1]]
    BY <2>1, <2>2 DEF Walks
  <2>5. op[e][f[n]] \in S
    <3>1. f[n] \in S
      BY <2>4
    <3> QED BY <3>1
  <2>6. g \in [0..(n + 1) -> S] /\ g[0] = a
    BY <2>4, <2>5
  <2>7. ASSUME NEW i \in 1..(n + 1) PROVE g[i] = op[u[i]][g[i - 1]]
    <3>1. CASE i = n + 1
      <4>1. g[i] = op[e][f[n]] /\ g[i - 1] = f[n] /\ u[i] = e
        BY <2>3, <3>1
      <4> QED BY <4>1
    <3>2. CASE i # n + 1
      <4>1. i \in 1..n /\ g[i] = f[i] /\ g[i - 1] = f[i - 1] /\ u[i] = t[i]
        BY <2>3, <3>2
      <4> QED BY <2>4, <4>1
    <3> QED BY <3>1, <3>2
  <2> HIDE DEF g
  <2>8. Walks(g, op, S, a, u)
    BY <2>3, <2>6, <2>7 DEF Walks
  <2> QED BY <2>3, <2>8
<1> QED
  <2>1. s \in G
    <3> HIDE DEF G
    <3> QED BY <1>1, <1>2, EverySequence
  <2> QED BY <2>1

(* There is one walk along a sequence. *)
LEMMA WalkIsOne ==
  ASSUME NEW S, NEW op, NEW a, NEW s, Len(s) \in Nat, NEW f, NEW g,
         Walks(f, op, S, a, s), Walks(g, op, S, a, s)
  PROVE  \A i \in 0..Len(s) : f[i] = g[i]
<1> DEFINE G == {i \in 0..Len(s) : f[i] = g[i]}
<1>1. 0 \in G
  BY DEF Walks
<1>2. \A i \in 1..Len(s) : i - 1 \in G => i \in G
  BY DEF Walks
<1>3. \A i \in 0..Len(s) : i \in G
  <2> HIDE DEF G
  <2> QED BY <1>1, <1>2, EveryPlace
<1> QED BY <1>3

(* How a walk begins, goes on, and is put together. *)
LEMMA WalkOfNone ==
  ASSUME NEW S, NEW op, NEW a, NEW f, Walks(f, op, S, a, << >>)
  PROVE  f[Len(<< >>)] = a
BY DEF Walks

LEMMA WalkOfNext ==
  ASSUME NEW S, NEW E, NEW op, NEW a, NEW s \in Seq(E), NEW e \in E,
         NEW f, Walks(f, op, S, a, s), NEW g, Walks(g, op, S, a, Append(s, e))
  PROVE  g[Len(Append(s, e))] = op[e][f[Len(s)]]
<1>1. PICK n \in Nat : n = Len(s)
  BY LenProperties
<1>2. PICK u \in Seq(E) : u = Append(s, e) /\ Len(u) = n + 1 /\ u[n + 1] = e
                          /\ \A i \in 1..n : u[i] = s[i]
  <2>1. Append(s, e) \in Seq(E) /\ Len(Append(s, e)) = Len(s) + 1 /\ Append(s, e)[Len(s) + 1] = e
        /\ \A i \in 1..Len(s) : Append(s, e)[i] = s[i]
    BY AppendProperties
  <2> QED BY <1>1, <2>1
<1>3. /\ g \in [0..(n + 1) -> S] /\ g[0] = a
      /\ \A i \in 1..(n + 1) : g[i] = op[u[i]][g[i - 1]]
  BY <1>2 DEF Walks
<1> DEFINE h == [i \in 0..n |-> g[i]]
<1>4. Walks(h, op, S, a, s)
  <2>1. h \in [0..n -> S] /\ h[0] = a
    BY <1>3
  <2>2. \A i \in 1..n : h[i] = op[s[i]][h[i - 1]]
    <3> TAKE i \in 1..n
    <3>1. i \in 1..(n + 1) /\ h[i] = g[i] /\ h[i - 1] = g[i - 1] /\ u[i] = s[i]
      BY <1>2
    <3> QED BY <1>3, <3>1
  <2> QED BY <1>1, <2>1, <2>2 DEF Walks
<1>5. h[n] = f[n]
  <2> HIDE DEF h
  <2>1. \A i \in 0..n : h[i] = f[i]
    BY <1>1, <1>4, WalkIsOne
  <2> QED BY <2>1
<1>6. g[n + 1] = op[e][g[n]]
  <2>1. n + 1 \in 1..(n + 1) /\ (n + 1) - 1 = n
    OBVIOUS
  <2> QED BY <1>2, <1>3, <2>1
<1>7. g[n] = f[n]
  BY <1>5
<1> QED BY <1>1, <1>2, <1>6, <1>7

LEMMA WalkOfBoth ==
  ASSUME NEW S, NEW E, NEW op, NEW a, NEW s \in Seq(E), NEW t \in Seq(E),
         NEW f, Walks(f, op, S, a, s), NEW g, Walks(g, op, S, f[Len(s)], t),
         NEW h, Walks(h, op, S, a, s \o t)
  PROVE  h[Len(s \o t)] = g[Len(t)]
<1>1. PICK m \in Nat, n \in Nat : m = Len(s) /\ n = Len(t)
  BY LenProperties
<1>2. PICK u \in Seq(E) : u = s \o t /\ Len(u) = m + n
                          /\ (\A i \in 1..m : u[i] = s[i]) /\ (\A i \in 1..n : u[m + i] = t[i])
  <2>1. \A i \in 1..(m + n) : (s \o t)[i] = IF i <= m THEN s[i] ELSE t[i - m]
    BY <1>1, ConcatProperties
  <2>2. \A i \in 1..m : i \in 1..(m + n) /\ i <= m
    OBVIOUS
  <2>3. \A i \in 1..n : m + i \in 1..(m + n) /\ ~(m + i <= m) /\ (m + i) - m = i
    OBVIOUS
  <2>4. (\A i \in 1..m : (s \o t)[i] = s[i]) /\ (\A i \in 1..n : (s \o t)[m + i] = t[i])
    BY <2>1, <2>2, <2>3
  <2>5. s \o t \in Seq(E) /\ Len(s \o t) = m + n
    BY <1>1, ConcatProperties
  <2> QED BY <2>4, <2>5
<1>3. /\ f \in [0..m -> S] /\ f[0] = a /\ \A i \in 1..m : f[i] = op[s[i]][f[i - 1]]
  BY <1>1 DEF Walks
<1>4. /\ g \in [0..n -> S] /\ g[0] = f[m] /\ \A i \in 1..n : g[i] = op[t[i]][g[i - 1]]
  BY <1>1 DEF Walks
<1> DEFINE k == [i \in 0..(m + n) |-> IF i <= m THEN f[i] ELSE g[i - m]]
<1>5. Walks(k, op, S, a, u)
  <2>1. k \in [0..(m + n) -> S] /\ k[0] = a
    BY <1>3, <1>4
  <2>2. ASSUME NEW i \in 1..(m + n) PROVE k[i] = op[u[i]][k[i - 1]]
    <3>1. CASE i <= m
      <4>1. i \in 1..m /\ k[i] = f[i] /\ k[i - 1] = f[i - 1] /\ u[i] = s[i]
        BY <1>2, <3>1
      <4> QED BY <1>3, <4>1
    <3>2. CASE i = m + 1
      <4>0. /\ 1 \in 1..n /\ i - m = 1 /\ i - 1 = m /\ ~(i <= m) /\ m + 1 = i
            /\ i \in 0..(m + n) /\ m \in 0..(m + n)
        BY <3>2
      <4>1. 1 \in 1..n /\ k[i] = g[1] /\ k[i - 1] = f[m] /\ u[i] = t[1]
        <5>1. k[i] = g[1]
          BY <4>0
        <5>2. k[m] = f[m]
          BY <4>0
        <5>3. u[m + 1] = t[1]
          BY <1>2, <4>0
        <5> QED BY <4>0, <5>1, <5>2, <5>3
      <4>2. g[1] = op[t[1]][g[1 - 1]] /\ 1 - 1 = 0
        BY <1>4, <4>1
      <4> QED BY <1>4, <4>1, <4>2
    <3>3. CASE i > m + 1
      <4>1. PICK j \in 1..n : i = m + j /\ j > 1
        <5>1. i - m \in 1..n /\ i - m > 1 /\ i = m + (i - m)
          BY <3>3
        <5> QED BY <5>1
      <4>2. k[i] = g[j] /\ k[i - 1] = g[j - 1]
        <5>1. i - m = j /\ (i - 1) - m = j - 1 /\ i - 1 \in 0..(m + n) /\ ~(i <= m) /\ ~(i - 1 <= m)
          BY <4>1
        <5> QED BY <5>1
      <4>3. u[i] = t[j]
        BY <1>2, <4>1
      <4> QED BY <1>4, <4>2, <4>3
    <3> QED BY <3>1, <3>2, <3>3
  <2> HIDE DEF k
  <2> QED BY <1>2, <2>1, <2>2 DEF Walks
<1>6. k[m + n] = h[m + n]
  <2> HIDE DEF k
  <2>0. Len(u) \in Nat /\ Walks(h, op, S, a, u)
    BY <1>2
  <2>1. \A i \in 0..Len(u) : k[i] = h[i]
    BY <1>5, <2>0, WalkIsOne
  <2> QED BY <1>2, <2>1
<1>7. k[m + n] = g[n]
  <2>1. CASE n = 0
    BY <1>4, <2>1
  <2>2. CASE n > 0
    BY <2>2
  <2> QED BY <2>1, <2>2
<1> QED BY <1>1, <1>2, <1>6, <1>7

(* Where a walk ends. *)
Ends(op, S, a, s, b) == \E f : Walks(f, op, S, a, s) /\ b = f[Len(s)]

LEMMA EndsNone == ASSUME NEW S, NEW op, NEW a, NEW b, Ends(op, S, a, << >>, b) PROVE b = a
BY DEF Ends, Walks

LEMMA EndsWithin ==
  ASSUME NEW S, NEW E, NEW op, NEW a \in S, NEW s \in Seq(E), NEW b, Ends(op, S, a, s, b)
  PROVE  b \in S
<1>1. Len(s) \in 0..Len(s)
  BY LenProperties
<1> QED BY <1>1 DEF Ends, Walks

LEMMA EndsNext ==
  ASSUME NEW S, NEW E, NEW op, NEW a \in S, NEW s \in Seq(E), NEW b, Ends(op, S, a, s, b),
         NEW e \in E, NEW c, Ends(op, S, a, Append(s, e), c)
  PROVE  c = op[e][b]
<1>1. PICK f : Walks(f, op, S, a, s) /\ b = f[Len(s)]
  BY DEF Ends
<1>2. PICK g : Walks(g, op, S, a, Append(s, e)) /\ c = g[Len(Append(s, e))]
  BY DEF Ends
<1> QED BY <1>1, <1>2, WalkOfNext

LEMMA EndsBoth ==
  ASSUME NEW S, NEW E, NEW op, NEW a \in S, NEW s \in Seq(E), NEW b, Ends(op, S, a, s, b),
         NEW t \in Seq(E), NEW c, Ends(op, S, b, t, c), NEW d, Ends(op, S, a, s \o t, d)
  PROVE  d = c
<1>1. PICK f : Walks(f, op, S, a, s) /\ b = f[Len(s)]
  BY DEF Ends
<1>2. PICK g : Walks(g, op, S, b, t) /\ c = g[Len(t)]
  BY DEF Ends
<1>3. PICK h : Walks(h, op, S, a, s \o t) /\ d = h[Len(s \o t)]
  BY DEF Ends
<1> QED BY <1>1, <1>2, <1>3, WalkOfBoth

-----------------------------------------------------------------------------
Byte == 0..255
Reading == [pending : BOOLEAN, plain : Seq(Byte)]
RelayOf == [c \in Byte |-> [a \in Reading |-> Relayed(a, c)]]

LEMMA RelayedIs == ASSUME NEW a \in Reading, NEW c \in Byte PROVE Relayed(a, c) \in Reading
<1>1. (c + 192) % 256 \in Byte
  BY DEF Byte
<1>2. \A b \in Byte : Append(a.plain, b) \in Seq(Byte)
  BY AppendProperties DEF Reading
<1> QED BY <1>1, <1>2 DEF Relayed, Reading

LEMMA RelayReadEnds ==
  ASSUME NEW a \in Reading, NEW s \in Seq(Byte)
  PROVE  Ends(RelayOf, Reading, a, s, RelayRead(a, s))
<1> DEFINE n == Len(s)
           step(f) == [i \in 0..n |-> IF i = 0 THEN a ELSE Relayed(f[i - 1], s[i])]
           F == CHOOSE f : f = step(f)
<1>1. RelayRead(a, s) = F[n]
  BY DEF RelayRead, Along
<1>2. n \in Nat /\ \A i \in 1..n : s[i] \in Byte
  BY LenProperties, ElementOfSeq
<1>3. RelayOf \in [Byte -> [Reading -> Reading]]
  BY RelayedIs DEF RelayOf
<1>4. PICK f : Walks(f, RelayOf, Reading, a, s)
  BY <1>3, WalkExists
<1>5. /\ f \in [0..n -> Reading] /\ f[0] = a
      /\ \A i \in 1..n : f[i] = Relayed(f[i - 1], s[i])
  <2>1. f \in [0..n -> Reading] /\ f[0] = a
    BY <1>4 DEF Walks
  <2>2. ASSUME NEW i \in 1..n PROVE f[i] = Relayed(f[i - 1], s[i])
    <3>1. f[i] = RelayOf[s[i]][f[i - 1]]
      BY <1>4 DEF Walks
    <3>2. i - 1 \in 0..n
      BY <1>2
    <3>3. f[i - 1] \in Reading /\ s[i] \in Byte
      BY <1>2, <2>1, <3>2
    <3> QED BY <3>1, <3>3 DEF RelayOf
  <2> QED BY <2>1, <2>2
<1>6. \A g : step(g) = [i \in 0..n |-> IF i = 0 THEN a ELSE Relayed(g[i - 1], s[i])]
  OBVIOUS
<1> HIDE DEF n, step
<1>7. f = step(f)
  <2>1. \A i \in 0..n : f[i] = IF i = 0 THEN a ELSE Relayed(f[i - 1], s[i])
    BY <1>2, <1>5
  <2>2. f = [i \in 0..n |-> IF i = 0 THEN a ELSE Relayed(f[i - 1], s[i])]
    BY <1>5, <2>1
  <2> QED BY <1>6, <2>2
<1>8. F = step(F)
  BY <1>7
<1> HIDE DEF F
<1>9. F[0] = a /\ \A i \in 1..n : F[i] = Relayed(F[i - 1], s[i])
  <2>1. \A i \in 0..n : F[i] = IF i = 0 THEN a ELSE Relayed(F[i - 1], s[i])
    BY <1>6, <1>8
  <2> QED BY <1>2, <2>1
<1>10. F[n] = f[n]
  <2> DEFINE G == {i \in 0..n : F[i] = f[i]}
  <2>1. 0 \in G
    BY <1>2, <1>5, <1>9
  <2>2. \A i \in 1..n : i - 1 \in G => i \in G
    BY <1>2, <1>5, <1>9
  <2> HIDE DEF G
  <2>3. \A i \in 0..n : i \in G
    BY <1>2, <2>1, <2>2, EveryPlace
  <2>4. n \in G
    BY <1>2, <2>3
  <2> QED BY <2>4 DEF G
<1> QED BY <1>1, <1>4, <1>10 DEF Ends, n

LEMMA RelayAlong ==
  ASSUME NEW a \in Reading, NEW s \in Seq(Byte)
  PROVE  /\ RelayRead(a, s) \in Reading
         /\ RelayRead(a, << >>) = a
         /\ \A e \in Byte : RelayRead(a, Append(s, e)) = Relayed(RelayRead(a, s), e)
         /\ \A t \in Seq(Byte) : RelayRead(a, s \o t) = RelayRead(RelayRead(a, s), t)
<1> DEFINE b == RelayRead(a, s)
<1>1. Ends(RelayOf, Reading, a, s, b)
  BY RelayReadEnds
<1>2. b \in Reading
  BY <1>1, EndsWithin
<1> HIDE DEF b
<1>3. RelayRead(a, << >>) = a
  <2>1. << >> \in Seq(Byte)
    BY EmptySeq
  <2>2. Ends(RelayOf, Reading, a, << >>, RelayRead(a, << >>))
    BY <2>1, RelayReadEnds
  <2> QED BY <2>2, EndsNone
<1>4. ASSUME NEW e \in Byte PROVE RelayRead(a, Append(s, e)) = Relayed(b, e)
  <2>1. Append(s, e) \in Seq(Byte)
    BY AppendProperties
  <2>2. Ends(RelayOf, Reading, a, Append(s, e), RelayRead(a, Append(s, e)))
    BY <2>1, RelayReadEnds
  <2>3. RelayRead(a, Append(s, e)) = RelayOf[e][b]
    BY <1>1, <2>2, EndsNext
  <2> QED BY <1>2, <2>3 DEF RelayOf
<1>5. ASSUME NEW t \in Seq(Byte) PROVE RelayRead(a, s \o t) = RelayRead(b, t)
  <2>1. s \o t \in Seq(Byte)
    BY ConcatProperties
  <2>2. Ends(RelayOf, Reading, a, s \o t, RelayRead(a, s \o t))
    BY <2>1, RelayReadEnds
  <2>3. Ends(RelayOf, Reading, b, t, RelayRead(b, t))
    BY <1>2, RelayReadEnds
  <2> QED BY <1>1, <2>2, <2>3, EndsBoth
<1> QED BY <1>2, <1>3, <1>4, <1>5 DEF b

EncodeOf == [b \in Byte |-> [out \in Seq(Byte) |-> Encoded(out, b)]]
Encodes(out, data) == Along(Encoded, out, data)

LEMMA EncodedIs == ASSUME NEW out \in Seq(Byte), NEW b \in Byte PROVE Encoded(out, b) \in Seq(Byte)
<1>1. (b + 64) % 256 \in Byte /\ ESC \in Byte
  BY DEF Byte, ESC
<1>2. <<ESC, (b + 64) % 256>> \in Seq(Byte) /\ <<b>> \in Seq(Byte)
  BY <1>1
<1> QED BY <1>2, ConcatProperties DEF Encoded

LEMMA EncodeEnds ==
  ASSUME NEW a \in Seq(Byte), NEW s \in Seq(Byte)
  PROVE  Ends(EncodeOf, Seq(Byte), a, s, Encodes(a, s))
<1> DEFINE n == Len(s)
           step(f) == [i \in 0..n |-> IF i = 0 THEN a ELSE Encoded(f[i - 1], s[i])]
           F == CHOOSE f : f = step(f)
<1>1. Encodes(a, s) = F[n]
  BY DEF Encodes, Along
<1>2. n \in Nat /\ \A i \in 1..n : s[i] \in Byte
  BY LenProperties, ElementOfSeq
<1>3. EncodeOf \in [Byte -> [Seq(Byte) -> Seq(Byte)]]
  BY EncodedIs DEF EncodeOf
<1>4. PICK f : Walks(f, EncodeOf, Seq(Byte), a, s)
  BY <1>3, WalkExists
<1>5. /\ f \in [0..n -> Seq(Byte)] /\ f[0] = a
      /\ \A i \in 1..n : f[i] = Encoded(f[i - 1], s[i])
  <2>1. f \in [0..n -> Seq(Byte)] /\ f[0] = a
    BY <1>4 DEF Walks
  <2>2. ASSUME NEW i \in 1..n PROVE f[i] = Encoded(f[i - 1], s[i])
    <3>1. f[i] = EncodeOf[s[i]][f[i - 1]]
      BY <1>4 DEF Walks
    <3>2. i - 1 \in 0..n
      BY <1>2
    <3>3. f[i - 1] \in Seq(Byte) /\ s[i] \in Byte
      BY <1>2, <2>1, <3>2
    <3> QED BY <3>1, <3>3 DEF EncodeOf
  <2> QED BY <2>1, <2>2
<1>6. \A g : step(g) = [i \in 0..n |-> IF i = 0 THEN a ELSE Encoded(g[i - 1], s[i])]
  OBVIOUS
<1> HIDE DEF n, step
<1>7. f = step(f)
  <2>1. \A i \in 0..n : f[i] = IF i = 0 THEN a ELSE Encoded(f[i - 1], s[i])
    BY <1>2, <1>5
  <2>2. f = [i \in 0..n |-> IF i = 0 THEN a ELSE Encoded(f[i - 1], s[i])]
    BY <1>5, <2>1
  <2> QED BY <1>6, <2>2
<1>8. F = step(F)
  BY <1>7
<1> HIDE DEF F
<1>9. F[0] = a /\ \A i \in 1..n : F[i] = Encoded(F[i - 1], s[i])
  <2>1. \A i \in 0..n : F[i] = IF i = 0 THEN a ELSE Encoded(F[i - 1], s[i])
    BY <1>6, <1>8
  <2> QED BY <1>2, <2>1
<1>10. F[n] = f[n]
  <2> DEFINE G == {i \in 0..n : F[i] = f[i]}
  <2>1. 0 \in G
    BY <1>2, <1>5, <1>9
  <2>2. \A i \in 1..n : i - 1 \in G => i \in G
    BY <1>2, <1>5, <1>9
  <2> HIDE DEF G
  <2>3. \A i \in 0..n : i \in G
    BY <1>2, <2>1, <2>2, EveryPlace
  <2>4. n \in G
    BY <1>2, <2>3
  <2> QED BY <2>4 DEF G
<1> QED BY <1>1, <1>4, <1>10 DEF Ends, n

LEMMA EncodeAlong ==
  ASSUME NEW a \in Seq(Byte), NEW s \in Seq(Byte)
  PROVE  /\ Encodes(a, s) \in Seq(Byte)
         /\ Encodes(a, << >>) = a
         /\ \A e \in Byte : Encodes(a, Append(s, e)) = Encoded(Encodes(a, s), e)
         /\ \A t \in Seq(Byte) : Encodes(a, s \o t) = Encodes(Encodes(a, s), t)
<1> DEFINE b == Encodes(a, s)
<1>1. Ends(EncodeOf, Seq(Byte), a, s, b)
  BY EncodeEnds
<1>2. b \in Seq(Byte)
  BY <1>1, EndsWithin
<1> HIDE DEF b
<1>3. Encodes(a, << >>) = a
  <2>1. << >> \in Seq(Byte)
    BY EmptySeq
  <2>2. Ends(EncodeOf, Seq(Byte), a, << >>, Encodes(a, << >>))
    BY <2>1, EncodeEnds
  <2> QED BY <2>2, EndsNone
<1>4. ASSUME NEW e \in Byte PROVE Encodes(a, Append(s, e)) = Encoded(b, e)
  <2>1. Append(s, e) \in Seq(Byte)
    BY AppendProperties
  <2>2. Ends(EncodeOf, Seq(Byte), a, Append(s, e), Encodes(a, Append(s, e)))
    BY <2>1, EncodeEnds
  <2>3. Encodes(a, Append(s, e)) = EncodeOf[e][b]
    BY <1>1, <2>2, EndsNext
  <2> QED BY <1>2, <2>3 DEF EncodeOf
<1>5. ASSUME NEW t \in Seq(Byte) PROVE Encodes(a, s \o t) = Encodes(b, t)
  <2>1. s \o t \in Seq(Byte)
    BY ConcatProperties
  <2>2. Ends(EncodeOf, Seq(Byte), a, s \o t, Encodes(a, s \o t))
    BY <2>1, EncodeEnds
  <2>3. Ends(EncodeOf, Seq(Byte), b, t, Encodes(b, t))
    BY <1>2, EncodeEnds
  <2> QED BY <1>1, <2>2, <2>3, EndsBoth
<1> QED BY <1>2, <1>3, <1>4, <1>5 DEF b

Escaping == [lineStart : BOOLEAN, out : Seq(Byte)]
EscapeOf(escape) == [b \in Byte |-> [a \in Escaping |-> Escaped(a, b, escape)]]

LEMMA StartsIs ==
  ASSUME NEW a, a.lineStart \in BOOLEAN, NEW b, NEW escape PROVE LineStarts(a, b, escape) \in BOOLEAN
<1>1. CASE escape = {}
  BY <1>1 DEF LineStarts
<1>2. CASE escape # {}
  <2>1. LineStarts(a, b, escape) = (b \in LineEnds)
    BY <1>2 DEF LineStarts
  <2>2. (b \in LineEnds) \in BOOLEAN
    OBVIOUS
  <2> QED BY <2>1, <2>2
<1> QED BY <1>1, <1>2

LEMMA EscapedIs ==
  ASSUME NEW a \in Escaping, NEW b \in Byte, NEW escape PROVE Escaped(a, b, escape) \in Escaping
<1>1. <<b, b>> \in Seq(Byte) /\ <<b>> \in Seq(Byte) /\ a.out \in Seq(Byte)
  BY DEF Escaping
<1>2. a.out \o (IF a.lineStart /\ {b} = escape THEN <<b, b>> ELSE <<b>>) \in Seq(Byte)
  BY <1>1, ConcatProperties
<1>3. LineStarts(a, b, escape) \in BOOLEAN
  BY StartsIs DEF Escaping
<1> QED BY <1>2, <1>3 DEF Escaped, Escaping

LEMMA EscapeEnds ==
  ASSUME NEW a \in Escaping, NEW s \in Seq(Byte), NEW escape
  PROVE  Ends(EscapeOf(escape), Escaping, a, s, EscapeInto(a, s, escape))
<1> DEFINE n == Len(s)
           step(f) == [i \in 0..n |-> IF i = 0 THEN a ELSE Escaped(f[i - 1], s[i], escape)]
           F == CHOOSE f : f = step(f)
<1>1. EscapeInto(a, s, escape) = F[n]
  BY DEF EscapeInto, Along
<1>2. n \in Nat /\ \A i \in 1..n : s[i] \in Byte
  BY LenProperties, ElementOfSeq
<1>3. EscapeOf(escape) \in [Byte -> [Escaping -> Escaping]]
  BY EscapedIs DEF EscapeOf
<1>4. PICK f : Walks(f, EscapeOf(escape), Escaping, a, s)
  BY <1>3, WalkExists
<1>5. /\ f \in [0..n -> Escaping] /\ f[0] = a
      /\ \A i \in 1..n : f[i] = Escaped(f[i - 1], s[i], escape)
  <2>1. f \in [0..n -> Escaping] /\ f[0] = a
    BY <1>4 DEF Walks
  <2>2. ASSUME NEW i \in 1..n PROVE f[i] = Escaped(f[i - 1], s[i], escape)
    <3>1. f[i] = EscapeOf(escape)[s[i]][f[i - 1]]
      BY <1>4 DEF Walks
    <3>2. i - 1 \in 0..n
      BY <1>2
    <3>3. f[i - 1] \in Escaping /\ s[i] \in Byte
      BY <1>2, <2>1, <3>2
    <3> QED BY <3>1, <3>3 DEF EscapeOf
  <2> QED BY <2>1, <2>2
<1>6. \A g : step(g) = [i \in 0..n |-> IF i = 0 THEN a ELSE Escaped(g[i - 1], s[i], escape)]
  OBVIOUS
<1> HIDE DEF n, step
<1>7. f = step(f)
  <2>1. \A i \in 0..n : f[i] = IF i = 0 THEN a ELSE Escaped(f[i - 1], s[i], escape)
    BY <1>2, <1>5
  <2>2. f = [i \in 0..n |-> IF i = 0 THEN a ELSE Escaped(f[i - 1], s[i], escape)]
    BY <1>5, <2>1
  <2> QED BY <1>6, <2>2
<1>8. F = step(F)
  BY <1>7
<1> HIDE DEF F
<1>9. F[0] = a /\ \A i \in 1..n : F[i] = Escaped(F[i - 1], s[i], escape)
  <2>1. \A i \in 0..n : F[i] = IF i = 0 THEN a ELSE Escaped(F[i - 1], s[i], escape)
    BY <1>6, <1>8
  <2> QED BY <1>2, <2>1
<1>10. F[n] = f[n]
  <2> DEFINE G == {i \in 0..n : F[i] = f[i]}
  <2>1. 0 \in G
    BY <1>2, <1>5, <1>9
  <2>2. \A i \in 1..n : i - 1 \in G => i \in G
    BY <1>2, <1>5, <1>9
  <2> HIDE DEF G
  <2>3. \A i \in 0..n : i \in G
    BY <1>2, <2>1, <2>2, EveryPlace
  <2>4. n \in G
    BY <1>2, <2>3
  <2> QED BY <2>4 DEF G
<1> QED BY <1>1, <1>4, <1>10 DEF Ends, n

LEMMA EscapeAlong ==
  ASSUME NEW a \in Escaping, NEW s \in Seq(Byte), NEW escape
  PROVE  /\ EscapeInto(a, s, escape) \in Escaping
         /\ EscapeInto(a, << >>, escape) = a
         /\ \A e \in Byte : EscapeInto(a, Append(s, e), escape) = Escaped(EscapeInto(a, s, escape), e, escape)
         /\ \A t \in Seq(Byte) : EscapeInto(a, s \o t, escape) = EscapeInto(EscapeInto(a, s, escape), t, escape)
<1> DEFINE b == EscapeInto(a, s, escape)
<1>1. Ends(EscapeOf(escape), Escaping, a, s, b)
  BY EscapeEnds
<1>2. b \in Escaping
  BY <1>1, EndsWithin
<1> HIDE DEF b
<1>3. EscapeInto(a, << >>, escape) = a
  <2>1. << >> \in Seq(Byte)
    BY EmptySeq
  <2>2. Ends(EscapeOf(escape), Escaping, a, << >>, EscapeInto(a, << >>, escape))
    BY <2>1, EscapeEnds
  <2> QED BY <2>2, EndsNone
<1>4. ASSUME NEW e \in Byte PROVE EscapeInto(a, Append(s, e), escape) = Escaped(b, e, escape)
  <2>1. Append(s, e) \in Seq(Byte)
    BY AppendProperties
  <2>2. Ends(EscapeOf(escape), Escaping, a, Append(s, e), EscapeInto(a, Append(s, e), escape))
    BY <2>1, EscapeEnds
  <2>3. EscapeInto(a, Append(s, e), escape) = EscapeOf(escape)[e][b]
    BY <1>1, <2>2, EndsNext
  <2> QED BY <1>2, <2>3 DEF EscapeOf
<1>5. ASSUME NEW t \in Seq(Byte) PROVE EscapeInto(a, s \o t, escape) = EscapeInto(b, t, escape)
  <2>1. s \o t \in Seq(Byte)
    BY ConcatProperties
  <2>2. Ends(EscapeOf(escape), Escaping, a, s \o t, EscapeInto(a, s \o t, escape))
    BY <2>1, EscapeEnds
  <2>3. Ends(EscapeOf(escape), Escaping, b, t, EscapeInto(b, t, escape))
    BY <1>2, EscapeEnds
  <2> QED BY <1>1, <2>2, <2>3, EndsBoth
<1> QED BY <1>2, <1>3, <1>4, <1>5 DEF b

Forwarding == [pending : BOOLEAN, lineStart : BOOLEAN, killed : BOOLEAN, plain : Seq(Byte)]
ForwardOf(escape) == [b \in Byte |-> [a \in Forwarding |-> Forward(a, b, escape)]]
Forwards(a, typed, escape) == Along(LAMBDA x, b : Forward(x, b, escape), a, typed)

LEMMA ForwardIs ==
  ASSUME NEW a \in Forwarding, NEW b \in Byte, NEW escape PROVE Forward(a, b, escape) \in Forwarding
<1>1. Append(a.plain, b) \in Seq(Byte)
  BY AppendProperties DEF Forwarding
<1>2. a.lineStart \in BOOLEAN /\ a.killed \in BOOLEAN /\ a.pending \in BOOLEAN /\ a.plain \in Seq(Byte)
  BY DEF Forwarding
<1>3. CASE a.pending
  BY <1>1, <1>2, <1>3 DEF Forward, Forwarding
<1>4. CASE ~a.pending /\ a.lineStart /\ {b} = escape
  BY <1>2, <1>4 DEF Forward, Forwarding
<1>5. CASE ~a.pending /\ ~(a.lineStart /\ {b} = escape)
  <2>1. PICK l \in BOOLEAN : l = LineStarts(a, b, escape)
    BY <1>2, StartsIs
  <2>2. Forward(a, b, escape) = [a EXCEPT !.lineStart = l, !.plain = Append(a.plain, b)]
    BY <1>5, <2>1 DEF Forward
  <2> QED BY <1>1, <2>2 DEF Forwarding
<1> QED BY <1>3, <1>4, <1>5

LEMMA ForwardEnds ==
  ASSUME NEW a \in Forwarding, NEW s \in Seq(Byte), NEW escape
  PROVE  Ends(ForwardOf(escape), Forwarding, a, s, Forwards(a, s, escape))
<1> DEFINE n == Len(s)
           step(f) == [i \in 0..n |-> IF i = 0 THEN a ELSE Forward(f[i - 1], s[i], escape)]
           F == CHOOSE f : f = step(f)
<1>1. Forwards(a, s, escape) = F[n]
  BY DEF Forwards, Along
<1>2. n \in Nat /\ \A i \in 1..n : s[i] \in Byte
  BY LenProperties, ElementOfSeq
<1>3. ForwardOf(escape) \in [Byte -> [Forwarding -> Forwarding]]
  BY ForwardIs DEF ForwardOf
<1>4. PICK f : Walks(f, ForwardOf(escape), Forwarding, a, s)
  BY <1>3, WalkExists
<1>5. /\ f \in [0..n -> Forwarding] /\ f[0] = a
      /\ \A i \in 1..n : f[i] = Forward(f[i - 1], s[i], escape)
  <2>1. f \in [0..n -> Forwarding] /\ f[0] = a
    BY <1>4 DEF Walks
  <2>2. ASSUME NEW i \in 1..n PROVE f[i] = Forward(f[i - 1], s[i], escape)
    <3>1. f[i] = ForwardOf(escape)[s[i]][f[i - 1]]
      BY <1>4 DEF Walks
    <3>2. i - 1 \in 0..n
      BY <1>2
    <3>3. f[i - 1] \in Forwarding /\ s[i] \in Byte
      BY <1>2, <2>1, <3>2
    <3> QED BY <3>1, <3>3 DEF ForwardOf
  <2> QED BY <2>1, <2>2
<1>6. \A g : step(g) = [i \in 0..n |-> IF i = 0 THEN a ELSE Forward(g[i - 1], s[i], escape)]
  OBVIOUS
<1> HIDE DEF n, step
<1>7. f = step(f)
  <2>1. \A i \in 0..n : f[i] = IF i = 0 THEN a ELSE Forward(f[i - 1], s[i], escape)
    BY <1>2, <1>5
  <2>2. f = [i \in 0..n |-> IF i = 0 THEN a ELSE Forward(f[i - 1], s[i], escape)]
    BY <1>5, <2>1
  <2> QED BY <1>6, <2>2
<1>8. F = step(F)
  BY <1>7
<1> HIDE DEF F
<1>9. F[0] = a /\ \A i \in 1..n : F[i] = Forward(F[i - 1], s[i], escape)
  <2>1. \A i \in 0..n : F[i] = IF i = 0 THEN a ELSE Forward(F[i - 1], s[i], escape)
    BY <1>6, <1>8
  <2> QED BY <1>2, <2>1
<1>10. F[n] = f[n]
  <2> DEFINE G == {i \in 0..n : F[i] = f[i]}
  <2>1. 0 \in G
    BY <1>2, <1>5, <1>9
  <2>2. \A i \in 1..n : i - 1 \in G => i \in G
    BY <1>2, <1>5, <1>9
  <2> HIDE DEF G
  <2>3. \A i \in 0..n : i \in G
    BY <1>2, <2>1, <2>2, EveryPlace
  <2>4. n \in G
    BY <1>2, <2>3
  <2> QED BY <2>4 DEF G
<1> QED BY <1>1, <1>4, <1>10 DEF Ends, n

LEMMA ForwardAlong ==
  ASSUME NEW a \in Forwarding, NEW s \in Seq(Byte), NEW escape
  PROVE  /\ Forwards(a, s, escape) \in Forwarding
         /\ Forwards(a, << >>, escape) = a
         /\ \A e \in Byte : Forwards(a, Append(s, e), escape) = Forward(Forwards(a, s, escape), e, escape)
         /\ \A t \in Seq(Byte) : Forwards(a, s \o t, escape) = Forwards(Forwards(a, s, escape), t, escape)
<1> DEFINE b == Forwards(a, s, escape)
<1>1. Ends(ForwardOf(escape), Forwarding, a, s, b)
  BY ForwardEnds
<1>2. b \in Forwarding
  BY <1>1, EndsWithin
<1> HIDE DEF b
<1>3. Forwards(a, << >>, escape) = a
  <2>1. << >> \in Seq(Byte)
    BY EmptySeq
  <2>2. Ends(ForwardOf(escape), Forwarding, a, << >>, Forwards(a, << >>, escape))
    BY <2>1, ForwardEnds
  <2> QED BY <2>2, EndsNone
<1>4. ASSUME NEW e \in Byte PROVE Forwards(a, Append(s, e), escape) = Forward(b, e, escape)
  <2>1. Append(s, e) \in Seq(Byte)
    BY AppendProperties
  <2>2. Ends(ForwardOf(escape), Forwarding, a, Append(s, e), Forwards(a, Append(s, e), escape))
    BY <2>1, ForwardEnds
  <2>3. Forwards(a, Append(s, e), escape) = ForwardOf(escape)[e][b]
    BY <1>1, <2>2, EndsNext
  <2> QED BY <1>2, <2>3 DEF ForwardOf
<1>5. ASSUME NEW t \in Seq(Byte) PROVE Forwards(a, s \o t, escape) = Forwards(b, t, escape)
  <2>1. s \o t \in Seq(Byte)
    BY ConcatProperties
  <2>2. Ends(ForwardOf(escape), Forwarding, a, s \o t, Forwards(a, s \o t, escape))
    BY <2>1, ForwardEnds
  <2>3. Ends(ForwardOf(escape), Forwarding, b, t, Forwards(b, t, escape))
    BY <1>2, ForwardEnds
  <2> QED BY <1>1, <2>2, <2>3, EndsBoth
<1> QED BY <1>2, <1>3, <1>4, <1>5 DEF b

-----------------------------------------------------------------------------
(* What is encoded for one read, decoded after another.                    *)
LEMMA OneOrTwo ==
  ASSUME NEW b \in Byte, NEW c \in Byte
  PROVE  /\ <<b>> \in Seq(Byte) /\ <<b, c>> \in Seq(Byte) /\ << >> \in Seq(Byte)
         /\ <<b>> = Append(<< >>, b) /\ <<b, c>> = Append(<<b>>, c)
  OBVIOUS

LEMMA ReadOne ==
  ASSUME NEW a \in Reading, NEW b \in Byte
  PROVE  /\ RelayRead(a, << >>) = a /\ RelayRead(a, <<b>>) = Relayed(a, b)
         /\ \A c \in Byte : RelayRead(a, <<b, c>>) = Relayed(Relayed(a, b), c)
<1>1. PICK none \in Seq(Byte) : none = << >>
  BY EmptySeq
<1>2. RelayRead(a, none) = a /\ RelayRead(a, Append(none, b)) = Relayed(RelayRead(a, none), b)
  BY <1>1, RelayAlong
<1>3. RelayRead(a, <<b>>) = Relayed(a, b)
  BY <1>1, <1>2, OneOrTwo
<1>4. ASSUME NEW c \in Byte PROVE RelayRead(a, <<b, c>>) = Relayed(Relayed(a, b), c)
  <2>1. PICK one \in Seq(Byte) : one = <<b>>
    BY OneOrTwo
  <2>2. RelayRead(a, Append(one, c)) = Relayed(RelayRead(a, one), c)
    BY RelayAlong
  <2> QED BY <1>3, <2>1, <2>2, OneOrTwo
<1> QED BY <1>1, <1>2, <1>3, <1>4

LEMMA EncodedAlone ==
  ASSUME NEW b \in Byte
  PROVE  \E w \in Seq(Byte) :
            /\ \A out \in Seq(Byte) : Encoded(out, b) = out \o w
            /\ \A i \in DOMAIN w : w[i] = ESC \/ ~Announced(w[i])
            /\ \A q \in Seq(Byte) :
                 RelayRead([pending |-> FALSE, plain |-> q], w) = [pending |-> FALSE, plain |-> Append(q, b)]
<1>1. ASSUME NEW q \in Seq(Byte) PROVE [pending |-> FALSE, plain |-> q] \in Reading
                                      /\ [pending |-> TRUE, plain |-> q] \in Reading
  BY DEF Reading
<1>2. CASE Announced(b)
  <2>1. PICK c \in Byte : c = (b + 64) % 256
    BY DEF Byte
  <2>2. (c + 192) % 256 = b
    BY <2>1 DEF Byte
  <2>3. ESC \in Byte
    BY DEF Byte, ESC
  <2>4. ~Announced(c)
    BY <1>2, <2>1 DEF Announced, Byte, ESC, Tilde
  <2>5. \A out \in Seq(Byte) : Encoded(out, b) = out \o <<ESC, c>>
    BY <1>2, <2>1 DEF Encoded
  <2>6. \A i \in DOMAIN <<ESC, c>> : <<ESC, c>>[i] = ESC \/ ~Announced(<<ESC, c>>[i])
    BY <2>4
  <2>7. ASSUME NEW q \in Seq(Byte)
        PROVE  RelayRead([pending |-> FALSE, plain |-> q], <<ESC, c>>) = [pending |-> FALSE, plain |-> Append(q, b)]
    <3>1. RelayRead([pending |-> FALSE, plain |-> q], <<ESC, c>>) =
            Relayed(Relayed([pending |-> FALSE, plain |-> q], ESC), c)
      <4>1. PICK a \in Reading : a = [pending |-> FALSE, plain |-> q]
        BY <1>1
      <4>2. \A y \in Byte : RelayRead(a, <<ESC, y>>) = Relayed(Relayed(a, ESC), y)
        BY <2>3, ReadOne
      <4> QED BY <4>1, <4>2
    <3>2. Relayed([pending |-> FALSE, plain |-> q], ESC) = [pending |-> TRUE, plain |-> q]
      BY DEF Relayed
    <3>3. Relayed([pending |-> TRUE, plain |-> q], c) = [pending |-> FALSE, plain |-> Append(q, b)]
      BY <2>2 DEF Relayed
    <3> QED BY <3>1, <3>2, <3>3
  <2> QED BY <2>1, <2>3, <2>5, <2>6, <2>7, OneOrTwo
<1>3. CASE ~Announced(b)
  <2>1. b # ESC
    BY <1>3 DEF Announced
  <2>2. \A out \in Seq(Byte) : Encoded(out, b) = out \o <<b>>
    BY <1>3 DEF Encoded
  <2>3. \A i \in DOMAIN <<b>> : <<b>>[i] = ESC \/ ~Announced(<<b>>[i])
    BY <1>3
  <2>4. ASSUME NEW q \in Seq(Byte)
        PROVE  RelayRead([pending |-> FALSE, plain |-> q], <<b>>) = [pending |-> FALSE, plain |-> Append(q, b)]
    <3>1. RelayRead([pending |-> FALSE, plain |-> q], <<b>>) = Relayed([pending |-> FALSE, plain |-> q], b)
      BY <1>1, ReadOne
    <3> QED BY <2>1, <3>1 DEF Relayed
  <2> QED BY <2>2, <2>3, <2>4, OneOrTwo
<1> QED BY <1>2, <1>3

LEMMA EncodedAll ==
  ASSUME NEW d \in Seq(Byte)
  PROVE  /\ EncodeInto(d) \in Seq(Byte) /\ EncodeInto(<< >>) = << >>
         /\ \A e \in Byte : EncodeInto(Append(d, e)) = Encoded(EncodeInto(d), e)
<1>1. \A s : EncodeInto(s) = Encodes(<< >>, s)
  BY DEF EncodeInto, Encodes
<1>2. << >> \in Seq(Byte)
  BY EmptySeq
<1>3. Encodes(<< >>, d) \in Seq(Byte) /\ Encodes(<< >>, << >>) = << >>
      /\ \A e \in Byte : Encodes(<< >>, Append(d, e)) = Encoded(Encodes(<< >>, d), e)
  <2>1. PICK none \in Seq(Byte) : none = << >>
    BY <1>2
  <2>2. Encodes(none, d) \in Seq(Byte) /\ Encodes(none, << >>) = none
        /\ \A e \in Byte : Encodes(none, Append(d, e)) = Encoded(Encodes(none, d), e)
    BY EncodeAlong
  <2> QED BY <2>1, <2>2
<1> QED BY <1>1, <1>3

LEMMA EncodedComesBack ==
  ASSUME NEW p \in Seq(Byte), NEW d \in Seq(Byte)
  PROVE  RelayRead([pending |-> FALSE, plain |-> p], EncodeInto(d)) = [pending |-> FALSE, plain |-> p \o d]
<1> DEFINE from == [pending |-> FALSE, plain |-> p]
           G == {s \in Seq(Byte) : RelayRead(from, EncodeInto(s)) = [pending |-> FALSE, plain |-> p \o s]}
<1>1. from \in Reading
  BY DEF Reading
<1>2. << >> \in G
  <2>1. << >> \in Seq(Byte) /\ p \o << >> = p
    BY EmptySeq, ConcatEmptySeq
  <2>2. RelayRead(from, EncodeInto(<< >>)) = from
    BY <1>1, <2>1, EncodedAll, RelayAlong
  <2> QED BY <2>1, <2>2
<1>3. ASSUME NEW s \in Seq(Byte), NEW e \in Byte, s \in G PROVE Append(s, e) \in G
  <2>1. PICK w \in Seq(Byte) :
            /\ \A out \in Seq(Byte) : Encoded(out, e) = out \o w
            /\ \A q \in Seq(Byte) :
                 RelayRead([pending |-> FALSE, plain |-> q], w) = [pending |-> FALSE, plain |-> Append(q, e)]
    BY EncodedAlone
  <2>2. EncodeInto(s) \in Seq(Byte) /\ EncodeInto(Append(s, e)) = EncodeInto(s) \o w
    BY <2>1, EncodedAll
  <2>3. RelayRead(from, EncodeInto(s) \o w) = RelayRead(RelayRead(from, EncodeInto(s)), w)
    BY <1>1, <2>2, RelayAlong
  <2>4. p \o s \in Seq(Byte) /\ Append(s, e) \in Seq(Byte)
    BY AppendProperties, ConcatProperties
  <2>5. p \o Append(s, e) = Append(p \o s, e)
    <3>1. Append(s, e) = s \o <<e>> /\ Append(p \o s, e) = (p \o s) \o <<e>>
      BY <2>4, AppendIsConcat
    <3>2. <<e>> \in Seq(Byte)
      BY OneOrTwo
    <3> QED BY <3>1, <3>2, ConcatAssociative
  <2>6. RelayRead(from, EncodeInto(s)) = [pending |-> FALSE, plain |-> p \o s]
    BY <1>3
  <2>7. RelayRead(from, EncodeInto(Append(s, e))) = [pending |-> FALSE, plain |-> p \o Append(s, e)]
    BY <2>1, <2>2, <2>3, <2>4, <2>5, <2>6
  <2> QED BY <2>4, <2>7
<1>4. d \in G
  <2> HIDE DEF G
  <2> QED BY <1>2, <1>3, EverySequence
<1> QED BY <1>4

LEMMA OnlyAnnounced ==
  ASSUME NEW d \in Seq(Byte)
  PROVE  \A i \in DOMAIN EncodeInto(d) : EncodeInto(d)[i] = ESC \/ ~Announced(EncodeInto(d)[i])
<1> DEFINE Clean(t) == \A i \in 1..Len(t) : t[i] = ESC \/ ~Announced(t[i])
           G == {s \in Seq(Byte) : Clean(EncodeInto(s))}
<1>1. << >> \in G
  <2>1. << >> \in Seq(Byte) /\ Len(<< >>) = 0
    BY EmptySeq
  <2>2. EncodeInto(<< >>) = << >>
    BY <2>1, EncodedAll
  <2>3. Clean(<< >>)
    BY <2>1
  <2> QED BY <2>1, <2>2, <2>3
<1>2. ASSUME NEW s \in Seq(Byte), NEW e \in Byte, s \in G PROVE Append(s, e) \in G
  <2>1. PICK w \in Seq(Byte) : /\ \A out \in Seq(Byte) : Encoded(out, e) = out \o w
                               /\ \A i \in DOMAIN w : w[i] = ESC \/ ~Announced(w[i])
    BY EncodedAlone
  <2>2. EncodeInto(s) \in Seq(Byte) /\ EncodeInto(Append(s, e)) = EncodeInto(s) \o w
    BY <2>1, EncodedAll
  <2>3. PICK t \in Seq(Byte), m \in Nat, n \in Nat : t = EncodeInto(s) /\ m = Len(t) /\ n = Len(w)
    BY <2>2, LenProperties
  <2>4. Len(t \o w) = m + n /\ \A i \in 1..(m + n) : (t \o w)[i] = IF i <= m THEN t[i] ELSE w[i - m]
    BY <2>3, ConcatProperties
  <2>5. \A i \in 1..n : w[i] = ESC \/ ~Announced(w[i])
    BY <2>1, <2>3, LenProperties
  <2>6. \A i \in 1..m : t[i] = ESC \/ ~Announced(t[i])
    BY <1>2, <2>3
  <2>7. ASSUME NEW i \in 1..(m + n) PROVE (t \o w)[i] = ESC \/ ~Announced((t \o w)[i])
    <3>1. CASE i <= m
      BY <2>4, <2>6, <3>1
    <3>2. CASE ~(i <= m)
      <4>1. i - m \in 1..n /\ (t \o w)[i] = w[i - m]
        BY <2>4, <3>2
      <4> QED BY <2>5, <4>1
    <3> QED BY <3>1, <3>2
  <2>8. Clean(EncodeInto(Append(s, e)))
    BY <2>2, <2>3, <2>4, <2>7
  <2> QED BY <2>8, AppendProperties
<1>3. d \in G
  <2> HIDE DEF G
  <2> QED BY <1>1, <1>2, EverySequence
<1>4. DOMAIN EncodeInto(d) = 1..Len(EncodeInto(d))
  BY EncodedAll, LenProperties
<1> QED BY <1>3, <1>4

-----------------------------------------------------------------------------
(* What is typed to ssh, and what ssh makes of it.                         *)
LEMMA TypeOne ==
  ASSUME NEW a \in Forwarding, NEW b \in Byte, NEW escape
  PROVE  /\ Forwards(a, << >>, escape) = a /\ Forwards(a, <<b>>, escape) = Forward(a, b, escape)
         /\ Forwards(a, <<b, b>>, escape) = Forward(Forward(a, b, escape), b, escape)
<1>1. PICK none \in Seq(Byte) : none = << >>
  BY EmptySeq
<1>2. Forwards(a, none, escape) = a
      /\ Forwards(a, Append(none, b), escape) = Forward(Forwards(a, none, escape), b, escape)
  <2>1. Forwards(a, << >>, escape) = a
    BY <1>1, ForwardAlong
  <2>2. \A e \in Byte : Forwards(a, Append(none, e), escape) = Forward(Forwards(a, none, escape), e, escape)
    BY ForwardAlong
  <2> QED BY <1>1, <2>1, <2>2
<1>3. Forwards(a, <<b>>, escape) = Forward(a, b, escape)
  BY <1>1, <1>2, OneOrTwo
<1>4. Forwards(a, <<b, b>>, escape) = Forward(Forward(a, b, escape), b, escape)
  <2>1. PICK one \in Seq(Byte) : one = <<b>>
    BY OneOrTwo
  <2>2. Forwards(a, Append(one, b), escape) = Forward(Forwards(a, one, escape), b, escape)
    BY ForwardAlong
  <2> QED BY <1>3, <2>1, <2>2, OneOrTwo
<1> QED BY <1>1, <1>2, <1>3, <1>4

(* ssh at a plain byte of a line, or at its start.                         *)
Plainly(l, p) == [pending |-> FALSE, lineStart |-> l, killed |-> FALSE, plain |-> p]

LEMMA ForwardedAlone ==
  ASSUME NEW escape \in {{}} \cup {{e} : e \in Byte \ LineEnds},
         NEW x \in Escaping, NEW p \in Seq(Byte), NEW b \in Byte
  PROVE  \E w \in Seq(Byte) :
            /\ Escaped(x, b, escape).out = x.out \o w
            /\ Forwards(Plainly(x.lineStart, p), w, escape)
                 = Plainly(Escaped(x, b, escape).lineStart, Append(p, b))
<1>1. PICK l \in BOOLEAN : l = x.lineStart
  BY DEF Escaping
<1>2. PICK a \in Forwarding : a = Plainly(l, p)
  BY DEF Plainly, Forwarding
<1>3. CASE l /\ {b} = escape
  <2>0. b \notin LineEnds
    <3>1. PICK e \in Byte \ LineEnds : escape = {e}
      BY <1>3
    <3> QED BY <1>3, <3>1
  <2>1. LineStarts(x, b, escape) = FALSE
    <3>1. (b \in LineEnds) = FALSE
      BY <2>0
    <3>2. escape # {}
      BY <1>3
    <3> QED BY <3>1, <3>2 DEF LineStarts
  <2>2. Escaped(x, b, escape) = [lineStart |-> FALSE, out |-> x.out \o <<b, b>>]
    BY <1>1, <1>3, <2>1 DEF Escaped
  <2>3. Forward(a, b, escape) = [pending |-> TRUE, lineStart |-> l, killed |-> FALSE, plain |-> p]
    BY <1>2, <1>3 DEF Forward, Plainly
  <2>4. Forward(Forward(a, b, escape), b, escape) = Plainly(FALSE, Append(p, b))
    BY <1>3, <2>3 DEF Forward, Plainly
  <2>5. Forwards(a, <<b, b>>, escape) = Plainly(FALSE, Append(p, b))
    BY <2>4, TypeOne
  <2>6. PICK w \in Seq(Byte) : w = <<b, b>>
    BY OneOrTwo
  <2>7. Escaped(x, b, escape).out = x.out \o w /\ Escaped(x, b, escape).lineStart = FALSE
    BY <2>2, <2>6
  <2>8. Forwards(Plainly(x.lineStart, p), w, escape) = Plainly(Escaped(x, b, escape).lineStart, Append(p, b))
    BY <1>1, <1>2, <2>5, <2>6, <2>7
  <2> QED BY <2>7, <2>8
<1>4. CASE ~(l /\ {b} = escape)
  <2>1. Escaped(x, b, escape).out = x.out \o <<b>>
    BY <1>1, <1>4 DEF Escaped
  <2>2. Forward(a, b, escape) = Plainly(Escaped(x, b, escape).lineStart, Append(p, b))
    <3>1. a.lineStart = x.lineStart /\ ~a.pending /\ ~a.killed /\ a.plain = p
      BY <1>1, <1>2 DEF Plainly
    <3>2. PICK m \in BOOLEAN : m = LineStarts(x, b, escape) /\ m = LineStarts(a, b, escape)
      <4>1. LineStarts(x, b, escape) = LineStarts(a, b, escape)
        BY <3>1 DEF LineStarts
      <4>2. a.lineStart \in BOOLEAN
        BY <1>1, <1>2 DEF Plainly
      <4>3. LineStarts(a, b, escape) \in BOOLEAN
        BY <4>2, StartsIs
      <4> QED BY <4>1, <4>3
    <3>3. Escaped(x, b, escape).lineStart = m
      BY <3>2 DEF Escaped
    <3>4. CASE m = TRUE
      <4>1. Escaped(x, b, escape).lineStart = TRUE /\ LineStarts(a, b, escape) = TRUE
        BY <3>2, <3>3, <3>4
      <4> QED BY <1>2, <1>4, <4>1 DEF Forward, Plainly
    <3>5. CASE m = FALSE
      <4>1. Escaped(x, b, escape).lineStart = FALSE /\ LineStarts(a, b, escape) = FALSE
        BY <3>2, <3>3, <3>5
      <4> QED BY <1>2, <1>4, <4>1 DEF Forward, Plainly
    <3> QED BY <3>4, <3>5
  <2>3. Forwards(a, <<b>>, escape) = Plainly(Escaped(x, b, escape).lineStart, Append(p, b))
    BY <2>2, TypeOne
  <2>4. PICK w \in Seq(Byte) : w = <<b>>
    BY OneOrTwo
  <2>5. Forwards(Plainly(x.lineStart, p), w, escape) = Plainly(Escaped(x, b, escape).lineStart, Append(p, b))
    BY <1>1, <1>2, <2>3, <2>4
  <2> QED BY <2>1, <2>4, <2>5
<1> QED BY <1>3, <1>4

AtFirst == [lineStart |-> TRUE, out |-> << >>]

LEMMA ForwardedComesThrough ==
  ASSUME NEW escape \in {{}} \cup {{e} : e \in Byte \ LineEnds}, NEW d \in Seq(Byte)
  PROVE  LET x == EscapeInto(AtFirst, d, escape)
         IN  Forwards(Plainly(TRUE, << >>), x.out, escape) = Plainly(x.lineStart, d)
<1> DEFINE X(s) == EscapeInto(AtFirst, s, escape)
           from == Plainly(TRUE, << >>)
           G == {s \in Seq(Byte) : Forwards(from, X(s).out, escape) = Plainly(X(s).lineStart, s)}
<1>1. AtFirst \in Escaping /\ from \in Forwarding
  BY EmptySeq DEF AtFirst, Escaping, Plainly, Forwarding
<1>2. << >> \in G
  <2>1. << >> \in Seq(Byte)
    BY EmptySeq
  <2>2. X(<< >>) = AtFirst
    BY <1>1, <2>1, EscapeAlong
  <2>3. 0 \in Byte
    BY DEF Byte
  <2>4. Forwards(from, << >>, escape) = from
    <3> HIDE DEF from
    <3> QED BY <1>1, <2>3, TypeOne
  <2>5. X(<< >>).out = << >> /\ X(<< >>).lineStart = TRUE
    BY <2>2 DEF AtFirst
  <2> HIDE DEF X
  <2> QED BY <2>1, <2>4, <2>5
<1>3. ASSUME NEW s \in Seq(Byte), NEW b \in Byte, s \in G PROVE Append(s, b) \in G
  <2>1. X(s) \in Escaping /\ X(Append(s, b)) = Escaped(X(s), b, escape)
    BY <1>1, EscapeAlong
  <2>2. PICK x \in Escaping : x = X(s)
    BY <2>1
  <2>3. PICK w \in Seq(Byte) :
            /\ Escaped(x, b, escape).out = x.out \o w
            /\ Forwards(Plainly(x.lineStart, s), w, escape)
                 = Plainly(Escaped(x, b, escape).lineStart, Append(s, b))
    BY ForwardedAlone
  <2>4. x.out \in Seq(Byte)
    BY DEF Escaping
  <2>5. Forwards(from, x.out \o w, escape) = Forwards(Forwards(from, x.out, escape), w, escape)
    <3> HIDE DEF from
    <3> QED BY <1>1, <2>3, <2>4, ForwardAlong
  <2>6. Forwards(from, x.out, escape) = Plainly(x.lineStart, s)
    BY <1>3, <2>2
  <2>7. Forwards(from, X(Append(s, b)).out, escape) = Plainly(X(Append(s, b)).lineStart, Append(s, b))
    BY <2>1, <2>2, <2>3, <2>5, <2>6
  <2> QED BY <2>7, AppendProperties
<1>4. d \in G
  <2> HIDE DEF G
  <2> QED BY <1>2, <1>3, EverySequence
<1> QED BY <1>4

-----------------------------------------------------------------------------
(* The two reads put together.                                             *)
LEMMA CutAndJoined ==
  ASSUME NEW s \in Seq(Byte), NEW n \in 0..Len(s)
  PROVE  SubSeq(s, 1, n) \o SubSeq(s, n + 1, Len(s)) = s
<1>1. PICK m \in Nat : m = Len(s)
  BY LenProperties
<1>2. 1 \in 1..(m + 1) /\ n \in (1 - 1)..m /\ m \in n..m
  BY <1>1
<1>3. SubSeq(s, 1, n) \o SubSeq(s, n + 1, m) = SubSeq(s, 1, m)
  BY <1>1, <1>2, ConcatAdjacentSubSeq
<1> QED BY <1>1, <1>3, SubSeqFull

LEMMA TwoReads ==
  ASSUME NEW case, GoodBytes(case)
  PROVE  \E first \in Seq(Byte), second \in Seq(Byte) :
            /\ first \o second = case.data
            /\ TypedFor(case).encoded = EncodeInto(first) \o EncodeInto(second)
            /\ TypedFor(case).escaped =
                 EscapeInto(EscapeInto(AtFirst, first, case.escape), second, case.escape).out
<1>1. PICK d \in Seq(Byte), n \in Nat : d = case.data /\ n = Len(d)
  BY LenProperties DEF GoodBytes, Byte
<1>2. PICK cut \in 0..n : cut = IF case.cut < Len(case.data) THEN case.cut ELSE Len(case.data)
  BY <1>1 DEF GoodBytes
<1>3. SubSeq(d, 1, cut) \in Seq(Byte) /\ SubSeq(d, cut + 1, n) \in Seq(Byte)
  <2>1. \A i \in 1..cut : d[i] \in Byte
    BY <1>1, ElementOfSeq
  <2>2. \A i \in (cut + 1)..n : d[i] \in Byte
    BY <1>1, ElementOfSeq
  <2> QED BY <2>1, <2>2, SubSeqProperties
<1>4. SubSeq(d, 1, cut) \o SubSeq(d, cut + 1, n) = d
  BY <1>1, CutAndJoined
<1> QED BY <1>1, <1>2, <1>3, <1>4 DEF TypedFor, AtFirst

LEMMA BytesTold ==
  ASSUME Judged("bytes"), GoodBytes(cluster), reasons = TypedFor(cluster)
  PROVE  RelayIsFaithful
<1>1. PICK first \in Seq(Byte), second \in Seq(Byte) :
            /\ first \o second = cluster.data
            /\ reasons.encoded = EncodeInto(first) \o EncodeInto(second)
            /\ reasons.escaped =
                 EscapeInto(EscapeInto(AtFirst, first, cluster.escape), second, cluster.escape).out
  BY TwoReads
<1>2. PICK t \in Seq(Byte), u \in Seq(Byte) : t = EncodeInto(first) /\ u = EncodeInto(second)
  BY EncodedAll
<1>3. PICK typed \in Seq(Byte) : typed = reasons.encoded /\ typed = t \o u
  BY <1>1, <1>2, ConcatProperties
<1>4. RelayRead(Nothing, typed) = [pending |-> FALSE, plain |-> cluster.data]
  <2>1. Nothing \in Reading /\ << >> \in Seq(Byte) /\ << >> \o first = first
    BY EmptySeq, ConcatEmptySeq DEF Nothing, Reading
  <2>2. RelayRead(Nothing, t) = [pending |-> FALSE, plain |-> first]
    BY <1>2, <2>1, EncodedComesBack DEF Nothing
  <2>3. RelayRead([pending |-> FALSE, plain |-> first], u) = [pending |-> FALSE, plain |-> first \o second]
    BY <1>2, EncodedComesBack
  <2>4. RelayRead(Nothing, t \o u) = RelayRead(RelayRead(Nothing, t), u)
    BY <2>1, RelayAlong
  <2> QED BY <1>1, <1>3, <2>2, <2>3, <2>4
<1>5. ASSUME NEW n \in 0..Len(typed)
      PROVE  RelayRead(RelayRead(Nothing, SubSeq(typed, 1, n)), SubSeq(typed, n + 1, Len(typed)))
               = [pending |-> FALSE, plain |-> cluster.data]
  <2>1. PICK m \in Nat : m = Len(typed)
    BY LenProperties
  <2>2. SubSeq(typed, 1, n) \in Seq(Byte) /\ SubSeq(typed, n + 1, m) \in Seq(Byte)
    <3>1. \A i \in 1..n : typed[i] \in Byte
      BY <2>1, ElementOfSeq
    <3>2. \A i \in (n + 1)..m : typed[i] \in Byte
      BY <2>1, ElementOfSeq
    <3> QED BY <2>1, <3>1, <3>2, SubSeqProperties
  <2>3. SubSeq(typed, 1, n) \o SubSeq(typed, n + 1, m) = typed
    BY <2>1, CutAndJoined
  <2>4. Nothing \in Reading
    BY EmptySeq DEF Nothing, Reading
  <2>5. RelayRead(Nothing, SubSeq(typed, 1, n) \o SubSeq(typed, n + 1, m)) =
          RelayRead(RelayRead(Nothing, SubSeq(typed, 1, n)), SubSeq(typed, n + 1, m))
    <3>1. PICK head \in Seq(Byte), rest \in Seq(Byte) :
              head = SubSeq(typed, 1, n) /\ rest = SubSeq(typed, n + 1, m)
      BY <2>2
    <3>2. PICK a \in Reading : a = Nothing
      BY <2>4
    <3>3. \A r \in Seq(Byte) : RelayRead(a, head \o r) = RelayRead(RelayRead(a, head), r)
      BY RelayAlong
    <3>4. RelayRead(a, head \o rest) = RelayRead(RelayRead(a, head), rest)
      BY <3>3
    <3> QED BY <3>1, <3>2, <3>4
  <2> QED BY <1>4, <2>1, <2>3, <2>5
<1>6. ASSUME NEW i \in DOMAIN typed PROVE typed[i] = ESC \/ ~Announced(typed[i])
  <2>1. PICK m \in Nat, n \in Nat : m = Len(t) /\ n = Len(u)
    BY LenProperties
  <2>2. DOMAIN typed = 1..(m + n) /\ \A j \in 1..(m + n) : typed[j] = IF j <= m THEN t[j] ELSE u[j - m]
    <3>1. Len(t \o u) = m + n /\ \A j \in 1..(m + n) : (t \o u)[j] = IF j <= m THEN t[j] ELSE u[j - m]
      BY <2>1, ConcatProperties
    <3>2. DOMAIN typed = 1..Len(typed)
      BY LenProperties
    <3> QED BY <1>3, <3>1, <3>2
  <2>3. DOMAIN t = 1..m /\ DOMAIN u = 1..n
    BY <2>1, LenProperties
  <2>4. (\A j \in 1..m : t[j] = ESC \/ ~Announced(t[j])) /\ (\A j \in 1..n : u[j] = ESC \/ ~Announced(u[j]))
    BY <1>2, <2>3, OnlyAnnounced
  <2>5. CASE i <= m
    BY <2>2, <2>4, <2>5
  <2>6. CASE ~(i <= m)
    <3>1. i - m \in 1..n /\ typed[i] = u[i - m]
      BY <2>2, <2>6
    <3> QED BY <2>4, <3>1
  <2> QED BY <2>5, <2>6
<1>7. RelayGetsWhatIsSent
  BY <1>3, <1>5, <1>6 DEF RelayGetsWhatIsSent
<1>8. SshForwardsWhatIsSent
  <2>1. PICK escape \in {{}} \cup {{e} : e \in Byte \ LineEnds} : escape = cluster.escape
    BY DEF GoodBytes, Byte
  <2>2. AtFirst \in Escaping
    BY EmptySeq DEF AtFirst, Escaping
  <2>3. EscapeInto(AtFirst, first \o second, escape)
          = EscapeInto(EscapeInto(AtFirst, first, escape), second, escape)
    BY <2>2, EscapeAlong
  <2>4. PICK d \in Seq(Byte) : d = cluster.data /\ d = first \o second
    BY <1>1, ConcatProperties
  <2>5. Forwards(Plainly(TRUE, << >>), EscapeInto(AtFirst, d, escape).out, escape)
          = Plainly(EscapeInto(AtFirst, d, escape).lineStart, d)
    BY ForwardedComesThrough
  <2>6. Forwarded(reasons.escaped, escape) = Plainly(EscapeInto(AtFirst, d, escape).lineStart, d)
    <3>1. Forwarded(reasons.escaped, escape) = Forwards(Plainly(TRUE, << >>), reasons.escaped, escape)
      BY DEF Forwarded, Forwards, Plainly
    <3> QED BY <1>1, <2>1, <2>3, <2>4, <2>5, <3>1
  <2> QED BY <2>1, <2>4, <2>6 DEF SshForwardsWhatIsSent, Plainly
<1> QED BY <1>7, <1>8 DEF RelayIsFaithful

-----------------------------------------------------------------------------
(* What the openings of the case are made of.                              *)
Questions == {Asked(a) : a \in Askings}
Texts == DOMAIN cluster.memory.answers \cup {q.text : q \in Questions}
Values == {cluster.memory.answers[t] : t \in DOMAIN cluster.memory.answers}
            \cup {q.right : q \in Questions} \cup {"slip"}
Answers == UNION {[D -> Values] : D \in SUBSET Texts}
AtPrompt == [answers : Answers, answered : SUBSET Texts, ok : BOOLEAN]

Put(acc, q, person, n) ==
  IF ~acc.ok \/ (n > 1 /\ Right(acc, q)) THEN acc ELSE Answered(acc, q, Typed(person, q, n))

LEMMA QuestionsAre == ASSUME NEW q \in Questions PROVE q.text \in Texts /\ q.right \in Values
BY DEF Texts, Values

LEMMA AnswersAre ==
  ASSUME NEW f
  PROVE  f \in Answers <=> (DOMAIN f \subseteq Texts /\ f \in [DOMAIN f -> Values])
BY DEF Answers

LEMMA RememberIs ==
  ASSUME NEW f \in Answers, NEW t \in Texts, NEW v \in Values
  PROVE  /\ Remember(f, t, v) \in Answers /\ DOMAIN Remember(f, t, v) = DOMAIN f \cup {t}
         /\ Remember(f, t, v)[t] = v
         /\ \A x \in DOMAIN f : x # t => Remember(f, t, v)[x] = f[x]
<1>1. DOMAIN f \subseteq Texts /\ f \in [DOMAIN f -> Values]
  BY AnswersAre
<1>2. PICK D : D = DOMAIN f
  OBVIOUS
<1>3. Remember(f, t, v) \in [D \cup {t} -> Values] /\ DOMAIN Remember(f, t, v) = D \cup {t}
  BY <1>1, <1>2 DEF Remember
<1>4. Remember(f, t, v) \in Answers
  BY <1>1, <1>2, <1>3, AnswersAre
<1>5. Remember(f, t, v)[t] = v /\ \A x \in DOMAIN f : x # t => Remember(f, t, v)[x] = f[x]
  BY DEF Remember
<1> QED BY <1>2, <1>3, <1>4, <1>5

LEMMA ForgetIs == ASSUME NEW f \in Answers, NEW t PROVE Forget(f, t) \in Answers
<1>1. DOMAIN f \subseteq Texts /\ f \in [DOMAIN f -> Values]
  BY AnswersAre
<1>2. Forget(f, t) \in [DOMAIN f \ {t} -> Values]
  BY <1>1 DEF Forget
<1>3. DOMAIN Forget(f, t) = DOMAIN f \ {t}
  BY DEF Forget
<1> QED BY <1>1, <1>2, <1>3, AnswersAre

LEMMA AnsweredIs ==
  ASSUME NEW o \in AtPrompt, NEW q \in Questions, NEW typed \in Values \cup {"nobody"}
  PROVE  Answered(o, q, typed) \in AtPrompt
<1>1. o.answers \in Answers /\ o.answered \cup {q.text} \in SUBSET Texts /\ o.ok \in BOOLEAN
  BY QuestionsAre DEF AtPrompt
<1>2. CASE FromMemory(o, q)
  <2>1. Answered(o, q, typed) = [o EXCEPT !.answered = o.answered \cup {q.text}]
    BY <1>2 DEF Answered
  <2> QED BY <1>1, <2>1 DEF AtPrompt
<1>3. CASE ~FromMemory(o, q) /\ typed = "nobody"
  <2>1. Answered(o, q, typed) = [o EXCEPT !.ok = FALSE, !.answers = Forget(o.answers, q.text)]
    BY <1>3 DEF Answered
  <2>2. Forget(o.answers, q.text) \in Answers
    BY <1>1, ForgetIs
  <2> QED BY <1>1, <2>1, <2>2 DEF AtPrompt
<1>4. CASE ~FromMemory(o, q) /\ typed # "nobody"
  <2>1. Answered(o, q, typed) = [o EXCEPT !.answered = o.answered \cup {q.text},
                                          !.answers = Remember(o.answers, q.text, typed)]
    BY <1>4 DEF Answered
  <2>2. Remember(o.answers, q.text, typed) \in Answers
    BY <1>1, <1>4, QuestionsAre, RememberIs
  <2> QED BY <1>1, <2>1, <2>2 DEF AtPrompt
<1> QED BY <1>2, <1>3, <1>4

LEMMA PutIs ==
  ASSUME NEW o \in AtPrompt, NEW q \in Questions, NEW person, NEW n PROVE Put(o, q, person, n) \in AtPrompt
<1>1. Typed(person, q, n) \in Values \cup {"nobody"}
  <2>1. q.right \in Values /\ "slip" \in Values
    BY QuestionsAre DEF Values
  <2> QED BY <2>1 DEF Typed
<1>2. Answered(o, q, Typed(person, q, n)) \in AtPrompt
  BY <1>1, AnsweredIs
<1> QED BY <1>2 DEF Put

(* A question put again and again. *)
LEMMA SettleGoes ==
  ASSUME NEW o \in AtPrompt, NEW q \in Questions, NEW person
  PROVE  \E F : /\ F[0] = o /\ \A i \in 0..Tries : F[i] \in AtPrompt
                /\ \A i \in 1..Tries : F[i] = Put(F[i - 1], q, person, i)
                /\ Settle(o, q, person) = [F[Tries] EXCEPT !.ok = @ /\ Right(F[Tries], q)]
<1> DEFINE s == [n \in 1..Tries |-> n]
           step(f) == [i \in 0..Len(s) |-> IF i = 0 THEN o ELSE Put(f[i - 1], q, person, s[i])]
           F == CHOOSE f : f = step(f)
           op == [i \in 1..Tries |-> [a \in AtPrompt |-> Put(a, q, person, i)]]
<1>1. Settle(o, q, person) = [F[Len(s)] EXCEPT !.ok = @ /\ Right(F[Len(s)], q)]
  BY DEF Settle, Along, Put
<1>2. Tries \in Nat /\ s \in Seq(1..Tries) /\ Len(s) = Tries /\ \A i \in 1..Tries : s[i] = i
  BY TriesAssumption
<1>3. op \in [1..Tries -> [AtPrompt -> AtPrompt]]
  BY PutIs
<1>3a. \A i \in 1..Tries : \A a \in AtPrompt : op[i][a] = Put(a, q, person, i)
  OBVIOUS
<1> HIDE DEF s, op
<1>4. PICK f : Walks(f, op, AtPrompt, o, s)
  BY <1>2, <1>3, WalkExists
<1>5. /\ f \in [0..Tries -> AtPrompt] /\ f[0] = o
      /\ \A i \in 1..Tries : f[i] = Put(f[i - 1], q, person, i)
  <2>1. f \in [0..Tries -> AtPrompt] /\ f[0] = o
    BY <1>2, <1>4 DEF Walks
  <2>2. ASSUME NEW i \in 1..Tries PROVE f[i] = Put(f[i - 1], q, person, i)
    <3>1. f[i] = op[s[i]][f[i - 1]]
      BY <1>2, <1>4 DEF Walks
    <3>2. i - 1 \in 0..Tries
      BY <1>2
    <3>3. f[i - 1] \in AtPrompt /\ s[i] = i
      BY <1>2, <2>1, <3>2
    <3> QED BY <1>3a, <3>1, <3>3
  <2> QED BY <2>1, <2>2
<1>6. \A g : step(g) = [i \in 0..Tries |-> IF i = 0 THEN o ELSE Put(g[i - 1], q, person, s[i])]
  BY <1>2
<1> HIDE DEF step
<1>7. f = step(f)
  <2>1. \A i \in 0..Tries : f[i] = IF i = 0 THEN o ELSE Put(f[i - 1], q, person, s[i])
    BY <1>2, <1>5
  <2>2. f = [i \in 0..Tries |-> IF i = 0 THEN o ELSE Put(f[i - 1], q, person, s[i])]
    BY <1>5, <2>1
  <2> QED BY <1>6, <2>2
<1>8. F = step(F)
  BY <1>7
<1> HIDE DEF F
<1>9. F[0] = o /\ \A i \in 1..Tries : F[i] = Put(F[i - 1], q, person, i)
  <2>1. \A i \in 0..Tries : F[i] = IF i = 0 THEN o ELSE Put(F[i - 1], q, person, s[i])
    BY <1>6, <1>8
  <2> QED BY <1>2, <2>1
<1>10. \A i \in 0..Tries : F[i] \in AtPrompt
  <2> DEFINE G == {i \in 0..Tries : F[i] \in AtPrompt}
  <2>1. 0 \in G
    BY <1>2, <1>9
  <2>2. \A i \in 1..Tries : i - 1 \in G => i \in G
    BY <1>2, <1>9, PutIs
  <2> HIDE DEF G
  <2>3. \A i \in 0..Tries : i \in G
    BY <1>2, <2>1, <2>2, EveryPlace
  <2> QED BY <2>3 DEF G
<1>11. Settle(o, q, person) = [F[Tries] EXCEPT !.ok = @ /\ Right(F[Tries], q)]
  BY <1>1, <1>2
<1> QED BY <1>9, <1>10, <1>11

(* What has become of an opening, a text counted as remembered with `v`. *)
LEMMA SettleStays ==
  ASSUME NEW o \in AtPrompt, NEW q \in Questions, NEW person, NEW F, NEW z \in AtPrompt,
         \A i \in 1..Tries : F[i] = Put(F[i - 1], q, person, i),
         F[2] = z, ~z.ok \/ Right(z, q)
  PROVE  F[Tries] = z
<1>1. Tries \in Nat /\ Tries >= 2
  BY TriesAssumption
<1>2. \A n \in Nat : n > 1 => Put(z, q, person, n) = z
  BY DEF Put
<1> DEFINE G == {i \in 0..(Tries - 2) : F[i + 2] = z}
<1>3. 0 \in G
  BY <1>1
<1>4. ASSUME NEW i \in 1..(Tries - 2), i - 1 \in G PROVE i \in G
  <2>1. i + 2 \in 1..Tries /\ i + 2 > 1 /\ i + 2 \in Nat /\ (i + 2) - 1 = (i - 1) + 2
    BY <1>1
  <2>2. F[i + 2] = Put(F[(i + 2) - 1], q, person, i + 2)
    BY <2>1
  <2>3. F[(i - 1) + 2] = z
    BY <1>4
  <2>4. F[i + 2] = z
    BY <1>2, <2>1, <2>2, <2>3
  <2> QED BY <2>4
<1> HIDE DEF G
<1>5. Tries - 2 \in Nat /\ \A i \in 0..(Tries - 2) : i \in G
  BY <1>1, <1>3, <1>4, EveryPlace
<1>6. Tries - 2 \in G /\ (Tries - 2) + 2 = Tries
  BY <1>1, <1>5
<1> QED BY <1>6 DEF G

(* Somebody there: the question is settled, and its answer remembered. *)
LEMMA SettledByPerson ==
  ASSUME NEW o \in AtPrompt, NEW q \in Questions, NEW person \in {"right", "slips"},
         o.ok, q.right # "nobody"
  PROVE  LET r == Settle(o, q, person)
         IN  /\ r \in AtPrompt /\ r.ok /\ q.text \in DOMAIN r.answers /\ r.answers[q.text] = q.right
             /\ \A t \in DOMAIN o.answers :
                   t # q.text => t \in DOMAIN r.answers /\ r.answers[t] = o.answers[t]
<1> DEFINE Kept(y) == /\ y \in AtPrompt /\ y.ok /\ q.text \in DOMAIN y.answers
                      /\ \A t \in DOMAIN o.answers :
                            t # q.text => t \in DOMAIN y.answers /\ y.answers[t] = o.answers[t]
<1>1. PICK F : /\ F[0] = o /\ \A i \in 0..Tries : F[i] \in AtPrompt
               /\ \A i \in 1..Tries : F[i] = Put(F[i - 1], q, person, i)
               /\ Settle(o, q, person) = [F[Tries] EXCEPT !.ok = @ /\ Right(F[Tries], q)]
  BY SettleGoes
<1>2. q.text \in Texts /\ q.right \in Values /\ "slip" \in Values /\ o.answers \in Answers /\ "slip" # "nobody"
  BY QuestionsAre DEF Values, AtPrompt
<1>3. /\ 1 \in 1..Tries /\ 2 \in 1..Tries /\ 1 \in 0..Tries /\ 2 \in 0..Tries
      /\ 1 - 1 = 0 /\ 2 - 1 = 1 /\ Tries \in 0..Tries
  BY TriesAssumption
<1>4. F[1] = Put(o, q, person, 1) /\ F[2] = Put(F[1], q, person, 2) /\ F[1] \in AtPrompt /\ F[2] \in AtPrompt
  BY <1>1, <1>3
<1>5. ASSUME NEW y \in AtPrompt, y.ok, NEW v \in Values, v # "nobody", ~FromMemory(y, q),
             NEW x, x = Answered(y, q, v)
      PROVE  /\ x.ok /\ x.answers = Remember(y.answers, q.text, v) /\ x.answers[q.text] = v
             /\ DOMAIN x.answers = DOMAIN y.answers \cup {q.text} /\ q.text \in x.answered
             /\ \A t \in DOMAIN y.answers : t # q.text => x.answers[t] = y.answers[t]
  <2>1. x = [y EXCEPT !.answered = y.answered \cup {q.text}, !.answers = Remember(y.answers, q.text, v)]
    BY <1>5 DEF Answered
  <2>2. y.answers \in Answers
    BY DEF AtPrompt
  <2>3. x.ok /\ x.answers = Remember(y.answers, q.text, v) /\ q.text \in x.answered
    BY <1>5, <2>1 DEF AtPrompt
  <2>4. /\ DOMAIN Remember(y.answers, q.text, v) = DOMAIN y.answers \cup {q.text}
        /\ Remember(y.answers, q.text, v)[q.text] = v
        /\ \A t \in DOMAIN y.answers : t # q.text => Remember(y.answers, q.text, v)[t] = y.answers[t]
    <3>1. PICK f \in Answers, u \in Texts : f = y.answers /\ u = q.text
      BY <1>2, <2>2
    <3>2. /\ DOMAIN Remember(f, u, v) = DOMAIN f \cup {u} /\ Remember(f, u, v)[u] = v
          /\ \A t \in DOMAIN f : t # u => Remember(f, u, v)[t] = f[t]
      BY DEF Remember
    <3> QED BY <3>1, <3>2
  <2> QED BY <2>3, <2>4
<1>6. Kept(F[1]) /\ q.text \in F[1].answered
  <2>1. F[1] = Answered(o, q, Typed(person, q, 1))
    BY <1>4 DEF Put
  <2>2. CASE FromMemory(o, q)
    <3>1. F[1] = [o EXCEPT !.answered = o.answered \cup {q.text}]
      BY <2>1, <2>2 DEF Answered
    <3>2. F[1].ok = o.ok /\ F[1].answers = o.answers /\ F[1].answered = o.answered \cup {q.text}
      BY <3>1 DEF AtPrompt
    <3> QED BY <1>4, <2>2, <3>2 DEF FromMemory
  <2>3. CASE ~FromMemory(o, q)
    <3>1. PICK v \in Values : v = Typed(person, q, 1) /\ v # "nobody"
      BY <1>2 DEF Typed
    <3>2. /\ F[1].ok /\ DOMAIN F[1].answers = DOMAIN o.answers \cup {q.text} /\ q.text \in F[1].answered
          /\ \A t \in DOMAIN o.answers : t # q.text => F[1].answers[t] = o.answers[t]
      BY <1>5, <2>1, <2>3, <3>1
    <3> QED BY <1>4, <3>2
  <2> QED BY <2>2, <2>3
<1>7. Kept(F[2]) /\ F[2].answers[q.text] = q.right
  <2>1. CASE Right(F[1], q)
    <3>1. F[2] = F[1]
      BY <1>4, <2>1 DEF Put
    <3> QED BY <1>6, <2>1, <3>1 DEF Right
  <2>2. CASE ~Right(F[1], q)
    <3>1. F[2] = Answered(F[1], q, q.right)
      BY <1>4, <1>6, <2>2 DEF Put, Typed
    <3>2. ~FromMemory(F[1], q)
      BY <1>6 DEF FromMemory
    <3>3. /\ F[2].ok /\ DOMAIN F[2].answers = DOMAIN F[1].answers \cup {q.text}
          /\ F[2].answers[q.text] = q.right
          /\ \A t \in DOMAIN F[1].answers : t # q.text => F[2].answers[t] = F[1].answers[t]
      BY <1>2, <1>4, <1>5, <1>6, <3>1, <3>2
    <3> QED BY <1>4, <1>6, <3>3
  <2> QED BY <2>1, <2>2
<1>8. Right(F[2], q)
  BY <1>7 DEF Right
<1>9. F[Tries] = F[2]
  BY <1>1, <1>4, <1>8, SettleStays
<1>10. Settle(o, q, person) = F[2]
  <2>1. PICK y \in AtPrompt : y = F[2] /\ y.ok /\ Right(y, q)
    BY <1>4, <1>7, <1>8
  <2>2. Settle(o, q, person) = [y EXCEPT !.ok = TRUE]
    BY <1>1, <1>9, <2>1
  <2>3. [y EXCEPT !.ok = TRUE] = y
    BY <2>1 DEF AtPrompt
  <2> QED BY <2>1, <2>2, <2>3
<1> QED BY <1>7, <1>10

(* Nobody there: it is settled by a right answer remembered from before. *)
LEMMA SettledByNobody ==
  ASSUME NEW o \in AtPrompt, NEW q \in Questions, o.ok
  PROVE  LET r == Settle(o, q, "nobody")
         IN  /\ r \in AtPrompt
             /\ r.ok <=> (FromMemory(o, q) /\ o.answers[q.text] = q.right)
             /\ r.ok => (r.answers = o.answers /\ r.answered = o.answered \cup {q.text})
<1>1. PICK F : /\ F[0] = o /\ \A i \in 0..Tries : F[i] \in AtPrompt
               /\ \A i \in 1..Tries : F[i] = Put(F[i - 1], q, "nobody", i)
               /\ Settle(o, q, "nobody") = [F[Tries] EXCEPT !.ok = @ /\ Right(F[Tries], q)]
  BY SettleGoes
<1>3. /\ 1 \in 1..Tries /\ 2 \in 1..Tries /\ 1 \in 0..Tries /\ 2 \in 0..Tries
      /\ 1 - 1 = 0 /\ 2 - 1 = 1 /\ Tries \in 0..Tries
  BY TriesAssumption
<1>4. F[1] = Put(o, q, "nobody", 1) /\ F[2] = Put(F[1], q, "nobody", 2) /\ F[1] \in AtPrompt /\ F[2] \in AtPrompt
  BY <1>1, <1>3
<1>5. F[1] = Answered(o, q, "nobody")
  BY <1>4 DEF Put, Typed
<1>6. CASE FromMemory(o, q) /\ o.answers[q.text] = q.right
  <2>1. F[1] = [o EXCEPT !.answered = o.answered \cup {q.text}]
    BY <1>5, <1>6 DEF Answered
  <2>2. F[1].ok /\ F[1].answers = o.answers /\ F[1].answered = o.answered \cup {q.text}
    BY <2>1 DEF AtPrompt
  <2>3. Right(F[1], q)
    BY <1>6, <2>2 DEF Right
  <2>4. F[2] = F[1]
    BY <1>4, <2>3 DEF Put
  <2>5. F[Tries] = F[1]
    BY <1>1, <1>4, <2>3, <2>4, SettleStays
  <2>6. Settle(o, q, "nobody") = F[1]
    <3>1. PICK y \in AtPrompt : y = F[1] /\ y.ok /\ Right(y, q)
      BY <1>4, <2>2, <2>3
    <3>2. Settle(o, q, "nobody") = [y EXCEPT !.ok = TRUE]
      BY <1>1, <2>5, <3>1
    <3>3. [y EXCEPT !.ok = TRUE] = y
      BY <3>1 DEF AtPrompt
    <3> QED BY <3>1, <3>2, <3>3
  <2> QED BY <1>4, <1>6, <2>2, <2>6
<1>7. CASE ~(FromMemory(o, q) /\ o.answers[q.text] = q.right)
  <2>1. ~F[2].ok
    <3>1. CASE FromMemory(o, q)
      <4>1. F[1] = [o EXCEPT !.answered = o.answered \cup {q.text}]
        BY <1>5, <3>1 DEF Answered
      <4>2. F[1].ok /\ F[1].answers = o.answers /\ F[1].answered = o.answered \cup {q.text}
        BY <4>1 DEF AtPrompt
      <4>3. ~Right(F[1], q) /\ ~FromMemory(F[1], q)
        BY <1>7, <3>1, <4>2 DEF Right, FromMemory
      <4>4. F[2] = Answered(F[1], q, "nobody")
        BY <1>4, <4>2, <4>3 DEF Put, Typed
      <4> QED BY <1>4, <4>3, <4>4 DEF Answered, AtPrompt
    <3>2. CASE ~FromMemory(o, q)
      <4>1. ~F[1].ok
        BY <1>5, <3>2 DEF Answered, AtPrompt
      <4>2. F[2] = F[1]
        BY <1>4, <4>1 DEF Put
      <4> QED BY <4>1, <4>2
    <3> QED BY <3>1, <3>2
  <2>2. F[Tries] = F[2]
    BY <1>1, <1>4, <2>1, SettleStays
  <2>3. Settle(o, q, "nobody") \in AtPrompt /\ ~Settle(o, q, "nobody").ok
    <3>1. PICK y \in AtPrompt : y = F[2] /\ y.ok = FALSE
      <4>1. F[2].ok \in BOOLEAN
        BY <1>4 DEF AtPrompt
      <4> QED BY <1>4, <2>1, <4>1
    <3>2. Settle(o, q, "nobody") = [y EXCEPT !.ok = FALSE]
      BY <1>1, <2>2, <3>1
    <3> QED BY <3>2 DEF AtPrompt
  <2> QED BY <1>7, <2>3
<1> QED BY <1>6, <1>7

-----------------------------------------------------------------------------
(* The questions of a hop, one after the other, and the hops.              *)
AskOne(acc, q, person) == IF acc.ok THEN Settle(acc, q, person) ELSE acc
AskOf(person) == [q \in Questions |-> [a \in AtPrompt |-> AskOne(a, q, person)]]
Waits(a, hop, person) == Along(LAMBDA acc, q : IF acc.ok THEN Settle(acc, q, person) ELSE acc, a, hop)

LEMMA AskIs ==
  ASSUME NEW o \in AtPrompt, NEW q \in Questions, NEW person PROVE AskOne(o, q, person) \in AtPrompt
<1>1. PICK F : /\ \A i \in 0..Tries : F[i] \in AtPrompt
               /\ Settle(o, q, person) = [F[Tries] EXCEPT !.ok = @ /\ Right(F[Tries], q)]
  BY SettleGoes
<1>2. PICK y \in AtPrompt : y = F[Tries]
  BY <1>1, TriesAssumption
<1>3. Settle(o, q, person) = [y EXCEPT !.ok = y.ok /\ Right(y, q)]
  BY <1>1, <1>2
<1>4. (y.ok /\ Right(y, q)) \in BOOLEAN
  OBVIOUS
<1>5. Settle(o, q, person) \in AtPrompt
  BY <1>3, <1>4 DEF AtPrompt
<1> QED BY <1>5 DEF AskOne

LEMMA AskEnds ==
  ASSUME NEW a \in AtPrompt, NEW s \in Seq(Questions), NEW person
  PROVE  Ends(AskOf(person), AtPrompt, a, s, Waits(a, s, person))
<1> DEFINE n == Len(s)
           step(f) == [i \in 0..n |-> IF i = 0 THEN a ELSE AskOne(f[i - 1], s[i], person)]
           F == CHOOSE f : f = step(f)
<1>1. Waits(a, s, person) = F[n]
  BY DEF Waits, AskOne, Along
<1>2. n \in Nat /\ \A i \in 1..n : s[i] \in Questions
  BY LenProperties, ElementOfSeq
<1>3. AskOf(person) \in [Questions -> [AtPrompt -> AtPrompt]]
  BY AskIs DEF AskOf
<1>4. PICK f : Walks(f, AskOf(person), AtPrompt, a, s)
  BY <1>3, WalkExists
<1>5. /\ f \in [0..n -> AtPrompt] /\ f[0] = a
      /\ \A i \in 1..n : f[i] = AskOne(f[i - 1], s[i], person)
  <2>1. f \in [0..n -> AtPrompt] /\ f[0] = a
    BY <1>4 DEF Walks
  <2>2. ASSUME NEW i \in 1..n PROVE f[i] = AskOne(f[i - 1], s[i], person)
    <3>1. f[i] = AskOf(person)[s[i]][f[i - 1]]
      BY <1>4 DEF Walks
    <3>2. i - 1 \in 0..n
      BY <1>2
    <3>3. f[i - 1] \in AtPrompt /\ s[i] \in Questions
      BY <1>2, <2>1, <3>2
    <3> QED BY <3>1, <3>3 DEF AskOf
  <2> QED BY <2>1, <2>2
<1>6. \A g : step(g) = [i \in 0..n |-> IF i = 0 THEN a ELSE AskOne(g[i - 1], s[i], person)]
  OBVIOUS
<1> HIDE DEF n, step
<1>7. f = step(f)
  <2>1. \A i \in 0..n : f[i] = IF i = 0 THEN a ELSE AskOne(f[i - 1], s[i], person)
    BY <1>2, <1>5
  <2>2. f = [i \in 0..n |-> IF i = 0 THEN a ELSE AskOne(f[i - 1], s[i], person)]
    BY <1>5, <2>1
  <2> QED BY <1>6, <2>2
<1>8. F = step(F)
  BY <1>7
<1> HIDE DEF F
<1>9. F[0] = a /\ \A i \in 1..n : F[i] = AskOne(F[i - 1], s[i], person)
  <2>1. \A i \in 0..n : F[i] = IF i = 0 THEN a ELSE AskOne(F[i - 1], s[i], person)
    BY <1>6, <1>8
  <2> QED BY <1>2, <2>1
<1>10. F[n] = f[n]
  <2> DEFINE G == {i \in 0..n : F[i] = f[i]}
  <2>1. 0 \in G
    BY <1>2, <1>5, <1>9
  <2>2. \A i \in 1..n : i - 1 \in G => i \in G
    BY <1>2, <1>5, <1>9
  <2> HIDE DEF G
  <2>3. \A i \in 0..n : i \in G
    BY <1>2, <2>1, <2>2, EveryPlace
  <2>4. n \in G
    BY <1>2, <2>3
  <2> QED BY <2>4 DEF G
<1> QED BY <1>1, <1>4, <1>10 DEF Ends, n

LEMMA AskAlong ==
  ASSUME NEW a \in AtPrompt, NEW s \in Seq(Questions), NEW person
  PROVE  /\ Waits(a, s, person) \in AtPrompt
         /\ Waits(a, << >>, person) = a
         /\ \A e \in Questions : Waits(a, Append(s, e), person) = AskOne(Waits(a, s, person), e, person)
         /\ \A t \in Seq(Questions) : Waits(a, s \o t, person) = Waits(Waits(a, s, person), t, person)
<1> DEFINE b == Waits(a, s, person)
<1>1. Ends(AskOf(person), AtPrompt, a, s, b)
  BY AskEnds
<1>2. b \in AtPrompt
  BY <1>1, EndsWithin
<1> HIDE DEF b
<1>3. Waits(a, << >>, person) = a
  <2>1. << >> \in Seq(Questions)
    BY EmptySeq
  <2>2. Ends(AskOf(person), AtPrompt, a, << >>, Waits(a, << >>, person))
    BY <2>1, AskEnds
  <2> QED BY <2>2, EndsNone
<1>4. ASSUME NEW e \in Questions PROVE Waits(a, Append(s, e), person) = AskOne(b, e, person)
  <2>1. Append(s, e) \in Seq(Questions)
    BY AppendProperties
  <2>2. Ends(AskOf(person), AtPrompt, a, Append(s, e), Waits(a, Append(s, e), person))
    BY <2>1, AskEnds
  <2>3. Waits(a, Append(s, e), person) = AskOf(person)[e][b]
    BY <1>1, <2>2, EndsNext
  <2> QED BY <1>2, <2>3 DEF AskOf
<1>5. ASSUME NEW t \in Seq(Questions) PROVE Waits(a, s \o t, person) = Waits(b, t, person)
  <2>1. s \o t \in Seq(Questions)
    BY ConcatProperties
  <2>2. Ends(AskOf(person), AtPrompt, a, s \o t, Waits(a, s \o t, person))
    BY <2>1, AskEnds
  <2>3. Ends(AskOf(person), AtPrompt, b, t, Waits(b, t, person))
    BY <1>2, AskEnds
  <2> QED BY <1>1, <2>2, <2>3, EndsBoth
<1> QED BY <1>2, <1>3, <1>4, <1>5 DEF b

HopOne(o, hop, person) == IF o.ok THEN WaitReady(o, hop, person) ELSE o
HopOf(person) == [hop \in Seq(Questions) |-> [a \in AtPrompt |-> HopOne(a, hop, person)]]
Reaches(a, hops, person) == Along(LAMBDA o, h : IF o.ok THEN WaitReady(o, h, person) ELSE o, a, hops)

LEMMA ReadyIs ==
  ASSUME NEW o \in AtPrompt, NEW hop \in Seq(Questions), NEW person
  PROVE  /\ [o EXCEPT !.answered = {}] \in AtPrompt
         /\ WaitReady(o, hop, person) = Waits([o EXCEPT !.answered = {}], hop, person)
<1>1. [o EXCEPT !.answered = {}] \in AtPrompt
  BY DEF AtPrompt
<1> QED BY <1>1 DEF WaitReady, Waits

LEMMA HopIs ==
  ASSUME NEW o \in AtPrompt, NEW hop \in Seq(Questions), NEW person PROVE HopOne(o, hop, person) \in AtPrompt
<1>1. PICK a \in AtPrompt : a = [o EXCEPT !.answered = {}] /\ WaitReady(o, hop, person) = Waits(a, hop, person)
  BY ReadyIs
<1>2. Waits(a, hop, person) \in AtPrompt
  BY AskAlong
<1> QED BY <1>1, <1>2 DEF HopOne

LEMMA HopEnds ==
  ASSUME NEW a \in AtPrompt, NEW s \in Seq(Seq(Questions)), NEW person
  PROVE  Ends(HopOf(person), AtPrompt, a, s, Reaches(a, s, person))
<1> DEFINE n == Len(s)
           step(f) == [i \in 0..n |-> IF i = 0 THEN a ELSE HopOne(f[i - 1], s[i], person)]
           F == CHOOSE f : f = step(f)
<1>1. Reaches(a, s, person) = F[n]
  BY DEF Reaches, HopOne, Along
<1>2. n \in Nat /\ \A i \in 1..n : s[i] \in Seq(Questions)
  BY LenProperties, ElementOfSeq
<1>3. HopOf(person) \in [Seq(Questions) -> [AtPrompt -> AtPrompt]]
  BY HopIs DEF HopOf
<1>4. PICK f : Walks(f, HopOf(person), AtPrompt, a, s)
  BY <1>3, WalkExists
<1>5. /\ f \in [0..n -> AtPrompt] /\ f[0] = a
      /\ \A i \in 1..n : f[i] = HopOne(f[i - 1], s[i], person)
  <2>1. f \in [0..n -> AtPrompt] /\ f[0] = a
    BY <1>4 DEF Walks
  <2>2. ASSUME NEW i \in 1..n PROVE f[i] = HopOne(f[i - 1], s[i], person)
    <3>1. f[i] = HopOf(person)[s[i]][f[i - 1]]
      BY <1>4 DEF Walks
    <3>2. i - 1 \in 0..n
      BY <1>2
    <3>3. f[i - 1] \in AtPrompt /\ s[i] \in Seq(Questions)
      BY <1>2, <2>1, <3>2
    <3> QED BY <3>1, <3>3 DEF HopOf
  <2> QED BY <2>1, <2>2
<1>6. \A g : step(g) = [i \in 0..n |-> IF i = 0 THEN a ELSE HopOne(g[i - 1], s[i], person)]
  OBVIOUS
<1> HIDE DEF n, step
<1>7. f = step(f)
  <2>1. \A i \in 0..n : f[i] = IF i = 0 THEN a ELSE HopOne(f[i - 1], s[i], person)
    BY <1>2, <1>5
  <2>2. f = [i \in 0..n |-> IF i = 0 THEN a ELSE HopOne(f[i - 1], s[i], person)]
    BY <1>5, <2>1
  <2> QED BY <1>6, <2>2
<1>8. F = step(F)
  BY <1>7
<1> HIDE DEF F
<1>9. F[0] = a /\ \A i \in 1..n : F[i] = HopOne(F[i - 1], s[i], person)
  <2>1. \A i \in 0..n : F[i] = IF i = 0 THEN a ELSE HopOne(F[i - 1], s[i], person)
    BY <1>6, <1>8
  <2> QED BY <1>2, <2>1
<1>10. F[n] = f[n]
  <2> DEFINE G == {i \in 0..n : F[i] = f[i]}
  <2>1. 0 \in G
    BY <1>2, <1>5, <1>9
  <2>2. \A i \in 1..n : i - 1 \in G => i \in G
    BY <1>2, <1>5, <1>9
  <2> HIDE DEF G
  <2>3. \A i \in 0..n : i \in G
    BY <1>2, <2>1, <2>2, EveryPlace
  <2>4. n \in G
    BY <1>2, <2>3
  <2> QED BY <2>4 DEF G
<1> QED BY <1>1, <1>4, <1>10 DEF Ends, n

LEMMA HopAlong ==
  ASSUME NEW a \in AtPrompt, NEW s \in Seq(Seq(Questions)), NEW person
  PROVE  /\ Reaches(a, s, person) \in AtPrompt
         /\ Reaches(a, << >>, person) = a
         /\ \A e \in Seq(Questions) : Reaches(a, Append(s, e), person) = HopOne(Reaches(a, s, person), e, person)
         /\ \A t \in Seq(Seq(Questions)) : Reaches(a, s \o t, person) = Reaches(Reaches(a, s, person), t, person)
<1> DEFINE b == Reaches(a, s, person)
<1>1. Ends(HopOf(person), AtPrompt, a, s, b)
  BY HopEnds
<1>2. b \in AtPrompt
  BY <1>1, EndsWithin
<1> HIDE DEF b
<1>3. Reaches(a, << >>, person) = a
  <2>1. << >> \in Seq(Seq(Questions))
    BY EmptySeq
  <2>2. Ends(HopOf(person), AtPrompt, a, << >>, Reaches(a, << >>, person))
    BY <2>1, HopEnds
  <2> QED BY <2>2, EndsNone
<1>4. ASSUME NEW e \in Seq(Questions) PROVE Reaches(a, Append(s, e), person) = HopOne(b, e, person)
  <2>1. Append(s, e) \in Seq(Seq(Questions))
    BY AppendProperties
  <2>2. Ends(HopOf(person), AtPrompt, a, Append(s, e), Reaches(a, Append(s, e), person))
    BY <2>1, HopEnds
  <2>3. Reaches(a, Append(s, e), person) = HopOf(person)[e][b]
    BY <1>1, <2>2, EndsNext
  <2> QED BY <1>2, <2>3 DEF HopOf
<1>5. ASSUME NEW t \in Seq(Seq(Questions)) PROVE Reaches(a, s \o t, person) = Reaches(b, t, person)
  <2>1. s \o t \in Seq(Seq(Questions))
    BY ConcatProperties
  <2>2. Ends(HopOf(person), AtPrompt, a, s \o t, Reaches(a, s \o t, person))
    BY <2>1, HopEnds
  <2>3. Ends(HopOf(person), AtPrompt, b, t, Reaches(b, t, person))
    BY <1>2, HopEnds
  <2> QED BY <1>1, <2>2, <2>3, EndsBoth
<1> QED BY <1>2, <1>3, <1>4, <1>5 DEF b

-----------------------------------------------------------------------------
(* An answer remembered that some question takes. *)
Kept(f, t) == t \in DOMAIN f /\ \E q \in Questions : q.text = t /\ f[t] = q.right

LEMMA AskedByPerson ==
  ASSUME NEW o \in AtPrompt, o.ok, NEW q \in Questions, NEW person \in {"right", "slips"},
         q.right # "nobody"
  PROVE  LET r == AskOne(o, q, person)
         IN  r.ok /\ Kept(r.answers, q.text) /\ \A t : Kept(o.answers, t) => Kept(r.answers, t)
<1>1. PICK r : /\ r = AskOne(o, q, person) /\ r.ok
               /\ q.text \in DOMAIN r.answers /\ r.answers[q.text] = q.right
               /\ \A t \in DOMAIN o.answers :
                     t # q.text => t \in DOMAIN r.answers /\ r.answers[t] = o.answers[t]
  BY SettledByPerson DEF AskOne
<1>2. Kept(r.answers, q.text)
  BY <1>1 DEF Kept
<1>3. ASSUME NEW t, Kept(o.answers, t) PROVE Kept(r.answers, t)
  <2>1. CASE t = q.text
    BY <1>2, <2>1
  <2>2. CASE t # q.text
    <3>1. t \in DOMAIN r.answers /\ r.answers[t] = o.answers[t]
      BY <1>1, <1>3, <2>2 DEF Kept
    <3> QED BY <1>3, <3>1 DEF Kept
  <2> QED BY <2>1, <2>2
<1> QED BY <1>1, <1>2, <1>3

(* What is appended comes last. *)
LEMMA NextPlace ==
  ASSUME NEW E, NEW s \in Seq(E), NEW e \in E
  PROVE  \E n \in Nat, u \in Seq(E) : /\ n = Len(s) /\ u = Append(s, e) /\ Len(u) = n + 1 /\ u[n + 1] = e
                                      /\ \A i \in 1..n : u[i] = s[i]
                                      /\ \A i \in 1..(n + 1) : i = n + 1 \/ i \in 1..n
<1>1. PICK n \in Nat : n = Len(s)
  BY LenProperties
<1>2. Append(s, e) \in Seq(E) /\ Len(Append(s, e)) = Len(s) + 1 /\ Append(s, e)[Len(s) + 1] = e
      /\ \A i \in 1..Len(s) : Append(s, e)[i] = s[i]
  BY AppendProperties
<1>3. \A i \in 1..(n + 1) : i = n + 1 \/ i \in 1..n
  OBVIOUS
<1> QED BY <1>1, <1>2, <1>3

LEMMA NextQuestion ==
  ASSUME NEW s \in Seq(Questions), NEW e \in Questions
  PROVE  \E n \in Nat, u \in Seq(Questions) :
            /\ n = Len(s) /\ u = Append(s, e) /\ Len(u) = n + 1 /\ u[n + 1] = e
            /\ \A i \in 1..n : u[i] = s[i]
            /\ \A i \in 1..(n + 1) : i = n + 1 \/ i \in 1..n
<1>1. PICK E : E = Questions
  OBVIOUS
<1>2. s \in Seq(E) /\ e \in E
  BY <1>1
<1>3. \E n \in Nat, u \in Seq(E) :
        /\ n = Len(s) /\ u = Append(s, e) /\ Len(u) = n + 1 /\ u[n + 1] = e
        /\ \A i \in 1..n : u[i] = s[i]
        /\ \A i \in 1..(n + 1) : i = n + 1 \/ i \in 1..n
  BY <1>2, NextPlace
<1> QED BY <1>1, <1>3

LEMMA NextHop ==
  ASSUME NEW s \in Seq(Seq(Questions)), NEW e \in Seq(Questions)
  PROVE  \E n \in Nat, u \in Seq(Seq(Questions)) :
            /\ n = Len(s) /\ u = Append(s, e) /\ Len(u) = n + 1 /\ u[n + 1] = e
            /\ \A i \in 1..n : u[i] = s[i]
            /\ \A i \in 1..(n + 1) : i = n + 1 \/ i \in 1..n
<1>1. PICK E : E = Seq(Questions)
  OBVIOUS
<1>2. s \in Seq(E) /\ e \in E
  BY <1>1
<1>3. \E n \in Nat, u \in Seq(E) :
        /\ n = Len(s) /\ u = Append(s, e) /\ Len(u) = n + 1 /\ u[n + 1] = e
        /\ \A i \in 1..n : u[i] = s[i]
        /\ \A i \in 1..(n + 1) : i = n + 1 \/ i \in 1..n
  BY <1>2, NextPlace
<1> QED BY <1>1, <1>3

LEMMA HopByPerson ==
  ASSUME NEW o \in AtPrompt, o.ok, NEW hop \in Seq(Questions), NEW person \in {"right", "slips"},
         \A q \in Questions : q.right # "nobody"
  PROVE  LET r == HopOne(o, hop, person)
         IN  /\ r.ok /\ \A t : Kept(o.answers, t) => Kept(r.answers, t)
             /\ \A i \in 1..Len(hop) : Kept(r.answers, hop[i].text)
<1>1. PICK a \in AtPrompt : a = [o EXCEPT !.answered = {}] /\ WaitReady(o, hop, person) = Waits(a, hop, person)
  BY ReadyIs
<1>2. a.ok /\ a.answers = o.answers
  BY <1>1 DEF AtPrompt
<1> DEFINE P(r, s) == /\ r.ok /\ \A t : Kept(o.answers, t) => Kept(r.answers, t)
                      /\ \A i \in 1..Len(s) : Kept(r.answers, s[i].text)
           G == {s \in Seq(Questions) : P(Waits(a, s, person), s)}
<1>3. << >> \in G
  <2>1. << >> \in Seq(Questions) /\ Len(<< >>) = 0
    BY EmptySeq
  <2>2. Waits(a, << >>, person) = a
    BY <2>1, AskAlong
  <2>3. P(a, << >>)
    BY <1>2, <2>1
  <2> HIDE DEF P
  <2> QED BY <2>1, <2>2, <2>3
<1>4. ASSUME NEW s \in Seq(Questions), NEW e \in Questions, s \in G PROVE Append(s, e) \in G
  <2>1. PICK r \in AtPrompt : r = Waits(a, s, person)
    BY AskAlong
  <2>2. PICK x : x = AskOne(r, e, person)
    OBVIOUS
  <2>3. Waits(a, Append(s, e), person) = x
    <3>1. \A y \in Questions : Waits(a, Append(s, y), person) = AskOne(Waits(a, s, person), y, person)
      BY AskAlong
    <3> QED BY <2>1, <2>2, <3>1
  <2>4. P(r, s)
    BY <1>4, <2>1
  <2>5. x.ok /\ Kept(x.answers, e.text) /\ \A t : Kept(r.answers, t) => Kept(x.answers, t)
    BY <2>2, <2>4, AskedByPerson
  <2>6. PICK n \in Nat, u \in Seq(Questions) :
            /\ n = Len(s) /\ u = Append(s, e) /\ Len(u) = n + 1 /\ u[n + 1] = e
            /\ \A i \in 1..n : u[i] = s[i]
            /\ \A i \in 1..(n + 1) : i = n + 1 \/ i \in 1..n
    BY NextQuestion
  <2>7. P(x, u)
    <3>1. ASSUME NEW i \in 1..(n + 1) PROVE Kept(x.answers, u[i].text)
      <4>1. CASE i = n + 1
        BY <2>5, <2>6, <4>1
      <4>2. CASE i \in 1..n
        BY <2>4, <2>5, <2>6, <4>2
      <4> QED BY <2>6, <4>1, <4>2
    <3> QED BY <2>4, <2>5, <2>6, <3>1
  <2> HIDE DEF P
  <2> QED BY <2>3, <2>6, <2>7
<1>5. hop \in G
  <2> HIDE DEF G
  <2> QED BY <1>3, <1>4, EverySequence
<1> QED BY <1>1, <1>5 DEF HopOne

(* Somebody there: the hops open, and are remembered. *)
LEMMA OpenedByPerson ==
  ASSUME NEW o \in AtPrompt, o.ok, NEW hops \in Seq(Seq(Questions)), NEW person \in {"right", "slips"},
         \A q \in Questions : q.right # "nobody"
  PROVE  LET r == Reaches(o, hops, person)
         IN  r.ok /\ \A h \in 1..Len(hops) : \A i \in 1..Len(hops[h]) : Kept(r.answers, hops[h][i].text)
<1> DEFINE P(r, s) == r.ok /\ \A h \in 1..Len(s) : \A i \in 1..Len(s[h]) : Kept(r.answers, s[h][i].text)
           G == {s \in Seq(Seq(Questions)) : P(Reaches(o, s, person), s)}
<1>3. << >> \in G
  <2>1. << >> \in Seq(Seq(Questions)) /\ Len(<< >>) = 0
    BY EmptySeq
  <2>2. Reaches(o, << >>, person) = o
    BY <2>1, HopAlong
  <2>3. P(o, << >>)
    BY <2>1
  <2> HIDE DEF P
  <2> QED BY <2>1, <2>2, <2>3
<1>4. ASSUME NEW s \in Seq(Seq(Questions)), NEW e \in Seq(Questions), s \in G PROVE Append(s, e) \in G
  <2>1. PICK r \in AtPrompt : r = Reaches(o, s, person)
    BY HopAlong
  <2>2. PICK x : x = HopOne(r, e, person)
    OBVIOUS
  <2>3. Reaches(o, Append(s, e), person) = x
    <3>1. \A y \in Seq(Questions) : Reaches(o, Append(s, y), person) = HopOne(Reaches(o, s, person), y, person)
      BY HopAlong
    <3> QED BY <2>1, <2>2, <3>1
  <2>4. P(r, s)
    BY <1>4, <2>1
  <2>5. /\ x.ok /\ \A t : Kept(r.answers, t) => Kept(x.answers, t)
        /\ \A i \in 1..Len(e) : Kept(x.answers, e[i].text)
    BY <2>2, <2>4, HopByPerson
  <2>6. PICK n \in Nat, u \in Seq(Seq(Questions)) :
            /\ n = Len(s) /\ u = Append(s, e) /\ Len(u) = n + 1 /\ u[n + 1] = e
            /\ \A i \in 1..n : u[i] = s[i]
            /\ \A i \in 1..(n + 1) : i = n + 1 \/ i \in 1..n
    BY NextHop
  <2>7. P(x, u)
    <3>1. ASSUME NEW h \in 1..(n + 1), NEW i \in 1..Len(u[h]) PROVE Kept(x.answers, u[h][i].text)
      <4>1. CASE h = n + 1
        BY <2>5, <2>6, <4>1
      <4>2. CASE h \in 1..n
        <5>1. u[h] = s[h]
          BY <2>6, <4>2
        <5> QED BY <2>4, <2>5, <2>6, <4>2, <5>1
      <4> QED BY <2>6, <4>1, <4>2
    <3> QED BY <2>5, <2>6, <3>1
  <2> HIDE DEF P
  <2> QED BY <2>3, <2>6, <2>7
<1>5. hops \in G
  <2> HIDE DEF G
  <2> QED BY <1>3, <1>4, EverySequence
<1> QED BY <1>5

-----------------------------------------------------------------------------
(* A hop that is answered from `f` alone. *)
Alone(f, s) ==
  /\ \A i \in 1..Len(s) : s[i].text \in DOMAIN f /\ f[s[i].text] = s[i].right
  /\ \A i, j \in 1..Len(s) : i # j => s[i].text # s[j].text

LEMMA AloneNext ==
  ASSUME NEW f, NEW s \in Seq(Questions), NEW e \in Questions
  PROVE  Alone(f, Append(s, e)) <=> /\ Alone(f, s) /\ e.text \in DOMAIN f /\ f[e.text] = e.right
                                    /\ e.text \notin {s[i].text : i \in 1..Len(s)}
<1>1. PICK n \in Nat, u \in Seq(Questions) :
          /\ n = Len(s) /\ u = Append(s, e) /\ Len(u) = n + 1 /\ u[n + 1] = e
          /\ \A i \in 1..n : u[i] = s[i]
          /\ \A i \in 1..(n + 1) : i = n + 1 \/ i \in 1..n
  BY NextQuestion
<1>2. n + 1 \in 1..(n + 1) /\ \A i \in 1..n : i \in 1..(n + 1) /\ i # n + 1
  OBVIOUS
<1>3. ASSUME Alone(f, u)
      PROVE  /\ Alone(f, s) /\ e.text \in DOMAIN f /\ f[e.text] = e.right
             /\ e.text \notin {s[i].text : i \in 1..n}
  <2>1. \A i \in 1..n : s[i].text \in DOMAIN f /\ f[s[i].text] = s[i].right
    BY <1>1, <1>2, <1>3 DEF Alone
  <2>2. \A i, j \in 1..n : i # j => s[i].text # s[j].text
    BY <1>1, <1>2, <1>3 DEF Alone
  <2>3. e.text \in DOMAIN f /\ f[e.text] = e.right
    BY <1>1, <1>2, <1>3 DEF Alone
  <2>4. \A i \in 1..n : s[i].text # e.text
    BY <1>1, <1>2, <1>3 DEF Alone
  <2>5. Alone(f, s)
    BY <1>1, <2>1, <2>2 DEF Alone
  <2> QED BY <2>3, <2>4, <2>5
<1>4. ASSUME Alone(f, s), e.text \in DOMAIN f, f[e.text] = e.right, e.text \notin {s[i].text : i \in 1..n}
      PROVE  Alone(f, u)
  <2>1. ASSUME NEW i \in 1..(n + 1) PROVE u[i].text \in DOMAIN f /\ f[u[i].text] = u[i].right
    BY <1>1, <1>4 DEF Alone
  <2>2. ASSUME NEW i \in 1..(n + 1), NEW j \in 1..(n + 1), i # j PROVE u[i].text # u[j].text
    <3>1. \A k \in 1..n : s[k].text # e.text
      BY <1>4
    <3>2. CASE i \in 1..n /\ j \in 1..n
      BY <1>1, <1>4, <2>2, <3>2 DEF Alone
    <3>3. CASE i = n + 1 /\ j \in 1..n
      BY <1>1, <3>1, <3>3
    <3>4. CASE i \in 1..n /\ j = n + 1
      BY <1>1, <3>1, <3>4
    <3> QED BY <1>1, <2>2, <3>2, <3>3, <3>4
  <2> QED BY <1>1, <2>1, <2>2 DEF Alone
<1> QED BY <1>1, <1>3, <1>4

LEMMA HopByNobody ==
  ASSUME NEW o \in AtPrompt, o.ok, NEW hop \in Seq(Questions)
  PROVE  LET r == HopOne(o, hop, "nobody")
         IN  (r.ok <=> Alone(o.answers, hop)) /\ (r.ok => r.answers = o.answers)
<1>1. PICK a \in AtPrompt : a = [o EXCEPT !.answered = {}] /\ WaitReady(o, hop, "nobody") = Waits(a, hop, "nobody")
  BY ReadyIs
<1>2. a.ok /\ a.answers = o.answers /\ a.answered = {}
  BY <1>1 DEF AtPrompt
<1> DEFINE P(r, s) == /\ r.ok <=> Alone(o.answers, s)
                      /\ r.ok => (r.answers = o.answers /\ r.answered = {s[i].text : i \in 1..Len(s)})
           G == {s \in Seq(Questions) : P(Waits(a, s, "nobody"), s)}
<1>3. << >> \in G
  <2>1. << >> \in Seq(Questions) /\ Len(<< >>) = 0
    BY EmptySeq
  <2>2. Waits(a, << >>, "nobody") = a
    BY <2>1, AskAlong
  <2>3. P(a, << >>)
    BY <1>2, <2>1 DEF Alone
  <2> HIDE DEF P
  <2> QED BY <2>1, <2>2, <2>3
<1>4. ASSUME NEW s \in Seq(Questions), NEW e \in Questions, s \in G PROVE Append(s, e) \in G
  <2>1. PICK r \in AtPrompt : r = Waits(a, s, "nobody")
    BY AskAlong
  <2>2. PICK x : x = AskOne(r, e, "nobody")
    OBVIOUS
  <2>3. Waits(a, Append(s, e), "nobody") = x
    <3>1. \A y \in Questions : Waits(a, Append(s, y), "nobody") = AskOne(Waits(a, s, "nobody"), y, "nobody")
      BY AskAlong
    <3> QED BY <2>1, <2>2, <3>1
  <2>4. P(r, s)
    BY <1>4, <2>1
  <2>5. PICK n \in Nat, u \in Seq(Questions) :
            /\ n = Len(s) /\ u = Append(s, e) /\ Len(u) = n + 1 /\ u[n + 1] = e
            /\ \A i \in 1..n : u[i] = s[i]
            /\ \A i \in 1..(n + 1) : i = n + 1 \/ i \in 1..n
    BY NextQuestion
  <2>6. Alone(o.answers, u) <=> /\ Alone(o.answers, s) /\ e.text \in DOMAIN o.answers
                                /\ o.answers[e.text] = e.right /\ e.text \notin {s[i].text : i \in 1..Len(s)}
    BY <2>5, AloneNext
  <2>7. P(x, u)
    <3>1. CASE ~r.ok
      <4>1. x = r
        BY <2>2, <3>1 DEF AskOne
      <4> QED BY <2>4, <2>6, <3>1, <4>1
    <3>2. CASE r.ok
      <4>1. /\ x.ok <=> (FromMemory(r, e) /\ r.answers[e.text] = e.right)
            /\ x.ok => (x.answers = r.answers /\ x.answered = r.answered \cup {e.text})
        BY <2>2, <3>2, SettledByNobody DEF AskOne
      <4>2. r.answers = o.answers /\ r.answered = {s[i].text : i \in 1..n} /\ Alone(o.answers, s)
        BY <2>4, <2>5, <3>2
      <4>3. x.ok <=> Alone(o.answers, u)
        BY <2>5, <2>6, <4>1, <4>2 DEF FromMemory
      <4>4. {s[i].text : i \in 1..n} \cup {e.text} = {u[i].text : i \in 1..(n + 1)}
        <5>1. n + 1 \in 1..(n + 1) /\ \A i \in 1..n : i \in 1..(n + 1)
          OBVIOUS
        <5> QED BY <2>5, <5>1
      <4> QED BY <2>5, <4>1, <4>2, <4>3, <4>4
    <3> QED BY <3>1, <3>2
  <2> HIDE DEF P
  <2> QED BY <2>3, <2>5, <2>7
<1>5. hop \in G
  <2> HIDE DEF G
  <2> QED BY <1>3, <1>4, EverySequence
<1> QED BY <1>1, <1>5 DEF HopOne

(* Nobody there: the hops open when each is answered from memory alone. *)
LEMMA OpenedByNobody ==
  ASSUME NEW o \in AtPrompt, o.ok, NEW hops \in Seq(Seq(Questions))
  PROVE  Reaches(o, hops, "nobody").ok <=> \A h \in 1..Len(hops) : Alone(o.answers, hops[h])
<1> DEFINE P(r, s) == (r.ok <=> \A h \in 1..Len(s) : Alone(o.answers, s[h])) /\ (r.ok => r.answers = o.answers)
           G == {s \in Seq(Seq(Questions)) : P(Reaches(o, s, "nobody"), s)}
<1>3. << >> \in G
  <2>1. << >> \in Seq(Seq(Questions)) /\ Len(<< >>) = 0
    BY EmptySeq
  <2>2. Reaches(o, << >>, "nobody") = o
    BY <2>1, HopAlong
  <2>3. P(o, << >>)
    BY <2>1
  <2> HIDE DEF P
  <2> QED BY <2>1, <2>2, <2>3
<1>4. ASSUME NEW s \in Seq(Seq(Questions)), NEW e \in Seq(Questions), s \in G PROVE Append(s, e) \in G
  <2>1. PICK r \in AtPrompt : r = Reaches(o, s, "nobody")
    BY HopAlong
  <2>2. PICK x : x = HopOne(r, e, "nobody")
    OBVIOUS
  <2>3. Reaches(o, Append(s, e), "nobody") = x
    <3>1. \A y \in Seq(Questions) : Reaches(o, Append(s, y), "nobody") = HopOne(Reaches(o, s, "nobody"), y, "nobody")
      BY HopAlong
    <3> QED BY <2>1, <2>2, <3>1
  <2>4. P(r, s)
    BY <1>4, <2>1
  <2>5. PICK n \in Nat, u \in Seq(Seq(Questions)) :
            /\ n = Len(s) /\ u = Append(s, e) /\ Len(u) = n + 1 /\ u[n + 1] = e
            /\ \A i \in 1..n : u[i] = s[i]
            /\ \A i \in 1..(n + 1) : i = n + 1 \/ i \in 1..n
    BY NextHop
  <2>6. (\A h \in 1..(n + 1) : Alone(o.answers, u[h]))
          <=> (\A h \in 1..n : Alone(o.answers, s[h])) /\ Alone(o.answers, e)
    <3>1. n + 1 \in 1..(n + 1) /\ \A i \in 1..n : i \in 1..(n + 1)
      OBVIOUS
    <3> QED BY <2>5, <3>1
  <2>7. P(x, u)
    <3>1. CASE ~r.ok
      <4>1. x = r
        BY <2>2, <3>1 DEF HopOne
      <4> QED BY <2>4, <2>5, <2>6, <3>1, <4>1
    <3>2. CASE r.ok
      <4>1. (x.ok <=> Alone(r.answers, e)) /\ (x.ok => x.answers = r.answers)
        BY <2>2, <3>2, HopByNobody
      <4>2. r.answers = o.answers /\ \A h \in 1..n : Alone(o.answers, s[h])
        BY <2>4, <2>5, <3>2
      <4> QED BY <2>5, <2>6, <4>1, <4>2
    <3> QED BY <3>1, <3>2
  <2> HIDE DEF P
  <2> QED BY <2>3, <2>5, <2>7
<1>5. hops \in G
  <2> HIDE DEF G
  <2> QED BY <1>3, <1>4, EverySequence
<1> QED BY <1>5

LEMMA OpenIs ==
  ASSUME NEW memory, NEW hops, NEW person, NEW needed
  PROVE  LET account == Account(memory.user, person, needed)
             reached == Reaches(Begun(memory.answers), hops, person)
         IN  Open(memory, hops, person, needed) =
               IF ~account.ok
               THEN [answers |-> memory.answers, user |-> account.user, opened |-> FALSE]
               ELSE [answers |-> reached.answers, user |-> account.user, opened |-> reached.ok]
BY DEF Open, Reaches

LEMMA OpeningsTold ==
  ASSUME GoodAnswers(cluster), reasons = OpeningsOf(cluster)
  PROVE  /\ cluster.hops \in Seq(Seq(Questions))
         /\ reasons.attended.opened
         /\ \E f : /\ \A h \in 1..Len(cluster.hops) : \A i \in 1..Len(cluster.hops[h]) :
                         Kept(f, cluster.hops[h][i].text)
                   /\ reasons.reserve.opened <=> \A h \in 1..Len(cluster.hops) : Alone(f, cluster.hops[h])
<1>1. cluster.hops \in Seq(Seq(Questions))
  <2>1. PICK hops, H : hops = cluster.hops /\ H = {hops[h] : h \in DOMAIN hops} /\ hops \in Seq(H)
    BY DEF GoodAnswers
  <2>2. \A h \in DOMAIN hops : hops[h] \in Seq(Questions)
    <3> TAKE h \in DOMAIN hops
    <3>1. PICK s, B : s = hops[h] /\ B = {s[i] : i \in DOMAIN s} /\ s \in Seq(B)
      BY <2>1 DEF GoodAnswers
    <3>2. B \subseteq Questions
      <4>1. \A i \in DOMAIN s : <<h, i>> \in Askings /\ Asked(<<h, i>>) = s[i]
        BY <2>1, <3>1 DEF Askings, Asked
      <4> QED BY <3>1, <4>1 DEF Questions
    <3>3. s \in Seq(Questions)
      BY <3>1, <3>2
    <3> QED BY <3>1, <3>3
  <2>3. H \subseteq Seq(Questions)
    BY <2>1, <2>2
  <2> QED BY <2>1, <2>3
<1>2. \A q \in Questions : q.right # "nobody"
  <2> TAKE q \in Questions
  <2>1. PICK a \in Askings : q = Asked(a)
    BY DEF Questions
  <2>2. PICK h, i : h \in DOMAIN cluster.hops /\ i \in DOMAIN cluster.hops[h] /\ a = <<h, i>>
    BY DEF Askings
  <2>3. q = cluster.hops[h][i]
    BY <2>1, <2>2 DEF Asked
  <2> QED BY <2>2, <2>3 DEF GoodAnswers
<1>3. PICK o \in AtPrompt : o = Begun(cluster.memory.answers)
  <2>1. PICK m : m = cluster.memory.answers /\ m = [t \in DOMAIN m |-> m[t]]
    BY DEF GoodAnswers
  <2>2. m \in [DOMAIN m -> Values] /\ DOMAIN m \subseteq Texts
    BY <2>1 DEF Values, Texts
  <2>3. m \in Answers
    BY <2>2, AnswersAre
  <2> QED BY <2>1, <2>3 DEF Begun, AtPrompt
<1>4. PICK hops \in Seq(Seq(Questions)), person \in {"right", "slips"} :
          hops = cluster.hops /\ person = cluster.person
  BY <1>1 DEF GoodAnswers
<1>5. PICK r \in AtPrompt : /\ r = Reaches(o, hops, person) /\ r.ok
                           /\ \A h \in 1..Len(hops) : \A i \in 1..Len(hops[h]) : Kept(r.answers, hops[h][i].text)
  <2>1. Reaches(o, hops, person) \in AtPrompt
    BY HopAlong
  <2>2. o.ok
    BY <1>3 DEF Begun
  <2> QED BY <1>2, <2>1, <2>2, OpenedByPerson
<1>6. PICK z \in AtPrompt : z = Begun(r.answers)
  BY DEF Begun, AtPrompt
<1>7. /\ reasons.attended.opened /\ reasons.attended.answers = r.answers
      /\ cluster.needed => reasons.attended.user = "known"
  <2>1. reasons.attended = PrepareOpening(cluster.memory, hops, person, cluster.needed)
    BY <1>4 DEF OpeningsOf
  <2>2. PICK u : Account(cluster.memory.user, person, cluster.needed) = [ok |-> TRUE, user |-> u]
                 /\ (cluster.needed => u = "known")
    BY DEF Account
  <2>3. Open(cluster.memory, hops, person, cluster.needed) = [answers |-> r.answers, user |-> u, opened |-> r.ok]
    <3>1. PICK memory, needed : memory = cluster.memory /\ needed = cluster.needed
      OBVIOUS
    <3>2. Account(memory.user, person, needed) = [ok |-> TRUE, user |-> u]
      BY <2>2, <3>1
    <3>3. Reaches(Begun(memory.answers), hops, person) = r
      BY <1>3, <1>5, <3>1
    <3>4. Open(memory, hops, person, needed) = [answers |-> r.answers, user |-> u, opened |-> r.ok]
      BY <3>2, <3>3, OpenIs
    <3> QED BY <3>1, <3>4
  <2> QED BY <1>5, <2>1, <2>2, <2>3 DEF PrepareOpening
<1>8. reasons.reserve.opened <=> Reaches(z, hops, "nobody").ok
  <2>1. PICK memory : memory = [user |-> reasons.attended.user, answers |-> reasons.attended.answers]
    OBVIOUS
  <2>2. reasons.reserve = Open(memory, hops, "nobody", cluster.needed)
    BY <1>4, <2>1 DEF OpeningsOf
  <2>3. Account(memory.user, "nobody", cluster.needed) = [ok |-> TRUE, user |-> memory.user]
    BY <1>7, <2>1 DEF Account
  <2>4. memory.answers = r.answers
    BY <1>7, <2>1
  <2> QED BY <1>6, <2>2, <2>3, <2>4, OpenIs
<1>9. z.ok /\ z.answers = r.answers
  BY <1>6 DEF Begun
<1>10. reasons.reserve.opened <=> \A h \in 1..Len(hops) : Alone(r.answers, hops[h])
  BY <1>8, <1>9, OpenedByNobody
<1> QED BY <1>1, <1>4, <1>5, <1>7, <1>10

LEMMA AnswersTold ==
  ASSUME Judged("answers"), GoodAnswers(cluster), reasons = OpeningsOf(cluster)
  PROVE  AnswersAreKept
<1>1. PICK hops, f :
          /\ hops \in Seq(Seq(Questions)) /\ hops = cluster.hops /\ reasons.attended.opened
          /\ \A h \in 1..Len(hops) : \A i \in 1..Len(hops[h]) : Kept(f, hops[h][i].text)
          /\ reasons.reserve.opened <=> \A h \in 1..Len(hops) : Alone(f, hops[h])
  BY OpeningsTold
<1>2. DOMAIN hops = 1..Len(hops) /\ \A h \in 1..Len(hops) : DOMAIN hops[h] = 1..Len(hops[h])
  <2>1. DOMAIN hops = 1..Len(hops)
    BY <1>1, LenProperties
  <2>2. ASSUME NEW h \in 1..Len(hops) PROVE DOMAIN hops[h] = 1..Len(hops[h])
    <3>0. hops \in Seq(Seq(Questions))
      BY <1>1
    <3>1. PICK s \in Seq(Questions) : s = hops[h]
      BY <3>0, ElementOfSeq
    <3> QED BY <3>1, LenProperties
  <2> QED BY <2>1, <2>2
<1>3. \A a : a \in Askings <=> \E h \in 1..Len(hops) : \E i \in 1..Len(hops[h]) : a = <<h, i>>
  BY <1>1, <1>2 DEF Askings
<1>4. \A h, i : Asked(<<h, i>>) = hops[h][i]
  BY <1>1 DEF Asked
<1>5. ASSUME \A h \in 1..Len(hops) : Alone(f, hops[h]),
             NEW a \in Askings, NEW b \in Askings, a # b, Asked(a).text = Asked(b).text
      PROVE  a[1] # b[1] /\ Asked(a).right = Asked(b).right
  <2>1. PICK h, i : h \in 1..Len(hops) /\ i \in 1..Len(hops[h]) /\ a = <<h, i>>
    BY <1>3
  <2>2. PICK k, j : k \in 1..Len(hops) /\ j \in 1..Len(hops[k]) /\ b = <<k, j>>
    BY <1>3
  <2>3. hops[h][i].text = hops[k][j].text
    BY <1>4, <1>5, <2>1, <2>2
  <2>4. h # k
    BY <1>5, <2>1, <2>2, <2>3 DEF Alone
  <2>5. hops[h][i].right = hops[k][j].right
    <3>1. f[hops[h][i].text] = hops[h][i].right /\ f[hops[k][j].text] = hops[k][j].right
      BY <1>5, <2>1, <2>2 DEF Alone
    <3> QED BY <2>3, <3>1
  <2> QED BY <1>4, <2>1, <2>2, <2>4, <2>5
<1>6. ASSUME \A a, b \in Askings : (a # b /\ Asked(a).text = Asked(b).text) =>
                                      (a[1] # b[1] /\ Asked(a).right = Asked(b).right),
             NEW h \in 1..Len(hops)
      PROVE  Alone(f, hops[h])
  <2>1. ASSUME NEW i \in 1..Len(hops[h])
        PROVE  hops[h][i].text \in DOMAIN f /\ f[hops[h][i].text] = hops[h][i].right
    <3>1. PICK q \in Questions : /\ hops[h][i].text \in DOMAIN f /\ q.text = hops[h][i].text
                                 /\ f[hops[h][i].text] = q.right
      BY <1>1 DEF Kept
    <3>2. PICK b \in Askings : q = Asked(b)
      BY DEF Questions
    <3>3. PICK a \in Askings : a = <<h, i>> /\ Asked(a) = hops[h][i]
      BY <1>3, <1>4
    <3>4. Asked(a).right = Asked(b).right
      BY <1>6, <3>1, <3>2, <3>3
    <3> QED BY <3>1, <3>2, <3>3, <3>4
  <2>2. ASSUME NEW i \in 1..Len(hops[h]), NEW j \in 1..Len(hops[h]), i # j
        PROVE  hops[h][i].text # hops[h][j].text
    <3>1. PICK a \in Askings, b \in Askings :
              /\ a = <<h, i>> /\ Asked(a) = hops[h][i] /\ b = <<h, j>> /\ Asked(b) = hops[h][j]
      BY <1>3, <1>4
    <3>2. a # b /\ a[1] = b[1]
      BY <2>2, <3>1
    <3> QED BY <1>6, <3>1, <3>2
  <2> QED BY <2>1, <2>2 DEF Alone
<1>7. ReserveOpensAlone
  BY <1>1, <1>5, <1>6 DEF ReserveOpensAlone
<1>8. AttendedComesThrough
  BY <1>1 DEF AttendedComesThrough
<1> QED BY <1>7, <1>8 DEF AnswersAreKept

-----------------------------------------------------------------------------
(* Whatever bytes cross a jump, however its reads cut them and whether or  *)
(* not ssh looks for an escape character, those that were sent come out at *)
(* its end; whatever its hops ask, and whatever was remembered, a person   *)
(* who attends comes through, and the reserve opens without one exactly    *)
(* when nothing is asked that it cannot know (src/jump.rs:1-500).          *)
THEOREM JumpsToldOfAll == JumpSpec => []JumpsAreFaithful
<1> DEFINE Inv == /\ GoodJump(cluster) /\ assessed \in BOOLEAN
                  /\ assessed => \/ About("bytes") /\ reasons = TypedFor(cluster)
                                 \/ About("answers") /\ reasons = OpeningsOf(cluster)
           Judging == ~assessed /\ assessed' = TRUE /\ (CollectBytes \/ CollectAnswers) /\ UNCHANGED cluster
           seen == <<cluster, reasons, assessed>>
<1>1. (GoodJump(cluster) /\ assessed = FALSE) => Inv
  OBVIOUS
<1>2. Inv /\ [Judging]_seen => Inv'
  <2>1. ASSUME Inv, Judging PROVE Inv'
    <3>0. cluster' = cluster /\ assessed' = TRUE /\ GoodJump(cluster')
      BY <2>1
    <3>1. CASE CollectBytes
      <4>1. About("bytes")' /\ reasons' = TypedFor(cluster')
        BY <3>0, <3>1 DEF CollectBytes, About
      <4> QED BY <3>0, <4>1
    <3>2. CASE CollectAnswers
      <4>1. About("answers")' /\ reasons' = OpeningsOf(cluster')
        BY <3>0, <3>2 DEF CollectAnswers, About
      <4> QED BY <3>0, <4>1
    <3> QED BY <2>1, <3>1, <3>2
  <2>2. ASSUME Inv, UNCHANGED seen PROVE Inv'
    BY <2>2 DEF About
  <2> QED BY <2>1, <2>2
<1>3. Inv => JumpsAreFaithful
  <2>1. CASE ~assessed
    BY <2>1 DEF JumpsAreFaithful, RelayIsFaithful, AnswersAreKept, RelayGetsWhatIsSent, SshForwardsWhatIsSent,
                AttendedComesThrough, ReserveOpensAlone, Judged
  <2>2. ASSUME Inv, assessed, About("bytes"), reasons = TypedFor(cluster) PROVE JumpsAreFaithful
    <3>1. GoodBytes(cluster) /\ Judged("bytes") /\ ~Judged("answers")
      BY <2>2 DEF GoodJump, Judged, About
    <3>2. RelayIsFaithful
      BY <2>2, <3>1, BytesTold
    <3>3. AnswersAreKept
      BY <3>1 DEF AnswersAreKept, AttendedComesThrough, ReserveOpensAlone
    <3> QED BY <3>2, <3>3 DEF JumpsAreFaithful
  <2>3. ASSUME Inv, assessed, About("answers"), reasons = OpeningsOf(cluster) PROVE JumpsAreFaithful
    <3>1. GoodAnswers(cluster) /\ Judged("answers") /\ ~Judged("bytes")
      BY <2>3 DEF GoodJump, Judged, About
    <3>2. AnswersAreKept
      BY <2>3, <3>1, AnswersTold
    <3>3. RelayIsFaithful
      BY <3>1 DEF RelayIsFaithful, RelayGetsWhatIsSent, SshForwardsWhatIsSent
    <3> QED BY <3>2, <3>3 DEF JumpsAreFaithful
  <2> QED BY <2>1, <2>2, <2>3
<1> HIDE DEF Inv
<1> QED BY <1>1, <1>2, <1>3, PTL DEF JumpSpec
=============================================================================
