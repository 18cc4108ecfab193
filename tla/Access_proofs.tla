--------------------------- MODULE Access_proofs ---------------------------
(***************************************************************************)
(* Who gets in, what they are granted, and the secrets that go with it.    *)
(*                                                                         *)
(* For any number of flows, browsers, sessions and restarts: no return of  *)
(* a flow opens a second session, one handler at a time renews a session's *)
(* credential, and none is renewed for nothing or replaced by an older one. *)
(*                                                                         *)
(* For any roles, bindings and accounts: what the view of the grants ranks, *)
(* shows and leaves out is what they allow.                                *)
(*                                                                         *)
(* For any objects, namespaces and consumers: each mirror has its place,    *)
(* and one that is forced is sent again, whatever the order of the writes  *)
(* and of what the reflector hears of them.                                *)
(***************************************************************************)
EXTENDS WebSession, MCRbacRules, MCMirrorRules,
        FiniteSetTheorems, SequenceTheorems, WellFoundedInduction, TLAPS

flowVars == <<now, pending, begun, cb, from>>

Shape ==
  /\ now \in Nat \ {0}
  /\ pending \subseteq Flows
  /\ begun \in [Flows -> Nat]
  /\ cb \in [Callbacks -> [pc : {"idle", "exchange"}, flow : Flows \cup {NoFlow}]]
  /\ from \in [Sids -> Flows \cup {NoFlow}]

(* The flow a callback has in hand, NoFlow when it is idle.                *)
HeldBy(c) == IF cb[c].pc = "exchange" THEN cb[c].flow ELSE NoFlow

(* A flow is in one place at a time: among the pending ones, in the hands  *)
(* of one callback, or spent on a session; before it begins, in none.      *)
OnePlace ==
  /\ \A f \in pending : begun[f] > 0
  /\ \A c \in Callbacks : HeldBy(c) # NoFlow => begun[HeldBy(c)] > 0 /\ HeldBy(c) \notin pending
  /\ \A s \in Sids : from[s] # NoFlow => begun[from[s]] > 0 /\ from[s] \notin pending
  /\ \A c, d \in Callbacks : (HeldBy(c) # NoFlow /\ HeldBy(c) = HeldBy(d)) => c = d
  /\ \A c \in Callbacks, s \in Sids : HeldBy(c) # NoFlow => from[s] # HeldBy(c)
  /\ OneSessionPerFlow

FlowInv == Shape /\ OnePlace

-----------------------------------------------------------------------------
LEMMA FlowInit == Init => FlowInv
  BY SessionAssumption
  DEF Init, FlowInv, Shape, OnePlace, OneSessionPerFlow, HeldBy, IdleCallback

(* A new flow was in no place: its random state is a fresh one.            *)
LEMMA LoginKeeps == ASSUME FlowInv, NEW f \in Flows, Login(f) PROVE FlowInv'
<1>1. /\ pending' \subseteq pending \cup {f}
      /\ begun' = [begun EXCEPT ![f] = now] /\ begun[f] = 0
      /\ cb' = cb /\ from' = from /\ now' = now
  BY DEF Login, Retained, session
<1>2. Shape'
  BY <1>1 DEF FlowInv, Shape
<1>3. \A c \in Callbacks : HeldBy(c)' = HeldBy(c)
  BY <1>1 DEF HeldBy
<1>4. \A c \in Callbacks : HeldBy(c) \in Flows \cup {NoFlow}
  BY DEF HeldBy, FlowInv, Shape
<1>5. \A g \in Flows : begun[g] > 0 => g # f /\ begun'[g] > 0
  BY <1>1 DEF FlowInv, Shape
<1>6. OnePlace'
  <2>1. \A g \in pending' : begun'[g] > 0
    BY <1>1, <1>5 DEF FlowInv, Shape, OnePlace
  <2>2. \A c \in Callbacks : HeldBy(c) # NoFlow => begun'[HeldBy(c)] > 0 /\ HeldBy(c) \notin pending'
    BY <1>1, <1>4, <1>5 DEF FlowInv, OnePlace
  <2>3. \A s \in Sids : from[s] # NoFlow => begun'[from[s]] > 0 /\ from[s] \notin pending'
    BY <1>1, <1>5 DEF FlowInv, Shape, OnePlace
  <2> QED BY <1>1, <1>3, <2>1, <2>2, <2>3 DEF FlowInv, OnePlace, OneSessionPerFlow
<1> QED BY <1>2, <1>6 DEF FlowInv

(* The return moves the flow from the pending ones to one callback.        *)
LEMMA ReturnKeeps ==
  ASSUME FlowInv, NEW c \in Callbacks, NEW f \in Flows, Return(c, f) PROVE FlowInv'
<1>1. /\ pending' \subseteq pending \ {f}
      /\ begun' = begun /\ from' = from /\ now' = now
      /\ cb[c].pc = "idle" /\ begun[f] > 0
  BY DEF Return, Retained, session
<1>2. CASE cb' = cb
  <2>1. \A d \in Callbacks : HeldBy(d)' = HeldBy(d)
    BY <1>2 DEF HeldBy
  <2> QED BY <1>1, <1>2, <2>1 DEF FlowInv, Shape, OnePlace, OneSessionPerFlow
<1>3. CASE f \in pending /\ cb' = [cb EXCEPT ![c] = [pc |-> "exchange", flow |-> f]]
  <2>1. Shape'
    BY <1>1, <1>3 DEF FlowInv, Shape
  <2>2. HeldBy(c)' = f
    BY <1>3 DEF HeldBy, FlowInv, Shape
  <2>3. \A d \in Callbacks : d # c => HeldBy(d)' = HeldBy(d)
    BY <1>3 DEF HeldBy, FlowInv, Shape
  <2>4. \A d \in Callbacks : HeldBy(d) # f
    BY <1>3, SessionAssumption DEF FlowInv, OnePlace
  <2>5. \A s \in Sids : from[s] # f
    BY <1>3, SessionAssumption DEF FlowInv, OnePlace
  <2> QED BY <1>1, <1>3, <2>1, <2>2, <2>3, <2>4, <2>5 DEF FlowInv, OnePlace, OneSessionPerFlow
<1> QED BY <1>2, <1>3 DEF Return, Retained

(* The exchange moves it from that callback to a session of its own.       *)
LEMMA ExchangedKeeps ==
  ASSUME FlowInv, NEW c \in Callbacks, NEW s \in Sids, Exchanged(c, s) PROVE FlowInv'
<1>1. /\ cb' = [cb EXCEPT ![c] = IdleCallback]
      /\ from' = [from EXCEPT ![s] = HeldBy(c)]
      /\ pending' = pending /\ begun' = begun /\ now' = now
      /\ from[s] = NoFlow
  BY DEF Exchanged, HeldBy
<1>2. Shape'
  BY <1>1 DEF FlowInv, Shape, IdleCallback, HeldBy
<1>3. HeldBy(c)' = NoFlow /\ \A d \in Callbacks : d # c => HeldBy(d)' = HeldBy(d)
  BY <1>1 DEF HeldBy, FlowInv, Shape, IdleCallback
<1>4. from'[s] = HeldBy(c) /\ \A t \in Sids : t # s => from'[t] = from[t]
  BY <1>1 DEF FlowInv, Shape
<1> QED BY <1>1, <1>2, <1>3, <1>4 DEF FlowInv, OnePlace, OneSessionPerFlow

(* Dropped callbacks and forgotten flows are in no place any more.         *)
LEMMA DroppedKeeps ==
  ASSUME FlowInv, pending' \subseteq pending, UNCHANGED <<now, begun, from>>,
         cb' \in [Callbacks -> [pc : {"idle", "exchange"}, flow : Flows \cup {NoFlow}]],
         \A c \in Callbacks : cb'[c] = cb[c] \/ cb'[c].pc = "idle"
  PROVE  FlowInv'
<1>1. \A c \in Callbacks : HeldBy(c)' = HeldBy(c) \/ HeldBy(c)' = NoFlow
  BY DEF HeldBy
<1>2. Shape'
  BY DEF FlowInv, Shape
<1> QED BY <1>1, <1>2 DEF FlowInv, Shape, OnePlace, OneSessionPerFlow

LEMMA FlowStep == FlowInv /\ [Next]_vars => FlowInv'
<1> SUFFICES ASSUME FlowInv, [Next]_vars PROVE FlowInv'
  OBVIOUS
<1>1. ASSUME NEW f \in Flows, Login(f) PROVE FlowInv'
  BY <1>1, LoginKeeps
<1>2. ASSUME NEW f \in Flows, NEW c \in Callbacks, Return(c, f) PROVE FlowInv'
  BY <1>2, ReturnKeeps
<1>3. ASSUME NEW c \in Callbacks, CallbackStep(c) PROVE FlowInv'
  <2>1. CASE NotExchanged(c)
    BY <2>1, DroppedKeeps DEF NotExchanged, session, IdleCallback, FlowInv, Shape
  <2> QED BY <1>3, <2>1, ExchangedKeeps DEF CallbackStep
<1>4. CASE Restart
  BY <1>4, DroppedKeeps DEF Restart, session, IdleCallback
<1>5. CASE Tick
  BY <1>5 DEF Tick, session, FlowInv, Shape, OnePlace, OneSessionPerFlow, HeldBy
<1>6. ASSUME UNCHANGED flowVars PROVE FlowInv'
  BY <1>6 DEF flowVars, FlowInv, Shape, OnePlace, OneSessionPerFlow, HeldBy
<1>7. ASSUME NEW r \in Requests,
             LocalStep(r) \/ PortalAnswers(r) \/ Abandon(r) \/ \E s \in Sids : Arrive(r, s)
      PROVE  UNCHANGED flowVars
  BY <1>7 DEF LocalStep, PortalAnswers, Abandon, Arrive, Lock, Reuse, RightOver, StartRenewal, Refreshed,
              Minted, Store, PortalRefuses, PortalUnreachable, Serve, session, flowVars
<1>8. ASSUME NEW s \in Sids, Logout(s) \/ Closed(s) \/ Revoked(s) PROVE UNCHANGED flowVars
  BY <1>8 DEF Logout, Closed, Revoked, session, flowVars
<1>9. CASE UNCHANGED vars
  BY <1>6, <1>9 DEF vars, flowVars
<1> QED BY <1>1, <1>2, <1>3, <1>4, <1>5, <1>6, <1>7, <1>8, <1>9 DEF Next

(* However often a return is replayed, and whatever is lost on the way, a  *)
(* flow opens one session at most.                                         *)
THEOREM FlowsOpenOnce == Spec => []OneSessionPerFlow
<1>1. FlowInv => OneSessionPerFlow
  BY DEF FlowInv, OnePlace
<1> QED BY <1>1, FlowInit, FlowStep, PTL DEF Spec
-----------------------------------------------------------------------------
(* The mutex of the credential *)

Waits(r) == req[r].pc = "queued" \/ Renewing(r)

(* The tables keep their shape.                                            *)
Tables ==
  /\ now \in 1..MaxTime
  /\ pending \subseteq Flows
  /\ begun \in [Flows -> Times]
  /\ cb \in [Callbacks -> [pc : {"idle", "exchange"}, flow : Flows \cup {NoFlow}]]
  /\ open \subseteq Sids
  /\ from \in [Sids -> Flows \cup {NoFlow}]
  /\ until \in [Sids -> Times]
  /\ right \in [Sids -> {"none", "live", "revoked"}]
  /\ credential \in [Sids -> Times]
  /\ req \in [Requests -> RequestType]
  /\ closing \subseteq Sids
  /\ queue \in [Sids -> Seq(Requests)]

(* A handler that is not idle is one of a session.                         *)
LiveHandlers ==
  /\ \A r \in Requests : req[r].pc # "idle" => req[r].sid \in Sids
  /\ \A c \in Callbacks : cb[c].pc = "exchange" => cb[c].flow \in Flows

(* Who waits or renews is in the queue of its session, once.               *)
Queues ==
  \A s \in Sids : /\ IsInjective(queue[s])
                  /\ Waiting(s) = {r \in Requests : req[r].sid = s /\ Waits(r)}

(* Who renews is at the head of it.                                        *)
RenewerHolds == \A r \in Requests : Renewing(r) => Holds(r)

(* No handler knows a later time than the clock's, and no slot holds a     *)
(* credential that outlives the one a portal would sign now.               *)
Clocks ==
  /\ \A r \in Requests : req[r].clock <= now
  /\ \A s \in Sids : credential[s] <= now + CredentialLife
  /\ \A r \in Requests :
       req[r].pc = "store" => /\ credential[req[r].sid] <= req[r].expires
                              /\ req[r].expires <= now + CredentialLife

SlotInv == Tables /\ LiveHandlers /\ Queues /\ RenewerHolds /\ Clocks

LEMMA TypeIsTables == TypeOK <=> Tables /\ Queues
  BY DEF TypeOK, Tables, Queues, Waits

(* What leaving does to a queue without repetitions.                       *)
LEMMA RemoveOnce ==
  ASSUME NEW S, NEW q \in Seq(S), IsInjective(q), NEW r
  PROVE  /\ RemoveFirst(q, r) \in Seq(S)
         /\ IsInjective(RemoveFirst(q, r))
         /\ ToSet(RemoveFirst(q, r)) = ToSet(q) \ {r}
         /\ q # << >> /\ Head(q) # r =>
              RemoveFirst(q, r) # << >> /\ Head(RemoveFirst(q, r)) = Head(q)
<1>1. CASE ~ \E i \in 1..Len(q) : q[i] = r
  <2>1. RemoveFirst(q, r) = q
    BY <1>1 DEF RemoveFirst
  <2>2. r \notin ToSet(q)
    BY <1>1 DEF ToSet
  <2> QED BY <2>1, <2>2
<1>2. CASE \E i \in 1..Len(q) : q[i] = r
  <2>1. PICK i \in 1..Len(q) : q[i] = r
    BY <1>2
  <2>2. {j \in 1..Len(q) : q[j] = r} = {i}
    BY <2>1 DEF IsInjective
  <2>3. Min({i}) = i
    BY DEF Min
  <2>4. RemoveFirst(q, r) = SubSeq(q, 1, i - 1) \o SubSeq(q, i + 1, Len(q))
    BY <1>2, <2>2, <2>3 DEF RemoveFirst, RemoveAt, SelectInSeq
  <2> DEFINE R == RemoveFirst(q, r)
             At(j) == IF j < i THEN j ELSE j + 1
  <2>0. Len(q) \in Nat /\ i \in Nat /\ i >= 1 /\ i <= Len(q) /\ DOMAIN q = 1..Len(q)
    OBVIOUS
  <2>a. /\ SubSeq(q, 1, i - 1) \in Seq(S) /\ Len(SubSeq(q, 1, i - 1)) = i - 1
        /\ \A j \in 1..(i - 1) : SubSeq(q, 1, i - 1)[j] = q[j]
    OBVIOUS
  <2>b. /\ SubSeq(q, i + 1, Len(q)) \in Seq(S) /\ Len(SubSeq(q, i + 1, Len(q))) = Len(q) - i
        /\ \A j \in 1..(Len(q) - i) : SubSeq(q, i + 1, Len(q))[j] = q[j + i]
    OBVIOUS
  <2>5. PICK a \in Seq(S) :
          /\ a = SubSeq(q, 1, i - 1) /\ Len(a) = i - 1
          /\ \A j \in 1..(i - 1) : a[j] = q[j]
    BY <2>a
  <2>6. PICK b \in Seq(S) :
          /\ b = SubSeq(q, i + 1, Len(q)) /\ Len(b) = Len(q) - i
          /\ \A j \in 1..(Len(q) - i) : b[j] = q[j + i]
    BY <2>b
  <2> HIDE DEF R
  <2>r. R = a \o b
    BY <2>4, <2>5, <2>6 DEF R
  <2>7. R \in Seq(S) /\ Len(R) = Len(q) - 1 /\ DOMAIN R = 1..(Len(q) - 1)
    <3>1. R \in Seq(S) /\ Len(R) = Len(a) + Len(b)
      BY <2>r, ConcatProperties
    <3>2. Len(R) = Len(q) - 1
      <4>1. Len(R) = Len(a) + Len(b) /\ Len(a) = i - 1 /\ Len(b) = Len(q) - i
        BY <2>5, <2>6, <3>1
      <4> QED BY <2>0, <4>1
    <3> QED BY <3>1, <3>2
  <2>8. \A j \in 1..(Len(q) - 1) : R[j] = q[At(j)]
    <3>1. \A j \in 1..(Len(a) + Len(b)) : R[j] = IF j <= Len(a) THEN a[j] ELSE b[j - Len(a)]
      BY <2>r, ConcatProperties
    <3>2. ASSUME NEW j \in 1..(Len(q) - 1) PROVE R[j] = q[At(j)]
      <4>0. j \in 1..(Len(a) + Len(b))
        <5>1. Len(a) = i - 1 /\ Len(b) = Len(q) - i
          BY <2>5, <2>6
        <5> QED BY <2>0, <5>1
      <4>1. R[j] = IF j <= i - 1 THEN a[j] ELSE b[j - (i - 1)]
        BY <2>5, <3>1, <4>0
      <4>2. CASE j <= i - 1
        BY <2>0, <2>5, <4>1, <4>2
      <4>3. CASE j > i - 1
        <5>1. j - (i - 1) \in 1..(Len(q) - i) /\ (j - (i - 1)) + i = j + 1
          BY <2>0, <4>3
        <5>2. R[j] = b[j - (i - 1)]
          BY <2>0, <4>1, <4>3
        <5>3. b[j - (i - 1)] = q[j + 1]
          BY <2>6, <5>1
        <5> QED BY <2>0, <4>3, <5>2, <5>3
      <4> QED BY <2>0, <4>2, <4>3
    <3> QED BY <3>2
  <2>9. IsInjective(R)
    <3> SUFFICES ASSUME NEW j \in 1..(Len(q) - 1), NEW k \in 1..(Len(q) - 1), R[j] = R[k]
                 PROVE  j = k
      BY <2>7 DEF IsInjective
    <3>1. At(j) \in 1..Len(q) /\ At(k) \in 1..Len(q) /\ q[At(j)] = q[At(k)]
      BY <2>8
    <3>2. At(j) = At(k)
      BY <3>1 DEF IsInjective
    <3> QED BY <3>2
  <2>10. ToSet(R) \subseteq ToSet(q) \ {r}
    <3> SUFFICES ASSUME NEW j \in 1..(Len(q) - 1) PROVE R[j] \in ToSet(q) /\ R[j] # r
      BY <2>7 DEF ToSet
    <3>1. At(j) \in 1..Len(q) /\ At(j) # i
      BY <2>0
    <3>2. R[j] = q[At(j)]
      BY <2>8
    <3> HIDE DEF At
    <3>3. q[At(j)] # q[i]
      BY <2>0, <3>1 DEF IsInjective
    <3> QED BY <2>0, <2>1, <3>1, <3>2, <3>3 DEF ToSet
  <2>11. ToSet(q) \ {r} \subseteq ToSet(R)
    <3> SUFFICES ASSUME NEW k \in 1..Len(q), q[k] # r PROVE q[k] \in ToSet(R)
      BY DEF ToSet
    <3>1. CASE k < i
      <4>1. k \in 1..(Len(q) - 1) /\ At(k) = k
        BY <2>0, <3>1
      <4> QED BY <2>7, <2>8, <4>1 DEF ToSet
    <3>2. CASE k > i
      <4>1. k - 1 \in 1..Len(R) /\ At(k - 1) = k
        BY <2>7, <3>2
      <4>2. R[k - 1] = q[k]
        BY <2>7, <2>8, <4>1
      <4> HIDE DEF R
      <4> QED BY <2>7, <4>1, <4>2 DEF ToSet
    <3> QED BY <2>1, <3>1, <3>2
  <2>12. q # << >> /\ Head(q) # r => R # << >> /\ Head(R) = Head(q)
    <3> SUFFICES ASSUME Head(q) # r PROVE R # << >> /\ Head(R) = Head(q)
      OBVIOUS
    <3>1. i > 1
      BY <2>1
    <3>2. 1 \in 1..Len(R) /\ R[1] = q[1]
      BY <2>7, <2>8, <3>1
    <3> QED BY <2>7, <3>2
  <2> QED BY <2>7, <2>9, <2>10, <2>11, <2>12 DEF R
<1> QED BY <1>1, <1>2

LEMMA SlotInit == Init => SlotInv
<1> SUFFICES ASSUME Init PROVE SlotInv
  OBVIOUS
<1>1. 0 \in Times
  BY SessionAssumption DEF Times
<1>2. Tables
  BY <1>1, SessionAssumption
  DEF Init, Tables, IdleCallback, IdleRequest, RequestType, NoCredential
<1>3. Queues
  BY DEF Init, Queues, Waits, Renewing, Waiting, ToSet, IsInjective, IdleRequest
<1>4. LiveHandlers /\ RenewerHolds
  BY DEF Init, LiveHandlers, RenewerHolds, Renewing, IdleCallback, IdleRequest
<1>5. Clocks
  BY SessionAssumption DEF Init, Clocks, IdleRequest, NoCredential
<1> QED BY <1>2, <1>3, <1>4, <1>5 DEF SlotInv

(* A step that changes neither a handler nor a queue, and whose clock does *)
(* not go back.                                                            *)
LEMMA Aside ==
  ASSUME SlotInv, Tables', UNCHANGED <<req, queue, credential>>, now <= now',
         \A c \in Callbacks : cb'[c].pc = "exchange" => cb'[c].flow \in Flows
  PROVE  SlotInv'
<1>1. Queues' /\ RenewerHolds'
  BY DEF SlotInv, Queues, RenewerHolds, Waiting, Waits, Renewing, Holds
<1>2. LiveHandlers'
  BY DEF SlotInv, LiveHandlers
<1>3. Clocks'
  <2>1. /\ now \in Int /\ now' \in Int /\ CredentialLife \in Int
        /\ \A s \in Sids : credential[s] \in Int
        /\ \A r \in Requests : req[r].clock \in Int /\ req[r].expires \in Int
    <3>1. Times \subseteq Int
      BY SessionAssumption DEF Times
    <3>2. \A r \in Requests : req[r].clock \in Times /\ req[r].expires \in Times
      BY DEF SlotInv, Tables, RequestType
    <3>3. now \in 1..MaxTime /\ now' \in 1..MaxTime /\ credential \in [Sids -> Times]
      BY DEF SlotInv, Tables
    <3>4. now \in Int /\ now' \in Int /\ CredentialLife \in Int
      BY <3>3, SessionAssumption
    <3>5. \A s \in Sids : credential[s] \in Int
      BY <3>1, <3>3
    <3>6. \A r \in Requests : req[r].clock \in Int /\ req[r].expires \in Int
      BY <3>1, <3>2
    <3> QED BY <3>4, <3>5, <3>6
  <2> QED BY <2>1 DEF SlotInv, Clocks
<1> QED BY <1>1, <1>2, <1>3 DEF SlotInv

(* A handler goes on without a change of place.                            *)
LEMMA Stays ==
  ASSUME SlotInv, NEW r \in Requests, NEW h \in RequestType,
         req' = [req EXCEPT ![r] = h],
         UNCHANGED <<now, pending, begun, cb, open, session, queue, closing>>,
         h.pc # "idle" => h.sid \in Sids,
         Waits(r) => h.sid = req[r].sid,
         Waits(r) <=> h.pc \in {"queued", "refresh", "mint", "store"},
         h.pc \in {"refresh", "mint", "store"} => Holds(r),
         h.clock <= now,
         h.pc = "store" => h.expires = now + CredentialLife
  PROVE  SlotInv'
<1>0. req'[r] = h /\ \A q \in Requests : q # r => req'[q] = req[q]
  BY DEF SlotInv, Tables
<1>1. Tables'
  BY DEF SlotInv, Tables, session
<1>2. LiveHandlers'
  BY <1>0 DEF SlotInv, LiveHandlers
<1>3. \A q \in Requests : Waits(q)' = Waits(q) /\ (Waits(q) => req'[q].sid = req[q].sid)
  BY <1>0 DEF Waits, Renewing
<1>4. Queues'
  BY <1>3 DEF SlotInv, Queues, Waiting
<1>5. RenewerHolds'
  BY <1>0, <1>3 DEF SlotInv, RenewerHolds, Renewing, Holds, Waits
<1>6. Clocks'
  <2>1. h.pc = "store" => credential[h.sid] <= h.expires /\ h.expires <= now + CredentialLife
    BY SessionAssumption DEF SlotInv, Clocks, Tables, Times
  <2> QED BY <1>0, <2>1 DEF SlotInv, Clocks, session
<1> QED BY <1>1, <1>2, <1>4, <1>5, <1>6 DEF SlotInv

(* A handler leaves the mutex, or was not at it.                           *)
LEMMA Leaves ==
  ASSUME SlotInv, NEW r \in Requests, NEW h \in RequestType, req[r].sid \in Sids,
         req' = [req EXCEPT ![r] = h], queue' = Left(r, req[r].sid),
         UNCHANGED <<now, pending, begun, cb, open, from, until, right, closing>>,
         h.pc \in {"idle", "serving"},
         h.pc # "idle" => h.sid \in Sids,
         h.clock <= now,
         \/ credential' = credential
         \/ /\ req[r].pc = "store"
            /\ credential' = [credential EXCEPT ![req[r].sid] = req[r].expires]
  PROVE  SlotInv'
<1>s. PICK s \in Sids : s = req[r].sid
  OBVIOUS
<1> DEFINE Q == RemoveFirst(queue[s], r)
<1>0. req'[r] = h /\ \A q \in Requests : q # r => req'[q] = req[q]
  BY DEF SlotInv, Tables
<1>q. queue[s] \in Seq(Requests) /\ IsInjective(queue[s])
  BY DEF SlotInv, Tables, Queues
<1>1. /\ Q \in Seq(Requests) /\ IsInjective(Q) /\ ToSet(Q) = ToSet(queue[s]) \ {r}
      /\ queue[s] # << >> /\ Head(queue[s]) # r => Q # << >> /\ Head(Q) = Head(queue[s])
  BY <1>q, RemoveOnce
<1> HIDE DEF Q
<1>2. queue'[s] = Q /\ \A t \in Sids : t # s => queue'[t] = queue[t]
  BY <1>s DEF Left, SlotInv, Tables, Q
<1>3. Tables'
  <2>1. queue' \in [Sids -> Seq(Requests)]
    BY <1>1, <1>s DEF Left, SlotInv, Tables, Q
  <2>2. credential' \in [Sids -> Times]
    BY DEF SlotInv, Tables, RequestType
  <2> QED BY <2>1, <2>2 DEF SlotInv, Tables
<1>4. LiveHandlers'
  BY <1>0 DEF SlotInv, LiveHandlers
<1>5. ~Waits(r)' /\ \A q \in Requests : q # r => Waits(q)' = Waits(q)
  BY <1>0 DEF Waits, Renewing
<1>6. Queues'
  <2>1. \A t \in Sids : Waiting(t) = {q \in Requests : req[q].sid = t /\ Waits(q)}
    BY DEF SlotInv, Queues
  <2>2. \A t \in Sids : t # s => Waiting(t)' = Waiting(t)
    BY <1>2 DEF Waiting
  <2>3. Waiting(s)' = Waiting(s) \ {r}
    BY <1>1, <1>2 DEF Waiting
  <2>4. \A t \in Sids : IsInjective(queue'[t])
    BY <1>1, <1>2 DEF SlotInv, Queues
  <2>5. \A t \in Sids : Waiting(t)' = {q \in Requests : req'[q].sid = t /\ Waits(q)'}
    BY <1>0, <1>5, <1>s, <2>1, <2>2, <2>3
  <2> QED BY <2>4, <2>5 DEF Queues
<1>7. RenewerHolds'
  <2> SUFFICES ASSUME NEW q \in Requests, Renewing(q)' PROVE Holds(q)'
    BY DEF RenewerHolds
  <2>1. q # r /\ req'[q] = req[q] /\ Renewing(q) /\ Holds(q)
    BY <1>0 DEF Renewing, SlotInv, RenewerHolds
  <2>2. req[q].sid \in Sids
    BY <2>1 DEF SlotInv, LiveHandlers, Renewing
  <2> QED BY <1>1, <1>2, <2>1, <2>2 DEF Holds
<1>8. Clocks'
  <2>1. \A t \in Sids : /\ credential'[t] <= now + CredentialLife
                        /\ credential'[t] = credential[t] \/ (t = s /\ req[r].pc = "store")
    BY <1>s DEF SlotInv, Clocks, Tables
  <2>2. ASSUME NEW q \in Requests, req'[q].pc = "store"
        PROVE  /\ credential'[req'[q].sid] <= req'[q].expires
               /\ req'[q].expires <= now + CredentialLife
    <3>1. q # r /\ req'[q] = req[q] /\ Renewing(q) /\ Holds(q) /\ req[q].sid \in Sids
      BY <1>0, <2>2 DEF Renewing, SlotInv, RenewerHolds, LiveHandlers
    <3>2. req[r].pc = "store" => Holds(r)
      BY DEF Renewing, SlotInv, RenewerHolds
    <3>3. credential'[req[q].sid] = credential[req[q].sid]
      BY <1>s, <2>1, <3>1, <3>2 DEF Holds
    <3> QED BY <2>2, <3>1, <3>3 DEF SlotInv, Clocks
  <2> QED BY <1>0, <2>1, <2>2 DEF SlotInv, Clocks
<1> QED BY <1>3, <1>4, <1>6, <1>7, <1>8 DEF SlotInv

LEMMA LockKeeps == ASSUME SlotInv, NEW r \in Requests, Lock(r) PROVE SlotInv'
<1>a. PICK s \in Sids : s = req[r].sid
  BY DEF Lock, SlotInv, LiveHandlers
<1>s. s \in Sids /\ s = req[r].sid /\ req[r] \in RequestType /\ queue[s] \in Seq(Requests)
  BY <1>a DEF SlotInv, Tables
<1>h. [req[r] EXCEPT !.pc = "queued"] \in RequestType
  BY <1>s DEF RequestType
<1>0. /\ req'[r] = [req[r] EXCEPT !.pc = "queued"]
      /\ \A q \in Requests : q # r => req'[q] = req[q]
  BY DEF Lock, SlotInv, Tables
<1>f. req'[r].pc = "queued" /\ req'[r].sid = s /\ req'[r].clock = req[r].clock
  BY <1>0, <1>s DEF RequestType
<1>1. queue'[s] = Append(queue[s], r) /\ \A t \in Sids : t # s => queue'[t] = queue[t]
  BY <1>s DEF Lock, SlotInv, Tables
<1>2. Tables'
  <2>1. queue' \in [Sids -> Seq(Requests)]
    BY <1>s DEF Lock, SlotInv, Tables
  <2>2. req' \in [Requests -> RequestType]
    BY <1>h DEF Lock, SlotInv, Tables
  <2> QED BY <2>1, <2>2 DEF Lock, SlotInv, Tables, session
<1>3. LiveHandlers'
  BY <1>0, <1>f, <1>s DEF SlotInv, LiveHandlers, Lock
<1>4. Waits(r)' /\ ~Waits(r) /\ \A q \in Requests : q # r => Waits(q)' = Waits(q)
  BY <1>0, <1>f DEF Waits, Renewing, Lock
<1>5. r \notin ToSet(queue[s])
  BY <1>4, <1>s DEF SlotInv, Queues, Waiting
<1>6. /\ ToSet(Append(queue[s], r)) = ToSet(queue[s]) \cup {r}
      /\ IsInjective(Append(queue[s], r))
      /\ queue[s] # << >> => Head(Append(queue[s], r)) = Head(queue[s])
  <2> DEFINE q == queue[s]
             a == Append(q, r)
  <2>1. /\ Len(a) = Len(q) + 1 /\ DOMAIN a = 1..(Len(q) + 1) /\ DOMAIN q = 1..Len(q)
        /\ a[Len(q) + 1] = r /\ \A i \in 1..Len(q) : a[i] = q[i]
        /\ Len(q) \in Nat
    BY <1>s
  <2>2. IsInjective(q)
    BY <1>s DEF SlotInv, Queues
  <2>3. q # << >> => Head(a) = Head(q)
    BY <1>s, <2>1
  <2>4. \A i \in 1..Len(q) : q[i] # r
    BY <1>5, <2>1 DEF ToSet
  <2> HIDE DEF a, q
  <2>5. IsInjective(a)
    BY <2>1, <2>2, <2>4 DEF IsInjective
  <2>6. ToSet(a) = ToSet(q) \cup {r}
    <3>1. ToSet(a) \subseteq ToSet(q) \cup {r}
      BY <2>1 DEF ToSet
    <3>2. r \in ToSet(a) /\ ToSet(q) \subseteq ToSet(a)
      BY <2>1 DEF ToSet
    <3> QED BY <3>1, <3>2
  <2> QED BY <2>3, <2>5, <2>6 DEF a, q
<1>7. Queues'
  <2>1. \A t \in Sids : Waiting(t) = {q \in Requests : req[q].sid = t /\ Waits(q)}
    BY DEF SlotInv, Queues
  <2>2. \A t \in Sids : t # s => Waiting(t)' = Waiting(t)
    BY <1>1 DEF Waiting
  <2>3. Waiting(s)' = Waiting(s) \cup {r}
    BY <1>1, <1>6 DEF Waiting
  <2>4. ASSUME NEW t \in Sids
        PROVE  Waiting(t)' = {q \in Requests : req'[q].sid = t /\ Waits(q)'}
    <3>1. CASE t # s
      <4>1. \A q \in Requests : (req'[q].sid = t /\ Waits(q)') <=> (req[q].sid = t /\ Waits(q))
        BY <1>0, <1>4, <1>f, <3>1
      <4> QED BY <2>1, <2>2, <3>1, <4>1
    <3>2. CASE t = s
      <4>1. \A q \in Requests : q # r => ((req'[q].sid = s /\ Waits(q)') <=> (req[q].sid = s /\ Waits(q)))
        BY <1>0, <1>4, <1>f
      <4>2. req'[r].sid = s /\ Waits(r)'
        BY <1>0, <1>4, <1>f
      <4> QED BY <2>1, <2>3, <3>2, <4>1, <4>2
    <3> QED BY <3>1, <3>2
  <2>5. \A t \in Sids : IsInjective(queue'[t])
    BY <1>1, <1>6 DEF SlotInv, Queues
  <2> QED BY <2>4, <2>5 DEF Queues
<1>8. RenewerHolds'
  <2> SUFFICES ASSUME NEW q \in Requests, Renewing(q)' PROVE Holds(q)'
    BY DEF RenewerHolds
  <2>1. q # r /\ req'[q] = req[q] /\ Renewing(q) /\ Holds(q) /\ req[q].sid \in Sids
    BY <1>0, <1>f DEF Renewing, SlotInv, RenewerHolds, LiveHandlers
  <2>2. Append(queue[s], r) # << >>
    BY <1>s
  <2> QED BY <1>1, <1>6, <2>1, <2>2 DEF Holds
<1>9. Clocks'
  BY <1>0, <1>f DEF SlotInv, Clocks, Lock, session
<1> QED BY <1>2, <1>3, <1>7, <1>8, <1>9 DEF SlotInv

(* The answers end a handler that is at the mutex.                         *)
LEMMA IdleType == 0 \in Times /\ IdleRequest \in RequestType
<1>1. 0 \in Times
  BY SessionAssumption DEF Times
<1> QED BY <1>1 DEF IdleRequest, RequestType

LEMMA AnswerType ==
  ASSUME NEW a \in {"none", "no session", "refused", "unreachable", "served"}
  PROVE  /\ [IdleRequest EXCEPT !.answer = a] \in RequestType
         /\ [IdleRequest EXCEPT !.answer = a].pc = "idle"
         /\ [IdleRequest EXCEPT !.answer = a].clock = 0
  BY IdleType DEF IdleRequest, RequestType

LEMMA SlotStep == SlotInv /\ [Next]_vars => SlotInv'
<1> SUFFICES ASSUME SlotInv, [Next]_vars PROVE SlotInv'
  OBVIOUS
<1>t. /\ Tables /\ now \in 1..MaxTime /\ 0 <= now
      /\ \A r \in Requests : req[r] \in RequestType
  BY DEF SlotInv, Tables
<1>c. \A c \in Callbacks : cb[c].pc = "exchange" => cb[c].flow \in Flows
  BY DEF SlotInv, LiveHandlers
<1>l. \A r \in Requests : req[r].pc # "idle" => req[r].sid \in Sids
  BY DEF SlotInv, LiveHandlers
<1>k. \A r \in Requests : req[r].clock <= now
  BY DEF SlotInv, Clocks
<1>1. ASSUME NEW f \in Flows, Login(f) PROVE SlotInv'
  <2>1. Tables'
    BY <1>1, <1>t, SessionAssumption DEF Login, Retained, Tables, session, Times
  <2> QED BY <1>1, <1>c, <1>t, <2>1, Aside DEF Login, session
<1>2. ASSUME NEW f \in Flows, NEW c \in Callbacks, Return(c, f) PROVE SlotInv'
  <2>1. Tables' /\ \A d \in Callbacks : cb'[d].pc = "exchange" => cb'[d].flow \in Flows
    BY <1>2, <1>c, <1>t DEF Return, Retained, Tables, session
  <2> QED BY <1>2, <1>t, <2>1, Aside DEF Return, session
<1>3. ASSUME NEW c \in Callbacks, CallbackStep(c) PROVE SlotInv'
  <2>1. /\ Tables' /\ UNCHANGED <<req, queue, credential, now>>
        /\ \A d \in Callbacks : cb'[d].pc = "exchange" => cb'[d].flow \in Flows
    <3>1. now + RightLife \in Times
      BY <1>t, SessionAssumption DEF Times
    <3>2. CASE NotExchanged(c)
      BY <1>c, <1>t, <3>2 DEF NotExchanged, Tables, session, IdleCallback
    <3>3. ASSUME NEW s \in Sids, Exchanged(c, s)
          PROVE  /\ Tables' /\ UNCHANGED <<req, queue, credential, now>>
                 /\ \A d \in Callbacks : cb'[d].pc = "exchange" => cb'[d].flow \in Flows
      BY <1>c, <1>t, <3>1, <3>3 DEF Exchanged, Tables, IdleCallback
    <3> QED BY <1>3, <3>2, <3>3 DEF CallbackStep
  <2> QED BY <1>t, <2>1, Aside
<1>4. ASSUME NEW r \in Requests, NEW s \in Sids, Arrive(r, s) PROVE SlotInv'
  <2>1. CASE s \in open
    <3> DEFINE h == [IdleRequest EXCEPT !.pc = "arrived", !.sid = s, !.clock = now]
    <3>0. now \in Times
      BY <1>t, SessionAssumption DEF Times
    <3>1. h \in RequestType /\ h.pc = "arrived" /\ h.sid = s /\ h.clock = now
      BY <3>0, IdleType DEF IdleRequest, RequestType
    <3> HIDE DEF h
    <3>2. /\ req' = [req EXCEPT ![r] = h] /\ ~Waits(r)
          /\ UNCHANGED <<now, pending, begun, cb, open, session, queue, closing>>
      BY <1>4, <2>1 DEF Arrive, h, Waits, Renewing
    <3>3. h.clock <= now
      BY <1>t, <3>1
    <3> QED BY <3>1, <3>2, <3>3, Stays
  <2>2. CASE s \notin open
    <3> DEFINE h == [IdleRequest EXCEPT !.answer = "no session"]
    <3>1. h \in RequestType /\ h.pc = "idle" /\ h.clock = 0
      BY AnswerType
    <3>2. /\ req' = [req EXCEPT ![r] = h]
          /\ UNCHANGED <<now, pending, begun, cb, open, session, queue, closing>>
      BY <1>4, <2>2 DEF Arrive, Answered
    <3>3. ~Waits(r)
      BY <1>4 DEF Arrive, Waits, Renewing
    <3>4. h.clock <= now
      BY <1>t, <3>1
    <3> HIDE DEF h
    <3> QED BY <3>1, <3>2, <3>3, <3>4, Stays
  <2> QED BY <2>1, <2>2
<1>5. ASSUME NEW r \in Requests, LocalStep(r) PROVE SlotInv'
  <2>1. CASE Reuse(r)
    <3> DEFINE h == [req[r] EXCEPT !.pc = "serving", !.expires = credential[req[r].sid]]
    <3>1. /\ h \in RequestType /\ h.pc = "serving" /\ h.sid = req[r].sid /\ h.clock <= now
          /\ req[r].sid \in Sids
      BY <1>k, <1>l, <1>t, <2>1 DEF Reuse, RequestType, Tables
    <3>2. req' = [req EXCEPT ![r] = h]
      BY <2>1 DEF Reuse
    <3> HIDE DEF h
    <3> QED BY <2>1, <3>1, <3>2, Leaves DEF Reuse, session
  <2>2. CASE RightOver(r)
    BY <1>l, <1>t, <2>2, AnswerType, Leaves DEF RightOver, Answered, session
  <2>3. CASE StartRenewal(r)
    <3> DEFINE h == [req[r] EXCEPT !.pc = "refresh"]
    <3>1. h \in RequestType /\ h.pc = "refresh" /\ h.sid = req[r].sid /\ h.clock <= now
      BY <1>k, <1>t DEF RequestType
    <3>2. req' = [req EXCEPT ![r] = h] /\ Waits(r) /\ req[r].sid \in Sids
      BY <1>l, <2>3 DEF StartRenewal, Waits
    <3> HIDE DEF h
    <3> QED BY <2>3, <3>1, <3>2, Stays DEF StartRenewal
  <2>4. CASE Store(r)
    <3> DEFINE h == [req[r] EXCEPT !.pc = "serving"]
    <3>1. /\ h \in RequestType /\ h.pc = "serving" /\ h.sid = req[r].sid /\ h.clock <= now
          /\ req[r].sid \in Sids
      BY <1>k, <1>l, <1>t, <2>4 DEF Store, RequestType
    <3>2. req' = [req EXCEPT ![r] = h]
      BY <2>4 DEF Store
    <3> HIDE DEF h
    <3> QED BY <2>4, <3>1, <3>2, Leaves DEF Store
  <2>5. CASE Serve(r)
    BY <1>t, <2>5, AnswerType, Stays DEF Serve, Answered, Waits, Renewing
  <2> QED BY <1>5, <2>1, <2>2, <2>3, <2>4, <2>5, LockKeeps DEF LocalStep
<1>6. ASSUME NEW r \in Requests, PortalAnswers(r) PROVE SlotInv'
  <2>0. Renewing(r) => Holds(r)
    BY DEF SlotInv, RenewerHolds
  <2>1. CASE Refreshed(r)
    <3> DEFINE h == [req[r] EXCEPT !.pc = "mint"]
    <3>1. h \in RequestType /\ h.pc = "mint" /\ h.sid = req[r].sid /\ h.clock <= now
      BY <1>k, <1>t DEF RequestType
    <3>2. req' = [req EXCEPT ![r] = h] /\ Waits(r) /\ Renewing(r) /\ req[r].sid \in Sids
      BY <1>l, <2>1 DEF Refreshed, Waits, Renewing
    <3> HIDE DEF h
    <3> QED BY <2>0, <2>1, <3>1, <3>2, Stays DEF Refreshed
  <2>2. CASE Minted(r)
    <3> DEFINE h == [req[r] EXCEPT !.pc = "store", !.expires = now + CredentialLife]
    <3>1. /\ h \in RequestType /\ h.pc = "store" /\ h.sid = req[r].sid /\ h.clock <= now
          /\ h.expires = now + CredentialLife
      <4>1. now + CredentialLife \in Times
        BY <1>t, SessionAssumption DEF Times
      <4> QED BY <1>k, <1>t, <4>1 DEF RequestType
    <3>2. req' = [req EXCEPT ![r] = h] /\ Waits(r) /\ Renewing(r) /\ req[r].sid \in Sids
      BY <1>l, <2>2 DEF Minted, Waits, Renewing
    <3> HIDE DEF h
    <3> QED BY <2>0, <2>2, <3>1, <3>2, Stays DEF Minted
  <2>3. CASE PortalRefuses(r)
    BY <1>l, <1>t, <2>3, AnswerType, Leaves DEF PortalRefuses, Answered, session
  <2>4. CASE PortalUnreachable(r)
    BY <1>l, <1>t, <2>4, AnswerType, Leaves DEF PortalUnreachable, Answered, session
  <2> QED BY <1>6, <2>1, <2>2, <2>3, <2>4 DEF PortalAnswers
<1>7. ASSUME NEW r \in Requests, Abandon(r) PROVE SlotInv'
  <2>1. IdleRequest \in RequestType /\ IdleRequest.pc = "idle" /\ IdleRequest.clock = 0
    BY IdleType DEF IdleRequest
  <2> QED BY <1>7, <1>l, <1>t, <2>1, Leaves DEF Abandon, session
<1>8. ASSUME NEW s \in Sids, Logout(s) \/ Closed(s) \/ Revoked(s) PROVE SlotInv'
  <2>1. /\ Tables' /\ UNCHANGED <<req, queue, credential, now, cb>>
    BY <1>8, <1>t DEF Logout, Closed, Revoked, Tables, session
  <2> QED BY <1>c, <1>t, <2>1, Aside
<1>9. CASE Restart
  <2>1. Tables'
    BY <1>9, <1>t, IdleType DEF Restart, Tables, session, IdleCallback
  <2>2. \A r \in Requests : req'[r].pc = "idle" /\ req'[r].clock = 0
    BY <1>9 DEF Restart, IdleRequest
  <2>3. LiveHandlers' /\ RenewerHolds'
    BY <1>9, <2>2 DEF Restart, LiveHandlers, RenewerHolds, Renewing, IdleCallback
  <2>4. Queues'
    BY <1>9, <2>2 DEF Restart, Queues, Waits, Renewing, Waiting, ToSet, IsInjective
  <2>5. Clocks'
    BY <1>9, <1>t, <2>2 DEF SlotInv, Clocks, Restart, session
  <2> QED BY <2>1, <2>3, <2>4, <2>5 DEF SlotInv
<1>10. CASE Tick
  <2>1. Tables' /\ now <= now'
    BY <1>10, <1>t, SessionAssumption DEF Tick, Tables, session
  <2> QED BY <1>10, <1>c, <2>1, Aside DEF Tick, session
<1>11. CASE UNCHANGED vars
  <2>1. Tables'
    BY <1>11, <1>t DEF vars, session, Tables
  <2> QED BY <1>11, <1>c, <1>t, <2>1, Aside DEF vars, session
<1> QED BY <1>1, <1>2, <1>3, <1>4, <1>5, <1>6, <1>7, <1>8, <1>9, <1>10, <1>11 DEF Next

(* The mutex does its work: who waits is in the queue of its session, and  *)
(* one handler renews a session at a time, whoever is dropped meanwhile.   *)
THEOREM OneRenews == Spec => []RenewedByOne
<1>1. SlotInv => RenewedByOne
  BY TypeIsTables DEF SlotInv, RenewedByOne, OneRenewal, RenewerHolds, Holds
<1> QED BY <1>1, SlotInit, SlotStep, PTL DEF Spec

(* A renewal starts for a reason, and what it stores never goes back.      *)
THEOREM RenewalsNeverGoBack == Spec => RenewalsInOrder
<1> DEFINE Needed == \A r \in Requests :
                       (req[r].pc = "queued" /\ req'[r].pc = "refresh") =>
                           ~Usable(credential[req[r].sid], now)
           Forward == \A s \in Sids : credential[s] <= credential'[s]
<1>1. SlotInv /\ [Next]_vars => [Needed]_vars
  <2> SUFFICES ASSUME SlotInv, Next, NEW r \in Requests,
                      req[r].pc = "queued", req'[r].pc = "refresh"
               PROVE  ~Usable(credential[req[r].sid], now)
    OBVIOUS
  <2>1. StartRenewal(r)
    <3> DEFINE Others(q) == \A t \in Requests : t # q => req'[t] = req[t]
    <3>0. req \in [Requests -> RequestType]
      BY DEF SlotInv, Tables
    <3>1. ASSUME NEW q \in Requests, LocalStep(q) \/ PortalAnswers(q) \/ Abandon(q)
          PROVE  Others(q)
      BY <3>0, <3>1
      DEF LocalStep, PortalAnswers, Abandon, Lock, Reuse, RightOver, StartRenewal, Refreshed,
          Minted, Store, PortalRefuses, PortalUnreachable, Serve, Answered
    <3>2. ASSUME LocalStep(r) PROVE StartRenewal(r)
      BY <3>0, <3>2
      DEF LocalStep, Lock, Reuse, RightOver, Store, Serve, Answered, IdleRequest, RequestType
    <3>3. ~PortalAnswers(r)
      BY DEF PortalAnswers, Refreshed, Minted, PortalRefuses, PortalUnreachable
    <3>4. ~Abandon(r)
      BY <3>0 DEF Abandon, IdleRequest
    <3>5. ASSUME NEW q \in Requests, NEW s \in Sids, Arrive(q, s) PROVE req'[r] = req[r]
      BY <3>0, <3>5 DEF Arrive, Answered
    <3>6. ~Restart
      BY DEF Restart, IdleRequest
    <3>7. req' # req
      OBVIOUS
    <3> QED BY <3>1, <3>2, <3>3, <3>4, <3>5, <3>6, <3>7
        DEF Next, Login, Return, CallbackStep, NotExchanged, Exchanged,
            Logout, Closed, Revoked, Tick
  <2>2. ~Usable(credential[req[r].sid], req[r].clock)
    BY <2>1 DEF StartRenewal
  <2>3. /\ req[r].clock <= now /\ req[r].clock \in Nat /\ now \in Nat
        /\ credential[req[r].sid] \in Nat
    <3>1. Times \subseteq Nat
      BY SessionAssumption DEF Times
    <3>2. req[r].clock \in Times /\ req[r].sid \in Sids /\ req[r].clock <= now
      BY DEF SlotInv, Tables, LiveHandlers, Clocks, RequestType
    <3>3. credential[req[r].sid] \in Times /\ now \in 1..MaxTime
      BY <3>2 DEF SlotInv, Tables
    <3>4. now \in Nat
      BY <3>3, SessionAssumption
    <3> QED BY <3>1, <3>2, <3>3, <3>4
  <2> QED BY <2>2, <2>3, SessionAssumption DEF Usable
<1>2. SlotInv /\ [Next]_vars => [Forward]_vars
  <2> SUFFICES ASSUME SlotInv, Next, NEW s \in Sids PROVE credential[s] <= credential'[s]
    OBVIOUS
  <2>1. credential[s] \in Nat
    BY SessionAssumption DEF SlotInv, Tables, Times
  <2>2. CASE credential' = credential
    BY <2>1, <2>2
  <2>3. ASSUME NEW r \in Requests, Store(r) PROVE credential[s] <= credential'[s]
    BY <2>1, <2>3 DEF Store, SlotInv, Tables, Clocks
  <2> QED BY <2>2, <2>3
      DEF Next, Login, Return, CallbackStep, NotExchanged, Exchanged, LocalStep,
           PortalAnswers, Abandon, Arrive, Lock, Reuse, RightOver, StartRenewal, Refreshed,
           Minted, PortalRefuses, PortalUnreachable, Serve,
           Logout, Closed, Revoked, Restart, Tick, session
<1>3. RenewalsInOrder <=> [][Needed]_vars /\ [][Forward]_vars
  BY DEF RenewalsInOrder, RenewalNeeded, CredentialNeverGoesBack
<1> HIDE DEF Needed, Forward
<1> QED BY <1>1, <1>2, <1>3, SlotInit, SlotStep, PTL DEF Spec

-----------------------------------------------------------------------------
(* The grants of a cluster. *)

Severities == {0, 1, 2, 3, 4}

(* The greatest of a set of severities is one of them, above the others.   *)
LEMMA MaxIs ==
  ASSUME NEW T \in SUBSET Severities, T # {}
  PROVE  Max(T) \in T /\ \A y \in T : Max(T) >= y
<1>1. \E x \in T : \A y \in T : x >= y
  <2>1. CASE 4 \in T
    BY <2>1 DEF Severities
  <2>2. CASE 4 \notin T /\ 3 \in T
    BY <2>2 DEF Severities
  <2>3. CASE 4 \notin T /\ 3 \notin T /\ 2 \in T
    BY <2>3 DEF Severities
  <2>4. CASE T \subseteq {0, 1} /\ 1 \in T
    BY <2>4 DEF Severities
  <2>5. CASE T \subseteq {0} /\ 0 \in T
    BY <2>5 DEF Severities
  <2> QED BY <2>1, <2>2, <2>3, <2>4, <2>5 DEF Severities
<1> QED BY <1>1 DEF Max

LEMMA FindingIs ==
  ASSUME NEW c, NEW s, NEW t
  PROVE  /\ c => Finding(c, s, t) = {<<s, t>>}
         /\ ~c => Finding(c, s, t) = {}
  BY DEF Finding

(* A set of findings, each with its severity. *)
Graded(F) == \A f \in F : f[1] \in Severities

LEMMA FindingGraded ==
  ASSUME NEW c, NEW s \in Severities, NEW t
  PROVE  Graded(Finding(c, s, t))
  BY DEF Graded, Finding

LEMMA SeveritiesAre == Severities = {Quiet, Low, Medium, High, Critical} /\ Severities = Quiet..Critical
  BY DEF Severities, Quiet, Low, Medium, High, Critical

(* Nothing that a rule says is less than medium.                           *)
LEMMA RuleIsGrave ==
  ASSUME NEW r, NEW e, NEW f \in RuleFindings(r, e)
  PROVE  f[1] \in {Critical, High, Medium}
<1>1. \A c, s, t : \A x \in Finding(c, s, t) : x[1] = s
  BY DEF Finding
<1> QED BY <1>1 DEF RuleFindings

LEMMA RuleGraded == ASSUME NEW r, NEW e PROVE Graded(RuleFindings(r, e))
  BY RuleIsGrave, SeveritiesAre DEF Graded

(* What is found is found in a rule, of a subject, for the namespace, or is *)
(* that some rules are lost there.                                         *)
LEMMA ClassifyIs ==
  ASSUME NEW ns, NEW subjects, NEW rules, NEW criticalNs
  PROVE  \A f : f \in ClassifyFindings(ns, subjects, rules, criticalNs) <=>
           \/ \E r \in rules : f \in RuleFindings(r, ns = "")
           \/ \E s \in ToSet(subjects) : f \in SubjectFindings(s)
           \/ ns \in criticalNs /\ f \in NamespaceFinding(rules)
           \/ f \in Finding(ns # "" /\ Inert(rules), Quiet, "inert-cluster-rules")
<1> SUFFICES ASSUME NEW f
             PROVE  f \in ClassifyFindings(ns, subjects, rules, criticalNs) <=>
                      \/ \E r \in rules : f \in RuleFindings(r, ns = "")
                      \/ \E s \in ToSet(subjects) : f \in SubjectFindings(s)
                      \/ ns \in criticalNs /\ f \in NamespaceFinding(rules)
                      \/ f \in Finding(ns # "" /\ Inert(rules), Quiet, "inert-cluster-rules")
  OBVIOUS
<1> DEFINE R(r) == RuleFindings(r, ns = "")
           I == Finding(ns # "" /\ Inert(rules), Quiet, "inert-cluster-rules")
           A == UNION {R(r) : r \in rules}
           B == UNION {SubjectFindings(s) : s \in ToSet(subjects)}
           C == IF ns \in criticalNs THEN NamespaceFinding(rules) ELSE {}
<1>1. ClassifyFindings(ns, subjects, rules, criticalNs) = A \cup B \cup C \cup I
  BY DEF ClassifyFindings
<1>2. f \in A <=> \E r \in rules : f \in R(r)
  <2> HIDE DEF R
  <2> QED OBVIOUS
<1>3. f \in B <=> \E s \in ToSet(subjects) : f \in SubjectFindings(s)
  OBVIOUS
<1>4. f \in C <=> ns \in criticalNs /\ f \in NamespaceFinding(rules)
  OBVIOUS
<1>5. f \in ClassifyFindings(ns, subjects, rules, criticalNs) <=>
        f \in A \/ f \in B \/ f \in C \/ f \in I
  <2> HIDE DEF A, B, C, I
  <2> QED BY <1>1
<1> HIDE DEF A, B, C
<1> QED BY <1>2, <1>3, <1>4, <1>5, Zenon

LEMMA ClassifyGraded ==
  ASSUME NEW ns, NEW subjects, NEW rules, NEW criticalNs
  PROVE  Graded(ClassifyFindings(ns, subjects, rules, criticalNs))
<1>1. \A s : Graded(SubjectFindings(s))
  BY SeveritiesAre DEF SubjectFindings, Graded, Finding
<1>2. Graded(NamespaceFinding(rules))
  <2> DEFINE hot == \E r \in rules : /\ HasWrite(r)
                          /\ OnResource(r, {"pods", "secrets", "serviceaccounts"} \cup Workloads)
             warm == \E r \in rules : HasWrite(r)
                        \/ (OnGroup(r, "") /\ OnResource(r, {"secrets"}) /\ HasRead(r))
             level == IF hot THEN Critical ELSE IF warm THEN High ELSE Medium
  <2>1. NamespaceFinding(rules) = {<<level, "critical-ns">>}
    BY DEF NamespaceFinding
  <2>2. level \in Severities
    <3> HIDE DEF hot, warm
    <3> QED BY SeveritiesAre
  <2> HIDE DEF level
  <2> QED BY <2>1, <2>2 DEF Graded
<1>3. Graded(Finding(ns # "" /\ Inert(rules), Quiet, "inert-cluster-rules"))
  BY SeveritiesAre, FindingGraded
<1>4. \A f \in ClassifyFindings(ns, subjects, rules, criticalNs) :
         \/ \E r \in rules : f \in RuleFindings(r, ns = "")
         \/ \E s \in ToSet(subjects) : f \in SubjectFindings(s)
         \/ ns \in criticalNs /\ f \in NamespaceFinding(rules)
         \/ f \in Finding(ns # "" /\ Inert(rules), Quiet, "inert-cluster-rules")
  BY ClassifyIs
<1>5. \A r : Graded(RuleFindings(r, ns = ""))
  BY RuleGraded
<1> QED BY <1>1, <1>2, <1>3, <1>4, <1>5 DEF Graded

(* What findings come to: one of the severities, that of the gravest or    *)
(* less than every other.                                                  *)
LEMMA SeverityIs ==
  ASSUME NEW F, Graded(F), NEW rules
  PROVE  LET s == SeverityOf(F, rules)
         IN  /\ s \in Severities
             /\ \A f \in F : s >= f[1]
             /\ rules # {} => s >= Low
             /\ s \in {f[1] : f \in F} \cup {IF rules = {} THEN Quiet ELSE Low}
<1> DEFINE T == {f[1] : f \in F} \cup {IF rules = {} THEN Quiet ELSE Low}
<1>1. T \in SUBSET Severities /\ T # {}
  BY SeveritiesAre DEF Graded
<1>2. SeverityOf(F, rules) = Max(T)
  BY DEF SeverityOf
<1>3. Max(T) \in T /\ \A y \in T : Max(T) >= y
  <2> HIDE DEF T
  <2> QED BY <1>1, MaxIs
<1>4. Max(T) \in Severities
  BY <1>1, <1>3
<1>5. (\A f \in F : f[1] \in T) /\ (rules # {} => Low \in T)
  OBVIOUS
<1> QED BY <1>2, <1>3, <1>4, <1>5

(* The findings that danger is ranked by. *)
LEMMA RulesSay ==
  ASSUME NEW r, NEW everywhere
  PROVE  /\ (OnGroup(r, RbacGroup) /\ OnResource(r, {"roles", "clusterroles"}) /\ HasVerb(r, {"escalate", "bind"}))
              => <<Critical, "rbac-escalate">> \in RuleFindings(r, everywhere)
         /\ HasVerb(r, {"impersonate"}) => <<Critical, "impersonate">> \in RuleFindings(r, everywhere)
         /\ (OnGroup(r, "") /\ OnResource(r, {"pods/exec", "pods/attach"}))
              => <<High, "pod-exec">> \in RuleFindings(r, everywhere)
         /\ (OnGroup(r, "") /\ OnResource(r, {"pods"}) /\ HasVerb(r, {"create"}))
              => <<High, "pod-create">> \in RuleFindings(r, everywhere)
         /\ (OnGroup(r, "") /\ OnResource(r, {"secrets"}) /\ HasRead(r))
              => <<High, "secrets-read">> \in RuleFindings(r, everywhere)
         /\ (OnResource(r, Workloads) /\ HasWrite(r)) => <<High, "workload-write">> \in RuleFindings(r, everywhere)
         /\ (OnGroup(r, "") /\ OnResource(r, {"serviceaccounts/token"}) /\ HasVerb(r, {"create"}))
              => <<High, "sa-token">> \in RuleFindings(r, everywhere)
         /\ HasWrite(r) => <<Medium, "write">> \in RuleFindings(r, everywhere)
<1>1. \A c, s, t : c => <<s, t>> \in Finding(c, s, t)
  BY DEF Finding
<1> QED BY <1>1 DEF RuleFindings

LEMMA AnyOfGrows ==
  ASSUME NEW listed, NEW V, NEW W, V \subseteq W, AnyOf(listed, V)
  PROVE  AnyOf(listed, W)
  BY DEF AnyOf

(* A binding is graded as the gravest thing that is found in it.           *)
LEMMA GradeIs ==
  ASSUME NEW g, NEW i, NEW r \in GrantedRules(g.roles, g.bindings[i])
  PROVE  LET b == g.bindings[i]
         IN  /\ Grade(g, i) \in Severities
             /\ \A f \in RuleFindings(r, b.ns = "") : Grade(g, i) >= f[1]
             /\ b.ns \in g.critical =>
                  \A f \in NamespaceFinding(GrantedRules(g.roles, b)) : Grade(g, i) >= f[1]
<1> DEFINE b == g.bindings[i]
           rules == GrantedRules(g.roles, b)
           F == ClassifyFindings(b.ns, b.subjects, rules, g.critical)
<1>1. Grade(g, i) = SeverityOf(F, rules)
  BY DEF Grade, BindingSeverity
<1>2. Graded(F)
  BY ClassifyGraded
<1>3. SeverityOf(F, rules) \in Severities /\ \A f \in F : SeverityOf(F, rules) >= f[1]
  <2> HIDE DEF F, rules
  <2> QED BY <1>2, SeverityIs
<1>4. \A f : (\/ f \in RuleFindings(r, b.ns = "")
              \/ b.ns \in g.critical /\ f \in NamespaceFinding(rules)) => f \in F
  BY ClassifyIs
<1> QED BY <1>1, <1>3, <1>4

(* What the case is, and that what is made of it is what the code makes.   *)
Collected == GoodCase(cluster) /\ reasons = GrantsOf(cluster)

LEMMA CollectedIs ==
  ASSUME Collected
  PROVE  /\ GoodGraph(G) /\ cluster.floor \in Severities
         /\ \A i \in DOMAIN G.bindings : reasons.grade[i] = Grade(G, i)
         /\ reasons.flat = FlatRows(G, cluster.floor, cluster.scope)
         /\ reasons.subjects = SubjectRows(G, cluster.floor, cluster.scope)
         /\ reasons.bindings = BindingRows(G, cluster.floor, cluster.scope)
         /\ reasons.roles = RoleRows(G, cluster.floor, cluster.scope)
         /\ \A i \in DOMAIN G.bindings :
               reasons.said[i] = BindingFindings(G.roles, G.bindings, G.sas, i, G.critical)
         /\ \A i \in DOMAIN G.roles : reasons.ofRoles[i] = RoleFindings(G.roles, G.bindings, i, G.critical)
         /\ \A i \in DOMAIN G.roles : reasons.ceiling[i] = RoleGrade(G, i)
         /\ reasons.folded = AutoFolded(G)
  BY SeveritiesAre DEF Collected, GoodCase, GrantsOf, G

LEMMA AllowedBy ==
  ASSUME NEW rules, NEW verb, NEW group, NEW resource, Allowed(rules, verb, group, resource),
         NEW verbs, verb \in verbs, NEW resources, resource \in resources
  PROVE  \E r \in rules : HasVerb(r, verbs) /\ OnGroup(r, group) /\ OnResource(r, resources)
<1>1. {verb} \subseteq verbs /\ {resource} \subseteq resources
  OBVIOUS
<1>2. PICK r \in rules : AnyOf(r.verbs, {verb}) /\ AnyOf(r.groups, {group}) /\ AnyOf(r.resources, {resource})
  BY DEF Allowed
<1> QED BY <1>1, <1>2, AnyOfGrows DEF HasVerb, OnGroup, OnResource

(* No takeover is ranked below critical and no foothold below high.        *)
LEMMA DangerRanked == ASSUME Collected PROVE DangerIsRanked
<1> SUFFICES ASSUME NEW i \in DOMAIN G.bindings
             PROVE  /\ Escalates(Rules(i)) => reasons.grade[i] = Critical
                    /\ Enters(Rules(i)) => reasons.grade[i] >= High
                    /\ (/\ G.bindings[i].ns \in G.critical
                        /\ \/ Allowed(Rules(i), "create", "", "pods")
                           \/ Allowed(Rules(i), "patch", "apps", "deployments")) => reasons.grade[i] = Critical
                    /\ reasons.grade[i] <= Low =>
                          \A r \in Rules(i) : HasVerb(r, WriteVerbs) => FALSE
  BY DEF DangerIsRanked
<1> DEFINE grade == Grade(G, i)
           everywhere == G.bindings[i].ns = ""
<1>1. reasons.grade[i] = grade
  BY CollectedIs
<1>2. ASSUME NEW r \in Rules(i)
      PROVE  /\ grade \in Severities
             /\ \A f \in RuleFindings(r, everywhere) : grade >= f[1]
             /\ G.bindings[i].ns \in G.critical => \A f \in NamespaceFinding(Rules(i)) : grade >= f[1]
  BY GradeIs DEF Rules
<1> HIDE DEF grade, everywhere
<1>3. ASSUME Escalates(Rules(i)) PROVE grade = Critical
  <2>1. PICK r \in Rules(i) : \/ <<Critical, "rbac-escalate">> \in RuleFindings(r, everywhere)
                              \/ <<Critical, "impersonate">> \in RuleFindings(r, everywhere)
    <3>1. CASE \E v \in {"bind", "escalate"}, k \in {"roles", "clusterroles"} :
                  Allowed(Rules(i), v, RbacGroup, k)
      <4>1. PICK r \in Rules(i) : HasVerb(r, {"escalate", "bind"}) /\ OnGroup(r, RbacGroup)
                                  /\ OnResource(r, {"roles", "clusterroles"})
        BY <3>1, AllowedBy
      <4> QED BY <4>1, RulesSay
    <3>2. CASE \E k \in {"users", "groups", "serviceaccounts"} : Allowed(Rules(i), "impersonate", "", k)
      <4>1. PICK r \in Rules(i) : HasVerb(r, {"impersonate"})
        BY <3>2, AllowedBy
      <4> QED BY <4>1, RulesSay
    <3> QED BY <1>3, <3>1, <3>2 DEF Escalates
  <2>2. grade \in Severities /\ grade >= Critical
    BY <1>2, <2>1
  <2> QED BY <2>2 DEF Severities, Critical
<1>4. ASSUME Enters(Rules(i)) PROVE grade >= High
  <2>1. \E r \in Rules(i) : \E f \in RuleFindings(r, everywhere) : f[1] = High
    <3>1. CASE Allowed(Rules(i), "create", "", "pods")
      <4>1. PICK r \in Rules(i) : HasVerb(r, {"create"}) /\ OnGroup(r, "") /\ OnResource(r, {"pods"})
        BY <3>1, AllowedBy
      <4>2. <<High, "pod-create">> \in RuleFindings(r, everywhere)
        BY <4>1, RulesSay
      <4> QED BY <4>2
    <3>2. CASE \E v \in {"get", "create"} : Allowed(Rules(i), v, "", "pods/exec")
      <4>1. PICK r \in Rules(i) : OnGroup(r, "") /\ OnResource(r, {"pods/exec", "pods/attach"})
        BY <3>2, AllowedBy
      <4>2. <<High, "pod-exec">> \in RuleFindings(r, everywhere)
        BY <4>1, RulesSay
      <4> QED BY <4>2
    <3>3. CASE \E v \in ReadVerbs : Allowed(Rules(i), v, "", "secrets")
      <4>1. PICK r \in Rules(i) : HasVerb(r, ReadVerbs) /\ OnGroup(r, "") /\ OnResource(r, {"secrets"})
        BY <3>3, AllowedBy
      <4>2. <<High, "secrets-read">> \in RuleFindings(r, everywhere)
        BY <4>1, RulesSay DEF HasRead
      <4> QED BY <4>2
    <3>4. CASE \E v \in {"create", "patch"} : Allowed(Rules(i), v, "apps", "deployments")
      <4>1. PICK v \in {"create", "patch"} : Allowed(Rules(i), v, "apps", "deployments")
        BY <3>4
      <4>2. v \in WriteVerbs /\ "deployments" \in Workloads
        BY DEF WriteVerbs, Workloads
      <4>3. PICK r \in Rules(i) : HasVerb(r, WriteVerbs) /\ OnResource(r, Workloads)
        BY <4>1, <4>2, AllowedBy
      <4>4. <<High, "workload-write">> \in RuleFindings(r, everywhere)
        BY <4>3, RulesSay DEF HasWrite
      <4> QED BY <4>4
    <3>5. CASE Allowed(Rules(i), "create", "", "serviceaccounts/token")
      <4>1. PICK r \in Rules(i) : HasVerb(r, {"create"}) /\ OnGroup(r, "")
                                  /\ OnResource(r, {"serviceaccounts/token"})
        BY <3>5, AllowedBy
      <4>2. <<High, "sa-token">> \in RuleFindings(r, everywhere)
        BY <4>1, RulesSay
      <4> QED BY <4>2
    <3> QED BY <1>4, <3>1, <3>2, <3>3, <3>4, <3>5 DEF Enters
  <2> QED BY <1>2, <2>1
<1>5. ASSUME G.bindings[i].ns \in G.critical,
             \/ Allowed(Rules(i), "create", "", "pods")
             \/ Allowed(Rules(i), "patch", "apps", "deployments")
      PROVE  grade = Critical
  <2> DEFINE Hot == {"pods", "secrets", "serviceaccounts"} \cup Workloads
  <2>1. /\ {"create", "patch"} \subseteq WriteVerbs /\ {"pods", "deployments"} \subseteq Hot
    BY DEF WriteVerbs, Workloads
  <2>2. PICK r \in Rules(i) : HasVerb(r, WriteVerbs) /\ OnResource(r, Hot)
    <3> HIDE DEF Hot
    <3>1. CASE Allowed(Rules(i), "create", "", "pods")
      <4>1. "create" \in WriteVerbs /\ "pods" \in Hot
        BY <2>1
      <4> QED BY <3>1, <4>1, AllowedBy
    <3>2. CASE Allowed(Rules(i), "patch", "apps", "deployments")
      <4>1. "patch" \in WriteVerbs /\ "deployments" \in Hot
        BY <2>1
      <4> QED BY <3>2, <4>1, AllowedBy
    <3> QED BY <1>5, <3>1, <3>2
  <2>3. NamespaceFinding(Rules(i)) = {<<Critical, "critical-ns">>}
    BY <2>2 DEF NamespaceFinding, HasWrite
  <2>4. grade \in Severities /\ \A f \in NamespaceFinding(Rules(i)) : grade >= f[1]
    BY <1>2, <1>5, <2>2
  <2>5. grade >= Critical
    BY <2>3, <2>4
  <2> QED BY <2>4, <2>5 DEF Severities, Critical
<1>6. ASSUME grade <= Low, NEW r \in Rules(i), HasVerb(r, WriteVerbs) PROVE FALSE
  <2>1. <<Medium, "write">> \in RuleFindings(r, everywhere)
    BY <1>6, RulesSay DEF HasWrite
  <2>2. grade \in Severities /\ grade >= Medium
    BY <1>2, <2>1
  <2> QED BY <1>6, <2>2 DEF Severities, Medium, Low
<1> QED BY <1>1, <1>3, <1>4, <1>5, <1>6

(* A binding grants one role at most: of the cluster, or of its namespace.  *)
LEMMA GrantedIsOne ==
  ASSUME NEW g, NEW b, NEW r, GoodGraph(g), r \in Granted(g.roles, b)
  PROVE  /\ r \in DOMAIN g.roles /\ \A k \in Granted(g.roles, b) : k = r
         /\ g.roles[r].ns \in {"", b.ns}
         /\ GrantedRules(g.roles, b) = RulesOf(g.roles)[r]
<1>1. \A k \in DOMAIN g.roles : IF g.roles[k].ns = "" THEN g.roles[k].kind = "ClusterRole"
                                ELSE g.roles[k].kind = "Role"
  BY DEF GoodGraph, ToSet
<1>2. \A k \in Granted(g.roles, b) :
         /\ k \in DOMAIN g.roles /\ g.roles[k].name = b.ref[2]
         /\ g.roles[k].ns = IF b.ns = "" \/ b.ref[1] = "ClusterRole" THEN "" ELSE b.ns
  BY <1>1 DEF Granted
<1>3. \A k \in Granted(g.roles, b) : k = r
  <2>1. \A k, m \in DOMAIN g.roles :
           (g.roles[k].ns = g.roles[m].ns /\ g.roles[k].name = g.roles[m].name) => k = m
    BY DEF GoodGraph
  <2>2. \A k \in Granted(g.roles, b) : g.roles[k].ns = g.roles[r].ns /\ g.roles[k].name = g.roles[r].name
    BY <1>2
  <2> QED BY <1>2, <2>1, <2>2
<1>4. Granted(g.roles, b) = {r}
  BY <1>3
<1>5. GrantedRules(g.roles, b) = RulesOf(g.roles)[r]
  BY <1>4 DEF GrantedRules
<1> QED BY <1>2, <1>3, <1>5

(* More is said of a rule that counts in the whole cluster.                *)
LEMMA EverywhereIsWorse == ASSUME NEW r, NEW e PROVE RuleFindings(r, e) \subseteq RuleFindings(r, TRUE)
<1>1. ASSUME NEW c, NEW s, NEW t, NEW f
      PROVE  f \in Finding(c, s, t) <=> c /\ f = <<s, t>>
  BY DEF Finding
<1> SUFFICES ASSUME NEW f \in RuleFindings(r, e) PROVE f \in RuleFindings(r, TRUE)
  OBVIOUS
<1>2. f \in Finding(/\ e /\ OnResource(r, {"certificatesigningrequests"})
                  /\ HasVerb(r, {"approve", "update"}), High, "csr-sign")
      => f \in Finding(/\ TRUE /\ OnResource(r, {"certificatesigningrequests"})
                     /\ HasVerb(r, {"approve", "update"}), High, "csr-sign")
  BY DEF Finding
<1>3. f \in Finding(/\ e /\ HasWrite(r)
                  /\ OnResource(r, {"mutatingwebhookconfigurations",
                                    "validatingwebhookconfigurations"}), High, "webhook-write")
      => f \in Finding(/\ TRUE /\ HasWrite(r)
                     /\ OnResource(r, {"mutatingwebhookconfigurations",
                                       "validatingwebhookconfigurations"}), High, "webhook-write")
  BY DEF Finding
<1>4. f \in Finding(e /\ OnResource(r, {"nodes", "nodes/proxy"}), High, "node-access")
      => f \in Finding(TRUE /\ OnResource(r, {"nodes", "nodes/proxy"}), High, "node-access")
  BY DEF Finding
<1> QED BY <1>2, <1>3, <1>4, Zenon DEF RuleFindings

(* The rank of a role bounds that of its bindings.                         *)
LEMMA CeilingHolds == ASSUME Collected PROVE RoleIsACeiling
<1> SUFFICES ASSUME NEW i \in DOMAIN G.bindings,
                    G.bindings[i].ns \notin G.critical,
                    \A s \in ToSet(G.bindings[i].subjects) : ~IsEveryone(s) /\ s.name # "default",
                    NEW r \in Granted(G.roles, G.bindings[i])
             PROVE  reasons.grade[i] <= reasons.ceiling[r]
  BY DEF RoleIsACeiling
<1> DEFINE b == G.bindings[i]
           rules == RulesOf(G.roles)[r]
           ns == G.roles[r].ns
           F == ClassifyFindings(b.ns, b.subjects, rules, G.critical)
           H == ClassifyFindings(ns, << >>, rules, G.critical)
<1>1. r \in DOMAIN G.roles /\ ns \in {"", b.ns} /\ GrantedRules(G.roles, b) = rules
  <2>1. GoodGraph(G)
    BY CollectedIs
  <2>2. r \in Granted(G.roles, b)
    OBVIOUS
  <2>3. /\ r \in DOMAIN G.roles /\ G.roles[r].ns \in {"", b.ns}
        /\ GrantedRules(G.roles, b) = RulesOf(G.roles)[r]
    BY <2>1, <2>2, GrantedIsOne, Zenon
  <2> QED BY <2>3
<1>2. reasons.grade[i] = SeverityOf(F, rules)
  BY <1>1, CollectedIs DEF Grade, BindingSeverity
<1>3. reasons.ceiling[r] = SeverityOf(H, rules)
  BY <1>1, CollectedIs DEF RoleGrade, RoleSeverity
<1>4. Graded(F) /\ Graded(H)
  BY ClassifyGraded
<1>5. \A x : RuleFindings(x, b.ns = "") \subseteq RuleFindings(x, ns = "")
  <2>1. CASE ns = ""
    BY <2>1, EverywhereIsWorse
  <2>2. CASE ns # "" /\ ns = b.ns
    BY <2>2
  <2> QED BY <1>1, <2>1, <2>2
<1>6. \A s \in ToSet(b.subjects) : SubjectFindings(s) = {}
  BY DEF SubjectFindings, Finding, IsEveryone
<1>7. \A f \in F : f \in H \/ f[1] = Quiet
  <2> SUFFICES ASSUME NEW f \in F PROVE f \in H \/ f[1] = Quiet
    OBVIOUS
  <2>1. CASE \E x \in rules : f \in RuleFindings(x, b.ns = "")
    <3>1. \E x \in rules : f \in RuleFindings(x, ns = "")
      BY <1>5, <2>1
    <3> QED BY <3>1, ClassifyIs
  <2>2. CASE f \in Finding(b.ns # "" /\ Inert(rules), Quiet, "inert-cluster-rules")
    <3>1. \A c, t : \A x \in Finding(c, Quiet, t) : x[1] = Quiet
      BY DEF Finding
    <3> HIDE DEF rules
    <3> QED BY <2>2, <3>1
  <2> QED BY <1>6, <2>1, <2>2, ClassifyIs
<1>8. SeverityOf(F, rules) \in Severities /\ SeverityOf(H, rules) \in Severities
  <2> HIDE DEF F, H, rules
  <2> QED BY <1>4, SeverityIs
<1>9. SeverityOf(F, rules) \in {f[1] : f \in F} \cup {IF rules = {} THEN Quiet ELSE Low}
  <2> HIDE DEF F, H, rules
  <2> QED BY <1>4, SeverityIs
<1>10. (\A f \in H : SeverityOf(H, rules) >= f[1]) /\ (rules # {} => SeverityOf(H, rules) >= Low)
  <2> HIDE DEF F, H, rules
  <2> QED BY <1>4, SeverityIs
<1>11. SeverityOf(F, rules) <= SeverityOf(H, rules)
  <2> HIDE DEF F, H, rules
  <2>1. \A x \in Severities, y \in Severities : (x >= y => y <= x) /\ Quiet <= x
    BY DEF Severities, Quiet
  <2>2. CASE \E f \in F : SeverityOf(F, rules) = f[1]
    BY <1>7, <1>8, <1>10, <2>1, <2>2
  <2>3. CASE SeverityOf(F, rules) = IF rules = {} THEN Quiet ELSE Low
    BY <1>8, <1>10, <2>1, <2>3
  <2> QED BY <1>9, <2>2, <2>3
<1> QED BY <1>2, <1>3, <1>11

(* Some natural numbers have a least one among them.                       *)
LEMMA LeastNatural ==
  ASSUME NEW T \in SUBSET Nat, T # {}
  PROVE  \E n \in T : \A m \in T : n <= m
<1> DEFINE I == {0..n : n \in T}
<1>1. I \subseteq FiniteSubsetsOf(Nat) /\ I # {}
  <2>1. \A n \in T : IsFiniteSet(0..n) /\ 0..n \subseteq Nat
    BY FS_Interval
  <2>2. I # {}
    OBVIOUS
  <2>3. \A A \in I : A \subseteq Nat /\ IsFiniteSet(A)
    BY <2>1
  <2> HIDE DEF I
  <2> QED BY <2>2, <2>3 DEF FiniteSubsetsOf
<1>2. IsWellFoundedOn(StrictSubsetOrdering(Nat), FiniteSubsetsOf(Nat))
  BY FS_StrictSubsetOrderingWellFounded
<1>3. PICK A \in I : \A B \in I : ~(<<B, A>> \in StrictSubsetOrdering(Nat))
  <2> HIDE DEF I
  <2> QED BY <1>1, <1>2, WFMin
<1>4. PICK n \in T : A = 0..n
  BY <1>3
<1>5. ASSUME NEW m \in T, m < n PROVE FALSE
  <2>1. 0..m \in I /\ 0..m \subseteq A /\ 0..m # A
    BY <1>4, <1>5
  <2>2. <<0..m, A>> \in StrictSubsetOrdering(Nat)
    BY <1>4, <2>1 DEF StrictSubsetOrdering
  <2> QED BY <1>3, <2>1, <2>2
<1> QED BY <1>4, <1>5

(* A binding is said to be quiet for one reason alone.                     *)
LEMMA QuietIs ==
  ASSUME NEW ns, NEW subjects, NEW rules, NEW criticalNs, NEW tag, tag # "inert-cluster-rules"
  PROVE  <<Quiet, tag>> \notin ClassifyFindings(ns, subjects, rules, criticalNs)
<1>0. \A c, s, t : \A f \in Finding(c, s, t) : f[2] = t
  BY DEF Finding
<1>1. \A c, s, t : \A f \in Finding(c, s, t) : f[1] = s
  BY DEF Finding
<1>2. Quiet \notin {Critical, High, Medium}
  BY DEF Critical, High, Medium, Quiet
<1>3. \A r, e : \A f \in RuleFindings(r, e) : f[1] \in {Critical, High, Medium}
  BY RuleIsGrave
<1>4. \A s : \A f \in SubjectFindings(s) : f[1] \in {Critical, High, Medium}
  BY <1>1 DEF SubjectFindings
<1>5. \A f \in NamespaceFinding(rules) : f[1] \in {Critical, High, Medium}
  <2> DEFINE hot == \E r \in rules : /\ HasWrite(r)
                          /\ OnResource(r, {"pods", "secrets", "serviceaccounts"} \cup Workloads)
             warm == \E r \in rules : HasWrite(r)
                        \/ (OnGroup(r, "") /\ OnResource(r, {"secrets"}) /\ HasRead(r))
             level == IF hot THEN Critical ELSE IF warm THEN High ELSE Medium
  <2>1. NamespaceFinding(rules) = {<<level, "critical-ns">>}
    BY DEF NamespaceFinding
  <2>2. level \in {Critical, High, Medium}
    <3> HIDE DEF hot, warm
    <3> QED OBVIOUS
  <2> HIDE DEF level
  <2> QED BY <2>1, <2>2
<1> SUFFICES ASSUME NEW f \in ClassifyFindings(ns, subjects, rules, criticalNs), f[1] = Quiet
             PROVE  f[2] = "inert-cluster-rules"
  OBVIOUS
<1>6. f \in Finding(ns # "" /\ Inert(rules), Quiet, "inert-cluster-rules")
  <2>1. \/ \E r \in rules : f \in RuleFindings(r, ns = "")
        \/ \E s \in ToSet(subjects) : f \in SubjectFindings(s)
        \/ f \in NamespaceFinding(rules)
        \/ f \in Finding(ns # "" /\ Inert(rules), Quiet, "inert-cluster-rules")
    BY ClassifyIs
  <2>2. ASSUME NEW r \in rules PROVE f \notin RuleFindings(r, ns = "")
    BY <1>2, <1>3
  <2>3. ASSUME NEW s \in ToSet(subjects) PROVE f \notin SubjectFindings(s)
    BY <1>2, <1>4
  <2>4. f \notin NamespaceFinding(rules)
    BY <1>2, <1>5
  <2> QED BY <2>1, <2>2, <2>3, <2>4
<1> QED BY <1>0, <1>6, Zenon

(* The namespace of a subject is the one it gives, if it gives one.        *)
LEMMA HomeIs ==
  ASSUME NEW b, NEW s, \A m, n \in s.ns : m = n
  PROVE  /\ s.ns = {} => Home(b, s) = b.ns
         /\ s.ns # {} => Home(b, s) \in s.ns /\ \A n \in s.ns : n = Home(b, s)
  BY DEF Home

(* What is missing in a binding are the accounts of its subjects that are   *)
(* not among those read.                                                   *)
LEMMA HoleIs ==
  ASSUME GoodGraph(G), NEW i \in DOMAIN G.bindings, NEW a
  PROVE  a \in Holes(G.sas, G.bindings[i]) <=>
           \E s \in ToSet(G.bindings[i].subjects) :
              Missing(G.bindings[i], s) /\ a = <<Home(G.bindings[i], s), s.name>>
<1> DEFINE b == G.bindings[i]
<1>1. \A s \in ToSet(b.subjects) : "" \notin s.ns /\ \A m, n \in s.ns : m = n
  <2>1. b \in ToSet(G.bindings)
    BY DEF ToSet
  <2> HIDE DEF b
  <2> QED BY <2>1 DEF GoodGraph
<1>2. \A x \in UNION G.sas : x = <<x[1], x[2]>>
  BY DEF GoodGraph
<1>3. ASSUME NEW s \in ToSet(b.subjects)
      PROVE  Missing(b, s) <=>
               /\ s.kind = "ServiceAccount" /\ G.sas # {} /\ Home(b, s) # ""
               /\ <<Home(b, s), s.name>> \notin UNION G.sas
  <2>1. CASE s.ns = {}
    <3>1. Home(b, s) = b.ns
      BY <2>1 DEF Home
    <3>2. (\A x \in UNION G.sas : x[2] = s.name => x[1] # b.ns) <=> <<b.ns, s.name>> \notin UNION G.sas
      <4> HIDE DEF b
      <4> QED BY <1>2
    <3> HIDE DEF b
    <3> QED BY <2>1, <3>1, <3>2 DEF Missing
  <2>2. CASE s.ns # {}
    <3>1. Home(b, s) \in s.ns /\ \A n \in s.ns : n = Home(b, s)
      BY <1>1, <2>2, HomeIs
    <3>2. (\A x \in UNION G.sas : x[2] = s.name => x[1] \notin s.ns)
            <=> <<Home(b, s), s.name>> \notin UNION G.sas
      <4> HIDE DEF b
      <4> QED BY <1>2, <3>1
    <3>3. Home(b, s) # ""
      BY <1>1, <3>1
    <3> HIDE DEF b
    <3> QED BY <2>2, <3>2, <3>3 DEF Missing
  <2> QED BY <2>1, <2>2
<1>4. a \in Holes(G.sas, b) <=>
        \E s \in ToSet(b.subjects) :
           /\ s.kind = "ServiceAccount" /\ a = <<Home(b, s), s.name>>
           /\ a[1] # "" /\ G.sas # {} /\ a \notin UNION G.sas
  <2> HIDE DEF b
  <2> QED BY DEF Holes, AccountsNamed
<1> QED
  <2> HIDE DEF b
  <2> SUFFICES a \in Holes(G.sas, b) <=> \E s \in ToSet(b.subjects) :
                   Missing(b, s) /\ a = <<Home(b, s), s.name>>
    BY DEF b
  <2>1. ASSUME NEW s \in ToSet(b.subjects), Missing(b, s), a = <<Home(b, s), s.name>>
        PROVE  a \in Holes(G.sas, b)
    <3>1. s.kind = "ServiceAccount" /\ G.sas # {} /\ a[1] # "" /\ a \notin UNION G.sas
      BY <1>3, <2>1
    <3> QED BY <1>4, <2>1, <3>1
  <2>2. ASSUME a \in Holes(G.sas, b)
        PROVE  \E s \in ToSet(b.subjects) : Missing(b, s) /\ a = <<Home(b, s), s.name>>
    <3>1. PICK s \in ToSet(b.subjects) : /\ s.kind = "ServiceAccount" /\ a = <<Home(b, s), s.name>>
                                        /\ a[1] # "" /\ G.sas # {} /\ a \notin UNION G.sas
      BY <1>4, <2>2
    <3>2. Home(b, s) # ""
      BY <3>1
    <3> QED BY <1>3, <3>1, <3>2
  <2> QED BY <2>1, <2>2

LEMMA GradeIn == ASSUME NEW g, NEW i PROVE Grade(g, i) \in Severities
<1> DEFINE b == g.bindings[i]
           rules == GrantedRules(g.roles, b)
           F == ClassifyFindings(b.ns, b.subjects, rules, g.critical)
<1>1. Grade(g, i) = SeverityOf(F, rules)
  BY DEF Grade, BindingSeverity
<1>2. Graded(F)
  BY ClassifyGraded
<1>3. SeverityOf(F, rules) \in Severities
  <2> HIDE DEF F, rules
  <2> QED BY <1>2, SeverityIs
<1> QED BY <1>1, <1>3

(* A subject is graded as the gravest of its bindings.                     *)
LEMMA SubjectGradeIs ==
  ASSUME NEW g, NEW key
  PROVE  /\ SubjectGrade(g, key) \in Severities
         /\ \A i \in DOMAIN g.bindings :
               Names(g.bindings[i], key) => SubjectGrade(g, key) >= Grade(g, i)
<1> DEFINE T == {Quiet} \cup {Grade(g, i) : i \in {j \in DOMAIN g.bindings : Names(g.bindings[j], key)}}
<1>1. T \in SUBSET Severities /\ T # {}
  BY GradeIn, SeveritiesAre
<1>2. SubjectGrade(g, key) = Max(T)
  BY DEF SubjectGrade
<1>3. Max(T) \in T /\ \A y \in T : Max(T) >= y
  <2> HIDE DEF T
  <2> QED BY <1>1, MaxIs
<1>4. Max(T) \in Severities
  BY <1>1, <1>3
<1>5. ASSUME NEW i \in DOMAIN g.bindings, Names(g.bindings[i], key) PROVE Grade(g, i) \in T
  <2> DEFINE J == {j \in DOMAIN g.bindings : Names(g.bindings[j], key)}
  <2>1. i \in J
    BY <1>5
  <2> HIDE DEF J
  <2>2. T = {Quiet} \cup {Grade(g, j) : j \in J}
    BY DEF J
  <2> HIDE DEF T
  <2> QED BY <2>1, <2>2
<1> HIDE DEF T
<1> QED BY <1>2, <1>3, <1>4, <1>5

LEMMA Joined == ASSUME NEW x, NEW y PROVE <<x>> \o <<y>> = <<x, y>>
<1> DEFINE S == {x, y}
<1>1. PICK a, b : a = <<x>> /\ b = <<y>>
  OBVIOUS
<1>2. a \in Seq(S) /\ Len(a) = 1 /\ a[1] = x
  BY <1>1
<1>3. b \in Seq(S) /\ Len(b) = 1 /\ b[1] = y
  BY <1>1
<1>4. <<x, y>> \in Seq(S) /\ Len(<<x, y>>) = 2
  OBVIOUS
<1> HIDE DEF S
<1>5. /\ a \o b \in Seq(S) /\ Len(a \o b) = Len(a) + Len(b)
      /\ \A i \in 1..(Len(a) + Len(b)) : (a \o b)[i] = IF i <= Len(a) THEN a[i] ELSE b[i - Len(a)]
  BY <1>2, <1>3, ConcatProperties
<1>6. Len(a \o b) = 2 /\ (a \o b)[1] = x /\ (a \o b)[2] = y
  BY <1>2, <1>3, <1>5
<1>7. \A i \in 1..Len(a \o b) : (a \o b)[i] = <<x, y>>[i]
  BY <1>6
<1>8. a \o b = <<x, y>>
  BY <1>4, <1>5, <1>6, <1>7, SeqEqual
<1> QED BY <1>1, <1>8

LEMMA UnderIs ==
  ASSUME NEW node, NEW paths
  PROVE  /\ <<node>> \in Under(node, paths)
         /\ \A x : <<x>> \in paths => <<node, x>> \in Under(node, paths)
         /\ \A p \in Under(node, paths) : p = <<node>> \/ \E q \in paths : p = <<node>> \o q
<1>1. \A x : <<x>> \in paths => <<node>> \o <<x>> \in Under(node, paths)
  BY DEF Under
<1> QED BY <1>1, Joined DEF Under

(* A subject has its row, and under it each of its bindings that is kept,   *)
(* where it is grave enough and of the scope.                              *)
LEMMA SubjectRowIs ==
  ASSUME NEW g, NEW floor, NEW scope, NEW key \in SubjectKeys(g.bindings, g.sas),
         SubjectGrade(g, key) >= floor,
         \/ scope = {}
         \/ \E b \in ToSet(g.bindings) : Names(b, key) /\ BindingInScope(b, scope)
  PROVE  /\ <<<<"subject", key>>>> \in SubjectRows(g, floor, scope)
         /\ \A i \in Kept(g, floor, scope) : Names(g.bindings[i], key) =>
               <<<<"subject", key>>, BindingNode(i)>> \in SubjectRows(g, floor, scope)
<1> DEFINE mine(k) == \/ scope = {} \/ k[2] \in scope
                      \/ \E b \in ToSet(g.bindings) : Names(b, k) /\ BindingInScope(b, scope)
           shown == {k \in SubjectKeys(g.bindings, g.sas) : SubjectGrade(g, k) >= floor /\ mine(k)}
           bound(k) == {i \in Kept(g, floor, scope) : Names(g.bindings[i], k)}
           Inside(k) == UNION {Under(BindingNode(i), RoleSubtree(g, g.bindings[i])) : i \in bound(k)}
           Row(k) == Under(<<"subject", k>>, Inside(k))
<1>1. SubjectRows(g, floor, scope) = UNION {Row(k) : k \in shown}
  BY DEF SubjectRows
<1>2. key \in shown
  OBVIOUS
<1>3. Row(key) \subseteq SubjectRows(g, floor, scope)
  <2> HIDE DEF Row, shown
  <2> QED BY <1>1, <1>2
<1>4. <<<<"subject", key>>>> \in Row(key)
  <2> HIDE DEF Inside
  <2> QED BY UnderIs
<1>5. ASSUME NEW i \in Kept(g, floor, scope), Names(g.bindings[i], key)
      PROVE  <<<<"subject", key>>, BindingNode(i)>> \in Row(key)
  <2>1. <<BindingNode(i)>> \in Under(BindingNode(i), RoleSubtree(g, g.bindings[i]))
    BY UnderIs
  <2>2. <<BindingNode(i)>> \in Inside(key)
    BY <1>5, <2>1
  <2> HIDE DEF Inside
  <2> QED BY <2>2, UnderIs
<1> HIDE DEF Row
<1> QED BY <1>3, <1>4, <1>5

(* A missing account is told of under the first binding that names it, and *)
(* none else; each account has its row.                                    *)
LEMMA AccountsTold == ASSUME Collected PROVE AccountsAreTold
<1> DEFINE told(i) == <<Quiet, "dangling-sa">> \in reasons.said[i]
<1>1. GoodGraph(G)
  BY CollectedIs
<1>2. ASSUME NEW i \in DOMAIN G.bindings
      PROVE  told(i) <=> NewHoles(G.sas, G.bindings, i) # {}
  <2> DEFINE b == G.bindings[i]
             F == ClassifyFindings(b.ns, b.subjects, GrantedRules(G.roles, b), G.critical)
             more == Finding(NewHoles(G.sas, G.bindings, i) # {}, Quiet, "dangling-sa")
  <2>1. reasons.said[i] = F \cup more
    BY CollectedIs DEF BindingFindings
  <2>2. <<Quiet, "dangling-sa">> \notin F
    BY QuietIs
  <2>3. <<Quiet, "dangling-sa">> \in more <=> NewHoles(G.sas, G.bindings, i) # {}
    BY DEF Finding
  <2> HIDE DEF F, more
  <2> QED BY <2>1, <2>2, <2>3
<1>3. ASSUME NEW i \in DOMAIN G.bindings, told(i)
      PROVE  \E s \in ToSet(G.bindings[i].subjects) : Missing(G.bindings[i], s)
  <2>1. PICK a : a \in NewHoles(G.sas, G.bindings, i)
    BY <1>2, <1>3
  <2>2. a \in Holes(G.sas, G.bindings[i])
    BY <2>1 DEF NewHoles
  <2> QED BY <1>1, <2>2, HoleIs
<1>4. ASSUME NEW i \in DOMAIN G.bindings, NEW s \in ToSet(G.bindings[i].subjects), Missing(G.bindings[i], s)
      PROVE  \E j \in DOMAIN G.bindings :
                /\ told(j)
                /\ \E t \in ToSet(G.bindings[j].subjects) :
                      SubjectKey(G.bindings[j], t) = SubjectKey(G.bindings[i], s)
  <2> DEFINE a == <<Home(G.bindings[i], s), s.name>>
             T == {j \in DOMAIN G.bindings : a \in Holes(G.sas, G.bindings[j])}
  <2>1. i \in T
    BY <1>1, <1>4, HoleIs
  <2>2. DOMAIN G.bindings \in SUBSET Nat /\ \A j \in DOMAIN G.bindings : 1..j \subseteq DOMAIN G.bindings
    <3>1. G.bindings \in Seq(ToSet(G.bindings))
      BY <1>1 DEF GoodGraph
    <3>2. DOMAIN G.bindings = 1..Len(G.bindings) /\ Len(G.bindings) \in Nat
      BY <3>1
    <3> QED BY <3>2
  <2>3. PICK j \in T : \A k \in T : j <= k
    <3>1. T \in SUBSET Nat
      BY <2>2
    <3> HIDE DEF T
    <3> QED BY <2>1, <3>1, LeastNatural
  <2>4. j \in DOMAIN G.bindings /\ a \in Holes(G.sas, G.bindings[j])
    BY <2>3
  <2>5. \A k \in 1..(j - 1) : a \notin Holes(G.sas, G.bindings[k])
    <3> SUFFICES ASSUME NEW k \in 1..(j - 1), a \in Holes(G.sas, G.bindings[k]) PROVE FALSE
      OBVIOUS
    <3>1. j \in Nat /\ k \in 1..j
      BY <2>2, <2>4
    <3>2. k \in T
      BY <2>2, <2>4, <3>1
    <3>3. j <= k
      BY <2>3, <3>2
    <3> QED BY <3>1, <3>3
  <2>6. a \in NewHoles(G.sas, G.bindings, j)
    <3> HIDE DEF a
    <3> QED BY <2>4, <2>5 DEF NewHoles
  <2>7. told(j)
    BY <1>2, <2>4, <2>6
  <2>8. PICK t \in ToSet(G.bindings[j].subjects) :
           Missing(G.bindings[j], t) /\ a = <<Home(G.bindings[j], t), t.name>>
    <3> HIDE DEF a
    <3> QED BY <1>1, <2>4, HoleIs
  <2>9. SubjectKey(G.bindings[j], t) = SubjectKey(G.bindings[i], s)
    BY <1>4, <2>8 DEF Missing, SubjectKey
  <2> QED BY <2>4, <2>7, <2>9
<1>5. ASSUME cluster.floor = Quiet, cluster.scope = {}, NEW account \in UNION G.sas
      PROVE  <<<<"subject", <<"ServiceAccount", account[1], account[2]>>>>>> \in reasons.subjects
  <2> DEFINE key == <<"ServiceAccount", account[1], account[2]>>
  <2>1. key \in SubjectKeys(G.bindings, G.sas)
    BY DEF SubjectKeys
  <2> HIDE DEF key
  <2>2. SubjectGrade(G, key) >= cluster.floor
    BY <1>5, SubjectGradeIs DEF Severities, Quiet
  <2>3. <<<<"subject", key>>>> \in SubjectRows(G, cluster.floor, cluster.scope)
    BY <1>5, <2>1, <2>2, SubjectRowIs, Zenon
  <2> QED BY <2>3, CollectedIs DEF key
<1> HIDE DEF told
<1> SUFFICES AccountsAreTold
  OBVIOUS
<1>6. /\ \A i \in DOMAIN G.bindings : told(i) => \E s \in ToSet(G.bindings[i].subjects) : Missing(G.bindings[i], s)
      /\ \A i \in DOMAIN G.bindings : \A s \in ToSet(G.bindings[i].subjects) :
            Missing(G.bindings[i], s) =>
              \E j \in DOMAIN G.bindings :
                /\ told(j)
                /\ \E t \in ToSet(G.bindings[j].subjects) :
                      SubjectKey(G.bindings[j], t) = SubjectKey(G.bindings[i], s)
  BY <1>3, <1>4
<1> QED BY <1>5, <1>6, Zenon DEF AccountsAreTold, told

(* A set of places that has 0, and with a place the next, has them all.    *)
LEMMA AllPlaces ==
  ASSUME NEW n \in Nat, NEW Got, 0 \in Got, \A i \in 1..n : i - 1 \in Got => i \in Got
  PROVE  \A i \in 0..n : i \in Got
<1> DEFINE T == {i \in 0..n : i \notin Got}
<1> SUFFICES ASSUME T # {} PROVE FALSE
  OBVIOUS
<1>1. T \in SUBSET Nat
  OBVIOUS
<1>2. PICK k \in T : \A m \in T : k <= m
  <2> HIDE DEF T
  <2> QED BY <1>1, LeastNatural
<1>3. k \in 1..n /\ k - 1 \in 0..n /\ k - 1 \notin T
  BY <1>2
<1> QED BY <1>2, <1>3

(* f goes from base through n steps of op.                                 *)
Goes(f, n, S, base, op) ==
  f \in [0..n -> S] /\ f[0] = base /\ \A i \in 1..n : f[i] = op[i][f[i - 1]]

LEMMA StepsExist ==
  ASSUME NEW n \in Nat, NEW S, NEW base \in S, NEW op \in [1..n -> [S -> S]]
  PROVE  \E f : Goes(f, n, S, base, op)
<1> DEFINE Upto(k, f) == /\ f \in [0..k -> S] /\ f[0] = base
                         /\ \A i \in 1..k : f[i] = op[i][f[i - 1]]
           Got == {k \in 0..n : \E f : Upto(k, f)}
<1>1. 0 \in Got
  <2>1. Upto(0, [i \in 0..0 |-> base])
    OBVIOUS
  <2> HIDE DEF Upto
  <2> QED BY <2>1
<1>2. ASSUME NEW k \in 1..n, k - 1 \in Got PROVE k \in Got
  <2>1. PICK f : Upto(k - 1, f)
    BY <1>2
  <2> DEFINE g == [i \in 0..k |-> IF i = k THEN op[k][f[k - 1]] ELSE f[i]]
  <2>2. f[k - 1] \in S /\ op[k][f[k - 1]] \in S
    BY <2>1
  <2>3. g \in [0..k -> S] /\ g[0] = base
    BY <2>1, <2>2
  <2>4. ASSUME NEW i \in 1..k PROVE g[i] = op[i][g[i - 1]]
    <3>1. CASE i = k
      BY <3>1
    <3>2. CASE i # k
      <4>1. i \in 1..(k - 1) /\ g[i] = f[i] /\ g[i - 1] = f[i - 1]
        BY <3>2
      <4> HIDE DEF g
      <4> QED BY <2>1, <4>1
    <3> QED BY <3>1, <3>2
  <2> HIDE DEF g
  <2>5. Upto(k, g)
    BY <2>3, <2>4
  <2> HIDE DEF Upto
  <2> QED BY <2>5
<1>3. PICK f : Upto(n, f)
  <2>1. \A i \in 1..n : i - 1 \in Got => i \in Got
    BY <1>2
  <2>2. n \in Got
    <3> HIDE DEF Got
    <3>1. \A i \in 0..n : i \in Got
      BY <1>1, <2>1, AllPlaces
    <3> QED BY <3>1
  <2> QED BY <2>2
<1> QED BY <1>3 DEF Goes


(* The rules of the roles are worked out from role to role: no role loses   *)
(* rules of its own, and one made of others has theirs from its turn on.   *)
LEMMA MadeOfParts ==
  ASSUME NEW roles, NEW S, roles \in Seq(S),
         NEW r \in DOMAIN roles, roles[r].rules = {}, roles[r].selectors # {},
         NEW part \in Aggregates(roles, r)
  PROVE  roles[part].rules \subseteq RulesOf(roles)[r]
<1> DEFINE n == Len(roles)
           U == UNION {roles[j].rules : j \in DOMAIN roles}
           T == [DOMAIN roles -> SUBSET U]
           base == [j \in DOMAIN roles |-> roles[j].rules]
           One(x, i) == IF roles[i].selectors = {} \/ roles[i].rules # {} THEN x
                        ELSE [x EXCEPT ![i] = UNION {x[j] : j \in Aggregates(roles, i)}]
           step(f) == [i \in 0..n |-> IF i = 0 THEN base ELSE One(f[i - 1], i)]
           F == CHOOSE f : f = step(f)
           op == [i \in 1..n |-> [x \in T |-> One(x, i)]]
<1>1. RulesOf(roles) = F[n]
  BY DEF RulesOf
<1> HIDE DEF F
<1>2. n \in Nat /\ DOMAIN roles = 1..n
  OBVIOUS
<1>3. base \in T
  OBVIOUS
<1>4. ASSUME NEW i \in 1..n, NEW x \in T PROVE One(x, i) \in T
  <2>1. Aggregates(roles, i) \subseteq DOMAIN roles
    BY DEF Aggregates
  <2>2. \A j \in Aggregates(roles, i) : x[j] \subseteq U
    <3> HIDE DEF U
    <3> QED BY <2>1
  <2>3. UNION {x[j] : j \in Aggregates(roles, i)} \in SUBSET U
    <3> HIDE DEF U, T
    <3> QED BY <2>2
  <2> HIDE DEF U
  <2> QED BY <2>3
<1>5. op \in [1..n -> [T -> T]] /\ \A i \in 1..n, x \in T : op[i][x] = One(x, i)
  <2> HIDE DEF T, One, n
  <2> QED BY <1>4
<1>6. \A f : step(f) = [i \in 0..n |-> IF i = 0 THEN base ELSE One(f[i - 1], i)]
  OBVIOUS
<1>7. PICK f : Goes(f, n, T, base, op)
  <2> HIDE DEF T, One, n, base, op
  <2> QED BY <1>2, <1>3, <1>5, StepsExist
<1>8. /\ f \in [0..n -> T] /\ f[0] = base
      /\ \A i \in 1..n : f[i] = One(f[i - 1], i)
  <2>1. \A i \in 1..n : f[i - 1] \in T
    <3> HIDE DEF T, One, base, op
    <3>1. \A i \in 1..n : i - 1 \in 0..n
      BY <1>2
    <3> QED BY <1>7, <3>1 DEF Goes
  <2> HIDE DEF T, One, n, base, op
  <2> QED BY <1>5, <1>7, <2>1 DEF Goes
<1>9. f = step(f)
  <2> HIDE DEF T, One, base, op, step
  <2>1. f = [i \in 0..n |-> f[i]]
    BY <1>8
  <2>2. \A i \in 0..n : f[i] = IF i = 0 THEN base ELSE One(f[i - 1], i)
    BY <1>2, <1>8
  <2> QED BY <1>6, <2>1, <2>2
<1>10. F = step(F)
  <2> HIDE DEF step
  <2> QED BY <1>9 DEF F
<1>11. F[0] = base /\ \A i \in 1..n : F[i] = One(F[i - 1], i)
  <2> HIDE DEF One, base, step
  <2>1. \A i \in 0..n : F[i] = IF i = 0 THEN base ELSE One(F[i - 1], i)
    BY <1>6, <1>10
  <2>2. 0 \in 0..n /\ \A i \in 1..n : i \in 0..n /\ i # 0
    BY <1>2
  <2> QED BY <2>1, <2>2
<1> DEFINE Good(x, k) == /\ x \in T
                         /\ \A j \in DOMAIN roles : roles[j].rules \subseteq x[j]
                         /\ k >= r => roles[part].rules \subseteq x[r]
           H == {k \in 0..n : Good(F[k], k)}
<1>12. r \in 1..n /\ part \in 1..n
  BY <1>2 DEF Aggregates
<1>13. 0 \in H
  <2>1. Good(base, 0)
    BY <1>2, <1>3, <1>12
  <2> HIDE DEF Good
  <2> QED BY <1>2, <1>11, <2>1
<1>14. ASSUME NEW i \in 1..n, i - 1 \in H PROVE i \in H
  <2>1. PICK x : x = F[i - 1]
    OBVIOUS
  <2>2. Good(x, i - 1) /\ F[i] = One(x, i)
    <3> HIDE DEF Good, One
    <3> QED BY <1>11, <1>14, <2>1
  <2>3. Good(One(x, i), i)
    <3>1. One(x, i) \in T
      <4> HIDE DEF One, T
      <4> QED BY <1>4, <2>2
    <3>2. CASE roles[i].selectors = {} \/ roles[i].rules # {}
      <4>1. One(x, i) = x /\ i # r
        BY <3>2
      <4>2. i >= r => i - 1 >= r
        BY <1>12, <4>1
      <4> HIDE DEF One, T
      <4> QED BY <2>2, <4>1, <4>2
    <3>3. CASE ~(roles[i].selectors = {} \/ roles[i].rules # {})
      <4> DEFINE new == UNION {x[j] : j \in Aggregates(roles, i)}
      <4>1. One(x, i) = [x EXCEPT ![i] = new] /\ roles[i].rules = {}
        BY <3>3
      <4>2. x \in [1..n -> SUBSET U]
        BY <1>2, <2>2
      <4>3. One(x, i)[i] = new /\ \A j \in 1..n \ {i} : One(x, i)[j] = x[j]
        <5> HIDE DEF new, One, U
        <5> QED BY <4>1, <4>2
      <4>4. \A j \in DOMAIN roles : roles[j].rules \subseteq One(x, i)[j]
        <5> HIDE DEF new, One
        <5> QED BY <1>2, <2>2, <4>1, <4>3
      <4>5. ASSUME i >= r PROVE roles[part].rules \subseteq One(x, i)[r]
        <5>1. CASE i = r
          <6>1. roles[part].rules \subseteq x[part]
            BY <1>2, <1>12, <2>2
          <6>2. x[part] \subseteq new
            BY <5>1
          <6> HIDE DEF new, One
          <6> QED BY <4>3, <5>1, <6>1, <6>2
        <5>2. CASE i # r
          <6>1. i - 1 >= r /\ r \in 1..n \ {i}
            BY <1>12, <4>5, <5>2
          <6> HIDE DEF new, One
          <6> QED BY <2>2, <4>3, <6>1
        <5> QED BY <5>1, <5>2
      <4> HIDE DEF One, T
      <4> QED BY <3>1, <4>4, <4>5
    <3> QED BY <3>2, <3>3
  <2> HIDE DEF Good, One
  <2> QED BY <1>2, <2>2, <2>3
<1>15. n \in H
  <2> HIDE DEF H
  <2>1. \A i \in 1..n : i - 1 \in H => i \in H
    BY <1>14
  <2>2. \A i \in 0..n : i \in H
    BY <1>2, <1>13, <2>1, AllPlaces
  <2> QED BY <1>2, <2>2
<1> QED BY <1>1, <1>12, <1>15

(* A role is said to be unused when no binding gives it, and has the rules  *)
(* of its parts.                                                           *)
LEMMA UseTold == ASSUME Collected PROVE UseOfRolesIsTold
<1>1. GoodGraph(G)
  BY CollectedIs
<1>2. ASSUME NEW r \in DOMAIN G.roles
      PROVE  (<<Quiet, "unbound-role">> \in reasons.ofRoles[r]) <=>
                  \A i \in DOMAIN G.bindings : r \notin Granted(G.roles, G.bindings[i])
  <2> DEFINE F == ClassifyFindings(G.roles[r].ns, << >>, RulesOf(G.roles)[r], G.critical)
             unused == Finding(BoundIn(G.roles, G.bindings, r) = {}, Quiet, "unbound-role")
             partly == Finding(\E s \in G.roles[r].selectors : s.partial, Quiet, "aggregation-partial")
  <2>1. reasons.ofRoles[r] = F \cup unused \cup partly
    BY CollectedIs DEF RoleFindings
  <2>2. <<Quiet, "unbound-role">> \notin F
    BY QuietIs
  <2>3. <<Quiet, "unbound-role">> \notin partly
    BY DEF Finding
  <2>4. <<Quiet, "unbound-role">> \in unused <=> BoundIn(G.roles, G.bindings, r) = {}
    BY DEF Finding
  <2>5. BoundIn(G.roles, G.bindings, r) = {} <=>
          \A i \in DOMAIN G.bindings : r \notin Granted(G.roles, G.bindings[i])
    <3>1. \A c : c \in ToSet(G.bindings) <=> \E i \in DOMAIN G.bindings : c = G.bindings[i]
      BY DEF ToSet
    <3> QED BY <3>1 DEF BoundIn
  <2> HIDE DEF F, unused, partly
  <2> QED BY <2>1, <2>2, <2>3, <2>4, <2>5
<1>3. \A r \in DOMAIN G.roles : G.roles[r].rules = {} =>
        \A s \in G.roles[r].selectors : \A wanted \in s.labels :
          \A part \in DOMAIN G.roles \ {r} :
            (/\ G.roles[part].ns = ""
             /\ \A k \in DOMAIN wanted : /\ k \in DOMAIN G.roles[part].labels
                                          /\ G.roles[part].labels[k] = wanted[k]) =>
                G.roles[part].rules \subseteq RulesOf(G.roles)[r]
  <2> TAKE r \in DOMAIN G.roles
  <2> HAVE G.roles[r].rules = {}
  <2> TAKE s \in G.roles[r].selectors
  <2> TAKE wanted \in s.labels
  <2> TAKE part \in DOMAIN G.roles \ {r}
  <2> HAVE /\ G.roles[part].ns = ""
           /\ \A k \in DOMAIN wanted : /\ k \in DOMAIN G.roles[part].labels
                                        /\ G.roles[part].labels[k] = wanted[k]
  <2>1. G.roles[part].kind = "ClusterRole"
    <3>1. G.roles[part] \in ToSet(G.roles)
      BY DEF ToSet
    <3> QED BY <1>1, <3>1 DEF GoodGraph
  <2>2. HasLabels(G.roles[part].labels, wanted)
    BY DEF HasLabels
  <2>3. part \in Aggregates(G.roles, r)
    BY <2>1, <2>2 DEF Aggregates
  <2>4. G.roles \in Seq(ToSet(G.roles))
    BY <1>1 DEF GoodGraph
  <2> QED BY <2>3, <2>4, MadeOfParts
<1> QED BY <1>2, <1>3, Zenon DEF UseOfRolesIsTold

LEMMA JoinedTwo == ASSUME NEW x, NEW y, NEW z PROVE <<x>> \o <<y, z>> = <<x, y, z>>
<1> DEFINE S == {x, y, z}
<1>1. PICK a, b : a = <<x>> /\ b = <<y, z>>
  OBVIOUS
<1>2. a \in Seq(S) /\ Len(a) = 1 /\ a[1] = x
  BY <1>1
<1>3. b \in Seq(S) /\ Len(b) = 2 /\ b[1] = y /\ b[2] = z
  BY <1>1
<1>4. <<x, y, z>> \in Seq(S) /\ Len(<<x, y, z>>) = 3
  OBVIOUS
<1> HIDE DEF S
<1>5. /\ a \o b \in Seq(S) /\ Len(a \o b) = Len(a) + Len(b)
      /\ \A i \in 1..(Len(a) + Len(b)) : (a \o b)[i] = IF i <= Len(a) THEN a[i] ELSE b[i - Len(a)]
  BY <1>2, <1>3, ConcatProperties
<1>6. Len(a \o b) = 3 /\ (a \o b)[1] = x /\ (a \o b)[2] = y /\ (a \o b)[3] = z
  BY <1>2, <1>3, <1>5
<1>7. \A i \in 1..Len(a \o b) : (a \o b)[i] = <<x, y, z>>[i]
  BY <1>6
<1>8. a \o b = <<x, y, z>>
  BY <1>4, <1>5, <1>6, <1>7, SeqEqual
<1> QED BY <1>1, <1>8

LEMMA LastIs ==
  /\ \A x : Last(<<x>>) = x
  /\ \A x, y : Last(<<x, y>>) = y
  /\ \A x, y, z : Last(<<x, y, z>>) = z
  BY DEF Last

(* The nodes of a tree are told apart by what they are of.                 *)
LEMMA NodesDiffer ==
  ASSUME NEW i
  PROVE  /\ \A j : BindingNode(j) = BindingNode(i) => j = i
         /\ \A j : RoleNode(j) = RoleNode(i) => j = i
         /\ \A x : RoleNode(x) # BindingNode(i)
         /\ \A x : <<"contributor", x>> # BindingNode(i)
         /\ \A x : <<"rule", x>> # BindingNode(i)
         /\ \A x : <<"subject", x>> # BindingNode(i)
         /\ \A x : <<"subject", x>> # RoleNode(i)
         /\ \A x, y : <<"group", x, y>> # BindingNode(i)
<1>1. \A j : BindingNode(j)[1] = "binding" /\ BindingNode(j)[2] = j
  BY DEF BindingNode
<1>2. \A j : RoleNode(j)[1] = "role" /\ RoleNode(j)[2] = j
  BY DEF RoleNode
<1>3. \A x, y : <<x, y>>[1] = x
  OBVIOUS
<1>4. \A x, y, z : <<x, y, z>>[1] = x
  OBVIOUS
<1>5. \A j : BindingNode(j) = BindingNode(i) => j = i
  BY <1>1
<1>6. \A j : RoleNode(j) = RoleNode(i) => j = i
  BY <1>2
<1>7. \A x : RoleNode(x) # BindingNode(i)
  BY <1>1, <1>2
<1>8. \A x : /\ <<"contributor", x>> # BindingNode(i) /\ <<"rule", x>> # BindingNode(i)
             /\ <<"subject", x>> # BindingNode(i) /\ <<"subject", x>> # RoleNode(i)
  BY <1>1, <1>2, <1>3
<1>9. \A x, y : <<"group", x, y>> # BindingNode(i)
  BY <1>1, <1>4
<1> QED BY <1>5, <1>6, <1>7, <1>8, <1>9

(* Where a role has a binding under it. *)
PathOf(g, r, i) ==
  IF ~IsTemplate(g.roles, g.bindings, r) \/ g.bindings[i].ns = "" THEN <<RoleNode(r), BindingNode(i)>>
  ELSE <<RoleNode(r), <<"group", r, g.bindings[i].ns>>, BindingNode(i)>>

(* Under a role, a binding is where it has to be if it is one of its, and   *)
(* nowhere else.                                                           *)
LEMMA GrantsAre ==
  ASSUME NEW g, NEW r, NEW bound, NEW i, NEW p
  PROVE  (p \in Under(RoleNode(r), Contents(g, r) \cup Grants(g, r, bound)) /\ Last(p) = BindingNode(i))
           <=> (i \in bound /\ p = PathOf(g, r, i))
<1> DEFINE at(ns) == {<<BindingNode(j)>> : j \in {k \in bound : g.bindings[k].ns = ns}}
           spaces == {g.bindings[j].ns : j \in bound} \ {""}
           Group(ns) == Under(<<"group", r, ns>>, at(ns))
           plain == ~IsTemplate(g.roles, g.bindings, r)
           all == Contents(g, r) \cup Grants(g, r, bound)
<1>1. Grants(g, r, bound) = IF plain THEN {<<BindingNode(j)>> : j \in bound}
                            ELSE at("") \cup (UNION {Group(ns) : ns \in spaces})
  BY DEF Grants
<1>2. ASSUME NEW q \in Contents(g, r) PROVE \E x : q = <<x>> /\ x # BindingNode(i)
  <2>1. \/ \E j : q = <<<<"contributor", j>>>>
        \/ \E j : q = <<<<"rule", j>>>>
    BY <1>2 DEF Contents
  <2> QED BY <2>1, NodesDiffer
<1>3. \A ns, q : q \in at(ns) <=> \E j \in bound : g.bindings[j].ns = ns /\ q = <<BindingNode(j)>>
  OBVIOUS
<1>4. ASSUME NEW ns, NEW q
      PROVE  q \in Group(ns) <=>
               \/ q = <<<<"group", r, ns>>>>
               \/ \E j \in bound : g.bindings[j].ns = ns /\ q = <<<<"group", r, ns>>, BindingNode(j)>>
  <2>1. q \in Group(ns) <=> q = <<<<"group", r, ns>>>> \/ \E x \in at(ns) : q = <<<<"group", r, ns>>>> \o x
    <3> HIDE DEF at
    <3> QED BY DEF Under
  <2>2. \A j : <<<<"group", r, ns>>>> \o <<BindingNode(j)>> = <<<<"group", r, ns>>, BindingNode(j)>>
    BY Joined
  <2>3. (\E x \in at(ns) : q = <<<<"group", r, ns>>>> \o x) <=>
          \E j \in bound : g.bindings[j].ns = ns /\ q = <<<<"group", r, ns>>>> \o <<BindingNode(j)>>
    <3> DEFINE joined(x) == <<<<"group", r, ns>>>> \o x
    <3> HIDE DEF at, Group, joined
    <3>1. (\E x \in at(ns) : q = joined(x)) <=>
            \E j \in bound : g.bindings[j].ns = ns /\ q = joined(<<BindingNode(j)>>)
      <4>1. ASSUME NEW x \in at(ns), q = joined(x)
            PROVE  \E j \in bound : g.bindings[j].ns = ns /\ q = joined(<<BindingNode(j)>>)
        <5>1. PICK j \in bound : g.bindings[j].ns = ns /\ x = <<BindingNode(j)>>
          BY <1>3
        <5> QED BY <4>1, <5>1
      <4>2. ASSUME NEW j \in bound, g.bindings[j].ns = ns, q = joined(<<BindingNode(j)>>)
            PROVE  \E x \in at(ns) : q = joined(x)
        BY <1>3, <4>2
      <4> QED BY <4>1, <4>2
    <3> QED BY <3>1 DEF joined
  <2> HIDE DEF at, Group
  <2> QED BY <2>1, <2>2, <2>3
<1>5. ASSUME NEW q
      PROVE  q \in Grants(g, r, bound) <=>
               \/ \E j \in bound : (plain \/ g.bindings[j].ns = "") /\ q = <<BindingNode(j)>>
               \/ ~plain /\ \E ns \in spaces : q = <<<<"group", r, ns>>>>
               \/ ~plain /\ \E j \in bound : /\ g.bindings[j].ns # ""
                                             /\ q = <<<<"group", r, g.bindings[j].ns>>, BindingNode(j)>>
  <2>1. CASE plain
    <3> HIDE DEF plain, at, Group, spaces
    <3> QED BY <1>1, <2>1
  <2>2. CASE ~plain
    <3>1. q \in Grants(g, r, bound) <=> q \in at("") \/ \E ns \in spaces : q \in Group(ns)
      <4> HIDE DEF plain, at, Group, spaces
      <4>1. Grants(g, r, bound) = at("") \cup (UNION {Group(ns) : ns \in spaces})
        BY <1>1, <2>2
      <4>2. q \in UNION {Group(ns) : ns \in spaces} <=> \E ns \in spaces : q \in Group(ns)
        OBVIOUS
      <4> QED BY <4>1, <4>2
    <3>2. \A ns : ns \in spaces <=> ns # "" /\ \E j \in bound : ns = g.bindings[j].ns
      OBVIOUS
    <3>3. (\E ns \in spaces : q \in Group(ns)) <=>
            \/ \E ns \in spaces : q = <<<<"group", r, ns>>>>
            \/ \E j \in bound : /\ g.bindings[j].ns # ""
                                /\ q = <<<<"group", r, g.bindings[j].ns>>, BindingNode(j)>>
      <4> HIDE DEF plain, at, Group, spaces
      <4> QED BY <1>4, <3>2
    <3> HIDE DEF plain, at, Group, spaces
    <3> QED BY <1>3, <2>2, <3>1, <3>3
  <2> QED BY <2>1, <2>2
<1>6. p \in Under(RoleNode(r), all) <=> p = <<RoleNode(r)>> \/ \E q \in all : p = <<RoleNode(r)>> \o q
  <2> HIDE DEF all
  <2> QED BY DEF Under
<1>7. ASSUME i \in bound, p = PathOf(g, r, i)
      PROVE  p \in Under(RoleNode(r), all) /\ Last(p) = BindingNode(i)
  <2>1. CASE plain \/ g.bindings[i].ns = ""
    <3>1. p = <<RoleNode(r), BindingNode(i)>>
      BY <1>7, <2>1 DEF PathOf
    <3>2. <<BindingNode(i)>> \in all
      <4> HIDE DEF plain, spaces
      <4> QED BY <1>5, <1>7, <2>1
    <3> HIDE DEF all
    <3>3. <<RoleNode(r)>> \o <<BindingNode(i)>> = p
      BY <3>1, Joined
    <3> QED BY <1>6, <3>1, <3>2, <3>3, LastIs
  <2>2. CASE ~(plain \/ g.bindings[i].ns = "")
    <3> DEFINE group == <<"group", r, g.bindings[i].ns>>
    <3>1. p = <<RoleNode(r), group, BindingNode(i)>>
      BY <1>7, <2>2 DEF PathOf
    <3>2. <<group, BindingNode(i)>> \in all
      <4> HIDE DEF plain, spaces
      <4> QED BY <1>5, <1>7, <2>2
    <3> HIDE DEF all, group
    <3>3. <<RoleNode(r)>> \o <<group, BindingNode(i)>> = p
      BY <3>1, JoinedTwo
    <3>4. Last(p) = BindingNode(i)
      BY <3>1, LastIs
    <3> QED BY <1>6, <3>2, <3>3, <3>4
  <2> QED BY <2>1, <2>2
<1>8. ASSUME p \in Under(RoleNode(r), all), Last(p) = BindingNode(i)
      PROVE  i \in bound /\ p = PathOf(g, r, i)
  <2>1. p # <<RoleNode(r)>>
    BY <1>8, LastIs, NodesDiffer
  <2>2. PICK q \in all : p = <<RoleNode(r)>> \o q
    <3> HIDE DEF all
    <3> QED BY <1>6, <1>8, <2>1
  <2>3. ASSUME NEW x, q = <<x>> PROVE p = <<RoleNode(r), x>> /\ x = BindingNode(i)
    <3>1. p = <<RoleNode(r), x>>
      BY <2>2, <2>3, Joined
    <3> QED BY <1>8, <3>1, LastIs
  <2>4. q \notin Contents(g, r)
    BY <1>2, <2>3
  <2>5. q \in Grants(g, r, bound)
    BY <2>4
  <2>6. CASE \E j \in bound : (plain \/ g.bindings[j].ns = "") /\ q = <<BindingNode(j)>>
    <3>1. PICK j \in bound : (plain \/ g.bindings[j].ns = "") /\ q = <<BindingNode(j)>>
      BY <2>6
    <3>2. p = <<RoleNode(r), BindingNode(j)>> /\ j = i
      BY <2>3, <3>1, NodesDiffer
    <3> QED BY <3>1, <3>2 DEF PathOf
  <2>7. CASE \E ns \in spaces : q = <<<<"group", r, ns>>>>
    <3>1. PICK ns : q = <<<<"group", r, ns>>>>
      BY <2>7
    <3>2. <<"group", r, ns>> = BindingNode(i)
      BY <2>3, <3>1
    <3> QED BY <3>2, NodesDiffer
  <2>8. CASE ~plain /\ \E j \in bound : /\ g.bindings[j].ns # ""
                                        /\ q = <<<<"group", r, g.bindings[j].ns>>, BindingNode(j)>>
    <3>1. PICK j \in bound : /\ g.bindings[j].ns # ""
                             /\ q = <<<<"group", r, g.bindings[j].ns>>, BindingNode(j)>>
      BY <2>8
    <3>2. p = <<RoleNode(r), <<"group", r, g.bindings[j].ns>>, BindingNode(j)>>
      BY <2>2, <3>1, JoinedTwo
    <3>3. j = i
      BY <1>8, <3>2, LastIs, NodesDiffer
    <3> QED BY <2>8, <3>1, <3>2, <3>3 DEF PathOf
  <2> HIDE DEF plain, spaces
  <2> QED BY <1>5, <2>5, <2>6, <2>7, <2>8
<1> HIDE DEF all
<1> SUFFICES (p \in Under(RoleNode(r), all) /\ Last(p) = BindingNode(i)) <=> (i \in bound /\ p = PathOf(g, r, i))
  BY DEF all
<1> QED BY <1>7, <1>8

(* A row under a role starts with its node. *)
LEMMA RoleComesFirst ==
  ASSUME NEW g, NEW r, NEW bound, NEW p \in Under(RoleNode(r), Contents(g, r) \cup Grants(g, r, bound))
  PROVE  p[1] = RoleNode(r)
<1>1. \A x, y, z : <<x>>[1] = x /\ <<x, y>>[1] = x /\ <<x, y, z>>[1] = x
  OBVIOUS
<1>2. CASE p = <<RoleNode(r)>>
  BY <1>1, <1>2
<1>3. ASSUME NEW q \in Contents(g, r) \cup Grants(g, r, bound), p = <<RoleNode(r)>> \o q
      PROVE  p[1] = RoleNode(r)
  <2>1. \/ \E x : q = <<x>>
        \/ \E x, y : q = <<x, y>>
    <3>1. CASE q \in Contents(g, r)
      BY <3>1 DEF Contents
    <3>2. CASE q \in Grants(g, r, bound)
      <4>1. \A n, ps : (\A x \in ps : \E j : x = <<BindingNode(j)>>) =>
               \A x \in Under(n, ps) : \/ x = <<n>> \/ \E j : x = <<n, BindingNode(j)>>
        <5> TAKE n, ps
        <5> HAVE \A x \in ps : \E j : x = <<BindingNode(j)>>
        <5> TAKE x \in Under(n, ps)
        <5>1. x = <<n>> \/ \E k \in ps : x = <<n>> \o k
          BY DEF Under
        <5>2. \A j : <<n>> \o <<BindingNode(j)>> = <<n, BindingNode(j)>>
          BY Joined
        <5>3. ASSUME NEW k \in ps, x = <<n>> \o k PROVE \E j : x = <<n, BindingNode(j)>>
          <6>1. PICK j : k = <<BindingNode(j)>>
            OBVIOUS
          <6>2. x = <<n, BindingNode(j)>>
            BY <5>2, <5>3, <6>1
          <6> QED BY <6>2
        <5> QED BY <5>1, <5>3
      <4> DEFINE at(ns) == {<<BindingNode(j)>> : j \in {k \in bound : g.bindings[k].ns = ns}}
                 spaces == {g.bindings[j].ns : j \in bound} \ {""}
                 plain == ~IsTemplate(g.roles, g.bindings, r)
                 Group(ns) == Under(<<"group", r, ns>>, at(ns))
      <4>2. Grants(g, r, bound) = IF plain THEN {<<BindingNode(j)>> : j \in bound}
                                  ELSE at("") \cup (UNION {Group(ns) : ns \in spaces})
        BY DEF Grants
      <4>3. \A ns : \A x \in at(ns) : \E j : x = <<BindingNode(j)>>
        OBVIOUS
      <4>4. \A ns : \A x \in Group(ns) : x = <<<<"group", r, ns>>>> \/ \E j : x = <<<<"group", r, ns>>, BindingNode(j)>>
        <5> HIDE DEF at
        <5> QED BY <4>1, <4>3
      <4> HIDE DEF at, spaces, plain, Group
      <4>5. \/ \E j : q = <<BindingNode(j)>>
            \/ \E ns : q \in at(ns)
            \/ \E ns : q \in Group(ns)
        <5>1. CASE plain
          BY <3>2, <4>2, <5>1
        <5>2. CASE ~plain
          <6>1. Grants(g, r, bound) = at("") \cup (UNION {Group(ns) : ns \in spaces})
            BY <4>2, <5>2
          <6> QED BY <3>2, <6>1
        <5> QED BY <5>1, <5>2
      <4>6. CASE \E j : q = <<BindingNode(j)>>
        BY <4>6
      <4>7. CASE \E ns : q \in at(ns)
        BY <4>3, <4>7
      <4>8. CASE \E ns : q \in Group(ns)
        BY <4>4, <4>8
      <4> QED BY <4>5, <4>6, <4>7, <4>8
    <3> QED BY <3>1, <3>2
  <2>2. CASE \E x : q = <<x>>
    BY <1>1, <1>3, <2>2, Joined
  <2>3. CASE \E x, y : q = <<x, y>>
    BY <1>1, <1>3, <2>3, JoinedTwo
  <2> QED BY <2>1, <2>2, <2>3
<1> QED BY <1>2, <1>3, UnderIs

(* Each grant that is due is in sight, and under a role it is given by,     *)
(* exactly once.                                                           *)
LEMMA InSightTold == ASSUME Collected PROVE GrantsAreInSight
<1>1. GoodGraph(G) /\ cluster.floor \in Severities
  BY CollectedIs
<1>2. ASSUME NEW i \in DOMAIN G.bindings, Due(i)
      PROVE  /\ <<BindingNode(i)>> \in reasons.flat \cap reasons.bindings
             /\ \A s \in ToSet(G.bindings[i].subjects) :
                   LET path == <<<<"subject", SubjectKey(G.bindings[i], s)>>, BindingNode(i)>>
                   IN  /\ path \in reasons.subjects
                       /\ reasons.grade[i] >= High => path \in InSight(reasons.subjects, reasons.folded)
  <2> DEFINE b == G.bindings[i]
  <2>1. /\ reasons.grade[i] = Grade(G, i) /\ Grade(G, i) >= cluster.floor
        /\ BindingInScope(b, cluster.scope)
    BY <1>2, CollectedIs DEF Due
  <2>2. i \in Kept(G, cluster.floor, cluster.scope)
    BY <2>1 DEF Kept
  <2>3. <<BindingNode(i)>> \in reasons.flat
    BY <2>2, CollectedIs DEF FlatRows
  <2>4. <<BindingNode(i)>> \in reasons.bindings
    <3> DEFINE Row(k) == Under(BindingNode(k), {<<<<"leaf", s>>>> : s \in ToSet(G.bindings[k].subjects)}
                                                 \cup RoleSubtree(G, G.bindings[k]))
    <3>1. reasons.bindings = UNION {Row(k) : k \in Kept(G, cluster.floor, cluster.scope)}
      BY CollectedIs DEF BindingRows
    <3>2. <<BindingNode(i)>> \in Row(i)
      BY UnderIs
    <3> HIDE DEF Row
    <3> QED BY <2>2, <3>1, <3>2
  <2>5. ASSUME NEW s \in ToSet(b.subjects)
        PROVE  LET path == <<<<"subject", SubjectKey(b, s)>>, BindingNode(i)>>
               IN  /\ path \in reasons.subjects
                   /\ reasons.grade[i] >= High => path \in InSight(reasons.subjects, reasons.folded)
    <3> DEFINE key == SubjectKey(b, s)
               path == <<<<"subject", key>>, BindingNode(i)>>
    <3>1. Names(b, key)
      BY DEF Names
    <3>2. b \in ToSet(G.bindings)
      BY DEF ToSet
    <3>3. key \in SubjectKeys(G.bindings, G.sas)
      <4> HIDE DEF b
      <4> QED BY <3>2 DEF SubjectKeys
    <3> HIDE DEF key
    <3>4. SubjectGrade(G, key) \in Severities /\ SubjectGrade(G, key) >= Grade(G, i)
      BY <3>1, SubjectGradeIs
    <3>5. SubjectGrade(G, key) >= cluster.floor
      BY <1>1, <2>1, <3>4, GradeIn DEF Severities
    <3>6. path \in SubjectRows(G, cluster.floor, cluster.scope)
      <4>1. \E c \in ToSet(G.bindings) : Names(c, key) /\ BindingInScope(c, cluster.scope)
        BY <2>1, <3>1, <3>2
      <4>2. \A k \in Kept(G, cluster.floor, cluster.scope) : Names(G.bindings[k], key) =>
               <<<<"subject", key>>, BindingNode(k)>> \in SubjectRows(G, cluster.floor, cluster.scope)
        BY <3>3, <3>5, <4>1, SubjectRowIs, Zenon
      <4> QED BY <2>2, <3>1, <4>2
    <3>7. path \in reasons.subjects
      BY <3>6, CollectedIs
    <3>8. ASSUME reasons.grade[i] >= High PROVE path \in InSight(reasons.subjects, reasons.folded)
      <4>1. ~(SubjectGrade(G, key) < High)
        BY <2>1, <3>4, <3>8, GradeIn DEF Severities, High
      <4>2. <<"subject", key>> \notin AutoFolded(G)
        <5>1. \A k : <<"subject", key>> # BindingNode(k) /\ <<"subject", key>> # RoleNode(k)
          BY NodesDiffer
        <5>2. \A k : <<"subject", key>> = <<"subject", k>> => k = key
          OBVIOUS
        <5> QED BY <4>1, <5>1, <5>2 DEF AutoFolded
      <4>3. Len(path) = 2 /\ path[1] = <<"subject", key>>
        OBVIOUS
      <4>4. reasons.folded = AutoFolded(G)
        BY CollectedIs
      <4> HIDE DEF path
      <4>5. \A n \in 1..(Len(path) - 1) : path[n] \notin reasons.folded
        BY <4>2, <4>3, <4>4
      <4> QED BY <3>7, <4>5 DEF InSight
    <3> QED BY <3>7, <3>8 DEF key
  <2> QED BY <2>3, <2>4, <2>5
<1>3. ASSUME NEW r \in DOMAIN G.roles, <<RoleNode(r)>> \in reasons.roles, NEW i \in DOMAIN G.bindings
      PROVE  Cardinality({p \in reasons.roles : p[1] = RoleNode(r) /\ Last(p) = BindingNode(i)})
               = IF r \in Granted(G.roles, G.bindings[i])
                    /\ BindingInScope(G.bindings[i], cluster.scope) THEN 1 ELSE 0
  <2> DEFINE scope == cluster.scope
             bound(k) == {j \in DOMAIN G.bindings :
                            BindingInScope(G.bindings[j], scope) /\ k \in Granted(G.roles, G.bindings[j])}
             shown == {k \in DOMAIN G.roles :
                         RoleGrade(G, k) >= cluster.floor
                           /\ (scope = {} \/ G.roles[k].ns \in scope \/ bound(k) # {})}
             Row(k) == Under(RoleNode(k), Contents(G, k) \cup Grants(G, k, bound(k)))
             P == {p \in reasons.roles : p[1] = RoleNode(r) /\ Last(p) = BindingNode(i)}
  <2>1. reasons.roles = UNION {Row(k) : k \in shown}
    BY CollectedIs DEF RoleRows
  <2>2. \A k : \A p \in Row(k) : p[1] = RoleNode(k)
    <3> HIDE DEF bound
    <3> QED BY RoleComesFirst
  <2>3. \A k, m : RoleNode(k) = RoleNode(m) => k = m
    BY NodesDiffer
  <2>4. r \in shown
    <3> HIDE DEF Row, shown
    <3>1. PICK k \in shown : <<RoleNode(r)>> \in Row(k)
      BY <1>3, <2>1
    <3>2. <<RoleNode(r)>>[1] = RoleNode(r)
      OBVIOUS
    <3> QED BY <2>2, <2>3, <3>1, <3>2
  <2>5. ASSUME NEW p PROVE p \in P <=> p \in Row(r) /\ Last(p) = BindingNode(i)
    <3> HIDE DEF Row, shown
    <3>1. p \in reasons.roles <=> \E k \in shown : p \in Row(k)
      BY <2>1
    <3> QED BY <2>2, <2>3, <2>4, <3>1
  <2>6. ASSUME NEW p PROVE p \in P <=> i \in bound(r) /\ p = PathOf(G, r, i)
    <3>1. (p \in Row(r) /\ Last(p) = BindingNode(i)) <=> (i \in bound(r) /\ p = PathOf(G, r, i))
      <4> HIDE DEF bound
      <4> QED BY GrantsAre
    <3> HIDE DEF P, Row, bound
    <3> QED BY <2>5, <3>1
  <2>7. i \in bound(r) <=> /\ r \in Granted(G.roles, G.bindings[i])
                           /\ BindingInScope(G.bindings[i], scope)
    OBVIOUS
  <2>8. CASE i \in bound(r)
    <3>1. P = {PathOf(G, r, i)}
      <4> HIDE DEF P, bound
      <4> QED BY <2>6, <2>8
    <3>2. Cardinality(P) = 1
      <4> HIDE DEF P
      <4> QED BY <3>1, FS_Singleton
    <3> QED BY <2>7, <2>8, <3>2
  <2>9. CASE i \notin bound(r)
    <3>1. P = {}
      <4> HIDE DEF P, bound
      <4> QED BY <2>6, <2>9
    <3>2. Cardinality(P) = 0
      <4> HIDE DEF P
      <4> QED BY <3>1, FS_EmptySet
    <3> QED BY <2>7, <2>9, <3>2
  <2> QED BY <2>8, <2>9
<1> QED BY <1>2, <1>3, Zenon DEF GrantsAreInSight

(* What is made of the grants of any cluster: no danger is ranked too low,  *)
(* a role bounds its bindings, no grant that is due is out of sight, no     *)
(* missing account is left untold, and no role is said to be unused that   *)
(* is given (src/rbac.rs:1080-1400).                                       *)
THEOREM GrantsToldOfAll == RbacSpec => []GrantsAreTold
<1> DEFINE Inv == /\ GoodCase(cluster) /\ assessed \in BOOLEAN
                  /\ assessed => reasons = GrantsOf(cluster)
           Judging == ~assessed /\ assessed' = TRUE /\ CollectRbac /\ UNCHANGED cluster
           seen == <<cluster, reasons, assessed>>
<1>1. (GoodCase(cluster) /\ assessed = FALSE) => Inv
  OBVIOUS
<1>2. Inv /\ [Judging]_seen => Inv'
  <2>1. ASSUME Inv, Judging PROVE Inv'
    <3>1. cluster' = cluster /\ reasons' = GrantsOf(cluster) /\ assessed' = TRUE
      BY <2>1 DEF CollectRbac
    <3> QED BY <2>1, <3>1
  <2>2. ASSUME Inv, UNCHANGED seen PROVE Inv'
    BY <2>2
  <2> QED BY <2>1, <2>2
<1>3. Inv => GrantsAreTold
  <2>1. CASE assessed
    <3>1. ASSUME Inv PROVE Collected
      BY <2>1, <3>1 DEF Collected
    <3> QED BY <3>1, DangerRanked, CeilingHolds, InSightTold, AccountsTold, UseTold DEF GrantsAreTold
  <2>2. CASE ~assessed
    BY <2>2 DEF GrantsAreTold, DangerIsRanked, RoleIsACeiling, GrantsAreInSight, AccountsAreTold,
                UseOfRolesIsTold, Judged
  <2> QED BY <2>1, <2>2
<1> HIDE DEF Inv
<1> QED BY <1>1, <1>2, <1>3, PTL DEF RbacSpec

-----------------------------------------------------------------------------
(* The mirrors of a cluster. *)

(* What the case is, and that what is made of it is what the code makes.   *)
MadeOfWorld == GoodMirrors(cluster) /\ reasons = MirrorsMade(World)

LEMMA MadeIs ==
  ASSUME MadeOfWorld
  PROVE  /\ GoodWorld(World)
         /\ reasons.found = Diagnose(World)
         /\ reasons.mirrors = BuildReflView(reasons.found, "Mirrors", FALSE, {})
         /\ reasons.problems = BuildReflView(reasons.found, "Sources", TRUE,
                                             {SourceKey(s) : s \in reasons.found.sources})
         /\ reasons.forced = UNION {{[source |-> s, target |-> target, plan |-> ForceWrites(s, target)] :
                                       target \in {{}} \cup {{t} : t \in s.targets}} : s \in reasons.found.sources}
<1> DEFINE d == Diagnose(World)
           mirrors == BuildReflView(d, "Mirrors", FALSE, {})
           problems == BuildReflView(d, "Sources", TRUE, {SourceKey(s) : s \in d.sources})
           forced == UNION {{[source |-> s, target |-> target, plan |-> ForceWrites(s, target)] :
                               target \in {{}} \cup {{t} : t \in s.targets}} : s \in d.sources}
<1>1. reasons = [found |-> d, mirrors |-> mirrors, problems |-> problems, forced |-> forced]
  BY DEF MadeOfWorld, MirrorsMade
<1>2. GoodWorld(World)
  BY DEF MadeOfWorld, GoodMirrors, World
<1>3. reasons.found = d /\ reasons.mirrors = mirrors /\ reasons.problems = problems /\ reasons.forced = forced
  <2> HIDE DEF d, mirrors, problems, forced
  <2> QED BY <1>1
<1> QED BY <1>2, <1>3

(* A source is what its object makes of it, under the namespaces it reaches. *)
LEMMA SourceIs ==
  ASSUME MadeOfWorld, NEW s \in reasons.found.sources
  PROVE  /\ s.object \in World.objects /\ IsSource(s.object)
         /\ s = DiagnoseSource(World, s.object)
         /\ s.targets = Targets(World, s.object)
         /\ s.hints = SourceHints(World, s.object, s.targets)
<1>1. reasons.found.sources = {DiagnoseSource(World, o) : o \in {x \in World.objects : IsSource(x)}}
  BY MadeIs DEF Diagnose
<1>2. PICK o \in World.objects : IsSource(o) /\ s = DiagnoseSource(World, o)
  BY <1>1
<1>3. s.object = o /\ s.targets = Targets(World, o) /\ s.hints = SourceHints(World, o, s.targets)
  BY <1>2 DEF DiagnoseSource
<1> QED BY <1>2, <1>3

(* A target is what is made of a namespace of the world, other than that of *)
(* its source.                                                             *)
LEMMA TargetIs ==
  ASSUME MadeOfWorld, NEW s \in reasons.found.sources, NEW t \in s.targets
  PROVE  /\ \E n \in World.namespaces :
               /\ n.name = t.ns /\ n.name # s.object.ns
               /\ t = BuildTarget(World, s.object, n.name, s.object.props.auto.on /\ MatchScope(s.object.props.auto, n))
         /\ t.mirrors = {o \in Here(World, s.object, t.ns) : MirrorOf(s.object, o)}
         /\ t.status = TargetStatus(World, s.object, t.ns, t.auto)
         /\ t.hints = TargetHints(World, s.object, t.ns, t.status, t.mirrors)
<1> DEFINE src == s.object
           auto(n) == src.props.auto.on /\ MatchScope(src.props.auto, n)
           within == {n \in World.namespaces : n.name # src.ns /\ MatchScope(src.props.allowed, n)}
           made == {BuildTarget(World, src, n.name, auto(n)) : n \in within}
<1>1. t \in made
  <2>1. Targets(World, src) = IF ~src.props.allowed.ok \/ ~src.props.auto.ok THEN {}
                              ELSE {x \in made : x.auto \/ x.mirrors # {} \/ Explicit(src.props.allowed)}
    BY DEF Targets
  <2>2. t \in Targets(World, src)
    BY SourceIs
  <2> HIDE DEF made, src
  <2> QED BY <2>1, <2>2
<1>2. PICK n \in within : t = BuildTarget(World, src, n.name, auto(n))
  <2> HIDE DEF within, auto, src
  <2> QED BY <1>1
<1>3. n \in World.namespaces /\ n.name # src.ns
  OBVIOUS
<1> HIDE DEF auto, src
<1>4. /\ t.ns = n.name /\ t.auto = auto(n)
      /\ t.status = TargetStatus(World, src, n.name, auto(n))
      /\ t.mirrors = {o \in Here(World, src, n.name) : MirrorOf(src, o)}
      /\ t.hints = TargetHints(World, src, n.name, t.status, t.mirrors)
  BY <1>2 DEF BuildTarget
<1> QED BY <1>2, <1>3, <1>4 DEF auto, src

(* What a target counts as the mirror is there, under the source's name.   *)
LEMMA MirrorIsThere ==
  ASSUME MadeOfWorld, NEW s \in reasons.found.sources, NEW t \in s.targets, NEW o \in t.mirrors
  PROVE  /\ o \in World.objects /\ MirrorOf(s.object, o)
         /\ Id(o) = <<s.object.kind, t.ns, s.object.name>>
  BY TargetIs DEF Here, Id

LEMMA SameTarget ==
  ASSUME MadeOfWorld, NEW s \in reasons.found.sources, NEW t \in s.targets, NEW u \in s.targets, t.ns = u.ns
  PROVE  t = u
<1>1. PICK n \in World.namespaces :
        /\ n.name = t.ns
        /\ t = BuildTarget(World, s.object, n.name, s.object.props.auto.on /\ MatchScope(s.object.props.auto, n))
  BY TargetIs
<1>2. PICK m \in World.namespaces :
        /\ m.name = u.ns
        /\ u = BuildTarget(World, s.object, m.name, s.object.props.auto.on /\ MatchScope(s.object.props.auto, m))
  BY TargetIs
<1>3. m = n
  BY <1>1, <1>2, MadeIs DEF GoodWorld
<1> QED BY <1>1, <1>2, <1>3

LEMMA SameSource ==
  ASSUME MadeOfWorld, NEW s \in reasons.found.sources, NEW x \in reasons.found.sources, Id(s.object) = Id(x.object)
  PROVE  s = x
<1>1. s.object = x.object
  BY SourceIs, MadeIs DEF GoodWorld
<1>2. s = DiagnoseSource(World, s.object) /\ x = DiagnoseSource(World, x.object)
  BY SourceIs
<1> QED BY <1>1, <1>2

(* What the sources account for. *)
LEMMA ClaimedIs ==
  ASSUME MadeOfWorld, NEW c
  PROVE  c \in Claimed(reasons.found.sources) <=>
           \E s \in reasons.found.sources : \E t \in s.targets :
              t.mirrors # {} /\ c = <<s.object.kind, t.ns, s.object.name>>
<1> DEFINE C(s) == {<<s.object.kind, t.ns, s.object.name>> : t \in {u \in s.targets : u.mirrors # {}}}
<1>1. Claimed(reasons.found.sources) = UNION {C(s) : s \in reasons.found.sources}
  BY DEF Claimed
<1>2. \A s : c \in C(s) <=> \E t \in s.targets : t.mirrors # {} /\ c = <<s.object.kind, t.ns, s.object.name>>
  OBVIOUS
<1>3. c \in UNION {C(s) : s \in reasons.found.sources} <=> \E s \in reasons.found.sources : c \in C(s)
  <2> HIDE DEF C
  <2> QED OBVIOUS
<1> HIDE DEF C
<1> QED BY <1>1, <1>2, <1>3

(* The orphans are the mirrors that no source accounts for.                *)
LEMMA OrphansAre ==
  ASSUME MadeOfWorld, NEW q
  PROVE  q \in reasons.found.orphans <=>
           \E o \in World.objects : /\ IsReflection(o) /\ Id(o) \notin Claimed(reasons.found.sources)
                                    /\ q = DiagnoseOrphan(World, o)
<1> DEFINE S == {DiagnoseSource(World, o) : o \in {x \in World.objects : IsSource(x)}}
           lost == {o \in World.objects : IsReflection(o) /\ Id(o) \notin Claimed(S)}
           K == IF World.known THEN UNION {Stranded(World, s) : s \in S} ELSE {}
           Q == {DiagnoseOrphan(World, o) : o \in lost}
<1>1. Diagnose(World) = [sources |-> S, orphans |-> Q, stranded |-> K]
  BY DEF Diagnose
<1>2. reasons.found.sources = S /\ reasons.found.orphans = Q
  <2> HIDE DEF S, Q, K
  <2> QED BY <1>1, MadeIs
<1>3. q \in Q <=> \E o \in lost : q = DiagnoseOrphan(World, o)
  <2> HIDE DEF lost
  <2> QED OBVIOUS
<1>4. \A o : o \in lost <=> o \in World.objects /\ IsReflection(o) /\ Id(o) \notin Claimed(S)
  OBVIOUS
<1> HIDE DEF S, Q, lost
<1> QED BY <1>2, <1>3, <1>4

(* Those told of for the whole cluster. *)
LEMMA StrandedAre ==
  ASSUME MadeOfWorld, NEW c
  PROVE  c \in reasons.found.stranded <=>
           World.known /\ \E s \in reasons.found.sources : c \in Stranded(World, s)
<1> DEFINE S == {DiagnoseSource(World, o) : o \in {x \in World.objects : IsSource(x)}}
           lost == {o \in World.objects : IsReflection(o) /\ Id(o) \notin Claimed(S)}
           K == IF World.known THEN UNION {Stranded(World, s) : s \in S} ELSE {}
           Q == {DiagnoseOrphan(World, o) : o \in lost}
<1>1. Diagnose(World) = [sources |-> S, orphans |-> Q, stranded |-> K]
  BY DEF Diagnose
<1>2. reasons.found.sources = S /\ reasons.found.stranded = K
  <2> HIDE DEF S, Q, K
  <2> QED BY <1>1, MadeIs
<1>3. c \in K <=> World.known /\ \E s \in S : c \in Stranded(World, s)
  <2> HIDE DEF S
  <2> QED OBVIOUS
<1> QED BY <1>2, <1>3

(* The rows of the mirrors, and those of what is wrong.                    *)
LEMMA MirrorRowsAre ==
  ASSUME MadeOfWorld, NEW row
  PROVE  row \in reasons.mirrors <=>
           \/ \E s \in reasons.found.sources : \E t \in s.targets : t.mirrors # {} /\ row = <<"target", s, t>>
           \/ \E q \in reasons.found.orphans : row = <<"orphan", q>>
<1> DEFINE S == reasons.found.sources
           F(s) == {<<"target", s, t>> : t \in {x \in s.targets : x.mirrors # {}}}
           Q == {<<"orphan", o>> : o \in reasons.found.orphans}
<1>1. BuildReflView(reasons.found, "Mirrors", FALSE, {}) = {} \cup (UNION {F(s) : s \in S}) \cup Q
  BY DEF BuildReflView
<1>2. \A s : row \in F(s) <=> \E t \in s.targets : t.mirrors # {} /\ row = <<"target", s, t>>
  OBVIOUS
<1>3. row \in Q <=> \E q \in reasons.found.orphans : row = <<"orphan", q>>
  OBVIOUS
<1>4. row \in UNION {F(s) : s \in S} <=> \E s \in S : row \in F(s)
  <2> HIDE DEF F, S
  <2> QED OBVIOUS
<1>5. reasons.mirrors = (UNION {F(s) : s \in S}) \cup Q
  <2> HIDE DEF F, S, Q
  <2> QED BY <1>1, MadeIs
<1> HIDE DEF F, Q
<1> QED BY <1>2, <1>3, <1>4, <1>5

LEMMA ProblemRowsAre ==
  ASSUME MadeOfWorld, NEW row
  PROVE  row \in reasons.problems <=>
           \/ \E s \in reasons.found.sources : SourceFlagged(s) /\ row = <<"source", s>>
           \/ \E s \in reasons.found.sources : \E t \in s.targets :
                 SourceFlagged(s) /\ Flagged(t.hints) /\ row = <<"target", s, t>>
<1> DEFINE keys == {SourceKey(s) : s \in reasons.found.sources}
           S == {s \in reasons.found.sources : SourceFlagged(s)}
           T(s) == {t \in s.targets : SourceKey(s) \in keys /\ Flagged(t.hints)}
           F(s) == {<<"target", s, t>> : t \in T(s)}
           H == {<<"source", s>> : s \in S}
<1>1. BuildReflView(reasons.found, "Sources", TRUE, keys) = H \cup (UNION {F(s) : s \in S}) \cup {}
  <2> HIDE DEF keys
  <2> QED BY DEF BuildReflView
<1>2. \A s \in S : row \in F(s) <=> \E t \in s.targets : Flagged(t.hints) /\ row = <<"target", s, t>>
  OBVIOUS
<1>3. row \in H <=> \E s \in S : row = <<"source", s>>
  OBVIOUS
<1>4. row \in UNION {F(s) : s \in S} <=> \E s \in S : row \in F(s)
  <2> HIDE DEF F, S
  <2> QED OBVIOUS
<1>5. reasons.problems = H \cup (UNION {F(s) : s \in S})
  <2> HIDE DEF F, S, H
  <2> QED BY <1>1, MadeIs
<1>6. \A s : s \in S <=> s \in reasons.found.sources /\ SourceFlagged(s)
  OBVIOUS
<1> HIDE DEF F, H, S
<1> QED BY <1>2, <1>3, <1>4, <1>5, <1>6

(* Each copy that some object says it is has one row.                      *)
LEMMA MirrorsAccounted == ASSUME MadeOfWorld PROVE EveryMirrorAccounted
<1> SUFFICES ASSUME NEW o \in World.objects, IsReflection(o)
             PROVE  Cardinality({row \in reasons.mirrors :
                            \/ row[1] = "target" /\ row[3].mirrors = {o} /\ MirrorOf(row[2].object, o)
                            \/ row[1] = "orphan" /\ row[2].object = o}) = 1
  BY DEF EveryMirrorAccounted
<1> DEFINE Counts(row) == \/ row[1] = "target" /\ row[3].mirrors = {o} /\ MirrorOf(row[2].object, o)
                          \/ row[1] = "orphan" /\ row[2].object = o
           R == {row \in reasons.mirrors : Counts(row)}
<1>1. \A s, t : Counts(<<"target", s, t>>) <=> t.mirrors = {o} /\ MirrorOf(s.object, o)
  <2> TAKE s, t
  <2>1. <<"target", s, t>>[1] = "target" /\ <<"target", s, t>>[2] = s /\ <<"target", s, t>>[3] = t
    OBVIOUS
  <2> QED BY <2>1
<1>2. \A q : Counts(<<"orphan", q>>) <=> q.object = o
  <2> TAKE q
  <2>1. <<"orphan", q>>[1] = "orphan" /\ <<"orphan", q>>[2] = q
    OBVIOUS
  <2> QED BY <2>1
<1> HIDE DEF Counts
<1>3. \A w \in World.objects : DiagnoseOrphan(World, w).object = w
  BY DEF DiagnoseOrphan
<1>4. CASE Id(o) \notin Claimed(reasons.found.sources)
  <2> DEFINE me == <<"orphan", DiagnoseOrphan(World, o)>>
  <2>1. DiagnoseOrphan(World, o) \in reasons.found.orphans
    BY <1>4, OrphansAre
  <2>2. me \in R
    BY <2>1, <1>2, <1>3, MirrorRowsAre
  <2>3. ASSUME NEW row \in R PROVE row = me
    <3>1. ASSUME NEW s \in reasons.found.sources, NEW t \in s.targets, row = <<"target", s, t>> PROVE FALSE
      <4>1. t.mirrors = {o}
        BY <1>1, <3>1
      <4>2. Id(o) = <<s.object.kind, t.ns, s.object.name>>
        BY <4>1, MirrorIsThere
      <4> QED BY <4>1, <4>2, <1>4, ClaimedIs
    <3>2. ASSUME NEW q \in reasons.found.orphans, row = <<"orphan", q>> PROVE row = me
      <4>1. q.object = o
        BY <1>2, <3>2
      <4>2. PICK w \in World.objects : q = DiagnoseOrphan(World, w)
        BY OrphansAre
      <4> QED BY <4>1, <4>2, <1>3, <3>2
    <3> QED BY <3>1, <3>2, MirrorRowsAre
  <2>4. R = {me}
    <3> HIDE DEF R, me
    <3> QED BY <2>2, <2>3
  <2> HIDE DEF me
  <2> QED BY <2>4, FS_Singleton DEF Counts
<1>5. CASE Id(o) \in Claimed(reasons.found.sources)
  <2>0. PICK s \in reasons.found.sources :
          \E t \in s.targets : t.mirrors # {} /\ Id(o) = <<s.object.kind, t.ns, s.object.name>>
    BY <1>5, ClaimedIs
  <2>1. PICK t \in s.targets : t.mirrors # {} /\ Id(o) = <<s.object.kind, t.ns, s.object.name>>
    BY <2>0
  <2>2. ASSUME NEW p \in t.mirrors PROVE p = o /\ MirrorOf(s.object, p)
    <3>1. p \in World.objects /\ MirrorOf(s.object, p) /\ Id(p) = Id(o)
      BY <2>1, MirrorIsThere
    <3>2. \A x, y \in World.objects : Id(x) = Id(y) => x = y
      BY MadeIs DEF GoodWorld
    <3> QED BY <3>1, <3>2
  <2>3. t.mirrors = {o} /\ MirrorOf(s.object, o)
    BY <2>1, <2>2
  <2> DEFINE me == <<"target", s, t>>
  <2>4. me \in R
    BY <2>1, <2>3, <1>1, MirrorRowsAre
  <2>5. ASSUME NEW row \in R PROVE row = me
    <3>1. ASSUME NEW x \in reasons.found.sources, NEW u \in x.targets, row = <<"target", x, u>> PROVE row = me
      <4>1. u.mirrors = {o} /\ MirrorOf(x.object, o)
        BY <1>1, <3>1
      <4>2. Id(o) = <<x.object.kind, u.ns, x.object.name>>
        BY <4>1, MirrorIsThere
      <4>3. {<<x.object.ns, x.object.name>>} = {<<s.object.ns, s.object.name>>}
        BY <4>1, <2>3 DEF MirrorOf
      <4>4. Id(x.object) = Id(s.object) /\ u.ns = t.ns
        <5>0. <<x.object.ns, x.object.name>> = <<s.object.ns, s.object.name>>
          BY <4>3, Zenon
        <5>1. x.object.ns = s.object.ns
          BY <5>0
        <5>2. <<x.object.kind, u.ns, x.object.name>> = <<s.object.kind, t.ns, s.object.name>>
          BY <4>2, <2>1
        <5>3. x.object.kind = s.object.kind /\ u.ns = t.ns /\ x.object.name = s.object.name
          BY <5>2
        <5> QED BY <5>1, <5>3 DEF Id
      <4>5. x = s
        BY <4>4, SameSource
      <4> QED BY <4>4, <4>5, <3>1, SameTarget
    <3>2. ASSUME NEW q \in reasons.found.orphans, row = <<"orphan", q>> PROVE FALSE
      <4>1. q.object = o
        BY <1>2, <3>2
      <4>2. PICK w \in World.objects :
              Id(w) \notin Claimed(reasons.found.sources) /\ q = DiagnoseOrphan(World, w)
        BY OrphansAre
      <4> QED BY <4>1, <4>2, <1>3, <1>5
    <3> QED BY <3>1, <3>2, MirrorRowsAre
  <2>6. R = {me}
    <3> HIDE DEF R, me
    <3> QED BY <2>4, <2>5
  <2> HIDE DEF me
  <2> QED BY <2>6, FS_Singleton DEF Counts
<1> QED BY <1>4, <1>5

(* Nothing that is wrong is left out of sight, nor shown without its source. *)
LEMMA WrongInSight == ASSUME MadeOfWorld PROVE WrongIsInSight
<1> SUFFICES ASSUME NEW s \in reasons.found.sources
             PROVE  /\ \A t \in s.targets : Flagged(t.hints) <=> <<"target", s, t>> \in reasons.problems
                    /\ SourceFlagged(s) <=> <<"source", s>> \in reasons.problems
  BY DEF WrongIsInSight
<1>1. \A t \in s.targets : Flagged(t.hints) => SourceFlagged(s)
  <2> TAKE t \in s.targets
  <2> HAVE Flagged(t.hints)
  <2>1. PICK h \in t.hints : h[1] >= Warn
    BY DEF Flagged
  <2>2. h \in s.hints \cup UNION {u.hints : u \in s.targets}
    OBVIOUS
  <2> QED BY <2>1, <2>2 DEF SourceFlagged, Flagged
<1>2. \A a, b, c : <<"source", a>> # <<"target", b, c>>
  <2> TAKE a, b, c
  <2>1. <<"source", a>>[1] = "source" /\ <<"target", b, c>>[1] = "target"
    OBVIOUS
  <2> QED BY <2>1
<1>3. \A a, b : <<"source", a>> = <<"source", b>> => a = b
  OBVIOUS
<1>4. \A a, b, c, d : <<"target", a, b>> = <<"target", c, d>> => a = c /\ b = d
  OBVIOUS
<1>5. ASSUME NEW t \in s.targets PROVE Flagged(t.hints) <=> <<"target", s, t>> \in reasons.problems
  <2> DEFINE row == <<"target", s, t>>
  <2>1. row \in reasons.problems <=>
          \/ \E x \in reasons.found.sources : SourceFlagged(x) /\ row = <<"source", x>>
          \/ \E x \in reasons.found.sources : \E u \in x.targets :
                SourceFlagged(x) /\ Flagged(u.hints) /\ row = <<"target", x, u>>
    <3> HIDE DEF row
    <3> QED BY ProblemRowsAre
  <2>2. \A x : row # <<"source", x>>
    BY <1>2
  <2>3. \A x, u : row = <<"target", x, u>> => x = s /\ u = t
    BY <1>4
  <2> HIDE DEF row
  <2>4. row = <<"target", s, t>>
    BY DEF row
  <2> QED BY <1>1, <2>1, <2>2, <2>3, <2>4
<1>6. SourceFlagged(s) <=> <<"source", s>> \in reasons.problems
  <2> DEFINE row == <<"source", s>>
  <2>1. row \in reasons.problems <=>
          \/ \E x \in reasons.found.sources : SourceFlagged(x) /\ row = <<"source", x>>
          \/ \E x \in reasons.found.sources : \E u \in x.targets :
                SourceFlagged(x) /\ Flagged(u.hints) /\ row = <<"target", x, u>>
    <3> HIDE DEF row
    <3> QED BY ProblemRowsAre
  <2>2. \A x, u : row # <<"target", x, u>>
    BY <1>2
  <2>3. \A x : row = <<"source", x>> => x = s
    BY <1>3
  <2>4. row = <<"source", s>>
    OBVIOUS
  <2> HIDE DEF row
  <2> QED BY <2>1, <2>2, <2>3, <2>4
<1> QED BY <1>5, <1>6

(* A mirror that has the name of its source is out of its scope only where *)
(* the source can be read and does not let it in.                          *)
LEMMA OrphansOutside == ASSUME MadeOfWorld PROVE OrphansAreOutside
<1> SUFFICES ASSUME NEW q \in reasons.found.orphans, NEW s \in reasons.found.sources,
                    MirrorOf(s.object, q.object),
                    s.object.kind = q.object.kind, s.object.name = q.object.name,
                    <<Danger, "bad-selector">> \notin s.hints,
                    NEW n \in World.namespaces, n.name = q.object.ns, MatchScope(s.object.props.allowed, n)
             PROVE  FALSE
  BY DEF OrphansAreOutside
<1> DEFINE src == s.object
           t == BuildTarget(World, src, n.name, src.props.auto.on /\ MatchScope(src.props.auto, n))
<1>1. PICK o \in World.objects : /\ IsReflection(o) /\ Id(o) \notin Claimed(reasons.found.sources)
                                 /\ q = DiagnoseOrphan(World, o)
  BY OrphansAre
<1>2. q.object = o
  BY <1>1 DEF DiagnoseOrphan
<1>3. src.props.allowed.ok /\ src.props.auto.ok
  <2>1. <<Danger, "bad-selector">> \in Hint(~(src.props.allowed.ok /\ src.props.auto.ok), Danger, "bad-selector")
          => <<Danger, "bad-selector">> \in SourceHints(World, src, s.targets)
    BY Zenon DEF SourceHints
  <2>2. ~(src.props.allowed.ok /\ src.props.auto.ok) =>
           <<Danger, "bad-selector">> \in Hint(~(src.props.allowed.ok /\ src.props.auto.ok), Danger, "bad-selector")
    BY DEF Hint
  <2>3. s.hints = SourceHints(World, src, s.targets)
    BY SourceIs
  <2> HIDE DEF src
  <2> QED BY <2>1, <2>2, <2>3 DEF src
<1>4. n.name # src.ns
  <2>1. ASSUME n.name = src.ns PROVE FALSE
    <3>1. Id(o) = Id(src)
      BY <2>1, <1>2 DEF Id
    <3>2. src \in World.objects /\ IsSource(src)
      BY SourceIs
    <3>3. o = src
      BY <1>1, <3>1, <3>2, MadeIs DEF GoodWorld
    <3> QED BY <1>1, <3>2, <3>3 DEF IsSource
  <2> QED BY <2>1
<1>5. o \in t.mirrors
  <2>1. t.mirrors = {x \in Here(World, src, n.name) : MirrorOf(src, x)}
    BY DEF BuildTarget
  <2>2. o \in Here(World, src, n.name)
    BY <1>1, <1>2 DEF Here
  <2> QED BY <1>2, <2>1, <2>2
<1>6. t \in s.targets
  <2> DEFINE within == {x \in World.namespaces : x.name # src.ns /\ MatchScope(src.props.allowed, x)}
             made == {BuildTarget(World, src, x.name, src.props.auto.on /\ MatchScope(src.props.auto, x)) : x \in within}
  <2>1. n \in within
    BY <1>4
  <2>2. t \in made
    <3> HIDE DEF within
    <3> QED BY <2>1
  <2>3. Targets(World, src) = IF ~src.props.allowed.ok \/ ~src.props.auto.ok THEN {}
                              ELSE {x \in made : x.auto \/ x.mirrors # {} \/ Explicit(src.props.allowed)}
    BY DEF Targets
  <2>4. s.targets = Targets(World, src)
    BY SourceIs
  <2> HIDE DEF t, made, src
  <2> QED BY <1>3, <1>5, <2>2, <2>3, <2>4
<1>7. t.ns = n.name
  BY DEF BuildTarget
<1>8. Id(o) = <<src.kind, t.ns, src.name>>
  BY <1>2, <1>7 DEF Id
<1> HIDE DEF t
<1> QED BY <1>1, <1>5, <1>6, <1>8, ClaimedIs

(* What is said of a target. *)
LEMMA WaitingIs ==
  ASSUME MadeOfWorld, NEW s \in reasons.found.sources, NEW t \in s.targets
  PROVE  <<Danger, "waiting">> \in t.hints <=>
           /\ World.known /\ <<s.object.kind, t.ns, s.object.name>> \in World.consumers
           /\ t.status \in {"Missing", "Blocked", "Manual"}
<1> DEFINE src == s.object
           W == /\ World.known /\ <<src.kind, t.ns, src.name>> \in World.consumers
                /\ t.status \in {"Missing", "Blocked", "Manual"}
<1>1. \A c, l, w : w # "waiting" => <<Danger, "waiting">> \notin Hint(c, l, w)
  BY DEF Hint
<1>2. <<Danger, "waiting">> \in Hint(W, Danger, "waiting") <=> W
  BY DEF Hint
<1>3. TargetHints(World, src, t.ns, t.status, t.mirrors) =
        Hint(t.status = "Blocked", Danger, "blocked") \cup Hint(t.status = "Drifted", Danger, "drifted")
        \cup Hint(t.status = "Stale", Warn, "stale")
        \cup Hint(t.status = "Pending", PendingLevel(src, t.mirrors), "pending")
        \cup Hint(t.status = "Missing", Warn, "missing") \cup Hint(t.status = "Manual", Info, "manual")
        \cup Hint(W, Danger, "waiting")
  BY DEF TargetHints
<1>4. t.hints = TargetHints(World, src, t.ns, t.status, t.mirrors)
  BY TargetIs
<1>5. /\ "blocked" # "waiting" /\ "drifted" # "waiting" /\ "stale" # "waiting"
      /\ "pending" # "waiting" /\ "missing" # "waiting" /\ "manual" # "waiting"
  OBVIOUS
<1> HIDE DEF W
<1>6. <<Danger, "waiting">> \in t.hints <=> W
  BY <1>1, <1>2, <1>3, <1>4, <1>5
<1> QED BY <1>6 DEF W

(* A consumer that is left without is told of, and no other.               *)
LEMMA StarvedTold == ASSUME MadeOfWorld PROVE StarvedAreTold
<1> SUFFICES ASSUME NEW c \in World.consumers, NEW s \in reasons.found.sources,
                    s.object.kind = c[1], s.object.name = c[3], s.object.ns # c[2]
             PROVE  LET told == \/ c \in reasons.found.stranded
                                \/ \E t \in s.targets : t.ns = c[2] /\ <<Danger, "waiting">> \in t.hints
                        there == {o \in World.objects : Id(o) = c}
                    IN  /\ (World.known /\ there = {}) => told
                        /\ told => World.known /\ \A o \in there : ~MirrorOf(s.object, o)
  BY DEF StarvedAreTold
<1> DEFINE src == s.object
           far == c \in reasons.found.stranded
           near == \E t \in s.targets : t.ns = c[2] /\ <<Danger, "waiting">> \in t.hints
           there == {o \in World.objects : Id(o) = c}
<1>1. c = <<src.kind, c[2], src.name>>
  BY MadeIs DEF GoodWorld
<1>2. Here(World, src, c[2]) = there
  <2>1. \A o : Id(o) = c <=> o.kind = src.kind /\ o.ns = c[2] /\ o.name = src.name
    BY <1>1 DEF Id
  <2> QED BY <2>1 DEF Here
<1>3. ASSUME NEW t \in s.targets, t.ns = c[2]
      PROVE  <<Danger, "waiting">> \in t.hints <=>
               /\ World.known
               /\ \/ there = {}
                  \/ there # {} /\ ~MirrorOf(src, CHOOSE x \in there : TRUE)
  <2>1. <<Danger, "waiting">> \in t.hints <=> World.known /\ t.status \in {"Missing", "Blocked", "Manual"}
    BY <1>1, <1>3, WaitingIs
  <2>2. t.status = TargetStatus(World, src, c[2], t.auto)
    BY <1>3, TargetIs
  <2>3. t.status = IF there = {} THEN IF t.auto THEN "Missing" ELSE "Manual"
                   ELSE IF MirrorOf(src, CHOOSE x \in there : TRUE)
                        THEN MirrorStatus(src, CHOOSE x \in there : TRUE) ELSE "Blocked"
    BY <2>2, <1>2 DEF TargetStatus
  <2>4. \A o : MirrorStatus(src, o) \notin {"Missing", "Blocked", "Manual"}
    BY DEF MirrorStatus
  <2> HIDE DEF there
  <2> QED BY <2>1, <2>3, <2>4
<1>4. \A o, p \in there : o = p
  <2>1. \A o, p \in World.objects : Id(o) = Id(p) => o = p
    BY MadeIs DEF GoodWorld
  <2> QED BY <2>1
<1>5. ASSUME NEW x \in reasons.found.sources, c \in Stranded(World, x)
      PROVE  there = {}
  BY <1>5 DEF Stranded
<1>6. ASSUME there = {}, \A t \in s.targets : t.ns # c[2] PROVE c \in Stranded(World, s)
  BY <1>6 DEF Stranded
<1>7. far <=> World.known /\ \E x \in reasons.found.sources : c \in Stranded(World, x)
  BY StrandedAre
<1>8. (World.known /\ there = {}) => far \/ near
  <2> HIDE DEF far, there
  <2> QED BY <1>3, <1>6, <1>7
<1>9. far => World.known /\ there = {}
  <2> HIDE DEF far, there
  <2> QED BY <1>5, <1>7
<1>10. near => World.known /\ \A o \in there : ~MirrorOf(src, o)
  <2>1. ASSUME NEW t \in s.targets, t.ns = c[2], <<Danger, "waiting">> \in t.hints
        PROVE  World.known /\ \A o \in there : ~MirrorOf(src, o)
    <3>1. there # {} => (CHOOSE x \in there : TRUE) \in there
      OBVIOUS
    <3> HIDE DEF there
    <3> QED BY <1>3, <1>4, <2>1, <3>1
  <2> QED BY <2>1
<1> HIDE DEF far, near
<1>11. (World.known /\ there = {}) => far \/ near
  BY <1>8
<1>12. far \/ near => World.known /\ \A o \in there : ~MirrorOf(src, o)
  BY <1>9, <1>10
<1> QED BY <1>11, <1>12 DEF far, near

-----------------------------------------------------------------------------
(* Mirroring again.                                                        *)

(* A source of the world that was read, and the targets its plan moves.    *)
ToMove(s, moving) ==
  /\ MadeOfWorld /\ s \in reasons.found.sources
  /\ moving \subseteq {t \in s.targets : Forceable(t)}

Held(s) == {t.ns : t \in {u \in s.targets : u.mirrors # {}}}
Heard(s) == Held(s) \cup {s.object.ns}
Writes(s) == {"clear", "empty", "touch", "unstamp"} \X Heard(s)
Marks(s) == {o.props.recorded : o \in World.objects} \cup {s.object.version, "v3", "v4", "absent", ""}

ForceStates(s) ==
  [todo : Seq(Writes(s)), source : {1, 2, 3}, news : SUBSET Heard(s), failed : SUBSET Writes(s),
   stamped : BOOLEAN, mirrors : [Held(s) -> [right : BOOLEAN, recorded : Marks(s)]]]

(* A target that can be forced has one mirror, in a namespace that is not   *)
(* that of its source; and the write that is for it is not for the source.  *)
LEMMA MovingIs ==
  ASSUME NEW s, NEW moving, ToMove(s, moving), NEW t \in moving
  PROVE  /\ t \in s.targets /\ t.ns \in Held(s) /\ t.ns # s.object.ns /\ MirrorIn(s, t.ns) = t
         /\ ~OnSource(Unrecord(t)) /\ Unrecord(t) \in Writes(s)
         /\ Unrecord(t) = <<Unrecord(t)[1], t.ns>> /\ Unrecord(t)[1] \in {"clear", "empty"}
         /\ \E o \in World.objects :
               /\ t.mirrors = {o}
               /\ Unrecord(t)[1] = IF o.props.recorded # "absent" THEN "clear" ELSE "empty"
<1>1. MadeOfWorld /\ s \in reasons.found.sources /\ t \in s.targets /\ Forceable(t)
  BY DEF ToMove
<1> DEFINE here == Here(World, s.object, t.ns)
<1>2. t.ns # s.object.ns /\ t.mirrors = {o \in here : MirrorOf(s.object, o)}
      /\ t.status = TargetStatus(World, s.object, t.ns, t.auto)
  <2>1. \E n \in World.namespaces : n.name = t.ns /\ n.name # s.object.ns
    BY <1>1, TargetIs
  <2> QED BY <1>1, <2>1, TargetIs
<1>3. here # {} /\ MirrorOf(s.object, CHOOSE x \in here : TRUE)
  BY <1>1, <1>2 DEF TargetStatus, Forceable
<1>4. PICK o : o \in here /\ MirrorOf(s.object, o)
  <2> HIDE DEF here
  <2> QED BY <1>3
<1>5. \A p \in here : p = o
  <2>1. \A x, y \in World.objects : Id(x) = Id(y) => x = y
    BY <1>1, MadeIs DEF GoodWorld
  <2> QED BY <1>4, <2>1 DEF Here, Id
<1>6. t.mirrors = {o} /\ o \in World.objects
  <2>1. o \in World.objects
    BY <1>4 DEF Here
  <2> HIDE DEF here
  <2> QED BY <1>2, <1>4, <1>5, <2>1
<1>7. t.ns \in Held(s)
  BY <1>1, <1>6 DEF Held
<1>8. MirrorIn(s, t.ns) = t
  BY <1>1, SameTarget DEF MirrorIn
<1>9. Unrecord(t) = <<IF o.props.recorded # "absent" THEN "clear" ELSE "empty", t.ns>>
  BY <1>6 DEF Unrecord
<1>10. /\ Unrecord(t)[1] = IF o.props.recorded # "absent" THEN "clear" ELSE "empty"
       /\ Unrecord(t)[2] = t.ns
  BY <1>9
<1>11. ~OnSource(Unrecord(t)) /\ Unrecord(t) = <<Unrecord(t)[1], t.ns>> /\ Unrecord(t)[1] \in {"clear", "empty"}
  BY <1>9, <1>10 DEF OnSource
<1>12. Unrecord(t) \in Writes(s)
  BY <1>7, <1>11 DEF Writes, Heard
<1> QED BY <1>1, <1>2, <1>6, <1>7, <1>8, <1>10, <1>11, <1>12

(* The mirror in a namespace is that of the target there.                  *)
LEMMA HeldIs ==
  ASSUME MadeOfWorld, NEW s \in reasons.found.sources, NEW n \in Held(s)
  PROVE  MirrorIn(s, n) \in s.targets /\ MirrorIn(s, n).ns = n /\ n # s.object.ns
<1>1. PICK t \in s.targets : t.ns = n
  BY DEF Held
<1>2. MirrorIn(s, n) \in s.targets /\ MirrorIn(s, n).ns = n
  BY <1>1 DEF MirrorIn
<1>3. \E m \in World.namespaces : m.name = t.ns /\ m.name # s.object.ns
  BY TargetIs
<1> QED BY <1>1, <1>2, <1>3

(* The versions of a source while its plan goes on.                        *)
LEMMA VersionIs ==
  ASSUME MadeOfWorld, NEW s \in reasons.found.sources, NEW k \in {1, 2, 3}
  PROVE  /\ VersionOf(s, k) \in Marks(s) /\ VersionOf(s, k) \notin {"absent", ""}
         /\ k # 1 => VersionOf(s, k) \in {"v3", "v4"}
<1>1. s.object.version \notin {"absent", ""}
  BY SourceIs, MadeIs DEF GoodWorld
<1>2. VersionOf(s, 1) = s.object.version /\ VersionOf(s, 2) = "v3" /\ VersionOf(s, 3) = "v4"
  BY DEF VersionOf, Later
<1> QED BY <1>1, <1>2 DEF Marks

(* The mirrors after a write on one of them. *)
Written(s, x, w, mirrors) ==
  mirrors =
    [m \in Held(s) |-> IF m = w[2] THEN [right |-> x.mirrors[m].right, recorded |-> IF w[1] = "clear" THEN "absent" ELSE ""]
                       ELSE x.mirrors[m]]

(* What a write that goes through does. *)
LEMMA ApplyIs ==
  ASSUME NEW s, NEW x \in ForceStates(s), x.todo # << >>
  PROVE  LET w == Head(x.todo)
             y == ApplyForce(x)
             n == w[2]
         IN  /\ w \in Writes(s) /\ y.todo = Tail(x.todo) /\ y.failed = x.failed
             /\ y.news = IF Changes(x, w) THEN x.news \cup {n} ELSE x.news
             /\ OnSource(w) => y.source = x.source + 1 /\ y.stamped = (w[1] = "touch") /\ y.mirrors = x.mirrors
             /\ ~OnSource(w) => y.source = x.source /\ y.stamped = x.stamped
             /\ ~OnSource(w) => Written(s, x, w, y.mirrors)
             /\ (y.source \in {1, 2, 3}) => y \in ForceStates(s)
<1> DEFINE w == Head(x.todo)
           y == ApplyForce(x)
           n == w[2]
           news == IF Changes(x, w) THEN x.news \cup {n} ELSE x.news
           mark == IF w[1] = "clear" THEN "absent" ELSE ""
           moved == [m \in Held(s) |-> IF m = n THEN [right |-> x.mirrors[m].right, recorded |-> mark]
                                       ELSE x.mirrors[m]]
<1>1. /\ x = [todo |-> x.todo, source |-> x.source, news |-> x.news, failed |-> x.failed,
              stamped |-> x.stamped, mirrors |-> x.mirrors]
      /\ x.todo \in Seq(Writes(s)) /\ x.source \in {1, 2, 3} /\ x.news \in SUBSET Heard(s)
      /\ x.failed \in SUBSET Writes(s) /\ x.stamped \in BOOLEAN
      /\ x.mirrors \in [Held(s) -> [right : BOOLEAN, recorded : Marks(s)]]
  BY DEF ForceStates
<1>2. w \in Writes(s) /\ Tail(x.todo) \in Seq(Writes(s))
  <2> HIDE DEF w
  <2>1. \A S : \A q \in Seq(S) : q # << >> => Head(q) \in S /\ Tail(q) \in Seq(S)
    OBVIOUS
  <2> QED BY <1>1, <2>1 DEF w
<1>3. n \in Heard(s) /\ w[1] \in {"clear", "empty", "touch", "unstamp"}
  BY <1>2 DEF Writes
<1>4. news \in SUBSET Heard(s)
  BY <1>1, <1>3
<1> HIDE DEF w, n, news, mark
<1> DEFINE next == [x EXCEPT !.todo = Tail(@), !.news = IF Changes(x, w) THEN @ \cup {n} ELSE @]
<1>5. next = [todo |-> Tail(x.todo), source |-> x.source, news |-> news, failed |-> x.failed,
              stamped |-> x.stamped, mirrors |-> x.mirrors]
  <2>1. PICK td, sr, nw, fl, sp, mi : x = [todo |-> td, source |-> sr, news |-> nw, failed |-> fl, stamped |-> sp, mirrors |-> mi]
    BY <1>1
  <2>2. /\ x.todo = td /\ x.source = sr /\ x.news = nw /\ x.failed = fl /\ x.stamped = sp /\ x.mirrors = mi
    BY <2>1
  <2>3. next = [todo |-> Tail(td), source |-> sr, news |-> IF Changes(x, w) THEN nw \cup {n} ELSE nw,
                failed |-> fl, stamped |-> sp, mirrors |-> mi]
    <3>1. PICK z : z = [x EXCEPT !.todo = Tail(x.todo)]
      OBVIOUS
    <3>2. PICK m : m = IF Changes(x, w) THEN x.news \cup {n} ELSE x.news
      OBVIOUS
    <3>3. next = [z EXCEPT !.news = m]
      <4>1. z.news = x.news
        BY <2>1, <3>1
      <4> QED BY <3>1, <3>2, <4>1, Zenon
    <3> HIDE DEF next
    <3>4. z = [todo |-> Tail(td), source |-> sr, news |-> nw, failed |-> fl, stamped |-> sp, mirrors |-> mi]
      BY <2>1, <2>2, <3>1
    <3>5. m = IF Changes(x, w) THEN nw \cup {n} ELSE nw
      BY <2>2, <3>2
    <3> QED BY <3>3, <3>4, <3>5
  <2> HIDE DEF next
  <2> QED BY <2>2, <2>3 DEF news
<1>6. ASSUME OnSource(w)
      PROVE  y = [todo |-> Tail(x.todo), source |-> x.source + 1, news |-> news, failed |-> x.failed,
                  stamped |-> w[1] = "touch", mirrors |-> x.mirrors]
  <2>1. y = [next EXCEPT !.source = @ + 1, !.stamped = w[1] = "touch"]
    BY <1>6 DEF ApplyForce, w, n
  <2> HIDE DEF next
  <2> QED BY <1>5, <2>1
<1>7. ASSUME ~OnSource(w)
      PROVE  y = [todo |-> Tail(x.todo), source |-> x.source, news |-> news, failed |-> x.failed,
                  stamped |-> x.stamped, mirrors |-> moved]
  <2>1. y = [next EXCEPT !.mirrors[n].recorded = mark]
    BY <1>7 DEF ApplyForce, w, n, mark
  <2>2. [x.mirrors EXCEPT ![n].recorded = mark] = moved
    <3>1. \A m \in Held(s) : [x.mirrors[m] EXCEPT !.recorded = mark] = [right |-> x.mirrors[m].right, recorded |-> mark]
      BY <1>1
    <3> QED BY <1>1, <3>1
  <2>3. y = [next EXCEPT !.mirrors = [x.mirrors EXCEPT ![n].recorded = mark]]
    <3> HIDE DEF next
    <3>1. next.mirrors = x.mirrors
      BY <1>5
    <3> QED BY <2>1, <3>1
  <2> HIDE DEF next, moved
  <2> QED BY <1>5, <2>2, <2>3
<1>8. moved \in [Held(s) -> [right : BOOLEAN, recorded : Marks(s)]]
  <2>1. mark \in Marks(s)
    BY DEF Marks, mark
  <2>2. ASSUME NEW m \in Held(s)
        PROVE  (IF m = n THEN [right |-> x.mirrors[m].right, recorded |-> mark] ELSE x.mirrors[m])
                 \in [right : BOOLEAN, recorded : Marks(s)]
    BY <1>1, <2>1
  <2> QED BY <2>2
<1> HIDE DEF next, moved
<1>9. CASE OnSource(w)
  <2>1. /\ y.todo = Tail(x.todo) /\ y.source = x.source + 1 /\ y.news = news /\ y.failed = x.failed
        /\ y.stamped = (w[1] = "touch") /\ y.mirrors = x.mirrors
    <3> HIDE DEF y
    <3> QED BY <1>6, <1>9
  <2>2. (y.source \in {1, 2, 3}) => y \in ForceStates(s)
    <3> HIDE DEF y
    <3> DEFINE touched == w[1] = "touch"
    <3>1. touched \in BOOLEAN
      OBVIOUS
    <3>2. y = [todo |-> Tail(x.todo), source |-> x.source + 1, news |-> news, failed |-> x.failed,
               stamped |-> touched, mirrors |-> x.mirrors]
      BY <1>6, <1>9
    <3>3. y.source = x.source + 1
      BY <2>1
    <3> HIDE DEF touched
    <3> QED BY <1>1, <1>2, <1>4, <3>1, <3>2, <3>3 DEF ForceStates
  <2> QED BY <1>2, <1>9, <2>1, <2>2 DEF news, w, n
<1>10. CASE ~OnSource(w)
  <2>1. /\ y.todo = Tail(x.todo) /\ y.source = x.source /\ y.news = news /\ y.failed = x.failed
        /\ y.stamped = x.stamped /\ y.mirrors = moved
    <3> HIDE DEF y
    <3> QED BY <1>7, <1>10
  <2>2. y \in ForceStates(s)
    <3> HIDE DEF y
    <3> QED BY <1>1, <1>2, <1>4, <1>7, <1>8, <1>10 DEF ForceStates
  <2>3. Written(s, x, w, moved)
    BY DEF Written, moved, mark, n
  <2> QED BY <1>2, <1>10, <2>1, <2>2, <2>3 DEF news, w, n
<1> QED BY <1>9, <1>10

(* Which leaves a mirror as right as it was, and its mark but for the one   *)
(* it is for.                                                              *)
LEMMA ApplyMarks ==
  ASSUME NEW s, NEW x \in ForceStates(s), x.todo # << >>, NEW m \in Held(s)
  PROVE  LET w == Head(x.todo)
             y == ApplyForce(x)
         IN  /\ y.mirrors[m].right = x.mirrors[m].right
             /\ (OnSource(w) \/ m # w[2]) => y.mirrors[m].recorded = x.mirrors[m].recorded
             /\ (~OnSource(w) /\ m = w[2]) => y.mirrors[m].recorded \in {"absent", ""}
<1> DEFINE w == Head(x.todo)
           y == ApplyForce(x)
           n == w[2]
           moved == [k \in Held(s) |->
                       IF k = n THEN [right |-> x.mirrors[k].right, recorded |-> IF w[1] = "clear" THEN "absent" ELSE ""]
                       ELSE x.mirrors[k]]
<1>1. (OnSource(w) => y.mirrors = x.mirrors) /\ (~OnSource(w) => y.mirrors = moved)
  <2>1. OnSource(w) => y.mirrors = x.mirrors
    BY ApplyIs
  <2>2. ~OnSource(w) => Written(s, x, w, y.mirrors)
    BY ApplyIs
  <2> QED BY <2>1, <2>2 DEF Written
<1> HIDE DEF w, y, n
<1>2. CASE OnSource(w)
  <2>1. y.mirrors[m] = x.mirrors[m]
    BY <1>1, <1>2
  <2> QED BY <1>2, <2>1 DEF w, y
<1>3. CASE ~OnSource(w) /\ m # n
  <2>1. moved[m] = x.mirrors[m]
    BY <1>3
  <2>2. y.mirrors[m] = x.mirrors[m]
    BY <1>1, <1>3, <2>1
  <2> QED BY <1>3, <2>2 DEF w, y, n
<1>4. CASE ~OnSource(w) /\ m = n
  <2>1. PICK a \in {"absent", ""} : a = IF w[1] = "clear" THEN "absent" ELSE ""
    OBVIOUS
  <2>2. PICK r : r = x.mirrors[m].right
    OBVIOUS
  <2>3. moved[m] = [right |-> r, recorded |-> a]
    BY <1>4, <2>1, <2>2
  <2>4. PICK z : z = y.mirrors[m]
    OBVIOUS
  <2>5. z = [right |-> r, recorded |-> a]
    <3> HIDE DEF moved
    <3> QED BY <1>1, <1>4, <2>3, <2>4
  <2>6. z.right = r /\ z.recorded = a
    BY <2>5
  <2> QED BY <1>4, <2>2, <2>4, <2>6 DEF w, y, n
<1> QED BY <1>2, <1>3, <1>4

(* And one that fails. *)
LEMMA FailIs ==
  ASSUME NEW s, NEW x \in ForceStates(s), x.todo # << >>
  PROVE  LET y == FailForce(x)
         IN  /\ Head(x.todo) \in Writes(s)
             /\ y.todo = Tail(x.todo) /\ y.failed = x.failed \cup {Head(x.todo)}
             /\ y.source = x.source /\ y.news = x.news /\ y.stamped = x.stamped /\ y.mirrors = x.mirrors
             /\ y \in ForceStates(s)
<1> DEFINE y == FailForce(x)
<1>1. /\ x = [todo |-> x.todo, source |-> x.source, news |-> x.news, failed |-> x.failed,
              stamped |-> x.stamped, mirrors |-> x.mirrors]
      /\ x.todo \in Seq(Writes(s)) /\ x.source \in {1, 2, 3} /\ x.news \in SUBSET Heard(s)
      /\ x.failed \in SUBSET Writes(s) /\ x.stamped \in BOOLEAN
      /\ x.mirrors \in [Held(s) -> [right : BOOLEAN, recorded : Marks(s)]]
  BY DEF ForceStates
<1>2. Head(x.todo) \in Writes(s) /\ Tail(x.todo) \in Seq(Writes(s))
  <2>1. \A S : \A q \in Seq(S) : q # << >> => Head(q) \in S /\ Tail(q) \in Seq(S)
    OBVIOUS
  <2> QED BY <1>1, <2>1
<1>3. y = [todo |-> Tail(x.todo), source |-> x.source, news |-> x.news, failed |-> x.failed \cup {Head(x.todo)},
           stamped |-> x.stamped, mirrors |-> x.mirrors]
  <2>1. PICK td, sr, nw, fl, sp, mi : x = [todo |-> td, source |-> sr, news |-> nw, failed |-> fl, stamped |-> sp, mirrors |-> mi]
    BY <1>1
  <2>2. /\ x.todo = td /\ x.source = sr /\ x.news = nw /\ x.failed = fl /\ x.stamped = sp /\ x.mirrors = mi
    BY <2>1
  <2>3. PICK z : z = [x EXCEPT !.todo = Tail(x.todo)]
    OBVIOUS
  <2>4. PICK all : all = x.failed \cup {Head(x.todo)}
    OBVIOUS
  <2>5. y = [z EXCEPT !.failed = all]
    <3>1. z.failed = x.failed
      BY <2>1, <2>3
    <3> QED BY <2>3, <2>4, <3>1, Zenon DEF FailForce
  <2> HIDE DEF y
  <2>6. z = [todo |-> Tail(td), source |-> sr, news |-> nw, failed |-> fl, stamped |-> sp, mirrors |-> mi]
    BY <2>1, <2>2, <2>3
  <2> QED BY <2>2, <2>4, <2>5, <2>6
<1>4. x.failed \cup {Head(x.todo)} \in SUBSET Writes(s)
  BY <1>1, <1>2
<1>5. y \in ForceStates(s)
  <2> HIDE DEF y
  <2> QED BY <1>1, <1>2, <1>3, <1>4 DEF ForceStates
<1> HIDE DEF y
<1>6. /\ y.todo = Tail(x.todo) /\ y.failed = x.failed \cup {Head(x.todo)}
      /\ y.source = x.source /\ y.news = x.news /\ y.stamped = x.stamped /\ y.mirrors = x.mirrors
  BY <1>3
<1> QED BY <1>2, <1>5, <1>6 DEF y

(* The mirrors after the reflector has heard of one, or of the source.     *)
Resent(s, x, n, mirrors) ==
  LET v == VersionOf(s, x.source)
      sent(m) == IF n = s.object.ns THEN MirrorIn(s, m).auto ELSE ByHand(s, n) /\ m = n
  IN  mirrors = [m \in Held(s) |-> IF sent(m) /\ x.mirrors[m].recorded # v
                                   THEN [right |-> TRUE, recorded |-> v] ELSE x.mirrors[m]]

(* What the reflector does of what it hears. *)
LEMMA HearIs ==
  ASSUME MadeOfWorld, NEW s \in reasons.found.sources, NEW x \in ForceStates(s), NEW n \in x.news
  PROVE  LET y == Hear(s, x, n)
         IN  /\ y.todo = x.todo /\ y.failed = x.failed /\ y.source = x.source
             /\ y.news = x.news \ {n} /\ y.stamped = x.stamped
             /\ Resent(s, x, n, y.mirrors)
             /\ y \in ForceStates(s)
<1> DEFINE y == Hear(s, x, n)
           v == VersionOf(s, x.source)
           sent(m) == IF n = s.object.ns THEN MirrorIn(s, m).auto ELSE ByHand(s, n) /\ m = n
           moved == [m \in Held(s) |-> IF sent(m) /\ x.mirrors[m].recorded # v
                                       THEN [right |-> TRUE, recorded |-> v] ELSE x.mirrors[m]]
           heard == [x EXCEPT !.news = @ \ {n}]
<1>1. /\ x = [todo |-> x.todo, source |-> x.source, news |-> x.news, failed |-> x.failed,
              stamped |-> x.stamped, mirrors |-> x.mirrors]
      /\ x.todo \in Seq(Writes(s)) /\ x.source \in {1, 2, 3} /\ x.news \in SUBSET Heard(s)
      /\ x.failed \in SUBSET Writes(s) /\ x.stamped \in BOOLEAN
      /\ x.mirrors \in [Held(s) -> [right : BOOLEAN, recorded : Marks(s)]]
  BY DEF ForceStates
<1>2. heard = [todo |-> x.todo, source |-> x.source, news |-> x.news \ {n}, failed |-> x.failed,
               stamped |-> x.stamped, mirrors |-> x.mirrors]
  <2>1. PICK td, sr, nw, fl, sp, mi : x = [todo |-> td, source |-> sr, news |-> nw, failed |-> fl, stamped |-> sp, mirrors |-> mi]
    BY <1>1
  <2>2. /\ x.todo = td /\ x.source = sr /\ x.news = nw /\ x.failed = fl /\ x.stamped = sp /\ x.mirrors = mi
    BY <2>1
  <2> QED BY <2>1, <2>2
<1>3. \A nss : Send(s, heard, nss) =
         [todo |-> x.todo, source |-> x.source, news |-> x.news \ {n}, failed |-> x.failed, stamped |-> x.stamped,
          mirrors |-> [m \in Held(s) |-> IF m \in nss /\ x.mirrors[m].recorded # v
                                         THEN [right |-> TRUE, recorded |-> v] ELSE x.mirrors[m]]]
  <2> TAKE nss
  <2> DEFINE those == [m \in DOMAIN heard.mirrors |->
                         IF m \in nss /\ heard.mirrors[m].recorded # VersionOf(s, heard.source)
                         THEN [right |-> TRUE, recorded |-> VersionOf(s, heard.source)] ELSE heard.mirrors[m]]
             these == [m \in Held(s) |-> IF m \in nss /\ x.mirrors[m].recorded # v
                                         THEN [right |-> TRUE, recorded |-> v] ELSE x.mirrors[m]]
  <2>1. Send(s, heard, nss) = [heard EXCEPT !.mirrors = those]
    <3> HIDE DEF heard
    <3> QED BY DEF Send
  <2>2. heard.mirrors = x.mirrors /\ heard.source = x.source /\ DOMAIN x.mirrors = Held(s)
    <3> HIDE DEF heard
    <3> QED BY <1>1, <1>2
  <2>3. those = these
    <3> HIDE DEF heard
    <3> QED BY <2>2
  <2> HIDE DEF heard, those, these
  <2> QED BY <1>2, <2>1, <2>3 DEF these
<1>4. y = [todo |-> x.todo, source |-> x.source, news |-> x.news \ {n}, failed |-> x.failed,
           stamped |-> x.stamped, mirrors |-> moved]
  <2>1. y = IF n = s.object.ns THEN Send(s, heard, {m \in DOMAIN x.mirrors : MirrorIn(s, m).auto})
            ELSE IF ByHand(s, n) THEN Send(s, heard, {n}) ELSE heard
    BY DEF Hear
  <2> HIDE DEF y, heard
  <2>2. CASE n = s.object.ns
    <3>1. y = [todo |-> x.todo, source |-> x.source, news |-> x.news \ {n}, failed |-> x.failed, stamped |-> x.stamped,
               mirrors |-> [m \in Held(s) |->
                    IF m \in {k \in DOMAIN x.mirrors : MirrorIn(s, k).auto} /\ x.mirrors[m].recorded # v
                    THEN [right |-> TRUE, recorded |-> v] ELSE x.mirrors[m]]]
      BY <1>3, <2>1, <2>2
    <3>2. moved = [m \in Held(s) |->
                    IF m \in {k \in DOMAIN x.mirrors : MirrorIn(s, k).auto} /\ x.mirrors[m].recorded # v
                    THEN [right |-> TRUE, recorded |-> v] ELSE x.mirrors[m]]
      BY <1>1, <2>2
    <3> HIDE DEF moved, v
    <3> QED BY <3>1, <3>2
  <2>3. CASE n # s.object.ns /\ ByHand(s, n)
    <3>1. y = [todo |-> x.todo, source |-> x.source, news |-> x.news \ {n}, failed |-> x.failed, stamped |-> x.stamped,
               mirrors |-> [m \in Held(s) |-> IF m \in {n} /\ x.mirrors[m].recorded # v
                    THEN [right |-> TRUE, recorded |-> v] ELSE x.mirrors[m]]]
      BY <1>3, <2>1, <2>3
    <3>2. moved = [m \in Held(s) |-> IF m \in {n} /\ x.mirrors[m].recorded # v
                    THEN [right |-> TRUE, recorded |-> v] ELSE x.mirrors[m]]
      BY <2>3
    <3> HIDE DEF moved, v
    <3> QED BY <3>1, <3>2
  <2>4. CASE n # s.object.ns /\ ~ByHand(s, n)
    <3>1. y = heard
      BY <2>1, <2>4
    <3>2. moved = [m \in Held(s) |-> x.mirrors[m]]
      BY <2>4
    <3>3. moved = x.mirrors
      <4> HIDE DEF moved
      <4> QED BY <1>1, <3>2
    <3> HIDE DEF moved, v
    <3> QED BY <1>2, <3>1, <3>3
  <2> QED BY <2>2, <2>3, <2>4
<1>5. moved \in [Held(s) -> [right : BOOLEAN, recorded : Marks(s)]]
  <2>1. v \in Marks(s)
    BY <1>1, VersionIs
  <2>2. ASSUME NEW m \in Held(s)
        PROVE  (IF sent(m) /\ x.mirrors[m].recorded # v THEN [right |-> TRUE, recorded |-> v] ELSE x.mirrors[m])
                 \in [right : BOOLEAN, recorded : Marks(s)]
    <3> HIDE DEF v, sent
    <3> QED BY <1>1, <2>1
  <2> HIDE DEF v, sent
  <2> QED BY <2>2
<1>6. x.news \ {n} \in SUBSET Heard(s)
  BY <1>1
<1> HIDE DEF y, moved
<1>7. y \in ForceStates(s)
  BY <1>1, <1>4, <1>5, <1>6 DEF ForceStates
<1>8. /\ y.todo = x.todo /\ y.failed = x.failed /\ y.source = x.source
      /\ y.news = x.news \ {n} /\ y.stamped = x.stamped /\ y.mirrors = moved
  BY <1>4
<1>9. Resent(s, x, n, moved)
  BY DEF Resent, moved, sent, v
<1> QED BY <1>7, <1>8, <1>9 DEF y

Touch(s) == <<"touch", s.object.ns>>
Unstamp(s) == <<"unstamp", s.object.ns>>

(* How far a plan is: the stamp comes last, and is put on before it is taken *)
(* off.                                                                    *)
Staged(s, moving, x) ==
  LET n == Len(x.todo)
  IN  IF \E t \in moving : t.auto
      THEN /\ n >= 1 => x.todo[n] = Unstamp(s)
           /\ n >= 2 => x.todo[n - 1] = Touch(s) /\ x.source = 1 /\ ~x.stamped
           /\ n = 1 => x.source = 2 \/ (x.source = 1 /\ x.failed # {} /\ ~x.stamped)
           /\ n = 0 => x.source # 1 /\ (x.stamped => Unstamp(s) \in x.failed)
           /\ \A i \in 1..(n - 2) : \E t \in moving : x.todo[i] = Unrecord(t)
      ELSE /\ x.source = 1 /\ ~x.stamped
           /\ \A i \in 1..n : \E t \in moving : x.todo[i] = Unrecord(t)

(* Once its source has another version, an automatic mirror is right, or    *)
(* the reflector has yet to hear of it.                                    *)
Fresh(s, x) ==
  /\ \A m \in Held(s) : x.mirrors[m].recorded \in {"v3", "v4"} => x.mirrors[m].right
  /\ x.source # 1 => \/ s.object.ns \in x.news
                     \/ \A m \in Held(s) : MirrorIn(s, m).auto => x.mirrors[m].right

(* A mirror made by hand is right, or has lost its version and the reflector *)
(* has yet to hear of that, or its write failed or has yet to be made.      *)
Moved(s, t, x) ==
  \/ x.mirrors[t.ns].right
  \/ Unrecord(t) \in x.failed
  \/ t.ns \in x.news /\ x.mirrors[t.ns].recorded \in {"absent", ""}
  \/ /\ \E i \in 1..Len(x.todo) : x.todo[i] = Unrecord(t)
     /\ \E o \in t.mirrors : x.mirrors[t.ns].recorded = o.props.recorded

Cleared(s, moving, x) == \A t \in moving : (~t.auto /\ ByHand(s, t.ns)) => Moved(s, t, x)

OnTheWay(s, moving) == {x \in ForceStates(s) : Staged(s, moving, x) /\ Fresh(s, x) /\ Cleared(s, moving, x)}

LEMMA TailIs ==
  ASSUME NEW S, NEW q \in Seq(S), q # << >>
  PROVE  /\ Len(q) \in Nat /\ Len(q) >= 1 /\ Head(q) = q[1] /\ Tail(q) \in Seq(S)
         /\ Len(Tail(q)) = Len(q) - 1 /\ \A i \in 1..(Len(q) - 1) : Tail(q)[i] = q[i + 1]
  OBVIOUS

LEMMA StampsAre ==
  ASSUME NEW s
  PROVE  /\ OnSource(Touch(s)) /\ OnSource(Unstamp(s))
         /\ Touch(s)[1] = "touch" /\ Unstamp(s)[1] = "unstamp"
         /\ Touch(s)[2] = s.object.ns /\ Unstamp(s)[2] = s.object.ns
         /\ Touch(s) \in Writes(s) /\ Unstamp(s) \in Writes(s)
  BY DEF OnSource, Touch, Unstamp, Writes, Heard

(* The next write of the plan, and what is then left of it.                *)
LEMMA NextWriteIs ==
  ASSUME NEW s, NEW moving, ToMove(s, moving), NEW x \in OnTheWay(s, moving), x.todo # << >>
  PROVE  LET w == Head(x.todo)
             n == Len(x.todo)
         IN  /\ n \in Nat /\ n >= 1 /\ Len(Tail(x.todo)) = n - 1
             /\ w = Touch(s) => /\ \E t \in moving : t.auto
                                /\ n = 2 /\ x.source = 1 /\ ~x.stamped
             /\ w = Unstamp(s) => /\ \E t \in moving : t.auto
                                  /\ n = 1
             /\ OnSource(w) => w = Touch(s) \/ w = Unstamp(s)
             /\ ~OnSource(w) => \E t \in moving : w = Unrecord(t)
             /\ (~OnSource(w) /\ \E t \in moving : t.auto) => n >= 3
<1> DEFINE w == Head(x.todo)
           n == Len(x.todo)
<1>1. x \in ForceStates(s) /\ Staged(s, moving, x)
  BY DEF OnTheWay
<1>2. x.todo \in Seq(Writes(s))
  BY <1>1 DEF ForceStates
<1>3. n \in Nat /\ n >= 1 /\ w = x.todo[1] /\ Len(Tail(x.todo)) = n - 1
  BY <1>2, TailIs
<1> HIDE DEF w, n
<1>4. \A t \in moving : ~OnSource(Unrecord(t))
  BY MovingIs
<1>5. Touch(s) # Unstamp(s) /\ OnSource(Touch(s)) /\ OnSource(Unstamp(s))
  <2>1. Touch(s)[1] # Unstamp(s)[1]
    BY StampsAre
  <2> QED BY <2>1, StampsAre
<1>6. CASE ~\E t \in moving : t.auto
  <2>1. \A i \in 1..n : \E t \in moving : x.todo[i] = Unrecord(t)
    BY <1>1, <1>6 DEF Staged, n
  <2>2. PICK t \in moving : w = Unrecord(t)
    BY <1>3, <2>1
  <2> QED BY <1>3, <1>4, <1>5, <1>6, <2>2 DEF w, n
<1>7. CASE \E t \in moving : t.auto
  <2>1. /\ n >= 1 => x.todo[n] = Unstamp(s)
        /\ n >= 2 => x.todo[n - 1] = Touch(s) /\ x.source = 1 /\ ~x.stamped
        /\ \A i \in 1..(n - 2) : \E t \in moving : x.todo[i] = Unrecord(t)
    BY <1>1, <1>7 DEF Staged, n
  <2>2. CASE n = 1
    <3>1. w = Unstamp(s)
      BY <1>3, <2>1, <2>2
    <3> QED BY <1>3, <1>5, <1>7, <2>2, <3>1 DEF w, n
  <2>3. CASE n = 2
    <3>1. w = Touch(s) /\ x.source = 1 /\ ~x.stamped
      BY <1>3, <2>1, <2>3
    <3> QED BY <1>3, <1>5, <1>7, <2>3, <3>1 DEF w, n
  <2>4. CASE n >= 3
    <3>1. PICK t \in moving : w = Unrecord(t)
      <4>1. 1 \in 1..(n - 2)
        BY <1>3, <2>4
      <4> QED BY <1>3, <2>1, <4>1
    <3> QED BY <1>3, <1>4, <1>5, <1>7, <2>4, <3>1 DEF w, n
  <2> QED BY <1>3, <2>2, <2>3, <2>4
<1> QED BY <1>6, <1>7

(* What is left of a plan is made as the plan was.                         *)
LEMMA RestIs ==
  ASSUME NEW s, NEW moving, NEW x \in OnTheWay(s, moving), x.todo # << >>
  PROVE  LET q == Tail(x.todo)
             n == Len(q)
         IN  /\ n \in Nat
             /\ (\E t \in moving : t.auto) =>
                   /\ n >= 1 => q[n] = Unstamp(s)
                   /\ n >= 2 => q[n - 1] = Touch(s)
                   /\ \A i \in 1..(n - 2) : \E t \in moving : q[i] = Unrecord(t)
             /\ ~(\E t \in moving : t.auto) => \A i \in 1..n : \E t \in moving : q[i] = Unrecord(t)
<1> DEFINE q == Tail(x.todo)
           k == Len(x.todo)
<1>1. x \in ForceStates(s) /\ Staged(s, moving, x)
  BY DEF OnTheWay
<1>2. x.todo \in Seq(Writes(s))
  BY <1>1 DEF ForceStates
<1>3. k \in Nat /\ k >= 1 /\ Len(q) = k - 1 /\ \A i \in 1..(k - 1) : q[i] = x.todo[i + 1]
  BY <1>2, TailIs
<1> HIDE DEF q, k
<1>4. CASE ~\E t \in moving : t.auto
  <2>1. \A i \in 1..k : \E t \in moving : x.todo[i] = Unrecord(t)
    BY <1>1, <1>4 DEF Staged, k
  <2>2. \A i \in 1..(k - 1) : \E t \in moving : q[i] = Unrecord(t)
    <3>1. \A i \in 1..(k - 1) : i + 1 \in 1..k
      BY <1>3
    <3> QED BY <1>3, <2>1, <3>1
  <2> QED BY <1>3, <1>4, <2>2 DEF q
<1>5. CASE \E t \in moving : t.auto
  <2>1. /\ k >= 1 => x.todo[k] = Unstamp(s)
        /\ k >= 2 => x.todo[k - 1] = Touch(s)
        /\ \A i \in 1..(k - 2) : \E t \in moving : x.todo[i] = Unrecord(t)
    BY <1>1, <1>5 DEF Staged, k
  <2>2. k - 1 >= 1 => q[k - 1] = Unstamp(s)
    <3>1. k - 1 >= 1 => k - 1 \in 1..(k - 1) /\ (k - 1) + 1 = k
      BY <1>3
    <3> QED BY <1>3, <2>1, <3>1
  <2>3. k - 1 >= 2 => q[(k - 1) - 1] = Touch(s)
    <3>1. k - 1 >= 2 => (k - 1) - 1 \in 1..(k - 1) /\ ((k - 1) - 1) + 1 = k - 1 /\ k >= 2
      BY <1>3
    <3> QED BY <1>3, <2>1, <3>1
  <2>4. \A i \in 1..((k - 1) - 2) : \E t \in moving : q[i] = Unrecord(t)
    <3>1. \A i \in 1..((k - 1) - 2) : i \in 1..(k - 1) /\ i + 1 \in 1..(k - 2)
      BY <1>3
    <3> QED BY <1>3, <2>1, <3>1
  <2>5. k - 1 \in Nat
    BY <1>3
  <2> QED BY <1>3, <1>5, <2>2, <2>3, <2>4, <2>5 DEF q
<1> QED BY <1>4, <1>5

LEMMA StagedApplied ==
  ASSUME NEW s, NEW moving, ToMove(s, moving), NEW x \in OnTheWay(s, moving), x.todo # << >>
  PROVE  ApplyForce(x) \in ForceStates(s) /\ Staged(s, moving, ApplyForce(x))
<1> DEFINE y == ApplyForce(x)
           w == Head(x.todo)
           q == Tail(x.todo)
           auto == \E t \in moving : t.auto
<1>1. x \in ForceStates(s) /\ Staged(s, moving, x)
  BY DEF OnTheWay
<1>2. x.source \in {1, 2, 3} /\ x.stamped \in BOOLEAN
  BY <1>1 DEF ForceStates
<1>3. /\ y.todo = q /\ y.failed = x.failed
      /\ OnSource(w) => y.source = x.source + 1 /\ y.stamped = (w[1] = "touch")
      /\ ~OnSource(w) => y.source = x.source /\ y.stamped = x.stamped
      /\ (y.source \in {1, 2, 3}) => y \in ForceStates(s)
  BY <1>1, ApplyIs
<1>4. /\ Len(x.todo) \in Nat /\ Len(x.todo) >= 1 /\ Len(q) = Len(x.todo) - 1
      /\ w = Touch(s) => auto /\ Len(x.todo) = 2 /\ x.source = 1 /\ ~x.stamped
      /\ w = Unstamp(s) => auto /\ Len(x.todo) = 1
      /\ OnSource(w) => w = Touch(s) \/ w = Unstamp(s)
      /\ (~OnSource(w) /\ auto) => Len(x.todo) >= 3
  BY NextWriteIs
<1>5. /\ auto => /\ Len(q) >= 1 => q[Len(q)] = Unstamp(s)
                 /\ Len(q) >= 2 => q[Len(q) - 1] = Touch(s)
                 /\ \A i \in 1..(Len(q) - 2) : \E t \in moving : q[i] = Unrecord(t)
      /\ ~auto => \A i \in 1..Len(q) : \E t \in moving : q[i] = Unrecord(t)
  BY RestIs
<1>6. /\ auto => /\ Len(x.todo) >= 2 => x.source = 1 /\ ~x.stamped
                 /\ Len(x.todo) = 1 => x.source = 2 \/ x.source = 1
      /\ ~auto => x.source = 1 /\ ~x.stamped
  BY <1>1 DEF Staged
<1> HIDE DEF y, w, q, auto
<1>7. CASE w = Touch(s)
  <2>1. OnSource(w) /\ w[1] = "touch"
    BY <1>7, StampsAre
  <2>2. y.source = 2 /\ Len(y.todo) = 1 /\ auto
    BY <1>3, <1>4, <1>7, <2>1
  <2>3. Staged(s, moving, y)
    BY <1>3, <1>5, <2>2 DEF Staged, auto
  <2> QED BY <1>3, <2>2, <2>3 DEF y
<1>8. CASE w = Unstamp(s)
  <2>1. OnSource(w) /\ w[1] # "touch"
    BY <1>8, StampsAre
  <2>2. y.source \in {2, 3} /\ Len(y.todo) = 0 /\ auto /\ ~y.stamped
    <3>1. Len(x.todo) = 1 /\ auto
      BY <1>4, <1>8
    <3>2. x.source \in {1, 2} /\ y.source = x.source + 1
      BY <1>3, <1>6, <2>1, <3>1
    <3>3. Len(y.todo) = 0
      BY <1>3, <1>4, <3>1
    <3>4. ~y.stamped
      BY <1>3, <2>1
    <3> QED BY <3>1, <3>2, <3>3, <3>4
  <2>3. Staged(s, moving, y)
    BY <1>3, <1>5, <2>2 DEF Staged, auto
  <2> QED BY <1>3, <2>2, <2>3 DEF y
<1>9. CASE ~OnSource(w)
  <2>1. y.source = x.source /\ y.stamped = x.stamped
    BY <1>3, <1>9
  <2>2. auto => Len(y.todo) >= 2 /\ y.source = 1 /\ ~y.stamped
    BY <1>3, <1>4, <1>6, <1>9, <2>1
  <2>3. Staged(s, moving, y)
    <3>1. CASE auto
      BY <1>3, <1>5, <2>2, <3>1 DEF Staged, auto
    <3>2. CASE ~auto
      BY <1>3, <1>5, <1>6, <2>1, <3>2 DEF Staged, auto
    <3> QED BY <3>1, <3>2
  <2> QED BY <1>2, <1>3, <2>1, <2>3 DEF y
<1> QED BY <1>4, <1>7, <1>8, <1>9

LEMMA StagedFailed ==
  ASSUME NEW s, NEW moving, ToMove(s, moving), NEW x \in OnTheWay(s, moving), x.todo # << >>, x.failed = {}
  PROVE  Staged(s, moving, FailForce(x))
<1> DEFINE y == FailForce(x)
           w == Head(x.todo)
           q == Tail(x.todo)
           auto == \E t \in moving : t.auto
<1>1. x \in ForceStates(s) /\ Staged(s, moving, x)
  BY DEF OnTheWay
<1>2. x.source \in {1, 2, 3} /\ x.stamped \in BOOLEAN
  BY <1>1 DEF ForceStates
<1>3. /\ y.todo = q /\ y.failed = x.failed \cup {w} /\ y.source = x.source /\ y.stamped = x.stamped
  BY <1>1, FailIs
<1>4. /\ Len(x.todo) \in Nat /\ Len(x.todo) >= 1 /\ Len(q) = Len(x.todo) - 1
      /\ w = Touch(s) => auto /\ Len(x.todo) = 2 /\ x.source = 1 /\ ~x.stamped
      /\ w = Unstamp(s) => auto /\ Len(x.todo) = 1
      /\ OnSource(w) => w = Touch(s) \/ w = Unstamp(s)
      /\ (~OnSource(w) /\ auto) => Len(x.todo) >= 3
  BY NextWriteIs
<1>5. /\ auto => /\ Len(q) >= 1 => q[Len(q)] = Unstamp(s)
                 /\ Len(q) >= 2 => q[Len(q) - 1] = Touch(s)
                 /\ \A i \in 1..(Len(q) - 2) : \E t \in moving : q[i] = Unrecord(t)
      /\ ~auto => \A i \in 1..Len(q) : \E t \in moving : q[i] = Unrecord(t)
  BY RestIs
<1>6. /\ auto => /\ Len(x.todo) >= 2 => x.source = 1 /\ ~x.stamped
                 /\ Len(x.todo) = 1 => x.source = 2
      /\ ~auto => x.source = 1 /\ ~x.stamped
  BY <1>1 DEF Staged
<1> HIDE DEF y, w, q, auto
<1>7. CASE w = Touch(s)
  <2>1. y.source = 1 /\ y.failed # {} /\ ~y.stamped /\ Len(y.todo) = 1 /\ auto
    BY <1>3, <1>4, <1>7
  <2>2. Staged(s, moving, y)
    BY <1>3, <1>5, <2>1 DEF Staged, auto
  <2> QED BY <2>2 DEF y
<1>8. CASE w = Unstamp(s)
  <2>1. y.source = 2 /\ Len(y.todo) = 0 /\ auto /\ Unstamp(s) \in y.failed
    BY <1>3, <1>4, <1>6, <1>8
  <2>2. Staged(s, moving, y)
    BY <1>3, <1>5, <2>1 DEF Staged, auto
  <2> QED BY <2>2 DEF y
<1>9. CASE ~OnSource(w)
  <2>1. auto => Len(y.todo) >= 2 /\ y.source = 1 /\ ~y.stamped
    BY <1>3, <1>4, <1>6, <1>9
  <2>2. Staged(s, moving, y)
    <3>1. CASE auto
      BY <1>3, <1>5, <2>1, <3>1 DEF Staged, auto
    <3>2. CASE ~auto
      BY <1>3, <1>5, <1>6, <3>2 DEF Staged, auto
    <3> QED BY <3>1, <3>2
  <2> QED BY <2>2 DEF y
<1> QED BY <1>4, <1>7, <1>8, <1>9

(* Whatever happens, an automatic mirror stays right or to be told.        *)
LEMMA FreshApplied ==
  ASSUME NEW s, NEW moving, ToMove(s, moving), NEW x \in OnTheWay(s, moving), x.todo # << >>
  PROVE  Fresh(s, ApplyForce(x))
<1> DEFINE y == ApplyForce(x)
           w == Head(x.todo)
<1>1. x \in ForceStates(s) /\ Fresh(s, x)
  BY DEF OnTheWay
<1>2. /\ y.news = IF Changes(x, w) THEN x.news \cup {w[2]} ELSE x.news
      /\ OnSource(w) => y.mirrors = x.mirrors
      /\ ~OnSource(w) => y.source = x.source
  BY <1>1, ApplyIs
<1>3. OnSource(w) => w = Touch(s) \/ w = Unstamp(s)
  BY NextWriteIs
<1> HIDE DEF y, w
<1>4. CASE OnSource(w)
  <2>1. Changes(x, w) /\ w[2] = s.object.ns
    BY <1>3, <1>4, StampsAre DEF Changes
  <2> QED BY <1>1, <1>2, <1>4, <2>1 DEF Fresh, y
<1>5. CASE ~OnSource(w)
  <2>1. ASSUME NEW m \in Held(s)
        PROVE  /\ y.mirrors[m].right = x.mirrors[m].right
               /\ y.mirrors[m].recorded \in {"absent", "", x.mirrors[m].recorded}
    BY <1>1, ApplyMarks DEF y, w
  <2>2. x.news \subseteq y.news /\ y.source = x.source
    BY <1>2, <1>5
  <2> QED BY <1>1, <2>1, <2>2 DEF Fresh, y
<1> QED BY <1>4, <1>5

LEMMA FreshFailed ==
  ASSUME NEW s, NEW moving, NEW x \in OnTheWay(s, moving), x.todo # << >>
  PROVE  Fresh(s, FailForce(x))
<1>1. x \in ForceStates(s) /\ Fresh(s, x)
  BY DEF OnTheWay
<1>2. LET y == FailForce(x) IN y.source = x.source /\ y.news = x.news /\ y.mirrors = x.mirrors
  BY <1>1, FailIs
<1> QED BY <1>1, <1>2 DEF Fresh

LEMMA FreshHeard ==
  ASSUME NEW s, NEW moving, ToMove(s, moving), NEW x \in OnTheWay(s, moving), NEW n \in x.news
  PROVE  Fresh(s, Hear(s, x, n))
<1> DEFINE y == Hear(s, x, n)
           v == VersionOf(s, x.source)
           sent(m) == IF n = s.object.ns THEN MirrorIn(s, m).auto ELSE ByHand(s, n) /\ m = n
<1>1. x \in ForceStates(s) /\ Fresh(s, x) /\ MadeOfWorld /\ s \in reasons.found.sources
  BY DEF OnTheWay, ToMove
<1>2. /\ y.source = x.source /\ y.news = x.news \ {n}
      /\ Resent(s, x, n, y.mirrors)
  BY <1>1, HearIs
<1>3. y.mirrors = [m \in Held(s) |-> IF sent(m) /\ x.mirrors[m].recorded # v
                                        THEN [right |-> TRUE, recorded |-> v] ELSE x.mirrors[m]]
  BY <1>2 DEF Resent
<1>4. x.source \in {1, 2, 3} /\ (x.source # 1 => v \in {"v3", "v4"})
  <2>1. x.source \in {1, 2, 3}
    BY <1>1 DEF ForceStates
  <2> QED BY <1>1, <2>1, VersionIs
<1> HIDE DEF y, v
<1>5. ASSUME NEW m \in Held(s)
      PROVE  /\ x.mirrors[m].right => y.mirrors[m].right
             /\ y.mirrors[m].recorded \in {"v3", "v4"} => y.mirrors[m].right
             /\ (n = s.object.ns /\ MirrorIn(s, m).auto /\ x.source # 1) => y.mirrors[m].right
  <2>1. y.mirrors[m] = IF sent(m) /\ x.mirrors[m].recorded # v
                       THEN [right |-> TRUE, recorded |-> v] ELSE x.mirrors[m]
    BY <1>3
  <2>2. x.mirrors[m].recorded \in {"v3", "v4"} => x.mirrors[m].right
    BY <1>1 DEF Fresh
  <2>3. CASE sent(m) /\ x.mirrors[m].recorded # v
    <3>1. y.mirrors[m] = [right |-> TRUE, recorded |-> v]
      BY <2>1, <2>3
    <3>2. y.mirrors[m].right
      BY <3>1
    <3> QED BY <3>2
  <2>4. CASE ~(sent(m) /\ x.mirrors[m].recorded # v)
    <3>1. y.mirrors[m] = x.mirrors[m]
      BY <2>1, <2>4
    <3>2. (n = s.object.ns /\ MirrorIn(s, m).auto) => sent(m)
      OBVIOUS
    <3> HIDE DEF sent
    <3> QED BY <1>4, <2>2, <2>4, <3>1, <3>2
  <2> QED BY <2>3, <2>4
<1>6. x.source # 1 => \/ s.object.ns \in y.news
                      \/ \A m \in Held(s) : MirrorIn(s, m).auto => y.mirrors[m].right
  <2>1. CASE n = s.object.ns
    BY <1>5, <2>1
  <2>2. CASE n # s.object.ns
    BY <1>1, <1>2, <1>5, <2>2 DEF Fresh
  <2> QED BY <2>1, <2>2
<1> QED BY <1>2, <1>5, <1>6 DEF Fresh, y

(* A mirror made by hand moves, fails to, or is left to.                   *)
LEMMA ClearedApplied ==
  ASSUME NEW s, NEW moving, ToMove(s, moving), NEW x \in OnTheWay(s, moving), x.todo # << >>
  PROVE  Cleared(s, moving, ApplyForce(x))
<1> DEFINE y == ApplyForce(x)
           w == Head(x.todo)
           q == Tail(x.todo)
           k == Len(x.todo)
<1>1. x \in ForceStates(s) /\ Cleared(s, moving, x)
  BY DEF OnTheWay
<1>2. /\ y.todo = q /\ y.failed = x.failed
      /\ y.news = IF Changes(x, w) THEN x.news \cup {w[2]} ELSE x.news
  BY <1>1, ApplyIs
<1>3. \A m \in Held(s) : /\ y.mirrors[m].right = x.mirrors[m].right
                         /\ (OnSource(w) \/ m # w[2]) => y.mirrors[m].recorded = x.mirrors[m].recorded
                         /\ (~OnSource(w) /\ m = w[2]) => y.mirrors[m].recorded \in {"absent", ""}
  BY <1>1, ApplyMarks
<1>4. ~OnSource(w) => \E t \in moving : w = Unrecord(t)
  BY NextWriteIs
<1>5. k \in Nat /\ k >= 1 /\ w = x.todo[1] /\ Len(q) = k - 1 /\ \A i \in 1..(k - 1) : q[i] = x.todo[i + 1]
  <2>1. x.todo \in Seq(Writes(s))
    BY <1>1 DEF ForceStates
  <2> QED BY <2>1, TailIs
<1> HIDE DEF y, w, q, k
<1>6. ASSUME NEW t \in moving, ~t.auto, ByHand(s, t.ns) PROVE Moved(s, t, y)
  <2> DEFINE u == Unrecord(t)
  <2>1. PICK o \in World.objects : /\ t.mirrors = {o}
                                   /\ u[1] = IF o.props.recorded # "absent" THEN "clear" ELSE "empty"
    BY MovingIs
  <2>2. t.ns \in Held(s) /\ ~OnSource(u) /\ u = <<u[1], t.ns>>
    BY MovingIs
  <2>3. Moved(s, t, x)
    BY <1>1, <1>6 DEF Cleared
  <2> HIDE DEF u
  <2>4. (~OnSource(w) /\ w[2] = t.ns) => w = u
    <3>1. ASSUME NEW r \in moving, w = Unrecord(r), w[2] = t.ns PROVE w = u
      <4>1. MirrorIn(s, r.ns) = r /\ MirrorIn(s, t.ns) = t /\ Unrecord(r) = <<Unrecord(r)[1], r.ns>>
        BY MovingIs
      <4>2. r.ns = t.ns
        BY <3>1, <4>1
      <4> QED BY <3>1, <4>1, <4>2 DEF u
    <3> QED BY <1>4, <3>1
  <2>5. x.mirrors[t.ns].right => y.mirrors[t.ns].right
    BY <1>3, <2>2
  <2>6. CASE x.mirrors[t.ns].right
    BY <2>5, <2>6 DEF Moved
  <2>7. CASE u \in x.failed
    BY <1>2, <2>7 DEF Moved, u
  <2>8. CASE t.ns \in x.news /\ x.mirrors[t.ns].recorded \in {"absent", ""}
    <3>1. y.mirrors[t.ns].recorded \in {"absent", ""}
      BY <1>3, <2>2, <2>8
    <3> QED BY <1>2, <2>8, <3>1 DEF Moved
  <2>9. ASSUME NEW i \in 1..k, x.todo[i] = u, x.mirrors[t.ns].recorded = o.props.recorded
        PROVE  Moved(s, t, y)
    <3>1. CASE w = u
      <4>1. u[2] = t.ns
        BY <2>2
      <4>2. Changes(x, w)
        BY <2>1, <2>9, <3>1, <4>1 DEF Changes
      <4>3. t.ns \in y.news
        BY <1>2, <3>1, <4>1, <4>2
      <4>4. y.mirrors[t.ns].recorded \in {"absent", ""}
        BY <1>3, <2>2, <3>1, <4>1
      <4> QED BY <4>3, <4>4 DEF Moved
    <3>2. CASE w # u
      <4>1. i - 1 \in 1..(k - 1) /\ q[i - 1] = u
        BY <1>5, <2>9, <3>2
      <4>2. i - 1 \in 1..Len(y.todo) /\ y.todo[i - 1] = u
        BY <1>2, <1>5, <4>1
      <4>3. y.mirrors[t.ns].recorded = o.props.recorded
        BY <1>3, <2>2, <2>4, <2>9, <3>2
      <4> QED BY <2>1, <4>2, <4>3 DEF Moved, u
    <3> QED BY <3>1, <3>2
  <2>10. \/ x.mirrors[t.ns].right
         \/ u \in x.failed
         \/ t.ns \in x.news /\ x.mirrors[t.ns].recorded \in {"absent", ""}
         \/ \E i \in 1..k : x.todo[i] = u /\ x.mirrors[t.ns].recorded = o.props.recorded
    BY <2>1, <2>3 DEF Moved, u, k
  <2> QED BY <2>6, <2>7, <2>8, <2>9, <2>10
<1> QED BY <1>6 DEF Cleared, y

LEMMA ClearedFailed ==
  ASSUME NEW s, NEW moving, ToMove(s, moving), NEW x \in OnTheWay(s, moving), x.todo # << >>
  PROVE  Cleared(s, moving, FailForce(x))
<1> DEFINE y == FailForce(x)
           w == Head(x.todo)
           q == Tail(x.todo)
           k == Len(x.todo)
<1>1. x \in ForceStates(s) /\ Cleared(s, moving, x)
  BY DEF OnTheWay
<1>2. y.todo = q /\ y.failed = x.failed \cup {w} /\ y.news = x.news /\ y.mirrors = x.mirrors
  BY <1>1, FailIs
<1>3. k \in Nat /\ k >= 1 /\ w = x.todo[1] /\ Len(q) = k - 1 /\ \A i \in 1..(k - 1) : q[i] = x.todo[i + 1]
  <2>1. x.todo \in Seq(Writes(s))
    BY <1>1 DEF ForceStates
  <2> QED BY <2>1, TailIs
<1> HIDE DEF y, w, q, k
<1>4. ASSUME NEW t \in moving, ~t.auto, ByHand(s, t.ns) PROVE Moved(s, t, y)
  <2> DEFINE u == Unrecord(t)
             old == \E o \in t.mirrors : x.mirrors[t.ns].recorded = o.props.recorded
  <2>1. Moved(s, t, x)
    BY <1>1, <1>4 DEF Cleared
  <2>2. \/ x.mirrors[t.ns].right \/ u \in x.failed
        \/ t.ns \in x.news /\ x.mirrors[t.ns].recorded \in {"absent", ""}
        \/ (\E i \in 1..k : x.todo[i] = u) /\ old
    BY <2>1 DEF Moved, k
  <2> HIDE DEF u, old
  <2>3. ASSUME NEW i \in 1..k, x.todo[i] = u, old PROVE Moved(s, t, y)
    <3>1. CASE i = 1
      BY <1>2, <1>3, <2>3, <3>1 DEF Moved, u
    <3>2. CASE i # 1
      <4>1. i - 1 \in 1..Len(y.todo) /\ y.todo[i - 1] = u
        BY <1>2, <1>3, <2>3, <3>2
      <4>2. \E o \in t.mirrors : y.mirrors[t.ns].recorded = o.props.recorded
        BY <1>2, <2>3 DEF old
      <4> QED BY <4>1, <4>2 DEF Moved, u
    <3> QED BY <3>1, <3>2
  <2>4. CASE \/ x.mirrors[t.ns].right \/ u \in x.failed
             \/ t.ns \in x.news /\ x.mirrors[t.ns].recorded \in {"absent", ""}
    BY <1>2, <2>4 DEF Moved, u
  <2> QED BY <2>2, <2>3, <2>4
<1> QED BY <1>4 DEF Cleared, y

LEMMA ClearedHeard ==
  ASSUME NEW s, NEW moving, ToMove(s, moving), NEW x \in OnTheWay(s, moving), NEW n \in x.news
  PROVE  Cleared(s, moving, Hear(s, x, n))
<1> DEFINE y == Hear(s, x, n)
           v == VersionOf(s, x.source)
           sent(m) == IF n = s.object.ns THEN MirrorIn(s, m).auto ELSE ByHand(s, n) /\ m = n
<1>1. x \in ForceStates(s) /\ Cleared(s, moving, x) /\ MadeOfWorld /\ s \in reasons.found.sources
  BY DEF OnTheWay, ToMove
<1>2. /\ y.todo = x.todo /\ y.failed = x.failed /\ y.news = x.news \ {n}
      /\ Resent(s, x, n, y.mirrors)
  BY <1>1, HearIs
<1>3. y.mirrors = [m \in Held(s) |-> IF sent(m) /\ x.mirrors[m].recorded # v
                                        THEN [right |-> TRUE, recorded |-> v] ELSE x.mirrors[m]]
  BY <1>2 DEF Resent
<1>4. v \notin {"absent", ""}
  <2>1. x.source \in {1, 2, 3}
    BY <1>1 DEF ForceStates
  <2> QED BY <1>1, <2>1, VersionIs
<1> HIDE DEF y, v
<1>5. ASSUME NEW t \in moving, ~t.auto, ByHand(s, t.ns) PROVE Moved(s, t, y)
  <2> DEFINE u == Unrecord(t)
  <2>1. Moved(s, t, x)
    BY <1>1, <1>5 DEF Cleared
  <2>2. t.ns \in Held(s) /\ t.ns # s.object.ns /\ MirrorIn(s, t.ns) = t
    BY MovingIs
  <2>3. sent(t.ns) <=> n = t.ns
    BY <1>5, <2>2
  <2>4. y.mirrors[t.ns] = IF sent(t.ns) /\ x.mirrors[t.ns].recorded # v
                          THEN [right |-> TRUE, recorded |-> v] ELSE x.mirrors[t.ns]
    BY <1>3, <2>2
  <2> HIDE DEF sent
  <2>5. CASE n = t.ns /\ x.mirrors[t.ns].recorded # v
    <3>1. y.mirrors[t.ns] = [right |-> TRUE, recorded |-> v]
      BY <2>3, <2>4, <2>5
    <3>2. y.mirrors[t.ns].right
      BY <3>1
    <3> QED BY <3>2 DEF Moved
  <2>6. CASE n = t.ns /\ x.mirrors[t.ns].recorded = v
    <3>1. y.mirrors[t.ns] = x.mirrors[t.ns]
      BY <2>4, <2>6
    <3>2. x.mirrors[t.ns].recorded \notin {"absent", ""}
      BY <1>4, <2>6
    <3> QED BY <1>2, <2>1, <3>1, <3>2 DEF Moved
  <2>7. CASE n # t.ns
    <3>1. y.mirrors[t.ns] = x.mirrors[t.ns]
      BY <2>3, <2>4, <2>7
    <3>2. t.ns \in x.news => t.ns \in y.news
      BY <1>2, <2>7
    <3> QED BY <1>2, <2>1, <3>1, <3>2 DEF Moved
  <2> QED BY <2>5, <2>6, <2>7
<1> QED BY <1>5 DEF Cleared, y

(* Whatever happens next, the plan is still on its way.                    *)
LEMMA ForceGoesOn ==
  ASSUME NEW s, NEW moving, ToMove(s, moving), NEW x \in OnTheWay(s, moving), NEW y \in Steps(s, x)
  PROVE  y \in OnTheWay(s, moving)
<1>1. x \in ForceStates(s) /\ Staged(s, moving, x) /\ MadeOfWorld /\ s \in reasons.found.sources
  BY DEF OnTheWay, ToMove
<1>2. \/ \E n \in x.news : y = Hear(s, x, n)
      \/ x.todo # << >> /\ y = ApplyForce(x)
      \/ x.todo # << >> /\ x.failed = {} /\ y = FailForce(x)
  BY DEF Steps
<1>3. ASSUME NEW n \in x.news, y = Hear(s, x, n) PROVE y \in OnTheWay(s, moving)
  <2>1. /\ y.todo = x.todo /\ y.failed = x.failed /\ y.source = x.source /\ y.stamped = x.stamped
        /\ y \in ForceStates(s)
    BY <1>1, <1>3, HearIs
  <2>2. Staged(s, moving, y)
    BY <1>1, <2>1 DEF Staged
  <2> QED BY <1>3, <2>1, <2>2, FreshHeard, ClearedHeard DEF OnTheWay
<1>4. ASSUME x.todo # << >>, y = ApplyForce(x) PROVE y \in OnTheWay(s, moving)
  BY <1>4, StagedApplied, FreshApplied, ClearedApplied DEF OnTheWay
<1>5. ASSUME x.todo # << >>, x.failed = {}, y = FailForce(x) PROVE y \in OnTheWay(s, moving)
  <2>1. y \in ForceStates(s)
    BY <1>1, <1>5, FailIs
  <2> QED BY <1>5, <2>1, StagedFailed, FreshFailed, ClearedFailed DEF OnTheWay
<1> QED BY <1>2, <1>3, <1>4, <1>5

(* The targets that move are finitely many, and so are put in a sequence.   *)
LEMMA TargetsAreFinite ==
  ASSUME MadeOfWorld, NEW s \in reasons.found.sources
  PROVE  IsFiniteSet(s.targets)
<1> DEFINE src == s.object
           make(n) == BuildTarget(World, src, n.name, src.props.auto.on /\ MatchScope(src.props.auto, n))
           f == [n \in World.namespaces |-> make(n)]
           made == {f[n] : n \in World.namespaces}
<1>1. f \in Surjection(World.namespaces, made)
  <2> HIDE DEF make
  <2> QED BY DEF Surjection
<1>2. IsFiniteSet(World.namespaces)
  BY MadeIs DEF GoodWorld
<1>3. IsFiniteSet(made)
  <2> HIDE DEF f, made
  <2> QED BY <1>1, <1>2, FS_Surjection
<1>4. ASSUME NEW t \in s.targets PROVE t \in made
  <2>1. PICK n \in World.namespaces : t = make(n)
    BY TargetIs
  <2>2. f[n] = make(n)
    <3> HIDE DEF make
    <3> QED OBVIOUS
  <2> HIDE DEF f, make
  <2> QED BY <2>1, <2>2
<1> HIDE DEF made
<1> QED BY <1>3, <1>4, FS_Subset

LEMMA InSequence ==
  ASSUME NEW S, IsFiniteSet(S)
  PROVE  /\ Cardinality(S) \in Nat
         /\ SetToSeq(S) \in [1..Cardinality(S) -> S]
         /\ \A x \in S : \E i \in 1..Cardinality(S) : SetToSeq(S)[i] = x
<1> DEFINE n == Cardinality(S)
           q == SetToSeq(S)
<1>1. n \in Nat /\ ExistsBijection(1..n, S)
  BY FS_CardinalityType
<1>2. PICK f : f \in Bijection(1..n, S)
  BY <1>1 DEF ExistsBijection
<1>3. f \in [1..n -> S] /\ IsInjective(f)
  BY <1>2 DEF Bijection, Injection, Surjection
<1>4. q \in [1..n -> S] /\ IsInjective(q)
  <2> HIDE DEF n
  <2> QED BY <1>3 DEF SetToSeq, n
<1>5. ASSUME NEW x \in S, \A i \in 1..n : q[i] # x PROVE FALSE
  <2> DEFINE T == S \ {x}
  <2>1. IsFiniteSet(T) /\ Cardinality(T) = n - 1
    BY FS_RemoveElement
  <2>2. IsFiniteSet(1..n) /\ Cardinality(1..n) = n
    <3> HIDE DEF n
    <3> QED BY <1>1, FS_Interval
  <2>3. q \in [1..n -> T]
    <3> HIDE DEF n, q
    <3> QED BY <1>4, <1>5
  <2> HIDE DEF n, q, T
  <2>4. Cardinality(T) < Cardinality(1..n)
    BY <1>1, <2>1, <2>2
  <2>5. PICK i \in 1..n, j \in 1..n : i # j /\ q[i] = q[j]
    BY <2>1, <2>2, <2>3, <2>4, FS_PigeonHole
  <2> QED BY <1>4, <2>5 DEF IsInjective
<1> HIDE DEF n, q
<1> QED BY <1>1, <1>4, <1>5 DEF n, q

(* The plan of a force: the writes of the targets that move, whatever their *)
(* order, and the stamp.                                                   *)
LEMMA PlanIs ==
  ASSUME NEW s, NEW target, NEW moving, ToMove(s, moving),
         moving = {t \in (IF target = {} THEN s.targets ELSE target) : Forceable(t)}
  PROVE  LET plan == ForceWrites(s, target)
             n == Len(plan)
         IN  /\ plan \in Seq(Writes(s)) /\ n \in Nat
             /\ (\E t \in moving : t.auto) =>
                   /\ n >= 2 /\ plan[n] = Unstamp(s) /\ plan[n - 1] = Touch(s)
                   /\ \A i \in 1..(n - 2) : \E t \in moving : plan[i] = Unrecord(t)
             /\ ~(\E t \in moving : t.auto) => \A i \in 1..n : \E t \in moving : plan[i] = Unrecord(t)
             /\ \A t \in moving : \E i \in 1..n : plan[i] = Unrecord(t)
<1> DEFINE order == SetToSeq(moving)
           c == Cardinality(moving)
           clears == [i \in DOMAIN order |-> Unrecord(order[i])]
           auto == \E t \in moving : t.auto
           stamp == IF auto THEN Stamp(s.object) ELSE << >>
           plan == ForceWrites(s, target)
<1>1. IsFiniteSet(moving)
  <2>1. IsFiniteSet(s.targets) /\ moving \in SUBSET s.targets
    BY TargetsAreFinite DEF ToMove
  <2> QED BY <2>1, FS_Subset
<1>2. c \in Nat /\ order \in [1..c -> moving] /\ \A t \in moving : \E i \in 1..c : order[i] = t
  <2> HIDE DEF c, order
  <2> QED BY <1>1, InSequence DEF c, order
<1>3. plan = clears \o stamp
  BY DEF ForceWrites
<1> HIDE DEF order, c
<1>4. clears \in Seq(Writes(s)) /\ Len(clears) = c /\ \A i \in 1..c : clears[i] = Unrecord(order[i])
  <2>1. \A i \in 1..c : Unrecord(order[i]) \in Writes(s)
    BY <1>2, MovingIs
  <2>2. DOMAIN order = 1..c
    BY <1>2
  <2>3. clears \in [1..c -> Writes(s)]
    BY <2>1, <2>2
  <2>4. \A i \in 1..c : clears[i] = Unrecord(order[i])
    BY <2>2
  <2> HIDE DEF clears
  <2> QED BY <1>2, <2>3, <2>4
<1>5. Stamp(s.object) = <<Touch(s), Unstamp(s)>>
  BY DEF Stamp, Touch, Unstamp
<1> HIDE DEF clears, plan, auto
<1>6. CASE auto
  <2>1. stamp = <<Touch(s), Unstamp(s)>>
    BY <1>5, <1>6
  <2>2. stamp \in Seq(Writes(s)) /\ Len(stamp) = 2 /\ stamp[1] = Touch(s) /\ stamp[2] = Unstamp(s)
    <3>1. Touch(s) \in Writes(s) /\ Unstamp(s) \in Writes(s)
      BY StampsAre
    <3> HIDE DEF stamp
    <3> QED BY <2>1, <3>1
  <2> HIDE DEF stamp
  <2>3. /\ plan \in Seq(Writes(s)) /\ Len(plan) = c + 2
        /\ \A i \in 1..c : plan[i] = clears[i]
        /\ plan[c + 1] = Touch(s) /\ plan[c + 2] = Unstamp(s)
    <3>1. \A S : \A a, b \in Seq(S) :
             /\ a \o b \in Seq(S) /\ Len(a \o b) = Len(a) + Len(b)
             /\ \A i \in 1..Len(a) : (a \o b)[i] = a[i]
             /\ \A i \in 1..Len(b) : (a \o b)[Len(a) + i] = b[i]
      BY ConcatProperties
    <3>2. /\ plan \in Seq(Writes(s)) /\ Len(plan) = Len(clears) + Len(stamp)
          /\ \A i \in 1..Len(clears) : plan[i] = clears[i]
          /\ \A i \in 1..Len(stamp) : plan[Len(clears) + i] = stamp[i]
      <4> DEFINE W == Writes(s)
      <4>1. clears \in Seq(W) /\ stamp \in Seq(W)
        BY <1>4, <2>2
      <4> HIDE DEF W
      <4>2. plan \in Seq(W) /\ Len(plan) = Len(clears) + Len(stamp)
        BY <1>3, <3>1, <4>1
      <4>3. \A i \in 1..Len(clears) : plan[i] = clears[i]
        BY <1>3, <3>1, <4>1
      <4>4. \A i \in 1..Len(stamp) : plan[Len(clears) + i] = stamp[i]
        BY <1>3, <3>1, <4>1
      <4> QED BY <4>2, <4>3, <4>4 DEF W
    <3>3. 1 \in 1..Len(stamp) /\ 2 \in 1..Len(stamp)
      BY <2>2
    <3> QED BY <1>2, <1>4, <2>2, <3>2, <3>3
  <2>4. \A i \in 1..c : \E t \in moving : plan[i] = Unrecord(t)
    BY <1>2, <1>4, <2>3
  <2>5. \A t \in moving : \E i \in 1..c : plan[i] = Unrecord(t)
    BY <1>2, <1>4, <2>3
  <2>6. /\ Len(plan) - 2 = c /\ Len(plan) - 1 = c + 1 /\ Len(plan) >= 2 /\ Len(plan) \in Nat
        /\ \A i \in 1..c : i \in 1..Len(plan)
    BY <1>2, <2>3
  <2>7. \A t \in moving : \E i \in 1..Len(plan) : plan[i] = Unrecord(t)
    BY <2>5, <2>6
  <2> QED BY <1>6, <2>3, <2>4, <2>6, <2>7 DEF plan, auto
<1>7. CASE ~auto
  <2>1. stamp = << >>
    BY <1>7
  <2> HIDE DEF stamp
  <2>2. plan = clears
    BY <1>3, <1>4, <2>1
  <2>3. \A i \in 1..c : \E t \in moving : plan[i] = Unrecord(t)
    BY <1>2, <1>4, <2>2
  <2>4. \A t \in moving : \E i \in 1..c : plan[i] = Unrecord(t)
    BY <1>2, <1>4, <2>2
  <2> QED BY <1>2, <1>4, <1>7, <2>2, <2>3, <2>4 DEF plan, auto
<1> QED BY <1>6, <1>7

(* A plan that is not begun is on its way.                                 *)
LEMMA ForceBegins ==
  ASSUME NEW s, NEW target, NEW moving, ToMove(s, moving),
         moving = {t \in (IF target = {} THEN s.targets ELSE target) : Forceable(t)}
  PROVE  Before(s, ForceWrites(s, target)) \in OnTheWay(s, moving)
<1> DEFINE plan == ForceWrites(s, target)
           n == Len(plan)
           those(ns) == LET o == CHOOSE x \in MirrorIn(s, ns).mirrors : TRUE
                        IN  [right |-> o.content = s.object.content, recorded |-> o.props.recorded]
           mirrors == [ns \in Held(s) |-> those(ns)]
           x == Before(s, plan)
           auto == \E t \in moving : t.auto
<1>1. /\ plan \in Seq(Writes(s)) /\ n \in Nat
      /\ auto => /\ n >= 2 /\ plan[n] = Unstamp(s) /\ plan[n - 1] = Touch(s)
                 /\ \A i \in 1..(n - 2) : \E t \in moving : plan[i] = Unrecord(t)
      /\ ~auto => \A i \in 1..n : \E t \in moving : plan[i] = Unrecord(t)
  BY PlanIs
<1>2. \A t \in moving : \E i \in 1..n : plan[i] = Unrecord(t)
  BY PlanIs
<1>3. MadeOfWorld /\ s \in reasons.found.sources
  BY DEF ToMove
<1>4. ASSUME NEW ns \in Held(s)
      PROVE  \E o \in World.objects : /\ o \in MirrorIn(s, ns).mirrors
                                      /\ those(ns) = [right |-> o.content = s.object.content,
                                                      recorded |-> o.props.recorded]
  <2>1. PICK t \in s.targets : t.ns = ns /\ t.mirrors # {}
    BY DEF Held
  <2>2. MirrorIn(s, ns) = t
    BY <1>3, <2>1, HeldIs, SameTarget
  <2>3. PICK o : o = CHOOSE p \in MirrorIn(s, ns).mirrors : TRUE
    OBVIOUS
  <2>4. o \in MirrorIn(s, ns).mirrors
    BY <2>1, <2>2, <2>3
  <2>5. o \in World.objects
    BY <1>3, <2>2, <2>4, MirrorIsThere
  <2>6. those(ns) = [right |-> o.content = s.object.content, recorded |-> o.props.recorded]
    BY <2>3
  <2> QED BY <2>4, <2>5, <2>6
<1>5. ASSUME NEW ns \in Held(s)
      PROVE  /\ those(ns) \in [right : BOOLEAN, recorded : Marks(s)]
             /\ \E o \in MirrorIn(s, ns).mirrors : those(ns).recorded = o.props.recorded
             /\ those(ns).recorded \notin {"v3", "v4"}
  <2>1. PICK o \in World.objects : /\ o \in MirrorIn(s, ns).mirrors
                                   /\ those(ns) = [right |-> o.content = s.object.content,
                                                   recorded |-> o.props.recorded]
    BY <1>4
  <2>2. o.props.recorded \in Marks(s)
    BY DEF Marks
  <2>3. o.props.recorded \notin {"v3", "v4"}
    BY <1>3, MadeIs DEF GoodWorld
  <2> DEFINE same == o.content = s.object.content
  <2>4. same \in BOOLEAN
    OBVIOUS
  <2>5. those(ns) = [right |-> same, recorded |-> o.props.recorded]
    BY <2>1
  <2> HIDE DEF same, those
  <2>6. those(ns) \in [right : BOOLEAN, recorded : Marks(s)]
    BY <2>2, <2>4, <2>5
  <2>7. those(ns).recorded = o.props.recorded
    BY <2>5
  <2> QED BY <2>1, <2>3, <2>6, <2>7
<1>6. x = [todo |-> plan, source |-> 1, news |-> {}, failed |-> {}, stamped |-> FALSE, mirrors |-> mirrors]
  <2> HIDE DEF plan
  <2> QED BY DEF Before, Held
<1>7. mirrors \in [Held(s) -> [right : BOOLEAN, recorded : Marks(s)]] /\ \A ns \in Held(s) : mirrors[ns] = those(ns)
  <2> HIDE DEF those
  <2> QED BY <1>5
<1> HIDE DEF x, mirrors, those, plan, n
<1>8. /\ x.todo = plan /\ x.source = 1 /\ x.news = {} /\ x.failed = {} /\ x.stamped = FALSE /\ x.mirrors = mirrors
  BY <1>6
<1>9. x \in ForceStates(s)
  BY <1>1, <1>6, <1>7 DEF ForceStates
<1>10. Staged(s, moving, x)
  <2>1. CASE auto
    <3>1. x.todo = plan /\ x.source = 1 /\ ~x.stamped /\ n >= 2 /\ n # 1 /\ n # 0
      BY <1>1, <1>8, <2>1
    <3> QED BY <1>1, <2>1, <3>1 DEF Staged, n
  <2>2. CASE ~auto
    <3>1. x.todo = plan /\ x.source = 1 /\ ~x.stamped
      BY <1>8
    <3> QED BY <1>1, <2>2, <3>1 DEF Staged, n
  <2> QED BY <2>1, <2>2
<1>11. Fresh(s, x)
  <2>1. \A m \in Held(s) : x.mirrors[m].recorded \notin {"v3", "v4"}
    BY <1>5, <1>7, <1>8
  <2> QED BY <1>8, <2>1 DEF Fresh
<1>12. ASSUME NEW t \in moving PROVE Moved(s, t, x)
  <2>1. t.ns \in Held(s) /\ MirrorIn(s, t.ns) = t
    BY MovingIs
  <2>2. \E o \in t.mirrors : x.mirrors[t.ns].recorded = o.props.recorded
    BY <1>5, <1>7, <1>8, <2>1
  <2>3. \E i \in 1..Len(x.todo) : x.todo[i] = Unrecord(t)
    BY <1>2, <1>8 DEF n
  <2> QED BY <2>2, <2>3 DEF Moved
<1> QED BY <1>9, <1>10, <1>11, <1>12 DEF OnTheWay, Cleared, x, plan

(* And so is all that comes of it. *)
LEMMA ForceStays ==
  ASSUME NEW s, NEW target, NEW moving, ToMove(s, moving),
         moving = {t \in (IF target = {} THEN s.targets ELSE target) : Forceable(t)},
         NEW out \in ForceOutcomes(s, ForceWrites(s, target))
  PROVE  out \in OnTheWay(s, moving) /\ out.todo = << >> /\ out.news = {}
<1> DEFINE plan == ForceWrites(s, target)
           k == 2 * Len(plan)
           T == SUBSET OnTheWay(s, moving)
           base == {Before(s, plan)}
           One(x) == x \cup UNION {Steps(s, state) : state \in x}
           step(f) == [i \in 0..k |-> IF i = 0 THEN base ELSE One(f[i - 1])]
           F == CHOOSE f : f = step(f)
           op == [i \in 1..k |-> [x \in T |-> One(x)]]
<1>1. ForceOutcomes(s, plan) = {state \in F[k] : state.todo = << >> /\ state.news = {}}
  BY DEF ForceOutcomes
<1> HIDE DEF F
<1>2. k \in Nat
  <2>1. Len(plan) \in Nat
    BY PlanIs
  <2> HIDE DEF plan
  <2> QED BY <2>1
<1>3. base \in T
  BY ForceBegins
<1>4. ASSUME NEW x \in T PROVE One(x) \in T
  <2>1. \A state \in x : Steps(s, state) \subseteq OnTheWay(s, moving)
    BY ForceGoesOn
  <2>2. UNION {Steps(s, state) : state \in x} \subseteq OnTheWay(s, moving)
    BY <2>1
  <2> QED BY <2>2
<1>5. op \in [1..k -> [T -> T]] /\ \A i \in 1..k, x \in T : op[i][x] = One(x)
  <2> HIDE DEF T, One, k
  <2> QED BY <1>4
<1>6. \A f : step(f) = [i \in 0..k |-> IF i = 0 THEN base ELSE One(f[i - 1])]
  OBVIOUS
<1>7. PICK f : Goes(f, k, T, base, op)
  <2> HIDE DEF T, One, k, base, op
  <2> QED BY <1>2, <1>3, <1>5, StepsExist
<1>8. /\ f \in [0..k -> T] /\ f[0] = base
      /\ \A i \in 1..k : f[i] = One(f[i - 1])
  <2>1. \A i \in 1..k : f[i - 1] \in T
    <3> HIDE DEF T, One, base, op, k
    <3>1. \A i \in 1..k : i - 1 \in 0..k
      BY <1>2
    <3> QED BY <1>7, <3>1 DEF Goes
  <2> HIDE DEF T, One, k, base, op
  <2> QED BY <1>5, <1>7, <2>1 DEF Goes
<1>9. f = step(f)
  <2> HIDE DEF T, One, base, op, step, k
  <2>1. f = [i \in 0..k |-> f[i]]
    BY <1>8
  <2>2. \A i \in 0..k : f[i] = IF i = 0 THEN base ELSE One(f[i - 1])
    BY <1>2, <1>8
  <2> QED BY <1>6, <2>1, <2>2
<1>10. F = step(F)
  <2> HIDE DEF step
  <2> QED BY <1>9 DEF F
<1>11. F[0] = base /\ \A i \in 1..k : F[i] = One(F[i - 1])
  <2> HIDE DEF One, base, step, k
  <2>1. \A i \in 0..k : F[i] = IF i = 0 THEN base ELSE One(F[i - 1])
    BY <1>6, <1>10
  <2>2. 0 \in 0..k /\ \A i \in 1..k : i \in 0..k /\ i # 0
    BY <1>2
  <2> QED BY <2>1, <2>2
<1> DEFINE H == {i \in 0..k : F[i] \in T}
<1>12. 0 \in H
  <2> HIDE DEF T, base, k
  <2> QED BY <1>2, <1>3, <1>11
<1>13. \A i \in 1..k : i - 1 \in H => i \in H
  <2> HIDE DEF T, One, k
  <2> QED BY <1>2, <1>4, <1>11
<1>14. F[k] \in T
  <2> HIDE DEF H, T, k
  <2>1. \A i \in 0..k : i \in H
    BY <1>2, <1>12, <1>13, AllPlaces
  <2>2. k \in H
    BY <1>2, <2>1
  <2> QED BY <2>2 DEF H
<1>15. out \in F[k] /\ out.todo = << >> /\ out.news = {}
  <2> HIDE DEF plan, k
  <2> QED BY <1>1 DEF plan
<1> HIDE DEF k
<1> QED BY <1>14, <1>15

(* A forced mirror is resent, or its write failed, and the stamp is off.    *)
LEMMA ForcedResent == ASSUME MadeOfWorld PROVE ForcedIsResent
<1> SUFFICES ASSUME NEW f \in reasons.forced, NEW out \in ForceOutcomes(f.source, f.plan)
             PROVE  /\ \A t \in (IF f.target = {} THEN f.source.targets ELSE f.target) :
                          (Forceable(t) /\ (t.auto \/ ByHand(f.source, t.ns))
                             /\ (t.auto \/ \A w \in out.failed : w[2] # t.ns)) => out.mirrors[t.ns].right
                    /\ out.stamped => <<"unstamp", f.source.object.ns>> \in out.failed
  BY DEF ForcedIsResent
<1>1. PICK s \in reasons.found.sources : \E target \in {{}} \cup {{t} : t \in s.targets} :
        f = [source |-> s, target |-> target, plan |-> ForceWrites(s, target)]
  <2> DEFINE P(s) == {[source |-> s, target |-> target, plan |-> ForceWrites(s, target)] :
                        target \in {{}} \cup {{t} : t \in s.targets}}
  <2>1. reasons.forced = UNION {P(s) : s \in reasons.found.sources}
    BY MadeIs
  <2>2. PICK s \in reasons.found.sources : f \in P(s)
    <3> HIDE DEF P
    <3> QED BY <2>1
  <2> QED BY <2>2
<1>2. PICK target \in {{}} \cup {{t} : t \in s.targets} :
        f = [source |-> s, target |-> target, plan |-> ForceWrites(s, target)]
  BY <1>1
<1>3. f.source = s /\ f.target = target /\ f.plan = ForceWrites(s, target)
  BY <1>2
<1> DEFINE chosen == IF target = {} THEN s.targets ELSE target
           moving == {t \in chosen : Forceable(t)}
<1>4. chosen \subseteq s.targets
  BY <1>2
<1>5. ToMove(s, moving)
  BY <1>4 DEF ToMove
<1>6. out \in OnTheWay(s, moving) /\ out.todo = << >> /\ out.news = {}
  BY <1>3, <1>5, ForceStays
<1>7. /\ out \in ForceStates(s) /\ Staged(s, moving, out) /\ Fresh(s, out) /\ Cleared(s, moving, out)
      /\ Len(out.todo) = 0
  BY <1>6 DEF OnTheWay
<1>8. out.stamped => Unstamp(s) \in out.failed
  <2> HIDE DEF moving
  <2> QED BY <1>7 DEF Staged
<1>9. ASSUME NEW t \in chosen, Forceable(t), t.auto PROVE out.mirrors[t.ns].right
  <2>1. t \in moving
    BY <1>9
  <2> HIDE DEF moving, chosen
  <2>2. out.source # 1
    BY <1>7, <1>9, <2>1 DEF Staged
  <2>3. t.ns \in Held(s) /\ MirrorIn(s, t.ns) = t
    BY <1>5, <2>1, MovingIs
  <2> QED BY <1>6, <1>7, <1>9, <2>2, <2>3 DEF Fresh
<1>10. ASSUME NEW t \in chosen, Forceable(t), ~t.auto, ByHand(s, t.ns), \A w \in out.failed : w[2] # t.ns
       PROVE  out.mirrors[t.ns].right
  <2>1. t \in moving
    BY <1>10
  <2> HIDE DEF moving, chosen
  <2>2. Moved(s, t, out)
    BY <1>7, <1>10, <2>1 DEF Cleared
  <2>3. Unrecord(t)[2] = t.ns
    <3>1. Unrecord(t) = <<Unrecord(t)[1], t.ns>>
      BY <1>5, <2>1, MovingIs
    <3> QED BY <3>1
  <2> QED BY <1>6, <1>7, <1>10, <2>2, <2>3 DEF Moved
<1> HIDE DEF moving, chosen
<1>11. /\ \A t \in chosen : (Forceable(t) /\ (t.auto \/ ByHand(s, t.ns))
                               /\ (t.auto \/ \A w \in out.failed : w[2] # t.ns)) => out.mirrors[t.ns].right
       /\ out.stamped => <<"unstamp", s.object.ns>> \in out.failed
  BY <1>8, <1>9, <1>10 DEF Unstamp
<1> QED BY <1>3, <1>11 DEF chosen

(* What is made of the mirrors of any cluster: each copy has its row, an    *)
(* orphan is out of the scope of its source for good, those left without    *)
(* are told of, what is wrong is in sight, and what is forced is resent     *)
(* (src/reflector.rs).                                                     *)
THEOREM MirrorsToldOfAll == MirrorSpec => []MirrorsAreTold
<1> DEFINE Inv == /\ GoodMirrors(cluster) /\ assessed \in BOOLEAN
                  /\ assessed => reasons = MirrorsMade(World)
           Judging == ~assessed /\ assessed' = TRUE /\ CollectMirrors /\ UNCHANGED cluster
           seen == <<cluster, reasons, assessed>>
<1>1. (GoodMirrors(cluster) /\ assessed = FALSE) => Inv
  OBVIOUS
<1>2. Inv /\ [Judging]_seen => Inv'
  <2>1. ASSUME Inv, Judging PROVE Inv'
    <3>1. cluster' = cluster /\ reasons' = MirrorsMade(cluster.world) /\ assessed' = TRUE
      BY <2>1 DEF CollectMirrors
    <3> QED BY <2>1, <3>1 DEF World
  <2>2. ASSUME Inv, UNCHANGED seen PROVE Inv'
    BY <2>2 DEF World
  <2> QED BY <2>1, <2>2
<1>3. Inv => MirrorsAreTold
  <2>1. CASE assessed
    <3>1. ASSUME Inv PROVE MadeOfWorld
      BY <2>1, <3>1 DEF MadeOfWorld
    <3> QED BY <3>1, MirrorsAccounted, OrphansOutside, StarvedTold, WrongInSight, ForcedResent DEF MirrorsAreTold
  <2>2. CASE ~assessed
    BY <2>2 DEF MirrorsAreTold, EveryMirrorAccounted, OrphansAreOutside, StarvedAreTold, WrongIsInSight,
                ForcedIsResent, Judged
  <2> QED BY <2>1, <2>2
<1> HIDE DEF Inv
<1> QED BY <1>1, <1>2, <1>3, PTL DEF MirrorSpec
=============================================================================
