------------------------- MODULE Remedies_proofs -------------------------
(***************************************************************************)
(* What holds of the two places from which kdt repairs what others broke.  *)
(*                                                                         *)
(* Of the repair panel, for any number of objects, situations, tasks and   *)
(* looks, however soon it is opened again, and on whatever object; of the  *)
(* hooks view, for any configurations, webhooks, services, readings, flips *)
(* and upsets; and of the verdicts on webhooks, for any list of            *)
(* configurations.                                                         *)
(***************************************************************************)
EXTENDS RepairPanel, HookView, MCClusterRules, Integers, FiniteSetTheorems, SequenceTheorems, TLAPS

(* A task that is not idle is about an object, and has what it needs.      *)
LiveTasks ==
  /\ \A t \in Probes : /\ probe[t].pc # "idle" => probe[t].key \in Objects
                       /\ probe[t].pc = "idle" => probe[t] = IdleProbe
                       /\ probe[t].pc = "publish" => probe[t].got \in Findings
  /\ \A t \in Applies : /\ apply[t].pc # "idle" => /\ apply[t].key \in Objects
                                                   /\ apply[t].opening <= view.opening
                        /\ apply[t].pc = "run" => apply[t].move \in Moves
                        /\ apply[t].pc = "idle" => apply[t] = IdleApply

(* The panel on the screen is the one the state is kept for.               *)
PanelHasState == /\ Open => view.key = st.key
                 /\ view.going => Open

(* An opening starts one move, and remembers that it did.                  *)
OneMovePerOpening ==
  /\ \A t, u \in Applies :
       t # u /\ apply[t].pc # "idle" /\ apply[u].pc # "idle" => apply[t].opening # apply[u].opening
  /\ \A t \in Applies :
       apply[t].pc # "idle" /\ apply[t].opening = view.opening => view.begun # None

(* On an object that was alone, the tasks are the panel's own: one probe,  *)
(* and moves of this opening.                                              *)
OnlyItsOwn ==
  Open /\ view.alone =>
    /\ \A t, u \in Probes :
         t # u /\ probe[t].pc # "idle" /\ probe[u].pc # "idle" =>
           ~(probe[t].key = view.key /\ probe[u].key = view.key)
    /\ \A t \in Applies :
         apply[t].pc # "idle" /\ apply[t].key = view.key => apply[t].opening = view.opening

(* There, nothing is offered before the probe ends, and the cursor has not *)
(* moved.                                                                  *)
NothingYet ==
  /\ Open /\ view.alone /\ st.loading => st.blockers = <<>> /\ view.cursor = 0
  /\ ~Open => view.cursor = 0

(* There, what is armed, or has its name typed, is what the cursor is on.  *)
GestureIsForTheMove ==
  Open /\ view.alone =>
    /\ view.armed => ~st.loading /\ Highlighted # None /\ ~IsDanger(Highlighted)
    /\ view.typed # None => ~st.loading /\ Highlighted # None /\ IsDanger(Highlighted)
    /\ view.begun = None /\ view.armed => view.agreed = Act
    /\ view.begun = None /\ view.typed # None /\ view.typed = ConfirmTarget(Highlighted) =>
          view.agreed = Act

(* Between the last key and its move the agreement stays; and, on an       *)
(* object that was alone, all it rests on.                                 *)
GoingIsAgreed ==
  view.going =>
    /\ view.begun = None /\ view.agreed = Act /\ view.pressed \in Moves
    /\ IsDanger(view.pressed) => view.typed = ConfirmTarget(view.pressed)
    /\ view.alone => /\ Highlighted = view.pressed
                     /\ ~st.loading /\ ~st.applying /\ st.done = None

PanelInv ==
  /\ TypeOK /\ LiveTasks
  /\ PanelHasState /\ OneMovePerOpening /\ OnlyItsOwn /\ NothingYet
  /\ GestureIsForTheMove /\ GoingIsAgreed
  /\ OwnFindings /\ OwnOutcome /\ DangerIsTyped

-----------------------------------------------------------------------------
(* Recursion over a sequence *)

LEMMA LeastNatural ==
  ASSUME NEW T \in SUBSET Nat, T # {}
  PROVE  \E n \in T : \A m \in T : n <= m
<1> DEFINE I == {0..n : n \in T}
<1>1. I \subseteq FiniteSubsetsOf(Nat) /\ I # {}
  <2>1. \A n \in T : IsFiniteSet(0..n) /\ 0..n \subseteq Nat
    BY FS_Interval
  <2>2. I # {}
    OBVIOUS
  <2>3. \A A \in I : A \subseteq Nat /\ IsFiniteSet(A)
    BY <2>1
  <2> HIDE DEF I
  <2> QED BY <2>2, <2>3 DEF FiniteSubsetsOf
<1>2. IsWellFoundedOn(StrictSubsetOrdering(Nat), FiniteSubsetsOf(Nat))
  BY FS_StrictSubsetOrderingWellFounded
<1>3. PICK A \in I : \A B \in I : ~(<<B, A>> \in StrictSubsetOrdering(Nat))
  <2> HIDE DEF I
  <2> QED BY <1>1, <1>2, WFMin
<1>4. PICK n \in T : A = 0..n
  BY <1>3
<1>5. ASSUME NEW m \in T, m < n PROVE FALSE
  <2>1. 0..m \in I /\ 0..m \subseteq A /\ 0..m # A
    BY <1>4, <1>5
  <2>2. <<0..m, A>> \in StrictSubsetOrdering(Nat)
    BY <1>4, <2>1 DEF StrictSubsetOrdering
  <2> QED BY <1>3, <2>1, <2>2
<1> QED BY <1>4, <1>5

(* A set of places that has 0, and with a place the next, has them all.    *)
LEMMA AllPlaces ==
  ASSUME NEW n \in Nat, NEW G, 0 \in G, \A i \in 1..n : i - 1 \in G => i \in G
  PROVE  \A i \in 0..n : i \in G
<1> DEFINE T == {i \in 0..n : i \notin G}
<1> SUFFICES ASSUME T # {} PROVE FALSE
  OBVIOUS
<1>1. T \in SUBSET Nat
  OBVIOUS
<1>2. PICK k \in T : \A m \in T : k <= m
  <2> HIDE DEF T
  <2> QED BY <1>1, LeastNatural
<1>3. k \in 1..n /\ k - 1 \in 0..n /\ k - 1 \notin T
  BY <1>2
<1> QED BY <1>2, <1>3

(* f goes from base through n steps of op.                                 *)
Goes(f, n, S, base, op) ==
  f \in [0..n -> S] /\ f[0] = base /\ \A i \in 1..n : f[i] = op[i][f[i - 1]]

LEMMA StepsExist ==
  ASSUME NEW n \in Nat, NEW S, NEW base \in S, NEW op \in [1..n -> [S -> S]]
  PROVE  \E f : Goes(f, n, S, base, op)
<1> DEFINE Upto(k, f) == /\ f \in [0..k -> S] /\ f[0] = base
                         /\ \A i \in 1..k : f[i] = op[i][f[i - 1]]
           G == {k \in 0..n : \E f : Upto(k, f)}
<1>1. 0 \in G
  <2>1. Upto(0, [i \in 0..0 |-> base])
    OBVIOUS
  <2> HIDE DEF Upto
  <2> QED BY <2>1
<1>2. ASSUME NEW k \in 1..n, k - 1 \in G PROVE k \in G
  <2>1. PICK f : Upto(k - 1, f)
    BY <1>2
  <2> DEFINE g == [i \in 0..k |-> IF i = k THEN op[k][f[k - 1]] ELSE f[i]]
  <2>2. f[k - 1] \in S /\ op[k][f[k - 1]] \in S
    BY <2>1
  <2>3. g \in [0..k -> S] /\ g[0] = base
    BY <2>1, <2>2
  <2>4. ASSUME NEW i \in 1..k PROVE g[i] = op[i][g[i - 1]]
    <3>1. CASE i = k
      BY <3>1
    <3>2. CASE i # k
      <4>1. i \in 1..(k - 1) /\ g[i] = f[i] /\ g[i - 1] = f[i - 1]
        BY <3>2
      <4> HIDE DEF g
      <4> QED BY <2>1, <4>1
    <3> QED BY <3>1, <3>2
  <2> HIDE DEF g
  <2>5. Upto(k, g)
    BY <2>3, <2>4
  <2> HIDE DEF Upto
  <2> QED BY <2>5
<1>3. PICK f : Upto(n, f)
  <2>1. \A i \in 1..n : i - 1 \in G => i \in G
    BY <1>2
  <2>2. n \in G
    <3> HIDE DEF G
    <3>1. \A i \in 0..n : i \in G
      BY <1>1, <2>1, AllPlaces
    <3> QED BY <3>1
  <2> QED BY <2>2
<1> QED BY <1>3 DEF Goes

(* What is flattened is put together from left to right: f[i] is the first  *)
(* i parts.                                                                *)
PutTogether(f, S, seqs) ==
  /\ FlattenSeq(seqs) = f[Len(seqs)]
  /\ \A i \in 1..Len(seqs) : /\ f[i] \in Seq(S)
                             /\ f[i] = IF i = 1 THEN seqs[i] ELSE f[i - 1] \o seqs[i]

LEMMA FlattenSteps ==
  ASSUME NEW S, NEW seqs \in Seq(Seq(S)), Len(seqs) # 0
  PROVE  \E f : PutTogether(f, S, seqs)
<1> DEFINE step(f) == [i \in 1..Len(seqs) |-> IF i = 1 THEN seqs[i] ELSE f[i - 1] \o seqs[i]]
           F == CHOOSE f : f = step(f)
<1>1. FlattenSeq(seqs) = F[Len(seqs)]
  BY DEF FlattenSeq
<1> HIDE DEF F
<1> DEFINE n == Len(seqs)
           T == Seq(S)
           One(x, i) == IF i = 1 THEN seqs[i] ELSE x \o seqs[i]
           op == [i \in 1..n |-> [x \in T |-> One(x, i)]]
<1>2. n \in Nat /\ 0 < n /\ <<>> \in T
  OBVIOUS
<1>3. \A i \in 1..n : seqs[i] \in T
  OBVIOUS
<1>4. \A i \in 1..n, x \in T : One(x, i) \in T
  BY <1>3, ConcatProperties
<1>5. \A f : step(f) = [i \in 1..n |-> One(f[i - 1], i)]
  OBVIOUS
<1>6. \A x, y : One(x, 1) = One(y, 1)
  OBVIOUS
<1> HIDE DEF n, T, One, step
<1>7. op \in [1..n -> [T -> T]] /\ \A i \in 1..n, x \in T : op[i][x] = One(x, i)
  BY <1>4
<1> HIDE DEF op
<1>8. PICK f : Goes(f, n, T, <<>>, op)
  BY <1>2, <1>7, StepsExist
<1> DEFINE g == [i \in 1..n |-> f[i]]
<1>9. g = step(g)
  <2>1. ASSUME NEW i \in 1..n PROVE f[i] = One(f[i - 1], i)
    <3>1. i - 1 \in 0..n
      BY <1>2
    <3> QED BY <1>7, <1>8, <3>1 DEF Goes
  <2>2. ASSUME NEW i \in 1..n PROVE g[i] = One(g[i - 1], i)
    <3>1. CASE i = 1
      BY <1>6, <2>1, <3>1
    <3>2. CASE i # 1
      <4>1. i - 1 \in 1..n
        BY <1>2, <3>2
      <4> QED BY <2>1, <4>1
    <3> QED BY <3>1, <3>2
  <2>3. g = [i \in 1..n |-> g[i]]
    OBVIOUS
  <2> HIDE DEF g
  <2> QED BY <1>5, <2>2, <2>3
<1>10. F = step(F)
  <2> HIDE DEF g
  <2> QED BY <1>9 DEF F
<1>11. \A i \in 1..n : F[i] = One(F[i - 1], i)
  BY <1>5, <1>10
<1> DEFINE G == {0} \cup {i \in 1..n : F[i] \in T}
<1>12. ASSUME NEW i \in 1..n, i - 1 \in G PROVE i \in G
  <2>1. CASE i = 1
    <3>1. One(<<>>, 1) \in T /\ F[1] = One(F[0], 1) /\ One(F[0], 1) = One(<<>>, 1)
      BY <1>2, <1>4, <1>6, <1>11, <2>1
    <3> QED BY <2>1, <3>1
  <2>2. CASE i # 1
    <3>1. F[i - 1] \in T
      BY <1>12, <2>2
    <3> QED BY <1>4, <1>11, <3>1
  <2> QED BY <2>1, <2>2
<1>13. \A i \in 0..n : i \in G
  <2>1. 0 \in G
    OBVIOUS
  <2> HIDE DEF G
  <2> QED BY <1>2, <1>12, <2>1, AllPlaces
<1>14. \A i \in 1..n : F[i] \in T
  BY <1>2, <1>13
<1>15. \A i \in 1..n : F[i] = IF i = 1 THEN seqs[i] ELSE F[i - 1] \o seqs[i]
  BY <1>11 DEF One
<1>16. \A i \in 1..n : F[i] \in Seq(S)
  BY <1>14 DEF T
<1>17. PutTogether(F, S, seqs)
  BY <1>1, <1>15, <1>16 DEF n, PutTogether
<1> QED BY <1>17

(* What a sequence holds.                                                  *)
Elems(q) == {q[k] : k \in 1..Len(q)}

LEMMA ConcatHolds ==
  ASSUME NEW S, NEW q \in Seq(S), NEW r \in Seq(S)
  PROVE  q \o r \in Seq(S) /\ Elems(q \o r) = Elems(q) \cup Elems(r)
<1>1. PICK n \in Nat, m \in Nat : n = Len(q) /\ m = Len(r)
  OBVIOUS
<1>2. PICK x \in Seq(S) : /\ x = q \o r /\ Len(x) = n + m
                          /\ \A i \in 1..(n + m) : x[i] = IF i <= n THEN q[i] ELSE r[i - n]
  <2>1. /\ q \o r \in Seq(S) /\ Len(q \o r) = Len(q) + Len(r)
        /\ \A i \in 1..(Len(q) + Len(r)) :
             (q \o r)[i] = IF i <= Len(q) THEN q[i] ELSE r[i - Len(q)]
    BY ConcatProperties
  <2> QED BY <1>1, <2>1
<1>3. Elems(x) \subseteq Elems(q) \cup Elems(r)
  <2> SUFFICES ASSUME NEW i \in 1..(n + m) PROVE x[i] \in Elems(q) \cup Elems(r)
    BY <1>2 DEF Elems
  <2>1. CASE i <= n
    <3>1. i \in 1..n /\ x[i] = q[i]
      BY <1>2, <2>1
    <3> QED BY <1>1, <3>1 DEF Elems
  <2>2. CASE ~(i <= n)
    <3>1. i - n \in 1..m
      BY <2>2
    <3> QED BY <1>1, <1>2, <2>2, <3>1 DEF Elems
  <2> QED BY <2>1, <2>2
<1>4. Elems(q) \subseteq Elems(x)
  <2> SUFFICES ASSUME NEW i \in 1..n PROVE q[i] \in Elems(x)
    BY <1>1 DEF Elems
  <2>1. i \in 1..(n + m) /\ i <= n
    OBVIOUS
  <2> QED BY <1>2, <2>1 DEF Elems
<1>5. Elems(r) \subseteq Elems(x)
  <2> SUFFICES ASSUME NEW i \in 1..m PROVE r[i] \in Elems(x)
    BY <1>1 DEF Elems
  <2>1. i + n \in 1..(n + m) /\ ~(i + n <= n) /\ (i + n) - n = i
    OBVIOUS
  <2>2. x[i + n] = r[i]
    BY <1>2, <2>1
  <2> QED BY <1>2, <2>1, <2>2 DEF Elems
<1> QED BY <1>2, <1>3, <1>4, <1>5

(* A sequence of sequences of S, one after the other.                      *)
LEMMA FlattenType ==
  ASSUME NEW S, NEW seqs \in Seq(Seq(S)) PROVE FlattenSeq(seqs) \in Seq(S)
<1>1. CASE Len(seqs) = 0
  BY <1>1 DEF FlattenSeq
<1>2. CASE Len(seqs) # 0
  <2>1. PICK f : PutTogether(f, S, seqs)
    BY <1>2, FlattenSteps
  <2>2. Len(seqs) \in 1..Len(seqs)
    BY <1>2
  <2> QED BY <2>1, <2>2 DEF PutTogether
<1> QED BY <1>1, <1>2

(* A flattened list holds what its parts hold.                             *)
LEMMA FlattenHolds ==
  ASSUME NEW S, NEW seqs \in Seq(Seq(S))
  PROVE  Elems(FlattenSeq(seqs)) = UNION {Elems(seqs[i]) : i \in 1..Len(seqs)}
<1> DEFINE All(m) == UNION {Elems(seqs[i]) : i \in 1..m}
<1>1. CASE Len(seqs) = 0
  BY <1>1 DEF FlattenSeq, Elems
<1>2. CASE Len(seqs) # 0
  <2>1. PICK n, F : /\ n \in Nat /\ n = Len(seqs) /\ 0 < n /\ FlattenSeq(seqs) = F[n]
                   /\ \A i \in 1..n : /\ F[i] \in Seq(S)
                                      /\ F[i] = IF i = 1 THEN seqs[i] ELSE F[i - 1] \o seqs[i]
    <3>1. PICK f : PutTogether(f, S, seqs)
      BY <1>2, FlattenSteps
    <3>2. PICK n : n = Len(seqs)
      OBVIOUS
    <3>3. n \in Nat /\ 0 < n
      BY <1>2, <3>2
    <3> QED BY <3>1, <3>2, <3>3 DEF PutTogether
  <2>2. \A i \in 1..n : seqs[i] \in Seq(S)
    BY <2>1
  <2> DEFINE G == {0} \cup {i \in 1..n : Elems(F[i]) = All(i)}
  <2>3. ASSUME NEW i \in 1..n, i - 1 \in G PROVE i \in G
    <3>1. CASE i = 1
      <4>1. F[i] = seqs[i] /\ All(i) = Elems(seqs[i])
        BY <2>1, <3>1
      <4> QED BY <3>1, <4>1
    <3>2. CASE i # 1
      <4>1. i - 1 \in 1..n /\ Elems(F[i - 1]) = All(i - 1) /\ F[i] = F[i - 1] \o seqs[i]
        <5>1. i - 1 \in 1..n /\ i - 1 # 0
          BY <2>1, <3>2
        <5>2. i - 1 \in {j \in 1..n : Elems(F[j]) = All(j)}
          <6> HIDE DEF Elems, All
          <6> QED BY <2>3, <5>1
        <5>3. F[i] = F[i - 1] \o seqs[i]
          BY <2>1, <3>2
        <5> HIDE DEF Elems, All
        <5> QED BY <5>1, <5>2, <5>3
      <4>2. Elems(F[i]) = All(i - 1) \cup Elems(seqs[i])
        BY <2>1, <2>2, <4>1, ConcatHolds
      <4>3. 1..i = 1..(i - 1) \cup {i}
        BY <4>1
      <4>4. All(i) = All(i - 1) \cup Elems(seqs[i])
        <5> HIDE DEF Elems
        <5> QED BY <4>3
      <4> QED BY <4>2, <4>4
    <3> QED BY <3>1, <3>2
  <2>4. \A i \in 0..n : i \in G
    <3>1. 0 \in G
      OBVIOUS
    <3> HIDE DEF G
    <3> QED BY <2>1, <2>3, <3>1, AllPlaces
  <2>5. n \in 1..n /\ n # 0 /\ n \in G
    <3> HIDE DEF G
    <3> QED BY <2>1, <2>4
  <2> QED BY <2>1, <2>5
<1> QED BY <1>1, <1>2

LEMMA MinIsOne == ASSUME NEW T \in SUBSET Nat, T # {} PROVE Min(T) \in T
<1>1. PICK n \in T : \A m \in T : n <= m
  BY LeastNatural
<1> QED BY <1>1 DEF Min

LEMMA IfType == ASSUME NEW S, NEW c, NEW b, c => b \in S PROVE If(c, b) \in Seq(S)
<1>1. CASE c
  BY <1>1 DEF If
<1>2. CASE ~c
  BY <1>2 DEF If
<1> QED BY <1>1, <1>2

-----------------------------------------------------------------------------
(* Types *)

LEMMA MapType ==
  ASSUME NEW S, NEW n \in Nat, NEW f, f = [i \in 1..n |-> f[i]], \A i \in 1..n : f[i] \in S
  PROVE  f \in Seq(S)
  OBVIOUS

LEMMA RemediesType == ASSUME NEW b \in Blockers PROVE Remedies(b) \in Seq(Moves)
<1> DEFINE Move(m) == [move |-> m, on |-> b.on]
<1>1. b.on \in Names
  BY DEF Blockers
<1>2. \A m \in {"DeleteWebhookConfig", "RemoveFinalizers", "ResetFailures", "ForceUpgrade",
              "SuspendResume"} : Move(m) \in Moves
  BY <1>1 DEF Moves
<1>3. /\ Move("DeleteWebhookConfig") \in Moves /\ Move("RemoveFinalizers") \in Moves
      /\ Move("ResetFailures") \in Moves /\ Move("ForceUpgrade") \in Moves
      /\ Move("SuspendResume") \in Moves
  BY <1>2
<1>4. Remedies(b) \in {<<Move("DeleteWebhookConfig")>>, <<Move("RemoveFinalizers")>>,
                     <<Move("ResetFailures"), Move("ForceUpgrade")>>,
                     <<Move("ResetFailures"), Move("SuspendResume")>>, <<>>}
  BY DEF Remedies
<1> HIDE DEF Move
<1>5. /\ <<Move("DeleteWebhookConfig")>> \in Seq(Moves) /\ <<Move("RemoveFinalizers")>> \in Seq(Moves)
      /\ <<Move("ResetFailures"), Move("ForceUpgrade")>> \in Seq(Moves)
      /\ <<Move("ResetFailures"), Move("SuspendResume")>> \in Seq(Moves) /\ <<>> \in Seq(Moves)
  BY <1>3
<1> QED BY <1>4, <1>5

LEMMA MovesType == ASSUME NEW s \in Seq(Blockers) PROVE MovesAgainst(s) \in Seq(Moves)
<1> DEFINE f == [i \in 1..Len(s) |-> Remedies(s[i])]
<1>1. f \in Seq(Seq(Moves))
  BY RemediesType
<1> HIDE DEF f
<1>2. FlattenSeq(f) \in Seq(Moves)
  BY <1>1, FlattenType
<1> QED BY <1>2 DEF MovesAgainst, f

LEMMA NoMovesAgainst == MovesAgainst(<<>>) = <<>>
<1>1. [i \in 1..Len(<<>>) |-> Remedies(<<>>[i])] = <<>>
  OBVIOUS
<1> QED BY <1>1 DEF MovesAgainst, FlattenSeq

LEMMA OfSeverityType ==
  ASSUME NEW s \in Seq(Blockers), NEW n PROVE OfSeverity(s, n) \in Seq(Blockers)
<1> DEFINE f == [i \in 1..Len(s) |-> If(Severity(s[i]) = n, s[i])]
<1>1. \A i \in 1..Len(s) : If(Severity(s[i]) = n, s[i]) \in Seq(Blockers)
  BY IfType
<1>2. f \in Seq(Seq(Blockers))
  BY <1>1
<1> HIDE DEF f
<1>3. FlattenSeq(f) \in Seq(Blockers)
  BY <1>2, FlattenType
<1> QED BY <1>3 DEF OfSeverity, f

LEMMA BlockerType == ASSUME NEW w \in Whats, NEW n \in Names PROVE Blocker(w, n) \in Blockers
  BY DEF Blocker, Blockers

LEMMA ConfigType == ASSUME NEW c \in Configs PROVE ConfigBlockers(c) \in Seq(Blockers)
<1> DEFINE closed == \E h \in {h \in ToSet(c.hooks) : h.dead} : h.closed
           b == [Blocker("OrphanWebhook", c.name) EXCEPT !.closed = closed]
<1>1. c.name \in Names
  BY DEF Configs
<1>2. b \in Blockers
  <2>2. closed \in BOOLEAN
    OBVIOUS
  <2> HIDE DEF closed
  <2>1. b = [what |-> "OrphanWebhook", on |-> c.name, closed |-> closed]
    BY DEF Blocker
  <2> QED BY <1>1, <2>1, <2>2 DEF Blockers, Whats
<1>3. <<Blocker("EmptyWebhookConfig", c.name)>> \in Seq(Blockers)
  <2>1. Blocker("EmptyWebhookConfig", c.name) \in Blockers
    BY <1>1, BlockerType DEF Whats
  <2> QED BY <2>1
<1>4. If({h \in ToSet(c.hooks) : h.dead} # {}, b) \in Seq(Blockers)
  <2> HIDE DEF b
  <2> QED BY <1>2, IfType
<1> QED BY <1>3, <1>4 DEF ConfigBlockers

LEMMA WebhookType ==
  ASSUME NEW s \in Seq(Configs) PROVE WebhookBlockers(s) \in Seq(Blockers)
<1> DEFINE f == [i \in 1..Len(s) |-> ConfigBlockers(s[i])]
<1>1. f \in Seq(Seq(Blockers))
  BY ConfigType
<1> HIDE DEF f
<1>2. FlattenSeq(f) \in Seq(Blockers)
  BY <1>1, FlattenType
<1> QED BY <1>2 DEF WebhookBlockers, f

(* The phrases there are.                                                  *)
Known == {"denied by webhook", "webhook unreachable", "another operation in progress",
          "retries exhausted", "dependency not ready", "no matches for kind",
          "immutable field", "being terminated"}

LEMMA ClassifyType == ASSUME NEW m PROVE Classify(m) \in Seq(Known)
<1> DEFINE f == [i \in 1..Len(Phrases) |-> If(Phrases[i] \in Leads(m), Phrases[i])]
<1>1. Len(Phrases) = 8 /\ \A i \in 1..8 : Phrases[i] \in Known
  BY DEF Phrases, Known
<1>2. \A i \in 1..Len(Phrases) : If(Phrases[i] \in Leads(m), Phrases[i]) \in Seq(Known)
  BY <1>1, IfType
<1>3. f \in Seq(Seq(Known))
  BY <1>1, <1>2
<1> HIDE DEF f
<1>4. FlattenSeq(f) \in Seq(Known)
  BY <1>3, FlattenType
<1> QED BY <1>4 DEF Classify, f

LEMMA ConfirmedType ==
  ASSUME NEW lead \in Known, NEW name \in Names, NEW c \in Clusters
  PROVE  Confirmed(lead, name, c) \in Seq(Blockers)
<1>1. WebhookBlockers(c.configs) \in Seq(Blockers) /\ c.namespace.name \in Names
  BY WebhookType DEF Clusters, NamespaceMeta
<1>2. \A w \in Whats, n \in Names : <<Blocker(w, n)>> \in Seq(Blockers)
  <2>1. \A w \in Whats, n \in Names : Blocker(w, n) \in Blockers
    BY BlockerType
  <2> QED BY <2>1
<1>3. If(LatestPending(c.releases), Blocker("HelmPending", name)) \in Seq(Blockers)
  <2>1. Blocker("HelmPending", name) \in Blockers
    BY BlockerType DEF Whats
  <2> QED BY <2>1, IfType
<1>4. If(Stuck(c.namespace), Blocker("StuckTerminating", c.namespace.name)) \in Seq(Blockers)
  <2>1. Blocker("StuckTerminating", c.namespace.name) \in Blockers
    BY <1>1, BlockerType DEF Whats
  <2> QED BY <2>1, IfType
<1>5. /\ {"RetriesExhausted", "WaitingOnDependency", "MissingKind", "ImmutableField",
          "AdmissionDenied"} \subseteq Whats
  BY DEF Whats
<1> QED BY <1>1, <1>2, <1>3, <1>4, <1>5 DEF Confirmed, Known

LEMMA ProbeFinds ==
  ASSUME NEW leads \in Seq(Known), NEW name \in Names, NEW c \in Clusters
  PROVE  /\ Ranked(RunProbe(leads, name, c).blockers) \in Seq(Blockers)
         /\ RunProbe(leads, name, c).swept \in BOOLEAN
<1> DEFINE stuck == If(Stuck(c.object), Blocker("StuckTerminating", name))
           f == [i \in 1..Len(leads) |-> Confirmed(leads[i], name, c)]
           asked == FlattenSeq(f)
           sweep == IF leads = <<>> THEN WebhookBlockers(c.configs) ELSE <<>>
           all == (stuck \o asked) \o sweep
<1>1. stuck \in Seq(Blockers)
  <2>1. Blocker("StuckTerminating", name) \in Blockers
    BY BlockerType DEF Whats
  <2> QED BY <2>1, IfType
<1>2. asked \in Seq(Blockers)
  <2>2. f \in Seq(Seq(Blockers))
    <3>1. \A i \in 1..Len(leads) : leads[i] \in Known
      OBVIOUS
    <3>2. \A i \in 1..Len(leads) : Confirmed(leads[i], name, c) \in Seq(Blockers)
      BY <3>1, ConfirmedType
    <3> QED BY <3>2
  <2> HIDE DEF f
  <2> QED BY <2>2, FlattenType
<1>3. sweep \in Seq(Blockers)
  <2>1. c.configs \in Seq(Configs)
    BY DEF Clusters
  <2> QED BY <2>1, WebhookType
<1> HIDE DEF stuck, asked, sweep
<1>4. all \in Seq(Blockers)
  BY <1>1, <1>2, <1>3, ConcatProperties
<1> DEFINE swept == (stuck \o asked) = <<>> /\ sweep # <<>>
<1>5. Ranked(all) \in Seq(Blockers)
  <2> HIDE DEF all
  <2>1. \A n : OfSeverity(all, n) \in Seq(Blockers)
    BY <1>4, OfSeverityType
  <2> QED BY <2>1, ConcatProperties DEF Ranked
<1>6. RunProbe(leads, name, c) = [blockers |-> all, swept |-> swept]
  BY DEF RunProbe, stuck, asked, sweep
<1> HIDE DEF all
<1> QED BY <1>5, <1>6

LEMMA AfterType ==
  ASSUME situation \in Clusters, NEW r \in Moves PROVE After(r) \in Clusters
<1> DEFINE f == [i \in 1..Len(situation.configs) |->
                   If(situation.configs[i].name # r.on, situation.configs[i])]
<1>0. situation.configs \in Seq(Configs)
  BY DEF Clusters
<1>1. \A i \in 1..Len(situation.configs) :
        If(situation.configs[i].name # r.on, situation.configs[i]) \in Seq(Configs)
  BY <1>0, IfType
<1>2. f \in Seq(Seq(Configs))
  BY <1>0, <1>1
<1> HIDE DEF f
<1>3. FlattenSeq(f) \in Seq(Configs)
  BY <1>2, FlattenType
<1>4. Without(situation.configs, r.on) \in Seq(Configs)
  BY <1>3 DEF Without, f
<1>5. CASE r.move = "DeleteWebhookConfig"
  BY <1>4, <1>5 DEF After, Clusters
<1>6. CASE r.move = "RemoveFinalizers"
  BY <1>6 DEF After, Clusters, Meta
<1>7. CASE r.move \notin {"DeleteWebhookConfig", "RemoveFinalizers"}
  BY <1>7 DEF After
<1> QED BY <1>5, <1>6, <1>7

LEMMA IdleTypes == IdleProbe \in ProbeType /\ IdleApply \in ApplyType
  BY RepairAssumption DEF IdleProbe, IdleApply, ProbeType, ApplyType

LEMMA FailedType == Failed \in Findings
  BY DEF Failed, Findings

(* The cursor, held to the list, is on a move when there is one.           *)
LEMMA HighlightedType ==
  ASSUME TypeOK
  PROVE  /\ Offered \in Seq(Moves)
         /\ Highlighted = None <=> Offered = <<>>
         /\ Highlighted # None => Highlighted \in Moves /\ ConfirmTarget(Highlighted) \in Names
<1>1. Offered \in Seq(Moves)
  BY MovesType DEF Offered, TypeOK, StateType
<1>2. CASE Offered = <<>>
  BY <1>1, <1>2 DEF Highlighted, MoveAt
<1>3. CASE Offered # <<>>
  <2> DEFINE at == Clipped(view.cursor, Len(Offered))
  <2>1. view.cursor \in Nat /\ Len(Offered) \in Nat /\ Len(Offered) > 0
    BY <1>1, <1>3 DEF TypeOK, ViewType
  <2>2. Highlighted = Offered[at + 1]
    BY <1>3 DEF Highlighted, MoveAt
  <2>3. at + 1 \in 1..Len(Offered)
    BY <2>1 DEF Clipped
  <2> HIDE DEF at
  <2>4. Highlighted \in Moves
    BY <1>1, <2>2, <2>3
  <2> QED BY <1>1, <1>3, <2>4, NoneAssumption DEF ConfirmTarget, Moves
<1> QED BY <1>2, <1>3

(* What the cursor is on depends on it and on the findings only.           *)
LEMMA HighlightedFrame ==
  ASSUME view'.cursor = view.cursor, st'.blockers = st.blockers
  PROVE  Offered' = Offered /\ Highlighted' = Highlighted
  BY DEF Highlighted, MoveAt, Offered, Clipped

LEMMA ActType == ASSUME TypeOK, Open PROVE Act \in Acts /\ Act # None
<1>1. view.key \in Objects
  BY DEF TypeOK, Open, ViewType
<1>2. (IF view.alone THEN Highlighted ELSE None) \in Moves \cup {None}
  BY HighlightedType
<1>3. Act \in Acts
  BY <1>1, <1>2 DEF Act, Acts
<1> QED BY <1>3, NoneAssumption

LEMMA SyncedFields ==
  ASSUME NEW v \in ViewType, NEW r
  PROVE  LET w == Synced(v, r)
         IN /\ w \in ViewType
            /\ w.key = v.key /\ w.opening = v.opening /\ w.cursor = v.cursor /\ w.armed = v.armed
            /\ w.refreshed = v.refreshed /\ w.going = v.going /\ w.found = v.found
            /\ w.begun = v.begun /\ w.alone = v.alone /\ w.pressed = v.pressed
            /\ r # None /\ IsDanger(r) =>
                 /\ w.typed = IF v.typed = None THEN "other" ELSE v.typed
                 /\ w.agreed = v.agreed
            /\ ~(r # None /\ IsDanger(r)) =>
                 /\ w.typed = None
                 /\ w.agreed = IF v.typed = None THEN v.agreed ELSE None
<1>1. CASE r # None /\ IsDanger(r)
  BY <1>1 DEF Synced, ViewType
<1>2. CASE ~(r # None /\ IsDanger(r))
  BY <1>2 DEF Synced, ViewType
<1> QED BY <1>1, <1>2

LEMMA RefreshedFields ==
  ASSUME NEW v \in ViewType
  PROVE  LET w == Refreshed(v)
         IN /\ w \in ViewType
            /\ w.key = v.key /\ w.opening = v.opening /\ w.cursor = v.cursor /\ w.armed = v.armed
            /\ w.going = v.going /\ w.found = v.found /\ w.begun = v.begun
            /\ w.alone = v.alone /\ w.typed = v.typed /\ w.agreed = v.agreed
<1>1. (v.refreshed \/ st.done = "ok") \in BOOLEAN
  OBVIOUS
<1> QED BY <1>1 DEF Refreshed, ViewType

-----------------------------------------------------------------------------
(* The inductive invariant *)

LEMMA InvInit == Init => PanelInv
<1> SUFFICES ASSUME Init PROVE PanelInv
  OBVIOUS
<1>1. NoView \in ViewType /\ NoState \in StateType
  BY RepairAssumption DEF NoView, NoState, ViewType, StateType
<1>2. view.cursor = 0 /\ view.key = None /\ ~view.going /\ view.begun = None
      /\ ~st.loading /\ ~st.applying /\ st.done = None /\ st.blockers = <<>>
  BY DEF Init, NoView, NoState
<1>3. CursorFits
  BY <1>2, NoMovesAgainst DEF CursorFits, Offered
<1>4. situation \in Clusters
  BY NoneAssumption DEF Init
<1>5. TypeOK
  BY <1>1, <1>3, <1>4, IdleTypes DEF Init, TypeOK
<1>6. LiveTasks /\ OneMovePerOpening /\ DangerIsTyped
  BY DEF Init, LiveTasks, OneMovePerOpening, DangerIsTyped, IdleProbe, IdleApply
<1>7. /\ PanelHasState /\ OnlyItsOwn /\ NothingYet /\ GestureIsForTheMove /\ GoingIsAgreed
      /\ OwnFindings /\ OwnOutcome
  BY <1>2 DEF Open, PanelHasState, OnlyItsOwn, NothingYet, GestureIsForTheMove, GoingIsAgreed,
              OwnFindings, OwnOutcome
<1> QED BY <1>5, <1>6, <1>7 DEF PanelInv

LEMMA InvOpen ==
  ASSUME PanelInv,
         NEW o \in Objects, NEW t \in Probes, NEW m \in Messages, OpenRepairView(o, t, m)
  PROVE  PanelInv'
<1> USE DEF PanelInv
<1> DEFINE p == [IdleProbe EXCEPT !.pc = "read", !.key = o, !.message = m]
<1>1. /\ st' = [NoState EXCEPT !.key = o, !.loading = TRUE]
      /\ probe' = [probe EXCEPT ![t] = p]
      /\ UNCHANGED <<apply, situation>>
      /\ probe[t] = IdleProbe /\ view.opening < MaxOpens
  BY DEF OpenRepairView
<1>2. view.opening + 1 \in 0..MaxOpens /\ view.opening \in Nat
  BY <1>1, RepairAssumption DEF TypeOK, ViewType
<1>p. PICK alone \in BOOLEAN : alone = ~InFlight(o)
  OBVIOUS
<1>a. view' = [NoView EXCEPT !.key = o, !.opening = view.opening + 1, !.alone = alone]
  BY <1>p DEF OpenRepairView
<1>b. alone => /\ \A u \in Probes : probe[u].key # o
               /\ \A u \in Applies : apply[u].key # o
  BY <1>p DEF InFlight
<1>3. p \in ProbeType /\ p.pc = "read" /\ p.key = o
  BY DEF IdleProbe, ProbeType
<1> HIDE DEF p
<1>4. probe'[t] = p /\ \A u \in Probes \ {t} : probe'[u] = probe[u]
  BY <1>1 DEF TypeOK
<1>5. /\ view' \in ViewType
      /\ view'.key = o /\ view'.opening = view.opening + 1 /\ view'.begun = None
      /\ view'.alone = alone
      /\ view'.cursor = 0 /\ ~view'.armed /\ view'.typed = None /\ ~view'.going
  BY <1>2, <1>a DEF NoView, ViewType
<1>c. st'.key = o /\ st'.loading /\ ~st'.applying /\ st'.done = None /\ st'.blockers = <<>>
  BY <1>1 DEF NoState
<1>6. TypeOK'
  <2>s. st' \in StateType
    <3>1. <<>> \in Seq(Blockers)
      BY EmptySeq
    <3> QED BY <1>1, <3>1 DEF NoState, StateType
  <2>2. probe' \in [Probes -> ProbeType]
    BY <1>1, <1>3 DEF TypeOK
  <2>3. CursorFits'
    BY <1>c, NoMovesAgainst DEF CursorFits, Offered
  <2> QED BY <1>1, <1>5, <2>s, <2>2, <2>3 DEF TypeOK
<1>o. \A u \in Applies : apply[u].pc # "idle" =>
        apply[u].opening <= view'.opening /\ apply[u].opening # view'.opening
  <2>1. \A u \in Applies : apply[u] \in ApplyType
    BY DEF TypeOK
  <2>2. \A u \in Applies : apply[u].opening \in Nat
    BY <2>1, RepairAssumption DEF ApplyType
  <2> QED BY <1>2, <1>5, <2>2 DEF LiveTasks
<1>7. LiveTasks'
  BY <1>1, <1>3, <1>4, <1>o DEF LiveTasks
<1>8. OneMovePerOpening' /\ DangerIsTyped'
  BY <1>1, <1>o DEF OneMovePerOpening, DangerIsTyped
<1>9. OnlyItsOwn'
  BY <1>1, <1>b, <1>4, <1>5 DEF OnlyItsOwn
<1>10. PanelHasState' /\ OwnOutcome' /\ NothingYet' /\ GoingIsAgreed'
  BY <1>5, <1>c, RepairAssumption DEF PanelHasState, OwnOutcome, NothingYet, GoingIsAgreed, Open
<1>w. OwnFindings'
  BY <1>3, <1>4, <1>5, <1>c DEF OwnFindings
<1>11. GestureIsForTheMove'
  BY <1>5 DEF GestureIsForTheMove
<1> QED BY <1>6, <1>7, <1>8, <1>9, <1>10, <1>w, <1>11

(* A key that starts nothing changes the panel only.                       *)
LEMMA InvKey ==
  ASSUME PanelInv, UNCHANGED <<st, probe, apply, situation>>,
         view' \in ViewType,
         view'.opening = view.opening, view'.begun = view.begun,
         Open' => /\ view'.key = view.key /\ view'.found = view.found /\ Open
                  /\ view'.alone = view.alone,
         view'.going => Open',
         CursorFits', ~Open' => view'.cursor = 0,
         Open' /\ view.alone /\ st.loading => view'.cursor = view.cursor,
         GestureIsForTheMove', GoingIsAgreed'
  PROVE  PanelInv'
<1> USE DEF PanelInv
<1>1. TypeOK'
  BY DEF TypeOK
<1>2. LiveTasks' /\ OneMovePerOpening' /\ DangerIsTyped'
  BY DEF LiveTasks, OneMovePerOpening, DangerIsTyped
<1>3. OnlyItsOwn' /\ OwnOutcome' /\ PanelHasState' /\ OwnFindings'
  BY DEF OnlyItsOwn, OwnOutcome, PanelHasState, OwnFindings, Open
<1>4. NothingYet'
  BY DEF NothingYet, Open
<1> QED BY <1>1, <1>2, <1>3, <1>4

LEMMA InvMove ==
  ASSUME PanelInv, NEW delta \in {-1, 1}, RepairMove(delta) PROVE PanelInv'
<1> USE DEF PanelInv
<1> DEFINE n == Len(Offered)
           at == Wrapped(Clipped(view.cursor, n) + delta, n)
           v == [view EXCEPT !.cursor = at, !.armed = FALSE, !.typed = None, !.agreed = None]
<1>1. /\ Keys /\ Offered # <<>> /\ UNCHANGED <<st, probe, apply, situation>>
      /\ view' = Synced(v, MoveAt(at))
  BY DEF RepairMove
<1>2. n \in Nat /\ n > 0 /\ view.cursor \in Nat
  BY <1>1, HighlightedType DEF TypeOK, ViewType
<1>3. at \in Nat /\ at < n
  <2>1. Clipped(view.cursor, n) \in Int
    BY <1>2 DEF Clipped
  <2>2. Clipped(view.cursor, n) + delta \in Int
    BY <2>1
  <2> HIDE DEF n
  <2>3. \A k \in Int : k % n \in 0..(n - 1)
    BY <1>2
  <2> QED BY <1>2, <2>2, <2>3 DEF Wrapped
<1> HIDE DEF at
<1>4. /\ v \in ViewType
      /\ v.key = view.key /\ v.opening = view.opening /\ v.cursor = at /\ ~v.armed
      /\ v.typed = None /\ v.agreed = None /\ v.going = view.going /\ v.found = view.found
      /\ v.begun = view.begun /\ v.alone = view.alone
  BY <1>3 DEF TypeOK, ViewType
<1> HIDE DEF v
<1>5. /\ view' \in ViewType
      /\ view'.key = view.key /\ view'.opening = view.opening /\ view'.cursor = at
      /\ ~view'.armed /\ view'.going = view.going /\ view'.found = view.found
      /\ view'.begun = view.begun /\ view'.alone = view.alone
      /\ view'.typed = IF MoveAt(at) # None /\ IsDanger(MoveAt(at)) THEN "other" ELSE None
  BY <1>1, <1>4, SyncedFields
<1>6. Open /\ Open' /\ ~view.going
  BY <1>1, <1>5 DEF Keys, Open
<1>7. Offered' = Offered /\ Highlighted' = MoveAt(at)
  BY <1>1, <1>5 DEF Highlighted, MoveAt, Offered, Clipped
<1>8. CursorFits'
  BY <1>3, <1>5, <1>7 DEF CursorFits
<1>9. view.alone => ~st.loading
  BY <1>1, <1>6, NoMovesAgainst DEF NothingYet, Offered
<1>10. MoveAt(at) # None => ConfirmTarget(MoveAt(at)) # "other"
  <2>1. MoveAt(at) \in Moves
    <3>1. MoveAt(at) = Offered[at + 1]
      BY <1>1, <1>3 DEF MoveAt, Clipped
    <3>2. at + 1 \in 1..Len(Offered)
      BY <1>2, <1>3
    <3>3. Offered \in Seq(Moves)
      BY HighlightedType
    <3> HIDE DEF Offered
    <3> QED BY <3>1, <3>2, <3>3
  <2> QED BY <2>1, NoneAssumption DEF ConfirmTarget, Moves
<1>11. GestureIsForTheMove'
  BY <1>1, <1>5, <1>7, <1>9, <1>10 DEF GestureIsForTheMove
<1>12. GoingIsAgreed'
  BY <1>5, <1>6 DEF GoingIsAgreed
<1> QED BY <1>1, <1>5, <1>6, <1>8, <1>9, <1>11, <1>12, InvKey

LEMMA InvConfirm ==
  ASSUME PanelInv, RepairConfirm PROVE PanelInv'
<1> USE DEF PanelInv
<1>1. /\ Open /\ ~view.going /\ ~st.loading /\ ~st.applying /\ st.done = None
      /\ Highlighted # None /\ UNCHANGED <<st, probe, apply, situation>>
      /\ view.begun = None
  BY DEF RepairConfirm, Keys, Confirmable, OwnOutcome
<1>2. Highlighted \in Moves /\ Act \in Acts
  BY <1>1, HighlightedType, ActType
<1>3. /\ view' \in ViewType
      /\ view'.key = view.key /\ view'.opening = view.opening /\ view'.cursor = view.cursor
      /\ view'.found = view.found /\ view'.begun = view.begun /\ view'.typed = view.typed
      /\ view'.alone = view.alone
      /\ \/ /\ view'.going /\ view'.armed = view.armed /\ view'.pressed = Highlighted
            /\ view'.agreed = IF view.alone THEN view.agreed ELSE Act
            /\ \/ IsDanger(Highlighted) /\ view.typed = ConfirmTarget(Highlighted)
               \/ ~IsDanger(Highlighted) /\ view.armed
         \/ /\ ~view'.going /\ view'.armed /\ view'.agreed = Act /\ ~IsDanger(Highlighted)
  BY <1>1, <1>2 DEF RepairConfirm, Agreed, LastKey, TypeOK, ViewType
<1>4. Offered' = Offered /\ Highlighted' = Highlighted /\ Act' = Act /\ Open'
  BY <1>1, <1>3, HighlightedFrame DEF Act, Open
<1>5. ConfirmTarget(Highlighted) # None
  BY <1>2, RepairAssumption DEF ConfirmTarget, Moves
<1>6. view.alone =>
        /\ view.armed => view.agreed = Act
        /\ view.typed # None => IsDanger(Highlighted)
        /\ view.typed # None /\ view.typed = ConfirmTarget(Highlighted) => view.agreed = Act
  BY <1>1 DEF GestureIsForTheMove
<1>7. GestureIsForTheMove'
  BY <1>1, <1>3, <1>4, <1>6 DEF GestureIsForTheMove
<1>8. GoingIsAgreed'
  BY <1>1, <1>2, <1>3, <1>4, <1>5, <1>6 DEF GoingIsAgreed
<1>9. CursorFits'
  BY <1>3, <1>4 DEF CursorFits, TypeOK
<1> QED BY <1>1, <1>3, <1>4, <1>7, <1>8, <1>9, InvKey

LEMMA InvCancel == ASSUME PanelInv, RepairCancel PROVE PanelInv'
<1> USE DEF PanelInv
<1>1. /\ view' \in ViewType /\ view'.key = None /\ view'.opening = view.opening
      /\ view'.begun = view.begun /\ view'.cursor = 0 /\ ~view'.going
      /\ UNCHANGED <<st, probe, apply, situation>>
  BY DEF RepairCancel, TypeOK, NoView, ViewType
<1>2. ~Open'
  BY <1>1 DEF Open
<1>3. CursorFits'
  <2>1. Offered' = Offered /\ Offered \in Seq(Moves)
    BY <1>1, HighlightedType DEF Offered
  <2> QED BY <1>1, <2>1 DEF CursorFits
<1>4. GestureIsForTheMove' /\ GoingIsAgreed'
  BY <1>1, <1>2 DEF GestureIsForTheMove, GoingIsAgreed
<1> QED BY <1>1, <1>2, <1>3, <1>4, InvKey

LEMMA InvInput ==
  ASSUME PanelInv, NEW text \in Names \cup {"other"}, RepairInput(text)
  PROVE  PanelInv'
<1> USE DEF PanelInv
<1>0. Open /\ ~view.going /\ view.typed # None /\ UNCHANGED <<st, probe, apply, situation>>
  BY DEF RepairInput, Keys
<1>1. view.alone => ~st.loading /\ Highlighted # None /\ IsDanger(Highlighted) /\ ~view.armed
  BY <1>0 DEF GestureIsForTheMove
<1>2. Act \in Acts
  BY <1>0, ActType
<1>3. /\ view' \in ViewType
      /\ view'.key = view.key /\ view'.opening = view.opening /\ view'.cursor = view.cursor
      /\ view'.found = view.found /\ view'.begun = view.begun /\ view'.typed = text
      /\ view'.armed = view.armed /\ ~view'.going /\ view'.alone = view.alone
      /\ view'.agreed = IF /\ Highlighted # None /\ IsDanger(Highlighted)
                           /\ text = ConfirmTarget(Highlighted) /\ view.begun = None
                        THEN Act ELSE None
  BY <1>0, <1>2 DEF RepairInput, TypeOK, ViewType
<1>4. Offered' = Offered /\ Highlighted' = Highlighted /\ Act' = Act /\ Open'
  BY <1>0, <1>3, HighlightedFrame DEF Act, Open
<1>5. GestureIsForTheMove' /\ GoingIsAgreed'
  BY <1>0, <1>1, <1>3, <1>4 DEF GestureIsForTheMove, GoingIsAgreed
<1>6. CursorFits'
  BY <1>3, <1>4 DEF CursorFits, TypeOK
<1> QED BY <1>0, <1>3, <1>4, <1>5, <1>6, InvKey

LEMMA InvPoll == ASSUME PanelInv, PollRepair PROVE PanelInv'
<1> USE DEF PanelInv
<1> DEFINE H == Highlighted
<1>1. Open /\ ~view.going /\ UNCHANGED <<st, probe, apply, situation>>
  BY DEF PollRepair, Keys
<1>2. /\ view' \in ViewType
      /\ view'.key = view.key /\ view'.opening = view.opening /\ view'.cursor = view.cursor
      /\ view'.found = view.found /\ view'.begun = view.begun /\ view'.armed = view.armed
      /\ ~view'.going /\ view'.alone = view.alone
      /\ H # None /\ IsDanger(H) =>
           /\ view'.typed = IF view.typed = None THEN "other" ELSE view.typed
           /\ view'.agreed = view.agreed
      /\ ~(H # None /\ IsDanger(H)) =>
           /\ view'.typed = None
           /\ view'.agreed = IF view.typed = None THEN view.agreed ELSE None
  <2> DEFINE w == Synced(view, H)
  <2>1. view \in ViewType /\ view' = Refreshed(w)
    BY DEF PollRepair, TypeOK
  <2>2. /\ w \in ViewType
        /\ w.key = view.key /\ w.opening = view.opening /\ w.cursor = view.cursor
        /\ w.found = view.found /\ w.begun = view.begun /\ w.armed = view.armed
        /\ ~w.going /\ w.alone = view.alone
        /\ H # None /\ IsDanger(H) =>
             /\ w.typed = IF view.typed = None THEN "other" ELSE view.typed
             /\ w.agreed = view.agreed
        /\ ~(H # None /\ IsDanger(H)) =>
             /\ w.typed = None
             /\ w.agreed = IF view.typed = None THEN view.agreed ELSE None
    BY <1>1, <2>1, SyncedFields
  <2> HIDE DEF w
  <2> QED BY <2>1, <2>2, RefreshedFields
<1>3. Offered' = Offered /\ H' = H /\ Act' = Act /\ Open'
  BY <1>1, <1>2, HighlightedFrame DEF Act, Open
<1>4. view.alone /\ H # None => ~st.loading /\ ConfirmTarget(H) # "other"
  <2> SUFFICES ASSUME view.alone, H # None PROVE ~st.loading /\ ConfirmTarget(H) # "other"
    OBVIOUS
  <2>1. Offered # <<>> /\ ConfirmTarget(H) \in Names
    BY HighlightedType
  <2> QED BY <1>1, <2>1, NoMovesAgainst, NoneAssumption DEF NothingYet, Offered
<1>5. view.alone =>
      /\ view.armed => ~st.loading /\ H # None /\ ~IsDanger(H)
      /\ view.typed # None => H # None /\ IsDanger(H)
      /\ view.begun = None /\ view.armed => view.agreed = Act
      /\ view.begun = None /\ view.typed # None /\ view.typed = ConfirmTarget(H) =>
            view.agreed = Act
  BY <1>1 DEF GestureIsForTheMove
<1>6. GestureIsForTheMove' /\ GoingIsAgreed'
  <2> HIDE DEF H
  <2>1. view'.alone =>
        /\ view'.armed => ~st'.loading /\ H' # None /\ ~IsDanger(H')
        /\ view'.typed # None => ~st'.loading /\ H' # None /\ IsDanger(H')
        /\ view'.begun = None /\ view'.armed => view'.agreed = Act'
        /\ view'.begun = None /\ view'.typed # None /\ view'.typed = ConfirmTarget(H') =>
              view'.agreed = Act'
    BY <1>1, <1>2, <1>3, <1>4, <1>5
  <2> QED BY <1>2, <2>1 DEF GestureIsForTheMove, GoingIsAgreed, H
<1>7. CursorFits'
  BY <1>2, <1>3 DEF CursorFits, TypeOK
<1> QED BY <1>1, <1>2, <1>3, <1>6, <1>7, InvKey

(* The findings an earlier probe left at the last moment offer no move.    *)
LEMMA InvNoMove ==
  ASSUME PanelInv, NEW t \in Applies, SpawnRepair(t), Highlighted = None PROVE PanelInv'
<1> USE DEF PanelInv
<1>1. /\ view.going /\ Open /\ view' = [view EXCEPT !.going = FALSE, !.pressed = None]
      /\ UNCHANGED <<st, probe, apply, situation>>
  BY DEF SpawnRepair, PanelHasState
<1>2. ~view.alone
  BY <1>1, NoneAssumption DEF GoingIsAgreed
<1>3. /\ view' \in ViewType
      /\ view'.key = view.key /\ view'.opening = view.opening /\ view'.cursor = view.cursor
      /\ view'.found = view.found /\ view'.begun = view.begun
      /\ ~view'.going /\ view'.alone = view.alone
  BY <1>1 DEF TypeOK, ViewType
<1>4. CursorFits' /\ GestureIsForTheMove' /\ GoingIsAgreed' /\ Open'
  BY <1>1, <1>2, <1>3 DEF CursorFits, GestureIsForTheMove, GoingIsAgreed, Open
<1> QED BY <1>1, <1>3, <1>4, InvKey

(* The move that starts is the one agreed to.                              *)
LEMMA InvSpawn ==
  ASSUME PanelInv, NEW t \in Applies, SpawnRepair(t), Highlighted # None PROVE PanelInv'
<1> USE DEF PanelInv
<1> DEFINE p == [IdleApply EXCEPT !.pc = "run", !.key = view.key, !.opening = view.opening,
                                  !.alone = view.alone, !.move = Highlighted,
                                  !.pressed = view.pressed, !.typed = view.typed]
<1>0. view.going /\ apply[t] = IdleApply /\ UNCHANGED <<probe, situation>>
  BY DEF SpawnRepair
<1>1. /\ Open /\ view.begun = None /\ view.pressed \in Moves
      /\ IsDanger(view.pressed) => view.typed = ConfirmTarget(view.pressed)
      /\ view.alone => /\ Highlighted = view.pressed
                       /\ ~st.loading /\ ~st.applying /\ st.done = None
      /\ view.key = st.key /\ view.key \in Objects
  BY <1>0 DEF GoingIsAgreed, PanelHasState, TypeOK, ViewType, Open
<1>2. Highlighted \in Moves /\ Act \in Acts /\ Act # None
  BY <1>1, HighlightedType, ActType
<1>3. /\ view' = [view EXCEPT !.going = FALSE, !.pressed = None, !.begun = Act, !.agreed = None]
      /\ st' = [st EXCEPT !.applying = TRUE, !.done = None]
      /\ apply' = [apply EXCEPT ![t] = p]
  BY DEF SpawnRepair
<1>4. /\ p \in ApplyType /\ p.pc = "run" /\ p.key = view.key /\ p.move = Highlighted
      /\ p.typed = view.typed /\ p.opening = view.opening /\ p.alone = view.alone
      /\ p.pressed = view.pressed
  <2>1. /\ view.opening \in 0..MaxOpens /\ view.alone \in BOOLEAN
        /\ view.typed \in {None, "other"} \cup Names
    BY DEF TypeOK, ViewType
  <2>2. PICK k \in Objects, n \in 0..MaxOpens, b \in BOOLEAN, x \in Moves, y \in Moves,
             z \in {None, "other"} \cup Names :
          /\ k = view.key /\ n = view.opening /\ b = view.alone /\ x = Highlighted
          /\ y = view.pressed /\ z = view.typed
    BY <1>1, <1>2, <2>1
  <2> DEFINE q == [IdleApply EXCEPT !.pc = "run", !.key = k, !.opening = n, !.alone = b,
                                    !.move = x, !.pressed = y, !.typed = z]
  <2>3. p = q
    BY <2>2, Zenon
  <2> HIDE DEF p
  <2>4. /\ q \in ApplyType /\ q.pc = "run" /\ q.key = k /\ q.move = x /\ q.typed = z
        /\ q.opening = n /\ q.alone = b /\ q.pressed = y
    <3>1. /\ k \in Objects /\ n \in 0..MaxOpens /\ b \in BOOLEAN /\ x \in Moves /\ y \in Moves
          /\ z \in {None, "other"} \cup Names
      OBVIOUS
    <3> QED BY ONLY <3>1 DEF IdleApply, ApplyType
  <2> HIDE DEF q
  <2> QED BY <2>2, <2>3, <2>4, Zenon
<1> HIDE DEF p
<1>5. apply'[t] = p /\ \A u \in Applies \ {t} : apply'[u] = apply[u]
  BY <1>3 DEF TypeOK
<1>6. /\ view' \in ViewType /\ st' \in StateType
      /\ view'.key = view.key /\ view'.opening = view.opening /\ view'.cursor = view.cursor
      /\ view'.found = view.found /\ view'.begun = Act /\ view'.typed = view.typed
      /\ view'.armed = view.armed /\ ~view'.going /\ view'.alone = view.alone
      /\ st'.key = st.key /\ st'.loading = st.loading /\ st'.error = st.error
      /\ st'.blockers = st.blockers /\ st'.swept = st.swept /\ st'.applying /\ st'.done = None
  BY <1>2, <1>3 DEF TypeOK, ViewType, StateType
<1>7. Offered' = Offered /\ Highlighted' = Highlighted /\ Open'
  BY <1>1, <1>6, HighlightedFrame DEF Open
<1>8. TypeOK'
  <2>1. apply' \in [Applies -> ApplyType]
    BY <1>3, <1>4 DEF TypeOK
  <2>2. CursorFits'
    BY <1>6, <1>7 DEF CursorFits, TypeOK
  <2> QED BY <1>0, <1>6, <2>1, <2>2 DEF TypeOK
<1>9. LiveTasks'
  <2>1. view.opening <= view.opening
    BY RepairAssumption DEF TypeOK, ViewType
  <2> QED BY <1>0, <1>1, <1>2, <1>4, <1>5, <1>6, <2>1 DEF LiveTasks
<1>10. \A u \in Applies : apply[u].pc # "idle" => apply[u].opening # view.opening
  BY <1>1 DEF OneMovePerOpening
<1>11. OneMovePerOpening'
  BY <1>2, <1>4, <1>5, <1>6, <1>10 DEF OneMovePerOpening
<1>12. DangerIsTyped'
  BY <1>1, <1>4, <1>5 DEF DangerIsTyped
<1>13. OnlyItsOwn'
  BY <1>0, <1>1, <1>4, <1>5, <1>6, <1>7 DEF OnlyItsOwn
<1>14. PanelHasState' /\ OwnFindings' /\ NothingYet' /\ GoingIsAgreed'
  BY <1>0, <1>1, <1>6, <1>7 DEF PanelHasState, OwnFindings, NothingYet, GoingIsAgreed, Open
<1>w. OwnOutcome'
  BY <1>2, <1>6 DEF OwnOutcome
<1>15. GestureIsForTheMove'
  BY <1>1, <1>2, <1>6, <1>7 DEF GestureIsForTheMove
<1> QED BY <1>8, <1>9, <1>11, <1>12, <1>13, <1>14, <1>w, <1>15

(* A step that leaves the panel alone.                                     *)
LEMMA InvTasks ==
  ASSUME PanelInv, UNCHANGED <<view, st>>, TypeOK', LiveTasks',
         \A t \in Probes : /\ probe'[t].pc # "idle" <=> probe[t].pc # "idle"
                           /\ probe'[t].key = probe[t].key,
         \A t \in Applies : /\ apply'[t].pc # "idle" => apply[t].pc # "idle"
                            /\ apply'[t].pc # "idle" => /\ apply'[t].key = apply[t].key
                                                        /\ apply'[t].opening = apply[t].opening
                            /\ apply'[t].pc = "run" => apply'[t] = apply[t]
  PROVE  PanelInv'
<1> USE DEF PanelInv
<1>1. OneMovePerOpening' /\ DangerIsTyped'
  BY DEF OneMovePerOpening, DangerIsTyped
<1>2. OnlyItsOwn'
  BY DEF OnlyItsOwn, Open
<1>3. PanelHasState' /\ OwnFindings' /\ OwnOutcome' /\ NothingYet'
  BY DEF PanelHasState, OwnFindings, OwnOutcome, NothingYet, Open
<1>4. Highlighted' = Highlighted /\ Act' = Act /\ Open' = Open
  BY HighlightedFrame DEF Act, Open
<1>5. GestureIsForTheMove' /\ GoingIsAgreed'
  BY <1>4 DEF GestureIsForTheMove, GoingIsAgreed
<1> QED BY <1>1, <1>2, <1>3, <1>5

LEMMA InvProbe == ASSUME PanelInv, NEW t \in Probes, Probe(t) PROVE PanelInv'
<1> USE DEF PanelInv
<1>1. probe[t].pc = "read" /\ probe[t].key \in Objects /\ probe[t] \in ProbeType
  BY DEF Probe, LiveTasks, TypeOK
<1>2. PICK f \in Findings : probe' = [probe EXCEPT ![t].pc = "publish", ![t].got = f]
  <2> DEFINE leads == Classify(probe[t].message)
             r == RunProbe(leads, probe[t].key, situation)
             found == [blockers |-> Ranked(r.blockers), swept |-> r.swept, error |-> FALSE]
  <2>1. probe[t].key \in Names /\ situation \in Clusters /\ leads \in Seq(Known)
    BY <1>1, RepairAssumption, ClassifyType DEF TypeOK
  <2>2. found \in Findings
    <3>1. Ranked(r.blockers) \in Seq(Blockers) /\ r.swept \in BOOLEAN
      <4> HIDE DEF leads
      <4> QED BY <2>1, ProbeFinds
    <3> HIDE DEF r
    <3> QED BY <3>1 DEF Findings
  <2>3. PICK f \in {found, Failed} : probe' = [probe EXCEPT ![t].pc = "publish", ![t].got = f]
    BY DEF Probe
  <2> HIDE DEF found
  <2> QED BY <2>2, <2>3, FailedType
<1> DEFINE p == [probe[t] EXCEPT !.pc = "publish", !.got = f]
<1>3. p \in ProbeType /\ p.pc = "publish" /\ p.key = probe[t].key /\ p.got = f
  BY <1>1 DEF ProbeType
<1>4. probe' = [probe EXCEPT ![t] = p]
  BY <1>2
<1> HIDE DEF p
<1>5. probe'[t] = p /\ \A u \in Probes \ {t} : probe'[u] = probe[u]
  BY <1>4 DEF TypeOK
<1>6. UNCHANGED <<view, st, apply, situation>>
  BY DEF Probe
<1>7. CursorFits'
  BY <1>6 DEF TypeOK, CursorFits, Offered
<1>8. TypeOK'
  BY <1>3, <1>4, <1>6, <1>7 DEF TypeOK
<1>9. LiveTasks'
  BY <1>1, <1>3, <1>5, <1>6 DEF LiveTasks
<1> QED BY <1>1, <1>3, <1>5, <1>6, <1>8, <1>9, InvTasks

(* A probe of the state's object publishes: on an object that was alone,   *)
(* the panel's own, nothing armed or typed or going yet.                   *)
LEMMA InvProbeTells ==
  ASSUME PanelInv, NEW t \in Probes, ProbeEnds(t), st.key = probe[t].key PROVE PanelInv'
<1> USE DEF PanelInv
<1> DEFINE g == probe[t].got
<1>1. /\ probe[t].pc = "publish" /\ g \in Findings /\ probe[t].key \in Objects
      /\ probe' = [probe EXCEPT ![t] = IdleProbe] /\ UNCHANGED <<apply, situation>>
  BY DEF ProbeEnds, LiveTasks
<1>2. /\ probe'[t] = IdleProbe /\ IdleProbe.pc = "idle"
      /\ \A u \in Probes \ {t} : probe'[u] = probe[u]
  BY <1>1 DEF TypeOK, IdleProbe
<1>k. view.key = probe[t].key <=> Open
  BY <1>1, RepairAssumption DEF PanelHasState, Open
<1>a. Open /\ view.alone =>
        st.loading /\ view.cursor = 0 /\ ~view.going /\ ~view.armed /\ view.typed = None
  BY <1>1, <1>k DEF OwnFindings, NothingYet, GoingIsAgreed, GestureIsForTheMove
<1>3. /\ st' = [st EXCEPT !.loading = FALSE, !.error = g.error,
                         !.blockers = g.blockers, !.swept = g.swept]
      /\ view' = IF Open THEN [view EXCEPT !.found = g] ELSE view
  BY <1>k DEF ProbeEnds, PublishKey
<1>4. /\ g.error \in BOOLEAN /\ g.blockers \in Seq(Blockers) /\ g.swept \in BOOLEAN
      /\ g = [blockers |-> g.blockers, swept |-> g.swept, error |-> g.error]
  BY <1>1 DEF Findings
<1> HIDE DEF g
<1>5. /\ st' \in StateType /\ st'.key = st.key /\ ~st'.loading
      /\ st'.error = g.error /\ st'.blockers = g.blockers
      /\ st'.swept = g.swept /\ st'.applying = st.applying /\ st'.done = st.done
  BY <1>3, <1>4 DEF TypeOK, StateType
<1>6. /\ view' \in ViewType /\ view'.key = view.key /\ view'.opening = view.opening
      /\ view'.cursor = view.cursor /\ view'.armed = view.armed /\ view'.typed = view.typed
      /\ view'.going = view.going /\ view'.begun = view.begun /\ view'.alone = view.alone
      /\ view'.agreed = view.agreed /\ view'.pressed = view.pressed
      /\ (Open => view'.found = g)
  BY <1>1, <1>3 DEF TypeOK, ViewType, g
<1>7. CursorFits'
  <2>1. Offered' \in Seq(Moves)
    BY <1>4, <1>5, MovesType DEF Offered
  <2>2. ~view.alone \/ view'.cursor = 0
    BY <1>a, <1>6 DEF NothingYet
  <2> QED BY <1>6, <2>1, <2>2 DEF CursorFits
<1>8. TypeOK'
  <2>1. probe' \in [Probes -> ProbeType]
    BY <1>1, IdleTypes DEF TypeOK
  <2> QED BY <1>1, <1>5, <1>6, <1>7, <2>1 DEF TypeOK
<1>9. LiveTasks' /\ OneMovePerOpening' /\ DangerIsTyped' /\ OnlyItsOwn'
  BY <1>1, <1>2, <1>6 DEF LiveTasks, OneMovePerOpening, DangerIsTyped, OnlyItsOwn, Open
<1>10. PanelHasState' /\ NothingYet' /\ OwnOutcome'
  BY <1>5, <1>6 DEF PanelHasState, NothingYet, OwnOutcome, Open
<1>w. OwnFindings'
  <2>1. Open /\ view.alone =>
          ~ \E u \in Probes : probe'[u].pc # "idle" /\ probe'[u].key = view.key
    BY <1>1, <1>2, <1>k DEF OnlyItsOwn
  <2> QED BY <1>4, <1>5, <1>6, <2>1 DEF OwnFindings, Open
<1>11. GestureIsForTheMove'
  BY <1>a, <1>6 DEF GestureIsForTheMove, Open
<1>12. GoingIsAgreed'
  <2> SUFFICES ASSUME view.going PROVE GoingIsAgreed'
    BY <1>6 DEF GoingIsAgreed
  <2>1. ~view.alone
    BY <1>a DEF PanelHasState
  <2>2. Act' = Act
    BY <1>6, <2>1 DEF Act
  <2> QED BY <1>6, <2>1, <2>2 DEF GoingIsAgreed
<1> QED BY <1>8, <1>9, <1>10, <1>w, <1>11, <1>12

LEMMA InvProbeEnds ==
  ASSUME PanelInv, NEW t \in Probes, ProbeEnds(t) PROVE PanelInv'
<1> USE DEF PanelInv
<1>1. /\ probe[t].pc = "publish"
      /\ probe' = [probe EXCEPT ![t] = IdleProbe] /\ UNCHANGED <<apply, situation>>
  BY DEF ProbeEnds
<1>2. /\ probe'[t] = IdleProbe /\ IdleProbe.pc = "idle"
      /\ \A u \in Probes \ {t} : probe'[u] = probe[u]
  BY <1>1 DEF TypeOK, IdleProbe
<1>3. CASE st.key # probe[t].key
  <2>1. UNCHANGED <<view, st>>
    BY <1>3 DEF ProbeEnds, PublishKey
  <2>2. TypeOK'
    <3>1. probe' \in [Probes -> ProbeType]
      BY <1>1, IdleTypes DEF TypeOK
    <3>2. CursorFits'
      BY <2>1 DEF TypeOK, CursorFits, Offered
    <3> QED BY <1>1, <2>1, <3>1, <3>2 DEF TypeOK
  <2>3. LiveTasks' /\ OneMovePerOpening' /\ DangerIsTyped' /\ OnlyItsOwn'
    BY <1>1, <1>2, <2>1 DEF LiveTasks, OneMovePerOpening, DangerIsTyped, OnlyItsOwn, Open
  <2>4. OwnFindings'
    <3>1. Open => view.key # probe[t].key
      BY <1>3 DEF PanelHasState
    <3> QED BY <1>2, <2>1, <3>1 DEF OwnFindings, Open
  <2>5. Highlighted' = Highlighted /\ Act' = Act /\ Open' = Open
    BY <2>1, HighlightedFrame DEF Act, Open
  <2>6. /\ PanelHasState' /\ NothingYet' /\ OwnOutcome'
        /\ GestureIsForTheMove' /\ GoingIsAgreed'
    BY <2>1, <2>5 DEF PanelHasState, NothingYet, OwnOutcome, GestureIsForTheMove, GoingIsAgreed
  <2> QED BY <2>2, <2>3, <2>4, <2>6
<1>4. CASE st.key = probe[t].key
  BY <1>4, InvProbeTells
<1> QED BY <1>3, <1>4

LEMMA InvRunApply ==
  ASSUME PanelInv, NEW t \in Applies, RunApply(t) PROVE PanelInv'
<1> USE DEF PanelInv
<1>1. apply[t].pc = "run" /\ apply[t].move \in Moves /\ apply[t] \in ApplyType
      /\ UNCHANGED <<view, st, probe>>
  BY DEF RunApply, LiveTasks, TypeOK
<1>2. situation' \in Clusters
  BY <1>1, AfterType DEF RunApply, TypeOK
<1>3. PICK ok \in BOOLEAN, reached \in BOOLEAN :
        apply' = [apply EXCEPT ![t] = [IdleApply EXCEPT !.pc = "publish", !.key = apply[t].key,
                                         !.opening = apply[t].opening, !.ok = ok]]
  BY Zenon DEF RunApply
<1> DEFINE p == [IdleApply EXCEPT !.pc = "publish", !.key = apply[t].key,
                                  !.opening = apply[t].opening, !.ok = ok]
<1>4. p \in ApplyType /\ p.pc = "publish" /\ p.key = apply[t].key /\ p.opening = apply[t].opening
  BY <1>1 DEF IdleApply, ApplyType
<1>5. apply' = [apply EXCEPT ![t] = p]
  BY <1>3, Zenon
<1> HIDE DEF p
<1>6. apply'[t] = p /\ \A u \in Applies \ {t} : apply'[u] = apply[u]
  BY <1>5 DEF TypeOK
<1>7. CursorFits'
  BY <1>1 DEF TypeOK, CursorFits, Offered
<1>8. TypeOK'
  BY <1>1, <1>2, <1>4, <1>5, <1>7 DEF TypeOK
<1>9. LiveTasks'
  BY <1>1, <1>4, <1>6 DEF LiveTasks
<1> QED BY <1>1, <1>4, <1>6, <1>8, <1>9, InvTasks

LEMMA InvApplyEnds ==
  ASSUME PanelInv, NEW t \in Applies, ApplyEnds(t) PROVE PanelInv'
<1> USE DEF PanelInv
<1>1. /\ apply[t].pc = "publish"
      /\ apply' = [apply EXCEPT ![t] = IdleApply] /\ UNCHANGED <<view, probe, situation>>
  BY DEF ApplyEnds
<1>2. /\ apply'[t] = IdleApply /\ IdleApply.pc = "idle"
      /\ \A u \in Applies \ {t} : apply'[u] = apply[u]
  BY <1>1 DEF TypeOK, IdleApply
<1>3. LiveTasks' /\ apply' \in [Applies -> ApplyType]
  BY <1>1, <1>2, IdleTypes DEF LiveTasks, TypeOK
<1>4. CASE st.key # apply[t].key
  <2>1. UNCHANGED <<view, st>>
    BY <1>1, <1>4 DEF ApplyEnds, OutcomeKey
  <2>2. CursorFits'
    BY <2>1 DEF TypeOK, CursorFits, Offered
  <2>3. TypeOK'
    BY <1>1, <1>3, <2>1, <2>2 DEF TypeOK
  <2> QED BY <1>1, <1>2, <1>3, <2>1, <2>3, InvTasks
<1>5. CASE st.key = apply[t].key
  <2>1. Open /\ view.alone => view.begun # None /\ ~view.going
    BY <1>1, <1>5 DEF OnlyItsOwn, OneMovePerOpening, PanelHasState, GoingIsAgreed
  <2>2. st' = [st EXCEPT !.applying = FALSE, !.done = IF apply[t].ok THEN "ok" ELSE "failed"]
    BY <1>5 DEF ApplyEnds, OutcomeKey
  <2>3. /\ st' \in StateType /\ st'.key = st.key /\ st'.loading = st.loading
        /\ st'.error = st.error /\ st'.blockers = st.blockers
        /\ st'.swept = st.swept /\ ~st'.applying /\ st'.done \in {"ok", "failed"}
    BY <2>2 DEF TypeOK, StateType
  <2>4. Offered' = Offered /\ Highlighted' = Highlighted /\ Open' = Open /\ Act' = Act
    BY <1>1, <2>3, HighlightedFrame DEF Open, Act
  <2>5. CursorFits'
    BY <1>1, <2>4 DEF CursorFits, TypeOK
  <2>6. TypeOK'
    BY <1>1, <1>3, <2>3, <2>5 DEF TypeOK
  <2>7. OneMovePerOpening' /\ DangerIsTyped' /\ OnlyItsOwn'
    BY <1>1, <1>2 DEF OneMovePerOpening, DangerIsTyped, OnlyItsOwn, Open
  <2>9. PanelHasState' /\ OwnFindings' /\ NothingYet'
    BY <1>1, <2>3, <2>4 DEF PanelHasState, OwnFindings, NothingYet, Open
  <2>10. OwnOutcome'
    BY <1>1, <2>1, <2>3, <2>4, NoneAssumption DEF OwnOutcome
  <2>11. GestureIsForTheMove' /\ GoingIsAgreed'
    BY <1>1, <2>1, <2>3, <2>4 DEF GestureIsForTheMove, GoingIsAgreed, PanelHasState
  <2> QED BY <1>3, <2>6, <2>7, <2>9, <2>10, <2>11
<1> QED BY <1>4, <1>5

LEMMA InvStep ==
  ASSUME PanelInv, [Next]_vars PROVE PanelInv'
<1>1. ASSUME NEW o \in Objects, NEW t \in Probes, NEW m \in Messages, OpenRepairView(o, t, m)
      PROVE  PanelInv'
  BY <1>1, InvOpen
<1>2. CASE RepairMove(1) \/ RepairMove(-1)
  BY <1>2, InvMove
<1>3. CASE RepairConfirm
  BY <1>3, InvConfirm
<1>4. CASE RepairCancel
  BY <1>4, InvCancel
<1>5. ASSUME NEW text \in Names \cup {"other"}, RepairInput(text) PROVE PanelInv'
  BY <1>5, InvInput
<1>6. CASE PollRepair
  BY <1>6, InvPoll
<1>7. ASSUME NEW t \in Applies, SpawnRepair(t) PROVE PanelInv'
  BY <1>7, InvSpawn, InvNoMove
<1>8. ASSUME NEW t \in Probes, ProbeStep(t) PROVE PanelInv'
  BY <1>8, InvProbe, InvProbeEnds DEF ProbeStep
<1>9. ASSUME NEW t \in Applies, ApplyStep(t) PROVE PanelInv'
  BY <1>9, InvRunApply, InvApplyEnds DEF ApplyStep
<1>10. ASSUME UNCHANGED <<view, st, probe, apply>>, situation' \in Clusters PROVE PanelInv'
  <2>1. TypeOK' /\ LiveTasks'
    BY <1>10 DEF PanelInv, TypeOK, CursorFits, Offered, LiveTasks
  <2> QED BY <1>10, <2>1, InvTasks
<1>11. ASSUME NEW c \in Situations, Changed(c) PROVE PanelInv'
  BY <1>10, <1>11, NoneAssumption DEF Changed
<1>12. CASE UNCHANGED vars
  BY <1>10, <1>12 DEF vars, PanelInv, TypeOK
<1> QED BY <1>1, <1>2, <1>3, <1>4, <1>5, <1>6, <1>7, <1>8, <1>9, <1>11, <1>12 DEF Next, User, Going

(* However soon the panel is opened again, the move the last key was for   *)
(* had its name typed if it asks for one, an opening plays one move at     *)
(* most, and the panel shows what a probe of its object found; where       *)
(* nothing was in flight about the object at the opening, the move played  *)
(* is that one, on the findings of the panel's own probe, alone, and the   *)
(* outcome shown is its own (src/ui.rs, `repair_confirm`, `spawn_repair`). *)
THEOREM MovesAreOwned == Spec => []RepairIsOwned
<1>1. PanelInv => RepairIsOwned
  <2> SUFFICES ASSUME PanelInv PROVE OneMoveAtATime
    BY DEF PanelInv, RepairIsOwned
  <2> QED BY DEF PanelInv, OneMoveAtATime, OneMovePerOpening, OnlyItsOwn
<1>2. PanelInv /\ [Next]_vars => PanelInv'
  BY InvStep
<1> QED BY <1>1, <1>2, InvInit, PTL DEF Spec

-----------------------------------------------------------------------------
(* The panel implements Consent *)

LEMMA AsksStep ==
  ASSUME PanelInv, [Next]_vars PROVE [C!Next]_(C!vars)
<1> USE DEF PanelInv
<1> DEFINE Same == /\ view'.opening = view.opening /\ view'.agreed = view.agreed
                   /\ view'.begun = view.begun
           Dropped == /\ view'.opening = view.opening /\ view'.agreed = None
                      /\ view'.begun = view.begun
<1>s. Same => [C!Next]_(C!vars)
  BY DEF C!vars
<1>d. Dropped => [C!Next]_(C!vars)
  BY DEF C!Next, C!Withdraw
<1>v. view \in ViewType
  BY DEF TypeOK
<1>1. ASSUME NEW o \in Objects, NEW t \in Probes, NEW m \in Messages, OpenRepairView(o, t, m)
      PROVE  [C!Next]_(C!vars)
  <2>1. view'.opening = view.opening + 1 /\ view'.agreed = None /\ view'.begun = None
    BY <1>1 DEF OpenRepairView, NoView
  <2> QED BY <2>1 DEF C!Next, C!Open
<1>2. ASSUME NEW delta \in {-1, 1}, RepairMove(delta) PROVE [C!Next]_(C!vars)
  <2> DEFINE at == Wrapped(Clipped(view.cursor, Len(Offered)) + delta, Len(Offered))
             v == [view EXCEPT !.cursor = at, !.armed = FALSE, !.typed = None, !.agreed = None]
  <2>1. view' = Synced(v, MoveAt(at))
    BY <1>2 DEF RepairMove
  <2> HIDE DEF at
  <2>2. v.opening = view.opening /\ v.begun = view.begun /\ v.agreed = None /\ v.typed = None
    BY <1>v DEF ViewType
  <2>3. Synced(v, MoveAt(at)) \in {v, [v EXCEPT !.typed = "other"],
                                   [v EXCEPT !.typed = None, !.agreed = None]}
    BY <2>2 DEF Synced
  <2>4. Dropped
    BY <1>v, <2>1, <2>2, <2>3 DEF ViewType
  <2> QED BY <2>4, <1>d
<1>3. CASE RepairConfirm
  <2>1. Open /\ st.done = None /\ ~st.applying
    BY <1>3 DEF RepairConfirm, Keys, Confirmable
  <2>2. view.begun = None /\ Act \in Acts
    BY <2>1, ActType DEF OwnOutcome
  <2>3. Same \/ (view'.opening = view.opening /\ view'.agreed = Act /\ view'.begun = view.begun)
    BY <1>3, <1>v DEF RepairConfirm, Agreed, LastKey, ViewType
  <2> QED BY <1>s, <2>2, <2>3 DEF C!Next, C!Agree
<1>4. CASE RepairCancel
  <2>1. Dropped
    BY <1>4 DEF RepairCancel, NoView
  <2> QED BY <2>1, <1>d
<1>5. ASSUME NEW text \in Names \cup {"other"}, RepairInput(text) PROVE [C!Next]_(C!vars)
  <2>1. Open
    BY <1>5 DEF RepairInput, Keys
  <2>2. Act \in Acts
    BY <2>1, ActType
  <2>3. \/ Dropped
        \/ /\ view.begun = None
           /\ view'.opening = view.opening /\ view'.agreed = Act /\ view'.begun = view.begun
    BY <1>5, <1>v DEF RepairInput, ViewType
  <2> QED BY <1>d, <2>2, <2>3 DEF C!Next, C!Agree
<1>6. CASE PollRepair
  <2>1. /\ Synced(view, Highlighted) \in ViewType
        /\ Synced(view, Highlighted).opening = view.opening
        /\ Synced(view, Highlighted).begun = view.begun
        /\ Synced(view, Highlighted).agreed \in {view.agreed, None}
    BY <1>v, SyncedFields
  <2>2. Same \/ Dropped
    BY <1>6, <2>1, RefreshedFields DEF PollRepair
  <2> QED BY <2>2, <1>s, <1>d
<1>7. ASSUME NEW t \in Applies, SpawnRepair(t) PROVE [C!Next]_(C!vars)
  <2>1. view.begun = None /\ view.agreed = Act /\ Open
    BY <1>7 DEF SpawnRepair, GoingIsAgreed, PanelHasState
  <2>2. Act # None
    BY <2>1, ActType
  <2>3. \/ Same
        \/ view'.opening = view.opening /\ view'.agreed = None /\ view'.begun = Act
    BY <1>7, <1>v, <2>1 DEF SpawnRepair, ViewType
  <2> QED BY <1>s, <2>1, <2>2, <2>3 DEF C!Next, C!Start
<1>8. ASSUME NEW t \in Probes, ProbeStep(t) PROVE [C!Next]_(C!vars)
  <2>1. Same
    BY <1>8, <1>v DEF ProbeStep, Probe, ProbeEnds, ViewType
  <2> QED BY <2>1, <1>s
<1>9. ASSUME NEW t \in Applies, ApplyStep(t) PROVE [C!Next]_(C!vars)
  <2>1. CASE RunApply(t)
    BY <2>1, <1>s, Zenon DEF RunApply
  <2>2. CASE ApplyEnds(t)
    BY <2>2, <1>s DEF ApplyEnds
  <2> QED BY <1>9, <2>1, <2>2 DEF ApplyStep
<1>10. ASSUME NEW c \in Situations, Changed(c) PROVE [C!Next]_(C!vars)
  BY <1>10, <1>s DEF Changed
<1>11. CASE UNCHANGED vars
  BY <1>11, <1>s DEF vars
<1> QED BY <1>1, <1>2, <1>3, <1>4, <1>5, <1>6, <1>7, <1>8, <1>9, <1>10, <1>11 DEF Next, User, Going

(* The panel implements Consent: whenever it is opened and whatever tasks  *)
(* of earlier openings answer, a move is played only on the object it was  *)
(* agreed to be played on in this opening, and once per opening; if        *)
(* nothing was in flight about the object at the opening, it is the very   *)
(* move that was armed, or typed through (src/ui.rs, `repair_confirm`).    *)
THEOREM RepairPanelAsks == Spec => StartsWhatWasAgreed
<1>1. Init => C!Init
  BY DEF Init, NoView, C!Init
<1>2. PanelInv /\ [Next]_vars => [C!Next]_(C!vars)
  BY AsksStep
<1>3. PanelInv /\ [Next]_vars => PanelInv'
  BY InvStep
<1> QED BY <1>1, <1>2, <1>3, InvInit, PTL DEF Spec, StartsWhatWasAgreed, C!Spec

-----------------------------------------------------------------------------
(* The hooks view *)

(* What is known of each part of the state. *)
HookRows == [config : Range(Configurations), index : Nat, name : HookNames, closed : BOOLEAN,
             service : Services \cup {OffCluster},
             reach : ServiceStates \cup {"NotOurs", "Unchecked"}]
Meetings == [Services -> SUBSET ServiceStates]
Answers == [Services -> ServiceStates \cup {"Unchecked", "NotAsked"}]
Readings == [stage : {"none", "due", "probing", "refused", "over"}, rows : Seq(HookRows),
             asking : {"service", "slices", "namespace"}, seen : Answers, met : Meetings]
HookFlips == [config : Range(Configurations), index : Nat, name : HookNames, to : BOOLEAN]
SentFlips == [meant : Range(Configurations) \X HookNames,
              touched : SUBSET (Range(Configurations) \X HookNames)]

Inventories(hooks) ==
  DOMAIN hooks \subseteq Range(Configurations) /\ hooks \in [DOMAIN hooks -> Seq(HookType)]

HookTypes ==
  /\ server = [hooks |-> server.hooks, services |-> server.services]
  /\ Inventories(server.hooks) /\ server.services \in [Services -> ServiceStates]
  /\ fetches \in [1..MaxReadings -> Readings]
  /\ board \in [rows : Seq(HookRows), met : Meetings, error : BOOLEAN, loading : BOOLEAN]
  /\ menu \in [to : BOOLEAN, open : BOOLEAN, confirming : BOOLEAN]
  /\ flips \subseteq HookFlips /\ flipped \in Seq(SentFlips)

(* A word on a service is backed by what the service was met as.           *)
Backed(reach, met) ==
  /\ reach \in {"Ready", "NamespaceGone"} => reach \in met
  /\ reach = "ServiceGone" => \E state \in met : state \in {"ServiceGone", "NamespaceGone"}
  /\ reach = "NoEndpoints" => \E state \in met : state # "Ready"

(* A reading under way has met each service as it is now, has asked of a   *)
(* namespace only for a service that was met gone, and what it was told is *)
(* backed by what it met; one not begun, refused or over has been told     *)
(* nothing.                                                                *)
GoodReading(d) ==
  /\ d.stage # "probing" => d.rows = << >> /\ d.asking = "service" /\ d.seen = NoReading.seen
  /\ d.stage = "probing" => \A s \in Services : server.services[s] \in d.met[s]
  /\ d.asking = "namespace" /\ ToAsk(d) # {} =>
        Backed("ServiceGone", d.met[d.rows[NextToAsk(d)].service])
  /\ \A s \in Services : Backed(d.seen[s], d.met[s])

GoodReadings == \A r \in 1..MaxReadings : GoodReading(fetches[r])

(* So is what the table says.                                              *)
GoodTable ==
  \A i \in DOMAIN board.rows :
    LET h == board.rows[i]
    IN  /\ h.reach = "NotOurs" <=> h.service = OffCluster
        /\ h.service \in Services => Backed(h.reach, board.met[h.service])

HookInv == HookTypes /\ GoodReadings /\ GoodTable /\ FlipIsTheRow

-----------------------------------------------------------------------------
(* Readings *)

LEMMA NextIsToAsk ==
  ASSUME NEW d \in Readings, ToAsk(d) # {}
  PROVE  /\ NextToAsk(d) \in DOMAIN d.rows
         /\ d.rows[NextToAsk(d)].service \in Services
<1> DEFINE V == {i \in ToAsk(d) : d.rows[i].config.kind = "val"}
           T == IF V # {} THEN V ELSE ToAsk(d)
<1>1. d.rows \in Seq(HookRows)
  BY DEF Readings
<1>2. DOMAIN d.rows \subseteq Nat
  BY <1>1
<1>3. T \in SUBSET Nat /\ T # {} /\ T \subseteq ToAsk(d)
  BY <1>2 DEF ToAsk
<1>4. Min(T) \in T
  <2> HIDE DEF T
  <2> QED BY <1>3, MinIsOne
<1>5. NextToAsk(d) = Min(T)
  BY DEF NextToAsk
<1> QED BY <1>3, <1>4, <1>5 DEF ToAsk

LEMMA NoReadingIs == NoReading \in Readings /\ NoReading.rows = << >>
<1>1. << >> \in Seq(HookRows)
  OBVIOUS
<1>2. NoReading.seen \in Answers /\ NoReading.met \in Meetings
  BY DEF NoReading, Answers, Meetings
<1> QED BY <1>1, <1>2 DEF NoReading, Readings

LEMMA RowsAreTyped ==
  ASSUME NEW hooks, Inventories(hooks) PROVE RowsOf(hooks) \in Seq(HookRows)
<1> DEFINE RowsIn(config) == [i \in DOMAIN hooks[config] |-> RowOf(config, i, hooks[config][i])]
           all == [c \in DOMAIN Configurations |->
                     IF Configurations[c] \notin DOMAIN hooks THEN << >> ELSE RowsIn(Configurations[c])]
<1>1. ASSUME NEW config \in DOMAIN hooks PROVE RowsIn(config) \in Seq(HookRows)
  <2>1. PICK q \in Seq(HookType) : q = hooks[config]
    BY DEF Inventories
  <2>2. config \in Range(Configurations)
    BY DEF Inventories
  <2>3. \A i \in 1..Len(q) : q[i] \in HookType /\ i \in Nat
    BY <2>1
  <2>4. \A i \in 1..Len(q) : RowOf(config, i, q[i]) \in HookRows
    BY <2>2, <2>3 DEF RowOf, HookRows, HookType
  <2>5. RowsIn(config) = [i \in 1..Len(q) |-> RowOf(config, i, q[i])]
    BY <2>1
  <2> QED BY <2>1, <2>4, <2>5
<1>2. PICK n \in Nat : DOMAIN Configurations = 1..n
  BY HookAssumption
<1>3. << >> \in Seq(HookRows)
  OBVIOUS
<1>4. \A c \in 1..n : all[c] \in Seq(HookRows)
  <2> HIDE DEF RowsIn
  <2> QED BY <1>1, <1>2, <1>3
<1>5. all \in Seq(Seq(HookRows))
  <2>1. all = [c \in 1..n |-> all[c]]
    BY <1>2
  <2> HIDE DEF all
  <2> QED BY <1>4, <2>1
<1>6. FlattenSeq(all) \in Seq(HookRows)
  <2> HIDE DEF all
  <2> QED BY <1>5, FlattenType
<1>7. RowsOf(hooks) = FlattenSeq(all)
  BY DEF RowsOf
<1> QED BY <1>6, <1>7

(* A step of one reading, that leaves the table and the flips alone.       *)
LEMMA ReadingSteps ==
  ASSUME HookInv, NEW r \in 1..MaxReadings, NEW d \in Readings, GoodReading(d),
         fetches' = [fetches EXCEPT ![r] = d],
         server' = server, flips' = flips, flipped' = flipped, menu' = menu,
         board' \in [rows : Seq(HookRows), met : Meetings, error : BOOLEAN, loading : BOOLEAN],
         GoodTable'
  PROVE  HookInv'
<1>1. HookTypes'
  BY DEF HookInv, HookTypes, Inventories
<1>2. ASSUME NEW o \in Readings, GoodReading(o) PROVE GoodReading(o)'
  BY <1>2 DEF GoodReading, ToAsk, NextToAsk, Backed
<1>3. GoodReadings'
  <2> SUFFICES ASSUME NEW q \in 1..MaxReadings PROVE GoodReading(fetches[q])'
    BY DEF GoodReadings
  <2>1. PICK o \in Readings : o = fetches'[q] /\ GoodReading(o)
    BY DEF HookInv, GoodReadings, HookTypes
  <2>2. GoodReading(o)'
    BY <1>2, <2>1
  <2> QED BY <2>1, <2>2 DEF GoodReading
<1>4. FlipIsTheRow'
  BY DEF HookInv, FlipIsTheRow
<1> QED BY <1>1, <1>3, <1>4 DEF HookInv

(* Steps that touch neither the readings nor what they are judged by.      *)
LEMMA OtherSteps ==
  ASSUME HookInv, server' = server, fetches' = fetches, flipped' = flipped,
         (board' = board \/ \E l \in BOOLEAN : board' = [board EXCEPT !.loading = l]),
         menu' \in [to : BOOLEAN, open : BOOLEAN, confirming : BOOLEAN], flips' \subseteq HookFlips
  PROVE  HookInv'
<1>1. /\ board' \in [rows : Seq(HookRows), met : Meetings, error : BOOLEAN, loading : BOOLEAN]
      /\ board'.rows = board.rows /\ board'.met = board.met
  BY DEF HookInv, HookTypes
<1>2. HookTypes'
  BY <1>1 DEF HookInv, HookTypes, Inventories
<1>3. ASSUME NEW r \in 1..MaxReadings PROVE GoodReading(fetches[r])'
  <2>1. PICK d : d = fetches[r] /\ d = fetches'[r] /\ GoodReading(d)
    BY DEF HookInv, GoodReadings
  <2>2. GoodReading(d)' <=> GoodReading(d)
    BY DEF GoodReading, ToAsk, NextToAsk, Backed
  <2> QED BY <2>1, <2>2
<1>4. GoodReadings' /\ FlipIsTheRow'
  BY <1>3 DEF HookInv, GoodReadings, FlipIsTheRow
<1>5. GoodTable'
  BY <1>1 DEF HookInv, GoodTable, Backed
<1> QED BY <1>2, <1>4, <1>5 DEF HookInv

LEMMA UnreadIs ==
  ASSUME HookInv, Unread # {}
  PROVE  \E r \in 1..MaxReadings, d \in Readings :
           /\ GoodReading(d) /\ Spawned = [fetches EXCEPT ![r] = d]
<1>1. Unread \in SUBSET Nat /\ Unread \subseteq 1..MaxReadings
  BY HookAssumption DEF HookInv, HookTypes, Unread
<1>2. PICK r \in Unread : r = Min(Unread)
  BY <1>1, MinIsOne
<1>3. PICK o \in Readings : o = fetches[r] /\ GoodReading(o) /\ o.stage = "none"
  BY <1>1, <1>2 DEF HookInv, HookTypes, GoodReadings, Unread
<1>4. PICK d \in Readings : d = [o EXCEPT !.stage = "due"]
  BY <1>3 DEF Readings
<1>5. /\ d.rows = o.rows /\ d.asking = o.asking /\ d.seen = o.seen /\ d.met = o.met
      /\ d.stage = "due"
  BY <1>3, <1>4 DEF Readings
<1>6. GoodReading(d)
  BY <1>3, <1>5 DEF GoodReading, ToAsk, NextToAsk
<1>7. Spawned = [fetches EXCEPT ![r] = d]
  BY <1>2, <1>3, <1>4 DEF Spawned
<1> QED BY <1>1, <1>6, <1>7

LEMMA InvRefreshHooks == ASSUME HookInv, RefreshHooks PROVE HookInv'
<1>1. PICK r \in 1..MaxReadings, d \in Readings :
        GoodReading(d) /\ fetches' = [fetches EXCEPT ![r] = d]
  BY UnreadIs DEF RefreshHooks
<1>2. /\ board' \in [rows : Seq(HookRows), met : Meetings, error : BOOLEAN, loading : BOOLEAN]
      /\ board'.rows = board.rows /\ board'.met = board.met
  BY DEF HookInv, HookTypes, RefreshHooks
<1>3. GoodTable'
  BY <1>2 DEF HookInv, GoodTable, Backed
<1> QED BY <1>1, <1>2, <1>3, ReadingSteps DEF RefreshHooks

LEMMA InvListHooks ==
  ASSUME HookInv, NEW r \in 1..MaxReadings, NEW fails \in BOOLEAN, ListHooks(r, fails)
  PROVE  HookInv'
<1>1. PICK o \in Readings : o = fetches[r] /\ GoodReading(o) /\ o.stage = "due"
  BY DEF HookInv, HookTypes, GoodReadings, ListHooks
<1>2. PICK rows \in Seq(HookRows) : rows = RowsOf(server.hooks)
  BY RowsAreTyped DEF HookInv, HookTypes
<1>3. PICK met \in Meetings : met = [s \in Services |-> {server.services[s]}]
  BY DEF HookInv, HookTypes, Meetings
<1>4. << >> \in Seq(HookRows)
  OBVIOUS
<1>5. PICK d \in Readings : d = [o EXCEPT !.stage = IF fails THEN "refused" ELSE "probing",
                                          !.rows = IF fails THEN << >> ELSE rows, !.met = met]
  BY <1>1, <1>4 DEF Readings
<1>6. /\ d.stage = IF fails THEN "refused" ELSE "probing"
      /\ d.rows = IF fails THEN << >> ELSE rows
      /\ d.met = met /\ d.asking = "service" /\ d.seen = NoReading.seen
  BY <1>1, <1>5 DEF Readings, GoodReading
<1>7. GoodReading(d)
  BY <1>3, <1>6 DEF GoodReading, Backed, NoReading
<1>8. fetches' = [fetches EXCEPT ![r] = d]
  BY <1>1, <1>2, <1>3, <1>5 DEF ListHooks
<1>9. /\ board' \in [rows : Seq(HookRows), met : Meetings, error : BOOLEAN, loading : BOOLEAN]
      /\ board'.rows = board.rows /\ board'.met = board.met
  BY DEF HookInv, HookTypes, ListHooks
<1>10. GoodTable'
  BY <1>9 DEF HookInv, GoodTable, Backed
<1> QED BY <1>7, <1>8, <1>9, <1>10, ReadingSteps DEF ListHooks

(* What a reading that asks knows of whom it asks about.                   *)
LEMMA AskingIs ==
  ASSUME HookInv, NEW r \in 1..MaxReadings, NEW call, Probing(r, call)
  PROVE  \E d \in Readings, s \in Services :
           /\ d = fetches[r] /\ GoodReading(d) /\ AskedFor(r) = s
           /\ s = d.rows[NextToAsk(d)].service
           /\ d.stage = "probing" /\ d.asking = call /\ ToAsk(d) # {}
           /\ server.services[s] \in d.met[s] /\ server.services[s] \in ServiceStates
<1>1. PICK d \in Readings : d = fetches[r] /\ GoodReading(d)
  BY DEF HookInv, HookTypes, GoodReadings
<1>2. d.stage = "probing" /\ d.asking = call /\ ToAsk(d) # {}
  BY <1>1 DEF Probing
<1>3. PICK s \in Services : s = d.rows[NextToAsk(d)].service
  BY <1>2, NextIsToAsk
<1>4. server.services[s] \in d.met[s] /\ server.services[s] \in ServiceStates
  BY <1>1, <1>2 DEF GoodReading, HookInv, HookTypes
<1> QED BY <1>1, <1>2, <1>3, <1>4 DEF AskedFor

(* What is kept of a service is backed by what it was met as.              *)
LEMMA InvSeen ==
  ASSUME HookInv, NEW r \in 1..MaxReadings, NEW d \in Readings, NEW s \in Services,
         d = fetches[r], GoodReading(d), d.stage = "probing", AskedFor(r) = s,
         NEW reach \in ServiceStates \cup {"Unchecked"}, Backed(reach, d.met[s]), Seen(r, reach)
  PROVE  HookInv'
<1>1. d.seen \in Answers /\ reach \in ServiceStates \cup {"Unchecked", "NotAsked"}
  BY DEF Readings
<1>2. PICK seen \in Answers : seen = [d.seen EXCEPT ![s] = reach]
  BY <1>1 DEF Answers
<1>3. PICK new \in Readings : new = [d EXCEPT !.asking = "service", !.seen = seen]
  BY DEF Readings
<1>4. /\ new.stage = "probing" /\ new.rows = d.rows /\ new.met = d.met /\ new.asking = "service"
      /\ new.seen = seen
  BY <1>3 DEF Readings
<1>5. \A x \in Services : seen[x] = IF x = s THEN reach ELSE d.seen[x]
  BY <1>1, <1>2 DEF Answers
<1>6. GoodReading(new)
  BY <1>4, <1>5 DEF GoodReading
<1>7. fetches' = [fetches EXCEPT ![r] = new]
  BY <1>2, <1>3 DEF Seen, Reads
<1>8. GoodTable' /\ board' = board
  BY DEF HookInv, GoodTable, Backed, Seen, Reads
<1> QED BY <1>6, <1>7, <1>8, ReadingSteps DEF Seen, Reads, HookInv, HookTypes

LEMMA InvGetService ==
  ASSUME HookInv, NEW r \in 1..MaxReadings, NEW fails \in BOOLEAN, GetService(r, fails)
  PROVE  HookInv'
<1>1. PICK d \in Readings, s \in Services :
        /\ d = fetches[r] /\ GoodReading(d) /\ AskedFor(r) = s
        /\ s = d.rows[NextToAsk(d)].service
        /\ d.stage = "probing" /\ d.asking = "service" /\ ToAsk(d) # {}
        /\ server.services[s] \in d.met[s] /\ server.services[s] \in ServiceStates
  BY AskingIs DEF GetService
<1>2. CASE fails
  <2>1. Seen(r, "Unchecked") /\ Backed("Unchecked", d.met[s])
    BY <1>2 DEF GetService, Backed
  <2> QED BY <1>1, <2>1, InvSeen
<1>3. CASE ~fails
  <2>1. PICK ask \in {"slices", "namespace"} :
          ask = IF server.services[s] \in {"Ready", "NoEndpoints"} THEN "slices" ELSE "namespace"
    OBVIOUS
  <2>2. PICK new \in Readings : new = [d EXCEPT !.asking = ask]
    BY DEF Readings
  <2>3. /\ new.stage = "probing" /\ new.rows = d.rows /\ new.met = d.met /\ new.asking = ask
        /\ new.seen = d.seen
    BY <1>1, <2>2 DEF Readings
  <2>4. ToAsk(new) = ToAsk(d) /\ NextToAsk(new) = NextToAsk(d)
    BY <2>3 DEF ToAsk, NextToAsk
  <2>5. ask = "namespace" => Backed("ServiceGone", d.met[s])
    BY <1>1, <2>1 DEF Backed, ServiceStates, Faults
  <2>6. GoodReading(new)
    BY <1>1, <2>3, <2>4, <2>5 DEF GoodReading
  <2>7. Reads(r, new)
    BY <1>1, <1>3, <2>1, <2>2 DEF GetService
  <2>8. GoodTable' /\ board' = board
    BY <2>7 DEF HookInv, GoodTable, Backed, Reads
  <2> QED BY <2>6, <2>7, <2>8, ReadingSteps DEF Reads, HookInv, HookTypes
<1> QED BY <1>2, <1>3

LEMMA InvListSlices ==
  ASSUME HookInv, NEW r \in 1..MaxReadings, NEW fails \in BOOLEAN, ListSlices(r, fails)
  PROVE  HookInv'
<1>1. PICK d \in Readings, s \in Services :
        /\ d = fetches[r] /\ GoodReading(d) /\ AskedFor(r) = s
        /\ d.stage = "probing" /\ server.services[s] \in d.met[s]
  BY AskingIs DEF ListSlices
<1>2. PICK reach \in ServiceStates \cup {"Unchecked"} :
        reach = IF fails THEN "Unchecked"
                ELSE IF server.services[s] = "Ready" THEN "Ready" ELSE "NoEndpoints"
  BY DEF ServiceStates, Faults
<1>3. Backed(reach, d.met[s])
  BY <1>1, <1>2 DEF Backed
<1>4. Seen(r, reach)
  BY <1>1, <1>2 DEF ListSlices
<1> QED BY <1>1, <1>3, <1>4, InvSeen

LEMMA InvGetNamespace ==
  ASSUME HookInv, NEW r \in 1..MaxReadings, NEW fails \in BOOLEAN, GetNamespace(r, fails)
  PROVE  HookInv'
<1>1. PICK d \in Readings, s \in Services :
        /\ d = fetches[r] /\ GoodReading(d) /\ AskedFor(r) = s
        /\ s = d.rows[NextToAsk(d)].service
        /\ d.stage = "probing" /\ d.asking = "namespace" /\ ToAsk(d) # {}
        /\ server.services[s] \in d.met[s] /\ server.services[s] \in ServiceStates
  BY AskingIs DEF GetNamespace
<1>2. PICK reach \in ServiceStates \cup {"Unchecked"} :
        reach = IF ~fails /\ server.services[s] = "NamespaceGone" THEN "NamespaceGone"
                ELSE "ServiceGone"
  BY DEF ServiceStates, Faults
<1>3. Backed("ServiceGone", d.met[s])
  BY <1>1 DEF GoodReading
<1>4. Backed(reach, d.met[s])
  BY <1>1, <1>2, <1>3 DEF Backed
<1>5. Seen(r, reach)
  BY <1>1, <1>2 DEF GetNamespace
<1> QED BY <1>1, <1>4, <1>5, InvSeen

(* The table is drawn from a reading that is over, which asked about all.  *)
LEMMA InvPublish ==
  ASSUME HookInv, NEW r \in 1..MaxReadings, PublishHooks(r) PROVE HookInv'
<1>1. PICK d \in Readings : d = fetches[r] /\ GoodReading(d)
  BY DEF HookInv, HookTypes, GoodReadings
<1>2. /\ d.stage # "probing" => d.rows = << >>
      /\ d.stage = "probing" => ToAsk(d) = {}
  BY <1>1 DEF PublishHooks, GoodReading
<1>3. PICK n \in Nat : DOMAIN d.rows = 1..n /\ \A i \in 1..n : d.rows[i] \in HookRows
  BY DEF Readings
<1>4. ASSUME NEW i \in 1..n
      PROVE  /\ Reached(d, d.rows[i]) \in HookRows
             /\ Reached(d, d.rows[i]).service = d.rows[i].service
             /\ Reached(d, d.rows[i]).reach = "NotOurs" <=> d.rows[i].service = OffCluster
             /\ d.rows[i].service \in Services =>
                  Backed(Reached(d, d.rows[i]).reach, d.met[d.rows[i].service])
  <2>1. PICK h \in HookRows : h = d.rows[i]
    BY <1>3
  <2>2. d.stage = "probing" /\ i \notin ToAsk(d) /\ i \in DOMAIN d.rows
    BY <1>2, <1>3
  <2>3. h.service \in Services \cup {OffCluster}
    BY DEF HookRows
  <2>4. h.service \in Services => d.seen[h.service] \in ServiceStates \cup {"Unchecked"}
    BY <2>1, <2>2 DEF ToAsk, Readings, Answers
  <2>5. PICK reach \in ServiceStates \cup {"NotOurs", "Unchecked"} :
          reach = IF h.service = OffCluster THEN "NotOurs" ELSE d.seen[h.service]
    BY <2>3, <2>4
  <2>6. PICK new \in HookRows : new = [h EXCEPT !.reach = reach]
    BY DEF HookRows
  <2>7. new.service = h.service /\ new.reach = reach /\ Reached(d, h) = new
    BY <2>5, <2>6 DEF Reached, HookRows
  <2>8. reach = "NotOurs" <=> h.service = OffCluster
    BY <2>3, <2>4, <2>5 DEF ServiceStates, Faults
  <2>9. h.service \in Services => Backed(reach, d.met[h.service])
    BY <1>1, <2>5, HookAssumption DEF GoodReading
  <2> QED BY <2>1, <2>7, <2>8, <2>9
<1>5. PICK rows \in Seq(HookRows) :
        /\ rows = [i \in DOMAIN d.rows |-> Reached(d, d.rows[i])]
        /\ DOMAIN rows = 1..n /\ \A i \in 1..n : rows[i] = Reached(d, d.rows[i])
  <2>1. PICK f : f = [i \in 1..n |-> Reached(d, d.rows[i])]
    OBVIOUS
  <2>2. f \in Seq(HookRows)
    BY <1>4, <2>1
  <2> QED BY <1>3, <2>1, <2>2
<1>6. PICK error \in BOOLEAN : error = (d.stage = "refused")
  OBVIOUS
<1>7. board' = [rows |-> rows, met |-> d.met, error |-> error, loading |-> FALSE]
  BY <1>1, <1>5, <1>6 DEF PublishHooks
<1>8. /\ board' \in [rows : Seq(HookRows), met : Meetings, error : BOOLEAN, loading : BOOLEAN]
      /\ board'.rows = rows /\ board'.met = d.met
  BY <1>7 DEF Readings
<1>9. GoodTable'
  BY <1>4, <1>5, <1>8 DEF GoodTable, Backed
<1>10. PICK o \in Readings : o = NoReading
  BY NoReadingIs
<1>11. PICK new \in Readings : new = [o EXCEPT !.stage = "over"]
  BY DEF Readings
<1>12. /\ new.stage = "over" /\ new.rows = << >> /\ new.asking = "service"
       /\ new.seen = NoReading.seen /\ new.met = NoReading.met
  BY <1>10, <1>11, NoReadingIs DEF Readings, NoReading
<1>13. GoodReading(new)
  BY <1>12 DEF GoodReading, NoReading, Backed
<1>14. fetches' = [fetches EXCEPT ![r] = new]
  BY <1>10, <1>11 DEF PublishHooks
<1> QED BY <1>8, <1>9, <1>13, <1>14, ReadingSteps DEF PublishHooks

-----------------------------------------------------------------------------
(* Flips *)

LEMMA PatchTouches ==
  ASSUME NEW hooks, Inventories(hooks), NEW f \in HookFlips
  PROVE  /\ Inventories(Patched(hooks, f))
         /\ Touched(hooks, Patched(hooks, f)) \subseteq {<<f.config, f.name>>}
<1> DEFINE c == f.config
           i == f.index
<1>1. CASE /\ c \in DOMAIN hooks /\ i \in DOMAIN hooks[c] /\ hooks[c][i].name = f.name
  <2>1. PICK q \in Seq(HookType) : q = hooks[c]
    BY <1>1 DEF Inventories
  <2>2. PICK w \in HookType : w = q[i]
    BY <1>1, <2>1
  <2>3. PICK v \in HookType : v = [w EXCEPT !.closed = f.to]
    BY DEF HookType, HookFlips
  <2>4. PICK p : p = [q EXCEPT ![i] = v]
    OBVIOUS
  <2>5. p \in Seq(HookType) /\ DOMAIN p = DOMAIN q /\ \A j \in DOMAIN q : j # i => p[j] = q[j]
    BY <1>1, <2>1, <2>4
  <2>6. PICK after : after = [hooks EXCEPT ![c] = p]
    OBVIOUS
  <2>7. Patched(hooks, f) = after
    BY <1>1, <2>1, <2>2, <2>3, <2>4, <2>6 DEF Patched
  <2>8. /\ DOMAIN after = DOMAIN hooks
        /\ \A x \in DOMAIN hooks : after[x] = IF x = c THEN p ELSE hooks[x]
    BY <2>6 DEF Inventories
  <2>9. Inventories(after)
    BY <2>5, <2>6, <2>8 DEF Inventories
  <2>10. ASSUME NEW x \in DOMAIN hooks, NEW j \in DOMAIN hooks[x], hooks[x][j] # after[x][j]
         PROVE  <<x, hooks[x][j].name>> = <<f.config, f.name>>
    BY <1>1, <2>1, <2>5, <2>8, <2>10
  <2>11. Touched(hooks, after) \subseteq {<<f.config, f.name>>}
    BY <2>10 DEF Touched
  <2> QED BY <2>7, <2>9, <2>11
<1>2. CASE ~ /\ c \in DOMAIN hooks /\ i \in DOMAIN hooks[c] /\ hooks[c][i].name = f.name
  BY <1>2 DEF Patched, Touched
<1> QED BY <1>1, <1>2

LEMMA InvSendFlip ==
  ASSUME HookInv, NEW f \in flips, NEW fails \in BOOLEAN, SendFlip(f, fails) PROVE HookInv'
<1>1. f \in HookFlips
  BY DEF HookInv, HookTypes
<1>2. PICK before, services : /\ server = [hooks |-> before, services |-> services]
                              /\ Inventories(before) /\ services \in [Services -> ServiceStates]
  BY DEF HookInv, HookTypes
<1>3. PICK after : after = IF fails THEN before ELSE Patched(before, f)
  OBVIOUS
<1>4. Inventories(after) /\ Touched(before, after) \subseteq {<<f.config, f.name>>}
  <2>1. CASE fails
    BY <1>2, <1>3, <2>1 DEF Touched
  <2>2. CASE ~fails
    BY <1>1, <1>2, <1>3, <2>2, PatchTouches
  <2> QED BY <2>1, <2>2
<1>5. server' = [hooks |-> after, services |-> services]
  BY <1>2, <1>3 DEF SendFlip
<1>6. PICK sent \in SentFlips :
        sent = [meant |-> <<f.config, f.name>>, touched |-> Touched(before, after)]
  <2>1. <<f.config, f.name>> \in Range(Configurations) \X HookNames
    BY <1>1 DEF HookFlips
  <2>2. Touched(before, after) \in SUBSET (Range(Configurations) \X HookNames)
    BY <1>4, <2>1
  <2> QED BY <2>1, <2>2 DEF SentFlips
<1>7. sent.touched \subseteq {sent.meant}
  BY <1>4, <1>6
<1>8. flipped' = Append(flipped, sent)
  BY <1>2, <1>3, <1>6 DEF SendFlip
<1>9. FlipIsTheRow' /\ flipped' \in Seq(SentFlips)
  <2>1. flipped \in Seq(SentFlips)
    BY DEF HookInv, HookTypes
  <2>2. PICK n \in Nat : n = Len(flipped) /\ DOMAIN flipped = 1..n
    BY <2>1
  <2>3. /\ flipped' \in Seq(SentFlips) /\ DOMAIN flipped' = 1..(n + 1)
        /\ flipped'[n + 1] = sent /\ \A i \in 1..n : flipped'[i] = flipped[i]
    BY <1>8, <2>1, <2>2, AppendProperties
  <2>4. \A i \in 1..(n + 1) : i \in 1..n \/ i = n + 1
    OBVIOUS
  <2> QED BY <1>7, <2>2, <2>3, <2>4 DEF HookInv, FlipIsTheRow
<1>10. PICK r \in 1..MaxReadings, d \in Readings :
         GoodReading(d) /\ fetches' = [fetches EXCEPT ![r] = d]
  BY UnreadIs DEF SendFlip
<1>11. HookTypes'
  <2>1. Inventories(server'.hooks) /\ server'.services \in [Services -> ServiceStates]
        /\ server' = [hooks |-> server'.hooks, services |-> server'.services]
    BY <1>2, <1>4, <1>5
  <2>2. fetches' \in [1..MaxReadings -> Readings]
    BY <1>10 DEF HookInv, HookTypes
  <2>3. board' = board /\ menu' = menu /\ flips' \subseteq flips
    BY DEF SendFlip
  <2> QED BY <1>9, <2>1, <2>2, <2>3 DEF HookInv, HookTypes, Inventories
<1>12. server'.services = server.services
  BY <1>2, <1>5
<1>13. GoodReadings'
  <2> SUFFICES ASSUME NEW q \in 1..MaxReadings PROVE GoodReading(fetches[q])'
    BY DEF GoodReadings
  <2>1. PICK o \in Readings : o = fetches'[q] /\ GoodReading(o)
    BY <1>10 DEF HookInv, GoodReadings, HookTypes
  <2>2. GoodReading(o)'
    BY <1>12, <2>1 DEF GoodReading, ToAsk, NextToAsk, Backed
  <2> QED BY <2>1, <2>2 DEF GoodReading
<1>14. GoodTable'
  BY DEF HookInv, GoodTable, Backed, SendFlip
<1> QED BY <1>9, <1>11, <1>13, <1>14 DEF HookInv

-----------------------------------------------------------------------------
(* What others do *)

LEMMA InvUpset ==
  ASSUME HookInv, NEW hooks, Inventories(hooks), NEW services \in [Services -> ServiceStates],
         NEW new, new = [hooks |-> hooks, services |-> services], Upset(new)
  PROVE  HookInv'
<1>1. /\ server' = new /\ server'.services = services
      /\ board' = board /\ menu' = menu /\ flips' = flips /\ flipped' = flipped
  BY DEF Upset
<1>2. ASSUME NEW r \in 1..MaxReadings
      PROVE  fetches'[r] \in Readings /\ GoodReading(fetches[r])'
  <2>1. PICK o \in Readings : o = fetches[r] /\ GoodReading(o)
    BY DEF HookInv, HookTypes, GoodReadings
  <2>2. CASE o.stage # "probing"
    <3>1. fetches'[r] = o
      BY <2>1, <2>2 DEF Upset, HookInv, HookTypes
    <3>2. GoodReading(o)'
      BY <2>1, <2>2 DEF GoodReading, ToAsk, NextToAsk, Backed
    <3> QED BY <3>1, <3>2 DEF GoodReading
  <2>3. CASE o.stage = "probing"
    <3>1. PICK met : met = [s \in Services |-> o.met[s] \cup {services[s]}]
      OBVIOUS
    <3>2. met \in Meetings
      BY <3>1 DEF Meetings, Readings
    <3>3. PICK d \in Readings : d = [o EXCEPT !.met = met]
      BY <3>2 DEF Readings
    <3>4. fetches'[r] = d
      BY <2>1, <2>3, <3>1, <3>3 DEF Upset, HookInv, HookTypes
    <3>5. /\ d.stage = "probing" /\ d.rows = o.rows /\ d.asking = o.asking /\ d.seen = o.seen
          /\ d.met = met
      BY <2>3, <3>3 DEF Readings
    <3>6. ToAsk(d) = ToAsk(o) /\ NextToAsk(d) = NextToAsk(o)
      BY <3>5 DEF ToAsk, NextToAsk
    <3>7. \A reach : \A s \in Services : Backed(reach, o.met[s]) => Backed(reach, met[s])
      BY <3>1 DEF Backed
    <3>8. d.asking = "namespace" /\ ToAsk(d) # {} =>
            Backed("ServiceGone", d.met[d.rows[NextToAsk(d)].service])
      <4>1. ToAsk(o) # {} => o.rows[NextToAsk(o)].service \in Services
        BY NextIsToAsk
      <4> QED BY <2>1, <3>5, <3>6, <3>7, <4>1 DEF GoodReading
    <3>9. \A s \in Services : Backed(d.seen[s], d.met[s])
      BY <2>1, <3>5, <3>7 DEF GoodReading
    <3>10. \A s \in Services : services[s] \in d.met[s]
      BY <3>1, <3>5
    <3>11. GoodReading(d)'
      BY <1>1, <3>5, <3>8, <3>9, <3>10 DEF GoodReading, ToAsk, NextToAsk, Backed
    <3> QED BY <3>4, <3>11 DEF GoodReading
  <2> QED BY <2>2, <2>3
<1>3. HookTypes'
  <2>1. fetches' \in [1..MaxReadings -> Readings]
    BY <1>2 DEF Upset, HookInv, HookTypes
  <2> QED BY <1>1, <2>1 DEF HookInv, HookTypes, Inventories
<1>4. GoodReadings'
  BY <1>2 DEF GoodReadings
<1>5. GoodTable' /\ FlipIsTheRow'
  BY <1>1 DEF HookInv, GoodTable, Backed, FlipIsTheRow
<1> QED BY <1>3, <1>4, <1>5 DEF HookInv

LEMMA ServerIs ==
  ASSUME HookInv
  PROVE  \E hooks, services :
           /\ server = [hooks |-> hooks, services |-> services]
           /\ Inventories(hooks) /\ services \in [Services -> ServiceStates]
<1>1. PICK hooks, services : hooks = server.hooks /\ services = server.services
  OBVIOUS
<1>2. /\ services \in [Services -> ServiceStates] /\ Inventories(hooks)
      /\ server = [hooks |-> hooks, services |-> services]
  BY <1>1 DEF HookInv, HookTypes
<1> QED BY <1>2

LEMMA InvReordered == ASSUME HookInv, NEW c, Reordered(c) PROVE HookInv'
<1>1. PICK hooks, services :
        /\ server = [hooks |-> hooks, services |-> services]
        /\ Inventories(hooks) /\ services \in [Services -> ServiceStates]
  BY ServerIs
<1>2. PICK q \in Seq(HookType) : q = hooks[c] /\ c \in DOMAIN hooks
  BY <1>1 DEF Reordered, Inventories
<1>3. PICK p \in Seq(HookType) : p = Reverse(q)
  <2>1. Reverse(q) \in Seq(HookType)
    BY DEF Reverse
  <2> QED BY <2>1
<1>4. PICK after : after = [hooks EXCEPT ![c] = p]
  OBVIOUS
<1>5. Inventories(after)
  BY <1>1, <1>2, <1>3, <1>4 DEF Inventories
<1>6. PICK new : new = [hooks |-> after, services |-> services]
  OBVIOUS
<1>7. Upset(new)
  BY <1>1, <1>2, <1>3, <1>4, <1>6 DEF Reordered
<1> QED BY <1>1, <1>5, <1>6, <1>7, InvUpset

LEMMA InvRemoved == ASSUME HookInv, NEW c, Removed(c) PROVE HookInv'
<1>1. PICK hooks, services :
        /\ server = [hooks |-> hooks, services |-> services]
        /\ Inventories(hooks) /\ services \in [Services -> ServiceStates]
  BY ServerIs
<1>2. PICK after : after = Restrict(hooks, DOMAIN hooks \ {c})
  OBVIOUS
<1>3. Inventories(after)
  BY <1>1, <1>2 DEF Inventories, Restrict
<1>4. PICK new : new = [hooks |-> after, services |-> services]
  OBVIOUS
<1>5. Upset(new)
  BY <1>1, <1>2, <1>4 DEF Removed
<1> QED BY <1>1, <1>3, <1>4, <1>5, InvUpset

LEMMA InvServiceTurns ==
  ASSUME HookInv, NEW s \in Services, NEW state \in ServiceStates, ServiceTurns(s, state)
  PROVE  HookInv'
<1>1. PICK hooks, services :
        /\ server = [hooks |-> hooks, services |-> services]
        /\ Inventories(hooks) /\ services \in [Services -> ServiceStates]
  BY ServerIs
<1>2. PICK after \in [Services -> ServiceStates] : after = [services EXCEPT ![s] = state]
  BY <1>1
<1>3. PICK new : new = [hooks |-> hooks, services |-> after]
  OBVIOUS
<1>4. Upset(new)
  BY <1>1, <1>2, <1>3 DEF ServiceTurns
<1> QED BY <1>1, <1>3, <1>4, InvUpset

-----------------------------------------------------------------------------
(* Keys *)

LEMMA InvKeys ==
  ASSUME HookInv, \/ \E h \in Range(board.rows) : MoveHookSelection(h) \/ OpenHooksMenu(h)
                  \/ ArmFlip \/ MenuBack
  PROVE  HookInv'
<1>1. server' = server /\ fetches' = fetches /\ flipped' = flipped /\ board' = board /\ flips' = flips
  BY DEF MoveHookSelection, OpenHooksMenu, ArmFlip, MenuBack, Raises
<1>2. menu' \in [to : BOOLEAN, open : BOOLEAN, confirming : BOOLEAN]
  <2>1. CASE \E h \in Range(board.rows) : MoveHookSelection(h)
    BY <2>1 DEF MoveHookSelection, HookInv, HookTypes
  <2>2. CASE \E h \in Range(board.rows) : OpenHooksMenu(h)
    <3>1. PICK h \in Range(board.rows) : OpenHooksMenu(h)
      BY <2>2
    <3>2. (~h.closed) \in BOOLEAN
      OBVIOUS
    <3> QED BY <3>1, <3>2 DEF OpenHooksMenu, Raises
  <2>3. CASE ArmFlip \/ MenuBack
    <3>1. PICK m \in [to : BOOLEAN, open : BOOLEAN, confirming : BOOLEAN] : m = menu
      BY DEF HookInv, HookTypes
    <3>2. menu' \in {[m EXCEPT !.confirming = TRUE], [m EXCEPT !.confirming = FALSE], NoMenu}
      BY <2>3, <3>1 DEF ArmFlip, MenuBack, Raises
    <3>3. [m EXCEPT !.confirming = TRUE] \in [to : BOOLEAN, open : BOOLEAN, confirming : BOOLEAN]
      OBVIOUS
    <3>4. [m EXCEPT !.confirming = FALSE] \in [to : BOOLEAN, open : BOOLEAN, confirming : BOOLEAN]
      OBVIOUS
    <3>5. NoMenu \in [to : BOOLEAN, open : BOOLEAN, confirming : BOOLEAN]
      BY DEF NoMenu
    <3> QED BY <3>2, <3>3, <3>4, <3>5
  <2> QED BY <2>1, <2>2, <2>3
<1> QED BY <1>1, <1>2, OtherSteps DEF HookInv, HookTypes

LEMMA InvSetHookFailurePolicy == ASSUME HookInv, SetHookFailurePolicy PROVE HookInv'
<1>1. ASSUME NEW h \in UnderCursor
      PROVE  [config |-> h.config, index |-> h.index, name |-> h.name, to |-> menu.to] \in HookFlips
  <2>1. h \in HookRows
    BY DEF UnderCursor, Range, HookInv, HookTypes
  <2>2. menu.to \in BOOLEAN
    BY DEF HookInv, HookTypes
  <2> QED BY <2>1, <2>2 DEF HookRows, HookFlips
<1>2. flips' \subseteq HookFlips
  BY <1>1 DEF SetHookFailurePolicy, HookInv, HookTypes
<1>3. menu' \in [to : BOOLEAN, open : BOOLEAN, confirming : BOOLEAN]
  BY DEF SetHookFailurePolicy, NoMenu
<1> QED BY <1>2, <1>3, OtherSteps DEF SetHookFailurePolicy

-----------------------------------------------------------------------------
(* The invariant of the hooks view: it holds at first, and every step keeps *)
(* it.                                                                     *)
LEMMA HooksBegin == HookInit => HookInv
<1> SUFFICES ASSUME HookInit PROVE HookInv
  OBVIOUS
<1>1. /\ server = [hooks |-> server.hooks, services |-> server.services]
      /\ server.hooks = Webhooks /\ server.services = [s \in Services |-> "Ready"]
  BY DEF HookInit
<1>2. Inventories(server.hooks) /\ server.services \in [Services -> ServiceStates]
  BY <1>1, HookAssumption DEF Inventories, ServiceStates
<1>3. /\ board.rows = << >>
      /\ board \in [rows : Seq(HookRows), met : Meetings, error : BOOLEAN, loading : BOOLEAN]
  BY NoReadingIs DEF HookInit, Readings
<1>4. flipped = << >> /\ << >> \in Seq(SentFlips)
  BY DEF HookInit
<1>5. HookTypes
  BY <1>1, <1>2, <1>3, <1>4, NoReadingIs DEF HookInit, HookTypes, NoMenu
<1>6. GoodReading(NoReading)
  BY NoReadingIs DEF GoodReading, NoReading, Backed
<1>7. GoodReadings /\ GoodTable /\ FlipIsTheRow
  BY <1>3, <1>4, <1>6 DEF GoodReadings, GoodTable, FlipIsTheRow, HookInit
<1> QED BY <1>5, <1>7 DEF HookInv

LEMMA HooksStep == HookInv /\ [HookNext]_hookVars => HookInv'
<1> SUFFICES ASSUME HookInv, [HookNext]_hookVars PROVE HookInv'
  OBVIOUS
<1>0. DOMAIN fetches = 1..MaxReadings
  BY DEF HookInv, HookTypes
<1>1. CASE ReadingStep
  BY <1>0, <1>1, InvListHooks, InvGetService, InvListSlices, InvGetNamespace, InvPublish
  DEF ReadingStep
<1>2. CASE UserStep
  BY <1>2, InvRefreshHooks, InvKeys, InvSetHookFailurePolicy DEF UserStep
<1>3. CASE OthersStep
  BY <1>3, InvReordered, InvRemoved, InvServiceTurns DEF OthersStep
<1>4. CASE \E f \in flips, fails \in BOOLEAN : SendFlip(f, fails)
  BY <1>4, InvSendFlip
<1>5. CASE UNCHANGED hookVars
  BY <1>5, OtherSteps DEF hookVars, HookInv, HookTypes
<1> QED BY <1>1, <1>2, <1>3, <1>4, <1>5 DEF HookNext

LEMMA HooksAreKept == HookSpec => []HookInv
  BY HooksBegin, HooksStep, PTL DEF HookSpec

LEMMA TableIsHonest == HookInv => HooksAreHonest
<1> SUFFICES ASSUME HookInv PROVE ReachWasTrue
  BY DEF HookInv, HooksAreHonest
<1>1. ASSUME NEW h \in Range(board.rows)
      PROVE  /\ h.reach \in {"NotOurs"} <=> h.service = OffCluster
             /\ h.reach \in ServiceStates =>
                  h.service \in Services /\ Backed(h.reach, board.met[h.service])
  <2>1. PICK i \in DOMAIN board.rows : h = board.rows[i]
    BY DEF Range
  <2>2. h \in HookRows
    BY <2>1 DEF HookInv, HookTypes
  <2>3. h.service \in Services \/ h.service = OffCluster
    BY <2>2 DEF HookRows
  <2>4. "NotOurs" \notin ServiceStates
    BY DEF ServiceStates, Faults
  <2> QED BY <2>1, <2>3, <2>4 DEF HookInv, GoodTable
<1>2. ASSUME NEW reach \in ServiceStates, NEW met, Backed(reach, met)
      PROVE  CASE reach \in {"Ready", "NamespaceGone"} -> reach \in met
               [] reach = "ServiceGone" -> met \cap {"ServiceGone", "NamespaceGone"} # {}
               [] reach = "NoEndpoints" -> met # {"Ready"}
  BY <1>2 DEF Backed, ServiceStates, Faults
<1> QED BY <1>1, <1>2 DEF ReachWasTrue

(* However the configurations are reordered or taken away, readings overlap *)
(* and services come and go, a flip changes the webhook of the row it was  *)
(* given or nothing, and what the table says of a service was so at some   *)
(* moment of the reading it was drawn from (`failure_policy_patch`,        *)
(* `probe_service`).                                                       *)
THEOREM FlipsAndTableAreTrue == HookSpec => []HooksAreHonest
  BY HooksAreKept, TableIsHonest, PTL

-----------------------------------------------------------------------------
(* What is said of webhooks *)

Words == {"ca", "ca expired", "ca expiring", "not judged", "dead", "self-locking", "catch-all",
          "no exclusion", "slow", "side effects", "storage not served", "deprecated",
          "unavailable", "insecure"}
Verdicts == [level : {1, 2, 3}, what : Words]
Bundles == {"absent", "opaque", "parsed"}

LEMMA VerdictType ==
  ASSUME NEW level \in {1, 2, 3}, NEW what \in Words
  PROVE  Verdict(level, what) \in Verdicts
  BY DEF Verdict, Verdicts

LEMMA WhenType ==
  ASSUME NEW c, NEW level \in {1, 2, 3}, NEW what \in Words
  PROVE  /\ When(c, level, what) \in Seq(Verdicts)
         /\ c => Verdict(level, what) \in Elems(When(c, level, what))
<1>1. PICK v \in Verdicts : v = Verdict(level, what)
  BY DEF Verdict, Verdicts
<1>2. <<v>> \in Seq(Verdicts) /\ << >> \in Seq(Verdicts)
  OBVIOUS
<1>3. v \in Elems(<<v>>)
  BY DEF Elems
<1> QED BY <1>1, <1>2, <1>3 DEF When

LEMMA CaHintsType ==
  ASSUME NEW ca, ca.state \in Bundles PROVE CaHints(ca) \in Seq(Verdicts)
<1>1. ca.state = "absent" => CaHints(ca) = <<Verdict(IF ca.injected THEN 1 ELSE 2, "ca")>>
  BY DEF CaHints
<1>2. ca.state = "opaque" => CaHints(ca) = <<Verdict(2, "ca")>>
  BY DEF CaHints
<1>3. ca.state = "parsed" =>
        CaHints(ca) = When(Soonest(ca.days) <= 0, 3, "ca expired")
                        \o When(Soonest(ca.days) \in 1..ExpiryWarnDays, 2, "ca expiring")
  BY DEF CaHints
<1>4. \A l \in {1, 2, 3} : <<Verdict(l, "ca")>> \in Seq(Verdicts)
  <2> SUFFICES ASSUME NEW l \in {1, 2, 3} PROVE <<Verdict(l, "ca")>> \in Seq(Verdicts)
    OBVIOUS
  <2>1. PICK v \in Verdicts : v = Verdict(l, "ca")
    BY VerdictType DEF Words
  <2>2. <<v>> \in Seq(Verdicts)
    OBVIOUS
  <2> QED BY <2>1, <2>2
<1>5. (IF ca.injected THEN 1 ELSE 2) \in {1, 2, 3} /\ 2 \in {1, 2, 3} /\ 3 \in {1, 2, 3}
  OBVIOUS
<1>6. CASE ca.state = "absent"
  BY <1>1, <1>4, <1>5, <1>6
<1>7. CASE ca.state = "opaque"
  BY <1>2, <1>4, <1>5, <1>7
<1>8. CASE ca.state = "parsed"
  <2>1. PICK a \in Seq(Verdicts) : a = When(Soonest(ca.days) <= 0, 3, "ca expired")
    BY WhenType DEF Words
  <2>2. PICK b \in Seq(Verdicts) : b = When(Soonest(ca.days) \in 1..ExpiryWarnDays, 2, "ca expiring")
    BY WhenType DEF Words
  <2>3. a \o b \in Seq(Verdicts)
    BY ConcatHolds
  <2> QED BY <1>3, <1>8, <2>1, <2>2, <2>3
<1> QED BY <1>6, <1>7, <1>8 DEF Bundles

(* x is a sequence over S that holds what q holds.                         *)
Holds(x, q, S) == x \in Seq(S) /\ Elems(q) \subseteq Elems(x)

LEMMA ConcatKeeps ==
  ASSUME NEW S, NEW q, NEW x, Holds(x, q, S), NEW r \in Seq(S) PROVE Holds(x \o r, q, S)
<1>1. x \in Seq(S) /\ Elems(q) \subseteq Elems(x)
  BY DEF Holds
<1>2. x \o r \in Seq(S) /\ Elems(x) \subseteq Elems(x \o r)
  BY <1>1, ConcatHolds
<1> QED BY <1>1, <1>2 DEF Holds

(* A dead webhook is told of first, in red when it fails closed.           *)
LEMMA HintsAre ==
  ASSUME NEW h, h.ca.state \in Bundles
  PROVE  /\ AdmissionHints(h) \in Seq(Verdicts)
         /\ h.reach \in Faults =>
              Verdict(IF h.closed THEN 3 ELSE 2, "dead") \in Elems(AdmissionHints(h))
<1>0. PICK l \in {1, 2, 3} : l = IF h.closed THEN 3 ELSE 2
  OBVIOUS
<1>1. PICK a \in Seq(Verdicts) : /\ a = When(h.reach \in Faults, l, "dead")
                                 /\ h.reach \in Faults => Verdict(l, "dead") \in Elems(a)
  BY WhenType DEF Words
<1>2. PICK b \in Seq(Verdicts) : b = When(SelfLocking(h), 3, "self-locking")
  BY WhenType DEF Words
<1>3. PICK c \in Seq(Verdicts) : c = ScopeHints(h)
  <2>1. PICK m \in {1, 2, 3} : m = IF h.closed /\ ~ExcludesSystem(h.selector) THEN 3 ELSE 2
    OBVIOUS
  <2>2. <<Verdict(m, "catch-all")>> \in Seq(Verdicts)
    <3>1. PICK v \in Verdicts : v = Verdict(m, "catch-all")
      BY VerdictType DEF Words
    <3>2. <<v>> \in Seq(Verdicts)
      OBVIOUS
    <3> QED BY <3>1, <3>2
  <2>3. When(~ExcludesSystem(h.selector) /\ \E r \in h.rules : CoversWrites(r), 2, "no exclusion")
          \in Seq(Verdicts)
    BY WhenType DEF Words
  <2> QED BY <2>1, <2>2, <2>3 DEF ScopeHints
<1>4. PICK d \in Seq(Verdicts) : d = When(h.closed /\ h.timeout >= SlowTimeout, 2, "slow")
  BY WhenType DEF Words
<1>5. PICK e \in Seq(Verdicts) : e = When(h.sideEffects \in {"Some", "Unknown"}, 2, "side effects")
  BY WhenType DEF Words
<1>6. PICK f \in Seq(Verdicts) : f = CaHints(h.ca)
  BY CaHintsType
<1>7. PICK g \in Seq(Verdicts) : g = ReachHints(h)
  BY WhenType DEF ReachHints, Words
<1>8. AdmissionHints(h) = a \o b \o c \o d \o e \o f \o g
  BY <1>0, <1>1, <1>2, <1>3, <1>4, <1>5, <1>6, <1>7 DEF AdmissionHints
<1>9. Holds(a, a, Verdicts)
  BY DEF Holds
<1>10. Holds(a \o b \o c, a, Verdicts)
  BY <1>9, ConcatKeeps
<1>11. Holds(a \o b \o c \o d \o e, a, Verdicts)
  BY <1>10, ConcatKeeps
<1>12. Holds(a \o b \o c \o d \o e \o f \o g, a, Verdicts)
  BY <1>11, ConcatKeeps
<1>13. Holds(AdmissionHints(h), a, Verdicts)
  BY <1>8, <1>12
<1> QED BY <1>0, <1>1, <1>13 DEF Holds

LEMMA WorstIs ==
  ASSUME NEW hints \in Seq(Verdicts)
  PROVE  /\ hints = << >> => WorstHint(hints) = << >>
         /\ hints # << >> => \E w \in Verdicts :
              /\ WorstHint(hints) = <<w>>
              /\ \A v \in Elems(hints) : v.level <= w.level
<1>1. hints = << >> => WorstHint(hints) = << >>
  BY DEF WorstHint
<1>2. ASSUME hints # << >>
      PROVE  \E w \in Verdicts : /\ WorstHint(hints) = <<w>>
                                 /\ \A v \in Elems(hints) : v.level <= w.level
  <2>1. PICK n \in Nat : n = Len(hints) /\ 1 \in 1..n /\ DOMAIN hints = 1..n
    BY <1>2, EmptySeq
  <2>2. \A i \in 1..n : hints[i] \in Verdicts /\ hints[i].level \in {1, 2, 3}
    <3>1. \A i \in 1..n : hints[i] \in Verdicts
      BY <2>1
    <3>2. \A v \in Verdicts : v.level \in {1, 2, 3}
      BY DEF Verdicts
    <3> QED BY <3>1, <3>2
  <2> DEFINE I == {i \in 1..n : \A j \in 1..n : hints[j].level <= hints[i].level}
  <2>3. PICK i \in 1..n : \A j \in 1..n : hints[j].level <= hints[i].level
    <3> DEFINE L(i) == hints[i].level
    <3>1. \A i \in 1..n : L(i) \in {1, 2, 3}
      BY <2>2
    <3> HIDE DEF L
    <3>2. CASE \E i \in 1..n : L(i) = 3
      <4>1. PICK i \in 1..n : L(i) = 3
        BY <3>2
      <4>2. \A j \in 1..n : L(j) <= L(i)
        BY <3>1, <4>1
      <4> QED BY <4>2 DEF L
    <3>3. CASE (\A i \in 1..n : L(i) # 3) /\ \E i \in 1..n : L(i) = 2
      <4>1. PICK i \in 1..n : L(i) = 2
        BY <3>3
      <4>2. \A j \in 1..n : L(j) <= L(i)
        BY <3>1, <3>3, <4>1
      <4> QED BY <4>2 DEF L
    <3>4. CASE \A i \in 1..n : L(i) # 3 /\ L(i) # 2
      <4>1. \A j \in 1..n : L(j) <= L(1)
        BY <2>1, <3>1, <3>4
      <4> QED BY <2>1, <4>1 DEF L
    <3> QED BY <3>2, <3>3, <3>4
  <2>4. I # {} /\ I \in SUBSET Nat
    BY <2>3
  <2>5. PICK m \in I : m = Min(I)
    <3> HIDE DEF I
    <3> QED BY <2>4, MinIsOne
  <2>6. SelectInSeq(hints, LAMBDA f : \A k \in DOMAIN hints : hints[k].level <= f.level) = Min(I)
    BY <2>1, <2>4 DEF SelectInSeq
  <2>7. WorstHint(hints) = <<hints[m]>>
    BY <1>2, <2>5, <2>6 DEF WorstHint
  <2>8. m \in 1..n /\ hints[m] \in Verdicts
    BY <2>2, <2>5
  <2>9. \A v \in Elems(hints) : v.level <= hints[m].level
    BY <2>1, <2>5 DEF Elems
  <2> QED BY <2>7, <2>8, <2>9
<1> QED BY <1>1, <1>2

(* A configuration has one row, as bad as all that is said of its webhooks. *)
LEMMA ConfigWorst ==
  ASSUME NEW S, \A h \in S : h.ca.state \in Bundles, NEW hooks \in Seq(S),
         NEW i \in DOMAIN hooks, NEW v \in Elems(AdmissionHints(hooks[i]))
  PROVE  \E w \in Verdicts : ConfigHints(hooks) = <<w>> /\ v.level <= w.level
<1> DEFINE row(k) == WorstHint(AdmissionHints(hooks[k]))
           rows == [k \in DOMAIN hooks |-> row(k)]
<1>1. PICK n \in Nat : n = Len(hooks) /\ DOMAIN hooks = 1..n /\ i \in 1..n /\ hooks # << >>
  OBVIOUS
<1>2. \A k \in 1..n : hooks[k] \in S /\ hooks[k].ca.state \in Bundles
  BY <1>1
<1>3. \A k \in 1..n : AdmissionHints(hooks[k]) \in Seq(Verdicts)
  BY <1>2, HintsAre
<1>4. ASSUME NEW k \in 1..n PROVE row(k) \in Seq(Verdicts)
  <2>1. CASE AdmissionHints(hooks[k]) = << >>
    BY <1>3, <2>1, WorstIs
  <2>2. CASE AdmissionHints(hooks[k]) # << >>
    <3>1. PICK u \in Verdicts : row(k) = <<u>>
      BY <1>3, <2>2, WorstIs
    <3>2. <<u>> \in Seq(Verdicts)
      OBVIOUS
    <3> QED BY <3>1, <3>2
  <2> QED BY <2>1, <2>2
<1>5. AdmissionHints(hooks[i]) # << >>
  BY DEF Elems
<1>6. PICK u \in Verdicts : row(i) = <<u>> /\ v.level <= u.level
  BY <1>1, <1>3, <1>5, WorstIs
<1> HIDE DEF row
<1>7. PICK all \in Seq(Seq(Verdicts)) : all = rows /\ Len(all) = n /\ all[i] = <<u>>
  <2>1. rows \in [1..n -> Seq(Verdicts)] /\ rows[i] = <<u>>
    BY <1>1, <1>4, <1>6
  <2>2. \A f \in [1..n -> Seq(Verdicts)] : f \in Seq(Seq(Verdicts)) /\ Len(f) = n
    OBVIOUS
  <2> HIDE DEF rows
  <2> QED BY <2>1, <2>2
<1>8. PICK flat \in Seq(Verdicts) : flat = FlattenSeq(all) /\ u \in Elems(flat)
  <2>1. FlattenSeq(all) \in Seq(Verdicts)
    BY <1>7, FlattenType
  <2>2. u \in Elems(all[i])
    <3>1. u \in Elems(<<u>>)
      BY DEF Elems
    <3> QED BY <1>7, <3>1
  <2>3. Elems(all[i]) \subseteq Elems(FlattenSeq(all))
    <3>1. \A k \in 1..Len(all) : Elems(all[k]) \subseteq Elems(FlattenSeq(all))
      BY FlattenHolds
    <3> QED BY <1>1, <1>7, <3>1
  <2> QED BY <2>1, <2>2, <2>3
<1>9. flat # << >>
  BY <1>8 DEF Elems
<1>10. PICK w \in Verdicts : WorstHint(flat) = <<w>> /\ u.level <= w.level
  BY <1>8, <1>9, WorstIs
<1>11. ConfigHints(hooks) = WorstHint(flat)
  BY <1>1, <1>7, <1>8 DEF ConfigHints, row
<1>12. \A x \in Verdicts : x.level \in {1, 2, 3}
  BY DEF Verdicts
<1>13. v.level \in {1, 2, 3}
  <2>1. v \in Verdicts
    BY <1>1, <1>3 DEF Elems
  <2> QED BY <1>12, <2>1
<1>14. v.level <= w.level
  <2>1. u.level \in {1, 2, 3} /\ w.level \in {1, 2, 3}
    BY <1>12
  <2>2. \A x, y, z \in {1, 2, 3} : x <= y /\ y <= z => x <= z
    OBVIOUS
  <2> QED BY <1>6, <1>10, <1>13, <2>1, <2>2
<1> QED BY <1>10, <1>11, <1>14

(* The row of a configuration never reads healthier than a webhook of it,  *)
(* whatever the webhooks are and however many (`config_hints`,             *)
(* `worst_hint`).                                                          *)
THEOREM WorstIsShown ==
  ASSUME NEW S, \A h \in S : h.ca.state \in Bundles, NEW hooks \in Seq(S),
         NEW i \in DOMAIN hooks, NEW j \in DOMAIN AdmissionHints(hooks[i])
  PROVE  /\ ConfigHints(hooks) # << >>
         /\ AdmissionHints(hooks[i])[j].level <= ConfigHints(hooks)[1].level
<1>1. AdmissionHints(hooks[i]) \in Seq(Verdicts)
  BY HintsAre
<1>2. AdmissionHints(hooks[i])[j] \in Elems(AdmissionHints(hooks[i]))
  BY <1>1 DEF Elems
<1>3. PICK w \in Verdicts :
        ConfigHints(hooks) = <<w>> /\ AdmissionHints(hooks[i])[j].level <= w.level
  BY <1>2, ConfigWorst
<1> QED BY <1>3

-----------------------------------------------------------------------------
(* What the diagnosis and the repair panel say of the same webhooks *)

Dead(hooks) == {i \in DOMAIN hooks : hooks[i].reach \in Faults}
Refuses(hooks) == \E i \in Dead(hooks) : hooks[i].closed

Orphans(configs, c) ==
  {b \in Elems(WebhookBlockers(ReadByRepair(configs))) : b.on = c /\ b.what = "OrphanWebhook"}

LEMMA HasDead ==
  ASSUME NEW S, NEW hooks \in Seq(S), NEW c
  PROVE  LET read == ToSet(ReadConfig(hooks, c).hooks)
             dead == {h \in read : h.dead}
         IN  /\ ReadConfig(hooks, c).hooks = << >> <=> hooks = << >>
             /\ dead # {} <=> Dead(hooks) # {}
             /\ (\E h \in dead : h.closed) <=> Refuses(hooks)
<1>1. PICK r : r = ReadConfig(hooks, c).hooks
  OBVIOUS
<1>2. PICK n \in Nat : n = Len(hooks) /\ DOMAIN hooks = 1..n
  OBVIOUS
<1>3. /\ r = [i \in 1..n |-> [closed |-> hooks[i].closed, dead |-> hooks[i].reach \in Faults]]
      /\ DOMAIN r = 1..n
  BY <1>1, <1>2 DEF ReadConfig
<1>4. \A i \in 1..n : r[i].closed = hooks[i].closed /\ (r[i].dead <=> hooks[i].reach \in Faults)
  BY <1>3
<1>5. r = << >> <=> hooks = << >>
  <2>1. CASE n = 0
    <3>1. hooks = << >>
      BY <1>2, <2>1, EmptySeq
    <3>2. DOMAIN r = DOMAIN hooks
      BY <1>2, <1>3
    <3> QED BY <1>2, <1>3, <2>1, <3>1
  <2>2. CASE n # 0
    <3>1. 1 \in DOMAIN r /\ hooks # << >>
      BY <1>2, <1>3, <2>2
    <3> QED BY <3>1
  <2> QED BY <2>1, <2>2
<1>6. ToSet(r) = {r[i] : i \in 1..n}
  BY <1>3 DEF ToSet
<1>7. Dead(hooks) = {i \in 1..n : r[i].dead}
  BY <1>2, <1>4 DEF Dead
<1>8. Refuses(hooks) <=> \E i \in 1..n : r[i].dead /\ r[i].closed
  BY <1>4, <1>7 DEF Refuses
<1> QED BY <1>1, <1>5, <1>6, <1>7, <1>8

(* The finding of the repair panel on one configuration.                   *)
LEMMA FoundOn ==
  ASSUME NEW S, NEW hooks \in Seq(S), NEW c
  PROVE  LET found == ConfigBlockers(ReadConfig(hooks, c))
             orphan == [what |-> "OrphanWebhook", on |-> c, closed |-> Refuses(hooks)]
         IN  /\ hooks = << >> => found = <<Blocker("EmptyWebhookConfig", c)>>
             /\ Dead(hooks) # {} => found = <<orphan>>
             /\ hooks # << >> /\ Dead(hooks) = {} => found = << >>
<1> DEFINE dead == {h \in ToSet(ReadConfig(hooks, c).hooks) : h.dead}
           closed == \E h \in dead : h.closed
<1>1. /\ ReadConfig(hooks, c).hooks = << >> <=> hooks = << >>
      /\ dead # {} <=> Dead(hooks) # {}
      /\ closed <=> Refuses(hooks)
  BY HasDead
<1>2. ReadConfig(hooks, c).name = c
  BY DEF ReadConfig
<1>3. ConfigBlockers(ReadConfig(hooks, c)) =
        IF ReadConfig(hooks, c).hooks = << >> THEN <<Blocker("EmptyWebhookConfig", c)>>
        ELSE If(dead # {}, [Blocker("OrphanWebhook", c) EXCEPT !.closed = closed])
  BY <1>2 DEF ConfigBlockers
<1> HIDE DEF dead, closed
<1>4. [Blocker("OrphanWebhook", c) EXCEPT !.closed = closed] =
        [what |-> "OrphanWebhook", on |-> c, closed |-> closed]
  BY DEF Blocker
<1>5. closed \in BOOLEAN /\ Refuses(hooks) \in BOOLEAN
  BY DEF closed, Refuses
<1>6. closed = Refuses(hooks)
  BY <1>1, <1>5
<1>7. Dead(hooks) # {} => hooks # << >>
  BY DEF Dead
<1> QED BY <1>1, <1>3, <1>4, <1>6, <1>7 DEF If

(* One finding at most on each configuration, and none on another.         *)
LEMMA FoundOnAll ==
  ASSUME NEW S, NEW configs \in Seq(Seq(S)), NEW c \in DOMAIN configs
  PROVE  /\ \E B : WebhookBlockers(ReadByRepair(configs)) \in Seq(B)
         /\ Orphans(configs, c) =
              IF Dead(configs[c]) = {} THEN {}
              ELSE {[what |-> "OrphanWebhook", on |-> c, closed |-> Refuses(configs[c])]}
<1> DEFINE B == [what : {"OrphanWebhook", "EmptyWebhookConfig"}, on : Nat, closed : BOOLEAN]
           orphan(k) == [what |-> "OrphanWebhook", on |-> k, closed |-> Refuses(configs[k])]
           empty(k) == Blocker("EmptyWebhookConfig", k)
           found(k) == ConfigBlockers(ReadConfig(configs[k], k))
<1>1. PICK n \in Nat : n = Len(configs) /\ DOMAIN configs = 1..n /\ c \in 1..n
  <2>1. PICK T : T = Seq(S)
    OBVIOUS
  <2>2. configs \in Seq(T)
    BY <2>1
  <2>3. PICK n : n = Len(configs)
    OBVIOUS
  <2>4. n \in Nat /\ DOMAIN configs = 1..n
    BY <2>2, <2>3
  <2> QED BY <2>3, <2>4
<1>2. \A k \in 1..n : configs[k] \in Seq(S)
  BY <1>1
<1>3. ASSUME NEW k \in 1..n
      PROVE  /\ configs[k] = << >> => found(k) = <<empty(k)>>
             /\ Dead(configs[k]) # {} => found(k) = <<orphan(k)>>
             /\ configs[k] # << >> /\ Dead(configs[k]) = {} => found(k) = << >>
  BY <1>2, FoundOn
<1>4. ASSUME NEW k \in 1..n
      PROVE  /\ empty(k) \in B /\ empty(k).on = k /\ empty(k).what # "OrphanWebhook"
             /\ orphan(k) \in B /\ orphan(k).on = k /\ orphan(k).what = "OrphanWebhook"
  <2>1. Refuses(configs[k]) \in BOOLEAN
    BY DEF Refuses
  <2> QED BY <1>1, <2>1 DEF Blocker
<1> HIDE DEF B, orphan, empty, found
<1>5. ASSUME NEW k \in 1..n
      PROVE  /\ found(k) \in Seq(B)
             /\ Dead(configs[k]) # {} => Elems(found(k)) = {orphan(k)}
             /\ Dead(configs[k]) = {} => Elems(found(k)) \subseteq {empty(k)}
  <2>1. \A x \in B : <<x>> \in Seq(B) /\ Elems(<<x>>) = {x}
    BY DEF Elems
  <2>2. << >> \in Seq(B) /\ Elems(<< >>) = {}
    BY DEF Elems
  <2>3. configs[k] = << >> => Dead(configs[k]) = {}
    BY DEF Dead
  <2> QED BY <1>3, <1>4, <2>1, <2>2, <2>3
<1>6. PICK w \in Seq(Seq(B)) : Len(w) = n /\ w = [k \in 1..n |-> found(k)]
  <2>1. [k \in 1..n |-> found(k)] \in [1..n -> Seq(B)]
    BY <1>5
  <2>2. \A f \in [1..n -> Seq(B)] : f \in Seq(Seq(B)) /\ Len(f) = n
    OBVIOUS
  <2> QED BY <2>1, <2>2
<1>7. WebhookBlockers(ReadByRepair(configs)) = FlattenSeq(w)
  <2>1. PICK r : r = ReadByRepair(configs)
    OBVIOUS
  <2>2. r = [k \in 1..n |-> ReadConfig(configs[k], k)]
    BY <1>1, <2>1 DEF ReadByRepair
  <2>3. Len(r) = n
    BY <2>2
  <2>4. [k \in 1..Len(r) |-> ConfigBlockers(r[k])] = [k \in 1..n |-> found(k)]
    BY <2>2, <2>3 DEF found
  <2> QED BY <1>6, <2>1, <2>4 DEF WebhookBlockers
<1>8. Elems(FlattenSeq(w)) = UNION {Elems(found(k)) : k \in 1..n}
  <2>1. Elems(FlattenSeq(w)) = UNION {Elems(w[k]) : k \in 1..Len(w)}
    BY FlattenHolds
  <2>2. \A k \in 1..n : w[k] = found(k)
    BY <1>6
  <2> QED BY <1>6, <2>1, <2>2
<1>9. Orphans(configs, c) =
        {b \in UNION {Elems(found(k)) : k \in 1..n} : b.on = c /\ b.what = "OrphanWebhook"}
  BY <1>7, <1>8 DEF Orphans
<1> HIDE DEF Elems
<1>10. \A k \in 1..n : \A b \in Elems(found(k)) :
         /\ b.on = k
         /\ b.what = "OrphanWebhook" => Dead(configs[k]) # {} /\ b = orphan(k)
  <2> SUFFICES ASSUME NEW k \in 1..n, NEW b \in Elems(found(k))
               PROVE  /\ b.on = k
                      /\ b.what = "OrphanWebhook" => Dead(configs[k]) # {} /\ b = orphan(k)
    OBVIOUS
  <2>1. CASE Dead(configs[k]) # {}
    <3>1. b = orphan(k)
      BY <1>5, <2>1
    <3> QED BY <1>4, <2>1, <3>1
  <2>2. CASE Dead(configs[k]) = {}
    <3>1. b = empty(k)
      BY <1>5, <2>2
    <3> QED BY <1>4, <3>1
  <2> QED BY <2>1, <2>2
<1>11. Dead(configs[c]) # {} =>
         /\ orphan(c) \in Elems(found(c))
         /\ orphan(c).on = c /\ orphan(c).what = "OrphanWebhook"
  BY <1>1, <1>4, <1>5
<1>12. Orphans(configs, c) = IF Dead(configs[c]) = {} THEN {} ELSE {orphan(c)}
  BY <1>1, <1>9, <1>10, <1>11
<1>13. WebhookBlockers(ReadByRepair(configs)) \in Seq(B)
  BY <1>6, <1>7, FlattenType
<1> QED BY <1>12, <1>13 DEF orphan

LEMMA DiagnosedIs ==
  ASSUME NEW S, NEW configs \in Seq(Seq(S))
  PROVE  /\ DiagnosedKind(configs) = "Err" <=> \E c \in DOMAIN configs : Refuses(configs[c])
         /\ \A c \in DOMAIN configs : Dead(configs[c]) # {} => DiagnosedKind(configs) # "Ok"
<1>1. ASSUME NEW hooks
      PROVE  /\ DiagnosedHooks(hooks) = "blocking" <=> Refuses(hooks)
             /\ Dead(hooks) # {} => DiagnosedHooks(hooks) # "quiet"
  <2> DEFINE closed == {i \in DOMAIN hooks : hooks[i].closed}
  <2>1. closed \cap Dead(hooks) # {} <=> Refuses(hooks)
    BY DEF Refuses, Dead
  <2>2. DiagnosedHooks(hooks) = IF closed \cap Dead(hooks) # {} THEN "blocking"
                                ELSE IF Dead(hooks) # {} THEN "down"
                                ELSE IF closed # {} THEN "closed" ELSE "quiet"
    BY DEF DiagnosedHooks, Dead
  <2> HIDE DEF closed
  <2> QED BY <2>1, <2>2
<1> DEFINE words == {DiagnosedHooks(configs[i]) : i \in DOMAIN configs}
<1>2. DiagnosedKind(configs) = IF "blocking" \in words THEN "Err"
                               ELSE IF words \subseteq {"quiet"} THEN "Ok" ELSE "Warn"
  BY DEF DiagnosedKind
<1>3. "blocking" \in words <=> \E c \in DOMAIN configs : Refuses(configs[c])
  BY <1>1
<1>4. ASSUME NEW c \in DOMAIN configs, Dead(configs[c]) # {}
      PROVE  ~(words \subseteq {"quiet"})
  BY <1>1, <1>4
<1> HIDE DEF words
<1> QED BY <1>2, <1>3, <1>4

(* A webhook that cannot answer is told of wherever webhooks are judged,   *)
(* whatever the configurations and however many: one that fails closed     *)
(* makes the diagnosis an error and the row of its configuration red; one  *)
(* that fails open is a warning at least; and the repair panel names the   *)
(* configurations of such webhooks, those and no others, as closed when    *)
(* one of them is (`check_admission_hooks`, `admission_hints`,             *)
(* `config_hints`, `webhook_blockers`).                                    *)
THEOREM OutagesAreToldOfAll ==
  ASSUME NEW S, \A h \in S : h.ca.state \in Bundles, NEW configs \in Seq(Seq(S))
  PROVE  /\ DiagnosedKind(configs) = "Err" <=> \E c \in DOMAIN configs : Refuses(configs[c])
         /\ \A c \in DOMAIN configs :
              /\ Orphans(configs, c) # {} <=> Dead(configs[c]) # {}
              /\ \A b \in Orphans(configs, c) : b.closed <=> Refuses(configs[c])
              /\ Refuses(configs[c]) => ConfigHints(configs[c])[1].level = 3
              /\ Dead(configs[c]) # {} =>
                   ConfigHints(configs[c])[1].level >= 2 /\ DiagnosedKind(configs) # "Ok"
<1>1. ASSUME NEW c \in DOMAIN configs
      PROVE  /\ Orphans(configs, c) # {} <=> Dead(configs[c]) # {}
             /\ \A b \in Orphans(configs, c) : b.closed <=> Refuses(configs[c])
  <2>1. PICK o : o = [what |-> "OrphanWebhook", on |-> c, closed |-> Refuses(configs[c])]
    OBVIOUS
  <2>2. o.closed = Refuses(configs[c])
    BY <2>1
  <2>3. Orphans(configs, c) = IF Dead(configs[c]) = {} THEN {} ELSE {o}
    BY <2>1, FoundOnAll
  <2> QED BY <2>2, <2>3
<1>2. ASSUME NEW c \in DOMAIN configs, NEW i \in Dead(configs[c])
      PROVE  /\ ConfigHints(configs[c])[1].level >= 2
             /\ configs[c][i].closed => ConfigHints(configs[c])[1].level = 3
  <2>1. PICK hooks \in Seq(S) : hooks = configs[c]
    OBVIOUS
  <2>2. i \in DOMAIN hooks /\ hooks[i].reach \in Faults /\ hooks[i] \in S
    BY <2>1 DEF Dead
  <2>3. PICK l \in {2, 3} : l = IF hooks[i].closed THEN 3 ELSE 2
    OBVIOUS
  <2>4. Verdict(l, "dead") \in Elems(AdmissionHints(hooks[i]))
    BY <2>2, <2>3, HintsAre
  <2>5. PICK w \in Verdicts : ConfigHints(hooks) = <<w>> /\ Verdict(l, "dead").level <= w.level
    BY <2>2, <2>4, ConfigWorst
  <2>6. w.level \in {1, 2, 3} /\ l <= w.level
    BY <2>5 DEF Verdict, Verdicts
  <2>7. ConfigHints(hooks)[1].level = w.level
    BY <2>5
  <2>8. hooks[i].closed => l = 3
    BY <2>3
  <2> QED BY <2>1, <2>3, <2>6, <2>7, <2>8
<1>3. ASSUME NEW c \in DOMAIN configs
      PROVE  /\ Refuses(configs[c]) => ConfigHints(configs[c])[1].level = 3
             /\ Dead(configs[c]) # {} => ConfigHints(configs[c])[1].level >= 2
  BY <1>2 DEF Refuses
<1> QED BY <1>1, <1>3, DiagnosedIs

LEMMA ConcatGains ==
  ASSUME NEW S, NEW q, NEW x \in Seq(S), NEW r, Holds(r, q, S) PROVE Holds(x \o r, q, S)
<1>1. r \in Seq(S) /\ Elems(q) \subseteq Elems(r)
  BY DEF Holds
<1>2. x \o r \in Seq(S) /\ Elems(r) \subseteq Elems(x \o r)
  BY <1>1, ConcatHolds
<1> QED BY <1>1, <1>2 DEF Holds

(* The bundle is judged last but one, whoever trusts it.                   *)
LEMMA BundleIsJudged ==
  ASSUME NEW h, h.ca.state \in Bundles, NEW x \in Seq(Verdicts)
  PROVE  Holds(x \o CaHints(h.ca) \o ReachHints(h), CaHints(h.ca), Verdicts)
<1>1. PICK f \in Seq(Verdicts) : f = CaHints(h.ca)
  BY CaHintsType
<1>2. PICK g \in Seq(Verdicts) : g = ReachHints(h)
  BY WhenType DEF ReachHints, Words
<1>3. Holds(f, f, Verdicts)
  BY DEF Holds
<1>4. Holds(x \o f, f, Verdicts)
  BY <1>3, ConcatGains
<1>5. Holds(x \o f \o g, f, Verdicts)
  BY <1>4, ConcatKeeps
<1> QED BY <1>1, <1>2, <1>5

LEMMA TrustersAre ==
  ASSUME NEW h, h.ca.state \in Bundles
  PROVE  /\ Holds(ConversionHints(InOtherWorlds(h)), CaHints(h.ca), Verdicts)
         /\ Holds(ApiServiceHints(InOtherWorlds(h)), CaHints(h.ca), Verdicts)
<1>0. PICK c : c = InOtherWorlds(h)
  OBVIOUS
<1>1. /\ c.reach = h.reach /\ c.url = h.url /\ c.ca = h.ca /\ c.storageServed = TRUE
      /\ c.deprecated = 1 /\ c.available = "True" /\ c.insecure = FALSE
  BY <1>0 DEF InOtherWorlds
<1>2. PICK a \in Seq(Verdicts) : a = When(c.reach \in Faults, 3, "dead")
  BY WhenType DEF Words
<1>3. PICK b \in Seq(Verdicts) : b = When(~c.storageServed, 2, "storage not served")
  BY WhenType DEF Words
<1>4. PICK d \in Seq(Verdicts) : d = [i \in 1..c.deprecated |-> Verdict(1, "deprecated")]
  <2>1. PICK v \in Verdicts : v = Verdict(1, "deprecated")
    BY VerdictType DEF Words
  <2>2. [i \in 1..1 |-> v] \in Seq(Verdicts)
    OBVIOUS
  <2> QED BY <1>1, <2>1, <2>2
<1>5. PICK e \in Seq(Verdicts) : e = When(c.insecure, 2, "insecure")
  BY WhenType DEF Words
<1>6. PICK x \in Seq(Verdicts) : x = a \o b \o d
  BY ConcatHolds
<1>7. PICK y \in Seq(Verdicts) : y = a \o e
  BY ConcatHolds
<1>8. ConversionHints(c) = x \o CaHints(c.ca) \o ReachHints(c)
  BY <1>2, <1>3, <1>4, <1>6 DEF ConversionHints
<1>9. ApiServiceHints(c) = y \o CaHints(c.ca) \o ReachHints(c)
  BY <1>1, <1>2, <1>5, <1>7 DEF ApiServiceHints
<1> QED BY <1>0, <1>1, <1>8, <1>9, BundleIsJudged

LEMMA ScopeType == ASSUME NEW h PROVE ScopeHints(h) \in Seq(Verdicts)
<1>1. PICK m \in {1, 2, 3} : m = IF h.closed /\ ~ExcludesSystem(h.selector) THEN 3 ELSE 2
  OBVIOUS
<1>2. <<Verdict(m, "catch-all")>> \in Seq(Verdicts)
  <2>1. PICK v \in Verdicts : v = Verdict(m, "catch-all")
    BY VerdictType DEF Words
  <2>2. <<v>> \in Seq(Verdicts)
    OBVIOUS
  <2> QED BY <2>1, <2>2
<1>3. When(~ExcludesSystem(h.selector) /\ \E r \in h.rules : CoversWrites(r), 2, "no exclusion")
        \in Seq(Verdicts)
  BY WhenType DEF Words
<1> QED BY <1>1, <1>2, <1>3 DEF ScopeHints

LEMMA AdmissionTrusts ==
  ASSUME NEW h, h.ca.state \in Bundles
  PROVE  Holds(AdmissionHints(h), CaHints(h.ca), Verdicts)
<1>0. PICK l \in {1, 2, 3} : l = IF h.closed THEN 3 ELSE 2
  OBVIOUS
<1>1. PICK a \in Seq(Verdicts) : a = When(h.reach \in Faults, l, "dead")
  BY WhenType DEF Words
<1>2. PICK b \in Seq(Verdicts) : b = When(SelfLocking(h), 3, "self-locking")
  BY WhenType DEF Words
<1>3. PICK c \in Seq(Verdicts) : c = ScopeHints(h)
  BY ScopeType
<1>4. PICK d \in Seq(Verdicts) : d = When(h.closed /\ h.timeout >= SlowTimeout, 2, "slow")
  BY WhenType DEF Words
<1>5. PICK e \in Seq(Verdicts) : e = When(h.sideEffects \in {"Some", "Unknown"}, 2, "side effects")
  BY WhenType DEF Words
<1>6. PICK x \in Seq(Verdicts) : x = a \o b \o c \o d \o e
  BY ConcatHolds
<1>7. AdmissionHints(h) = x \o CaHints(h.ca) \o ReachHints(h)
  BY <1>0, <1>1, <1>2, <1>3, <1>4, <1>5, <1>6 DEF AdmissionHints
<1> QED BY <1>7, BundleIsJudged

(* Of finitely many, one has the least figure.                             *)
LEMMA LeastBy ==
  ASSUME NEW T, IsFiniteSet(T), T # {}, NEW f \in [T -> Int]
  PROVE  \E m \in T : \A e \in T : f[m] <= f[e]
<1> DEFINE below(n) == {e \in T : f[e] <= f[n]}
           I == {below(n) : n \in T}
<1>0. \A x \in T : f[x] \in Int
  OBVIOUS
<1>1. I \subseteq FiniteSubsetsOf(T) /\ I # {}
  <2>1. \A n \in T : IsFiniteSet(below(n)) /\ below(n) \subseteq T
    BY FS_Subset
  <2> HIDE DEF below
  <2> QED BY <2>1 DEF FiniteSubsetsOf
<1>2. IsWellFoundedOn(StrictSubsetOrdering(T), FiniteSubsetsOf(T))
  BY FS_StrictSubsetOrderingWellFounded
<1>3. PICK A \in I : \A B \in I : ~(<<B, A>> \in StrictSubsetOrdering(T))
  <2> HIDE DEF I
  <2> QED BY <1>1, <1>2, WFMin
<1>4. PICK n \in T : A = below(n)
  BY <1>3
<1>5. ASSUME NEW m \in T, f[m] < f[n] PROVE FALSE
  <2>1. below(m) \in I /\ below(m) \subseteq A /\ n \in A /\ n \notin below(m)
    <3>1. \A e \in T : f[e] <= f[m] => f[e] <= f[n]
      BY <1>0, <1>5
    <3>2. f[n] <= f[n] /\ ~(f[n] <= f[m])
      BY <1>0, <1>5
    <3> QED BY <1>4, <3>1, <3>2
  <2>2. below(m) \subseteq T /\ A \subseteq T
    BY <1>4
  <2>3. <<below(m), A>> \in StrictSubsetOrdering(T)
    <3> HIDE DEF below
    <3> QED BY <2>1, <2>2 DEF StrictSubsetOrdering
  <2> QED BY <1>3, <2>1, <2>3
<1> QED BY <1>0, <1>4, <1>5

LEMMA SoonestIs ==
  ASSUME NEW days \in SUBSET Int, IsFiniteSet(days), NEW d \in days
  PROVE  Soonest(days) \in days /\ Soonest(days) <= d
<1>1. \E m \in days : \A e \in days : m <= e
  <2>1. PICK f \in [days -> Int] : f = [x \in days |-> x]
    OBVIOUS
  <2>2. PICK m \in days : \A e \in days : f[m] <= f[e]
    BY <2>1, LeastBy
  <2> QED BY <2>1, <2>2
<1> QED BY <1>1 DEF Soonest

(* A certificate that is over is said to be, in red.                       *)
LEMMA OverIsRed ==
  ASSUME NEW ca, ca.state = "parsed", ca.days \in SUBSET Int, IsFiniteSet(ca.days),
         NEW d \in ca.days, d <= 0
  PROVE  \E v \in Elems(CaHints(ca)) : v.level = 3
<1>1. Soonest(ca.days) <= 0
  BY SoonestIs
<1>2. CaHints(ca) = When(Soonest(ca.days) <= 0, 3, "ca expired")
                      \o When(Soonest(ca.days) \in 1..ExpiryWarnDays, 2, "ca expiring")
  BY DEF CaHints
<1>3. PICK a \in Seq(Verdicts) : /\ a = When(Soonest(ca.days) <= 0, 3, "ca expired")
                                 /\ Verdict(3, "ca expired") \in Elems(a)
  BY <1>1, WhenType DEF Words
<1>4. PICK b \in Seq(Verdicts) : b = When(Soonest(ca.days) \in 1..ExpiryWarnDays, 2, "ca expiring")
  BY WhenType DEF Words
<1>5. Verdict(3, "ca expired") \in Elems(a \o b)
  <2>1. Elems(a \o b) = Elems(a) \cup Elems(b)
    BY ConcatHolds
  <2> QED BY <1>3, <2>1
<1>6. Verdict(3, "ca expired").level = 3
  BY DEF Verdict
<1> QED BY <1>2, <1>3, <1>4, <1>5, <1>6

(* The webhooks of a good case are all of one set.                         *)
Hooks(case) == UNION {ToSet(case.configs[c]) : c \in DOMAIN case.configs}

LEMMA HooksAreGood ==
  ASSUME NEW case, GoodWebhooks(case)
  PROVE  /\ case.configs \in Seq(Seq(Hooks(case)))
         /\ \A h \in Hooks(case) : /\ h.ca.state \in Bundles
                                   /\ h.ca.days \in SUBSET Int /\ IsFiniteSet(h.ca.days)
                                   /\ h.ca.state # "parsed" => h.ca.days = {}
<1> DEFINE configs == case.configs
<1>1. configs \in Seq(ToSet(configs))
  BY DEF GoodWebhooks
<1>2. PICK n \in Nat : n = Len(configs) /\ DOMAIN configs = 1..n
  <2> HIDE DEF configs
  <2>1. PICK T : T = ToSet(configs)
    OBVIOUS
  <2> QED BY <1>1, <2>1
<1>3. \A c \in 1..n : configs[c] \in ToSet(configs)
  BY <1>2 DEF ToSet
<1>4. ASSUME NEW c \in 1..n PROVE configs[c] \in Seq(Hooks(case))
  <2>1. PICK hooks : hooks = configs[c]
    OBVIOUS
  <2>2. hooks \in Seq(ToSet(hooks))
    BY <1>3, <2>1 DEF GoodWebhooks
  <2>3. ToSet(hooks) \subseteq Hooks(case)
    BY <1>2, <2>1 DEF Hooks
  <2>4. PICK T, U : T = ToSet(hooks) /\ U = Hooks(case)
    OBVIOUS
  <2>5. hooks \in Seq(U)
    BY <2>2, <2>3, <2>4
  <2> QED BY <2>1, <2>4, <2>5
<1>5. configs \in Seq(Seq(Hooks(case)))
  <2>1. PICK T, U : T = ToSet(configs) /\ U = Seq(Hooks(case))
    OBVIOUS
  <2>2. \A c \in 1..n : configs[c] \in U
    BY <1>4, <2>1
  <2> HIDE DEF configs
  <2>3. configs \in Seq(U)
    BY <1>1, <1>2, <2>1, <2>2
  <2> QED BY <2>1, <2>3
<1>6. ASSUME NEW h \in Hooks(case)
      PROVE  /\ h.ca.state \in Bundles
             /\ h.ca.days \in SUBSET Int /\ IsFiniteSet(h.ca.days)
             /\ h.ca.state # "parsed" => h.ca.days = {}
  <2>1. PICK c \in 1..n : h \in ToSet(configs[c])
    BY <1>2 DEF Hooks
  <2>2. configs[c] \in ToSet(case.configs)
    BY <1>3
  <2> QED BY <2>1, <2>2 DEF GoodWebhooks, Bundles
<1> QED BY <1>5, <1>6

LEMMA OutagesTold ==
  ASSUME GoodWebhooks(cluster), reasons = HooksJudged(cluster.configs)
  PROVE  OutagesAreTold
<1> DEFINE configs == cluster.configs
           S == Hooks(cluster)
<1>1. configs \in Seq(Seq(S)) /\ \A h \in S : h.ca.state \in Bundles
  BY HooksAreGood
<1>2. /\ reasons.configs = [c \in DOMAIN configs |-> ConfigHints(configs[c])]
      /\ reasons.diagnosed = DiagnosedKind(configs)
      /\ reasons.blockers = WebhookBlockers(ReadByRepair(configs))
  BY DEF HooksJudged
<1>3. \A c \in DOMAIN configs : reasons.configs[c] = ConfigHints(configs[c])
  BY <1>2
<1>4. ASSUME NEW c \in DOMAIN configs
      PROVE  ToSet(reasons.blockers) = Elems(WebhookBlockers(ReadByRepair(configs)))
  <2>1. PICK B : WebhookBlockers(ReadByRepair(configs)) \in Seq(B)
    BY <1>1, <1>4, FoundOnAll
  <2>2. \A w \in Seq(B) : ToSet(w) = Elems(w)
    BY DEF ToSet, Elems
  <2> QED BY <1>2, <2>1, <2>2
<1> HIDE DEF configs, S
<1>5. /\ DiagnosedKind(configs) = "Err" <=> \E c \in DOMAIN configs : Refuses(configs[c])
      /\ \A c \in DOMAIN configs :
           /\ Orphans(configs, c) # {} <=> Dead(configs[c]) # {}
           /\ \A b \in Orphans(configs, c) : b.closed <=> Refuses(configs[c])
           /\ Refuses(configs[c]) => ConfigHints(configs[c])[1].level = 3
           /\ Dead(configs[c]) # {} =>
                ConfigHints(configs[c])[1].level >= 2 /\ DiagnosedKind(configs) # "Ok"
  BY <1>1, OutagesAreToldOfAll
<1>6. \A c \in DOMAIN configs :
        /\ Dead(configs[c]) = {i \in DOMAIN configs[c] : configs[c][i].reach \in Faults}
        /\ Refuses(configs[c]) <=>
             \E i \in {j \in DOMAIN configs[c] : configs[c][j].reach \in Faults} : configs[c][i].closed
        /\ Orphans(configs, c) =
             {b \in ToSet(reasons.blockers) : b.on = c /\ b.what = "OrphanWebhook"}
  BY <1>4 DEF Dead, Refuses, Orphans
<1> QED BY <1>2, <1>3, <1>5, <1>6 DEF OutagesAreTold, configs

LEMMA WorstTold ==
  ASSUME GoodWebhooks(cluster), reasons = HooksJudged(cluster.configs)
  PROVE  NeverHealthier
<1> DEFINE configs == cluster.configs
           S == Hooks(cluster)
           row(c, i) == AdmissionHints(configs[c][i])
<1>1. /\ configs \in Seq(Seq(S))
      /\ \A h \in S : /\ h.ca.state \in Bundles
                      /\ h.ca.days \in SUBSET Int /\ IsFiniteSet(h.ca.days)
                      /\ h.ca.state # "parsed" => h.ca.days = {}
  BY HooksAreGood
<1>2. \A c \in DOMAIN configs : configs[c] \in Seq(S)
  BY <1>1
<1>3. ASSUME NEW c \in DOMAIN configs
      PROVE  /\ reasons.configs[c] = ConfigHints(configs[c])
             /\ \A i \in DOMAIN configs[c] :
                  /\ reasons.rows[c][i] = row(c, i)
                  /\ reasons.others[c][i] = {ConversionHints(InOtherWorlds(configs[c][i])),
                                            ApiServiceHints(InOtherWorlds(configs[c][i]))}
  BY DEF HooksJudged
<1>4. ASSUME NEW c \in DOMAIN configs, NEW i \in DOMAIN configs[c],
             NEW j \in DOMAIN reasons.rows[c][i]
      PROVE  /\ reasons.configs[c] # << >>
             /\ reasons.rows[c][i][j].level <= reasons.configs[c][1].level
  <2>1. PICK hooks \in Seq(S) : hooks = configs[c]
    BY <1>2
  <2>2. i \in DOMAIN hooks /\ j \in DOMAIN AdmissionHints(hooks[i])
    BY <1>3, <1>4, <2>1
  <2>3. /\ ConfigHints(hooks) # << >>
        /\ AdmissionHints(hooks[i])[j].level <= ConfigHints(hooks)[1].level
    BY <1>1, <2>2, WorstIsShown
  <2> QED BY <1>3, <2>1, <2>3
<1>5. ASSUME NEW c \in DOMAIN configs, NEW i \in DOMAIN configs[c],
             \E d \in configs[c][i].ca.days : d <= 0,
             NEW hints \in reasons.others[c][i] \cup {reasons.rows[c][i], reasons.configs[c]}
      PROVE  \E j \in DOMAIN hints : hints[j].level = 3
  <2>1. PICK hooks \in Seq(S) : hooks = configs[c]
    BY <1>2
  <2>2. PICK h \in S : h = hooks[i] /\ i \in DOMAIN hooks
    BY <2>1
  <2>3. PICK d \in h.ca.days : d <= 0
    BY <1>5, <2>1, <2>2
  <2>4. /\ h.ca.state = "parsed" /\ h.ca.state \in Bundles
        /\ h.ca.days \in SUBSET Int /\ IsFiniteSet(h.ca.days)
    BY <1>1, <2>3
  <2>5. PICK v \in Elems(CaHints(h.ca)) : v.level = 3
    <3>1. PICK ca : ca = h.ca
      OBVIOUS
    <3> QED BY <2>3, <2>4, <3>1, OverIsRed
  <2>6. \A x : Holds(x, CaHints(h.ca), Verdicts) => \E j \in DOMAIN x : x[j].level = 3
    <3> SUFFICES ASSUME NEW x \in Seq(Verdicts), v \in Elems(x)
                 PROVE  \E j \in DOMAIN x : x[j].level = 3
      BY <2>5 DEF Holds
    <3>1. PICK j \in 1..Len(x) : v = x[j]
      BY DEF Elems
    <3> QED BY <2>5, <3>1
  <2>7. CASE hints \in reasons.others[c][i]
    <3>1. /\ Holds(ConversionHints(InOtherWorlds(h)), CaHints(h.ca), Verdicts)
          /\ Holds(ApiServiceHints(InOtherWorlds(h)), CaHints(h.ca), Verdicts)
      BY <2>4, TrustersAre
    <3>2. hints \in {ConversionHints(InOtherWorlds(h)), ApiServiceHints(InOtherWorlds(h))}
      BY <1>3, <1>5, <2>1, <2>2, <2>7
    <3> QED BY <2>6, <3>1, <3>2
  <2>8. CASE hints = reasons.rows[c][i]
    <3>1. Holds(AdmissionHints(h), CaHints(h.ca), Verdicts)
      BY <2>4, AdmissionTrusts
    <3>2. hints = AdmissionHints(h)
      BY <1>3, <1>5, <2>1, <2>2, <2>8
    <3> QED BY <2>6, <3>1, <3>2
  <2>9. CASE hints = reasons.configs[c]
    <3>1. v \in Elems(AdmissionHints(hooks[i]))
      <4>1. Holds(AdmissionHints(h), CaHints(h.ca), Verdicts)
        BY <2>4, AdmissionTrusts
      <4> QED BY <2>2, <2>5, <4>1 DEF Holds
    <3>2. PICK w \in Verdicts : ConfigHints(hooks) = <<w>> /\ v.level <= w.level
      BY <1>1, <2>2, <3>1, ConfigWorst
    <3>3. w.level = 3
      <4>1. w.level \in {1, 2, 3} /\ 3 <= w.level
        BY <2>5, <3>2 DEF Verdicts
      <4> QED BY <4>1
    <3>4. hints = <<w>> /\ 1 \in DOMAIN hints /\ hints[1].level = 3
      BY <1>3, <2>1, <2>9, <3>2, <3>3
    <3> QED BY <3>4
  <2> QED BY <1>5, <2>7, <2>8, <2>9
<1> HIDE DEF row, S
<1> QED BY <1>4, <1>5 DEF NeverHealthier

-----------------------------------------------------------------------------
(* Counting what is laid out over places *)

Fiber(f, R, n) == {i \in R : f[i] = n}

(* g tells the members of A apart with what is in B.                       *)
Apart(g, A, B) == g \in [A -> B] /\ \A x, y \in A : g[x] = g[y] => x = y

LEMMA ApartIsInjection == ASSUME NEW g, NEW A, NEW B PROVE Apart(g, A, B) <=> g \in Injection(A, B)
  BY DEF Apart, Injection, IsInjective

LEMMA Numbered ==
  ASSUME NEW A, IsFiniteSet(A), NEW m \in Nat, Cardinality(A) <= m
  PROVE  \E g : Apart(g, A, 1..m)
<1>0. PICK n \in Nat : n = Cardinality(A)
  BY FS_CardinalityType
<1>1. PICK f : f \in Bijection(1..n, A)
  BY <1>0, FS_CardinalityType DEF ExistsBijection
<1>2. /\ f \in [1..n -> A]
      /\ \A a, b \in 1..n : f[a] = f[b] => a = b
      /\ \A x \in A : \E a \in 1..n : f[a] = x
  BY <1>1 DEF Bijection, Injection, IsInjective, Surjection
<1> DEFINE g == [x \in A |-> CHOOSE a \in 1..n : f[a] = x]
<1>3. \A x \in A : g[x] \in 1..n /\ f[g[x]] = x
  BY <1>2
<1>4. 1..n \subseteq 1..m
  BY <1>0
<1>5. Apart(g, A, 1..m)
  BY <1>3, <1>4 DEF Apart
<1> QED BY <1>5

LEMMA Listed ==
  ASSUME NEW A, IsFiniteSet(A), NEW m \in Nat, m <= Cardinality(A)
  PROVE  \E g : Apart(g, 1..m, A)
<1>0. PICK n \in Nat : n = Cardinality(A)
  BY FS_CardinalityType
<1>1. PICK f : f \in Bijection(1..n, A)
  BY <1>0, FS_CardinalityType DEF ExistsBijection
<1>2. /\ f \in [1..n -> A]
      /\ \A a, b \in 1..n : f[a] = f[b] => a = b
  BY <1>1 DEF Bijection, Injection, IsInjective, Surjection
<1>3. 1..m \subseteq 1..n
  BY <1>0
<1>4. Apart([k \in 1..m |-> f[k]], 1..m, A)
  BY <1>2, <1>3 DEF Apart
<1> QED BY <1>4

LEMMA AtMost ==
  ASSUME NEW A, NEW B, IsFiniteSet(B), NEW g, Apart(g, A, B)
  PROVE  IsFiniteSet(A) /\ Cardinality(A) <= Cardinality(B)
  BY ApartIsInjection, FS_Injection

LEMMA UpTo == ASSUME NEW m \in Nat PROVE IsFiniteSet(1..m) /\ Cardinality(1..m) = m
  BY FS_Interval

LEMMA Grid ==
  ASSUME NEW N, IsFiniteSet(N), NEW m \in Nat
  PROVE  IsFiniteSet(N \X (1..m)) /\ Cardinality(N \X (1..m)) = Cardinality(N) * m
<1>1. PICK T : T = 1..m
  OBVIOUS
<1>2. IsFiniteSet(T) /\ Cardinality(T) = m
  BY <1>1, UpTo
<1>3. IsFiniteSet(N \X T) /\ Cardinality(N \X T) = Cardinality(N) * Cardinality(T)
  BY <1>2, FS_Product
<1> QED BY <1>1, <1>2, <1>3

(* m at most on each place.                                                *)
LEMMA FewPerPlace ==
  ASSUME NEW R, IsFiniteSet(R), NEW N, IsFiniteSet(N), NEW f \in [R -> N], NEW m \in Nat,
         \A n \in N : Cardinality(Fiber(f, R, n)) <= m
  PROVE  Cardinality(R) <= Cardinality(N) * m
<1> DEFINE count == [n \in N |-> CHOOSE g : Apart(g, Fiber(f, R, n), 1..m)]
           g == [i \in R |-> <<f[i], count[f[i]][i]>>]
<1>1. ASSUME NEW n \in N PROVE Apart(count[n], Fiber(f, R, n), 1..m)
  <2>1. IsFiniteSet(Fiber(f, R, n))
    <3>1. Fiber(f, R, n) \in SUBSET R
      BY DEF Fiber
    <3> QED BY <3>1, FS_Subset
  <2>2. \E c : Apart(c, Fiber(f, R, n), 1..m)
    BY <2>1, Numbered
  <2> QED BY <2>2
<1> HIDE DEF count
<1>2. \A i \in R : f[i] \in N /\ i \in Fiber(f, R, f[i])
  BY DEF Fiber
<1>3. \A i \in R : count[f[i]][i] \in 1..m
  BY <1>1, <1>2 DEF Apart
<1>4. ASSUME NEW i \in R, NEW j \in R, g[i] = g[j] PROVE i = j
  <2>1. f[i] = f[j] /\ count[f[i]][i] = count[f[i]][j]
    BY <1>4
  <2>2. i \in Fiber(f, R, f[i]) /\ j \in Fiber(f, R, f[i])
    BY <2>1 DEF Fiber
  <2> QED BY <1>1, <1>2, <2>1, <2>2 DEF Apart
<1>5. Apart(g, R, N \X (1..m))
  BY <1>2, <1>3, <1>4 DEF Apart
<1>6. IsFiniteSet(N \X (1..m)) /\ Cardinality(N \X (1..m)) = Cardinality(N) * m
  BY Grid
<1> QED BY <1>5, <1>6, AtMost

(* m at least on each place.                                               *)
LEMMA ManyPerPlace ==
  ASSUME NEW R, IsFiniteSet(R), NEW N, IsFiniteSet(N), NEW f, NEW m \in Nat,
         \A n \in N : m <= Cardinality(Fiber(f, R, n))
  PROVE  Cardinality(N) * m <= Cardinality(R)
<1> DEFINE list == [n \in N |-> CHOOSE g : Apart(g, 1..m, Fiber(f, R, n))]
           g == [x \in N \X (1..m) |-> list[x[1]][x[2]]]
<1>1. ASSUME NEW n \in N PROVE Apart(list[n], 1..m, Fiber(f, R, n))
  <2>1. IsFiniteSet(Fiber(f, R, n))
    <3>1. Fiber(f, R, n) \in SUBSET R
      BY DEF Fiber
    <3> QED BY <3>1, FS_Subset
  <2>2. \E c : Apart(c, 1..m, Fiber(f, R, n))
    BY <2>1, Listed
  <2> QED BY <2>2
<1> HIDE DEF list
<1>2. \A n \in N : \A k \in 1..m : list[n][k] \in R /\ f[list[n][k]] = n
  BY <1>1 DEF Apart, Fiber
<1>3. ASSUME NEW x \in N \X (1..m), NEW y \in N \X (1..m), g[x] = g[y] PROVE x = y
  <2>1. PICK n \in N, k \in 1..m : x = <<n, k>>
    OBVIOUS
  <2>2. PICK o \in N, l \in 1..m : y = <<o, l>>
    OBVIOUS
  <2>3. list[n][k] = list[o][l]
    BY <1>3, <2>1, <2>2
  <2>4. n = o
    BY <1>2, <2>3
  <2>5. k = l
    BY <1>1, <2>3, <2>4 DEF Apart
  <2> QED BY <2>1, <2>2, <2>4, <2>5
<1>4. g \in [N \X (1..m) -> R]
  BY <1>2
<1>5. Apart(g, N \X (1..m), R)
  BY <1>3, <1>4 DEF Apart
<1>6. Cardinality(N \X (1..m)) = Cardinality(N) * m
  BY Grid
<1> QED BY <1>5, <1>6, AtMost

(* What k places of m take can be laid out over k places or more.          *)
LEMMA LaidOut ==
  ASSUME NEW R, IsFiniteSet(R), NEW N, IsFiniteSet(N), NEW k \in Nat, NEW m \in Nat,
         k <= Cardinality(N), Cardinality(R) <= k * m
  PROVE  \E f \in [R -> N] : \A n \in N : Cardinality(Fiber(f, R, n)) <= m
<1>1. PICK place : Apart(place, 1..k, N)
  BY Listed
<1>2. PICK c : Apart(c, R, (1..k) \X (1..m))
  <2>1. IsFiniteSet((1..k) \X (1..m)) /\ Cardinality((1..k) \X (1..m)) = k * m
    <3>1. PICK K : K = 1..k
      OBVIOUS
    <3>2. IsFiniteSet(K) /\ Cardinality(K) = k
      BY <3>1, UpTo
    <3>3. IsFiniteSet(K \X (1..m)) /\ Cardinality(K \X (1..m)) = Cardinality(K) * m
      BY <3>2, Grid
    <3> QED BY <3>1, <3>2, <3>3
  <2>2. PICK r \in Nat, q \in Nat : r = Cardinality(R) /\ q = k * m
    BY FS_CardinalityType, <2>1
  <2>3. PICK g : Apart(g, R, 1..q)
    BY <2>2, Numbered
  <2>4. PICK h : Apart(h, 1..q, (1..k) \X (1..m))
    <3>1. PICK P : P = (1..k) \X (1..m)
      OBVIOUS
    <3>2. IsFiniteSet(P) /\ q <= Cardinality(P)
      BY <2>1, <2>2, <3>1
    <3> QED BY <3>1, <3>2, Listed
  <2>5. PICK P : P = (1..k) \X (1..m)
    OBVIOUS
  <2>6. Apart([i \in R |-> h[g[i]]], R, P)
    BY <2>3, <2>4, <2>5 DEF Apart
  <2> QED BY <2>5, <2>6
<1> DEFINE f == [i \in R |-> place[c[i][1]]]
<1>3. \A i \in R : c[i][1] \in 1..k /\ c[i][2] \in 1..m /\ c[i] = <<c[i][1], c[i][2]>>
  BY <1>2 DEF Apart
<1>4. f \in [R -> N]
  BY <1>1, <1>3 DEF Apart
<1>5. ASSUME NEW n \in N PROVE Cardinality(Fiber(f, R, n)) <= m
  <2> DEFINE g == [i \in Fiber(f, R, n) |-> c[i][2]]
  <2>1. \A i \in Fiber(f, R, n) : i \in R /\ place[c[i][1]] = n
    BY DEF Fiber
  <2>2. ASSUME NEW i \in Fiber(f, R, n), NEW j \in Fiber(f, R, n), g[i] = g[j] PROVE i = j
    <3>1. c[i][1] = c[j][1]
      BY <1>1, <1>3, <2>1 DEF Apart
    <3>2. c[i] = c[j]
      BY <1>3, <2>1, <2>2, <3>1
    <3> QED BY <1>2, <2>1, <3>2 DEF Apart
  <2>3. Apart(g, Fiber(f, R, n), 1..m)
    <3>1. g \in [Fiber(f, R, n) -> 1..m]
      BY <1>3, <2>1
    <3> QED BY <2>2, <3>1 DEF Apart
  <2> QED BY <2>3, UpTo, AtMost
<1> QED BY <1>4, <1>5

(* A rounded up quotient, for a divisor at least 1.                        *)
LEMMA RoundedUp ==
  ASSUME NEW r \in Nat, NEW k \in Nat, k >= 1
  PROVE  LET m == (r + k - 1) \div k
         IN  m \in Nat /\ r <= k * m /\ k * m < r + k
<1>1. PICK x \in Nat : x = r + k - 1
  OBVIOUS
<1>2. PICK m : m = x \div k
  OBVIOUS
<1>3. m \in Int
  BY <1>2
<1>5. k * m <= x
  BY <1>2
<1>6. x < k * m + k
  BY <1>2
<1>4. m \in Nat
  BY <1>2
<1>7. k * m \in Int
  BY <1>3
<1>8. r <= k * m /\ k * m < r + k
  BY <1>1, <1>5, <1>6, <1>7
<1> QED BY <1>1, <1>2, <1>4, <1>8

LEMMA GreatestIs ==
  ASSUME NEW T \in SUBSET Int, IsFiniteSet(T), T # {}
  PROVE  Max(T) \in T /\ \A e \in T : e <= Max(T)
<1>0. \A x \in T : x \in Int /\ 0 - x \in Int
  OBVIOUS
<1>1. PICK f \in [T -> Int] : f = [x \in T |-> 0 - x]
  BY <1>0
<1>2. PICK m \in T : \A e \in T : f[m] <= f[e]
  BY <1>1, LeastBy
<1>3. \A e \in T : m >= e
  BY <1>0, <1>1, <1>2
<1> QED BY <1>3 DEF Max

-----------------------------------------------------------------------------
(* The spread of a workload *)

Where == [i \in DOMAIN cluster.pods |-> cluster.pods[i].node]

LEMMA ReplicasAre ==
  ASSUME GoodSpread(cluster)
  PROVE  /\ IsFiniteSet(Replicas) /\ Replicas \subseteq DOMAIN Where
         /\ Hosting = {Where[i] : i \in Replicas} /\ IsFiniteSet(Hosting)
         /\ \A n : On(n) = Cardinality(Fiber(Where, Replicas, n)) /\ On(n) \in Nat
         /\ Cardinality(Replicas) \in Nat /\ Cardinality(Hosting) \in Nat
<1>1. IsFiniteSet(DOMAIN cluster.pods)
  <2>1. PICK pods, S : pods = cluster.pods /\ S = ToSet(cluster.pods)
    OBVIOUS
  <2>2. pods \in Seq(S)
    BY <2>1 DEF GoodSpread
  <2>3. PICK n \in Nat : DOMAIN pods = 1..n
    BY <2>2
  <2> QED BY <2>1, <2>3, UpTo
<1>2. Replicas \in SUBSET DOMAIN cluster.pods
  BY DEF Replicas, Living
<1>3. \A i \in Replicas : Where[i] = cluster.pods[i].node
  BY <1>2 DEF Where
<1>4. IsFiniteSet(Replicas)
  BY <1>1, <1>2, FS_Subset
<1>5. Hosting = {Where[i] : i \in Replicas}
  BY <1>3 DEF Hosting
<1>6. IsFiniteSet(Hosting)
  <2>1. PICK f : f = [i \in Replicas |-> Where[i]]
    OBVIOUS
  <2>2. f \in Surjection(Replicas, Hosting)
    BY <1>5, <2>1 DEF Surjection
  <2> QED BY <1>4, <2>2, FS_Surjection
<1>7. ASSUME NEW n PROVE On(n) = Cardinality(Fiber(Where, Replicas, n)) /\ On(n) \in Nat
  <2>1. Fiber(Where, Replicas, n) = {i \in Replicas : cluster.pods[i].node = n}
    BY <1>3 DEF Fiber
  <2>2. Fiber(Where, Replicas, n) \in SUBSET Replicas
    BY DEF Fiber
  <2>3. IsFiniteSet(Fiber(Where, Replicas, n))
    BY <1>4, <2>2, FS_Subset
  <2> QED BY <2>1, <2>3, FS_CardinalityType DEF On
<1> QED BY <1>2, <1>4, <1>5, <1>6, <1>7, FS_CardinalityType DEF Where

LEMMA LivingFinite ==
  ASSUME GoodSpread(cluster)
  PROVE  IsFiniteSet(Living(cluster.workload, cluster.pods, cluster.rss))
<1>1. PICK living : living = Living(cluster.workload, cluster.pods, cluster.rss)
  OBVIOUS
<1>2. living \in SUBSET DOMAIN cluster.pods
  BY <1>1 DEF Living
<1>3. PICK pods, S : pods = cluster.pods /\ S = ToSet(cluster.pods)
  OBVIOUS
<1>4. pods \in Seq(S)
  BY <1>3 DEF GoodSpread
<1>5. PICK n \in Nat : DOMAIN pods = 1..n
  BY <1>4
<1>6. IsFiniteSet(DOMAIN cluster.pods)
  BY <1>3, <1>5, UpTo
<1> QED BY <1>1, <1>2, <1>6, FS_Subset

OpenNodes == {m \in UNION cluster.nodes : Available(m) /\ AcceptsTemplate(m, cluster.workload.spec)}

LEMMA OpenedAre ==
  ASSUME GoodSpread(cluster)
  PROVE  /\ IsFiniteSet(Opened) /\ Cardinality(Opened) \in Nat
         /\ Cardinality(OpenNodes) = Cardinality(Opened)
<1>1. IsFiniteSet(UNION cluster.nodes) /\ OneByName(UNION cluster.nodes)
  <2>1. CASE cluster.nodes = {}
    <3>1. UNION cluster.nodes = {}
      BY <2>1
    <3> QED BY <3>1, FS_EmptySet DEF OneByName
  <2>2. CASE cluster.nodes # {}
    <3>1. PICK list \in cluster.nodes : cluster.nodes = {list}
      BY <2>2 DEF GoodSpread
    <3>2. UNION cluster.nodes = list
      BY <3>1
    <3> QED BY <3>2 DEF GoodSpread
  <2> QED BY <2>1, <2>2
<1>2. OpenNodes \in SUBSET UNION cluster.nodes
  BY DEF OpenNodes
<1>3. IsFiniteSet(OpenNodes)
  BY <1>1, <1>2, FS_Subset
<1>4. PICK f : f = [n \in OpenNodes |-> n.name]
  OBVIOUS
<1>5. Opened = {n.name : n \in OpenNodes}
  BY DEF Opened, OpenNodes
<1>6. f \in Bijection(OpenNodes, Opened)
  <2>1. \A m, n \in OpenNodes : f[m] = f[n] => m = n
    BY <1>1, <1>2, <1>4 DEF OneByName
  <2>2. f \in [OpenNodes -> Opened] /\ \A x \in Opened : \E n \in OpenNodes : f[n] = x
    BY <1>4, <1>5
  <2> QED BY <2>1, <2>2 DEF Bijection, Injection, IsInjective, Surjection
<1> QED BY <1>3, <1>6, FS_Bijection, FS_CardinalityType DEF ExistsBijection

Placed == Placement(cluster.workload, cluster.pods, cluster.rss, cluster.nodes)
Everywhere == Opened \cup Hosting
Worst == Max({On(h) : h \in Hosting})

LEMMA PlacementIs ==
  ASSUME GoodSpread(cluster)
  PROVE  /\ Placed.running = Cardinality(Replicas)
         /\ Placed.hosts = Cardinality(Hosting)
         /\ Placed.worst = IF Hosting = {} THEN 0 ELSE Worst
         /\ Placed.guard = GuardOf(cluster.workload.spec)
         /\ Placed.desired = cluster.workload.desired
         /\ Placed.pending = Cardinality(Living(cluster.workload, cluster.pods, cluster.rss) \ Replicas)
         /\ \A e \in Placed.eligible :
              /\ cluster.nodes # {}
              /\ e = Larger(Cardinality(Opened), Cardinality(Hosting))
         /\ cluster.nodes # {} =>
              Larger(Cardinality(Opened), Cardinality(Hosting)) \in Placed.eligible
<1>1. Cardinality(OpenNodes) = Cardinality(Opened)
  BY OpenedAre
<1> DEFINE living == Living(cluster.workload, cluster.pods, cluster.rss)
           on(n) == Cardinality({i \in Replicas : cluster.pods[i].node = n})
<1>2. Replicas = {i \in living : cluster.pods[i].node # ""}
  BY DEF Replicas
<1>3. \A n : on(n) = On(n)
  BY DEF On
<1>4. Placed =
        [running  |-> Cardinality(Replicas),
         desired  |-> cluster.workload.desired,
         pending  |-> Cardinality(living \ Replicas),
         hosts    |-> Cardinality(Hosting),
         eligible |-> {Larger(Cardinality(OpenNodes), Cardinality(Hosting)) : list \in cluster.nodes},
         worst    |-> IF Hosting = {} THEN 0 ELSE Max({on(n) : n \in Hosting}),
         guard    |-> GuardOf(cluster.workload.spec)]
  BY <1>2 DEF Placed, Placement, Hosting, OpenNodes
<1>5. {on(n) : n \in Hosting} = {On(h) : h \in Hosting}
  BY <1>3
<1> HIDE DEF living, on
<1> QED BY <1>1, <1>4, <1>5 DEF Worst, living

LEMMA WorstOf ==
  ASSUME GoodSpread(cluster), Replicas # {}
  PROVE  /\ Hosting # {} /\ Worst \in Nat /\ Worst >= 1
         /\ \A n : On(n) <= Worst
         /\ \E n \in Hosting : On(n) = Worst
<1>1. /\ Hosting = {Where[i] : i \in Replicas} /\ IsFiniteSet(Hosting)
      /\ IsFiniteSet(Replicas)
      /\ \A n : On(n) = Cardinality(Fiber(Where, Replicas, n)) /\ On(n) \in Nat
  BY ReplicasAre
<1>2. PICK h \in Hosting : TRUE
  BY <1>1
<1>3. PICK T : T = {On(n) : n \in Hosting}
  OBVIOUS
<1>4. T \in SUBSET Int /\ T # {} /\ IsFiniteSet(T)
  <2>1. T \in SUBSET Int /\ T # {}
    BY <1>1, <1>2, <1>3
  <2>2. PICK f : f = [n \in Hosting |-> On(n)]
    OBVIOUS
  <2>3. f \in Surjection(Hosting, T)
    BY <1>3, <2>2 DEF Surjection
  <2> QED BY <1>1, <2>1, <2>3, FS_Surjection
<1>5. Max(T) \in T /\ \A e \in T : e <= Max(T)
  BY <1>4, GreatestIs
<1>6. ASSUME NEW n, n \notin Hosting PROVE On(n) = 0
  <2>1. Fiber(Where, Replicas, n) = {}
    BY <1>1, <1>6 DEF Fiber
  <2> QED BY <1>1, <2>1, FS_EmptySet
<1>7. ASSUME NEW n \in Hosting PROVE On(n) >= 1
  <2>1. Fiber(Where, Replicas, n) # {}
    BY <1>1 DEF Fiber
  <2>2. Fiber(Where, Replicas, n) \in SUBSET Replicas
    BY DEF Fiber
  <2>3. Cardinality(Fiber(Where, Replicas, n)) # 0
    BY <1>1, <2>1, <2>2, FS_EmptySet, FS_Subset
  <2> QED BY <1>1, <2>3
<1>8. Worst = Max(T)
  BY <1>3 DEF Worst
<1>9. PICK n \in Hosting : On(n) = Worst
  BY <1>3, <1>5, <1>8
<1>10. Worst \in Nat /\ Worst >= 1
  BY <1>1, <1>7, <1>9
<1>11. \A m \in Hosting : On(m) <= Worst
  BY <1>3, <1>5, <1>8
<1> QED BY <1>2, <1>6, <1>9, <1>10, <1>11

Said == Hints(cluster.workload, cluster.pods, cluster.rss, cluster.nodes)

LEMMA SaidIs ==
  ASSUME GoodSpread(cluster), reasons = Said, Replicas # {}
  PROVE  /\ BadlySpread <=> Examined(Placed) /\ (SinglePoint(Placed) \/ Concentrated(Placed))
         /\ "HardGuardViolated" \in reasons =>
              /\ SinglePoint(Placed) \/ Concentrated(Placed)
              /\ Hard(Placed.guard) /\ Placed.worst > 1
<1>1. Living(cluster.workload, cluster.pods, cluster.rss) # {}
  BY DEF Replicas
<1>2. reasons = IF Examined(Placed) THEN Judge(Placed) ELSE {}
  BY <1>1 DEF Said, Hints, Placed
<1> DEFINE where == IF SinglePoint(Placed) THEN {"SinglePoint"}
                    ELSE IF Concentrated(Placed) THEN {"Concentrated"} ELSE {}
<1>3. \/ Judge(Placed) = where \cup {Cause(Placed) : x \in where}
      \/ Judge(Placed) = where \cup {Cause(Placed) : x \in where} \cup {"Impossible"}
  BY DEF Judge
<1>4. /\ Cause(Placed) \in {"NoGuard", "HardGuardViolated", "PreferredOnly", "GuardDeclared"}
      /\ Cause(Placed) = "HardGuardViolated" => Hard(Placed.guard) /\ Placed.worst > 1
  BY DEF Cause
<1> QED BY <1>2, <1>3, <1>4 DEF BadlySpread

LEMMA OverIs ==
  ASSUME NEW p, p.running \in Nat, p.running >= 1, NEW e \in Nat, e >= 1
  PROVE  \E over \in Nat, m \in Nat :
            /\ over >= 1 /\ over <= e /\ (over = e \/ over = p.running)
            /\ BalancedMax(p, e) = m
            /\ p.running <= over * m /\ over * m < p.running + over
<1>1. PICK r \in Nat : r = p.running /\ r >= 1
  OBVIOUS
<1>2. Min({e, r}) = IF e <= r THEN e ELSE r
  BY DEF Min
<1>3. PICK over \in Nat : /\ over >= 1 /\ over <= e /\ (over = e \/ over = r)
                         /\ over = Larger(Min({e, p.running}), 1)
  BY <1>1, <1>2 DEF Larger
<1>4. PICK m \in Nat : m = (r + over - 1) \div over /\ r <= over * m /\ over * m < r + over
  BY <1>3, RoundedUp
<1> QED BY <1>1, <1>3, <1>4 DEF BalancedMax

LEMMA EverywhereIs ==
  ASSUME GoodSpread(cluster), Replicas # {}
  PROVE  /\ IsFiniteSet(Everywhere) /\ Cardinality(Everywhere) \in Nat
         /\ Hosting \subseteq Everywhere /\ Opened \subseteq Everywhere
         /\ Larger(Cardinality(Opened), Cardinality(Hosting)) \in Nat
         /\ Larger(Cardinality(Opened), Cardinality(Hosting)) >= 1
         /\ Larger(Cardinality(Opened), Cardinality(Hosting)) <= Cardinality(Everywhere)
<1>1. /\ IsFiniteSet(Hosting) /\ IsFiniteSet(Opened)
      /\ Cardinality(Opened) \in Nat /\ Cardinality(Hosting) \in Nat
  BY ReplicasAre, OpenedAre
<1>2. IsFiniteSet(Everywhere) /\ Hosting \in SUBSET Everywhere /\ Opened \in SUBSET Everywhere
  BY <1>1, FS_Union DEF Everywhere
<1>3. /\ Cardinality(Everywhere) \in Nat
      /\ Cardinality(Hosting) <= Cardinality(Everywhere)
      /\ Cardinality(Opened) <= Cardinality(Everywhere)
  BY <1>2, FS_Subset, FS_CardinalityType
<1>4. Cardinality(Hosting) >= 1
  <2>1. Hosting # {}
    BY WorstOf
  <2> QED BY <1>1, <2>1, FS_EmptySet
<1> QED BY <1>1, <1>2, <1>3, <1>4 DEF Larger

(* A workload found badly spread can be laid out better.                   *)
LEMMA BadMeansBetter ==
  ASSUME GoodSpread(cluster), reasons = Said, Replicas # {}, BadlySpread
  PROVE  Avoidable
<1>1. PICK r \in Nat : r = Cardinality(Replicas) /\ r = Placed.running /\ r >= 1
  BY ReplicasAre, PlacementIs, FS_EmptySet
<1>2. PICK w \in Nat : w = Worst /\ w = Placed.worst /\ w >= 1
  BY WorstOf, PlacementIs
<1>3. PICK e \in Nat : /\ e >= 1 /\ e = Larger(Cardinality(Opened), Cardinality(Hosting))
                      /\ e <= Cardinality(Everywhere)
  BY EverywhereIs
<1>4. \A x \in Placed.eligible : x = e
  BY <1>3, PlacementIs
<1>5. IsFiniteSet(Replicas) /\ IsFiniteSet(Everywhere) /\ Cardinality(Everywhere) \in Nat
  BY ReplicasAre, EverywhereIs
<1>6. \E k \in Nat, m \in Nat : k <= Cardinality(Everywhere) /\ r <= k * m /\ m < w
  <2>1. CASE SinglePoint(Placed)
    <3>1. r > 1 /\ e > 1 /\ Cardinality(Hosting) = 1
      BY <1>1, <1>4, <2>1, PlacementIs DEF SinglePoint
    <3>2. w = r
      <4>1. PICK h : Hosting = {h}
        BY <3>1, ReplicasAre, FS_Singleton
      <4>2. Fiber(Where, Replicas, h) = Replicas
        BY <4>1, ReplicasAre DEF Fiber
      <4>3. On(h) = r
        BY <1>1, <4>2, ReplicasAre
      <4> QED BY <1>2, <4>1, <4>3, WorstOf
    <3>3. r - 1 \in Nat /\ 2 \in Nat /\ 2 <= Cardinality(Everywhere) /\ r <= 2 * (r - 1) /\ r - 1 < w
      BY <1>3, <1>5, <3>1, <3>2
    <3> QED BY <3>3
  <2>2. CASE Concentrated(Placed)
    <3>1. w > BalancedMax(Placed, e)
      BY <1>2, <1>4, <2>2 DEF Concentrated
    <3>2. PICK over \in Nat, m \in Nat :
             over <= e /\ BalancedMax(Placed, e) = m /\ Placed.running <= over * m
      BY <1>1, <1>3, OverIs
    <3>3. over <= Cardinality(Everywhere) /\ r <= over * m /\ m < w
      <4>1. over <= Cardinality(Everywhere)
        BY <1>3, <1>5, <3>2
      <4> QED BY <1>1, <3>1, <3>2, <4>1
    <3> QED BY <3>3
  <2> QED BY <2>1, <2>2, SaidIs
<1>7. PICK k \in Nat, m \in Nat : k <= Cardinality(Everywhere) /\ r <= k * m /\ m < w
  BY <1>6
<1>8. PICK f \in [Replicas -> Everywhere] :
         \A n \in Everywhere : Cardinality(Fiber(f, Replicas, n)) <= m
  <2>1. Cardinality(Replicas) <= k * m
    BY <1>1, <1>7
  <2> QED BY <1>5, <1>7, <2>1, LaidOut
<1>9. ASSUME NEW n \in Everywhere PROVE Cardinality({i \in Replicas : f[i] = n}) < w
  <2>1. Fiber(f, Replicas, n) \in SUBSET Replicas
    BY DEF Fiber
  <2>2. Cardinality(Fiber(f, Replicas, n)) \in Nat
    BY <1>5, <2>1, FS_Subset, FS_CardinalityType
  <2>3. Cardinality(Fiber(f, Replicas, n)) < w
    BY <1>7, <1>8, <2>2
  <2> QED BY <2>3 DEF Fiber
<1>10. w = Max({On(h) : h \in Hosting})
  BY <1>2 DEF Worst
<1> QED BY <1>8, <1>9, <1>10 DEF Avoidable, Everywhere

(* A better layout over the nodes that take the replicas is not missed.    *)
LEMMA BetterMeansBad ==
  ASSUME GoodSpread(cluster), reasons = Said, Replicas # {},
         cluster.nodes # {}, Hosting \subseteq Opened, Avoidable
  PROVE  BadlySpread
<1>1. PICK r \in Nat : r = Cardinality(Replicas) /\ r = Placed.running /\ r >= 1
  BY ReplicasAre, PlacementIs, FS_EmptySet
<1>2. PICK w \in Nat : w = Worst /\ w = Placed.worst /\ w >= 1
  BY WorstOf, PlacementIs
<1>3. PICK e \in Nat : e = Cardinality(Everywhere) /\ e >= 1 /\ e \in Placed.eligible
  <2>1. Everywhere = Opened
    BY DEF Everywhere
  <2>2. Hosting \in SUBSET Opened
    OBVIOUS
  <2>3. /\ Cardinality(Hosting) <= Cardinality(Opened)
        /\ Cardinality(Opened) \in Nat /\ Cardinality(Hosting) \in Nat
    BY <2>2, OpenedAre, ReplicasAre, FS_Subset
  <2>4. Larger(Cardinality(Opened), Cardinality(Hosting)) = Cardinality(Opened)
    BY <2>3 DEF Larger
  <2> QED BY <2>1, <2>3, <2>4, EverywhereIs, PlacementIs
<1>4. IsFiniteSet(Replicas) /\ IsFiniteSet(Everywhere)
  BY ReplicasAre, EverywhereIs
<1>5. PICK f \in [Replicas -> Everywhere] :
         \A n \in Everywhere : Cardinality({i \in Replicas : f[i] = n}) < w
  BY <1>2 DEF Avoidable, Everywhere, Worst
<1>6. PICK v \in Nat : v = w - 1
  BY <1>2
<1>7. ASSUME NEW n \in Everywhere PROVE Cardinality(Fiber(f, Replicas, n)) <= v
  <2>1. Fiber(f, Replicas, n) \in SUBSET Replicas
    BY DEF Fiber
  <2>2. Cardinality(Fiber(f, Replicas, n)) \in Nat
    BY <1>4, <2>1, FS_Subset, FS_CardinalityType
  <2>3. Cardinality(Fiber(f, Replicas, n)) < w
    BY <1>5 DEF Fiber
  <2> QED BY <1>6, <2>2, <2>3
<1>8. r <= e * v
  BY <1>1, <1>3, <1>4, <1>7, FewPerPlace
<1>9. v >= 1
  <2>1. v = 0 => e * v = 0
    BY <1>3
  <2> QED BY <1>1, <1>8, <2>1
<1>10. Concentrated(Placed)
  <2>1. PICK over \in Nat, m \in Nat :
          /\ over >= 1 /\ over <= e /\ (over = e \/ over = r)
          /\ BalancedMax(Placed, e) = m
          /\ r <= over * m /\ over * m < r + over
    BY <1>1, <1>3, OverIs
  <2>2. m <= v
    <3> SUFFICES ASSUME m >= w PROVE FALSE
      BY <1>2, <1>6, <2>1
    <3>1. over * w <= over * m
      BY <2>1
    <3>2. over * w < r + over
      <4>1. over * w \in Int /\ over * m \in Int
        BY <2>1
      <4> QED BY <1>1, <2>1, <3>1, <4>1
    <3>3. over * w = over * v + over
      BY <1>2, <1>6, <2>1
    <3>4. over * v < r
      <4>1. over * w \in Int /\ over * v \in Int
        BY <1>6, <2>1
      <4> QED BY <1>1, <2>1, <3>2, <3>3, <4>1
    <3>5. CASE over = e
      BY <1>1, <1>8, <3>4, <3>5
    <3>6. CASE over = r
      <4>1. r <= r * v
        BY <1>1, <1>9
      <4> QED BY <1>1, <3>4, <3>6, <4>1
    <3> QED BY <2>1, <3>5, <3>6
  <2>3. Placed.worst > BalancedMax(Placed, e)
    BY <1>2, <1>6, <2>1, <2>2
  <2> QED BY <1>3, <2>3 DEF Concentrated
<1>11. Examined(Placed)
  <2>1. w > 1
    BY <1>2, <1>6, <1>9
  <2>2. r > 1
    <3>1. PICK h \in Hosting : On(h) = w
      BY <1>2, WorstOf
    <3>2. Fiber(Where, Replicas, h) \in SUBSET Replicas
      BY DEF Fiber
    <3>3. w <= r
      <4>1. Cardinality(Fiber(Where, Replicas, h)) <= r
        BY <1>1, <1>4, <3>2, FS_Subset
      <4>2. On(h) = Cardinality(Fiber(Where, Replicas, h))
        BY ReplicasAre
      <4> QED BY <3>1, <4>1, <4>2
    <3> QED BY <1>1, <1>2, <2>1, <3>3
  <2>3. Placed.pending \in Nat
    <3>1. PICK living : living = Living(cluster.workload, cluster.pods, cluster.rss)
      OBVIOUS
    <3>2. IsFiniteSet(living)
      BY <3>1, LivingFinite
    <3>3. IsFiniteSet(living \ Replicas)
      BY <3>2, FS_Difference
    <3> QED BY <3>1, <3>3, PlacementIs, FS_CardinalityType
  <2> QED BY <1>1, <2>2, <2>3 DEF Examined
<1> QED BY <1>10, <1>11, SaidIs

(* A hard rule said to be broken is broken.                                *)
LEMMA BrokenIndeed ==
  ASSUME GoodSpread(cluster), reasons = Said, Replicas # {}, "HardGuardViolated" \in reasons
  PROVE  \/ /\ HostnameKey \in cluster.workload.spec.required
            /\ \E n \in Hosting : On(n) > 1
         \/ \E c \in cluster.workload.spec.constraints :
               /\ c.key = HostnameKey /\ c.when = "DoNotSchedule"
               /\ \E n \in Hosting, other \in Opened \cup Hosting : On(n) - On(other) > c.skew
<1>1. PICK r \in Nat : r = Cardinality(Replicas) /\ r = Placed.running /\ r >= 1
  BY ReplicasAre, PlacementIs, FS_EmptySet
<1>2. PICK w \in Nat : w = Worst /\ w = Placed.worst /\ w >= 1
  BY WorstOf, PlacementIs
<1>3. PICK e \in Nat : /\ e >= 1 /\ e = Larger(Cardinality(Opened), Cardinality(Hosting))
                      /\ e <= Cardinality(Everywhere)
  BY EverywhereIs
<1>4. \A x \in Placed.eligible : x = e
  BY <1>3, PlacementIs
<1>5. /\ IsFiniteSet(Replicas) /\ IsFiniteSet(Everywhere) /\ Cardinality(Everywhere) \in Nat
      /\ Hosting \subseteq Everywhere
      /\ \A n : On(n) = Cardinality(Fiber(Where, Replicas, n)) /\ On(n) \in Nat
      /\ Hosting = {Where[i] : i \in Replicas}
  BY ReplicasAre, EverywhereIs
<1>6. PICK h \in Hosting : On(h) = w
  BY <1>2, WorstOf
<1>7. /\ SinglePoint(Placed) \/ Concentrated(Placed)
      /\ w > 1
      /\ Hard(GuardOf(cluster.workload.spec))
  BY <1>2, SaidIs, PlacementIs
<1>8. \E other \in Everywhere : On(other) <= w - 2
  <2>1. CASE SinglePoint(Placed)
    <3>1. r > 1 /\ e > 1 /\ Cardinality(Hosting) = 1
      BY <1>1, <1>4, <2>1, PlacementIs DEF SinglePoint
    <3>2. Hosting # Everywhere
      BY <1>3, <1>5, <3>1
    <3>3. PICK other \in Everywhere : other \notin Hosting
      BY <1>5, <3>2
    <3>4. Fiber(Where, Replicas, other) = {}
      BY <1>5, <3>3 DEF Fiber
    <3>5. On(other) = 0
      BY <1>5, <3>4, FS_EmptySet
    <3> QED BY <1>7, <3>5
  <2>2. CASE Concentrated(Placed)
    <3>1. w > BalancedMax(Placed, e)
      BY <1>2, <1>4, <2>2 DEF Concentrated
    <3>2. PICK over \in Nat, m \in Nat :
             /\ over >= 1 /\ over <= e /\ BalancedMax(Placed, e) = m /\ r <= over * m
      BY <1>1, <1>3, OverIs
    <3> SUFFICES ASSUME \A other \in Everywhere : ~(On(other) <= w - 2) PROVE FALSE
      OBVIOUS
    <3>3. PICK v \in Nat : v = w - 1 /\ m <= v
      BY <1>2, <3>1, <3>2
    <3>4. PICK x \in Replicas : Where[x] = h
      BY <1>5, <1>6
    <3>5. PICK rest : rest = Replicas \ {x}
      OBVIOUS
    <3>6. IsFiniteSet(rest) /\ Cardinality(rest) = r - 1
      BY <1>1, <1>5, <3>4, <3>5, FS_RemoveElement
    <3>7. ASSUME NEW n \in Everywhere PROVE v <= Cardinality(Fiber(Where, rest, n))
      <4>1. CASE n = h
        <5>1. Fiber(Where, rest, h) = Fiber(Where, Replicas, h) \ {x} /\ x \in Fiber(Where, Replicas, h)
          BY <3>4, <3>5 DEF Fiber
        <5>2. Fiber(Where, Replicas, h) \in SUBSET Replicas
          BY DEF Fiber
        <5>3. Cardinality(Fiber(Where, rest, h)) = w - 1
          BY <1>5, <1>6, <5>1, <5>2, FS_Subset, FS_RemoveElement
        <5> QED BY <3>3, <4>1, <5>3
      <4>2. CASE n # h
        <5>1. Fiber(Where, rest, n) = Fiber(Where, Replicas, n)
          BY <3>4, <3>5, <4>2 DEF Fiber
        <5>2. Cardinality(Fiber(Where, rest, n)) = On(n) /\ On(n) \in Nat /\ ~(On(n) <= w - 2)
          BY <1>5, <5>1
        <5> QED BY <1>2, <3>3, <5>2
      <4> QED BY <4>1, <4>2
    <3>8. Cardinality(Everywhere) * v <= r - 1
      BY <1>5, <3>6, <3>7, ManyPerPlace
    <3>9. PICK E \in Nat : E = Cardinality(Everywhere) /\ over <= E
      BY <1>3, <1>5, <3>2
    <3>10. over * m <= E * m
      BY <3>2, <3>9
    <3>11. E * m <= E * v
      BY <3>2, <3>3, <3>9
    <3>12. over * m \in Int /\ E * m \in Int /\ E * v \in Int
      BY <3>2, <3>3, <3>9
    <3> QED BY <1>1, <3>2, <3>8, <3>9, <3>10, <3>11, <3>12
  <2> QED BY <1>7, <2>1, <2>2
<1>9. CASE HostnameKey \in cluster.workload.spec.required
  <2>1. On(h) > 1
    BY <1>6, <1>7
  <2> QED BY <1>9, <2>1
<1>10. CASE HostnameKey \notin cluster.workload.spec.required
  <2>1. PICK c \in cluster.workload.spec.constraints :
           c.key = HostnameKey /\ c.when = "DoNotSchedule" /\ c.skew <= 1
    BY <1>7, <1>10 DEF Hard, GuardOf
  <2>2. c.skew \in Nat
    BY DEF GoodSpread
  <2>3. PICK other \in Everywhere : On(other) <= w - 2
    BY <1>8
  <2>4. On(h) - On(other) > c.skew
    BY <1>2, <1>5, <1>6, <2>1, <2>2, <2>3
  <2> QED BY <2>1, <2>3, <2>4 DEF Everywhere
<1> QED BY <1>9, <1>10

LEMMA SpreadTold ==
  ASSUME GoodSpread(cluster), reasons = Said PROVE SpreadIsHonest /\ HardRuleIsBroken
<1>1. Replicas = {} => "HardGuardViolated" \notin reasons
  <2> SUFFICES ASSUME Replicas = {} PROVE "HardGuardViolated" \notin reasons
    OBVIOUS
  <2>1. Cardinality(Replicas) = 0 /\ Hosting = {}
    BY FS_EmptySet, ReplicasAre
  <2>2. Placed.running = 0 /\ Placed.worst = 0
    BY <2>1, PlacementIs
  <2>3. Placed.eligible \subseteq Nat
    BY PlacementIs, OpenedAre, ReplicasAre DEF Larger
  <2>4. ~SinglePoint(Placed)
    BY <2>2 DEF SinglePoint
  <2>5. ~Concentrated(Placed)
    <3> SUFFICES ASSUME NEW e \in Placed.eligible, Placed.worst > BalancedMax(Placed, e) PROVE FALSE
      BY DEF Concentrated
    <3>1. Min({e, 0}) = 0
      BY <2>3 DEF Min
    <3>2. BalancedMax(Placed, e) = (0 + 1 - 1) \div 1
      BY <2>2, <3>1 DEF BalancedMax, Larger
    <3> QED BY <2>2, <3>2
  <2>6. Judge(Placed) \subseteq {"Impossible"}
    BY <2>4, <2>5 DEF Judge
  <2>7. reasons \subseteq {"Impossible"}
    BY <2>6 DEF Said, Hints, Placed
  <2> QED BY <2>7
<1> QED BY <1>1, BadMeansBetter, BetterMeansBad, BrokenIndeed DEF SpreadIsHonest, HardRuleIsBroken

-----------------------------------------------------------------------------
(* What was made of a good case is the verdict on it.                      *)
HintsInv ==
  /\ GoodCluster(cluster)
  /\ Judged("spread") => reasons = Said
  /\ Judged("webhooks") => reasons = HooksJudged(cluster.configs)

LEMMA HintsCollected ==
  ASSUME HintsInv, ~assessed, CollectCluster, UNCHANGED cluster PROVE HintsInv'
<1>1. cluster' = cluster /\ GoodCluster(cluster)
  BY DEF HintsInv
<1>2. GoodCluster(cluster')
  BY <1>1
<1>3. cluster.about = "spread" => reasons' = Said
  BY DEF CollectCluster, CollectDrain, CollectLoss, CollectSpread, CollectWebhooks, About, Said
<1>4. cluster.about = "webhooks" => reasons' = HooksJudged(cluster.configs)
  BY DEF CollectCluster, CollectDrain, CollectLoss, CollectSpread, CollectWebhooks, About
<1>5. Said' = Said
  BY <1>1 DEF Said
<1>6. HooksJudged(cluster'.configs) = HooksJudged(cluster.configs)
  BY <1>1
<1> QED BY <1>1, <1>2, <1>3, <1>4, <1>5, <1>6 DEF HintsInv, Judged, About

LEMMA HintsTold == ASSUME HintsInv PROVE HintsAreTold
<1>1. Judged("spread") => GoodSpread(cluster) /\ reasons = Said
  BY DEF HintsInv, Judged, About, GoodCluster
<1>2. Judged("webhooks") => GoodWebhooks(cluster) /\ reasons = HooksJudged(cluster.configs)
  BY DEF HintsInv, Judged, About, GoodCluster
<1>3. Judged("spread") => SpreadIsHonest /\ HardRuleIsBroken
  BY <1>1, SpreadTold
<1>4. Judged("webhooks") => OutagesAreTold /\ NeverHealthier
  BY <1>2, OutagesTold, WorstTold
<1>5. ~Judged("spread") => SpreadIsHonest /\ HardRuleIsBroken
  BY DEF SpreadIsHonest, HardRuleIsBroken
<1>6. ~Judged("webhooks") => OutagesAreTold /\ NeverHealthier
  BY DEF OutagesAreTold, NeverHealthier
<1> QED BY <1>3, <1>4, <1>5, <1>6 DEF HintsAreTold

(* For every workload, list of pods and list of nodes, the replicas are    *)
(* said to be badly spread only where fewer could be on the fullest node,  *)
(* and wherever they could over nodes that take them; a hard rule said to  *)
(* be broken is; and for every list of configurations an outage that       *)
(* blocks writes is told in the three places where one would look for it,  *)
(* and no configuration reads healthier than a webhook of it               *)
(* (src/spread.rs, `judge`, `balanced_max`; src/hooks.rs,               *)
(* `admission_hints`, `config_hints`).                                     *)
THEOREM HintsToldOfAll == ClusterSpec => []HintsAreTold
<1>1. GoodCluster(cluster) /\ assessed = FALSE => HintsInv
  BY DEF HintsInv, Judged
<1>2. HintsInv /\ [~assessed /\ assessed' = TRUE /\ CollectCluster /\ UNCHANGED cluster]_<<cluster, reasons, assessed>>
        => HintsInv'
  <2> SUFFICES ASSUME HintsInv,
                      [~assessed /\ assessed' = TRUE /\ CollectCluster /\ UNCHANGED cluster]_<<cluster, reasons, assessed>>
               PROVE  HintsInv'
    OBVIOUS
  <2>1. CASE ~assessed /\ assessed' = TRUE /\ CollectCluster /\ UNCHANGED cluster
    BY <2>1, HintsCollected
  <2>2. CASE UNCHANGED <<cluster, reasons, assessed>>
    <3>1. cluster' = cluster /\ reasons' = reasons /\ assessed' = assessed
      BY <2>2
    <3>2. Said' = Said /\ HooksJudged(cluster'.configs) = HooksJudged(cluster.configs)
      BY <3>1 DEF Said
    <3>3. GoodCluster(cluster')
      BY <3>1 DEF HintsInv
    <3> QED BY <3>1, <3>2, <3>3 DEF HintsInv, Judged, About
  <2> QED BY <2>1, <2>2
<1> QED BY <1>1, <1>2, HintsTold, PTL DEF ClusterSpec

-----------------------------------------------------------------------------
(* Sums *)

(* A set of finite sets is all of them when it has a set as soon as it has *)
(* every smaller one.                                                      *)
LEMMA AllSubsets ==
  ASSUME NEW S, IsFiniteSet(S), NEW G,
         \A T \in SUBSET S : (\A U \in SUBSET T : U # T => U \in G) => T \in G
  PROVE  \A T \in SUBSET S : T \in G
<1> DEFINE Bad == {T \in SUBSET S : T \notin G}
<1> SUFFICES ASSUME Bad # {} PROVE FALSE
  OBVIOUS
<1>1. Bad \subseteq FiniteSubsetsOf(S)
  BY FS_FiniteSubsetsOfFinite
<1>2. IsWellFoundedOn(StrictSubsetOrdering(S), FiniteSubsetsOf(S))
  BY FS_StrictSubsetOrderingWellFounded
<1>3. PICK T \in Bad : \A U \in Bad : ~(<<U, T>> \in StrictSubsetOrdering(S))
  <2> HIDE DEF Bad
  <2> QED BY <1>1, <1>2, WFMin
<1>4. PICK U \in SUBSET T : U # T /\ U \notin G
  BY <1>3
<1>5. U \in Bad
  BY <1>3, <1>4
<1>6. <<U, T>> \in StrictSubsetOrdering(S)
  BY <1>3, <1>4 DEF StrictSubsetOrdering
<1> QED BY <1>3, <1>5, <1>6

(* f has a number for each of a finite set.                                *)
Adds(f, A) == IsFiniteSet(A) /\ \A x \in A : f[x] \in Nat

Sum(f, A) == SumFunctionOnSet(f, A)

One(s) == CHOOSE x \in s : TRUE

(* What the sum over a set comes from.                                     *)
Summing(sum, f, A) ==
  /\ sum \in [SUBSET A -> Nat]
  /\ \A s \in SUBSET A : sum[s] = IF s = {} THEN 0 ELSE f[One(s)] + sum[s \ {One(s)}]

LEMMA SummingExists ==
  ASSUME NEW f, NEW A, Adds(f, A) PROVE \E sum : Summing(sum, f, A)
<1> DEFINE S == [SUBSET A -> Nat]
           step(before) == [s \in SUBSET A |-> IF s = {} THEN 0 ELSE f[One(s)] + before[s \ {One(s)}]]
<1>1. PICK n \in Nat : n = Cardinality(A)
  BY FS_CardinalityType DEF Adds
<1>2. \A s \in SUBSET A : s # {} => /\ One(s) \in s /\ f[One(s)] \in Nat
                                    /\ s \ {One(s)} \in SUBSET A
  BY DEF Adds, One
<1>3. ASSUME NEW before \in S PROVE step(before) \in S
  BY <1>2
<1>4. PICK base \in S : base = [s \in SUBSET A |-> 0]
  OBVIOUS
<1> DEFINE op == [i \in 1..n |-> [before \in S |-> step(before)]]
<1> HIDE DEF step
<1>5. op \in [1..n -> [S -> S]]
  BY <1>3
<1> HIDE DEF S
<1>6. PICK g : Goes(g, n, S, base, op)
  <2> HIDE DEF op
  <2> QED BY <1>5, StepsExist
<1>7. /\ g \in [0..n -> S] /\ g[0] = base
      /\ \A i \in 1..n : g[i] = step(g[i - 1])
  <2>1. /\ g \in [0..n -> S] /\ g[0] = base /\ \A i \in 1..n : g[i] = op[i][g[i - 1]]
    BY <1>6 DEF Goes
  <2>2. \A i \in 1..n : i - 1 \in 0..n /\ g[i - 1] \in S
    BY <2>1
  <2> QED BY <2>1, <2>2
<1> DEFINE sum == [s \in SUBSET A |-> g[Cardinality(s)][s]]
<1>8. \A s \in SUBSET A : Cardinality(s) \in 0..n /\ (s # {} => /\ Cardinality(s) \in 1..n
                                                               /\ Cardinality(s \ {One(s)}) = Cardinality(s) - 1)
  <2> SUFFICES ASSUME NEW s \in SUBSET A
               PROVE  /\ Cardinality(s) \in 0..n
                      /\ s # {} => /\ Cardinality(s) \in 1..n
                                   /\ Cardinality(s \ {One(s)}) = Cardinality(s) - 1
    OBVIOUS
  <2>1. IsFiniteSet(s) /\ Cardinality(s) <= n /\ Cardinality(s) \in Nat
    BY <1>1, FS_Subset, FS_CardinalityType DEF Adds
  <2>2. s # {} => Cardinality(s) # 0
    BY <2>1, FS_EmptySet
  <2>3. s # {} => Cardinality(s \ {One(s)}) = Cardinality(s) - 1
    BY <1>2, <2>1, FS_RemoveElement
  <2> QED BY <2>1, <2>2, <2>3
<1>9. \A k \in 0..n : g[k] \in [SUBSET A -> Nat]
  BY <1>7 DEF S
<1>10. sum \in [SUBSET A -> Nat]
  BY <1>8, <1>9
<1>11. ASSUME NEW s \in SUBSET A
       PROVE  sum[s] = IF s = {} THEN 0 ELSE f[One(s)] + sum[s \ {One(s)}]
  <2>1. CASE s = {}
    <3>1. Cardinality(s) = 0
      BY <2>1, FS_EmptySet
    <3> QED BY <1>4, <1>7, <2>1, <3>1
  <2>2. CASE s # {}
    <3>1. PICK k \in 1..n : k = Cardinality(s) /\ Cardinality(s \ {One(s)}) = k - 1
      BY <1>8, <2>2
    <3>2. g[k][s] = f[One(s)] + g[k - 1][s \ {One(s)}]
      BY <1>7, <2>2 DEF step
    <3> QED BY <1>2, <2>2, <3>1, <3>2
  <2> QED BY <2>1, <2>2
<1> HIDE DEF sum
<1> QED BY <1>10, <1>11 DEF Summing

LEMMA SumIsThat ==
  ASSUME NEW f, NEW A, Adds(f, A)
  PROVE  \E sum : Summing(sum, f, A) /\ Sum(f, A) = sum[A]
<1> DEFINE Is(iter) == iter = [s \in SUBSET A |->
             IF s = {} THEN 0 ELSE f[One(s)] + iter[s \ {One(s)}]]
<1>1. PICK sum : Summing(sum, f, A)
  BY SummingExists
<1>2. Is(sum)
  BY <1>1 DEF Summing
<1>3. Is(CHOOSE iter : Is(iter))
  <2> HIDE DEF Is
  <2> QED BY <1>2
<1>4. PICK it : it = CHOOSE iter : Is(iter)
  OBVIOUS
<1>5. Sum(f, A) = it[A]
  BY <1>4 DEF Sum, SumFunctionOnSet, FoldFunctionOnSet, MapThenFoldSet, One
<1>6. it = [s \in SUBSET A |-> IF s = {} THEN 0 ELSE f[One(s)] + it[s \ {One(s)}]]
  BY <1>3, <1>4
<1>7. \A s \in SUBSET A : s \in {t \in SUBSET A : it[t] = sum[t]}
  <2> DEFINE G == {t \in SUBSET A : it[t] = sum[t]}
  <2>1. ASSUME NEW T \in SUBSET A, \A U \in SUBSET T : U # T => U \in G PROVE T \in G
    <3>1. CASE T = {}
      BY <1>1, <1>6, <3>1 DEF Summing
    <3>2. CASE T # {}
      <4>1. One(T) \in T
        BY <3>2 DEF One
      <4>2. PICK U : U = T \ {One(T)}
        OBVIOUS
      <4>3. it[U] = sum[U]
        BY <2>1, <4>1, <4>2
      <4>4. it[T] = f[One(T)] + it[U] /\ sum[T] = f[One(T)] + sum[U]
        BY <1>1, <1>6, <3>2, <4>2 DEF Summing
      <4> QED BY <4>3, <4>4
    <3> QED BY <3>1, <3>2
  <2> HIDE DEF G
  <2>2. \A s \in SUBSET A : s \in G
    BY <2>1, AllSubsets DEF Adds
  <2> QED BY <2>2 DEF G
<1> QED BY <1>1, <1>5, <1>7

LEMMA SumIsOf ==
  ASSUME NEW f, NEW A, Adds(f, A), NEW sum, Summing(sum, f, A), NEW B \in SUBSET A
  PROVE  Sum(f, B) = sum[B] /\ Adds(f, B)
<1>1. Adds(f, B)
  BY FS_Subset DEF Adds
<1>2. PICK own : Summing(own, f, B) /\ Sum(f, B) = own[B]
  BY <1>1, SumIsThat
<1> DEFINE G == {t \in SUBSET B : own[t] = sum[t]}
<1>3. ASSUME NEW T \in SUBSET B, \A U \in SUBSET T : U # T => U \in G PROVE T \in G
  <2>0. T \in SUBSET A
    OBVIOUS
  <2>1. CASE T = {}
    BY <1>2, <2>0, <2>1 DEF Summing
  <2>2. CASE T # {}
    <3>1. One(T) \in T
      BY <2>2 DEF One
    <3>2. PICK U : U = T \ {One(T)}
      OBVIOUS
    <3>3. own[U] = sum[U]
      BY <1>3, <3>1, <3>2
    <3>4. own[T] = f[One(T)] + own[U] /\ sum[T] = f[One(T)] + sum[U]
      BY <1>2, <2>0, <2>2, <3>2 DEF Summing
    <3> QED BY <3>3, <3>4
  <2> QED BY <2>1, <2>2
<1> HIDE DEF G
<1>4. \A s \in SUBSET B : s \in G
  BY <1>1, <1>3, AllSubsets DEF Adds
<1> QED BY <1>1, <1>2, <1>4 DEF G

LEMMA SumNone == ASSUME NEW f PROVE Sum(f, {}) = 0
<1>1. Adds(f, {})
  BY FS_EmptySet DEF Adds
<1>2. PICK sum : Summing(sum, f, {}) /\ Sum(f, {}) = sum[{}]
  BY <1>1, SumIsThat
<1> QED BY <1>2 DEF Summing

LEMMA SumTakesOut ==
  ASSUME NEW f, NEW A, Adds(f, A)
  PROVE  /\ Sum(f, A) \in Nat
         /\ \A x \in A : /\ Adds(f, A \ {x}) /\ Sum(f, A \ {x}) \in Nat
                         /\ Sum(f, A) = f[x] + Sum(f, A \ {x})
<1>1. PICK sum : Summing(sum, f, A)
  BY SummingExists
<1>2. \A B \in SUBSET A : Sum(f, B) = sum[B] /\ Adds(f, B) /\ sum[B] \in Nat
  <2>1. \A B \in SUBSET A : Sum(f, B) = sum[B] /\ Adds(f, B)
    BY <1>1, SumIsOf
  <2>2. \A B \in SUBSET A : sum[B] \in Nat
    BY <1>1 DEF Summing
  <2> QED BY <2>1, <2>2
<1> DEFINE G == {t \in SUBSET A : \A x \in t : sum[t] = f[x] + sum[t \ {x}]}
<1>3. ASSUME NEW T \in SUBSET A, \A U \in SUBSET T : U # T => U \in G PROVE T \in G
  <2> SUFFICES ASSUME NEW x \in T PROVE sum[T] = f[x] + sum[T \ {x}]
    OBVIOUS
  <2>1. PICK c \in T : c = One(T)
    BY DEF One
  <2>2. sum[T] = f[c] + sum[T \ {c}]
    BY <1>1, <2>1 DEF Summing
  <2>3. CASE c = x
    BY <2>2, <2>3
  <2>4. CASE c # x
    <3>1. T \ {c} \in G /\ T \ {x} \in G /\ x \in T \ {c} /\ c \in T \ {x}
      BY <1>3, <2>4
    <3>2. PICK U : U = T \ {c, x}
      OBVIOUS
    <3>3. (T \ {c}) \ {x} = U /\ (T \ {x}) \ {c} = U
      BY <3>2
    <3>4. sum[T \ {c}] = f[x] + sum[U]
      BY <3>1, <3>3
    <3>5. sum[T \ {x}] = f[c] + sum[U]
      BY <3>1, <3>3
    <3>6. f[x] \in Nat /\ f[c] \in Nat /\ sum[U] \in Nat
      BY <1>2, <3>2 DEF Adds
    <3> HIDE DEF G
    <3> QED BY <2>2, <3>4, <3>5, <3>6
  <2> QED BY <2>3, <2>4
<1>4. \A t \in SUBSET A : t \in G
  <2> HIDE DEF G
  <2> QED BY <1>3, AllSubsets DEF Adds
<1>5. A \in G /\ A \in SUBSET A
  <2> HIDE DEF G
  <2> QED BY <1>4
<1>6. \A x \in A : sum[A] = f[x] + sum[A \ {x}] /\ A \ {x} \in SUBSET A
  BY <1>5
<1> HIDE DEF G
<1> QED BY <1>2, <1>5, <1>6

LEMMA SumPuts ==
  ASSUME NEW f, NEW A, Adds(f, A), NEW x, x \notin A, f[x] \in Nat
  PROVE  Adds(f, A \cup {x}) /\ Sum(f, A \cup {x}) = f[x] + Sum(f, A)
<1>1. Adds(f, A \cup {x})
  BY FS_AddElement DEF Adds
<1>2. (A \cup {x}) \ {x} = A
  OBVIOUS
<1> QED BY <1>1, <1>2, SumTakesOut

(* Sums go up with what they are of.                                       *)
LEMMA SumLess ==
  ASSUME NEW f, NEW g, NEW A, Adds(f, A), Adds(g, A), \A x \in A : f[x] <= g[x]
  PROVE  Sum(f, A) <= Sum(g, A)
<1> DEFINE G == {t \in SUBSET A : Sum(f, t) <= Sum(g, t)}
<1>1. ASSUME NEW T \in SUBSET A, \A U \in SUBSET T : U # T => U \in G PROVE T \in G
  <2>1. CASE T = {}
    BY <2>1, SumNone
  <2>2. CASE T # {}
    <3>1. PICK x \in T : TRUE
      BY <2>2
    <3>2. Adds(f, T) /\ Adds(g, T)
      BY FS_Subset DEF Adds
    <3>3. /\ Sum(f, T) = f[x] + Sum(f, T \ {x}) /\ Sum(f, T \ {x}) \in Nat
          /\ Sum(g, T) = g[x] + Sum(g, T \ {x}) /\ Sum(g, T \ {x}) \in Nat
      BY <3>1, <3>2, SumTakesOut
    <3>4. Sum(f, T \ {x}) <= Sum(g, T \ {x})
      BY <1>1, <3>1
    <3>5. f[x] \in Nat /\ g[x] \in Nat /\ f[x] <= g[x]
      BY DEF Adds
    <3>6. Sum(f, T) <= Sum(g, T)
      BY <3>3, <3>4, <3>5
    <3> QED BY <3>6
  <2> QED BY <2>1, <2>2
<1>2. \A t \in SUBSET A : t \in G
  <2> HIDE DEF G
  <2> QED BY <1>1, AllSubsets DEF Adds
<1> QED BY <1>2

LEMMA SumSame ==
  ASSUME NEW f, NEW g, NEW A, Adds(f, A), \A x \in A : f[x] = g[x]
  PROVE  Adds(g, A) /\ Sum(f, A) = Sum(g, A)
<1>1. Adds(g, A)
  BY DEF Adds
<1>2. \A x \in A : f[x] <= g[x] /\ g[x] <= f[x]
  BY DEF Adds
<1>3. Sum(f, A) \in Nat /\ Sum(g, A) \in Nat
  BY <1>1, SumTakesOut
<1>4. Sum(f, A) <= Sum(g, A) /\ Sum(g, A) <= Sum(f, A)
  BY <1>1, <1>2, SumLess
<1> QED BY <1>1, <1>3, <1>4

LEMMA SumOfEqual ==
  ASSUME NEW f, NEW A, Adds(f, A), NEW c \in Nat, \A x \in A : f[x] = c
  PROVE  Sum(f, A) = Cardinality(A) * c
<1> DEFINE G == {t \in SUBSET A : Sum(f, t) = Cardinality(t) * c}
<1>1. ASSUME NEW T \in SUBSET A, \A U \in SUBSET T : U # T => U \in G PROVE T \in G
  <2>1. CASE T = {}
    BY <2>1, SumNone, FS_EmptySet
  <2>2. CASE T # {}
    <3>1. PICK x \in T : TRUE
      BY <2>2
    <3>2. Adds(f, T)
      BY FS_Subset DEF Adds
    <3>3. PICK n \in Nat : n = Cardinality(T \ {x}) /\ Cardinality(T) = n + 1
      <4>1. IsFiniteSet(T) /\ IsFiniteSet(T \ {x})
        BY <3>2, FS_Subset DEF Adds
      <4>2. Cardinality(T) \in Nat /\ Cardinality(T \ {x}) \in Nat
        BY <4>1, FS_CardinalityType
      <4>3. Cardinality(T \ {x}) = Cardinality(T) - 1
        BY <3>1, <4>1, FS_RemoveElement
      <4> QED BY <4>2, <4>3
    <3>4. Sum(f, T) = c + Sum(f, T \ {x})
      BY <3>1, <3>2, SumTakesOut
    <3>5. Sum(f, T \ {x}) = n * c
      BY <1>1, <3>1, <3>3
    <3>6. (n + 1) * c = c + n * c
      BY <3>3
    <3> QED BY <3>3, <3>4, <3>5, <3>6
  <2> QED BY <2>1, <2>2
<1>2. \A t \in SUBSET A : t \in G
  <2> HIDE DEF G
  <2> QED BY <1>1, AllSubsets DEF Adds
<1> QED BY <1>2

(* A part sums to no more than the whole.                                  *)
LEMMA SumPart ==
  ASSUME NEW f, NEW A, Adds(f, A), NEW B \in SUBSET A
  PROVE  Adds(f, B) /\ Sum(f, B) <= Sum(f, A)
<1>1. Adds(f, B)
  BY FS_Subset DEF Adds
<1> DEFINE G == {t \in SUBSET (A \ B) : Sum(f, B) <= Sum(f, B \cup t)}
<1>2. ASSUME NEW T \in SUBSET (A \ B), \A U \in SUBSET T : U # T => U \in G PROVE T \in G
  <2>1. CASE T = {}
    <3>1. B \cup T = B
      BY <2>1
    <3>2. Sum(f, B) \in Nat
      BY <1>1, SumTakesOut
    <3>3. Sum(f, B) <= Sum(f, B \cup T)
      BY <3>1, <3>2
    <3> QED BY <3>3
  <2>2. CASE T # {}
    <3>1. PICK x \in T : TRUE
      BY <2>2
    <3>2. PICK U : U = B \cup (T \ {x})
      OBVIOUS
    <3>3. Adds(f, U) /\ x \notin U /\ f[x] \in Nat /\ B \cup T = U \cup {x}
      BY <3>1, <3>2, FS_Subset DEF Adds
    <3>4. Sum(f, B \cup T) = f[x] + Sum(f, U)
      BY <3>3, SumPuts
    <3>5. Sum(f, B) <= Sum(f, U)
      BY <1>2, <3>1, <3>2
    <3>6. Sum(f, U) \in Nat /\ Sum(f, B) \in Nat /\ f[x] \in Nat
      BY <1>1, <3>3, SumTakesOut
    <3>7. Sum(f, B) <= Sum(f, B \cup T)
      BY <3>4, <3>5, <3>6
    <3> QED BY <3>7
  <2> QED BY <2>1, <2>2
<1>3. IsFiniteSet(A \ B)
  BY FS_Subset DEF Adds
<1>4. \A t \in SUBSET (A \ B) : t \in G
  <2> HIDE DEF G
  <2> QED BY <1>2, <1>3, AllSubsets
<1>5. A \ B \in G /\ B \cup (A \ B) = A
  <2>1. B \cup (A \ B) = A
    OBVIOUS
  <2> HIDE DEF G
  <2> QED BY <1>4, <2>1
<1> QED BY <1>1, <1>5

(* A sum is that of its parts, place by place.                             *)
LEMMA SumByPlace ==
  ASSUME NEW f, NEW A, Adds(f, A), NEW N, IsFiniteSet(N), NEW g \in [A -> N]
  PROVE  LET parts == [n \in N |-> Sum(f, Fiber(g, A, n))]
         IN  Adds(parts, N) /\ Sum(f, A) = Sum(parts, N)
<1> DEFINE parts(t) == [n \in N |-> Sum(f, Fiber(g, t, n))]
           G == {t \in SUBSET A : Sum(f, t) = Sum(parts(t), N)}
<1>0. ASSUME NEW T \in SUBSET A PROVE Adds(parts(T), N) /\ \A n \in N : Adds(f, Fiber(g, T, n))
  <2>1. ASSUME NEW n \in N PROVE Adds(f, Fiber(g, T, n)) /\ Sum(f, Fiber(g, T, n)) \in Nat
    <3>1. Fiber(g, T, n) \in SUBSET A
      BY DEF Fiber
    <3>2. Adds(f, Fiber(g, T, n))
      BY <3>1, FS_Subset DEF Adds
    <3> QED BY <3>2, SumTakesOut
  <2> QED BY <2>1 DEF Adds
<1>1. ASSUME NEW T \in SUBSET A, \A U \in SUBSET T : U # T => U \in G PROVE T \in G
  <2>1. CASE T = {}
    <3>1. \A n \in N : Fiber(g, T, n) = {}
      BY <2>1 DEF Fiber
    <3>2. \A n \in N : parts(T)[n] = 0
      BY <3>1, SumNone
    <3>3. PICK c \in Nat : c = Cardinality(N)
      BY FS_CardinalityType
    <3>4. Sum(parts(T), N) = Cardinality(N) * 0
      BY <1>0, <3>2, SumOfEqual
    <3>5. Sum(parts(T), N) = 0
      BY <3>3, <3>4
    <3> QED BY <2>1, <3>5, SumNone
  <2>2. CASE T # {}
    <3>1. PICK x \in T : TRUE
      BY <2>2
    <3>2. PICK U \in SUBSET A : U = T \ {x} /\ U \in G
      BY <1>1, <3>1
    <3>3. Adds(f, T) /\ Adds(parts(T), N) /\ Adds(parts(U), N)
      BY <1>0, FS_Subset DEF Adds
    <3>4. Sum(f, T) = f[x] + Sum(f, U)
      BY <3>1, <3>2, <3>3, SumTakesOut
    <3>5. PICK m \in N : m = g[x]
      OBVIOUS
    <3>6. \A n \in N \ {m} : Fiber(g, T, n) = Fiber(g, U, n)
      BY <3>1, <3>2, <3>5 DEF Fiber
    <3>7. parts(T)[m] = f[x] + parts(U)[m]
      <4>1. x \in Fiber(g, T, m) /\ Fiber(g, T, m) \ {x} = Fiber(g, U, m)
        BY <3>1, <3>2, <3>5 DEF Fiber
      <4>2. Adds(f, Fiber(g, T, m))
        BY <1>0
      <4>3. Sum(f, Fiber(g, T, m)) = f[x] + Sum(f, Fiber(g, U, m))
        BY <4>1, <4>2, SumTakesOut
      <4> QED BY <4>3
    <3>8. \A n \in N \ {m} : parts(T)[n] = parts(U)[n]
      BY <3>6
    <3>9. PICK p, q : p = parts(T) /\ q = parts(U)
      OBVIOUS
    <3> HIDE DEF parts, G
    <3>10. Sum(p, N) = p[m] + Sum(p, N \ {m}) /\ Sum(p, N \ {m}) \in Nat /\ Adds(p, N \ {m})
      BY <3>3, <3>9, SumTakesOut
    <3>11. Sum(q, N) = q[m] + Sum(q, N \ {m}) /\ Sum(q, N \ {m}) \in Nat
      BY <3>3, <3>9, SumTakesOut
    <3>12. Sum(p, N \ {m}) = Sum(q, N \ {m})
      BY <3>8, <3>9, <3>10, SumSame
    <3>13. f[x] \in Nat /\ q[m] \in Nat /\ p[m] = f[x] + q[m]
      BY <3>1, <3>3, <3>7, <3>9 DEF Adds
    <3>14. Sum(p, N) = f[x] + Sum(q, N)
      BY <3>10, <3>11, <3>12, <3>13
    <3>15. Sum(f, U) = Sum(q, N)
      BY <3>2, <3>9 DEF G
    <3> QED BY <3>4, <3>9, <3>14, <3>15 DEF G
  <2> QED BY <2>1, <2>2
<1>2. \A t \in SUBSET A : t \in G
  <2> HIDE DEF G
  <2> QED BY <1>1, AllSubsets DEF Adds
<1>3. A \in SUBSET A
  OBVIOUS
<1> QED BY <1>0, <1>2, <1>3

-----------------------------------------------------------------------------
(* What pods ask for *)

(* What a function makes of finitely many is finitely many.                *)
LEMMA ImageFinite ==
  ASSUME NEW f, NEW A, IsFiniteSet(A), DOMAIN f = A, f = [x \in A |-> f[x]]
  PROVE  IsFiniteSet({f[x] : x \in A})
<1> DEFINE T == {f[x] : x \in A}
<1>1. f \in [A -> T] /\ \A t \in T : \E x \in A : f[x] = t
  OBVIOUS
<1>2. f \in Surjection(A, T)
  BY <1>1 DEF Surjection
<1> QED BY <1>2, FS_Surjection

LEMMA AskIs == ASSUME NEW p, GoodPod(p) PROVE PodRequests(p) \in Quantities
<1> SUFFICES ASSUME NEW r \in Measures PROVE PodRequests(p)[r] \in Nat
  BY DEF PodRequests, Quantities
<1>1. PICK c \in Seq(Quantities), i \in Seq(Quantities) : c = p.containers /\ i = p.inits
  BY DEF GoodPod
<1> DEFINE f == [k \in DOMAIN c |-> c[k][r]]
           T == {0} \cup {i[k][r] : k \in DOMAIN i}
<1>2. \A k \in DOMAIN c : c[k][r] \in Nat
  BY DEF Quantities
<1>3. \A k \in DOMAIN i : i[k][r] \in Nat
  BY DEF Quantities
<1>4. IsFiniteSet(DOMAIN c) /\ IsFiniteSet(DOMAIN i)
  BY UpTo
<1>5. Adds(f, DOMAIN f)
  BY <1>2, <1>4 DEF Adds
<1>6. Sum(f, DOMAIN f) \in Nat
  <2> HIDE DEF f
  <2> QED BY <1>5, SumTakesOut
<1>7. SumFunction(f) \in Nat
  BY <1>6 DEF SumFunction, Sum
<1>8. IsFiniteSet({i[k][r] : k \in DOMAIN i})
  <2>1. PICK g : g = [k \in DOMAIN i |-> i[k][r]]
    OBVIOUS
  <2>2. IsFiniteSet({g[k] : k \in DOMAIN i})
    BY <1>4, <2>1, ImageFinite
  <2>3. {g[k] : k \in DOMAIN i} = {i[k][r] : k \in DOMAIN i}
    BY <2>1
  <2> QED BY <2>2, <2>3
<1>9. IsFiniteSet(T) /\ T # {}
  BY <1>8, FS_Singleton, FS_Union
<1>10. T \in SUBSET Nat /\ T \in SUBSET Int
  BY <1>3
<1>11. Max(T) \in Nat
  <2> HIDE DEF T
  <2> QED BY <1>9, <1>10, GreatestIs
<1>12. PodRequests(p)[r] = Larger(SumFunction(f), Max(T))
  BY <1>1 DEF PodRequests
<1> HIDE DEF f, T
<1> QED BY <1>7, <1>11, <1>12 DEF Larger

(* Pods there are finitely many of.                                        *)
GoodPods(pods) == IsFiniteSet(DOMAIN pods) /\ \A p \in DOMAIN pods : GoodPod(pods[p])

Asks(pods, r) == [p \in DOMAIN pods |-> PodRequests(pods[p])[r]]

LEMMA AsksAdd ==
  ASSUME NEW pods, GoodPods(pods), NEW ps \in SUBSET DOMAIN pods, NEW r \in Measures
  PROVE  /\ Adds(Asks(pods, r), ps) /\ Sum(Asks(pods, r), ps) \in Nat
         /\ \A p \in ps : Asks(pods, r)[p] = PodRequests(pods[p])[r] /\ Asks(pods, r)[p] \in Nat
<1>1. \A p \in ps : Asks(pods, r)[p] = PodRequests(pods[p])[r] /\ Asks(pods, r)[p] \in Nat
  <2>1. \A p \in ps : PodRequests(pods[p]) \in Quantities
    BY AskIs DEF GoodPods
  <2> QED BY <2>1 DEF Asks, Quantities
<1>2. Adds(Asks(pods, r), ps)
  BY <1>1, FS_Subset DEF Adds, GoodPods
<1> QED BY <1>1, <1>2, SumTakesOut

LEMMA NeededIs ==
  ASSUME NEW pods, GoodPods(pods), NEW ps \in SUBSET DOMAIN pods, NEW r \in Measures
  PROVE  Needed(ps, pods)[r] = Sum(Asks(pods, r), ps)
<1> DEFINE f == [p \in ps |-> PodRequests(pods[p])[r]]
<1>1. Adds(Asks(pods, r), ps) /\ \A p \in ps : Asks(pods, r)[p] = f[p]
  BY AsksAdd
<1>2. Needed(ps, pods)[r] = SumFunction(f)
  BY DEF Needed
<1>3. SumFunction(f) = Sum(f, ps)
  BY DEF SumFunction, Sum
<1> HIDE DEF f
<1> QED BY <1>1, <1>2, <1>3, SumSame

LEMMA MovedAre ==
  ASSUME NEW node, NEW pods
  PROVE  Evictable(node, pods) \subseteq DOMAIN pods /\ OnNode(node, pods) \subseteq DOMAIN pods
  BY DEF Evictable, OnNode

LEMMA UsedIs ==
  ASSUME NEW pods, GoodPods(pods), NEW n, NEW r \in Measures
  PROVE  Used(n, pods)[r] \in Nat
<1>1. PICK ps \in SUBSET DOMAIN pods : ps = {p \in OnNode(n, pods) : ~Finished(pods[p])}
  BY DEF OnNode
<1>2. Used(n, pods)[r] = Needed(ps, pods)[r]
  BY <1>1 DEF Used
<1> QED BY <1>2, AsksAdd, NeededIs

-----------------------------------------------------------------------------
(* The findings of a drain *)

Rooms == RoomLeft(cluster.target.name, cluster.nodes, cluster.pods)
Drained == Assess(cluster.target, cluster.pods, cluster.pdbs, Rooms)

OtherNodes == {n \in cluster.nodes : n.name # cluster.target.name /\ n.ready /\ ~n.unschedulable}

Have(n, r) == Used(n.name, cluster.pods)[r]

RoomOf(n) == [node |-> n.name,
              cpu  |-> Larger(n.cpu - Used(n.name, cluster.pods).cpu, 0),
              mem  |-> Larger(n.mem - Used(n.name, cluster.pods).mem, 0)]

LEMMA RoomsAre == Rooms = {RoomOf(n) : n \in OtherNodes}
  BY DEF Rooms, RoomLeft, RoomOf, OtherNodes

LEMMA DrainIsGood ==
  ASSUME GoodDrain(cluster)
  PROVE  /\ GoodPods(cluster.pods) /\ ToMove \in SUBSET DOMAIN cluster.pods
         /\ IsFiniteSet(ToMove) /\ IsFiniteSet(OtherNodes) /\ IsFiniteSet(Rooms)
         /\ \A n \in OtherNodes, r \in Measures :
               n[r] \in Nat /\ Have(n, r) \in Nat /\ RoomOf(n)[r] = Larger(n[r] - Have(n, r), 0)
         /\ \A room \in Rooms, r \in Measures : room[r] \in Nat
<1>1. GoodPods(cluster.pods)
  BY DEF GoodDrain, GoodPods
<1>2. ToMove \in SUBSET DOMAIN cluster.pods
  BY MovedAre DEF ToMove
<1>3. IsFiniteSet(ToMove)
  BY <1>1, <1>2, FS_Subset DEF GoodPods
<1>4. IsFiniteSet(OtherNodes) /\ \A n \in OtherNodes : GoodNode(n)
  BY FS_Subset DEF GoodDrain, OtherNodes
<1>5. IsFiniteSet(Rooms)
  <2>1. PICK f : f = [n \in OtherNodes |-> RoomOf(n)]
    OBVIOUS
  <2>2. IsFiniteSet({f[n] : n \in OtherNodes})
    BY <1>4, <2>1, ImageFinite
  <2> QED BY <2>1, <2>2, RoomsAre
<1>6. \A n \in OtherNodes, r \in Measures :
         n[r] \in Nat /\ Have(n, r) \in Nat /\ RoomOf(n)[r] = Larger(n[r] - Have(n, r), 0)
  <2> TAKE n \in OtherNodes, r \in Measures
  <2>1. n[r] \in Nat
    BY <1>4 DEF GoodNode
  <2>2. Have(n, r) \in Nat
    BY <1>1, UsedIs DEF Have
  <2>3. RoomOf(n)[r] = Larger(n[r] - Have(n, r), 0)
    BY DEF RoomOf, Have, Measures
  <2> QED BY <2>1, <2>2, <2>3
<1>7. \A room \in Rooms, r \in Measures : room[r] \in Nat
  BY <1>6, RoomsAre DEF Larger
<1> QED BY <1>1, <1>2, <1>3, <1>4, <1>5, <1>6, <1>7

LEMMA RoomIsOwn ==
  ASSUME GoodDrain(cluster), NEW m \in OtherNodes, NEW n \in OtherNodes, RoomOf(m) = RoomOf(n)
  PROVE  m = n
<1>1. m.name = n.name
  BY DEF RoomOf
<1> QED BY <1>1 DEF GoodDrain, OneByName, OtherNodes

(* What a node is sent under a placement is no more than it has left.      *)
LEMMA SentFits ==
  ASSUME GoodDrain(cluster), NEW sent \in SUBSET ToMove, NEW n \in OtherNodes, Takes(n, sent),
         NEW r \in Measures
  PROVE  Sum(Asks(cluster.pods, r), sent) <= RoomOf(n)[r]
<1>1. PICK a \in Nat : a = Sum(Asks(cluster.pods, r), sent)
  BY DrainIsGood, AsksAdd
<1>2. Needed(sent, cluster.pods)[r] = a
  BY <1>1, DrainIsGood, NeededIs
<1>3. a = 0 \/ Have(n, r) + a <= n[r]
  BY <1>2 DEF Takes, Have
<1>4. n[r] \in Nat /\ Have(n, r) \in Nat /\ RoomOf(n)[r] = Larger(n[r] - Have(n, r), 0)
  BY DrainIsGood
<1> QED BY <1>1, <1>3, <1>4 DEF Larger

LEMMA RoomSaid ==
  ASSUME reasons = Drained
  PROVE  reasons \cap {"NoRoom", "PodTooBig", "OnlySchedulable"}
            \subseteq RoomFindings(ToMove, cluster.pods, Rooms)
  BY DEF Drained, Assess, ToMove

LEMMA AlarmIsTrue ==
  ASSUME GoodDrain(cluster), reasons = Drained, Placeable
  PROVE  reasons \cap {"NoRoom", "PodTooBig", "OnlySchedulable"} = {}
<1> SUFFICES RoomFindings(ToMove, cluster.pods, Rooms) = {}
  BY RoomSaid
<1>1. CASE ToMove = {}
  BY <1>1 DEF RoomFindings
<1>2. CASE ToMove # {}
  <2>1. PICK f \in [ToMove -> OtherNodes] : \A n \in OtherNodes : Takes(n, Fiber(f, ToMove, n))
    BY DEF Placeable, OtherNodes, Fiber
  <2>2. PICK g : g = [p \in ToMove |-> RoomOf(f[p])]
    OBVIOUS
  <2>3. g \in [ToMove -> Rooms] /\ Rooms # {}
    BY <1>2, <2>1, <2>2, RoomsAre
  <2>4. ASSUME NEW n \in OtherNodes PROVE Fiber(g, ToMove, RoomOf(n)) = Fiber(f, ToMove, n)
    <3>1. \A p \in ToMove : g[p] = RoomOf(n) <=> f[p] = n
      BY <2>1, <2>2, RoomIsOwn
    <3> QED BY <3>1 DEF Fiber
  <2>5. ASSUME NEW r \in Measures, NEW room \in Rooms
        PROVE  Sum(Asks(cluster.pods, r), Fiber(g, ToMove, room)) <= room[r]
    <3>1. PICK n \in OtherNodes : room = RoomOf(n)
      BY RoomsAre
    <3>2. Fiber(f, ToMove, n) \in SUBSET ToMove
      BY DEF Fiber
    <3>3. Sum(Asks(cluster.pods, r), Fiber(f, ToMove, n)) <= RoomOf(n)[r]
      BY <2>1, <3>2, SentFits
    <3> QED BY <2>4, <3>1, <3>3
  <2>6. ASSUME NEW r \in Measures
        PROVE  ~(Needed(ToMove, cluster.pods)[r] > SumFunction([room \in Rooms |-> room[r]]))
    <3>1. PICK a : a = Asks(cluster.pods, r)
      OBVIOUS
    <3>2. Adds(a, ToMove) /\ Sum(a, ToMove) \in Nat
      BY <3>1, DrainIsGood, AsksAdd
    <3>3. PICK parts : parts = [room \in Rooms |-> Sum(a, Fiber(g, ToMove, room))]
      OBVIOUS
    <3>4. Adds(parts, Rooms) /\ Sum(a, ToMove) = Sum(parts, Rooms)
      BY <2>3, <3>2, <3>3, DrainIsGood, SumByPlace
    <3>5. PICK free : free = [room \in Rooms |-> room[r]]
      OBVIOUS
    <3>6. Adds(free, Rooms)
      BY <3>5, DrainIsGood DEF Adds
    <3>7. \A room \in Rooms : parts[room] <= free[room]
      BY <2>5, <3>1, <3>3, <3>5
    <3>8. Sum(parts, Rooms) <= Sum(free, Rooms)
      BY <3>4, <3>6, <3>7, SumLess
    <3>9. Needed(ToMove, cluster.pods)[r] = Sum(a, ToMove)
      BY <3>1, DrainIsGood, NeededIs
    <3>10. SumFunction(free) = Sum(free, Rooms) /\ Sum(free, Rooms) \in Nat
      BY <3>5, <3>6, SumTakesOut DEF SumFunction, Sum
    <3> QED BY <3>2, <3>4, <3>5, <3>8, <3>9, <3>10
  <2>7. ASSUME NEW p \in ToMove
        PROVE  \E room \in Rooms : \A r \in Measures : room[r] >= PodRequests(cluster.pods[p])[r]
    <3>1. PICK room \in Rooms : room = g[p]
      BY <2>3
    <3>2. ASSUME NEW r \in Measures PROVE room[r] >= PodRequests(cluster.pods[p])[r]
      <4>1. PICK a, T : a = Asks(cluster.pods, r) /\ T = Fiber(g, ToMove, room)
        OBVIOUS
      <4>2. T \in SUBSET DOMAIN cluster.pods /\ p \in T
        BY <3>1, <4>1, DrainIsGood DEF Fiber
      <4>3. Adds(a, T) /\ a[p] = PodRequests(cluster.pods[p])[r] /\ a[p] \in Nat
        BY <4>1, <4>2, DrainIsGood, AsksAdd
      <4>4. Sum(a, T) = a[p] + Sum(a, T \ {p}) /\ Sum(a, T \ {p}) \in Nat
        BY <4>2, <4>3, SumTakesOut
      <4>5. Sum(a, T) <= room[r] /\ room[r] \in Nat
        BY <2>5, <4>1, DrainIsGood
      <4> QED BY <4>3, <4>4, <4>5
    <3> QED BY <3>2
  <2> QED BY <2>3, <2>6, <2>7 DEF RoomFindings
<1> QED BY <1>1, <1>2

(* The pods to move that a budget covers.                                  *)
Behind(b) == Matched(b, ToMove, cluster.pods)

InTheWay(b) == b.known /\ Behind(b) # {} /\ b.allowed < Cardinality(Behind(b))

LEMMA BehindIs ==
  ASSUME GoodDrain(cluster), NEW b
  PROVE  /\ Behind(b) \in SUBSET ToMove /\ IsFiniteSet(Behind(b)) /\ Cardinality(Behind(b)) \in Nat
         /\ Behind(b) # {} => Cardinality(Behind(b)) >= 1
         /\ \A done \in SUBSET ToMove : Matched(b, done, cluster.pods) = done \cap Behind(b)
<1>1. Behind(b) \in SUBSET ToMove
  BY DEF Behind, Matched
<1>2. IsFiniteSet(Behind(b)) /\ Cardinality(Behind(b)) \in Nat
  BY <1>1, DrainIsGood, FS_Subset, FS_CardinalityType
<1>3. Behind(b) # {} => Cardinality(Behind(b)) >= 1
  BY <1>2, FS_EmptySet
<1>4. \A done \in SUBSET ToMove : Matched(b, done, cluster.pods) = done \cap Behind(b)
  BY DEF Behind, Matched
<1> QED BY <1>1, <1>2, <1>3, <1>4

LEMMA BudgetSaid ==
  ASSUME GoodDrain(cluster), reasons = Drained
  PROVE  (reasons \cap {"PdbBlocked", "PdbTight"} = {}) <=> \A b \in cluster.pdbs : ~InTheWay(b)
<1>1. RoomFindings(ToMove, cluster.pods, Rooms) \subseteq {"NoRoom", "PodTooBig", "OnlySchedulable"}
  BY DEF RoomFindings
<1>2. PICK blocked, tight : /\ blocked = Blocked(cluster.pdbs, ToMove, cluster.pods)
                            /\ tight = Tight(cluster.pdbs, ToMove, cluster.pods)
  OBVIOUS
<1>3. "PdbBlocked" \in reasons <=> blocked # {}
  BY <1>1, <1>2 DEF Drained, Assess, ToMove
<1>4. "PdbTight" \in reasons <=> tight # {}
  BY <1>1, <1>2 DEF Drained, Assess, ToMove
<1>5. ASSUME NEW b \in cluster.pdbs PROVE InTheWay(b) <=> b \in blocked \/ b \in tight
  <2>1. PICK m \in Nat : m = Cardinality(Behind(b)) /\ (Behind(b) # {} => m >= 1)
    BY BehindIs
  <2>2. PICK a \in Int : a = b.allowed
    BY DEF GoodDrain
  <2>3. b \in blocked <=> b.known /\ Behind(b) # {} /\ a <= 0
    BY <1>2, <2>2 DEF Blocked, Speaks, Behind
  <2>4. b \in tight <=> b.known /\ Behind(b) # {} /\ a > 0 /\ a < m
    BY <1>2, <2>1, <2>2 DEF Tight, Speaks, Behind
  <2> QED BY <2>1, <2>2, <2>3, <2>4 DEF InTheWay
<1>6. blocked \subseteq cluster.pdbs /\ tight \subseteq cluster.pdbs
  BY <1>2 DEF Blocked, Tight
<1> QED BY <1>3, <1>4, <1>5, <1>6

LEMMA OrderCovers ==
  ASSUME GoodDrain(cluster), NEW s \in Injection(1..Cardinality(ToMove), ToMove)
  PROVE  \E n \in Nat :
            /\ s \in [1..n -> ToMove] /\ \A i, j \in 1..n : s[i] = s[j] => i = j
            /\ \A p \in ToMove : \E i \in 1..n : s[i] = p
<1>1. PICK n \in Nat : n = Cardinality(ToMove)
  BY DrainIsGood, FS_CardinalityType
<1>2. s \in Injection(1..n, ToMove)
  BY <1>1
<1>3. s \in [1..n -> ToMove] /\ \A i, j \in 1..n : s[i] = s[j] => i = j
  BY <1>2 DEF Injection, IsInjective
<1>4. IsFiniteSet(1..n) /\ Cardinality(1..n) = n
  BY UpTo
<1>5. s \in Surjection(1..n, ToMove)
  BY <1>1, <1>2, <1>4, DrainIsGood, FS_Injection
<1> QED BY <1>3, <1>5 DEF Surjection

LEMMA NothingInTheWay ==
  ASSUME GoodDrain(cluster), \A b \in cluster.pdbs : ~InTheWay(b),
         NEW s \in Injection(1..Cardinality(ToMove), ToMove)
  PROVE  GoesThrough(s)
<1>1. PICK n \in Nat : s \in [1..n -> ToMove] /\ \A i, j \in 1..n : s[i] = s[j] => i = j
  BY OrderCovers
<1> SUFFICES ASSUME NEW k \in 1..n, NEW b \in cluster.pdbs, b.known, s[k] \in Behind(b)
             PROVE  Cardinality(Matched(b, {s[j] : j \in 1..(k - 1)}, cluster.pods)) < b.allowed
  BY <1>1 DEF GoesThrough, LetThrough, Behind
<1>2. PICK done \in SUBSET ToMove : done = {s[j] : j \in 1..(k - 1)}
  <2>1. \A j \in 1..(k - 1) : j \in 1..n
    OBVIOUS
  <2>2. \A j \in 1..(k - 1) : s[j] \in ToMove
    BY <1>1, <2>1
  <2>3. {s[j] : j \in 1..(k - 1)} \in SUBSET ToMove
    BY <2>2
  <2> QED BY <2>3
<1>3. s[k] \notin done
  BY <1>1, <1>2
<1>4. PICK M : M = Behind(b)
  OBVIOUS
<1>5. Matched(b, done, cluster.pods) \in SUBSET (M \ {s[k]})
  BY <1>3, <1>4, BehindIs
<1>6. IsFiniteSet(M) /\ Cardinality(M) \in Nat
  BY <1>4, BehindIs
<1>7. IsFiniteSet(M \ {s[k]}) /\ Cardinality(M \ {s[k]}) = Cardinality(M) - 1
  BY <1>4, <1>6, FS_RemoveElement
<1>8. Cardinality(Matched(b, done, cluster.pods)) <= Cardinality(M) - 1
  BY <1>5, <1>7, FS_Subset
<1>9. Cardinality(Matched(b, done, cluster.pods)) \in Nat
  BY <1>5, <1>7, FS_Subset, FS_CardinalityType
<1>10. ~(b.allowed < Cardinality(M)) /\ b.allowed \in Int
  BY <1>4 DEF InTheWay, GoodDrain
<1> QED BY <1>2, <1>6, <1>8, <1>9, <1>10

LEMMA SomethingInTheWay ==
  ASSUME GoodDrain(cluster), NEW b \in cluster.pdbs, InTheWay(b),
         NEW s \in Injection(1..Cardinality(ToMove), ToMove), GoesThrough(s)
  PROVE  FALSE
<1>1. PICK n \in Nat :
            /\ s \in [1..n -> ToMove] /\ \A i, j \in 1..n : s[i] = s[j] => i = j
            /\ \A p \in ToMove : \E i \in 1..n : s[i] = p
  BY OrderCovers
<1>2. PICK M : M = Behind(b)
  OBVIOUS
<1>3. M \in SUBSET ToMove /\ M # {} /\ IsFiniteSet(M) /\ Cardinality(M) \in Nat
  BY <1>2, BehindIs DEF InTheWay
<1>4. PICK K \in SUBSET (1..n) : K = {i \in 1..n : s[i] \in M}
  OBVIOUS
<1>5. K # {} /\ K \in SUBSET Int /\ IsFiniteSet(K)
  <2>1. PICK p \in M : TRUE
    BY <1>3
  <2>2. \E i \in 1..n : s[i] = p
    BY <1>1, <1>3
  <2>3. IsFiniteSet(1..n)
    BY UpTo
  <2>4. IsFiniteSet(K)
    BY <2>3, FS_Subset
  <2> QED BY <1>4, <2>2, <2>4
<1>6. PICK k \in K : \A i \in K : i <= k
  BY <1>5, GreatestIs
<1>7. PICK done \in SUBSET ToMove : done = {s[j] : j \in 1..(k - 1)}
  <2>1. k \in 1..n
    BY <1>4
  <2>2. \A j \in 1..(k - 1) : j \in 1..n
    BY <2>1
  <2>3. \A j \in 1..(k - 1) : s[j] \in ToMove
    BY <1>1, <2>2
  <2>4. {s[j] : j \in 1..(k - 1)} \in SUBSET ToMove
    BY <2>3
  <2> QED BY <2>4
<1>8. M \ {s[k]} \subseteq done
  <2> SUFFICES ASSUME NEW p \in M, p # s[k] PROVE p \in done
    OBVIOUS
  <2>1. PICK i \in 1..n : s[i] = p
    BY <1>1, <1>3
  <2>2. i \in K /\ i <= k /\ i # k
    BY <1>4, <1>6, <2>1
  <2>3. k \in 1..n
    BY <1>4
  <2>4. i \in 1..(k - 1)
    BY <2>2, <2>3
  <2> QED BY <1>7, <2>1, <2>4
<1>9. PICK D : D = Matched(b, done, cluster.pods)
  OBVIOUS
<1>10. M \ {s[k]} \in SUBSET D /\ IsFiniteSet(D) /\ Cardinality(D) \in Nat
  <2>1. D = done \cap M
    BY <1>2, <1>9, BehindIs
  <2> QED BY <1>3, <1>8, <2>1, FS_Subset, FS_CardinalityType
<1>11. Cardinality(M \ {s[k]}) = Cardinality(M) - 1
  BY <1>3, <1>4, FS_RemoveElement
<1>12. Cardinality(M \ {s[k]}) <= Cardinality(D)
  BY <1>10, FS_Subset
<1>13. Cardinality(D) < b.allowed
  <2>1. k \in DOMAIN s /\ s[k] \in Matched(b, ToMove, cluster.pods)
    BY <1>1, <1>2, <1>4 DEF Behind
  <2>2. LetThrough(s[k], done)
    BY <1>7, <2>1 DEF GoesThrough
  <2> QED BY <1>9, <2>1, <2>2 DEF LetThrough, InTheWay
<1>14. b.allowed < Cardinality(M) /\ b.allowed \in Int
  BY <1>2 DEF InTheWay, GoodDrain
<1> QED BY <1>3, <1>10, <1>11, <1>12, <1>13, <1>14

LEMMA DrainTold ==
  ASSUME GoodDrain(cluster), reasons = Drained PROVE NoFalseAlarm /\ BudgetForecast
<1>1. NoFalseAlarm
  BY AlarmIsTrue DEF NoFalseAlarm
<1>2. BudgetForecast
  BY BudgetSaid, NothingInTheWay, SomethingInTheWay DEF BudgetForecast
<1> QED BY <1>1, <1>2

-----------------------------------------------------------------------------
(* The order the pods are placed in *)

LEMMA LossIsGood ==
  ASSUME GoodLoss(cluster)
  PROVE  /\ GoodPods(cluster.pods) /\ DOMAIN cluster.pods \in SUBSET Nat
         /\ Leaving \in SUBSET DOMAIN cluster.pods /\ IsFiniteSet(Leaving)
         /\ IsFiniteSet(Taking) /\ Taking \in SUBSET Nat /\ Taking = Others(cluster.target, cluster.nodes)
         /\ \A i \in Taking, r \in Measures :
               /\ cluster.nodes[i][r] \in Nat
               /\ Used(cluster.nodes[i].name, cluster.pods)[r] \in Nat
<1>1. PICK pods, S : pods = cluster.pods /\ S = ToSet(cluster.pods)
  OBVIOUS
<1>2. PICK nodes, T : nodes = cluster.nodes /\ T = ToSet(cluster.nodes)
  OBVIOUS
<1>3. pods \in Seq(S) /\ nodes \in Seq(T)
  BY <1>1, <1>2 DEF GoodLoss
<1>4. PICK n \in Nat : DOMAIN pods = 1..n
  BY <1>3
<1>5. PICK m \in Nat : DOMAIN nodes = 1..m
  BY <1>3
<1>6. (\A p \in DOMAIN pods : GoodPod(pods[p])) /\ (\A i \in DOMAIN nodes : GoodNode(nodes[i]))
  BY <1>1, <1>2 DEF GoodLoss, ToSet
<1>7. GoodPods(pods)
  BY <1>4, <1>6, UpTo DEF GoodPods
<1>8. Leaving \in SUBSET DOMAIN cluster.pods
  BY MovedAre DEF Leaving
<1>9. IsFiniteSet(Leaving)
  BY <1>1, <1>7, <1>8, FS_Subset DEF GoodPods
<1>10. Taking \in SUBSET (1..m)
  BY <1>2, <1>5 DEF Taking
<1>11. IsFiniteSet(Taking)
  BY <1>10, UpTo, FS_Subset
<1>12. Taking = Others(cluster.target, cluster.nodes)
  BY DEF Taking, Others
<1>13. \A i \in Taking, r \in Measures : cluster.nodes[i][r] \in Nat
  BY <1>2, <1>5, <1>6, <1>10 DEF GoodNode
<1>14. \A i \in Taking, r \in Measures : Used(cluster.nodes[i].name, cluster.pods)[r] \in Nat
  BY <1>1, <1>7, UsedIs
<1> QED BY <1>1, <1>4, <1>7, <1>8, <1>9, <1>10, <1>11, <1>12, <1>13, <1>14

(* The bigger of two pods is one of them, whatever the two.                *)
LEMMA BiggerIs ==
  ASSUME NEW pods, GoodPods(pods), DOMAIN pods \in SUBSET Nat, NEW p \in DOMAIN pods, NEW q \in DOMAIN pods
  PROVE  /\ p # q => Bigger(p, q, pods) \/ Bigger(q, p, pods)
         /\ ~(Bigger(p, q, pods) /\ Bigger(q, p, pods))
         /\ \A o \in DOMAIN pods : Bigger(o, p, pods) /\ Bigger(p, q, pods) => Bigger(o, q, pods)
<1> DEFINE mem(o) == PodRequests(pods[o]).mem
           cpu(o) == PodRequests(pods[o]).cpu
<1>1. \A o \in DOMAIN pods : mem(o) \in Nat /\ cpu(o) \in Nat /\ o \in Nat
  BY AskIs DEF GoodPods, Quantities, Measures
<1>2. ASSUME NEW o \in DOMAIN pods, NEW x \in DOMAIN pods
      PROVE  PodRequests(pods[o]) = PodRequests(pods[x]) <=> mem(o) = mem(x) /\ cpu(o) = cpu(x)
  <2>1. PICK a, b \in Quantities : a = PodRequests(pods[o]) /\ b = PodRequests(pods[x])
    BY AskIs DEF GoodPods
  <2>2. a = b <=> \A r \in Measures : a[r] = b[r]
    BY DEF Quantities
  <2> QED BY <2>1, <2>2 DEF Measures
<1>3. ASSUME NEW o \in DOMAIN pods, NEW x \in DOMAIN pods
      PROVE  Bigger(o, x, pods) <=> \/ mem(o) > mem(x)
                                    \/ mem(o) = mem(x) /\ cpu(o) > cpu(x)
                                    \/ mem(o) = mem(x) /\ cpu(o) = cpu(x) /\ o < x
  BY <1>2 DEF Bigger
<1> HIDE DEF mem, cpu
<1>4. p # q => Bigger(p, q, pods) \/ Bigger(q, p, pods)
  BY <1>1, <1>3
<1>5. ~(Bigger(p, q, pods) /\ Bigger(q, p, pods))
  BY <1>1, <1>3
<1>6. ASSUME NEW o \in DOMAIN pods, Bigger(o, p, pods), Bigger(p, q, pods) PROVE Bigger(o, q, pods)
  <2>1. /\ mem(o) \in Nat /\ cpu(o) \in Nat /\ o \in Nat /\ mem(p) \in Nat /\ cpu(p) \in Nat /\ p \in Nat
        /\ mem(q) \in Nat /\ cpu(q) \in Nat /\ q \in Nat
    BY <1>1
  <2>2. \/ mem(o) > mem(p)
        \/ mem(o) = mem(p) /\ cpu(o) > cpu(p)
        \/ mem(o) = mem(p) /\ cpu(o) = cpu(p) /\ o < p
    BY <1>3, <1>6
  <2>3. \/ mem(p) > mem(q)
        \/ mem(p) = mem(q) /\ cpu(p) > cpu(q)
        \/ mem(p) = mem(q) /\ cpu(p) = cpu(q) /\ p < q
    BY <1>3, <1>6
  <2>4. \/ mem(o) > mem(q)
        \/ mem(o) = mem(q) /\ cpu(o) > cpu(q)
        \/ mem(o) = mem(q) /\ cpu(o) = cpu(q) /\ o < q
    BY <2>1, <2>2, <2>3
  <2> QED BY <1>3, <2>4
<1> QED BY <1>4, <1>5, <1>6

(* Every pod to place has a turn of its own.                               *)
LEMMA MoversAre ==
  ASSUME GoodLoss(cluster)
  PROVE  \E n \in Nat :
            /\ Movers(cluster.target, cluster.pods) \in [1..n -> Leaving]
            /\ Len(Movers(cluster.target, cluster.pods)) = n
            /\ \A i, j \in 1..n : Movers(cluster.target, cluster.pods)[i]
                                     = Movers(cluster.target, cluster.pods)[j] => i = j
            /\ \A p \in Leaving : \E i \in 1..n : Movers(cluster.target, cluster.pods)[i] = p
<1> DEFINE Ahead(p) == {q \in Leaving : q = p \/ Bigger(q, p, cluster.pods)}
           rank == [p \in Leaving |-> Cardinality(Ahead(p))]
<1>1. PICK n \in Nat : n = Cardinality(Leaving)
  BY LossIsGood, FS_CardinalityType
<1>2. \A p \in Leaving : /\ Ahead(p) \in SUBSET Leaving /\ IsFiniteSet(Ahead(p)) /\ p \in Ahead(p)
                         /\ Cardinality(Ahead(p)) \in Nat /\ Cardinality(Ahead(p)) >= 1
                         /\ Cardinality(Ahead(p)) <= n
  <2> SUFFICES ASSUME NEW p \in Leaving
               PROVE  /\ Ahead(p) \in SUBSET Leaving /\ IsFiniteSet(Ahead(p)) /\ p \in Ahead(p)
                      /\ Cardinality(Ahead(p)) \in Nat /\ Cardinality(Ahead(p)) >= 1
                      /\ Cardinality(Ahead(p)) <= n
    OBVIOUS
  <2>1. PICK A \in SUBSET Leaving : A = Ahead(p) /\ p \in A
    OBVIOUS
  <2>2. IsFiniteSet(A) /\ Cardinality(A) <= n
    BY <1>1, LossIsGood, FS_Subset
  <2>3. Cardinality(A) \in Nat /\ Cardinality(A) # 0
    BY <2>1, <2>2, FS_CardinalityType, FS_EmptySet
  <2> QED BY <2>1, <2>2, <2>3
<1>3. ASSUME NEW p \in Leaving, NEW q \in Leaving, Bigger(q, p, cluster.pods)
      PROVE  Cardinality(Ahead(q)) < Cardinality(Ahead(p))
  <2>1. p \in DOMAIN cluster.pods /\ q \in DOMAIN cluster.pods
    BY LossIsGood
  <2>2. p \notin Ahead(q)
    BY <1>3, <2>1, LossIsGood, BiggerIs
  <2>3. \A o \in Ahead(q) : o \in Ahead(p)
    <3> SUFFICES ASSUME NEW o \in Ahead(q) PROVE o \in Ahead(p)
      OBVIOUS
    <3>1. o \in DOMAIN cluster.pods /\ o \in Leaving
      BY LossIsGood
    <3>2. CASE o = q
      BY <1>3, <3>1, <3>2
    <3>3. CASE Bigger(o, q, cluster.pods)
      <4>1. Bigger(o, p, cluster.pods)
        BY <1>3, <2>1, <3>1, <3>3, LossIsGood, BiggerIs
      <4> QED BY <3>1, <4>1
    <3> QED BY <3>2, <3>3
  <2>4. PICK A, B : A = Ahead(q) /\ B = Ahead(p)
    OBVIOUS
  <2>5. /\ IsFiniteSet(A) /\ IsFiniteSet(B) /\ A \in SUBSET B /\ A # B
        /\ Cardinality(A) \in Nat /\ Cardinality(B) \in Nat
    BY <1>2, <2>2, <2>3, <2>4
  <2>6. Cardinality(A) <= Cardinality(B) /\ Cardinality(A) # Cardinality(B)
    BY <2>5, FS_Subset
  <2> QED BY <2>4, <2>5, <2>6
<1> HIDE DEF Ahead
<1>4. \A p, q \in Leaving : rank[p] = rank[q] => p = q
  <2> SUFFICES ASSUME NEW p \in Leaving, NEW q \in Leaving, rank[p] = rank[q], p # q PROVE FALSE
    OBVIOUS
  <2>1. Bigger(p, q, cluster.pods) \/ Bigger(q, p, cluster.pods)
    BY LossIsGood, BiggerIs
  <2> QED BY <1>2, <1>3, <2>1
<1>5. rank \in [Leaving -> 1..n]
  BY <1>2
<1>6. rank \in Injection(Leaving, 1..n)
  BY <1>4, <1>5 DEF Injection, IsInjective
<1>7. IsFiniteSet(1..n) /\ Cardinality(1..n) = n
  BY UpTo
<1>8. rank \in Surjection(Leaving, 1..n)
  BY <1>1, <1>6, <1>7, FS_Injection
<1>9. \A k \in 1..n : \E p \in Leaving : rank[p] = k
  BY <1>8 DEF Surjection
<1>10. PICK f : f = [k \in 1..n |-> CHOOSE p \in Leaving : rank[p] = k]
  OBVIOUS
<1>11. \A k \in 1..n : f[k] \in Leaving /\ rank[f[k]] = k
  BY <1>9, <1>10
<1>12. Movers(cluster.target, cluster.pods) = f
  <2>1. PICK g : g = [k \in 1..n |-> CHOOSE p \in Leaving :
                        Cardinality({q \in Leaving : q = p \/ Bigger(q, p, cluster.pods)}) = k]
    OBVIOUS
  <2>2. Movers(cluster.target, cluster.pods) = g
    BY <1>1, <2>1, Zenon DEF Movers, Leaving
  <2>3. \A p \in Leaving : Cardinality({q \in Leaving : q = p \/ Bigger(q, p, cluster.pods)}) = rank[p]
    BY DEF Ahead
  <2>4. ASSUME NEW k \in 1..n PROVE g[k] = f[k]
    <3>1. f[k] \in Leaving /\ rank[f[k]] = k
      BY <1>11
    <3>2. g[k] \in Leaving /\ Cardinality({q \in Leaving : q = g[k] \/ Bigger(q, g[k], cluster.pods)}) = k
      BY <2>1, <2>3, <3>1
    <3>3. rank[g[k]] = k
      BY <2>3, <3>2
    <3> QED BY <1>4, <3>1, <3>2, <3>3
  <2> QED BY <1>10, <2>1, <2>2, <2>4
<1>13. f \in [1..n -> Leaving] /\ Len(f) = n
  <2>1. f \in [1..n -> Leaving]
    BY <1>10, <1>11
  <2>2. f \in Seq(Leaving)
    BY <2>1
  <2> QED BY <2>1, <2>2
<1>14. \A i, j \in 1..n : f[i] = f[j] => i = j
  BY <1>11
<1>15. \A p \in Leaving : \E i \in 1..n : f[i] = p
  BY <1>4, <1>5, <1>11
<1> HIDE DEF rank
<1> QED BY <1>12, <1>13, <1>14, <1>15

-----------------------------------------------------------------------------
(* Placing them one by one *)

Reasons == {"NoRoom", "Taints", "Selector"}
Papers == [free : [Taking -> Quantities], stranded : SUBSET [pod : Leaving, why : Reasons]]

Start == Free(Taking, cluster.nodes, cluster.pods)
Blank == [free |-> Start, stranded |-> {}]

Ask(p) == PodRequests(cluster.pods[p])
Takers(p) == Eligible(Taking, cluster.nodes, cluster.pods[p])
Blame(p) == Why(Taking, cluster.nodes, cluster.pods[p])
AfterTurn(acc, p) == Place(Taking, cluster.nodes, cluster.pods, acc, p)

LEMMA AskOf == ASSUME GoodLoss(cluster), NEW p \in Leaving PROVE Ask(p) \in Quantities
  BY LossIsGood, AskIs DEF Ask, GoodPods

LEMMA StartIs ==
  ASSUME GoodLoss(cluster)
  PROVE  /\ Start \in [Taking -> Quantities] /\ Blank \in Papers
         /\ \A i \in Taking, r \in Measures :
               Start[i][r] = Larger(cluster.nodes[i][r] - Used(cluster.nodes[i].name, cluster.pods)[r], 0)
<1>1. \A i \in Taking, r \in Measures :
         /\ Start[i][r] = Larger(cluster.nodes[i][r] - Used(cluster.nodes[i].name, cluster.pods)[r], 0)
         /\ Start[i][r] \in Nat
  <2> TAKE i \in Taking, r \in Measures
  <2>1. Start[i][r] = Larger(cluster.nodes[i][r] - Used(cluster.nodes[i].name, cluster.pods)[r], 0)
    BY DEF Start, Free
  <2>2. /\ cluster.nodes[i][r] \in Nat
        /\ Used(cluster.nodes[i].name, cluster.pods)[r] \in Nat
    BY LossIsGood
  <2> QED BY <2>1, <2>2 DEF Larger
<1>2. \A i \in Taking : Start[i] \in Quantities
  <2> SUFFICES ASSUME NEW i \in Taking PROVE Start[i] \in Quantities
    OBVIOUS
  <2>1. PICK q : q = Start[i]
    OBVIOUS
  <2>2. q = [r \in Measures |-> q[r]]
    BY <2>1 DEF Start, Free
  <2>3. \A r \in Measures : q[r] \in Nat
    BY <1>1, <2>1
  <2>4. q \in Quantities
    BY <2>2, <2>3 DEF Quantities
  <2> QED BY <2>1, <2>4
<1>3. Start \in [Taking -> Quantities]
  BY <1>2 DEF Start, Free
<1>4. Blank \in Papers
  BY <1>3 DEF Blank, Papers
<1> QED BY <1>1, <1>3, <1>4

(* A pod goes to a node that accepts it and has the room, or is stranded.  *)
LEMMA PlaceIs ==
  ASSUME GoodLoss(cluster), NEW acc \in Papers, NEW p \in Leaving
  PROVE  /\ AfterTurn(acc, p) \in Papers
         /\ \/ /\ Takers(p) = {}
               /\ AfterTurn(acc, p).free = acc.free
               /\ AfterTurn(acc, p).stranded = acc.stranded \cup {[pod |-> p, why |-> Blame(p)]}
            \/ /\ Takers(p) # {} /\ \A i \in Takers(p) : ~Room(acc.free[i], Ask(p))
               /\ AfterTurn(acc, p).free = acc.free
               /\ AfterTurn(acc, p).stranded = acc.stranded \cup {[pod |-> p, why |-> "NoRoom"]}
            \/ /\ AfterTurn(acc, p).stranded = acc.stranded
               /\ \E m \in Takers(p) :
                     /\ Room(acc.free[m], Ask(p))
                     /\ AfterTurn(acc, p).free = [acc.free EXCEPT ![m] = Take(acc.free[m], Ask(p))]
<1> DEFINE fitting == {i \in Takers(p) : Room(acc.free[i], Ask(p))}
           strand(why) == [acc EXCEPT !.stranded = acc.stranded \cup {[pod |-> p, why |-> why]}]
<1>1. PICK z : z = AfterTurn(acc, p)
  OBVIOUS
<1>2. acc.free \in [Taking -> Quantities] /\ acc.stranded \in SUBSET [pod : Leaving, why : Reasons]
      /\ acc = [free |-> acc.free, stranded |-> acc.stranded]
  BY DEF Papers
<1>3. Takers(p) \subseteq Taking
  BY DEF Takers, Eligible
<1>4. \A why \in Reasons : /\ strand(why).free = acc.free
                           /\ strand(why).stranded = acc.stranded \cup {[pod |-> p, why |-> why]}
                           /\ strand(why) \in Papers
  BY <1>2 DEF Papers
<1>5. Blame(p) \in Reasons
  BY DEF Blame, Why, Reasons
<1>6. CASE Takers(p) = {}
  <2>1. z = strand(Blame(p))
    BY <1>1, <1>6 DEF AfterTurn, Place, Takers, Blame
  <2> HIDE DEF strand
  <2> QED BY <1>1, <1>4, <1>5, <1>6, <2>1
<1>7. CASE Takers(p) # {} /\ fitting = {}
  <2>1. z = strand("NoRoom")
    BY <1>1, <1>7 DEF AfterTurn, Place, Takers, Ask
  <2>2. \A i \in Takers(p) : ~Room(acc.free[i], Ask(p))
    BY <1>7
  <2>3. "NoRoom" \in Reasons
    BY DEF Reasons
  <2> HIDE DEF strand
  <2> QED BY <1>1, <1>4, <1>7, <2>1, <2>2, <2>3
<1>8. CASE Takers(p) # {} /\ fitting # {}
  <2>1. PICK F \in SUBSET Nat : F = fitting /\ F # {}
    BY <1>3, <1>8, LossIsGood
  <2>2. PICK m \in F : m = Min(F)
    <3>1. \E x \in F : \A y \in F : x <= y
      BY <2>1, LeastNatural
    <3> QED BY <3>1 DEF Min
  <2>3. m \in Takers(p) /\ Room(acc.free[m], Ask(p)) /\ m \in Taking
    BY <1>3, <2>1, <2>2
  <2>4. PICK t : t = Take(acc.free[m], Ask(p))
    OBVIOUS
  <2>5. t \in Quantities
    <3>1. Ask(p) \in Quantities /\ acc.free[m] \in Quantities
      BY <1>2, <2>3, AskOf
    <3>2. \A r \in Measures : acc.free[m][r] - Ask(p)[r] \in Nat
      BY <2>3, <3>1 DEF Room, Quantities
    <3> QED BY <2>4, <3>2 DEF Take, Quantities
  <2>6. PICK w : w = [acc.free EXCEPT ![m] = t]
    OBVIOUS
  <2>7. w \in [Taking -> Quantities]
    BY <1>2, <2>3, <2>5, <2>6
  <2>8. z = [acc EXCEPT !.free[m] = Take(acc.free[m], Ask(p))]
    BY <1>1, <1>8, <2>1, <2>2 DEF AfterTurn, Place, Takers, Ask
  <2>9. z = [acc EXCEPT !.free = w]
    BY <2>4, <2>6, <2>8
  <2>10. z.free = w /\ z.stranded = acc.stranded /\ z \in Papers
    BY <1>2, <2>7, <2>9 DEF Papers
  <2> QED BY <1>1, <2>3, <2>4, <2>6, <2>10
<1> QED BY <1>6, <1>7, <1>8

Turns == Movers(cluster.target, cluster.pods)
Ended == AfterAll(Taking, cluster.nodes, cluster.pods, Turns)

(* h is what is on paper after each turn, n of them.                       *)
OnPaper(h, n) ==
  /\ h \in [0..n -> Papers] /\ h[0] = Blank
  /\ \A k \in 1..n : h[k] = AfterTurn(h[k - 1], Turns[k])
  /\ Turns \in [1..n -> Leaving] /\ \A i, j \in 1..n : Turns[i] = Turns[j] => i = j
  /\ \A p \in Leaving : \E i \in 1..n : Turns[i] = p
  /\ Ended = h[n]

LEMMA PaperIs ==
  ASSUME GoodLoss(cluster) PROVE \E n \in Nat : \E h : OnPaper(h, n)
<1>1. PICK n \in Nat : /\ Turns \in [1..n -> Leaving] /\ Len(Turns) = n
                       /\ \A i, j \in 1..n : Turns[i] = Turns[j] => i = j
                       /\ \A p \in Leaving : \E i \in 1..n : Turns[i] = p
  BY MoversAre DEF Turns
<1> DEFINE op == [k \in 1..n |-> [acc \in Papers |-> AfterTurn(acc, Turns[k])]]
           Is(x) == x = [k \in 0..n |-> IF k = 0 THEN Blank ELSE AfterTurn(x[k - 1], Turns[k])]
<1>2. \A k \in 1..n : \A acc \in Papers : AfterTurn(acc, Turns[k]) \in Papers
  BY <1>1, PlaceIs
<1>3. op \in [1..n -> [Papers -> Papers]]
  BY <1>2
<1>4. Blank \in Papers
  BY StartIs
<1>5. PICK g : Goes(g, n, Papers, Blank, op)
  <2> HIDE DEF op
  <2> QED BY <1>3, <1>4, StepsExist
<1>6. g \in [0..n -> Papers] /\ g[0] = Blank /\ \A k \in 1..n : g[k] = op[k][g[k - 1]]
  <2> HIDE DEF op
  <2> QED BY <1>5 DEF Goes
<1>7. \A k \in 1..n : g[k] = AfterTurn(g[k - 1], Turns[k])
  <2>1. \A k \in 1..n : k - 1 \in 0..n /\ g[k - 1] \in Papers
    BY <1>6
  <2> QED BY <1>6, <2>1
<1>8. Is(g)
  <2>1. \A k \in 0..n : g[k] = IF k = 0 THEN Blank ELSE AfterTurn(g[k - 1], Turns[k])
    BY <1>6, <1>7
  <2> QED BY <1>6, <2>1
<1>9. PICK h : h = CHOOSE x : Is(x)
  OBVIOUS
<1>10. Is(h)
  <2> HIDE DEF Is
  <2> QED BY <1>8, <1>9
<1>11. h[0] = Blank /\ \A k \in 1..n : h[k] = AfterTurn(h[k - 1], Turns[k])
  <2>1. \A k \in 0..n : h[k] = IF k = 0 THEN Blank ELSE AfterTurn(h[k - 1], Turns[k])
    BY <1>10
  <2> QED BY <2>1
<1>12. \A k \in 0..n : k \in {j \in 0..n : h[j] \in Papers}
  <2> DEFINE G == {j \in 0..n : h[j] \in Papers}
  <2>1. 0 \in G
    BY <1>4, <1>11
  <2>2. \A k \in 1..n : k - 1 \in G => k \in G
    <3> SUFFICES ASSUME NEW k \in 1..n, k - 1 \in G PROVE k \in G
      OBVIOUS
    <3>1. h[k - 1] \in Papers
      OBVIOUS
    <3>2. h[k] \in Papers
      BY <1>2, <1>11, <3>1
    <3> QED BY <3>2
  <2> HIDE DEF G
  <2>3. \A k \in 0..n : k \in G
    BY <2>1, <2>2, AllPlaces
  <2> QED BY <2>3 DEF G
<1>13. h \in [0..n -> Papers]
  <2>1. h = [k \in 0..n |-> h[k]]
    BY <1>10
  <2> QED BY <1>12, <2>1
<1>14. Ended = h[n]
  <2>1. Ended = (CHOOSE x : Is(x))[n]
    BY <1>1, Zenon DEF Ended, AfterAll, AfterTurn, Blank, Start
  <2> QED BY <1>9, <2>1
<1> HIDE DEF op, Is
<1> QED BY <1>1, <1>11, <1>13, <1>14 DEF OnPaper

-----------------------------------------------------------------------------
(* What is on paper is a placement of the pods that are not stranded       *)

(* P are the pods placed by turn k, g where, of what is on paper.          *)
Laid(paper, k, P, g) ==
  /\ P \in SUBSET Leaving /\ g \in [P -> Taking]
  /\ \A p \in P : Accepts(cluster.nodes[g[p]], cluster.pods[p])
  /\ \A i \in Taking, r \in Measures :
        paper.free[i][r] + Sum(Asks(cluster.pods, r), Fiber(g, P, i)) = Start[i][r]
  /\ \A p \in P : \E j \in 1..k : Turns[j] = p

(* Those that are stranded are so for a reason, which still holds.         *)
Left(paper, k, P) ==
  /\ \A j \in 1..k : Turns[j] \in P \/ \E s \in paper.stranded : s.pod = Turns[j]
  /\ \A s \in paper.stranded :
        /\ s.pod \notin P /\ \E j \in 1..k : Turns[j] = s.pod
        /\ (s.why = "NoRoom") <=> (Takers(s.pod) # {})
        /\ s.why # "NoRoom" => s.why = Blame(s.pod)
        /\ \A i \in Takers(s.pod) : ~Room(paper.free[i], Ask(s.pod))

LEMMA LaidAtFirst ==
  ASSUME GoodLoss(cluster) PROVE Laid(Blank, 0, {}, [p \in {} |-> 0]) /\ Left(Blank, 0, {})
<1>1. PICK g : g = [p \in {} |-> 0]
  OBVIOUS
<1>2. \A i \in Taking : Fiber(g, {}, i) = {}
  BY DEF Fiber
<1>3. ASSUME NEW i \in Taking, NEW r \in Measures
      PROVE  Blank.free[i][r] + Sum(Asks(cluster.pods, r), Fiber(g, {}, i)) = Start[i][r]
  <2>1. Sum(Asks(cluster.pods, r), Fiber(g, {}, i)) = 0
    BY <1>2, SumNone
  <2>2. PICK x \in Nat : x = Start[i][r]
    BY StartIs DEF Quantities
  <2>3. Blank.free[i][r] = x
    BY <2>2 DEF Blank
  <2> QED BY <2>1, <2>2, <2>3
<1>4. g \in [{} -> Taking]
  BY <1>1
<1>5. Laid(Blank, 0, {}, g)
  BY <1>3, <1>4 DEF Laid
<1>6. Left(Blank, 0, {})
  BY DEF Left, Blank
<1> QED BY <1>1, <1>5, <1>6

(* One pod more that has a place.                                          *)
LEMMA LaidOnce ==
  ASSUME GoodLoss(cluster), NEW acc \in Papers, NEW z \in Papers, NEW k \in Nat, k >= 1, NEW p \in Leaving,
         p = Turns[k], NEW P, NEW g, Laid(acc, k - 1, P, g), p \notin P,
         NEW m \in Takers(p), Room(acc.free[m], Ask(p)),
         z.free = [acc.free EXCEPT ![m] = Take(acc.free[m], Ask(p))]
  PROVE  \E g2 : Laid(z, k, P \cup {p}, g2)
<1>1. PICK Q \in SUBSET Leaving : Q = P \cup {p}
  BY DEF Laid
<1>2. PICK g2 : g2 = [x \in Q |-> IF x = p THEN m ELSE g[x]]
  OBVIOUS
<1>3. m \in Taking /\ Accepts(cluster.nodes[m], cluster.pods[p])
  BY DEF Takers, Eligible
<1>4. g2 \in [Q -> Taking]
  BY <1>1, <1>2, <1>3 DEF Laid
<1>5. \A x \in Q : Accepts(cluster.nodes[g2[x]], cluster.pods[x])
  BY <1>1, <1>2, <1>3 DEF Laid
<1>6. ASSUME NEW i \in Taking, NEW r \in Measures
      PROVE  z.free[i][r] + Sum(Asks(cluster.pods, r), Fiber(g2, Q, i)) = Start[i][r]
  <2>1. PICK a, F : a = Asks(cluster.pods, r) /\ F = Fiber(g, P, i)
    OBVIOUS
  <2>2. F \in SUBSET DOMAIN cluster.pods /\ p \in DOMAIN cluster.pods
    BY <2>1, LossIsGood DEF Laid, Fiber
  <2>3. Adds(a, F) /\ Sum(a, F) \in Nat
    BY <2>1, <2>2, LossIsGood, AsksAdd
  <2>4. a[p] = Ask(p)[r]
    BY <2>1, <2>2 DEF Asks, Ask
  <2>5. Ask(p)[r] \in Nat /\ acc.free[i][r] \in Nat
    BY AskOf DEF Quantities, Papers
  <2>6. acc.free[i][r] + Sum(a, F) = Start[i][r]
    BY <2>1 DEF Laid
  <2>7. CASE i = m
    <3>1. Fiber(g2, Q, i) = F \cup {p} /\ p \notin F
      BY <1>1, <1>2, <2>1, <2>7 DEF Fiber
    <3>2. Sum(a, F \cup {p}) = a[p] + Sum(a, F)
      BY <2>3, <2>4, <2>5, <3>1, SumPuts
    <3>3. z.free[i][r] = acc.free[i][r] - Ask(p)[r]
      <4>1. z.free[i] = Take(acc.free[m], Ask(p))
        BY <1>3, <2>7 DEF Papers
      <4> QED BY <2>7, <4>1 DEF Take
    <3>4. Sum(a, Fiber(g2, Q, i)) = Ask(p)[r] + Sum(a, F)
      BY <2>4, <3>1, <3>2
    <3>5. PICK v \in Nat, w \in Nat, u \in Nat : v = acc.free[i][r] /\ w = Ask(p)[r] /\ u = Sum(a, F)
      BY <2>3, <2>5
    <3>6. (v - w) + (w + u) = v + u
      BY <3>5
    <3> QED BY <2>1, <2>6, <3>3, <3>4, <3>5, <3>6
  <2>8. CASE i # m
    <3>1. Fiber(g2, Q, i) = F
      BY <1>1, <1>2, <2>1, <2>8 DEF Fiber
    <3>2. z.free[i] = acc.free[i]
      BY <1>3, <2>8 DEF Papers
    <3> QED BY <2>1, <2>6, <3>1, <3>2
  <2> QED BY <2>7, <2>8
<1>7. \A x \in Q : \E j \in 1..k : Turns[j] = x
  <2>1. \A x \in P : \E j \in 1..(k - 1) : Turns[j] = x
    BY DEF Laid
  <2>2. 1..(k - 1) \subseteq 1..k /\ k \in 1..k
    OBVIOUS
  <2> QED BY <1>1, <2>1, <2>2
<1>8. Laid(z, k, Q, g2)
  BY <1>4, <1>5, <1>6, <1>7 DEF Laid
<1> QED BY <1>1, <1>8

(* Those stranded before stay so, whatever room is taken meanwhile.        *)
LEMMA LeftStays ==
  ASSUME GoodLoss(cluster), NEW acc \in Papers, NEW z \in Papers, NEW p \in Leaving,
         NEW m \in Takers(p), Room(acc.free[m], Ask(p)),
         z.free = [acc.free EXCEPT ![m] = Take(acc.free[m], Ask(p))],
         NEW i \in Taking, NEW q \in Leaving, Room(z.free[i], Ask(q))
  PROVE  Room(acc.free[i], Ask(q))
<1>1. m \in Taking
  BY DEF Takers, Eligible
<1> SUFFICES ASSUME NEW r \in Measures PROVE acc.free[i][r] >= Ask(q)[r]
  BY DEF Room
<1>2. z.free[i][r] >= Ask(q)[r]
  BY DEF Room
<1>3. Ask(p)[r] \in Nat /\ Ask(q)[r] \in Nat /\ acc.free[i][r] \in Nat
  BY AskOf DEF Quantities, Papers
<1>4. CASE i = m
  <2>1. z.free[i] = Take(acc.free[m], Ask(p))
    BY <1>1, <1>4 DEF Papers
  <2>2. z.free[i][r] = acc.free[i][r] - Ask(p)[r]
    BY <1>4, <2>1 DEF Take
  <2> QED BY <1>2, <1>3, <2>2
<1>5. CASE i # m
  <2>1. z.free[i] = acc.free[i]
    BY <1>1, <1>5 DEF Papers
  <2> QED BY <1>2, <2>1
<1> QED BY <1>4, <1>5

LEMMA LaidNext ==
  ASSUME GoodLoss(cluster), NEW n \in Nat, NEW h, OnPaper(h, n), NEW k \in 1..n,
         NEW P, NEW g, Laid(h[k - 1], k - 1, P, g), Left(h[k - 1], k - 1, P)
  PROVE  \E P2, g2 : Laid(h[k], k, P2, g2) /\ Left(h[k], k, P2)
<1>1. PICK acc \in Papers, p \in Leaving : acc = h[k - 1] /\ p = Turns[k]
  <2>1. k - 1 \in 0..n
    OBVIOUS
  <2> QED BY <2>1 DEF OnPaper
<1>2. PICK z \in Papers : z = h[k] /\ z = AfterTurn(acc, p)
  BY <1>1 DEF OnPaper
<1>3. \A j \in 1..(k - 1) : Turns[j] # p
  <2>1. \A j \in 1..(k - 1) : j \in 1..n /\ j # k
    OBVIOUS
  <2> QED BY <1>1, <2>1 DEF OnPaper
<1>4. p \notin P /\ \A s \in acc.stranded : s.pod # p
  BY <1>1, <1>3 DEF Laid, Left
<1>5. /\ 1..(k - 1) \subseteq 1..k /\ k \in 1..k
      /\ \A j \in 1..k : j \in 1..(k - 1) \/ j = k
  OBVIOUS
<1>6. ASSUME NEW why, z.free = acc.free, z.stranded = acc.stranded \cup {[pod |-> p, why |-> why]},
             (why = "NoRoom") <=> (Takers(p) # {}), why # "NoRoom" => why = Blame(p),
             \A i \in Takers(p) : ~Room(acc.free[i], Ask(p))
      PROVE  Laid(z, k, P, g) /\ Left(z, k, P)
  <2>1. Laid(z, k, P, g)
    BY <1>1, <1>5, <1>6 DEF Laid
  <2>2. \A j \in 1..k : Turns[j] \in P \/ \E s \in z.stranded : s.pod = Turns[j]
    <3>1. \A j \in 1..(k - 1) : Turns[j] \in P \/ \E s \in acc.stranded : s.pod = Turns[j]
      BY <1>1 DEF Left
    <3>2. \E s \in z.stranded : s.pod = Turns[k]
      <4>1. PICK s : s = [pod |-> p, why |-> why]
        OBVIOUS
      <4>2. s \in z.stranded /\ s.pod = p
        BY <1>6, <4>1
      <4> QED BY <1>1, <4>2
    <3> QED BY <1>5, <1>6, <3>1, <3>2
  <2>3. ASSUME NEW s \in z.stranded
        PROVE  /\ s.pod \notin P /\ \E j \in 1..k : Turns[j] = s.pod
               /\ (s.why = "NoRoom") <=> (Takers(s.pod) # {})
               /\ s.why # "NoRoom" => s.why = Blame(s.pod)
               /\ \A i \in Takers(s.pod) : ~Room(z.free[i], Ask(s.pod))
    <3>1. CASE s \in acc.stranded
      BY <1>1, <1>5, <1>6, <3>1 DEF Left
    <3>2. CASE s = [pod |-> p, why |-> why]
      <4>1. s.pod = p /\ s.why = why
        BY <3>2
      <4> QED BY <1>1, <1>4, <1>5, <1>6, <4>1
    <3> QED BY <1>6, <3>1, <3>2
  <2>4. Left(z, k, P)
    BY <2>2, <2>3 DEF Left
  <2> QED BY <2>1, <2>4
<1>7. CASE /\ Takers(p) = {} /\ z.free = acc.free
           /\ z.stranded = acc.stranded \cup {[pod |-> p, why |-> Blame(p)]}
  <2>1. Blame(p) # "NoRoom"
    BY DEF Blame, Why
  <2>2. Laid(z, k, P, g) /\ Left(z, k, P)
    BY <1>6, <1>7, <2>1
  <2> QED BY <1>2, <2>2
<1>8. CASE /\ Takers(p) # {} /\ \A i \in Takers(p) : ~Room(acc.free[i], Ask(p))
           /\ z.free = acc.free
           /\ z.stranded = acc.stranded \cup {[pod |-> p, why |-> "NoRoom"]}
  <2>1. Laid(z, k, P, g) /\ Left(z, k, P)
    BY <1>6, <1>8
  <2> QED BY <1>2, <2>1
<1>9. CASE /\ z.stranded = acc.stranded
           /\ \E m \in Takers(p) : /\ Room(acc.free[m], Ask(p))
                                   /\ z.free = [acc.free EXCEPT ![m] = Take(acc.free[m], Ask(p))]
  <2>1. PICK m \in Takers(p) : /\ Room(acc.free[m], Ask(p))
                               /\ z.free = [acc.free EXCEPT ![m] = Take(acc.free[m], Ask(p))]
    BY <1>9
  <2>2. k \in Nat /\ k >= 1 /\ p = Turns[k] /\ Laid(acc, k - 1, P, g)
    BY <1>1
  <2>3. PICK g2 : Laid(z, k, P \cup {p}, g2)
    BY <1>4, <2>1, <2>2, LaidOnce
  <2>4. \A j \in 1..k : Turns[j] \in P \cup {p} \/ \E s \in z.stranded : s.pod = Turns[j]
    BY <1>1, <1>5, <1>9 DEF Left
  <2>5. ASSUME NEW s \in z.stranded
        PROVE  /\ s.pod \notin P \cup {p} /\ \E j \in 1..k : Turns[j] = s.pod
               /\ (s.why = "NoRoom") <=> (Takers(s.pod) # {})
               /\ s.why # "NoRoom" => s.why = Blame(s.pod)
               /\ \A i \in Takers(s.pod) : ~Room(z.free[i], Ask(s.pod))
    <3>1. s \in acc.stranded /\ s.pod \in Leaving
      BY <1>9 DEF Papers
    <3>2. /\ s.pod \notin P \cup {p} /\ \E j \in 1..k : Turns[j] = s.pod
          /\ (s.why = "NoRoom") <=> (Takers(s.pod) # {})
          /\ s.why # "NoRoom" => s.why = Blame(s.pod)
          /\ \A i \in Takers(s.pod) : ~Room(acc.free[i], Ask(s.pod))
      BY <1>1, <1>4, <1>5, <3>1 DEF Left
    <3>3. \A i \in Takers(s.pod) : ~Room(z.free[i], Ask(s.pod))
      <4>1. Takers(s.pod) \subseteq Taking
        BY DEF Takers, Eligible
      <4>2. PICK q \in Leaving : q = s.pod
        BY <3>1
      <4> QED BY <2>1, <3>2, <4>1, <4>2, LeftStays
    <3> QED BY <3>2, <3>3
  <2>6. Left(z, k, P \cup {p})
    BY <2>4, <2>5 DEF Left
  <2> QED BY <1>2, <2>3, <2>6
<1>10. \/ /\ Takers(p) = {} /\ z.free = acc.free
          /\ z.stranded = acc.stranded \cup {[pod |-> p, why |-> Blame(p)]}
       \/ /\ Takers(p) # {} /\ \A i \in Takers(p) : ~Room(acc.free[i], Ask(p))
          /\ z.free = acc.free
          /\ z.stranded = acc.stranded \cup {[pod |-> p, why |-> "NoRoom"]}
       \/ /\ z.stranded = acc.stranded
          /\ \E m \in Takers(p) : /\ Room(acc.free[m], Ask(p))
                                  /\ z.free = [acc.free EXCEPT ![m] = Take(acc.free[m], Ask(p))]
  BY <1>2, PlaceIs
<1> QED BY <1>7, <1>8, <1>9, <1>10

LEMMA LaidInTheEnd ==
  ASSUME GoodLoss(cluster)
  PROVE  /\ Ended \in Papers
         /\ \E n \in Nat : /\ \E P, g : Laid(Ended, n, P, g) /\ Left(Ended, n, P)
                           /\ \A p \in Leaving : \E i \in 1..n : Turns[i] = p
<1>1. PICK n \in Nat : \E h : OnPaper(h, n)
  BY PaperIs
<1>2. PICK h : OnPaper(h, n)
  BY <1>1
<1> DEFINE G == {k \in 0..n : \E P, g : Laid(h[k], k, P, g) /\ Left(h[k], k, P)}
<1>3. 0 \in G
  <2>1. h[0] = Blank
    BY <1>2 DEF OnPaper
  <2>2. \E P, g : Laid(h[0], 0, P, g) /\ Left(h[0], 0, P)
    BY <2>1, LaidAtFirst
  <2> QED BY <2>2
<1>4. ASSUME NEW k \in 1..n, k - 1 \in G PROVE k \in G
  <2>1. PICK P, g : Laid(h[k - 1], k - 1, P, g) /\ Left(h[k - 1], k - 1, P)
    BY <1>4
  <2>2. \E P2, g2 : Laid(h[k], k, P2, g2) /\ Left(h[k], k, P2)
    BY <1>2, <2>1, LaidNext
  <2> QED BY <2>2
<1> HIDE DEF G
<1>5. n \in G
  <2>1. \A k \in 0..n : k \in G
    BY <1>3, <1>4, AllPlaces
  <2> QED BY <2>1
<1>6. PICK P, g : Laid(h[n], n, P, g) /\ Left(h[n], n, P)
  BY <1>5 DEF G
<1>7. Ended = h[n] /\ h[n] \in Papers /\ \A p \in Leaving : \E i \in 1..n : Turns[i] = p
  BY <1>2 DEF OnPaper
<1> QED BY <1>6, <1>7

-----------------------------------------------------------------------------
(* The verdict on the loss of a node                                       *)

Lost == SimulateLoss(cluster.target, cluster.nodes, cluster.pods)

LEMMA LostIs ==
  ASSUME GoodLoss(cluster), reasons = Lost
  PROVE  /\ Taking = {} => reasons.kind = "Alone" /\ reasons.stranded = {}
         /\ Taking # {} => /\ reasons.stranded = Ended.stranded
                           /\ reasons.kind \in {"Fits", "Tight"} <=> Ended.stranded = {}
<1>1. Taking = Others(cluster.target, cluster.nodes)
  BY LossIsGood
<1>2. PICK tight \in BOOLEAN :
         reasons = CASE Taking = {} -> [kind |-> "Alone", stranded |-> {}]
                     [] Taking # {} /\ Ended.stranded # {} -> [kind |-> "Homeless", stranded |-> Ended.stranded]
                     [] Taking # {} /\ Ended.stranded = {} ->
                           [kind |-> IF tight THEN "Tight" ELSE "Fits", stranded |-> Ended.stranded]
  BY <1>1 DEF Lost, SimulateLoss, Ended, Turns
<1>3. CASE Taking = {}
  <2>1. reasons = [kind |-> "Alone", stranded |-> {}]
    BY <1>2, <1>3
  <2> QED BY <1>3, <2>1
<1>4. CASE Taking # {} /\ Ended.stranded # {}
  <2>1. reasons = [kind |-> "Homeless", stranded |-> Ended.stranded]
    BY <1>2, <1>4
  <2> QED BY <1>4, <2>1
<1>5. CASE Taking # {} /\ Ended.stranded = {}
  <2>1. reasons = [kind |-> IF tight THEN "Tight" ELSE "Fits", stranded |-> Ended.stranded]
    BY <1>2, <1>5
  <2> QED BY <1>5, <2>1
<1> QED BY <1>3, <1>4, <1>5

(* To be able to take what one is sent is to have had that much left.      *)
LEMMA TakesIs ==
  ASSUME GoodLoss(cluster), NEW i \in Taking, NEW sent \in SUBSET Leaving
  PROVE  /\ \A r \in Measures : Sum(Asks(cluster.pods, r), sent) \in Nat /\ Start[i][r] \in Nat
         /\ Takes(cluster.nodes[i], sent) <=>
               \A r \in Measures : Sum(Asks(cluster.pods, r), sent) <= Start[i][r]
<1>1. ASSUME NEW r \in Measures
      PROVE  \E a, v, u \in Nat :
                /\ a = Sum(Asks(cluster.pods, r), sent) /\ a = Needed(sent, cluster.pods)[r]
                /\ v = cluster.nodes[i][r] /\ u = Used(cluster.nodes[i].name, cluster.pods)[r]
                /\ Start[i][r] = Larger(v - u, 0)
  <2>1. sent \in SUBSET DOMAIN cluster.pods
    BY LossIsGood
  <2>2. Sum(Asks(cluster.pods, r), sent) \in Nat
    BY <2>1, LossIsGood, AsksAdd
  <2>3. Sum(Asks(cluster.pods, r), sent) = Needed(sent, cluster.pods)[r]
    BY <2>1, LossIsGood, NeededIs
  <2>4. cluster.nodes[i][r] \in Nat /\ Used(cluster.nodes[i].name, cluster.pods)[r] \in Nat
    BY LossIsGood
  <2> QED BY <2>2, <2>3, <2>4, StartIs
<1>2. ASSUME NEW r \in Measures
      PROVE  /\ Sum(Asks(cluster.pods, r), sent) \in Nat /\ Start[i][r] \in Nat
             /\ Sum(Asks(cluster.pods, r), sent) <= Start[i][r] <=>
                   \/ Needed(sent, cluster.pods)[r] = 0
                   \/ Used(cluster.nodes[i].name, cluster.pods)[r] + Needed(sent, cluster.pods)[r]
                         <= cluster.nodes[i][r]
  <2>1. PICK a, v, u \in Nat :
                /\ a = Sum(Asks(cluster.pods, r), sent) /\ a = Needed(sent, cluster.pods)[r]
                /\ v = cluster.nodes[i][r] /\ u = Used(cluster.nodes[i].name, cluster.pods)[r]
                /\ Start[i][r] = Larger(v - u, 0)
    BY <1>1
  <2> QED BY <2>1 DEF Larger
<1>3. Takes(cluster.nodes[i], sent) <=>
        \A r \in Measures : \/ Needed(sent, cluster.pods)[r] = 0
                            \/ Used(cluster.nodes[i].name, cluster.pods)[r] + Needed(sent, cluster.pods)[r]
                                  <= cluster.nodes[i][r]
  BY DEF Takes
<1> QED BY <1>2, <1>3

LEMMA FitIndeed ==
  ASSUME GoodLoss(cluster), reasons = Lost, reasons.kind \in {"Fits", "Tight"}
  PROVE  Rehoused
<1>1. Taking # {} /\ Ended.stranded = {}
  BY LostIs
<1>0. PICK n \in Nat : /\ \E P, g : Laid(Ended, n, P, g) /\ Left(Ended, n, P)
                       /\ \A p \in Leaving : \E i \in 1..n : Turns[i] = p
  BY LaidInTheEnd
<1>2. PICK P, g : Laid(Ended, n, P, g) /\ Left(Ended, n, P)
  BY <1>0
<1>3. P = Leaving
  <2>1. \A j \in 1..n : Turns[j] \in P
    BY <1>1, <1>2 DEF Left
  <2>2. P \subseteq Leaving
    BY <1>2 DEF Laid
  <2>3. \A p \in Leaving : p \in P
    BY <1>0, <2>1
  <2> QED BY <2>2, <2>3
<1>4. g \in [Leaving -> Taking] /\ \A p \in Leaving : Accepts(cluster.nodes[g[p]], cluster.pods[p])
  BY <1>2, <1>3 DEF Laid
<1>5. ASSUME NEW i \in Taking PROVE Takes(cluster.nodes[i], Fiber(g, Leaving, i))
  <2>1. Fiber(g, Leaving, i) \in SUBSET Leaving
    BY DEF Fiber
  <2>2. ASSUME NEW r \in Measures
        PROVE  Sum(Asks(cluster.pods, r), Fiber(g, Leaving, i)) <= Start[i][r]
    <3>1. Ended.free[i][r] + Sum(Asks(cluster.pods, r), Fiber(g, Leaving, i)) = Start[i][r]
      BY <1>2, <1>3 DEF Laid
    <3>2. Ended.free[i][r] \in Nat
      BY LaidInTheEnd DEF Papers, Quantities
    <3>3. Sum(Asks(cluster.pods, r), Fiber(g, Leaving, i)) \in Nat /\ Start[i][r] \in Nat
      BY <2>1, TakesIs
    <3> QED BY <3>1, <3>2, <3>3
  <2> QED BY <2>1, <2>2, TakesIs
<1> QED BY <1>4, <1>5 DEF Rehoused, Fiber

LEMMA StrandedIndeed ==
  ASSUME GoodLoss(cluster), reasons = Lost, NEW s \in reasons.stranded
  PROVE  LET takers == {i \in Taking : Accepts(cluster.nodes[i], cluster.pods[s.pod])}
         IN  /\ (s.why = "NoRoom") <=> (takers # {})
             /\ (s.why = "Taints") => \A i \in Taking :
                                         ~Tolerated(cluster.nodes[i], cluster.pods[s.pod])
             /\ (s.why = "Selector") => \E i \in Taking :
                                         ~Selected(cluster.nodes[i], cluster.pods[s.pod])
<1>1. Taking # {} /\ s \in Ended.stranded
  BY LostIs
<1>0. PICK n \in Nat : \E P, g : Laid(Ended, n, P, g) /\ Left(Ended, n, P)
  BY LaidInTheEnd
<1>2. PICK P, g : Laid(Ended, n, P, g) /\ Left(Ended, n, P)
  BY <1>0
<1>3. /\ (s.why = "NoRoom") <=> (Takers(s.pod) # {})
      /\ s.why # "NoRoom" => s.why = Blame(s.pod)
  BY <1>1, <1>2 DEF Left
<1>4. Takers(s.pod) = {i \in Taking : Accepts(cluster.nodes[i], cluster.pods[s.pod])}
  BY DEF Takers, Eligible
<1>5. s.why = "Taints" => \A i \in Taking : ~Tolerated(cluster.nodes[i], cluster.pods[s.pod])
  BY <1>3 DEF Blame, Why
<1>6. ASSUME s.why = "Selector"
      PROVE  \E i \in Taking : ~Selected(cluster.nodes[i], cluster.pods[s.pod])
  <2>1. PICK i \in Taking : Tolerated(cluster.nodes[i], cluster.pods[s.pod])
    BY <1>3, <1>6 DEF Blame, Why
  <2>2. ~Accepts(cluster.nodes[i], cluster.pods[s.pod])
    BY <1>3, <1>4, <1>6
  <2> QED BY <2>1, <2>2 DEF Accepts
<1> QED BY <1>3, <1>4, <1>5, <1>6

(* Of two ways to spread, that of more has more somewhere.                 *)
LEMMA MoreSomewhere ==
  ASSUME NEW A, IsFiniteSet(A), NEW B \in SUBSET A, B # A, NEW N, IsFiniteSet(N),
         NEW f \in [A -> N], NEW g \in [B -> N]
  PROVE  \E n \in N : Cardinality(Fiber(g, B, n)) < Cardinality(Fiber(f, A, n))
<1> SUFFICES ASSUME \A n \in N : ~(Cardinality(Fiber(g, B, n)) < Cardinality(Fiber(f, A, n))) PROVE FALSE
  OBVIOUS
<1> DEFINE one == [x \in A |-> 1]
<1>1. Adds(one, A) /\ Adds(one, B) /\ IsFiniteSet(B)
  BY FS_Subset DEF Adds
<1>2. ASSUME NEW T \in SUBSET A PROVE Sum(one, T) = Cardinality(T) /\ Cardinality(T) \in Nat
  <2>1. IsFiniteSet(T) /\ Cardinality(T) \in Nat
    BY FS_Subset, FS_CardinalityType
  <2>2. Adds(one, T) /\ \A x \in T : one[x] = 1
    BY <2>1 DEF Adds
  <2> HIDE DEF one
  <2>3. Sum(one, T) = Cardinality(T) * 1
    BY <2>2, SumOfEqual
  <2> QED BY <2>1, <2>3
<1> HIDE DEF one
<1>3. PICK p, q : /\ p = [n \in N |-> Sum(one, Fiber(f, A, n))]
                  /\ q = [n \in N |-> Sum(one, Fiber(g, B, n))]
  OBVIOUS
<1>4. Adds(p, N) /\ Sum(one, A) = Sum(p, N)
  BY <1>1, <1>3, SumByPlace
<1>5. Adds(q, N) /\ Sum(one, B) = Sum(q, N)
  BY <1>1, <1>3, SumByPlace
<1>6. \A n \in N : p[n] <= q[n]
  <2> SUFFICES ASSUME NEW n \in N PROVE p[n] <= q[n]
    OBVIOUS
  <2>1. Fiber(f, A, n) \in SUBSET A /\ Fiber(g, B, n) \in SUBSET A
    BY DEF Fiber
  <2>2. PICK F, E \in SUBSET A : F = Fiber(f, A, n) /\ E = Fiber(g, B, n)
    BY <2>1
  <2>3. p[n] = Cardinality(F) /\ q[n] = Cardinality(E) /\ Cardinality(F) \in Nat /\ Cardinality(E) \in Nat
    BY <1>2, <1>3, <2>2
  <2>4. ~(Cardinality(E) < Cardinality(F))
    BY <2>2
  <2> QED BY <2>3, <2>4
<1>7. Sum(p, N) <= Sum(q, N)
  BY <1>4, <1>5, <1>6, SumLess
<1>8. Cardinality(A) <= Cardinality(B)
  BY <1>2, <1>4, <1>5, <1>7
<1>9. Cardinality(B) <= Cardinality(A) /\ (Cardinality(A) = Cardinality(B) => A = B)
  BY FS_Subset
<1>10. Cardinality(A) \in Nat /\ Cardinality(B) \in Nat
  BY <1>2
<1> QED BY <1>8, <1>9, <1>10

(* Where the pods are alike, one stranded among them is one too many.      *)
LEMMA NoneStranded ==
  ASSUME GoodLoss(cluster), Alike, Rehoused, NEW s \in Ended.stranded
  PROVE  FALSE
<1>0. PICK n \in Nat : \E P, g : Laid(Ended, n, P, g) /\ Left(Ended, n, P)
  BY LaidInTheEnd
<1>1. PICK P, g : Laid(Ended, n, P, g) /\ Left(Ended, n, P)
  BY <1>0
<1>2. PICK f \in [Leaving -> Taking] :
         \A i \in Taking : Takes(cluster.nodes[i], Fiber(f, Leaving, i))
  BY DEF Rehoused, Fiber
<1>3. PICK p \in Leaving : p = s.pod /\ p \notin P
  BY <1>1, LaidInTheEnd DEF Left, Papers
<1>4. /\ P \in SUBSET Leaving /\ P # Leaving /\ g \in [P -> Taking]
      /\ IsFiniteSet(Leaving) /\ IsFiniteSet(Taking)
  BY <1>1, <1>3, LossIsGood DEF Laid
<1>5. PICK i \in Taking : Cardinality(Fiber(g, P, i)) < Cardinality(Fiber(f, Leaving, i))
  BY <1>2, <1>4, MoreSomewhere
<1>6. PICK E, F \in SUBSET Leaving : E = Fiber(g, P, i) /\ F = Fiber(f, Leaving, i)
  BY <1>4 DEF Fiber
<1>7. PICK e, c \in Nat : e = Cardinality(E) /\ c = Cardinality(F) /\ e < c
  <2>1. IsFiniteSet(E) /\ IsFiniteSet(F)
    BY <1>4, FS_Subset
  <2> QED BY <1>5, <1>6, <2>1, FS_CardinalityType
<1>8. ASSUME NEW r \in Measures PROVE Ended.free[i][r] >= Ask(p)[r]
  <2>1. PICK a : a = Asks(cluster.pods, r)
    OBVIOUS
  <2>2. PICK w \in Nat : w = Ask(p)[r]
    BY AskOf DEF Quantities
  <2>3. ASSUME NEW T \in SUBSET Leaving PROVE Sum(a, T) = Cardinality(T) * w
    <3>1. T \in SUBSET DOMAIN cluster.pods
      BY LossIsGood
    <3>2. Adds(a, T) /\ \A x \in T : a[x] = PodRequests(cluster.pods[x])[r]
      BY <2>1, <3>1, LossIsGood, AsksAdd
    <3>3. \A x \in T : a[x] = w
      BY <2>2, <3>2 DEF Alike, Ask
    <3> QED BY <3>2, <3>3, SumOfEqual
  <2>4. Sum(a, E) = e * w /\ Sum(a, F) = c * w
    BY <1>7, <2>3
  <2>5. Sum(a, F) <= Start[i][r] /\ Start[i][r] \in Nat
    BY <1>2, <1>6, <2>1, TakesIs
  <2>6. Ended.free[i][r] + Sum(a, E) = Start[i][r]
    BY <1>1, <1>6, <2>1 DEF Laid
  <2>7. Ended.free[i][r] \in Nat
    BY LaidInTheEnd DEF Papers, Quantities
  <2>8. PICK d \in Nat : c = e + 1 + d
    <3>1. c - e - 1 \in Nat /\ c = e + 1 + (c - e - 1)
      BY <1>7
    <3> QED BY <3>1
  <2>9. c * w = e * w + w + d * w /\ d * w \in Nat /\ e * w \in Nat
    BY <2>8
  <2> QED BY <2>2, <2>4, <2>5, <2>6, <2>7, <2>9
<1>9. Room(Ended.free[i], Ask(p))
  BY <1>8 DEF Room
<1>10. i \in Takers(p)
  BY DEF Alike, Takers, Eligible
<1>11. ~Room(Ended.free[i], Ask(p))
  BY <1>1, <1>3, <1>10 DEF Left
<1> QED BY <1>9, <1>11

LEMMA ExactIndeed ==
  ASSUME GoodLoss(cluster), reasons = Lost, Alike
  PROVE  Rehoused <=> (reasons.kind \in {"Fits", "Tight"} \/ Leaving = {})
<1>1. ASSUME Rehoused, Leaving # {} PROVE reasons.kind \in {"Fits", "Tight"}
  <2>1. Taking # {}
    BY <1>1 DEF Rehoused
  <2>2. Ended.stranded = {}
    BY <1>1, NoneStranded
  <2> QED BY <2>1, <2>2, LostIs
<1>2. ASSUME Leaving = {} PROVE Rehoused
  <2>1. PICK f : f = [p \in Leaving |-> 0]
    OBVIOUS
  <2>2. f \in [Leaving -> Taking]
    BY <1>2, <2>1
  <2>3. ASSUME NEW i \in Taking PROVE Takes(cluster.nodes[i], {p \in Leaving : f[p] = i})
    <3>1. {p \in Leaving : f[p] = i} = {} /\ {} \in SUBSET Leaving
      BY <1>2
    <3>2. \A r \in Measures : Sum(Asks(cluster.pods, r), {}) = 0
      BY SumNone
    <3>3. \A r \in Measures : Start[i][r] \in Nat
      BY <3>1, TakesIs
    <3>4. \A r \in Measures : Sum(Asks(cluster.pods, r), {}) <= Start[i][r]
      BY <3>2, <3>3
    <3>5. Takes(cluster.nodes[i], {})
      BY <3>1, <3>4, TakesIs
    <3> QED BY <3>1, <3>5
  <2> QED BY <1>2, <2>2, <2>3 DEF Rehoused
<1> QED BY <1>1, <1>2, FitIndeed

LEMMA LossTold ==
  ASSUME GoodLoss(cluster), reasons = Lost PROVE FitsIsPossible /\ AlikeIsExact /\ StrandedForAReason
<1>1. FitsIsPossible
  BY FitIndeed DEF FitsIsPossible
<1>2. AlikeIsExact
  BY ExactIndeed DEF AlikeIsExact
<1>3. StrandedForAReason
  BY StrandedIndeed DEF StrandedForAReason
<1> QED BY <1>1, <1>2, <1>3

-----------------------------------------------------------------------------
CapacityInv ==
  /\ GoodCluster(cluster)
  /\ Judged("drain") => reasons = Drained
  /\ Judged("loss") => reasons = Lost

LEMMA CapacityCollected ==
  ASSUME CapacityInv, ~assessed, CollectCluster, UNCHANGED cluster PROVE CapacityInv'
<1>1. cluster' = cluster /\ GoodCluster(cluster)
  BY DEF CapacityInv
<1>2. GoodCluster(cluster')
  BY <1>1
<1>3. cluster.about = "drain" => reasons' = Drained
  BY DEF CollectCluster, CollectDrain, CollectLoss, CollectSpread, CollectWebhooks, About, Drained, Rooms
<1>4. cluster.about = "loss" => reasons' = Lost
  BY DEF CollectCluster, CollectDrain, CollectLoss, CollectSpread, CollectWebhooks, About, Lost
<1>5. Drained' = Drained /\ Lost' = Lost
  BY <1>1 DEF Drained, Rooms, Lost
<1> QED BY <1>1, <1>2, <1>3, <1>4, <1>5 DEF CapacityInv, Judged, About

LEMMA CapacityTold == ASSUME CapacityInv PROVE CapacityIsTold
<1>1. Judged("drain") => GoodDrain(cluster) /\ reasons = Drained
  BY DEF CapacityInv, Judged, About, GoodCluster
<1>2. Judged("loss") => GoodLoss(cluster) /\ reasons = Lost
  BY DEF CapacityInv, Judged, About, GoodCluster
<1>3. Judged("drain") => NoFalseAlarm /\ BudgetForecast
  BY <1>1, DrainTold
<1>4. Judged("loss") => FitsIsPossible /\ AlikeIsExact /\ StrandedForAReason
  BY <1>2, LossTold
<1>5. ~Judged("drain") => NoFalseAlarm /\ BudgetForecast
  BY DEF NoFalseAlarm, BudgetForecast
<1>6. ~Judged("loss") => FitsIsPossible /\ AlikeIsExact /\ StrandedForAReason
  BY DEF FitsIsPossible, AlikeIsExact, StrandedForAReason
<1> QED BY <1>3, <1>4, <1>5, <1>6 DEF CapacityIsTold

(* For every list of nodes, of pods and of budgets: a drain whose pods can  *)
(* be placed is never said to lack room, and a budget is reported exactly  *)
(* when it would refuse some eviction, whatever their order; of the loss of *)
(* a node, "it fits" is said of nothing but pods that can be placed, first *)
(* fit misses no placement of pods that are alike, and what keeps a pod    *)
(* from a place is what it is said to be (src/nodeops.rs, `room_left`,     *)
(* `pdb_findings`, `assess`; src/capacity.rs, `simulate_loss`).            *)
THEOREM CapacityToldOfAll == ClusterSpec => []CapacityIsTold
<1>1. GoodCluster(cluster) /\ assessed = FALSE => CapacityInv
  BY DEF CapacityInv, Judged
<1>2. CapacityInv /\ [~assessed /\ assessed' = TRUE /\ CollectCluster /\ UNCHANGED cluster]_<<cluster, reasons, assessed>>
        => CapacityInv'
  <2> SUFFICES ASSUME CapacityInv,
                      [~assessed /\ assessed' = TRUE /\ CollectCluster /\ UNCHANGED cluster]_<<cluster, reasons, assessed>>
               PROVE  CapacityInv'
    OBVIOUS
  <2>1. CASE ~assessed /\ assessed' = TRUE /\ CollectCluster /\ UNCHANGED cluster
    BY <2>1, CapacityCollected
  <2>2. CASE UNCHANGED <<cluster, reasons, assessed>>
    <3>1. cluster' = cluster /\ reasons' = reasons /\ assessed' = assessed
      BY <2>2
    <3>2. Drained' = Drained /\ Lost' = Lost
      BY <3>1 DEF Drained, Rooms, Lost
    <3>3. GoodCluster(cluster')
      BY <3>1 DEF CapacityInv
    <3> QED BY <3>1, <3>2, <3>3 DEF CapacityInv, Judged, About
  <2> QED BY <2>1, <2>2
<1> QED BY <1>1, <1>2, CapacityTold, PTL DEF ClusterSpec
=============================================================================
