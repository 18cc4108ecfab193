------------------------------ MODULE JumpPool ------------------------------
(***************************************************************************)
(* The sessions of one jump (src/jump.rs: `prepare`, `refill`, `stream`,   *)
(* `open`, `open_stream`, `relay`): terminals through a bastion, each one  *)
(* worth a single connection, a few of them opened in advance.             *)
(*                                                                         *)
(* A session owns one of the `max_sessions` slots from before it starts    *)
(* until it is dropped, so it is named by its slot.  The semaphore of the  *)
(* slots and the mutex of the first hop are fair: each is the queue of the *)
(* tasks at it, the head of the second one holding it.  The tasks are the  *)
(* window that prepares the jump, the connections the listener accepted    *)
(* and the openings `refill` spawned; only the first is ever dropped.      *)
(* What happens on the terminals is external: a step succeeds or fails.    *)
(***************************************************************************)
EXTENDS Integers, Sequences, FiniteSets, SequencesExt, FiniteSetsExt

CONSTANTS Slots,                    \* max_sessions of them
          Spare,                    \* sessions to keep in advance
          Windows, Conns, Refills   \* task slots, by kind

NoSlot == "no slot"

Tasks == Windows \cup Conns \cup Refills

ASSUME PoolAssumption ==
    /\ NoSlot \notin Slots
    /\ Spare \in Nat
    /\ Windows \cap Conns = {} /\ Windows \cap Refills = {} /\ Conns \cap Refills = {}

VARIABLES prepared,   \* the watch `prepare` sets
          spares,     \* the reserve, a stack
          dead,       \* the spares whose process has ended
          free,       \* the slots nobody owns
          opening,    \* the counter of openings under way
          atSlots,    \* the tasks waiting for a slot, in order
          atHop,      \* the tasks at the first hop's mutex, in order
          task        \* [pc, slot, kind, left] of every task: where it is, the
                      \* session it holds, what a connection's session is
                      \* (a spare, its own, the replacement of a spare), and
                      \* the openings still to spawn

vars == <<prepared, spares, dead, free, opening, atSlots, atHop, task>>

Idle == [pc |-> "idle", slot |-> NoSlot, kind |-> "none", left |-> 0]

Init ==
    /\ prepared = FALSE
    /\ spares = << >>
    /\ dead = {}
    /\ free = Slots
    /\ opening = 0
    /\ atSlots = << >>
    /\ atHop = << >>
    /\ task = [t \in Tasks |-> Idle]

Goes(t, r) == task' = [task EXCEPT ![t] = r]

(* Dropping sessions ends their processes and gives their slots back.      *)
Dropped(ss) == free' = free \cup ss

-----------------------------------------------------------------------------
(* The window: `prepare` *)

(* The places in the stack of the spares that live.                        *)
Live == {i \in DOMAIN spares : spares[i] \notin dead}

(* What is left of the stack, in its order, once the dead are dropped.     *)
Retained(kept) ==
    \E place \in Bijection(1..Cardinality(Live), Live) :
        /\ \A i, j \in DOMAIN place : i < j => place[i] < place[j]
        /\ kept = [i \in DOMAIN place |-> spares[place[i]]]

(* `has_live_spare` keeps the live spares and drops the others; one of     *)
(* them is enough.                                                         *)
Prepare(t) ==
    /\ task[t].pc = "idle"
    /\ Retained(spares')
    /\ Dropped(dead)
    /\ dead' = {}
    /\ IF spares' = << >> THEN Goes(t, [Idle EXCEPT !.pc = "account"]) ELSE UNCHANGED task
    /\ UNCHANGED <<prepared, opening, atSlots, atHop>>

(* The session goes to the reserve, the connections are let in, and        *)
(* `refill` follows.                                                       *)
Prepared(t) ==
    /\ task[t].pc = "opened"
    /\ spares' = Append(spares, task[t].slot)
    /\ prepared' = TRUE
    /\ Goes(t, [Idle EXCEPT !.pc = "count"])
    /\ UNCHANGED <<dead, free, opening, atSlots, atHop>>

(* What dropping an opening lets go of, wherever it is.                    *)
LetGo(t) ==
    /\ Dropped({task[t].slot} \ {NoSlot})
    /\ atSlots' = RemoveFirst(atSlots, t)
    /\ atHop' = RemoveFirst(atHop, t)

Opening(t) == task[t].pc \in {"account", "slot", "hop", "first", "later"}

(* Mutant of Abandon: the first hop's mutex stays locked.                  *)
AbandonKeepsHop(t) ==
    /\ Opening(t)
    /\ Dropped({task[t].slot} \ {NoSlot})
    /\ atSlots' = RemoveFirst(atSlots, t)
    /\ Goes(t, Idle)
    /\ UNCHANGED <<prepared, spares, dead, opening, atHop>>

(* The person closes the window: the future is dropped.                    *)
Abandon(t) ==
    /\ Opening(t)
    /\ LetGo(t)
    /\ Goes(t, Idle)
    /\ UNCHANGED <<prepared, spares, dead, opening>>

-----------------------------------------------------------------------------
(* Opening a session: `open` *)

(* The account is known; the slot is asked for.                            *)
AskSlot(t) ==
    /\ task[t].pc = "account"
    /\ atSlots' = Append(atSlots, t)
    /\ Goes(t, [task[t] EXCEPT !.pc = "slot"])
    /\ UNCHANGED <<prepared, spares, dead, free, opening, atHop>>

(* The slot is granted, the first hop's mutex asked for.                   *)
TakeSlot(t) ==
    /\ task[t].pc = "slot" /\ Head(atSlots) = t
    /\ \E s \in free :
         /\ free' = free \ {s}
         /\ Goes(t, [task[t] EXCEPT !.pc = "hop", !.slot = s])
    /\ atSlots' = Tail(atSlots)
    /\ atHop' = Append(atHop, t)
    /\ UNCHANGED <<prepared, spares, dead, opening>>

(* The first hop's command is started.                                     *)
StartHop(t) ==
    /\ task[t].pc = "hop" /\ Head(atHop) = t
    /\ Goes(t, [task[t] EXCEPT !.pc = "first"])
    /\ UNCHANGED <<prepared, spares, dead, free, opening, atSlots, atHop>>

(* Its shell listens: the mutex is let go, the next hops are typed.        *)
FirstHopReady(t) ==
    /\ task[t].pc = "first"
    /\ atHop' = Tail(atHop)
    /\ Goes(t, [task[t] EXCEPT !.pc = "later"])
    /\ UNCHANGED <<prepared, spares, dead, free, opening, atSlots>>

(* The last hop's shell listens.                                           *)
Opened(t) ==
    /\ task[t].pc = "later"
    /\ Goes(t, [task[t] EXCEPT !.pc = "opened"])
    /\ UNCHANGED <<prepared, spares, dead, free, opening, atSlots, atHop>>

(* A missing account, a hop that exits or stays mute, a question nobody is *)
(* there to answer.                                                        *)
OpenFails(t) ==
    /\ task[t].pc \in {"account", "first", "later"}
    /\ LetGo(t)
    /\ Goes(t, IF t \in Refills THEN [Idle EXCEPT !.pc = "failed"] ELSE Idle)
    /\ UNCHANGED <<prepared, spares, dead, opening>>

-----------------------------------------------------------------------------
(* Topping the reserve up: `refill` *)

(* Spares and openings are counted together, under the reserve's lock; the *)
(* window and a connection both come here.                                 *)
Count(t) ==
    /\ task[t].pc = "count"
    /\ Goes(t, [task[t] EXCEPT !.pc = "spawn", !.left = Max({0, Spare - Len(spares) - opening})])
    /\ UNCHANGED <<prepared, spares, dead, free, opening, atSlots, atHop>>

(* One turn of the loop.                                                   *)
Spawn(t, r) ==
    /\ task[t].pc = "spawn" /\ task[t].left > 0
    /\ task[r].pc = "idle"
    /\ opening' = opening + 1
    /\ task' = [task EXCEPT ![t].left = @ - 1, ![r] = [Idle EXCEPT !.pc = "account"]]
    /\ UNCHANGED <<prepared, spares, dead, free, atSlots, atHop>>

(* The loop is over: the window closes, a connection turns to its stream.  *)
Refilled(t) ==
    /\ task[t].pc = "spawn" /\ task[t].left = 0
    /\ Goes(t, IF t \in Windows THEN Idle ELSE [task[t] EXCEPT !.pc = "stream"])
    /\ UNCHANGED <<prepared, spares, dead, free, opening, atSlots, atHop>>

(* A spawned opening ended, well or not: it no longer counts...            *)
Uncount(t) ==
    /\ opening' = opening - 1
    /\ \/ task[t].pc = "opened" /\ Goes(t, [task[t] EXCEPT !.pc = "push"])
       \/ task[t].pc = "failed" /\ Goes(t, Idle)
    /\ UNCHANGED <<prepared, spares, dead, free, atSlots, atHop>>

(* ... and only then joins the reserve.                                    *)
Push(t) ==
    /\ task[t].pc = "push"
    /\ spares' = Append(spares, task[t].slot)
    /\ Goes(t, Idle)
    /\ UNCHANGED <<prepared, dead, free, opening, atSlots, atHop>>

(* The process behind a spare ends while it waits: an idle timeout.        *)
SpareDies(s) ==
    /\ s \in ToSet(spares) \ dead
    /\ dead' = dead \cup {s}
    /\ UNCHANGED <<prepared, spares, free, opening, atSlots, atHop, task>>

-----------------------------------------------------------------------------
(* A connection: `stream`, then `relay` *)

Accept(t) ==
    /\ task[t].pc = "idle"
    /\ Goes(t, [Idle EXCEPT !.pc = "waiting"])
    /\ UNCHANGED <<prepared, spares, dead, free, opening, atSlots, atHop>>

(* `take_spare`: popped until one is alive.                                *)
TakeSpare(t) ==
    /\ task[t].pc = "waiting" /\ prepared
    /\ \E i \in Live :
           LET popped == {spares[j] : j \in (i + 1)..Len(spares)} IN
           /\ \A j \in Live : j <= i
           /\ spares' = SubSeq(spares, 1, i - 1)
           /\ dead' = dead \ popped
           /\ Dropped(popped)
           /\ Goes(t, [Idle EXCEPT !.pc = "count", !.slot = spares[i], !.kind = "spare"])
    /\ UNCHANGED <<prepared, opening, atSlots, atHop>>

(* Or none is: a session of its own.                                       *)
NoSpare(t) ==
    /\ task[t].pc = "waiting" /\ prepared /\ Live = {}
    /\ spares' = << >>
    /\ dead' = {}
    /\ Dropped(dead)
    /\ Goes(t, [Idle EXCEPT !.pc = "account", !.kind = "own"])
    /\ UNCHANGED <<prepared, opening, atSlots, atHop>>

(* The session opened for this connection: the reserve first.              *)
OwnSession(t) ==
    /\ task[t].pc = "opened"
    /\ Goes(t, [task[t] EXCEPT !.pc = "count"])
    /\ UNCHANGED <<prepared, spares, dead, free, opening, atSlots, atHop>>

(* `open_stream` sees its marker: the relay starts.                        *)
Streams(t) ==
    /\ task[t].pc = "stream"
    /\ Goes(t, [task[t] EXCEPT !.pc = "relay"])
    /\ UNCHANGED <<prepared, spares, dead, free, opening, atSlots, atHop>>

(* Mutant of StreamFails: the session is not dropped.                      *)
StaleSpareKept(t) ==
    /\ task[t].pc = "stream"
    /\ Goes(t, IF task[t].kind # "spare" THEN Idle
               ELSE [Idle EXCEPT !.pc = "account", !.kind = "replacement"])
    /\ UNCHANGED <<prepared, spares, dead, free, opening, atSlots, atHop>>

(* It does not: a spare is given one fresh replacement, a session of its   *)
(* own is not.                                                             *)
StreamFails(t) ==
    /\ task[t].pc = "stream"
    /\ Dropped({task[t].slot})
    /\ Goes(t, IF task[t].kind # "spare" THEN Idle
               ELSE [Idle EXCEPT !.pc = "account", !.kind = "replacement"])
    /\ UNCHANGED <<prepared, spares, dead, opening, atSlots, atHop>>

(* Either end closes.                                                      *)
RelayEnds(t) ==
    /\ task[t].pc = "relay"
    /\ Dropped({task[t].slot})
    /\ Goes(t, Idle)
    /\ UNCHANGED <<prepared, spares, dead, opening, atSlots, atHop>>

-----------------------------------------------------------------------------
Opens(t) ==
    \/ AskSlot(t) \/ TakeSlot(t) \/ StartHop(t) \/ FirstHopReady(t) \/ Opened(t) \/ OpenFails(t)

Refill(t) == Count(t) \/ Refilled(t) \/ \E r \in Refills : Spawn(t, r)

WindowStep(t) == Opens(t) \/ Prepared(t) \/ Refill(t)

RefillStep(t) == Opens(t) \/ Uncount(t) \/ Push(t)

ConnStep(t) ==
    \/ TakeSpare(t) \/ NoSpare(t) \/ Opens(t) \/ OwnSession(t) \/ Refill(t)
    \/ Streams(t) \/ StreamFails(t)

Next ==
    \/ \E t \in Windows : Prepare(t) \/ Abandon(t) \/ WindowStep(t)
    \/ \E t \in Refills : RefillStep(t)
    \/ \E t \in Conns : Accept(t) \/ ConnStep(t) \/ RelayEnds(t)
    \/ \E s \in Slots : SpareDies(s)

Spec == Init /\ [][Next]_vars

(* A task that can move does: a wait on a terminal has a deadline, as long *)
(* as the terminal falls silent now and then (`SETTLE`), and the person    *)
(* answers the window or closes it.  Spawning never waits in the code: a   *)
(* task slot of the model that comes free again and again is used.         *)
Fairness ==
    /\ \A t \in Windows \cup Conns : SF_vars(\E r \in Refills : Spawn(t, r))
    /\ \A t \in Windows : WF_vars(WindowStep(t))
    /\ \A t \in Refills : WF_vars(RefillStep(t))
    /\ \A t \in Conns : WF_vars(ConnStep(t))

FairSpec == Spec /\ Fairness

(* ... and no connection lasts for ever.                                   *)
ClosingSpec == FairSpec /\ \A t \in Conns : WF_vars(RelayEnds(t))

-----------------------------------------------------------------------------
(* Properties *)

Held == {task[t].slot : t \in Tasks} \ {NoSlot}

TaskType ==
    [pc : {"idle", "account", "slot", "hop", "first", "later", "opened",
           "count", "spawn", "push", "failed", "waiting", "stream", "relay"},
     slot : Slots \cup {NoSlot}, kind : {"none", "spare", "own", "replacement"}, left : 0..Spare]

(* The tables keep their shape; a task is at the semaphore, or at the mutex *)
(* of the first hop, exactly while it waits there or holds it.             *)
TypeOK ==
    /\ prepared \in BOOLEAN
    /\ spares \in Seq(Slots)
    /\ dead \subseteq ToSet(spares)
    /\ free \subseteq Slots
    /\ opening \in Nat
    /\ atSlots \in Seq(Tasks)
    /\ atHop \in Seq(Tasks)
    /\ task \in [Tasks -> TaskType]
    /\ ToSet(atSlots) = {t \in Tasks : task[t].pc = "slot"}
    /\ ToSet(atHop) = {t \in Tasks : task[t].pc \in {"hop", "first"}}

(* No slot is lost and none is shared: whatever fails, dies or is abandoned *)
(* on the way, a slot is free, in the reserve, or a single task's.          *)
SlotsAccounted ==
    /\ IsInjective(spares)
    /\ \A t, u \in Tasks : (task[t].slot = task[u].slot /\ t # u) => task[t].slot = NoSlot
    /\ free \cap ToSet(spares) = {} /\ free \cap Held = {} /\ ToSet(spares) \cap Held = {}
    /\ free \cup ToSet(spares) \cup Held = Slots

(* `opening` is what `refill` believes is on its way: it counts the spawned *)
(* openings that have not ended, so that a failed one is tried again.      *)
OpeningCounts ==
    opening = Cardinality({t \in Refills : task[t].pc \notin {"idle", "push"}})

(* The first hop is started one at a time, a dropped window included (the  *)
(* comment on `first_hop`).                                                *)
OneFirstHop == \A t, u \in Tasks : (task[t].pc = "first" /\ task[u].pc = "first") => t = u

(* The pool is accounted for: its slots, its queues, its count of openings  *)
(* and the order of its first hops.                                        *)
PoolAccounted == TypeOK /\ SlotsAccounted /\ OpeningCounts /\ OneFirstHop

(* Once the jump is prepared, a connection is relayed or refused, whatever *)
(* fails or dies meanwhile; one thing alone may keep it waiting for ever, a *)
(* reserve that has come to own every slot.                                *)
InStream(t) == task[t].pc \notin {"idle", "relay"}
ConnectionsAnswered ==
    \A t \in Conns :
        <>prepared => ([]<>~InStream(t) \/ <>[](ToSet(spares) = Slots))

(* The comment on `stream`: a spare that went stale is given one fresh     *)
(* replacement.                                                            *)
(* It does not hold (README, "What the code does otherwise").              *)
Replacing(t) == task[t].kind = "replacement" /\ Opening(t)
StaleSpareReplaced == \A t \in Conns : Replacing(t) ~> ~Replacing(t)
=============================================================================
