----------------------------- MODULE EventFeed -----------------------------
(***************************************************************************)
(* The events view (src/events.rs, src/nsscope.rs and `refresh_live_snap-  *)
(* shot` of src/ui.rs): one watch per namespace of the scope fills a ring  *)
(* buffer, and a table of what passes the filter and the query follows it  *)
(* at each turn of the event loop, with a cursor on the newest row or on   *)
(* the event it was put on.                                                *)
(*                                                                         *)
(* An event is its uid and the time it last happened at; an event that     *)
(* happens again keeps its uid.  A watch lists first, in no order, then    *)
(* tells what happens; after an error it lists again.  Every key is        *)
(* followed by the next turn of the loop, so `view` is always as drawn.    *)
(***************************************************************************)
EXTENDS Integers, FiniteSets, Sequences, SequencesExt

CONSTANTS
    Events,      \* uids
    Namespaces,
    NsOf,        \* the namespace of each event
    Errors,      \* the events the filter `x` keeps
    Queried,       \* the events the query typed by the user matches
    Capacity,    \* of the ring buffer
    MaxTime,     \* bound: how many times something happens
    Nobody, All

ASSUME FeedAssumption ==
    /\ NsOf \in [Events -> Namespaces] /\ Errors \subseteq Events /\ Queried \subseteq Events
    /\ Capacity \in Nat \ {0} /\ MaxTime \in Nat
    /\ IsFiniteSet(Events) /\ Nobody \notin Events /\ All \notin Namespaces
    /\ Nobody \notin Seq([uid : Events, time : Nat])

VARIABLES
    happened,  \* when each event last happened, 0 if it has not (the API server)
    clock,
    scope,     \* ns_scope
    watches,   \* what each watch of the scope has yet to hand over, or Nobody while it is down
    strays,    \* history: what a stopped watch left in the buffer of the next scope
    buffer,
    view,
    chosen     \* history: the event the user put the cursor on, Nobody for the newest

feedVars == <<happened, clock, scope, watches, strays, buffer, view, chosen>>

(* One watch for the whole cluster, or one per namespace. *)
Watched(s) == IF s = All THEN {All} ELSE s
Covers(w, e) == w = All \/ NsOf[e] = w
Toggled(s, n) == IF s = All THEN {n} ELSE IF n \in s THEN s \ {n} ELSE s \cup {n}

Record(e) == [uid |-> e, time |-> happened[e]]
OtherRow == [uid |-> Nobody, time |-> 0]   \* a row of another view

-----------------------------------------------------------------------------
(* The buffer without what it has of an event. *)
Without(b, uid) ==
    LET places == {i \in DOMAIN b : b[i].uid = uid}
    IN  IF places = {} THEN b ELSE RemoveAt(b, Max(places))

(* Mutant of Pushed: the oldest record makes room before the uid leaves. *)
PushedCramped(b, r) ==
    LET room == IF Len(b) >= Capacity THEN Tail(b) ELSE b
    IN  Append(Without(room, r.uid), r)

(* What the watch does with an event: its uid leaves its place, the oldest  *)
(* record makes room, the record goes last.                                *)
Pushed(b, r) ==
    LET rest == Without(b, r.uid)
        room == IF Len(rest) >= Capacity THEN Tail(rest) ELSE rest
    IN  Append(room, r)

Passes(v, r) == v.filter = All \/ r.uid \in Errors
Found(v, r) == v.search = Nobody \/ r.uid \in Queried
Matching(v, b) == {i \in DOMAIN b : Passes(v, b[i]) /\ Found(v, b[i])}

(* The records at those places of the buffer, by time, and in their order   *)
(* there where times are equal (`sort_by_key`).                            *)
Earlier(b, i, j) == b[i].time < b[j].time \/ (b[i].time = b[j].time /\ i < j)
Rank(b, places, i) == Cardinality({j \in places : Earlier(b, j, i)}) + 1
ByTime(b, places) ==
    [k \in 1..Cardinality(places) |-> b[CHOOSE i \in places : Rank(b, places, i) = k]]

(* Mutant of Refreshed: the cursor stays on its line, not on its event. *)
RefreshedInPlace(v, b) ==
    LET rows == ByTime(b, Matching(v, b))
    IN  IF rows = << >> THEN v
        ELSE [v EXCEPT !.rows = rows,
                       !.cursor = IF v.anchor = Nobody \/ v.cursor > Len(rows) THEN Len(rows) ELSE @]

(* The rows of the buffer, by time, and where the cursor goes among them. *)
Refreshed(v, b) ==
    LET rows == ByTime(b, Matching(v, b))
        at   == SelectInSeq(rows, LAMBDA r : r.uid = v.anchor)
    IN  IF rows = << >>
        THEN IF v.search = Nobody THEN v ELSE [v EXCEPT !.rows = << >>, !.cursor = 0]
        ELSE [v EXCEPT !.rows = rows,
                       !.cursor = IF at = 0 THEN Len(rows) ELSE at,
                       !.anchor = IF at = 0 THEN Nobody ELSE @]

(* A turn of the loop: the table is rebuilt unless it is frozen or hidden. *)
Drawn(v, b) == IF v.mode = "events" /\ ~v.frozen THEN Refreshed(v, b) ELSE v

Following(v) == [v EXCEPT !.mode = "events", !.frozen = FALSE, !.anchor = Nobody]
Blank(v) == [v EXCEPT !.rows = << >>, !.cursor = 0, !.anchor = Nobody]
Taken(v) == [v EXCEPT !.mode = "other", !.rows = <<OtherRow>>, !.cursor = 1, !.anchor = Nobody]

(* The choice outlives a turn as long as its event is there to be shown. *)
StillChosen(v, b) ==
    IF v.mode = "events" /\ ~v.frozen
       /\ Matching(v, b) # {} /\ \A i \in Matching(v, b) : b[i].uid # chosen
    THEN Nobody ELSE chosen

-----------------------------------------------------------------------------
FeedInit ==
    /\ happened = [e \in Events |-> 0] /\ clock = 0
    /\ scope = All /\ watches = [w \in {All} |-> Nobody]
    /\ strays = {} /\ buffer = << >>
    /\ view = [mode |-> "events", rows |-> << >>, cursor |-> 0, anchor |-> Nobody,
               frozen |-> FALSE, filter |-> All, search |-> Nobody]
    /\ chosen = Nobody

(* Something happens (again), and the watches that are up will tell. *)
Happens(e) ==
    /\ clock < MaxTime
    /\ clock' = clock + 1
    /\ happened' = [happened EXCEPT ![e] = clock']
    /\ watches' = [w \in DOMAIN watches |->
                     IF Covers(w, e) /\ watches[w] # Nobody
                     THEN Append(watches[w], [uid |-> e, time |-> clock']) ELSE watches[w]]
    /\ UNCHANGED <<scope, strays, buffer, view, chosen>>

(* A watch starts, or starts again: everything there is, in any order. *)
Lists(w) ==
    /\ w \in DOMAIN watches /\ watches[w] = Nobody
    /\ LET there == {Record(e) : e \in {f \in Events : Covers(w, f) /\ happened[f] > 0}}
       IN  \E q \in [1..Cardinality(there) -> there] :
              Range(q) = there /\ watches' = [watches EXCEPT ![w] = q]
    /\ UNCHANGED <<happened, clock, scope, strays, buffer, view, chosen>>

Breaks(w) ==
    /\ w \in DOMAIN watches /\ watches[w] # Nobody
    /\ watches' = [watches EXCEPT ![w] = Nobody]
    /\ UNCHANGED <<happened, clock, scope, strays, buffer, view, chosen>>

(* A watch hands over one event, and the next turn of the loop shows it. *)
Tells(w) ==
    /\ w \in DOMAIN watches /\ watches[w] \notin {Nobody, << >>}
    /\ buffer' = Pushed(buffer, Head(watches[w]))
    /\ watches' = [watches EXCEPT ![w] = Tail(@)]
    /\ view' = Drawn(view, buffer')
    /\ chosen' = StillChosen(view, buffer')
    /\ strays' = strays \ {Head(watches[w]).uid}
    /\ UNCHANGED <<happened, clock, scope>>

-----------------------------------------------------------------------------
Key(v, choice) ==
    /\ view' = Drawn(v, buffer)
    /\ chosen' = choice
    /\ UNCHANGED <<happened, clock, scope, watches, strays, buffer>>

(* Up and Down; a page is a longer one.  The last row means following. *)
MoveSelection(delta) ==
    /\ view.mode = "events" /\ view.rows # << >>
    /\ LET last == Len(view.rows)
           from == IF view.cursor = 0 THEN last ELSE view.cursor
           to   == IF from + delta < 1 THEN 1 ELSE IF from + delta > last THEN last ELSE from + delta
           uid  == IF to = last THEN Nobody ELSE view.rows[to].uid
       IN  Key([view EXCEPT !.cursor = to, !.anchor = uid], uid)

(* Bound: a filter or a query, not both. *)
OneAtATime(f, q) == f = All \/ q = Nobody

SetFilter(f) ==
    /\ view.mode = "events" /\ OneAtATime(f, view.search)
    /\ LET v == [view EXCEPT !.filter = f] IN Key(v, StillChosen(v, buffer))

(* A query is applied at once, frozen or not. *)
SetSearch(q) ==
    /\ view.mode = "events" /\ OneAtATime(view.filter, q)
    /\ LET v == [view EXCEPT !.search = q]
       IN  Key(Refreshed(v, buffer), StillChosen([v EXCEPT !.frozen = FALSE], buffer))

Freeze ==
    /\ view.mode = "events"
    /\ LET v == [view EXCEPT !.frozen = ~@] IN Key(v, StillChosen(v, buffer))

ResetToFollow == view.mode = "events" /\ Key(Following(view), Nobody)

(* Another view takes the table; Esc comes back from it to an empty one,    *)
(* `:events` to the rows that are there.                                   *)
EnterView ==
    /\ view.mode = "events"
    /\ Key(Taken(view), Nobody)

ExitView == view.mode = "other" /\ Key(Following(Blank(view)), Nobody)
RunEvents == Key(Following(view), Nobody)

(* A new scope: the buffer and the table are emptied, other watches start.  *)
(* The task of the old ones is told to stop; one that waits for the buffer *)
(* with an event in hand still pushes it.                                  *)
ApplyNamespace(s, v) ==
    /\ scope' = s
    /\ \/ buffer' = << >>
       \/ \E w \in DOMAIN watches :
             watches[w] \notin {Nobody, << >>} /\ buffer' = <<Head(watches[w])>>
    /\ strays' = {r.uid : r \in Range(buffer')}
    /\ watches' = [w \in Watched(s) |-> Nobody]
    /\ view' = Drawn([v EXCEPT !.frozen = FALSE], buffer')
    /\ chosen' = Nobody
    /\ UNCHANGED <<happened, clock>>

(* The keys that change the scope leave the view open, with its own rows.   *)
Reopened == IF view.mode = "events" THEN Blank(view) ELSE Taken(view)

(* `n`: the namespace of the row under the cursor. *)
FilterToSelected ==
    /\ view.mode = "events" /\ view.cursor > 0 /\ view.rows[view.cursor] # OtherRow
    /\ LET n == NsOf[view.rows[view.cursor].uid] IN scope # {n} /\ ApplyNamespace({n}, Reopened)

(* `N` on a row of another view, in the namespace `n`: never down to none. *)
ToggleNamespace(n) ==
    /\ view.mode = "other"
    /\ Toggled(scope, n) # {}
    /\ ApplyNamespace(Toggled(scope, n), Reopened)

ClearScope == scope # All /\ ApplyNamespace(All, Reopened)

(* `:events` with namespaces (those scopes the keys do not reach are enough). *)
RunEventsIn(s) == ApplyNamespace(s, Following(Blank(view)))

FeedNext ==
    \/ \E e \in Events : Happens(e)
    \/ \E w \in Namespaces \cup {All} : Lists(w) \/ Breaks(w) \/ Tells(w)
    \/ \E d \in {-1, 1} : MoveSelection(d)
    \/ \E f \in {All, "errors"} : SetFilter(f)
    \/ \E q \in {Nobody, "typed"} : SetSearch(q)
    \/ Freeze \/ ResetToFollow \/ EnterView \/ ExitView \/ RunEvents
    \/ FilterToSelected \/ ClearScope
    \/ \E n \in Namespaces : ToggleNamespace(n)
    \/ RunEventsIn(Namespaces)

FeedSpec == FeedInit /\ [][FeedNext]_feedVars

-----------------------------------------------------------------------------
(* Once a watch has nothing left to hand over, the buffer has every event   *)
(* of its namespace as it last happened, unless it is full of others, each *)
(* event once, whatever was told twice, in any order, or lost when the     *)
(* watch broke (`watch_into`); only what a stopped watch had in hand is    *)
(* otherwise.                                                              *)
FeedIsKept ==
    /\ Len(buffer) <= Capacity
    /\ \A i, j \in DOMAIN buffer : buffer[i].uid = buffer[j].uid => i = j
    /\ \A e \in Events \ strays :
          LET held == {i \in DOMAIN buffer : buffer[i].uid = e}
          IN  /\ (held # {} => \E w \in DOMAIN watches : Covers(w, e))
              /\ (\E w \in DOMAIN watches : Covers(w, e) /\ watches[w] = << >>) =>
                    /\ \A i \in held : buffer[i] = Record(e)
                    /\ (held = {} /\ happened[e] > 0) => Len(buffer) = Capacity

(* The cursor stays on the event the user put it on for as long as there   *)
(* is one to show, whatever arrives, moves, is dropped, filtered or        *)
(* searched for in the meantime, and is on the newest row otherwise; a row *)
(* is never there twice (`refresh_live_snapshot`, `move_selection`).       *)
CursorKeepsItsEvent ==
    (view.mode = "events" /\ Matching(view, buffer) # {}) =>
          /\ \A i \in DOMAIN view.rows :
                view.rows[i].uid = chosen => (view.cursor = i \/ view.rows[i] = OtherRow)
          /\ ~view.frozen =>
                IF chosen = Nobody
                THEN \A i \in Matching(view, buffer) : buffer[i].time <= view.rows[view.cursor].time
                ELSE \E i \in Matching(view, buffer) :
                              buffer[i].uid = chosen /\ buffer[i] = view.rows[view.cursor]
=============================================================================
