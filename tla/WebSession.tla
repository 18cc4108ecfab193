----------------------------- MODULE WebSession -----------------------------
(***************************************************************************)
(* The sessions of kdt-web: the authorization flows that open them, the    *)
(* credential each one renews at the portal, and their closing             *)
(* (crates/web/src/session.rs, auth.rs, portal.rs, and `session_client` of *)
(* api.rs).                                                                *)
(*                                                                         *)
(* A request handler holds its session by reference (an Arc): a logout or  *)
(* another request changes nothing to what it holds.  The credential slot  *)
(* is behind a fair asynchronous mutex, modelled as the queue of the       *)
(* handlers waiting for it, its first member holding it.  A handler whose  *)
(* browser goes away is dropped wherever it is, and lets go of the mutex.  *)
(* The portal is external.                                                 *)
(***************************************************************************)
EXTENDS Naturals, Sequences, FiniteSets, SequencesExt

CONSTANTS Flows,        \* authorization states (random tokens, never reused)
          Sids,         \* session identifiers (likewise)
          Callbacks,    \* task slots: browsers back from the portal,
          Requests,     \* and requests that need a client
          MaxTime,      \* the clock's bound
          PendingTtl,   \* PENDING_TTL
          Margin,       \* RENEW_MARGIN
          CredentialLife, RightLife

NoFlow == "no flow"
NoSid  == "no session"

ASSUME SessionAssumption ==
    /\ NoFlow \notin Flows
    /\ NoSid \notin Sids
    /\ MaxTime \in Nat /\ MaxTime > 0 /\ PendingTtl \in Nat /\ Margin \in Nat /\ RightLife \in Nat
    /\ CredentialLife \in Nat /\ CredentialLife > Margin

VARIABLES now,      \* the wall clock
          pending,  \* the flows begun and not back yet
          begun,    \* when each flow began; its absence: not begun
          cb,       \* callback handlers: [pc, flow]
          open,     \* the identifiers the session table holds
          from,     \* the flow that opened each identifier's session,
          until,    \* the end of its right to renew,
          right,    \* that right, as the portal has it,
          credential, \* and the expiry of the credential in its slot
          queue,    \* per identifier: the handlers at the credential's mutex
          req,      \* request handlers: [pc, sid, clock, expires, answer]
          closing   \* the sessions whose right a logout is revoking

session == <<from, until, right, credential>>

vars == <<now, pending, begun, cb, open, from, until, right, credential, queue, req, closing>>

Times == 0..(MaxTime + CredentialLife + RightLife)

NoCredential == 0       \* an expiry no clock is before

IdleCallback == [pc |-> "idle", flow |-> NoFlow]
IdleRequest  == [pc |-> "idle", sid |-> NoSid, clock |-> 0, expires |-> 0, answer |-> "none"]

(* `Credential::usable`                                                    *)
Usable(expires, clock) == clock + Margin < expires

Init ==
    /\ now = 1
    /\ pending = {}
    /\ begun = [f \in Flows |-> 0]
    /\ cb = [c \in Callbacks |-> IdleCallback]
    /\ open = {}
    /\ from = [s \in Sids |-> NoFlow]
    /\ until = [s \in Sids |-> 0]
    /\ right = [s \in Sids |-> "none"]
    /\ credential = [s \in Sids |-> NoCredential]
    /\ queue = [s \in Sids |-> << >>]
    /\ req = [r \in Requests |-> IdleRequest]
    /\ closing = {}

-----------------------------------------------------------------------------
(* Opening a session *)

(* `pending.retain(..)`: the flows that may still come back.               *)
Retained == {f \in pending : now - begun[f] < PendingTtl}

(* `login`, with `Sessions::begin`                                         *)
Login(f) ==
    /\ begun[f] = 0
    /\ pending' = Retained \cup {f}
    /\ begun' = [begun EXCEPT ![f] = now]
    /\ UNCHANGED <<now, cb, open, session, queue, req, closing>>

(* Mutant of Return: the flow is read, not consumed.                       *)
ReturnKeepsFlow(c, f) ==
    /\ cb[c].pc = "idle" /\ begun[f] > 0
    /\ pending' = Retained
    /\ cb' = IF f \in Retained THEN [cb EXCEPT ![c] = [pc |-> "exchange", flow |-> f]] ELSE cb
    /\ UNCHANGED <<now, begun, open, session, queue, req, closing>>

(* `callback`, up to the exchange: the flow is consumed whatever follows.  *)
Return(c, f) ==
    /\ cb[c].pc = "idle" /\ begun[f] > 0
    /\ pending' = Retained \ {f}
    /\ cb' = IF f \in Retained THEN [cb EXCEPT ![c] = [pc |-> "exchange", flow |-> f]] ELSE cb
    /\ UNCHANGED <<now, begun, open, session, queue, req, closing>>

(* The portal gives a right of session, which opens one here.              *)
Exchanged(c, s) ==
    /\ cb[c].pc = "exchange" /\ from[s] = NoFlow
    /\ from' = [from EXCEPT ![s] = cb[c].flow]
    /\ until' = [until EXCEPT ![s] = now + RightLife]
    /\ right' = [right EXCEPT ![s] = "live"]
    /\ open' = open \cup {s}
    /\ cb' = [cb EXCEPT ![c] = IdleCallback]
    /\ UNCHANGED <<now, pending, begun, credential, queue, req, closing>>

(* The code is refused, the portal unreachable, its answer unusable, or    *)
(* the browser gone.                                                       *)
NotExchanged(c) ==
    /\ cb[c].pc = "exchange"
    /\ cb' = [cb EXCEPT ![c] = IdleCallback]
    /\ UNCHANGED <<now, pending, begun, open, session, queue, req, closing>>

-----------------------------------------------------------------------------
(* A request that needs a client: `session_client`, `Session::client` *)

Waiting(s) == ToSet(queue[s])

(* Leaving the mutex, from its head or from further down.                  *)
Left(r, s) == [queue EXCEPT ![s] = RemoveFirst(@, r)]

(* The handler ends with what it says to the browser.                      *)
Answered(r, a) == [req EXCEPT ![r] = [IdleRequest EXCEPT !.answer = a]]

(* `auth::current`, then the clock `client` reads before it waits.         *)
Arrive(r, s) ==
    /\ req[r].pc = "idle"
    /\ IF s \in open
       THEN req' = [req EXCEPT ![r] = [IdleRequest EXCEPT !.pc = "arrived", !.sid = s,
                                                           !.clock = now]]
       ELSE /\ from[s] # NoFlow
            /\ req' = Answered(r, "no session")
    /\ UNCHANGED <<now, pending, begun, cb, open, session, queue, closing>>

(* `self.credential.lock().await`                                          *)
Lock(r) ==
    /\ req[r].pc = "arrived"
    /\ queue' = [queue EXCEPT ![req[r].sid] = Append(@, r)]
    /\ req' = [req EXCEPT ![r].pc = "queued"]
    /\ UNCHANGED <<now, pending, begun, cb, open, session, closing>>

(* The mutex is ours.                                                      *)
Holds(r) == queue[req[r].sid] # << >> /\ Head(queue[req[r].sid]) = r

(* The slot holds a usable credential: its client is handed out.           *)
Reuse(r) ==
    /\ req[r].pc = "queued" /\ Holds(r)
    /\ Usable(credential[req[r].sid], req[r].clock)
    /\ req' = [req EXCEPT ![r] = [@ EXCEPT !.pc = "serving",
                                           !.expires = credential[req[r].sid]]]
    /\ queue' = Left(r, req[r].sid)
    /\ UNCHANGED <<now, pending, begun, cb, open, session, closing>>

(* It does not, and the right is over, by the clock read on arrival.       *)
RightOver(r) ==
    /\ req[r].pc = "queued" /\ Holds(r)
    /\ ~Usable(credential[req[r].sid], req[r].clock)
    /\ req[r].clock >= until[req[r].sid]
    /\ req' = Answered(r, "refused")
    /\ queue' = Left(r, req[r].sid)
    /\ UNCHANGED <<now, pending, begun, cb, open, session, closing>>

(* Mutants of StartRenewal: the mutex is not held, and the slot is not read *)
(* again once it is.                                                       *)
RenewUnlocked(r) ==
    /\ req[r].pc = "queued"
    /\ ~Usable(credential[req[r].sid], req[r].clock)
    /\ req[r].clock < until[req[r].sid]
    /\ req' = [req EXCEPT ![r].pc = "refresh"]
    /\ UNCHANGED <<now, pending, begun, cb, open, session, queue, closing>>

RenewUnread(r) ==
    /\ req[r].pc = "queued" /\ Holds(r)
    /\ req[r].clock < until[req[r].sid]
    /\ req' = [req EXCEPT ![r].pc = "refresh"]
    /\ UNCHANGED <<now, pending, begun, cb, open, session, queue, closing>>

(* It does not: the portal is asked, the mutex held.                       *)
StartRenewal(r) ==
    /\ req[r].pc = "queued" /\ Holds(r)
    /\ ~Usable(credential[req[r].sid], req[r].clock)
    /\ req[r].clock < until[req[r].sid]
    /\ req' = [req EXCEPT ![r].pc = "refresh"]
    /\ UNCHANGED <<now, pending, begun, cb, open, session, queue, closing>>

(* `portal.refresh`: the portal grants while the right lives.              *)
Refreshed(r) ==
    /\ req[r].pc = "refresh"
    /\ right[req[r].sid] = "live" /\ now < until[req[r].sid]
    /\ req' = [req EXCEPT ![r].pc = "mint"]
    /\ UNCHANGED <<now, pending, begun, cb, open, session, queue, closing>>

(* `build_credential`: the portal signs for CredentialLife from now on.    *)
Minted(r) ==
    /\ req[r].pc = "mint"
    /\ req' = [req EXCEPT ![r] = [@ EXCEPT !.pc = "store", !.expires = now + CredentialLife]]
    /\ UNCHANGED <<now, pending, begun, cb, open, session, queue, closing>>

(* The slot is filled, the mutex released and the client handed out.       *)
Store(r) ==
    /\ req[r].pc = "store"
    /\ credential' = [credential EXCEPT ![req[r].sid] = req[r].expires]
    /\ req' = [req EXCEPT ![r].pc = "serving"]
    /\ queue' = Left(r, req[r].sid)
    /\ UNCHANGED <<now, pending, begun, cb, open, from, until, right, closing>>

(* The portal refuses one of the two calls (a 4xx)...                      *)
PortalRefuses(r) ==
    /\ req[r].pc \in {"refresh", "mint"}
    /\ req' = Answered(r, "refused")
    /\ queue' = Left(r, req[r].sid)
    /\ UNCHANGED <<now, pending, begun, cb, open, session, closing>>

(* ... or does not answer, or answers something else.                      *)
PortalUnreachable(r) ==
    /\ req[r].pc \in {"refresh", "mint"}
    /\ req' = Answered(r, "unreachable")
    /\ queue' = Left(r, req[r].sid)
    /\ UNCHANGED <<now, pending, begun, cb, open, session, closing>>

(* The cluster has been asked with the client.                             *)
Serve(r) ==
    /\ req[r].pc = "serving"
    /\ req' = Answered(r, "served")
    /\ UNCHANGED <<now, pending, begun, cb, open, session, queue, closing>>

(* Mutant of Abandon: the mutex outlives the handler that held it.         *)
AbandonKeepsLock(r) ==
    /\ req[r].pc # "idle"
    /\ req' = [req EXCEPT ![r] = IdleRequest]
    /\ UNCHANGED <<now, pending, begun, cb, open, session, queue, closing>>

(* The browser went away: the handler is dropped, and its lock with it.    *)
Abandon(r) ==
    /\ req[r].pc # "idle"
    /\ req' = [req EXCEPT ![r] = IdleRequest]
    /\ queue' = Left(r, req[r].sid)
    /\ UNCHANGED <<now, pending, begun, cb, open, session, closing>>

(* What the browser reads in the answer: `expired` and `unauthenticated`   *)
(* both say to log in again.                                               *)
ToldToLogIn(r) == req[r].answer \in {"no session", "refused", "unreachable"}

-----------------------------------------------------------------------------
(* Closing a session *)

(* `logout`: out of the table first, then the portal.                      *)
Logout(s) ==
    /\ s \in open
    /\ open' = open \ {s}
    /\ closing' = closing \cup {s}
    /\ UNCHANGED <<now, pending, begun, cb, session, queue, req>>

(* `Session::close`: it lands or it is lost, and the logout goes on.       *)
Closed(s) ==
    /\ s \in closing
    /\ closing' = closing \ {s}
    /\ right' \in {right, [right EXCEPT ![s] = "revoked"]}
    /\ UNCHANGED <<now, pending, begun, cb, open, from, until, credential, queue, req>>

(* The account is disabled, or the right revoked from elsewhere.           *)
Revoked(s) ==
    /\ right[s] = "live"
    /\ right' = [right EXCEPT ![s] = "revoked"]
    /\ UNCHANGED <<now, pending, begun, cb, open, from, until, credential, queue, req, closing>>

(* Nothing is kept on disk: a restarted server knows no flow, no session.  *)
Restart ==
    /\ open # {} \/ pending # {}
    /\ open' = {} /\ pending' = {} /\ closing' = {}
    /\ cb' = [c \in Callbacks |-> IdleCallback]
    /\ req' = [r \in Requests |-> IdleRequest]
    /\ queue' = [s \in Sids |-> << >>]
    /\ UNCHANGED <<now, begun, session>>

Tick ==
    /\ now < MaxTime
    /\ now' = now + 1
    /\ UNCHANGED <<pending, begun, cb, open, session, queue, req, closing>>

-----------------------------------------------------------------------------
CallbackStep(c) == NotExchanged(c) \/ \E s \in Sids : Exchanged(c, s)

(* What a handler does by itself once the runtime runs it...               *)
LocalStep(r) ==
    Lock(r) \/ Reuse(r) \/ RightOver(r) \/ StartRenewal(r) \/ Store(r) \/ Serve(r)

(* ... and what a call to the portal brings back.                          *)
PortalAnswers(r) ==
    Refreshed(r) \/ Minted(r) \/ PortalRefuses(r) \/ PortalUnreachable(r)

Next ==
    \/ \E f \in Flows : Login(f) \/ \E c \in Callbacks : Return(c, f)
    \/ \E c \in Callbacks : CallbackStep(c)
    \/ \E r \in Requests : LocalStep(r) \/ PortalAnswers(r) \/ Abandon(r)
    \/ \E r \in Requests, s \in Sids : Arrive(r, s)
    \/ \E s \in Sids : Logout(s) \/ Closed(s) \/ Revoked(s)
    \/ Restart \/ Tick

Spec == Init /\ [][Next]_vars

(* The runtime runs every handler and the mutex is fair.  That a call to    *)
(* the portal ends is asked of the portal and of the network: the client   *)
(* that makes it sets no timeout.                                          *)
FairSpec ==
    Spec /\ \A r \in Requests : WF_vars(LocalStep(r)) /\ WF_vars(PortalAnswers(r))

-----------------------------------------------------------------------------
(* Properties *)

Renewing(r) == req[r].pc \in {"refresh", "mint", "store"}

RequestType ==
    [pc : {"idle", "arrived", "queued", "refresh", "mint", "store", "serving"},
     sid : Sids \cup {NoSid}, clock : Times, expires : Times,
     answer : {"none", "no session", "refused", "unreachable", "served"}]

(* The tables keep their shape; a handler is at the mutex of its session,  *)
(* once, exactly while it waits for it or holds it.                        *)
TypeOK ==
    /\ now \in 1..MaxTime
    /\ pending \subseteq Flows
    /\ begun \in [Flows -> Times]
    /\ cb \in [Callbacks -> [pc : {"idle", "exchange"}, flow : Flows \cup {NoFlow}]]
    /\ open \subseteq Sids
    /\ from \in [Sids -> Flows \cup {NoFlow}]
    /\ until \in [Sids -> Times]
    /\ right \in [Sids -> {"none", "live", "revoked"}]
    /\ credential \in [Sids -> Times]
    /\ req \in [Requests -> RequestType]
    /\ closing \subseteq Sids
    /\ queue \in [Sids -> Seq(Requests)]
    /\ \A s \in Sids : /\ IsInjective(queue[s])
                       /\ Waiting(s) = {r \in Requests : req[r].sid = s
                                                  /\ (req[r].pc = "queued" \/ Renewing(r))}

(* One renewal at a time per session: of two simultaneous requests, the    *)
(* second waits (the comment on `Session::credential`).                    *)
OneRenewal ==
    \A r, q \in Requests :
        (Renewing(r) /\ Renewing(q) /\ req[r].sid = req[q].sid) => r = q

(* ... and then reuses what the first obtained: however many requests wait *)
(* at the mutex, a renewal starts only when the slot has nothing usable.   *)
RenewalNeeded ==
    [][\A r \in Requests :
         (req[r].pc = "queued" /\ req'[r].pc = "refresh") =>
             ~Usable(credential[req[r].sid], now)]_vars

(* A session's credential is never replaced by one that expires sooner,    *)
(* whatever handlers are dropped on the way.                               *)
CredentialNeverGoesBack ==
    [][\A s \in Sids : credential[s] <= credential'[s]]_vars

(* A flow opens one session at most, however often its return is replayed, *)
(* across restarts included (`take_pending` consumes it).                  *)
OneSessionPerFlow ==
    \A s, t \in Sids : (from[s] = from[t] /\ from[s] # NoFlow) => s = t

(* Every request is answered, whatever happens to those before it at the   *)
(* mutex: refused, unreachable portal, or a browser gone in mid-renewal.   *)
EveryRequestEnds == \A r \in Requests : (req[r].pc # "idle") ~> (req[r].pc = "idle")

(* A session's mutex does its work: who waits is in its queue, and one     *)
(* renews.                                                                 *)
RenewedByOne == TypeOK /\ OneRenewal

(* Renewals come one after the other, each for a reason and none for       *)
(* nothing.                                                                *)
RenewalsInOrder == RenewalNeeded /\ CredentialNeverGoesBack

(* The comment on RENEW_MARGIN: a credential is renewed early enough not   *)
(* to expire in the middle of a request.  So a client is never handed out  *)
(* with a credential that is already expired.                              *)
(* It does not hold (README, "What the code does otherwise").              *)
HandedOutUsable ==
    [][\A r \in Requests :
         (req[r].pc = "queued" /\ req'[r].pc = "serving") => now < req'[r].expires]_vars

(* The comment on PortalError: only a refused identity leads back to an    *)
(* authorization, an unreachable portal is a failure of another kind.      *)
(* It does not hold (README, "What the code does otherwise").              *)
LogInOnlyWhenRefused ==
    \A r \in Requests : ToldToLogIn(r) => req[r].answer \in {"no session", "refused"}
=============================================================================
