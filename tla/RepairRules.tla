----------------------------- MODULE RepairRules -----------------------------
(***************************************************************************)
(* What may be holding a Flux object back, and the moves against it        *)
(* (src/repair.rs: `classify`, `run_probe` and what it reads, `Blocker`,   *)
(* `Remedy`).  A controller's message is the set of phrases looked for in  *)
(* it; the cluster is what the probe reads of it.                          *)
(***************************************************************************)
EXTENDS Naturals, Sequences, SequencesExt

(* `classify`: the leads of a message, in this order.  A webhook that      *)
(* denied a request did answer.                                            *)
Phrases == <<"denied by webhook", "webhook unreachable", "another operation in progress",
             "retries exhausted", "dependency not ready", "no matches for kind",
             "immutable field", "being terminated">>

If(condition, b) == IF condition THEN <<b>> ELSE <<>>

Leads(message) ==
    IF "denied by webhook" \in message THEN message \ {"webhook unreachable"} ELSE message

Classify(message) ==
    FlattenSeq([i \in 1..Len(Phrases) |-> If(Phrases[i] \in Leads(message), Phrases[i])])

(* A finding: what it is, what it is about, whether it fails closed.       *)
Blocker(what, on) == [what |-> what, on |-> on, closed |-> FALSE]

(* `webhook_blockers`: each configuration once, on its worst dead webhook. *)
(* configs is a sequence of [name, hooks], hooks of [closed, dead].        *)
ConfigBlockers(c) ==
    LET dead == {h \in ToSet(c.hooks) : h.dead}
        closed == \E h \in dead : h.closed
    IN IF c.hooks = <<>> THEN <<Blocker("EmptyWebhookConfig", c.name)>>
       ELSE If(dead # {}, [Blocker("OrphanWebhook", c.name) EXCEPT !.closed = closed])

WebhookBlockers(configs) ==
    FlattenSeq([i \in 1..Len(configs) |-> ConfigBlockers(configs[i])])

(* `helm_pending_blocker`: the latest release decides, the first listed    *)
(* among equals.  releases is a sequence of [version, pending].            *)
LatestPending(releases) ==
    \E i \in DOMAIN releases :
      /\ \A j \in DOMAIN releases :
           IF j < i THEN releases[j].version < releases[i].version
           ELSE releases[j].version <= releases[i].version
      /\ releases[i].pending

(* `stuck_terminating`: being deleted, and something still holds it.       *)
Stuck(meta) == meta.deleting /\ meta.finalizers

(* What one lead comes to once the cluster was asked.                      *)
Confirmed(lead, name, c) ==
    CASE lead = "webhook unreachable" -> WebhookBlockers(c.configs)
      [] lead = "another operation in progress" ->
            If(LatestPending(c.releases), Blocker("HelmPending", name))
      [] lead = "retries exhausted" -> <<Blocker("RetriesExhausted", name)>>
      [] lead = "dependency not ready" -> <<Blocker("WaitingOnDependency", name)>>
      [] lead = "no matches for kind" -> <<Blocker("MissingKind", name)>>
      [] lead = "immutable field" -> <<Blocker("ImmutableField", name)>>
      [] lead = "denied by webhook" -> <<Blocker("AdmissionDenied", name)>>
      [] lead = "being terminated" ->
            If(Stuck(c.namespace), Blocker("StuckTerminating", c.namespace.name))

(* `Blocker::level`: 0 info, 1 warning, 2 danger.                          *)
Severity(b) ==
    CASE b.what \in {"StuckTerminating", "HelmPending"} -> 2
      [] b.what = "OrphanWebhook" -> IF b.closed THEN 2 ELSE 1
      [] b.what \in {"RetriesExhausted", "ImmutableField", "MissingKind"} -> 1
      [] OTHER -> 0

OfSeverity(s, n) == FlattenSeq([i \in 1..Len(s) |-> If(Severity(s[i]) = n, s[i])])

(* Most severe first, the rest as found.                                   *)
Ranked(s) == OfSeverity(s, 2) \o OfSeverity(s, 1) \o OfSeverity(s, 0)

(* `run_probe`: the object's own deletion, its leads, and the sweep when   *)
(* there is no lead at all, as found.                                      *)
RunProbe(leads, name, c) ==
    LET stuck == If(Stuck(c.object), Blocker("StuckTerminating", name))
        asked == FlattenSeq([i \in 1..Len(leads) |-> Confirmed(leads[i], name, c)])
        implicated == stuck \o asked
        sweep == IF leads = <<>> THEN WebhookBlockers(c.configs) ELSE <<>>
    IN [blockers |-> implicated \o sweep,
        swept |-> implicated = <<>> /\ sweep # <<>>]

(* The webhooks are read when they are a lead or nothing is; that read is  *)
(* the only one whose failure fails the probe.                             *)
ReadsWebhooks(message) ==
    LET leads == Classify(message)
    IN leads = <<>> \/ "webhook unreachable" \in ToSet(leads)

(* `Blocker::remedies`, `Remedy::level` and `confirm_target`.              *)
Remedies(b) ==
    CASE b.what \in {"OrphanWebhook", "EmptyWebhookConfig"} ->
            <<[move |-> "DeleteWebhookConfig", on |-> b.on]>>
      [] b.what = "StuckTerminating" -> <<[move |-> "RemoveFinalizers", on |-> b.on]>>
      [] b.what = "HelmPending" ->
            <<[move |-> "ResetFailures", on |-> b.on], [move |-> "ForceUpgrade", on |-> b.on]>>
      [] b.what = "RetriesExhausted" ->
            <<[move |-> "ResetFailures", on |-> b.on], [move |-> "SuspendResume", on |-> b.on]>>
      [] OTHER -> <<>>

IsDanger(r) == r.move \in {"DeleteWebhookConfig", "RemoveFinalizers"}

ConfirmTarget(r) == r.on

(* `repair_choices`: the moves on offer, in the order of the findings.     *)
MovesAgainst(blockers) ==
    FlattenSeq([i \in 1..Len(blockers) |-> Remedies(blockers[i])])
=============================================================================
