---------------------------- MODULE MedusaRules ----------------------------
(***************************************************************************)
(* What kdt makes of the backups of a Cassandra datacenter                 *)
(* (src/k8ssandra.rs): whether a run covered every node, whether a         *)
(* catalogue entry may be restored, what a schedule has produced, and the  *)
(* newest moment the cluster can be brought back to.                       *)
(*                                                                         *)
(* The outcome of a run is per node, so that a run may end, with a finish  *)
(* time, and have captured a part of the datacenter only.  A value that    *)
(* may be missing is a set of one or none.                                 *)
(***************************************************************************)
EXTENDS Integers, Sequences, FiniteSets, FiniteSetsExt

Said(condition, finding) == IF condition THEN {finding} ELSE {}

(* The name of a run is its schedule's and a number.  A name is a sequence  *)
(* of the parts that dashes separate.                                      *)
RunOf(schedule, job, Digits) ==
    /\ Len(job) = Len(schedule) + 1
    /\ SubSeq(job, 1, Len(schedule)) = schedule
    /\ job[Len(job)] \in Digits

(* How many nodes a run of the datacenter has to span: those wanted, or    *)
(* those that joined when they are more.                                   *)
Expected(dcs, name) ==
    {Max({d.size, Cardinality(d.joined)}) : d \in {e \in dcs : e.name = name}}

Going(j) == j.inProgress # {} \/ (j.finish = {} /\ j.start # {})

(* `MedJob::complete`: whole, not whole, or unknown where the datacenter    *)
(* is.                                                                     *)
Complete(j, dcs) ==
    IF j.failed # {} \/ Going(j) THEN {FALSE}
    ELSE {n > 0 /\ Cardinality(j.finished) >= n : n \in Expected(dcs, j.datacenter)}

Catalogued(j, backups) == \E b \in backups : b.name = j.name

JobFindings(j, inv) ==
    IF Going(j) THEN {"Running"}
    ELSE Said(j.failed # {} /\ j.finished = {}, "AllFailed")
         \cup Said(j.failed # {} /\ j.finished # {}, "Partial")
         \cup Said(Complete(j, inv.dcs) = {FALSE} /\ j.failed = {}, "Short")
         \cup Said(Complete(j, inv.dcs) = {TRUE} /\ ~Catalogued(j, inv.backups), "Uncatalogued")

(* The coverage of a catalogue entry: its own figures, or those of the run  *)
(* of its name.                                                            *)
BackupComplete(b, inv) ==
    IF b.total \notin {{}, {0}} /\ b.done # {}
    THEN {done >= total : done \in b.done, total \in b.total}
    ELSE UNION {Complete(j, inv.dcs) : j \in {k \in inv.jobs : k.name = b.name}}

BackupFindings(b, inv) ==
    Said(b.finish = {}, "Unfinished")
    \cup Said(BackupComplete(b, inv) = {FALSE}, "BackupPartial")
    \cup Said(BackupComplete(b, inv) = {}, "CoverageUnknown")

(* The rows that offer a restore. *)
RestorableJobs(inv) == {j \in inv.jobs : Complete(j, inv.dcs) = {TRUE}}
RestorableBackups(inv) == {b \in inv.backups : BackupComplete(b, inv) = {TRUE}}

RunsOf(s, inv) == {j \in inv.jobs : RunOf(s.name, j.name, inv.digits)}

(* The runs since the newest that did not fail. *)
Failures(runs, inv) ==
    {j \in runs : \A k \in runs :
        k.created >= j.created => ~Going(k) /\ Complete(k, inv.dcs) = {FALSE}}

MedusaScheduleFindings(s, inv, now) ==
    LET runs == RunsOf(s, inv)
    IN  Said(s.disabled, "Disabled")
        \cup (IF runs = {} THEN Said(s.last # {}, "NoRuns")
              ELSE Said(Failures(runs, inv) # {}, "AllFailing")
                   \cup Said(~s.disabled /\ \E next \in s.next : next < now, "Overdue"))

(* The newest moment that a whole capture was taken at. *)
LastRestorable(inv) ==
    LET ends == UNION ({IF j.finish # {} THEN j.finish ELSE {j.created} : j \in RestorableJobs(inv)}
                       \cup {b.finish : b \in RestorableBackups(inv)})
    IN  IF ends = {} THEN {} ELSE {Max(ends)}

Fired(inv) == UNION {s.last : s \in {t \in inv.schedules : ~t.disabled}}

(* What is said of the whole. *)
RestorableFindings(inv) ==
    IF inv.schedules = {} THEN {}
    ELSE Said(LastRestorable(inv) = {}, "NoRestorable")
         \cup Said(\E t \in LastRestorable(inv), last \in Fired(inv) : last > t, "Stale")
=============================================================================
