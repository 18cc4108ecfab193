---------------------------- MODULE VeleroRules ----------------------------
(***************************************************************************)
(* What kdt says of a cluster's backups (src/velero.rs): the cron of a      *)
(* schedule evaluated as the controller does (`parse_cron`, `parse_field`, *)
(* `next_after`, `period`), then the findings on schedules and on the      *)
(* cluster (`analyse`).                                                    *)
(*                                                                         *)
(* Instants are seconds since the origin of the calendar, Monday           *)
(* 1 January 2024, UTC.  A cron is [every |-> seconds] or five fields, each *)
(* a set of parts [from, step]: `from` is no value (a star), one, or two.  *)
(* A schedule is [cron, paused, phase, last, skipped, created, ttl,        *)
(* included, excluded, location, snapshots, fsBackup, moveData], where a   *)
(* stamp or figure that may be absent is a set of no more than one, and a  *)
(* glob over namespaces the set of those it matches.  A backup is          *)
(* [schedule, phase, created, volumes].                                    *)
(***************************************************************************)
EXTENDS Naturals, Sequences, FiniteSets, FiniteSetsExt

Minute == 60
Hour == 3600
Day == 86400
OVERDUE_GRACE_SECS == 120

(* Fourteen months of the calendar (`chrono`), by the day each begins on;   *)
(* nothing fires past them.                                                *)
MonthStarts == <<0, 31, 60, 91, 121, 152, 182, 213, 244, 274, 305, 335, 366, 397, 425>>

Calendar ==
    LET inMonth(d) == Max({m \in 1..14 : MonthStarts[m] <= d})
    IN  [d \in 0..MonthStarts[15] - 1 |-> [month |-> ((inMonth(d) - 1) % 12) + 1,
                                          dom   |-> d - MonthStarts[inMonth(d)] + 1,
                                          dow   |-> (d + 1) % 7]]

-----------------------------------------------------------------------------
(* Cron *)

(* A value of a field; Sunday's other number is let through. *)
ValueOk(v, lo, hi) == (v >= lo /\ v <= hi) \/ (hi = 6 /\ v = 7)

PartRange(part, lo, hi) ==
    IF part.from = << >> THEN [lo |-> lo, hi |-> hi]
    ELSE IF Len(part.from) = 2 THEN [lo |-> part.from[1], hi |-> part.from[2]]
    ELSE [lo |-> part.from[1], hi |-> IF part.step > 1 THEN hi ELSE part.from[1]]

PartOk(part, lo, hi) ==
    LET r == PartRange(part, lo, hi)
    IN  /\ part.step > 0
        /\ \A i \in DOMAIN part.from : ValueOk(part.from[i], lo, hi)
        /\ r.lo <= r.hi /\ r.hi <= hi /\ r.lo >= lo

(* The values of a field, and whether it restricts nothing. *)
ParseField(field, lo, hi) ==
    [ok   |-> field # {} /\ \A part \in field : PartOk(part, lo, hi),
     mask |-> UNION {LET r == PartRange(part, lo, hi)
                     IN  {v \in r.lo..r.hi : (v - r.lo) % part.step = 0} : part \in field},
     star |-> \E part \in field : part.from = << >> /\ part.step = 1]

(* The parsed cron, or nothing for one the controller would refuse too. *)
ParseCron(cron) ==
    IF "every" \in DOMAIN cron THEN {cron}
    ELSE LET minutes == ParseField(cron.minutes, 0, 59)
             hours   == ParseField(cron.hours, 0, 23)
             doms    == ParseField(cron.doms, 1, 31)
             months  == ParseField(cron.months, 1, 12)
             dows    == ParseField(cron.dows, 0, 6)
             all     == {minutes, hours, doms, months, dows}
         IN  {c \in {[minutes |-> minutes.mask, hours |-> hours.mask, doms |-> doms.mask,
                      months |-> months.mask, dows |-> dows.mask,
                      domStar |-> doms.star, dowStar |-> dows.star]} : \A f \in all : f.ok}

(* Where both are restricted, either day field will do. *)
DayMatches(spec, day) ==
    LET dom == day.dom \in spec.doms
        dow == day.dow \in spec.dows
    IN  IF spec.domStar \/ spec.dowStar THEN dom /\ dow ELSE dom \/ dow

DayFires(spec, d) == Calendar[d].month \in spec.months /\ DayMatches(spec, Calendar[d])

(* The first firing from a minute on, the minutes counted from the origin:  *)
(* a day, an hour or a minute that does not match is skipped whole.        *)
FirstFrom(spec) ==
    LET from[m \in Nat] ==
          IF m \div 1440 \notin DOMAIN Calendar THEN {}
          ELSE IF ~DayFires(spec, m \div 1440) THEN from[(m \div 1440 + 1) * 1440]
          ELSE IF (m % 1440) \div 60 \notin spec.hours THEN from[(m \div 60 + 1) * 60]
          ELSE IF m % 60 \in spec.minutes THEN {m}
          ELSE from[m + 1]
    IN  from

(* The first firing strictly after `t`. *)
NextAfter(parsed, t) ==
    IF "every" \in DOMAIN parsed THEN {t + Max({parsed.every, 1})}
    ELSE {m * Minute : m \in FirstFrom(parsed)[t \div Minute + 1]}

(* How long one period lasts: the gap between two firings in a row. *)
Period(parsed, t) ==
    IF "every" \in DOMAIN parsed THEN {parsed.every}
    ELSE UNION {{b - a : b \in NextAfter(parsed, a)} : a \in NextAfter(parsed, t)}

-----------------------------------------------------------------------------
(* Findings *)

PartiallyFailed(b) == b.phase \in {"PartiallyFailed", "FinalizingPartiallyFailed"}
BackupFailed(b) == b.phase \in {"Failed", "FailedValidation"}
BackupRunning(b) == b.phase \in {"", "New", "Queued", "InProgress", "Finalizing"}
Usable(b) == b.phase = "Completed"

Tell(condition, finding) == IF condition THEN {finding} ELSE {}

(* Mutant of NextRun: a run that was skipped is waited for again. *)
NextRunUnskipped(s) ==
    UNION {NextAfter(c, Max(s.last \cup Tell(s.last = {}, s.created))) : c \in ParseCron(s.cron)}

(* The next run, from the last one (or the creation), or from a later skip.*)
NextRun(s) ==
    UNION {NextAfter(c, Max(s.last \cup Tell(s.last = {}, s.created) \cup s.skipped)) :
            c \in ParseCron(s.cron)}

(* An empty include list takes every namespace, and excludes win. *)
CoversNamespace(s, ns) ==
    /\ ns \notin UNION s.excluded
    /\ s.included = {} \/ ns \in UNION s.included

Mine(s, backups) == {b \in backups : b.schedule = s.name}
NewestOf(bs) == {b \in bs : \A c \in bs : c.created <= b.created}

(* What is said of the runs of a schedule. *)
RunFindings(s, mine, now) ==
    LET parsed == ParseCron(s.cron)
        period == UNION {Period(c, Max(s.last \cup Tell(s.last = {}, s.created))) : c \in parsed}
    IN  Tell(parsed = {}, "CronInvalid") \cup Tell(s.phase = "FailedValidation", "Invalid")
        \cup Tell(s.paused /\ mine = {}, "PausedEmpty") \cup Tell(s.paused /\ mine # {}, "Paused")
        \cup Tell(/\ ~s.paused /\ s.phase # "FailedValidation"
                /\ \E next \in NextRun(s) : now > next + OVERDUE_GRACE_SECS
                /\ ~\E b \in mine : BackupRunning(b), "Overdue")
        \cup Tell(/\ s.last = {} /\ ~s.paused /\ ~\E b \in mine : Usable(b)
                /\ \E p \in period : now > s.created + p, "NeverRan")
        \cup Tell(\E t \in s.ttl, p \in period : t < p, "TtlShort")
        \cup Tell(\E b \in NewestOf(mine) : PartiallyFailed(b) \/ BackupFailed(b), "LastFailed")

(* What is said of where it writes and of what it captures (the warning on  *)
(* names that exist nowhere and the remarks are left out).                 *)
ScopeFindings(s, mine, inv) ==
    LET known == {l.name : l \in inv.locations}
        coversData == \E nss \in inv.dataNamespaces : \E ns \in nss : CoversNamespace(s, ns)
        observed == \E b \in mine : b.volumes > 0
    IN  Tell(known # {} /\ ~s.location \subseteq known, "LocationMissing")
        \cup Tell(/\ s.location = {} /\ inv.locations # {}
                /\ ~\E l \in inv.locations : l.default, "NoDefaultLocation")
        \cup Tell(coversData /\ ~observed /\ s.snapshots = {FALSE} /\ ~s.fsBackup, "VolumesOff")
        \cup Tell(/\ coversData /\ ~observed /\ s.snapshots # {FALSE} /\ ~s.fsBackup
                /\ inv.snapshotClasses = {0} /\ inv.snapLocations = {} /\ ~s.moveData,
               "VolumesUnclear")
        \cup Tell(s.fsBackup /\ inv.nodeAgent \in {"absent", "down"}, "NodeAgentDown")

ScheduleFindings(s, inv, now) ==
    RunFindings(s, Mine(s, inv.backups), now) \cup ScopeFindings(s, Mine(s, inv.backups), inv)

(* The namespaces with a claim that no schedule takes in. *)
Uncovered(inv) ==
    UNION {{ns \in nss \ {inv.serverNamespace} :
                ~\E s \in inv.schedules : ~s.paused /\ CoversNamespace(s, ns)} :
            nss \in inv.dataNamespaces}

(* What is said of the cluster as a whole (the ages and the deletions that  *)
(* fail are left out).                                                     *)
ClusterFindings(inv) ==
    Tell(inv.server = "absent", "ServerAbsent") \cup Tell(inv.server = "down", "ServerDown")
    \cup Tell(inv.locations = {}, "NoLocation")
    \cup Tell(\E l \in inv.locations : ~l.available, "LocationUnavailable")
    \cup Tell(inv.schedules = {}, "NoSchedule")
    \cup Tell(inv.schedules # {} /\ \A s \in inv.schedules : s.paused, "AllPaused")
    \cup Tell(Uncovered(inv) # {}, "Uncovered")
    \cup Tell(/\ inv.backups # {}
            /\ ~\E b \in inv.backups : Usable(b) \/ PartiallyFailed(b), "NoUsableBackup")

(* Those that are a danger, and not a warning or a remark. *)
Dangers ==
    {"CronInvalid", "Invalid", "PausedEmpty", "Overdue", "TtlShort", "LastFailed",
     "LocationMissing", "VolumesOff", "NodeAgentDown", "ServerDown", "NoLocation",
     "LocationUnavailable", "NoSchedule", "AllPaused", "Uncovered", "NoUsableBackup"}
=============================================================================
