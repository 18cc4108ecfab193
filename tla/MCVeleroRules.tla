--------------------------- MODULE MCVeleroRules ---------------------------
(***************************************************************************)
(* Cases for the backups: crons against the instants they match, around    *)
(* the ends of months, years and a leap day; schedules, their runs and     *)
(* what they cover.                                                        *)
(***************************************************************************)
EXTENDS VeleroRules, MCState

Star == {[from |-> << >>, step |-> 1]}
Step(n) == {[from |-> << >>, step |-> n]}
At(v) == {[from |-> <<v>>, step |-> 1]}
Between(a, b) == {[from |-> <<a, b>>, step |-> 1]}
From(a, n) == {[from |-> <<a>>, step |-> n]}

Cron(minutes, hours, doms, months, dows) ==
    [minutes |-> minutes, hours |-> hours, doms |-> doms, months |-> months, dows |-> dows]

Daily == Cron(At(0), At(2), Star, Star, Star)
Weekly == Cron(At(0), At(2), Star, Star, At(0))
Weekdays == Cron(At(30), Between(10, 12), Star, Star, Between(1, 5))
Refused == Cron(At(0), At(24), Star, Star, Star)

Crons ==
    {Daily, Weekdays, Cron(Step(15), Star, Star, Star, Star),
     Cron(At(0), At(0), At(1), Star, At(1)), Cron(At(0), At(0), At(31), Star, Star),
     Cron(At(0), At(0), At(29), At(2), Star), Cron(From(5, 20), At(3) \cup At(22), Star, Star, At(0)),
     Cron(At(0), At(0), Step(2), Star, At(1)), Cron(At(59), At(23), At(31), At(12), Star),
     Cron(At(0), At(0), At(30), At(2), Star), Refused}

CronScenarios ==
    {[about |-> "cron", cron |-> cron, from |-> d * Day + t] :
        cron \in Crons, d \in {0, 57, 58, 59, 120, 364, 365},
        t \in {0, 2 * Hour + 29 * Minute, 10 * Hour + 37 * Minute + 30, Day - 1}}

Origin == 380 * Day + 600

Schedule(name, cron, paused, last, skipped, ttl, included, excluded, fsBackup) ==
    [name |-> name, cron |-> cron, paused |-> paused, phase |-> "Enabled", last |-> last,
     skipped |-> skipped, created |-> Origin, ttl |-> ttl, included |-> included,
     excluded |-> excluded, location |-> {"default"}, snapshots |-> {FALSE}, fsBackup |-> fsBackup,
     moveData |-> FALSE]

Inventory(schedules, backups, nss) ==
    [schedules |-> schedules, backups |-> backups, dataNamespaces |-> nss,
     serverNamespace |-> "velero", server |-> "running", nodeAgent |-> "running",
     snapshotClasses |-> {1}, snapLocations |-> {},
     locations |-> {[name |-> "default", default |-> TRUE, available |-> TRUE]}]

(* What is included, what is excluded, and is it copied file by file? *)
Coverage ==
    {<<{}, {}, TRUE>>, <<{}, {{"prod"}}, TRUE>>, <<{{"prod"}}, {}, FALSE>>, <<{{"prod"}}, {}, TRUE>>,
     <<{{"web"}}, {}, FALSE>>, <<{{"prod"}}, {{"prod"}}, TRUE>>}

BackupScenarios ==
    {[about |-> "backups", now |-> Origin + 9 * Day + later,
      inv |-> Inventory({Schedule("s1", cron, paused, last, skipped, ttl,
                                  cover[1], cover[2], cover[3]),
                         Schedule("s2", Weekly, FALSE, {Origin + 6 * Day}, {}, {}, {{"data"}}, {}, TRUE)},
                        {[schedule |-> "s1", phase |-> phase, created |-> Origin + Day, volumes |-> 0],
                         [schedule |-> "s2", phase |-> "Completed", created |-> Origin, volumes |-> 1]},
                        nss)] :
        cron \in {Daily, Weekly, Weekdays, Refused, [every |-> 5400]}, paused \in BOOLEAN,
        last \in {{}, {Origin + 8 * Day}}, skipped \in {{}, {Origin + 9 * Day}},
        ttl \in {{}, {Day \div 2}, {2 * Day}}, cover \in Coverage, phase \in {"Completed", "InProgress", "Failed"},
        nss \in {{{"prod", "data", "velero"}}}, later \in {0, Day - 10 * Minute}}

(* Any case: a delay lasts; a figure that may be absent is one or none.    *)
GoodField(field) == \A part \in field : part.from \in Seq(Nat) /\ part.step \in Nat

GoodCron(cron) ==
    IF "every" \in DOMAIN cron THEN cron.every \in Nat \ {0}
    ELSE \A f \in {"minutes", "hours", "doms", "months", "dows"} : GoodField(cron[f])

OneOrNone(set) == set \subseteq Nat /\ \A a, b \in set : a = b

GoodCopies(case) ==
    \/ /\ case.about = "cron" /\ case.from \in Nat
       /\ GoodCron(case.cron) /\ "every" \notin DOMAIN case.cron
    \/ /\ case.about = "backups" /\ case.now \in Nat
       /\ \A s \in case.inv.schedules :
             /\ GoodCron(s.cron) /\ s.created \in Nat
             /\ OneOrNone(s.last) /\ OneOrNone(s.skipped) /\ OneOrNone(s.ttl)

ASSUME CopiesAreGood == \A case \in CronScenarios \cup BackupScenarios : GoodCopies(case)

NextRunsOf(case) == {[parsed |-> c, next |-> NextAfter(c, case.from)] : c \in ParseCron(case.cron)}

FindingsOf(case) ==
    [schedules |-> [s \in case.inv.schedules |-> ScheduleFindings(s, case.inv, case.now)],
     whole     |-> ClusterFindings(case.inv)]

CollectCron == About("cron") /\ reasons' = NextRunsOf(cluster)
CollectBackups == About("backups") /\ reasons' = FindingsOf(cluster)

-----------------------------------------------------------------------------
(* The instants of a day at which a parsed cron fires. *)
FiringsOf(spec, d) ==
    IF d \in DOMAIN Calendar /\ DayFires(spec, d)
    THEN {d * Day + h * Hour + m * Minute : h \in spec.hours, m \in spec.minutes} ELSE {}

(* Did the cron fire strictly between the two?  (A fixed delay is counted   *)
(* from `a`.)                                                              *)
FiresBetween(parsed, a, b) ==
    IF "every" \in DOMAIN parsed THEN a + parsed.every < b
    ELSE \E d \in (a \div Day)..(b \div Day) : \E t \in FiringsOf(parsed, d) : a < t /\ t < b

(* The first firing after an instant is one, nothing fires before it,       *)
(* across the ends of months and years and a leap day, and there is none   *)
(* only where nothing matches to the end of the calendar (`next_after`).   *)
NextIsTheFirst ==
    Judged("cron") =>
        \A r \in reasons :
            /\ r.next = {} => ~FiresBetween(r.parsed, cluster.from, MonthStarts[15] * Day)
            /\ \A t \in r.next :
                  /\ t \in FiringsOf(r.parsed, t \div Day) /\ cluster.from < t
                  /\ ~FiresBetween(r.parsed, cluster.from, t)

Since(s) == Max((IF s.last = {} THEN {s.created} ELSE s.last) \cup s.skipped)
Missed(s, now) ==
    \E c \in ParseCron(s.cron) : FiresBetween(c, Since(s), now - OVERDUE_GRACE_SECS)
Busy(s) == \E b \in cluster.inv.backups : b.schedule = s.name /\ BackupRunning(b)

(* A schedule is said to be overdue exactly when it fired since its last    *)
(* run or skip, runs (it is not paused, and the controller accepts it),    *)
(* and no backup of its own is still being made.                           *)
OverdueIsMissed ==
    Judged("backups") =>
        \A s \in cluster.inv.schedules :
            "Overdue" \in reasons.schedules[s]
                <=> (/\ ~s.paused /\ s.phase # "FailedValidation"
                     /\ Missed(s, cluster.now) /\ ~Busy(s))

(* The firings after an instant that another one follows (a fixed delay is  *)
(* counted from there), and those from which nothing fires before the      *)
(* backup made then is gone.                                               *)
Followed(parsed, a) ==
    LET firings == UNION {FiringsOf(parsed, d) : d \in {e \in DOMAIN Calendar : e >= a \div Day}}
    IN  IF "every" \in DOMAIN parsed THEN {a}
        ELSE {t \in firings : a < t /\ \E u \in firings : t < u}

Gaps(parsed, a, ttl) == {t \in Followed(parsed, a) : ~FiresBetween(parsed, t, t + ttl + 1)}
LastRun(s) == Max(IF s.last = {} THEN {s.created} ELSE s.last)

(* "The retention leaves a window with nothing in it" is true of some run   *)
(* to come of the schedule, and said where it is true of all of them.      *)
TtlHintIsTrue ==
    Judged("backups") =>
        \A s \in cluster.inv.schedules : \A c \in ParseCron(s.cron), ttl \in s.ttl :
            LET gaps == Gaps(c, LastRun(s), ttl)
            IN  /\ "TtlShort" \in reasons.schedules[s] => gaps # {}
                /\ (gaps # {} /\ gaps = Followed(c, LastRun(s)))
                      => "TtlShort" \in reasons.schedules[s]

(* Where no danger is reported, each namespace that holds data is taken in  *)
(* by a schedule that runs: not paused, one the controller accepts, which  *)
(* missed nothing unless a backup of its own is still going.               *)
SilenceMeansProtected ==
    (/\ Judged("backups")
     /\ Dangers \cap (reasons.whole \cup UNION {reasons.schedules[s] : s \in cluster.inv.schedules}) = {})
        => \A nss \in cluster.inv.dataNamespaces :
           \A ns \in nss \ {cluster.inv.serverNamespace} : \E s \in cluster.inv.schedules :
              /\ ~s.paused /\ s.phase # "FailedValidation" /\ ParseCron(s.cron) # {}
              /\ ns \notin UNION s.excluded /\ (s.included = {} \/ ns \in UNION s.included)
              /\ Busy(s) \/ ~Missed(s, cluster.now)

(* What a schedule is said to have missed, to leave uncovered, or to do    *)
(* next is what its cron and its backups imply.                            *)
BackupsAreJudged ==
    NextIsTheFirst /\ OverdueIsMissed /\ TtlHintIsTrue /\ SilenceMeansProtected
=============================================================================
