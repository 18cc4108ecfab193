--------------------------- MODULE MCMedusaRules ---------------------------
(***************************************************************************)
(* Cases for the backups of Cassandra: a datacenter that grows or is still *)
(* shrinking, two runs of a schedule of which either may have missed       *)
(* nodes, a run started by hand, an entry of the catalogue.  And what is   *)
(* said of copies as a whole, these and those of Velero.                   *)
(***************************************************************************)
EXTENDS MedusaRules, MCVeleroRules

Datacenters ==
    {{}} \cup {{[name |-> "dc", size |-> size, joined |-> joined]} :
                  size \in {2, 3}, joined \in {{"p1", "p2"}, {"p1", "p2", "p3"}}}

Job(part, at, finished, failed, going) ==
    [name |-> <<"daily", part>>, datacenter |-> "dc", created |-> at, start |-> {at},
     finish |-> IF going THEN {} ELSE {at + 5}, finished |-> finished, failed |-> failed,
     inProgress |-> IF going THEN {"p2"} ELSE {}]

Outcomes ==
    {o \in {{}, {"p1"}, {"p1", "p2"}, {"p1", "p2", "p3"}} \X {{}, {"p2"}} : o[1] \cap o[2] = {}}

Entries ==
    {{}} \cup {{[name |-> <<"daily", "1">>, total |-> f[1], done |-> f[2], finish |-> finish]} :
                  f \in {<<{}, {}>>, <<{2}, {2}>>, <<{3}, {2}>>}, finish \in {{}, {17}}}

MedusaScenarios ==
    {[about |-> "medusa", now |-> 50,
      inv |-> [dcs |-> dcs, digits |-> {"1", "2"}, backups |-> entries,
               jobs |-> {Job("1", 10, o1[1], o1[2], FALSE), Job("2", 20, o2[1], o2[2], going)}
                          \cup byHand,
               schedules |-> {[name |-> <<"daily">>, disabled |-> FALSE, last |-> {last},
                               next |-> {60}],
                              [name |-> <<"daily", "2">>, disabled |-> TRUE, last |-> {}, next |-> {}]}]] :
        dcs \in Datacenters, entries \in Entries, o1 \in Outcomes, o2 \in Outcomes,
        going \in BOOLEAN, byHand \in {{}, {Job("x", 22, {"p1", "p2"}, {}, FALSE)}},
        last \in {10, 20}}

(* Any case.  The nodes of a datacenter are numbered, and join and leave at *)
(* the end: those that a run finished on are the first ones, as those that *)
(* joined are (the code compares how many they are).  What has a name is   *)
(* alone to have it.                                                       *)
GoodMedusa(inv) ==
    /\ \A d \in inv.dcs : d.size \in Nat /\ IsFiniteSet(d.joined)
    /\ \A d, e \in inv.dcs : d.name = e.name => d = e
    /\ IsFiniteSet(inv.jobs) /\ IsFiniteSet(inv.backups)
    /\ \A j \in inv.jobs :
          /\ j.created \in Nat /\ OneOrNone(j.finish) /\ IsFiniteSet(j.finished)
          /\ \A d \in inv.dcs :
                d.name = j.datacenter => (d.joined \subseteq j.finished \/ j.finished \subseteq d.joined)
    /\ \A j, k \in inv.jobs : j.name = k.name => j = k
    /\ \A b \in inv.backups : OneOrNone(b.finish) /\ OneOrNone(b.total) /\ OneOrNone(b.done)
    /\ \A s \in inv.schedules : OneOrNone(s.last)

ASSUME CapturesAreGood == \A case \in MedusaScenarios : GoodMedusa(case.inv)

CapturesOf(case) ==
    LET inv == case.inv
    IN  [offered   |-> RestorableJobs(inv),
         entries   |-> RestorableBackups(inv),
         newest    |-> LastRestorable(inv),
         catalogue |-> [b \in inv.backups |-> BackupFindings(b, inv)],
         jobs      |-> [j \in inv.jobs |-> JobFindings(j, inv)],
         schedules |-> [s \in inv.schedules |-> MedusaScheduleFindings(s, inv, case.now)],
         whole     |-> RestorableFindings(inv)]

CollectMedusa == About("medusa") /\ reasons' = CapturesOf(cluster)

-----------------------------------------------------------------------------
(* Is the datacenter of a run known, and does the run have all of it?      *)
IsKnown(j) == \E d \in cluster.inv.dcs : d.name = j.datacenter
HasItAll(j) ==
    /\ j.failed = {} /\ j.inProgress = {}
    /\ \E d \in cluster.inv.dcs :
          /\ d.name = j.datacenter /\ d.joined \subseteq j.finished
          /\ Cardinality(j.finished) >= d.size

(* A restore is offered from a run only when each node of the datacenter is *)
(* in it, also while nodes are to leave that have not left; from an entry, *)
(* only when it has all that it says there are, or else goes by the run of *)
(* its name.                                                               *)
OfferedIsWhole ==
    Judged("medusa") =>
        /\ \A j \in reasons.offered : HasItAll(j)
        /\ \A b \in reasons.entries :
              \/ \E total \in b.total, done \in b.done : done >= total
              \/ \E j \in cluster.inv.jobs : j.name = b.name /\ HasItAll(j)

(* Something is said of a run that ended short of a node, and of an entry   *)
(* that was not finished or that no restore is offered from.               *)
ShortIsSaid ==
    Judged("medusa") =>
        /\ \A j \in cluster.inv.jobs : IsKnown(j) /\ ~HasItAll(j) => reasons.jobs[j] # {}
        /\ \A b \in cluster.inv.backups :
              reasons.catalogue[b] = {} => b.finish # {} /\ b \in reasons.entries

(* A schedule that fired and of which nothing is said has a last run that   *)
(* is still going, or has every node (or the nodes are not known): a fresh *)
(* `lastExecution` hides no failure.                                       *)
SilenceMeansCaptured ==
    Judged("medusa") =>
        \A s \in cluster.inv.schedules :
            (s.last # {} /\ reasons.schedules[s] = {}) =>
                \E j \in cluster.inv.jobs :
                    /\ RunOf(s.name, j.name, cluster.inv.digits)
                    /\ \A k \in cluster.inv.jobs :
                          RunOf(s.name, k.name, cluster.inv.digits) => k.created <= j.created
                    /\ Going(j) \/ HasItAll(j) \/ ~IsKnown(j)

(* The headline says nothing only if the cluster can be brought back to a   *)
(* moment after the last firing: a whole run or entry ended since (or was  *)
(* made since, where no end is known of it).                               *)
HeadlineIsTrue ==
    (Judged("medusa") /\ reasons.whole = {}) =>
        \A s \in cluster.inv.schedules : \A last \in s.last : ~s.disabled =>
            \E t \in reasons.newest :
                /\ t >= last
                /\ \/ \E j \in cluster.inv.jobs :
                         HasItAll(j) /\ (t \in j.finish \/ (j.finish = {} /\ t = j.created))
                   \/ \E b \in reasons.entries : t \in b.finish

CapturesAreJudged ==
    OfferedIsWhole /\ ShortIsSaid /\ SilenceMeansCaptured /\ HeadlineIsTrue

-----------------------------------------------------------------------------
(* The copies that can be counted on, Velero's and Medusa's, are told from  *)
(* those that cannot.                                                      *)
CopiesAreJudged == BackupsAreJudged /\ CapturesAreJudged

CopySpec ==
    /\ \/ GoodCopies(cluster)
       \/ About("medusa") /\ GoodMedusa(cluster.inv)
    /\ assessed = FALSE
    /\ [][/\ ~assessed /\ assessed' = TRUE /\ (CollectCron \/ CollectBackups \/ CollectMedusa)
          /\ UNCHANGED cluster]_<<cluster, reasons, assessed>>
=============================================================================
