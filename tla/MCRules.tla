------------------------------ MODULE MCRules ------------------------------
(***************************************************************************)
(* The verdicts kdt computes from lists, on every cluster of bounded       *)
(* families, against reference definitions: in MCClusterRules what is said *)
(* of nodes, workloads and webhooks; in MCCertChains the rows of the trees  *)
(* of Flux and of certificates; and in the other MC...Rules, bytes and     *)
(* answers of a jump, backups, grants and mirrors.                         *)
(* Three cases run a machine instead: "feed" the events view, "analysis"   *)
(* the assistant and what is computed at length, "hooks" the hooks view.   *)
(***************************************************************************)
EXTENDS MCClusterRules, MCJumpRules, MCMedusaRules,
        MCRbacRules, MCCertChains, MCMirrorRules, EventFeed, Analysis

vars == <<cluster, reasons, assessed>>

mcWidths == <<2, 1>>   \* the check of the webhooks shows two steps at once
mcConfigurations == <<[kind |-> "mut", name |-> "c"], [kind |-> "val", name |-> "d"]>>
mcWebhooks ==
    mcConfigurations[1] :> <<[name |-> "a", closed |-> TRUE, service |-> "s"],
                             [name |-> "b", closed |-> TRUE, service |-> "s"]>>
    @@ mcConfigurations[2] :> <<[name |-> "e", closed |-> FALSE, service |-> OffCluster]>>
mcNsOf == [e \in Events |-> IF e = "e3" THEN "b" ELSE "a"]

Init == /\ \/ cluster \in RoomScenarios   \/ cluster \in BudgetScenarios \/ cluster \in LossScenarios
           \/ cluster \in SpreadScenarios \/ cluster \in TreeScenarios
           \/ cluster \in BytesScenarios  \/ cluster \in AnswerScenarios
           \/ cluster \in CronScenarios   \/ cluster \in BackupScenarios \/ cluster \in MedusaScenarios
           \/ cluster \in RuleScenarios   \/ cluster \in GraphScenarios
           \/ cluster \in CertScenarios   \/ cluster \in RoundScenarios
           \/ cluster \in MirrorScenarios \/ cluster \in WebhookScenarios
           \/ cluster \in {[about |-> "feed"], [about |-> "analysis"], [about |-> "hooks"]}
        /\ reasons = {}
        /\ assessed = FALSE
        /\ FeedInit /\ AnalysisInit /\ HookInit

Collect ==
    /\ ~assessed
    /\ assessed' = TRUE
    /\ \/ CollectCluster \/ CollectTree \/ CollectBytes \/ CollectAnswers \/ CollectCron
       \/ CollectBackups \/ CollectMedusa \/ CollectRbac \/ CollectCerts \/ CollectMirrors
    /\ UNCHANGED <<cluster, feedVars, analysisVars, hookVars>>

Feed == About("feed") /\ FeedNext /\ UNCHANGED <<vars, analysisVars, hookVars>>
Analyse == About("analysis") /\ AnalysisNext /\ UNCHANGED <<vars, feedVars, hookVars>>
Hook == About("hooks") /\ HookNext /\ UNCHANGED <<vars, feedVars, analysisVars>>

Spec == Init /\ [][Collect \/ Feed \/ Analyse \/ Hook]_<<vars, feedVars, analysisVars, hookVars>>

=============================================================================
