----------------------------- MODULE DeleteRules -----------------------------
(***************************************************************************)
(* What is worth a warning before an object is deleted (src/delete.rs:     *)
(* `assess` and what it calls).  A manifest is reduced to what the rules   *)
(* read: its kind, the stamps of the tools that deploy it, its phase, its  *)
(* owners, whether it lies in (or is) a system namespace, its finalizers.  *)
(***************************************************************************)
EXTENDS Naturals, Sequences

(* Labels and annotations the deploying tools leave.                       *)
Stamps == {"flux kustomization", "flux helm", "argo tracking", "argo instance", "helm release"}

RootKinds == {"Kustomization", "HelmRelease", "Application", "ApplicationSet"}
MedusaRuns == {"MedusaBackupJob", "MedusaRestoreJob", "MedusaTask"}

(* The tool that would put the object back: Flux before Argo before Helm.  *)
GitOpsOwner(m) ==
    CASE "flux kustomization" \in m.stamps -> "FluxKustomize"
      [] "flux helm" \in m.stamps /\ "flux kustomization" \notin m.stamps -> "FluxHelm"
      [] m.stamps \cap {"argo tracking", "argo instance"} # {}
            /\ m.stamps \cap {"flux kustomization", "flux helm"} = {} -> "Argo"
      [] m.stamps = {"helm release"} -> "Helm"
      [] OTHER -> "none"

IsGitOpsRoot(m) == m.kind \in RootKinds

(* The phases in which a Velero backup holds the one slot.                 *)
VeleroBackupRunning(m) ==
    m.phase \in {"InProgress", "WaitingForPluginOperations",
                 "WaitingForPluginOperationsPartiallyFailed", "Finalizing",
                 "FinalizingPartiallyFailed"}

MedusaInProgress(m) == m.phase = "nodes in progress"

(* The controller, or the first owner where none says it is one.  An owner *)
(* without kind or name names nobody.                                      *)
ControllerOwner(m) ==
    LET controllers == {i \in DOMAIN m.owners : m.owners[i].controller}
        first(S) == CHOOSE i \in S : \A j \in S : i <= j
        chosen == IF controllers # {} THEN m.owners[first(controllers)] ELSE m.owners[1]
    IN m.owners # <<>> /\ chosen.named

KindReasons(m) ==
    CASE m.kind = "Namespace" -> {"NamespaceCascade"}
      [] m.kind = "CustomResourceDefinition" -> {"CrdCascade"}
      [] m.kind = "Node" -> {"NodeDrain"}
      [] m.kind \in {"PersistentVolumeClaim", "PersistentVolume"} -> {"PersistentData"}
      [] m.kind = "velero Backup" ->
            {"VeleroBackup"} \cup {r \in {"VeleroBackupRunning"} : VeleroBackupRunning(m)}
      [] m.kind = "rancher Backup" -> {"RancherBackup"}
      [] m.kind = "KdtUser" -> {"KdtUserMembership"}
      [] m.kind \in {"CassandraDatacenter", "K8ssandraCluster"} -> {"CassandraData"}
      [] m.kind = "MedusaBackup" -> {"MedusaBackup"}
      [] m.kind \in MedusaRuns -> {r \in {"MedusaRunning"} : MedusaInProgress(m)}
      [] OTHER -> {}

(* `assess`: the findings, as a set.                                       *)
Assess(m) ==
    KindReasons(m)
      \cup {r \in {"GitOps"} : GitOpsOwner(m) # "none"}
      \cup {r \in {"GitOpsRoot"} : IsGitOpsRoot(m)}
      \cup {r \in {"OwnedBy"} : ControllerOwner(m)}
      \cup {r \in {"SystemNamespace"} : m.system}
      \cup {r \in {"Finalizers"} : m.finalizers}

(* `Reason::level`: 0 info, 1 warning, 2 danger.                           *)
Dangers == {"GitOps", "GitOpsRoot", "NamespaceCascade", "VeleroBackupRunning",
            "CassandraData", "CrdCascade"}
Infos == {"KdtUserMembership", "Finalizers"}

Level(r) == IF r \in Dangers THEN 2 ELSE IF r \in Infos THEN 0 ELSE 1

(* `needs_strict_confirm`, `strict_required`: checks that could not        *)
(* conclude count as a danger.                                             *)
StrictRequired(reasons, failed) == failed \/ \E r \in reasons : Level(r) = 2
=============================================================================
