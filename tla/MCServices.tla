----------------------------- MODULE MCServices -----------------------------
(***************************************************************************)
(* What the browser does with other programs and services, for TLC: the    *)
(* release pipeline, its download links and the browser's updates,         *)
(* Google's services, backups, the Control Center, the runs of the VS Code *)
(* extension and side apps.                                                *)
(* They share no variable with one another; each behaviour takes the steps *)
(* of one of them, which a property of one of them cannot tell from        *)
(* behaviours in which the others also take steps.                         *)
(***************************************************************************)
EXTENDS ReleasePipeline, Updates, GoogleOperations, AccountBackup, ControlCenter, ProjectRuns,
        SideApps, DownloadLinks, TLC

VARIABLE part   \* the component whose steps are followed

\* of each file, its bytes
FileSizes == [x \in Installers |-> IF x = "small" THEN 2 ELSE 3]

releaseVars == vars

serviceVars == <<releaseVars, updateVars, opVars, backupVars, linkVars, projectVars, sideVars,
                 downloadVars, part>>

(* Where a component starts in several ways, only its own behaviours do.   *)
ServicesInit ==
  /\ part \in {"release", "updates", "operations", "backup", "link", "projects", "side", "downloads"}
  /\ Init /\ UpdatesInit /\ OperationsInit /\ BackupInit /\ LinkInit /\ ProjectInit /\ SideInit
  /\ DownloadsInit
  /\ part # "projects" => \A p \in Projects : configured[p] = "v1"
  /\ part # "release" => \A b \in Builds : declared[b] = 1
  /\ \A b \in Builds : declared[b] < MaxVersion   \* so that each may be bumped once
  /\ part # "downloads" => environment = [ready |-> FALSE, ttl |-> None]

ServicesNext ==
  \/ /\ part = "release" /\ Next
     /\ UNCHANGED <<updateVars, opVars, backupVars, linkVars, projectVars, sideVars,
                    downloadVars, part>>
  \/ /\ part = "updates" /\ UpdatesNext
     /\ UNCHANGED <<releaseVars, opVars, backupVars, linkVars, projectVars, sideVars,
                    downloadVars, part>>
  \/ /\ part = "operations" /\ OperationsNext
     /\ UNCHANGED <<releaseVars, updateVars, backupVars, linkVars, projectVars, sideVars,
                    downloadVars, part>>
  \/ /\ part = "backup" /\ BackupNext
     /\ UNCHANGED <<releaseVars, updateVars, opVars, linkVars, projectVars, sideVars,
                    downloadVars, part>>
  \/ /\ part = "link" /\ LinkNext
     /\ UNCHANGED <<releaseVars, updateVars, opVars, backupVars, projectVars, sideVars,
                    downloadVars, part>>
  \/ /\ part = "projects" /\ ProjectNext
     /\ UNCHANGED <<releaseVars, updateVars, opVars, backupVars, linkVars, sideVars,
                    downloadVars, part>>
  \/ /\ part = "side" /\ SideNext
     /\ UNCHANGED <<releaseVars, updateVars, opVars, backupVars, linkVars, projectVars,
                    downloadVars, part>>
  \/ /\ part = "downloads" /\ DownloadsNext
     /\ UNCHANGED <<releaseVars, updateVars, opVars, backupVars, linkVars, projectVars,
                    sideVars, part>>

ServicesSymmetry == Permutations(AccountSpaces) \cup Permutations(Calls)

ServicesSpec == ServicesInit /\ [][ServicesNext]_serviceVars
=============================================================================
