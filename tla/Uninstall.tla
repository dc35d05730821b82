------------------------------ MODULE Uninstall ------------------------------
(***************************************************************************)
(* uninstall (src/installer/uninstall.ts): stop the edge, remove setup's   *)
(* bundle, rename the recorded paths aside, reload systemd, and only then  *)
(* delete.  A failure before the deletion puts everything back.            *)
(***************************************************************************)
EXTENDS Installation

\* prepareUninstall(), then the word or the flag that authorises it.
PrepareUninstall ==
  /\ MayRun /\ Readable /\ ~output
  /\ cli' = [Begun("uninstall", "authorize") EXCEPT !.saved = record]
  /\ UNCHANGED <<output, disk, guest, record, bundle, services, cred>>

AuthorizeUninstall ==
  /\ At("authorize")
  /\ GoTo("disable") \/ End("refused")
  /\ UNCHANGED <<output, disk, guest, record, bundle, services, cred>>

Disable ==
  /\ At("disable")
  /\ \/ edge' = FALSE /\ GoTo("remove-package")
     \/ edge' \in {edge, FALSE} /\ FailTo("restore")
  /\ UNCHANGED <<output, disk, guest, record, bundle, dsh, loaded, cred>>

RemovePackage ==
  /\ At("remove-package")
  /\ IF cli.saved.package
       THEN LET tried == [cli EXCEPT !.tried = {"package"}]
            IN  \/ bundle' = "none" /\ cli' = [tried EXCEPT !.at = "stage"]
                \/ /\ MayFail /\ bundle' \in {bundle, "none"}
                   /\ cli' = [tried EXCEPT !.at = "restore", !.faults = @ + 1]
       ELSE UNCHANGED bundle /\ GoTo("stage")
  /\ UNCHANGED <<output, disk, guest, record, services, cred>>

(***************************************************************************)
(* stageRemoval(): the recorded paths that do not lie in another of them,  *)
(* one rename each, in the order they were made.  What is aside is gone    *)
(* for everyone else; the record goes with the configuration directory,    *)
(* or, when that one is not setup's, before anything else.                 *)
(***************************************************************************)
Recorded == cli.saved.created

RemovalRoots == {p \in Recorded : \A q \in Recorded \ {p} : ~Within(p, q)}

CreationOrder == <<"configDirectory">> \o Order

StageRecord ==
  /\ At("stage") /\ record.at = "final"
  /\ record' = NoRecord
  /\ cli' = [cli EXCEPT !.aside = @ \cup (Recorded \cap {"configDirectory"})]
  /\ UNCHANGED <<output, disk, guest, bundle, services, cred>>

Unstaged ==
  LET pending == {p \in RemovalRoots \ cli.aside : Exists(p)}
  IN  {i \in DOMAIN CreationOrder : CreationOrder[i] \in pending}

StagePath ==
  /\ At("stage") /\ record.at = "none" /\ Unstaged # {}
  /\ cli' = [cli EXCEPT !.aside = @ \cup {CreationOrder[Min(Unstaged)]}]
  /\ UNCHANGED <<output, disk, guest, record, bundle, services, cred>>

InPlace(path) == Exists(path) /\ \A root \in cli.aside : ~Within(path, root)

Staged ==
  /\ At("stage") /\ record.at = "none" /\ Unstaged = {}
  /\ GoTo("unload")
  /\ UNCHANGED <<output, disk, guest, record, bundle, services, cred>>

Unload ==
  /\ At("unload")
  /\ \/ loaded' = InPlace("systemdDropInFile") /\ GoTo("delete")
     \/ loaded' \in {loaded, InPlace("systemdDropInFile")} /\ FailTo("restore-reload")
  /\ UNCHANGED <<output, disk, guest, record, bundle, dsh, edge, cred>>

\* What is left when `roots` are gone, or under names that nobody knows.
Gone(roots) ==
  /\ disk' = [p \in Paths |-> IF \E root \in roots : Within(p, root) THEN "none" ELSE disk[p]]
  /\ guest' = (guest /\ "systemdDropInDirectory" \notin roots)

(***************************************************************************)
(* restoreStaged(), restoreServiceState(): the names, then systemd if it   *)
(* was reloaded, the bundle if it was removed, and the edge; a step that   *)
(* fails is passed over.  The record was moved first and comes back last.  *)
(* Of an unfinished setup, too, it has systemd read the drop-in and starts *)
(* the edge, which no record tells unless setup had come that far.         *)
(***************************************************************************)
Untold(call) == cli.saved.status # "installed" /\ call \notin cli.saved.tried

Restore ==
  /\ At("restore") \/ At("restore-reload")
  /\ LET next == [cli EXCEPT !.aside = {}, !.at = "restore-package"]
         passed == [next EXCEPT !.faults = @ + 1, !.broken = TRUE]
     IN  \/ /\ record' = cli.saved /\ UNCHANGED <<disk, guest>>
            /\ loaded' = IF At("restore") THEN loaded ELSE Exists("systemdDropInFile")
            /\ cli' = [next EXCEPT !.broken = @ \/ (loaded' /\ Untold("reload"))]
         \/ /\ At("restore-reload") /\ MayFail
            /\ record' = cli.saved /\ UNCHANGED <<disk, guest, loaded>>
            /\ cli' = passed
         \/ /\ record.at = "none" /\ MayFail
            /\ \E kept \in SUBSET cli.aside :
                 /\ cli.aside \cap {"configDirectory"} \subseteq kept
                 /\ Gone(kept)
            /\ cli' = [passed EXCEPT !.lost = TRUE]
            /\ UNCHANGED <<record, loaded>>
  /\ UNCHANGED <<output, bundle, dsh, edge, cred>>

RestorePackage ==
  /\ At("restore-package")
  /\ IF "package" \in cli.tried
       THEN \/ bundle' = "ours" /\ GoTo("restore-edge")
            \/ /\ MayFail /\ UNCHANGED bundle
               /\ cli' = [cli EXCEPT !.at = "restore-edge", !.faults = @ + 1, !.broken = TRUE]
       ELSE UNCHANGED bundle /\ GoTo("restore-edge")
  /\ UNCHANGED <<output, disk, guest, record, services, cred>>

RestoreEdge ==
  /\ At("restore-edge")
  /\ \/ /\ edge' = (edge \/ Exists("caddyUnitFile"))
        /\ cli' = [Ending("failed") EXCEPT !.broken = @ \/ (edge' /\ Untold("enable"))]
     \/ UNCHANGED edge /\ FailWith("broken")
  /\ UNCHANGED <<output, disk, guest, record, bundle, dsh, loaded, cred>>

(***************************************************************************)
(* removeTree() of each path aside, with all that lies in it.              *)
(***************************************************************************)
DeleteTree ==
  /\ At("delete")
  /\ \E root \in cli.aside :
       /\ Gone({root})
       /\ cli' = [cli EXCEPT !.aside = @ \ {root}]
  /\ UNCHANGED <<output, record, bundle, services, cred>>

\* Nobody restarts the DSH service: one that was guarded goes on with what is gone.
Deleted ==
  /\ At("delete") /\ cli.aside = {}
  /\ cli' = [Ending("done") EXCEPT !.broken = @ \/ dsh = "guarded"]
  /\ UNCHANGED <<output, disk, guest, record, bundle, services, cred>>

\* A rename that fails puts the others back; a deletion that fails leaves the rest aside.
UninstallCallFails ==
  \/ /\ At("stage") /\ FailTo("restore")
     /\ UNCHANGED <<output, disk, guest, record, bundle, services, cred>>
  \/ /\ At("delete") /\ FailWith("broken")
     /\ Gone(cli.aside)
     /\ UNCHANGED <<output, record, bundle, services, cred>>

UninstallStep ==
  \/ PrepareUninstall \/ AuthorizeUninstall
  \/ Disable \/ RemovePackage \/ StageRecord \/ StagePath \/ Staged \/ Unload
  \/ Restore \/ RestorePackage \/ RestoreEdge
  \/ DeleteTree \/ Deleted
  \/ UninstallCallFails

=============================================================================
