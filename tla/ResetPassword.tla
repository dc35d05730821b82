---------------------------- MODULE ResetPassword ----------------------------
(***************************************************************************)
(* reset-password (src/installer/reset-password.ts): read both credential  *)
(* files, ask for the password, stop the service, replace the document and *)
(* the secret, start the service.  A failure puts back what was read.      *)
(***************************************************************************)
EXTENDS Installation

\* resetManagedPassword() up to the password prompt.
PrepareReset ==
  /\ MayRun /\ Readable /\ ~output
  /\ record.status = "installed"
  /\ Exists("authStateFile") /\ Exists("sessionSecretFile")
  /\ cli' = [Begun("reset", "password") EXCEPT !.backup = cred]
  /\ UNCHANGED <<output, disk, guest, record, bundle, services, cred>>

ReadPassword ==
  /\ At("password")
  /\ GoTo(IF cli.wasActive THEN "stop" ELSE "replace-document") \/ End("refused")
  /\ UNCHANGED <<output, disk, guest, record, bundle, services, cred>>

Stop ==
  /\ At("stop")
  /\ \/ dsh' = "stopped" /\ GoTo("replace-document")
     \/ dsh' \in {dsh, "stopped"} /\ FailTo("restore-document")
  /\ UNCHANGED <<output, disk, guest, record, bundle, loaded, edge, cred>>

\* replaceCredential(): the file is replaced at once.
Replace(place, field, generation, next) ==
  /\ At(place)
  /\ cred' = [cred EXCEPT ![field] = generation]
  /\ next
  /\ UNCHANGED <<output, disk, guest, record, bundle, services>>

AfterSecret == IF cli.wasActive THEN GoTo("start") ELSE End("done")

Start ==
  /\ At("start")
  /\ \/ dsh' = Booted /\ End("done")
     \/ dsh' \in {dsh, Booted, "stopped"} /\ FailTo("restore-document")
  /\ UNCHANGED <<output, disk, guest, record, bundle, loaded, edge, cred>>

\* Slip: the old secret is not put back.
AfterDocumentRestored == GoTo("restore-service")

AfterDocument == GoTo("restore-secret")

AfterRestore == IF cli.wasActive THEN GoTo("restore-service") ELSE End("failed")

RestoreService ==
  /\ At("restore-service")
  /\ \/ dsh' = Booted /\ End("failed")
     \/ dsh' \in {dsh, Booted, "stopped"} /\ FailWith("broken")
  /\ UNCHANGED <<output, disk, guest, record, bundle, loaded, edge, cred>>

ResetCallFails ==
  /\ \/ cli.at \in {"stop", "replace-document", "replace-secret", "start"}
        /\ FailTo("restore-document")
     \/ cli.at \in {"restore-document", "restore-secret", "restore-service"}
        /\ FailWith("broken")
  /\ UNCHANGED <<output, disk, guest, record, bundle, services, cred>>

ResetStep ==
  \/ PrepareReset \/ ReadPassword \/ Stop
  \/ Replace("replace-document", "document", cli.runs, GoTo("replace-secret"))
  \/ Replace("replace-secret", "secret", cli.runs, AfterSecret)
  \/ Start
  \/ Replace("restore-document", "document", cli.backup.document, AfterDocument)
  \/ Replace("restore-secret", "secret", cli.backup.secret, AfterRestore)
  \/ RestoreService
  \/ ResetCallFails

=============================================================================
