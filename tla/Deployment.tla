----------------------------- MODULE Deployment -----------------------------
(***************************************************************************)
(* install, rollback and status of a local release (deployment.rs).  A     *)
(* command holds the installation lock until it ends or dies, so one runs  *)
(* at a time.  Every change of a file is one step that may do its work,    *)
(* fail before it or fail after it, when the directory cannot be synced;   *)
(* the process may die between any two.                                    *)
(*                                                                         *)
(* What a selector is, is one value: a link to a release, or what the user *)
(* had there.  A backup of a selector has a name of its own that nothing   *)
(* reuses, so a manifest holds what the backup holds.  Paths, sizes, modes *)
(* and the release's own metadata are left out.                            *)
(***************************************************************************)
EXTENDS Naturals, FiniteSets

CONSTANTS
    Selectors,           \* 1..n, the order in which they are changed
    Releases, Originals, \* what a selector can be: a release, or what was there
    MaxFailures, MaxUserEdits  \* bounds: failing steps, changes by the user

(* The selectors are numbered in the order they are changed in.            *)
ASSUME DeploymentAssumption == IsFiniteSet(Selectors) /\ Selectors = 1..Cardinality(Selectors)

VARIABLES
    selected,      \* what each selector is
    manifest,      \* current-v2.json
    journal,       \* pending-v2.json
    saved,         \* pending-v2.manifest.backup
    published,     \* the releases copied
    command,       \* the command that runs
    said,          \* the last answer
    failures, userEdits

deployVars == <<selected, manifest, journal, saved, published, command, said, failures, userEdits>>

Absent == [state |-> "none"]
NoJournal == [operation |-> "none"]
Shell == [at |-> "shell"]

Payload(v) == [state |-> "active", version |-> v, previous |-> selected]

(* status_for_root: the selectors are what the manifest says.              *)
Correct(m) ==
    \/ m.state = "active" /\ \A s \in Selectors : selected[s] = m.version
    \/ m.state = "previous_active" /\ selected = m.previous

DeployInit ==
    /\ selected \in [Selectors -> Originals]
    /\ manifest = Absent /\ journal = NoJournal /\ saved = Absent
    /\ published = {}
    /\ command = Shell
    /\ said = "nothing"
    /\ failures = 0 /\ userEdits = 0

(* One change of a file: whether its effect happens, whether it succeeds.  *)
Outcomes ==
    {<<TRUE, TRUE>>} \cup (IF failures < MaxFailures THEN {<<FALSE, FALSE>>, <<TRUE, FALSE>>} ELSE {})

Counting(o) == failures' = IF o[2] THEN failures ELSE failures + 1

Answer(a) == command' = Shell /\ said' = a

Go(at) == command' = [command EXCEPT !.at = at] /\ UNCHANGED said

(* What stands when everything is finished or undone: while there is a     *)
(* journal, the state it leads back to.                                    *)
Standing ==
    CASE journal.operation = "install" -> journal.active.previous
      [] journal.operation = "rollback" -> [s \in Selectors |-> journal.active.version]
      [] OTHER -> selected

StandingRecord ==
    IF journal = NoJournal THEN manifest ELSE IF journal.kept THEN saved ELSE Absent

Files == <<selected, manifest, journal, saved, published>>

-----------------------------------------------------------------------------
(* A command takes the lock and first looks for an interrupted one; began  *)
(* is kept for the property of the answers only.                           *)
Run ==
    /\ command = Shell
    /\ \E op \in {"install", "rollback", "status"} : \E v \in Releases :
        command' = [at |-> "look", op |-> op, version |-> v, left |-> Cardinality(Selectors),
                    verified |-> TRUE, payload |-> Absent, recovering |-> FALSE,
                    began |-> <<Standing, StandingRecord>>]
    /\ UNCHANGED <<Files, said, failures, userEdits>>

(* Finding nothing to undo counts as having undone it.                     *)
LookForNothing ==
    /\ command.at = "look"
    /\ IF journal = NoJournal
         THEN /\ saved' = Absent
              /\ IF command.recovering THEN Answer("restored") ELSE Go("decide")
         ELSE /\ saved' = saved
              /\ command' = [command EXCEPT !.at = "undo", !.left = Cardinality(Selectors), !.verified = TRUE]
              /\ said' = said
    /\ UNCHANGED <<selected, manifest, journal, published, failures, userEdits>>

(* recover_interrupted without a journal only removes a left-over backup;  *)
(* called by a command that failed, it does not report a restoration.      *)
LookForJournal ==
    /\ command.at = "look"
    /\ IF journal = NoJournal
         THEN /\ saved' = Absent
              /\ IF command.recovering THEN Answer("failed") ELSE Go("decide")
         ELSE /\ saved' = saved
              /\ command' = [command EXCEPT !.at = "undo", !.left = Cardinality(Selectors), !.verified = TRUE]
              /\ said' = said
    /\ UNCHANGED <<selected, manifest, journal, published, failures, userEdits>>

(* compensate: the selectors in reverse, each one tried.                   *)
UndoSelector ==
    /\ command.at = "undo" /\ command.left > 0
    /\ LET s == command.left
           wanted == IF journal.operation = "install" THEN journal.active.previous[s]
                     ELSE journal.active.version
       IN  \E o \in Outcomes :
            /\ selected' = IF o[1] THEN [selected EXCEPT ![s] = wanted] ELSE selected
            /\ command' = [command EXCEPT !.left = @ - 1, !.verified = @ /\ o[2]]
            /\ Counting(o)
    /\ UNCHANGED <<manifest, journal, saved, published, said, userEdits>>

(* The journal goes once the manifest is back.                             *)
UndoManifestUnverified ==
    /\ command.at = "undo" /\ command.left = 0
    /\ \E o \in Outcomes :
        /\ manifest' = IF o[1] THEN (IF journal.kept THEN saved ELSE Absent) ELSE manifest
        /\ Counting(o)
        /\ IF o[2] THEN Go("clear") ELSE Answer("failed")
    /\ UNCHANGED <<selected, journal, saved, published, userEdits>>

(* Then the manifest; the journal goes only if all is as it was.           *)
UndoManifest ==
    /\ command.at = "undo" /\ command.left = 0
    /\ \E o \in Outcomes :
        /\ manifest' = IF o[1] THEN (IF journal.kept THEN saved ELSE Absent) ELSE manifest
        /\ Counting(o)
        /\ IF /\ command.verified /\ o[2]
              /\ IF journal.operation = "install" THEN selected = journal.active.previous
                 ELSE \A s \in Selectors : selected[s] = journal.active.version
             THEN Go("clear")
             ELSE Answer("failed")
    /\ UNCHANGED <<selected, journal, saved, published, userEdits>>

(* clear_recovery: the journal and then the backup it names, which without *)
(* the journal means nothing.                                              *)
ClearJournal ==
    /\ command.at \in {"clear", "finish"}
    /\ \E o \in Outcomes :
        /\ journal' = IF o[1] THEN NoJournal ELSE journal
        /\ Counting(o)
        /\ IF o[2] THEN Go(IF command.at = "clear" THEN "cleared" ELSE "finished")
           ELSE IF command.at = "clear" THEN Answer("failed")
           ELSE command' = [command EXCEPT !.at = "look", !.recovering = TRUE] /\ UNCHANGED said
    /\ UNCHANGED <<selected, manifest, saved, published, userEdits>>

(* The removal of the backup may fail unseen.                              *)
ClearBackup ==
    /\ command.at \in {"cleared", "finished"}
    /\ \E o \in Outcomes :
        /\ saved' = IF o[1] THEN Absent ELSE saved
        /\ Counting(o)
    /\ IF command.at = "finished" THEN Answer(IF Correct(manifest) THEN "ok" ELSE "failed")
       ELSE IF command.recovering THEN Answer("restored")
       ELSE Go("decide")
    /\ UNCHANGED <<selected, manifest, journal, published, userEdits>>

-----------------------------------------------------------------------------
Status ==
    /\ command.at = "decide" /\ command.op = "status"
    /\ Answer(IF Correct(manifest) THEN "ok" ELSE "failed")
    /\ UNCHANGED <<Files, failures, userEdits>>

(* An installation is extended only while its selectors are as recorded.   *)
DecideInstall ==
    /\ command.at = "decide" /\ command.op = "install"
    /\ IF manifest # Absent /\ ~Correct(manifest) THEN Answer("refused")
       ELSE IF manifest.state = "active" /\ manifest.version = command.version THEN Answer("ok")
       ELSE Go("copy")
    /\ UNCHANGED <<Files, failures, userEdits>>

(* The release is published once and never overwritten; then what each     *)
(* selector is now is noted and a regular file is backed up.               *)
CopyRelease ==
    /\ command.at = "copy"
    /\ \E o \in Outcomes :
        /\ published' = IF o[1] THEN published \cup {command.version} ELSE published
        /\ Counting(o)
        /\ IF o[2] THEN /\ command' = [command EXCEPT !.at = "save", !.payload = Payload(command.version)]
                        /\ said' = said
           ELSE Answer("failed")
    /\ UNCHANGED <<selected, manifest, journal, saved, userEdits>>

DecideRollback ==
    /\ command.at = "decide" /\ command.op = "rollback"
    /\ CASE manifest = Absent -> Answer("refused")
         [] manifest.state = "previous_active" -> Answer(IF Correct(manifest) THEN "ok" ELSE "failed")
         [] manifest.state = "active" /\ ~Correct(manifest) -> Answer("refused")
         [] OTHER -> command' = [command EXCEPT !.at = "save", !.payload = manifest] /\ UNCHANGED said
    /\ UNCHANGED <<Files, failures, userEdits>>

(* begin_recovery: the manifest's backup, then the journal that names it.  *)
SaveManifest ==
    /\ command.at = "save"
    /\ \E o \in Outcomes :
        /\ saved' = IF manifest # Absent /\ o[1] THEN manifest ELSE Absent
        /\ Counting(o)
        /\ IF o[2] THEN Go("journal") ELSE Answer("failed")
    /\ UNCHANGED <<selected, manifest, journal, published, userEdits>>

WriteJournal ==
    /\ command.at = "journal"
    /\ \E o \in Outcomes :
        /\ journal' = IF o[1] THEN [operation |-> command.op, active |-> command.payload,
                                    kept |-> manifest # Absent]
                      ELSE journal
        /\ Counting(o)
        /\ IF o[2] THEN /\ command' = [command EXCEPT !.at = "switch", !.left = Cardinality(Selectors)]
                        /\ said' = said
           ELSE Answer("failed")
    /\ UNCHANGED <<selected, manifest, saved, published, userEdits>>

Fail == command' = [command EXCEPT !.at = "look", !.recovering = TRUE] /\ UNCHANGED said

(* The selectors are switched, or restored, in their order.                *)
SwitchSelector ==
    /\ command.at = "switch" /\ command.left > 0
    /\ LET s == Cardinality(Selectors) + 1 - command.left
           wanted == IF command.op = "install" THEN command.version ELSE command.payload.previous[s]
       IN  \E o \in Outcomes :
            /\ selected' = IF o[1] THEN [selected EXCEPT ![s] = wanted] ELSE selected
            /\ Counting(o)
            /\ IF o[2] THEN command' = [command EXCEPT !.left = @ - 1] /\ UNCHANGED said ELSE Fail
    /\ UNCHANGED <<manifest, journal, saved, published, userEdits>>

NextManifest ==
    IF command.op = "install" THEN command.payload
    ELSE [command.payload EXCEPT !.state = "previous_active"]

CommitManifest ==
    /\ command.at = "switch" /\ command.left = 0
    /\ \E o \in Outcomes :
        /\ manifest' = IF o[1] THEN NextManifest ELSE manifest
        /\ Counting(o)
        /\ IF o[2] /\ Correct(NextManifest) THEN Go("finish") ELSE Fail
    /\ UNCHANGED <<selected, journal, saved, published, userEdits>>

(* The process dies, and the lock with it.                                 *)
Die ==
    /\ command # Shell
    /\ command' = Shell /\ said' = "died"
    /\ UNCHANGED <<Files, failures, userEdits>>

UserEdit ==
    /\ userEdits < MaxUserEdits /\ command = Shell
    /\ userEdits' = userEdits + 1
    /\ \E s \in Selectors : \E c \in Originals :
        /\ selected[s] # c
        /\ selected' = [selected EXCEPT ![s] = c]
    /\ UNCHANGED <<manifest, journal, saved, published, command, said, failures>>

DeployNext ==
    \/ Run \/ LookForJournal \/ UndoSelector \/ UndoManifest \/ ClearJournal \/ ClearBackup
    \/ Status \/ DecideInstall \/ CopyRelease \/ DecideRollback \/ SaveManifest \/ WriteJournal
    \/ SwitchSelector \/ CommitManifest \/ Die \/ UserEdit

DeploySpec == DeployInit /\ [][DeployNext]_deployVars

-----------------------------------------------------------------------------
Switch == INSTANCE ReleaseSwitch WITH chosen <- Standing, record <- StandingRecord

(* Whatever fails and wherever it dies, the selectors and the manifest     *)
(* move together: a half-done install or rollback counts as not begun      *)
(* (begin_recovery, recover_interrupted, clear_recovery).                  *)
ImplementsSwitch == Switch!SwitchSpec

(* A journal can always be acted on: the manifest it leads back to is      *)
(* still saved and the release it names is still there (begin_recovery,    *)
(* clear_recovery, load_recovery).                                         *)
JournalUsable ==
    journal # NoJournal =>
        /\ journal.kept = (saved # Absent)
        /\ journal.active.version \in published

(* An answer is true when it is given: ok means that the selectors are as  *)
(* the manifest says and nothing is pending, restored that everything is   *)
(* as before the command (status_for_root, compensation_message).          *)
AnswersTrue ==
    [][/\ (said' = "ok" /\ command # Shell /\ command' = Shell) =>
            journal' = NoJournal /\ Correct(manifest')
       /\ (said' = "restored" /\ command # Shell /\ command' = Shell) =>
            journal' = NoJournal /\ <<selected, manifest>>' = command.began
      ]_deployVars

(* What is on disk can be recovered and what is answered is true           *)
(* (begin_recovery, status_for_root).                                      *)
DeploymentHonest ==
    /\ []JournalUsable
    /\ AnswersTrue
=============================================================================
