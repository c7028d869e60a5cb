--------------------------- MODULE ReleaseCutover ---------------------------
(***************************************************************************)
(* The governed release: a rollout installs the candidate, switches both   *)
(* command entries to it, back and to it again, writes the deployment      *)
(* after each switch and a receipt at the end; a step that fails undoes    *)
(* the switches. Rollouts may run at the same time and die at any point.   *)
(* It shares no state with the commands of Deployment; both are releases   *)
(* that a user relies on.                                                  *)
(***************************************************************************)
EXTENDS Deployment, Sequences

CONSTANTS
    Rollouts,       \* processes of release-cutover
    MaxRollouts,    \* bound on the rollouts begun
    MaxCutFaults    \* bound on failed steps and crashes

(* A rollout is not taken for a lock file without one.                     *)
ASSUME CutoverAssumption == {"free", "left"} \cap Rollouts = {}

VARIABLES
    entry,        \* the release each command entry selects
    deployed,     \* deployment-v1.json
    rollback,     \* the deployment kept for a rollback by hand
    installed,    \* whether the candidate is installed
    cutReceipt,   \* whether the release has its receipt
    cutLock,      \* the rollout holding the lock file, or none, or a dead one
    rollout,      \* what each rollout is doing
    begun,        \* rollouts begun
    cutFaults,    \* failed steps and crashes
    torn          \* ghost: a rollout died, or failed to undo

cutoverVars == <<entry, deployed, rollback, installed, cutReceipt, cutLock, rollout, begun, cutFaults, torn>>

CommandEntries == {"selector", "cargo"}
BeforeCutover == [release |-> "previous", state |-> "rust_active", history |-> 0]
NoRollback == [release |-> "none", state |-> "none", history |-> 0]
NoRollout == [pc |-> "free", before |-> NoRollback, phase |-> 1]

(* Cutover, rollback, recutover. The release written is the candidate.     *)
Phases == <<[to |-> "candidate", state |-> "rust_active"],
            [to |-> "previous", state |-> "previous_active"],
            [to |-> "candidate", state |-> "rust_active"]>>
DeployedIn(k) == [release |-> "candidate", state |-> Phases[k].state, history |-> k]

CutoverInit ==
    /\ entry = [e \in CommandEntries |-> "previous"]
    /\ deployed = BeforeCutover /\ rollback = NoRollback
    /\ installed = FALSE /\ cutReceipt = FALSE /\ torn = FALSE
    /\ cutLock = "free" /\ rollout = [p \in Rollouts |-> NoRollout]
    /\ begun = 0 /\ cutFaults = 0

-----------------------------------------------------------------------------
(* A write is done, not done, or done with an error from the sync after.   *)
WriteOutcomes == {"done", "not done", "not synced"}
Counts(outcome) ==
    /\ outcome # "done" => cutFaults < MaxCutFaults
    /\ cutFaults' = IF outcome = "done" THEN cutFaults ELSE cutFaults + 1
StepFails == cutFaults < MaxCutFaults /\ cutFaults' = cutFaults + 1
Points(link, target, outcome) ==
    entry' = IF outcome = "not done" THEN entry ELSE [entry EXCEPT ![link] = target]

VerifyPair(target) == \A e \in CommandEntries : entry[e] = target

Doing(p, pc) == rollout[p].pc = pc
ThenDo(p, pc) == rollout' = [rollout EXCEPT ![p].pc = pc]
Ends(p) == rollout' = [rollout EXCEPT ![p] = NoRollout]

(* The receipt is looked for before the readiness checks, the deployment   *)
(* is read after them; both before the lock.                               *)
BeginRollout(p) ==
    /\ Doing(p, "free") /\ begun < MaxRollouts /\ ~cutReceipt
    /\ begun' = begun + 1 /\ ThenDo(p, "read")
    /\ UNCHANGED <<entry, deployed, rollback, installed, cutReceipt, cutLock, cutFaults, torn>>

ReadDeployment(p) ==
    /\ Doing(p, "read")
    /\ IF deployed.state = "rust_active" /\ deployed.release # "candidate"
       THEN rollout' = [rollout EXCEPT ![p].pc = "verify_before", ![p].before = deployed]
       ELSE Ends(p)
    /\ UNCHANGED <<entry, deployed, rollback, installed, cutReceipt, cutLock, begun, cutFaults, torn>>

VerifyBefore(p) ==
    /\ Doing(p, "verify_before")
    /\ \/ UNCHANGED cutFaults /\ IF VerifyPair("previous") THEN ThenDo(p, "backup") ELSE Ends(p)
       \/ StepFails /\ Ends(p)
    /\ UNCHANGED <<entry, deployed, rollback, installed, cutReceipt, cutLock, begun, torn>>

(* ensure_backup: an equal backup of an earlier rollout is kept.           *)
EnsureBackup(p) ==
    /\ Doing(p, "backup")
    /\ CASE rollback = NoRollback -> ThenDo(p, "write_backup")
         [] rollback = rollout[p].before -> ThenDo(p, "lock")
         [] OTHER -> Ends(p)
    /\ UNCHANGED <<entry, deployed, rollback, installed, cutReceipt, cutLock, begun, cutFaults, torn>>

WriteBackup(p) ==
    /\ Doing(p, "write_backup")
    /\ \/ rollback # NoRollback /\ Ends(p) /\ UNCHANGED <<rollback, cutFaults>>
       \/ /\ rollback = NoRollback
          /\ \E o \in WriteOutcomes :
              /\ Counts(o)
              /\ rollback' = IF o = "not done" THEN rollback ELSE rollout[p].before
              /\ IF o = "done" THEN ThenDo(p, "lock") ELSE Ends(p)
    /\ UNCHANGED <<entry, deployed, installed, cutReceipt, cutLock, begun, torn>>

AcquireLock(p) ==
    /\ Doing(p, "lock")
    /\ \/ cutLock # "free" /\ Ends(p) /\ UNCHANGED <<cutLock, cutFaults>>
       \/ cutLock = "free" /\ cutLock' = p /\ ThenDo(p, "install") /\ UNCHANGED cutFaults
       \/ cutLock = "free" /\ StepFails /\ cutLock' \in {"free", "left"} /\ Ends(p)
    /\ UNCHANGED <<entry, deployed, rollback, installed, cutReceipt, begun, torn>>

(* copy_immutable and release.json: before any switch, and not undone.     *)
Install(p) ==
    /\ Doing(p, "install")
    /\ \/ installed' = TRUE /\ ThenDo(p, "switch_selector") /\ UNCHANGED cutFaults
       \/ StepFails /\ installed' \in {installed, TRUE} /\ ThenDo(p, "unlock")
    /\ UNCHANGED <<entry, deployed, rollback, cutReceipt, cutLock, begun, torn>>

-----------------------------------------------------------------------------
(* switch_pair, one entry after the other.                                 *)
PointEntry(p, link, then) ==
    /\ \E o \in WriteOutcomes :
        /\ Counts(o)
        /\ Points(link, Phases[rollout[p].phase].to, o)
        /\ ThenDo(p, IF o = "done" THEN then ELSE "undo_selector")
    /\ UNCHANGED <<deployed, rollback, installed, cutReceipt, cutLock, begun, torn>>
PointSelector(p) == Doing(p, "switch_selector") /\ PointEntry(p, "selector", "switch_cargo")
PointCargo(p) == Doing(p, "switch_cargo") /\ PointEntry(p, "cargo", "verify_switch")

VerifySwitch(p) ==
    /\ Doing(p, "verify_switch")
    /\ \/ /\ UNCHANGED cutFaults
          /\ ThenDo(p, IF VerifyPair(Phases[rollout[p].phase].to) THEN "write" ELSE "undo_selector")
       \/ StepFails /\ ThenDo(p, "undo_selector")
    /\ UNCHANGED <<entry, deployed, rollback, installed, cutReceipt, cutLock, begun, torn>>

WriteDeployment(p) ==
    LET k == rollout[p].phase
    IN /\ Doing(p, "write")
       /\ \E o \in WriteOutcomes :
           /\ Counts(o)
           /\ deployed' = IF o = "not done" THEN deployed ELSE DeployedIn(k)
           /\ IF o # "done" THEN ThenDo(p, "undo_selector")
              ELSE IF k < Len(Phases)
              THEN rollout' = [rollout EXCEPT ![p].pc = "switch_selector", ![p].phase = k + 1]
              ELSE ThenDo(p, "final")
       /\ UNCHANGED <<entry, rollback, installed, cutReceipt, cutLock, begun, torn>>

FinalCheck(p) ==
    /\ Doing(p, "final")
    /\ \/ /\ UNCHANGED cutFaults
          /\ ThenDo(p, IF /\ VerifyPair("candidate")
                          /\ deployed.state = "rust_active" /\ deployed.release = "candidate"
                       THEN "receipt" ELSE "undo_selector")
       \/ StepFails /\ ThenDo(p, "undo_selector")
    /\ UNCHANGED <<entry, deployed, rollback, installed, cutReceipt, cutLock, begun, torn>>

(* A receipt that is there already, or was not synced, undoes the release. *)
WriteReceipt(p) ==
    /\ Doing(p, "receipt")
    /\ \/ cutReceipt /\ ThenDo(p, "undo_selector") /\ UNCHANGED <<cutReceipt, cutFaults>>
       \/ /\ ~cutReceipt
          /\ \E o \in WriteOutcomes :
              /\ Counts(o)
              /\ cutReceipt' = (o # "not done")
              /\ ThenDo(p, IF o = "done" THEN "unlock" ELSE "undo_selector")
    /\ UNCHANGED <<entry, deployed, rollback, installed, cutLock, begun, torn>>

-----------------------------------------------------------------------------
(* The undoing: the second entry is left alone when the first fails, the   *)
(* deployment is written all the same.                                     *)
RestoreEntry(p, link, then) ==
    /\ \E o \in WriteOutcomes :
        /\ Counts(o)
        /\ Points(link, "previous", o)
        /\ torn' = (torn \/ o # "done")
        /\ ThenDo(p, IF o = "done" THEN then ELSE "undo_deployment")
    /\ UNCHANGED <<deployed, rollback, installed, cutReceipt, cutLock, begun>>
RestoreSelector(p) == Doing(p, "undo_selector") /\ RestoreEntry(p, "selector", "undo_cargo")
RestoreCargo(p) == Doing(p, "undo_cargo") /\ RestoreEntry(p, "cargo", "undo_deployment")

RestoreDeployment(p) ==
    /\ Doing(p, "undo_deployment")
    /\ \E o \in WriteOutcomes :
        /\ Counts(o)
        /\ deployed' = IF o = "not done" THEN deployed ELSE rollout[p].before
        /\ torn' = (torn \/ o = "not done")
    /\ ThenDo(p, "unlock")
    /\ UNCHANGED <<entry, rollback, installed, cutReceipt, cutLock, begun>>

DropLock(p) ==
    /\ Doing(p, "unlock") /\ Ends(p)
    /\ \/ cutLock' = "free" /\ UNCHANGED cutFaults
       \/ StepFails /\ cutLock' = "left"
    /\ UNCHANGED <<entry, deployed, rollback, installed, cutReceipt, begun, torn>>

RolloutDies(p) ==
    /\ ~Doing(p, "free") /\ StepFails /\ Ends(p)
    /\ cutLock' = IF cutLock = p THEN "left" ELSE cutLock
    /\ torn' = (torn \/ cutLock = p)
    /\ UNCHANGED <<entry, deployed, rollback, installed, cutReceipt, begun>>

(* An operator removes the lock file of a rollout that is gone.            *)
LockCleared ==
    /\ cutLock = "left" /\ cutLock' = "free"
    /\ UNCHANGED <<entry, deployed, rollback, installed, cutReceipt, rollout, begun, cutFaults, torn>>

CutoverNext ==
    \/ LockCleared
    \/ \E p \in Rollouts :
        \/ BeginRollout(p) \/ ReadDeployment(p) \/ VerifyBefore(p) \/ EnsureBackup(p) \/ WriteBackup(p)
        \/ AcquireLock(p) \/ Install(p)
        \/ PointSelector(p) \/ PointCargo(p) \/ VerifySwitch(p) \/ WriteDeployment(p)
        \/ FinalCheck(p) \/ WriteReceipt(p)
        \/ RestoreSelector(p) \/ RestoreCargo(p) \/ RestoreDeployment(p)
        \/ DropLock(p) \/ RolloutDies(p)

CutoverSpec == CutoverInit /\ [][CutoverNext]_cutoverVars

-----------------------------------------------------------------------------
(* Between rollouts the two entries and the deployment agree, unless one   *)
(* died with the lock or could not undo; then the way back is on disk: no  *)
(* entry and no deployment changes before the original is kept, and no     *)
(* entry selects what is not installed (run, ensure_backup, switch_pair).  *)
CutoverRecoverable ==
    /\ cutLock \notin Rollouts /\ ~torn =>
         \/ VerifyPair("previous") /\ deployed = BeforeCutover
         \/ VerifyPair("candidate") /\ deployed = DeployedIn(Len(Phases))
    /\ ~VerifyPair("previous") \/ deployed # BeforeCutover => rollback = BeforeCutover
    /\ (\E e \in CommandEntries : entry[e] = "candidate") => installed

(* CommandEntries and deployment change under the lock only, and the receipt is   *)
(* written of the candidate that both entries select and the deployment    *)
(* names after a cutover, a rollback and a recutover (run).                *)
CutoverExclusive ==
    [][/\ entry' # entry \/ deployed' # deployed =>
            \E p \in Rollouts : cutLock = p /\ rollout'[p] # rollout[p]
       /\ cutReceipt' # cutReceipt => VerifyPair("candidate") /\ deployed = DeployedIn(Len(Phases))]_cutoverVars

CutoverHonest == []CutoverRecoverable /\ CutoverExclusive

(* The deployment commands and the rollouts, of a user and of the release  *)
(* authority.                                                              *)
ReleasesSpec == DeploySpec /\ CutoverSpec

(* A release, installed by the deployment command or rolled out by the     *)
(* release authority, is what its answer, its files and its receipt say    *)
(* (status_for_root, compensation_message, run).                           *)
ReleasesHonest == DeploymentHonest /\ CutoverHonest
=============================================================================
