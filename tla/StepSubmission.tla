--------------------------- MODULE StepSubmission ---------------------------
(***************************************************************************)
(* The `rethlas_step' submission protocol of one workflow run: how a       *)
(* request that carries caller writes and one workflow action is reserved, *)
(* executed, recorded, replayed and, after an interruption, reconciled     *)
(* without being executed a second time.                                   *)
(*                                                                         *)
(* Code: mtm-runtime tool_backend.rs (the tool handler), submission_       *)
(* receipts.rs; mtm-storage step_receipts.rs, step_checkpoints.rs,         *)
(* step_write_journal.rs, step_database_write.rs, atomic_actions.rs,       *)
(* task_transitions.rs, capability.rs; mtm-workflow submission_write.rs,   *)
(* file_effect.rs, engine.rs (commit, next_task, cancel).                  *)
(*                                                                         *)
(* Granularity: one SQLite transaction (StateStore::immediate), one file   *)
(* rename or one read of shared state is one step; whatever a request      *)
(* thread does between two of those is local.  A capability token, its     *)
(* fingerprint, its receipt and its execution id stand in one-to-one       *)
(* correspondence and are one element of Caps.                             *)
(***************************************************************************)
EXTENDS Naturals, Sequences, FiniteSets

CONSTANTS
    Caps,         \* capability tokens; a finite supply bounds how many are issued
    Workers,      \* request threads of the one server process
    Requests,     \* request bodies: [writes : Seq(Write), action : ActionKinds]
    Files,        \* logical files of the run's private vault
    Bytes,        \* contents a write may carry
    MaxReceipts,  \* MAX_RECEIPTS_PER_RUN
    Hazards,      \* what the environment of an instance does
    NoCap, NoRequest, NoFile, NoWorker

ActionKinds == {"atomic", "restartable", "partial"}

(* A caller write: a logical file that is appended to or replaced, a       *)
(* database resource (proof_manifest, reference_audit), or any other       *)
(* resource (branch:self), which the journal marks Opaque.                 *)
FileWrites == [kind : {"file"}, path : Files, append : BOOLEAN, bytes : Bytes]
OtherWrites == [kind : {"database", "opaque"}]
Writes == FileWrites \cup OtherWrites

ASSUME RequestAssumption ==
    \A r \in Requests : /\ r.writes \in Seq(Writes)
                        /\ r.action \in ActionKinds

ASSUME ConstantAssumption ==
    /\ NoCap \notin Caps
    /\ NoRequest \notin Requests
    /\ NoFile \notin Files
    /\ NoWorker \notin Workers
    /\ MaxReceipts \in Nat
    /\ Hazards \subseteq {"fault", "expiry", "crash", "cancel"}

(* The states of the run as far as this protocol tells them apart: a state *)
(* with an active model role, a mechanical state that next_task advances   *)
(* (branch_prepare, latex_validate, finalize), and the terminal states.    *)
Stages == {"task", "mechanical", "terminal"}

Content == Seq(Bytes)

(* The bytes a file holds after a write (guard.prepare).                   *)
After(wr, before) == IF wr.append THEN Append(before, wr.bytes) ELSE <<wr.bytes>>

(* The write journal's marker: Between, Opaque, File{evidence} and         *)
(* RestartableAction; "absent" is a step without a journal row.            *)
PlainMarkers == [kind : {"absent", "between", "opaque", "restartable"},
                 path : {NoFile}, before : {<<>>}, after : {<<>>}]
FileMarkers == [kind : {"file"}, path : Files, before : Content, after : Content]
Markers == PlainMarkers \cup FileMarkers
Plain(kind) == [kind |-> kind, path |-> NoFile, before |-> <<>>, after |-> <<>>]
FileEvidence(path, before, after) ==
    [kind |-> "file", path |-> path, before |-> before, after |-> after]

Checkpoints == [phase : {"absent", "prepared", "running", "commit_ready"},
                expected : Nat, accepted : Nat, marker : Markers, atomic : BOOLEAN]
NoCheckpoint == [phase |-> "absent", expected |-> 0, accepted |-> 0,
                 marker |-> Plain("absent"), atomic |-> FALSE]

(* SubmissionResult, its error code reduced to who produced it.            *)
Results == [disposition : {"applied", "correction"}, stage : Stages, writes : Nat,
            complete : BOOLEAN, code : {"none", "not_started", "interrupted", "rejected"}]
Applied(stage, n, whole) ==
    [disposition |-> "applied", stage |-> stage, writes |-> n, complete |-> whole,
     code |-> "none"]
Correction(stage, n, why) ==
    [disposition |-> "correction", stage |-> stage, writes |-> n, complete |-> FALSE,
     code |-> why]
Blank == Correction("task", 0, "rejected")    \* fills the field of a pending receipt

Receipts == [status : {"absent", "pending", "completed"},
             request : Requests \cup {NoRequest}, result : Results]
NoReceipt == [status |-> "absent", request |-> NoRequest, result |-> Blank]

RunRecords == [stage : Stages, epoch : Nat, domains : Seq(BOOLEAN)]
CapRecords == [issued : BOOLEAN, revoked : BOOLEAN, expired : BOOLEAN,
               epoch : Nat, domain : Nat]

VARIABLES
    \* Durable: the SQLite database and the files of the vault.
    run,      \* runs: its stage and epoch, and its task domains, TRUE while open
    caps,     \* capabilities
    receipt,  \* step_receipts
    ckpt,     \* step_checkpoints joined with step_write_journals
    file,     \* the logical files
    \* Volatile: the server process.
    lock,     \* the holder of each logical file's flock
    wk,       \* the request threads
    \* History.
    effects,  \* how many caller writes of each submission took effect
    moved     \* how many transitions each submission committed

vars == <<run, caps, receipt, ckpt, file, lock, wk, effects, moved>>

(* A request thread: where it is, the arguments of the call, and what it   *)
(* read earlier and still relies on.                                       *)
Idle == [pc |-> "idle",
         cap |-> NoCap, request |-> NoRequest, recoverOnly |-> FALSE,
         done |-> 0,                    \* write_results.len()
         evidence |-> Plain("absent"),  \* prepared under the file lock
         snap |-> NoCheckpoint,         \* SubmissionRecovery
         observed |-> <<>>,             \* the file image recovery observed
         stage |-> "task",              \* the run as next_task or cancel read it
         domain |-> 0, epoch |-> 0,     \* what ensure_domain and issue read
         outcome |-> Blank]             \* the summary to record

Init ==
    /\ run = [stage |-> "task", epoch |-> 1, domains |-> <<>>]
    /\ caps = [c \in Caps |-> [issued |-> FALSE, revoked |-> FALSE, expired |-> FALSE,
                               epoch |-> 0, domain |-> 0]]
    /\ receipt = [c \in Caps |-> NoReceipt]
    /\ ckpt = [c \in Caps |-> NoCheckpoint]
    /\ file = [f \in Files |-> <<>>]
    /\ lock = [f \in Files |-> NoWorker]
    /\ wk = [w \in Workers |-> Idle]
    /\ effects = [c \in Caps |-> 0]
    /\ moved = [c \in Caps |-> 0]

-----------------------------------------------------------------------------
(* Helpers: guards the storage transactions share.                         *)

Pending(c) == receipt[c].status = "pending"
Completed(c) == receipt[c].status = "completed"
AnyPending == \E c \in Caps : Pending(c)

Open(d) == d \in DOMAIN run.domains /\ run.domains[d]

(* Mutant of Live: the epoch is not compared.                              *)
LiveInAnyEpoch(c) ==
    /\ caps[c].issued /\ ~caps[c].revoked /\ ~caps[c].expired
    /\ run.stage = "task"
    /\ Open(caps[c].domain)

(* recheck_authority, and validate_inner on the paths that call it: the    *)
(* capability is registered, neither revoked nor expired, of the run's     *)
(* current epoch and state, and its domain is open.                        *)
Live(c) ==
    /\ caps[c].issued /\ ~caps[c].revoked /\ ~caps[c].expired
    /\ caps[c].epoch = run.epoch
    /\ run.stage = "task"
    /\ Open(caps[c].domain)

(* Mutant of SlotFree: a settled receipt still accepts writes.             *)
SlotFreeSettled(c, index) ==
    /\ ckpt[c].phase = "running" /\ ckpt[c].marker = Plain("between")
    /\ ckpt[c].accepted = index /\ ckpt[c].expected > index

(* The journal slot of the next caller write: nothing outstanding, the     *)
(* step running, and exactly `index' writes accepted of those expected.    *)
SlotFree(c, index) ==
    /\ Pending(c)
    /\ ckpt[c].phase = "running" /\ ckpt[c].marker = Plain("between")
    /\ ckpt[c].accepted = index /\ ckpt[c].expected > index

(* check_task and consume_restartable_task.                                *)
CheckTask(c, marker) ==
    /\ Pending(c)
    /\ ckpt[c].phase = "commit_ready" /\ ckpt[c].expected = ckpt[c].accepted
    /\ ckpt[c].marker = Plain(marker)

(* record_submission_outcome: either the recorded result already says the  *)
(* same, or the journal proves that `res' counts every caller write.       *)
SameOutcome(old, res) ==
    \/ old = res
    \/ /\ old.disposition = "applied" /\ res.disposition = "applied"
       /\ old.writes = res.writes /\ old.complete = res.complete

Recordable(c, res) ==
    \/ Completed(c) /\ SameOutcome(receipt[c].result, res)
    \/ /\ Pending(c)
       /\ ckpt[c].marker.kind # "absent" => /\ ckpt[c].marker = Plain("between")
                                            /\ ckpt[c].accepted = res.writes

Finished(c, res) == [receipt EXCEPT ![c].status = "completed", ![c].result = res]

Recorded(c, res) == IF Completed(c) THEN receipt ELSE Finished(c, res)

(* Every transition advances the epoch and revokes every capability of the *)
(* run in the same transaction (transition_on).                            *)
AllRevoked == [c \in Caps |-> [caps[c] EXCEPT !.revoked = caps[c].issued]]

-----------------------------------------------------------------------------
(* Request threads.                                                        *)

At(w, label) == wk[w].pc = label
Goto(w, label) == wk' = [wk EXCEPT ![w].pc = label]
Return(w) == wk' = [wk EXCEPT ![w] = Idle]

(* Dropping a FileEffectGuard releases the thread's flock and forgets the  *)
(* evidence prepared under it.                                             *)
DropGuard(w, label) ==
    wk' = [wk EXCEPT ![w].pc = label, ![w].evidence = Plain("absent")]
Unlocked(w) == [f \in Files |-> IF lock[f] = w THEN NoWorker ELSE lock[f]]

(* A tool call enters the handler.                                         *)
StartSubmission(w, c, r, recovering) ==
    /\ At(w, "idle") /\ caps[c].issued
    /\ wk' = [wk EXCEPT ![w] = [Idle EXCEPT !.pc = "lookup", !.cap = c, !.request = r,
                                            !.recoverOnly = recovering]]
    /\ UNCHANGED <<run, caps, receipt, ckpt, file, lock, effects, moved>>

StartRefresh(w) ==
    /\ At(w, "idle") /\ \E c \in Caps : ~caps[c].issued
    /\ Goto(w, "next")
    /\ UNCHANGED <<run, caps, receipt, ckpt, file, lock, effects, moved>>

StartCancel(w) ==
    /\ "cancel" \in Hazards
    /\ At(w, "idle") /\ run.stage # "terminal"
    /\ wk' = [wk EXCEPT ![w].pc = "cancel", ![w].stage = run.stage]
    /\ UNCHANGED <<run, caps, receipt, ckpt, file, lock, effects, moved>>

(* submission_receipt: the first lookup.  A receipt bound to another       *)
(* request is an idempotency conflict, a pending one is RESULT_UNKNOWN.    *)
LookupMiss(w) ==
    LET c == wk[w].cap IN
    /\ At(w, "lookup") /\ receipt[c].status = "absent"
    /\ IF wk[w].recoverOnly THEN Return(w) ELSE Goto(w, "authorize")
    /\ UNCHANGED <<run, caps, receipt, ckpt, file, lock, effects, moved>>

LookupHit(w) ==
    LET c == wk[w].cap IN
    /\ At(w, "lookup") /\ receipt[c].status # "absent"
    /\ IF receipt[c].request = wk[w].request /\ wk[w].recoverOnly /\ Pending(c)
       THEN Goto(w, "snapshot") ELSE Return(w)
    /\ UNCHANGED <<run, caps, receipt, ckpt, file, lock, effects, moved>>

(* authorize_submission; a refusal looks the receipt up once more, because *)
(* another thread may have reserved or completed it meanwhile.             *)
Authorize(w) ==
    /\ At(w, "authorize")
    /\ Goto(w, IF Live(wk[w].cap) THEN "reserve" ELSE "relookup")
    /\ UNCHANGED <<run, caps, receipt, ckpt, file, lock, effects, moved>>

Relookup(w) ==
    /\ At(w, "relookup")
    /\ Return(w)
    /\ UNCHANGED <<run, caps, receipt, ckpt, file, lock, effects, moved>>

(* reserve_submission: one transaction.                                    *)
Reserve(w) ==
    LET c == wk[w].cap IN
    /\ At(w, "reserve")
    /\ receipt[c].status = "absent" /\ ~AnyPending /\ Live(c)
    /\ Cardinality({d \in Caps : receipt[d].status # "absent"}) < MaxReceipts
    /\ receipt' = [receipt EXCEPT ![c].status = "pending", ![c].request = wk[w].request]
    /\ ckpt' = [ckpt EXCEPT ![c].phase = "prepared"]
    /\ Goto(w, "activate")
    /\ UNCHANGED <<run, caps, file, lock, effects, moved>>

(* Mutant of ReserveRefused: a call waits for room in the receipt table.   *)
ReserveRefusedWaits(w) ==
    LET c == wk[w].cap IN
    /\ At(w, "reserve")
    /\ receipt[c].status # "absent" \/ AnyPending \/ ~Live(c)
    /\ Return(w)
    /\ UNCHANGED <<run, caps, receipt, ckpt, file, lock, effects, moved>>

ReserveRefused(w) ==
    LET c == wk[w].cap IN
    /\ At(w, "reserve")
    /\ \/ receipt[c].status # "absent" \/ AnyPending \/ ~Live(c)
       \/ Cardinality({d \in Caps : receipt[d].status # "absent"}) >= MaxReceipts
    /\ Return(w)
    /\ UNCHANGED <<run, caps, receipt, ckpt, file, lock, effects, moved>>

(* activate_submission: the original thread and recover_only race here.    *)
Activate(w) ==
    LET c == wk[w].cap IN
    /\ At(w, "activate")
    /\ Pending(c) /\ Live(c) /\ ckpt[c].phase = "prepared"
    /\ ckpt' = [ckpt EXCEPT ![c].phase = "running",
                            ![c].expected = Len(wk[w].request.writes),
                            ![c].marker = Plain("between")]
    /\ Goto(w, "write")
    /\ UNCHANGED <<run, caps, receipt, file, lock, effects, moved>>

ActivateRefused(w) ==
    LET c == wk[w].cap IN
    /\ At(w, "activate")
    /\ ~(Pending(c) /\ Live(c) /\ ckpt[c].phase = "prepared")
    /\ Return(w)
    /\ UNCHANGED <<run, caps, receipt, ckpt, file, lock, effects, moved>>

-----------------------------------------------------------------------------
(* The caller writes, in order (execute_rethlas_submission and             *)
(* write_submission).  Errors of category Validation or Conflict lead to   *)
(* recoverable_step (label "correct"), every other error leaves the        *)
(* receipt as it is (label "observe").                                     *)

Current(w) == wk[w].request.writes[wk[w].done + 1]
MoreWrites(w) == wk[w].done < Len(wk[w].request.writes)

(* validate() refuses the capability: a Permission error.                  *)
WriteDenied(w) ==
    /\ At(w, "write") /\ MoreWrites(w) /\ ~Live(wk[w].cap)
    /\ Goto(w, "observe")
    /\ UNCHANGED <<run, caps, receipt, ckpt, file, lock, effects, moved>>

(* The role may not write the resource, or a normalizer rejects its body;  *)
(* or the file's flock is taken.  Nothing was begun.                       *)
WriteRejected(w) ==
    /\ At(w, "write") /\ MoreWrites(w) /\ Live(wk[w].cap)
    /\ Goto(w, "correct")
    /\ UNCHANGED <<run, caps, receipt, ckpt, file, lock, effects, moved>>

(* lock_file_effect and prepare: the before and after images are read      *)
(* under the nonblocking flock.                                            *)
LockAndPrepare(w) ==
    LET wr == Current(w) IN
    /\ At(w, "write") /\ MoreWrites(w) /\ Live(wk[w].cap) /\ wr.kind = "file"
    /\ lock[wr.path] = NoWorker
    /\ lock' = [lock EXCEPT ![wr.path] = w]
    /\ wk' = [wk EXCEPT ![w].pc = "begin",
                        ![w].evidence = FileEvidence(wr.path, file[wr.path],
                                                     After(wr, file[wr.path]))]
    /\ UNCHANGED <<run, caps, receipt, ckpt, file, effects, moved>>

(* begin_submission_write with file evidence.                              *)
BeginFile(w) ==
    LET c == wk[w].cap IN
    /\ At(w, "begin")
    /\ IF Live(c) /\ SlotFree(c, wk[w].done)
       THEN /\ ckpt' = [ckpt EXCEPT ![c].marker = wk[w].evidence]
            /\ Goto(w, "publish")
            /\ UNCHANGED lock
       ELSE /\ lock' = Unlocked(w)
            /\ DropGuard(w, "correct")
            /\ UNCHANGED ckpt
    /\ UNCHANGED <<run, caps, receipt, file, effects, moved>>

(* publish: compare with the before image, then rename the prepared bytes  *)
(* into place.  The directory fsync after the rename may still fail.       *)
Publish(w) ==
    LET c == wk[w].cap
        e == wk[w].evidence IN
    /\ At(w, "publish")
    /\ IF file[e.path] = e.before
       THEN /\ file' = [file EXCEPT ![e.path] = e.after]
            /\ effects' = [effects EXCEPT ![c] = @ + 1]
            /\ \/ Goto(w, "checkpoint") /\ UNCHANGED lock
               \/ DropGuard(w, "observe") /\ lock' = Unlocked(w)
       ELSE /\ DropGuard(w, "correct") /\ lock' = Unlocked(w)
            /\ UNCHANGED <<file, effects>>
    /\ UNCHANGED <<run, caps, receipt, ckpt, moved>>

(* begin_submission_write without evidence.                                *)
BeginOpaque(w) ==
    LET c == wk[w].cap IN
    /\ At(w, "write") /\ MoreWrites(w) /\ Live(c) /\ Current(w).kind = "opaque"
    /\ IF SlotFree(c, wk[w].done)
       THEN /\ ckpt' = [ckpt EXCEPT ![c].marker = Plain("opaque")]
            /\ Goto(w, "opaque")
       ELSE Goto(w, "correct") /\ UNCHANGED ckpt
    /\ UNCHANGED <<run, caps, receipt, file, lock, effects, moved>>

(* write_resource: no resource that reaches this branch is writable; the   *)
(* one a role may name, branch:self, is refused by a Validation error.     *)
RejectOpaque(w) ==
    /\ At(w, "opaque")
    /\ Goto(w, "correct")
    /\ UNCHANGED <<run, caps, receipt, ckpt, file, lock, effects, moved>>

(* checkpoint_submission_write: the acknowledgement; the guard is dropped. *)
Checkpoint(w) ==
    LET c == wk[w].cap IN
    /\ At(w, "checkpoint")
    /\ IF /\ Pending(c) /\ ckpt[c].phase = "running"
          /\ ckpt[c].accepted = wk[w].done /\ ckpt[c].expected > wk[w].done
          /\ ckpt[c].marker # Plain("between")
       THEN /\ ckpt' = [ckpt EXCEPT ![c].accepted = wk[w].done + 1,
                                    ![c].marker = Plain("between")]
            /\ wk' = [wk EXCEPT ![w].pc = "write", ![w].done = @ + 1,
                                ![w].evidence = Plain("absent")]
       ELSE DropGuard(w, "correct") /\ UNCHANGED ckpt
    /\ lock' = Unlocked(w)
    /\ UNCHANGED <<run, caps, receipt, file, effects, moved>>

(* write_submission_proof_manifest and the reference audit: the mutation   *)
(* and its acknowledgement are one transaction.                            *)
DatabaseWrite(w) ==
    LET c == wk[w].cap IN
    /\ At(w, "write") /\ MoreWrites(w) /\ Live(c) /\ Current(w).kind = "database"
    /\ IF SlotFree(c, wk[w].done)
       THEN /\ ckpt' = [ckpt EXCEPT ![c].accepted = wk[w].done + 1]
            /\ effects' = [effects EXCEPT ![c] = @ + 1]
            /\ wk' = [wk EXCEPT ![w].done = @ + 1]
       ELSE Goto(w, "correct") /\ UNCHANGED <<ckpt, effects>>
    /\ UNCHANGED <<run, caps, receipt, file, lock, moved>>

-----------------------------------------------------------------------------
(* The action (arm_submission_commit, then workflow.commit).               *)

Arm(w) ==
    LET c == wk[w].cap IN
    /\ At(w, "write") /\ ~MoreWrites(w)
    /\ IF /\ Pending(c) /\ ckpt[c].phase = "running"
          /\ ckpt[c].marker = Plain("between") /\ ckpt[c].accepted = ckpt[c].expected
       THEN /\ ckpt' = [ckpt EXCEPT ![c].phase = "commit_ready"]
            /\ Goto(w, "commit")
       ELSE Goto(w, "observe") /\ UNCHANGED ckpt
    /\ UNCHANGED <<run, caps, receipt, file, lock, effects, moved>>

(* commit() validates the capability; a wrong action name or payload is a  *)
(* Validation error before the action is enrolled.                         *)
CommitRefused(w) ==
    /\ At(w, "commit")
    /\ Goto(w, IF Live(wk[w].cap) THEN "correct" ELSE "observe")
    /\ UNCHANGED <<run, caps, receipt, ckpt, file, lock, effects, moved>>

(* enroll_atomic_action.                                                   *)
EnrollAtomic(w) ==
    LET c == wk[w].cap IN
    /\ At(w, "commit") /\ Live(c) /\ wk[w].request.action = "atomic"
    /\ IF CheckTask(c, "between") /\ ~ckpt[c].atomic
       THEN ckpt' = [ckpt EXCEPT ![c].atomic = TRUE] /\ Goto(w, "transition")
       ELSE UNCHANGED ckpt /\ Goto(w, "correct")
    /\ UNCHANGED <<run, caps, receipt, file, lock, effects, moved>>

(* enroll_restartable_action; the action's own files follow (ActionEffect) *)
(* and are kept apart from the caller's files here.                        *)
EnrollRestartable(w) ==
    LET c == wk[w].cap IN
    /\ At(w, "commit") /\ Live(c) /\ wk[w].request.action = "restartable"
    /\ IF CheckTask(c, "between")
       THEN ckpt' = [ckpt EXCEPT ![c].marker = Plain("restartable")] /\ Goto(w, "transition")
       ELSE UNCHANGED ckpt /\ Goto(w, "correct")
    /\ UNCHANGED <<run, caps, receipt, file, lock, effects, moved>>

(* direct_proving_complete with screening still missing: the progress is   *)
(* saved by update_run_metadata, no transition is made.                    *)
SaveProgress(w) ==
    /\ At(w, "commit") /\ Live(wk[w].cap) /\ wk[w].request.action = "partial"
    /\ wk' = [wk EXCEPT ![w].pc = "record",
                        ![w].outcome = Applied("task", wk[w].done, FALSE)]
    /\ UNCHANGED <<run, caps, receipt, ckpt, file, lock, effects, moved>>

(* transition_task: authority, the task check, the domain seal, the epoch, *)
(* the revocations and the receipt's completion are one transaction.       *)
Transition(w) ==
    LET c == wk[w].cap
        atomic == wk[w].request.action = "atomic" IN
    /\ At(w, "transition")
    /\ Live(c) /\ CheckTask(c, IF atomic THEN "between" ELSE "restartable")
    /\ \E next \in {"task", "mechanical"} :
         /\ run' = [run EXCEPT !.stage = next, !.epoch = @ + 1,
                               !.domains[caps[c].domain] = FALSE]
         /\ receipt' = Finished(c, Applied(next, ckpt[c].accepted, TRUE))
         /\ wk' = [wk EXCEPT ![w].pc = "record",
                             ![w].outcome = Applied(next, wk[w].done, TRUE)]
    /\ caps' = AllRevoked
    /\ ckpt' = [ckpt EXCEPT ![c].marker = Plain("between")]
    /\ moved' = [moved EXCEPT ![c] = @ + 1]
    /\ UNCHANGED <<file, lock, effects>>

(* The transaction is refused, the run's metadata changed, an action file  *)
(* conflicts, or the action's own preconditions fail after enrollment.     *)
TransitionRefused(w) ==
    /\ At(w, "transition")
    /\ Goto(w, "correct")
    /\ UNCHANGED <<run, caps, receipt, ckpt, file, lock, effects, moved>>

-----------------------------------------------------------------------------
(* Recording the outcome and answering.                                    *)

(* record_submission_outcome.                                              *)
Record(w) ==
    LET c   == wk[w].cap
        res == wk[w].outcome IN
    /\ At(w, "record")
    /\ IF Recordable(c, res)
       THEN receipt' = Recorded(c, res) /\ Goto(w, "next")
       ELSE Goto(w, "observe") /\ UNCHANGED receipt
    /\ UNCHANGED <<run, caps, ckpt, file, lock, effects, moved>>

(* recoverable_step reads the run's state for the correction it records.   *)
Correct(w) ==
    /\ At(w, "correct")
    /\ wk' = [wk EXCEPT ![w].pc = "record",
                        ![w].outcome = Correction(run.stage, wk[w].done, "rejected")]
    /\ UNCHANGED <<run, caps, receipt, ckpt, file, lock, effects, moved>>

(* finish_receipted_submission on an error: answer what is durable.        *)
Observe(w) ==
    /\ At(w, "observe")
    /\ Return(w)
    /\ UNCHANGED <<run, caps, receipt, ckpt, file, lock, effects, moved>>

(* The answer RESULT_UNKNOWN, "its final outcome is not recorded".         *)
AnswerUnknown(w) ==
    /\ At(w, "unrecorded")
    /\ Return(w)
    /\ UNCHANGED <<run, caps, receipt, ckpt, file, lock, effects, moved>>

(* capabilities.revoke after the next task was built.                      *)
Revoke(w) ==
    /\ At(w, "revoke")
    /\ caps' = [caps EXCEPT ![wk[w].cap].revoked = TRUE]
    /\ Goto(w, "finish")
    /\ UNCHANGED <<run, receipt, ckpt, file, lock, effects, moved>>

(* finish_receipted_submission on success: complete_submission once more,  *)
(* with the state of the task that was built since.                        *)
Finish(w) ==
    LET c   == wk[w].cap
        res == [wk[w].outcome EXCEPT !.stage = wk[w].stage] IN
    /\ At(w, "finish")
    /\ IF Recordable(c, res)
       THEN receipt' = Recorded(c, res) /\ Return(w)
       ELSE Goto(w, "unrecorded") /\ UNCHANGED receipt
    /\ UNCHANGED <<run, caps, ckpt, file, lock, effects, moved>>

-----------------------------------------------------------------------------
(* recover_only (recover_submission): never executes anything.             *)

(* submission_recovery: a snapshot of the checkpoint and the journal.      *)
Snapshot(w) ==
    LET c == wk[w].cap IN
    /\ At(w, "snapshot")
    /\ wk' = [wk EXCEPT ![w].snap = ckpt[c],
                        ![w].pc = IF ckpt[c].marker.kind = "file" THEN "inspect"
                                                                  ELSE "reconcile"]
    /\ UNCHANGED <<run, caps, receipt, ckpt, file, lock, effects, moved>>

(* Mutant of Inspect: the file is observed without its flock.              *)
InspectUnlocked(w) ==
    LET path == wk[w].snap.marker.path IN
    /\ At(w, "inspect")
    /\ wk' = [wk EXCEPT ![w].pc = "reconcile", ![w].observed = file[path]]
    /\ UNCHANGED <<run, caps, receipt, ckpt, file, lock, effects, moved>>

(* The file is observed under its flock, which is kept until the receipt   *)
(* is settled; a busy lock is RESULT_UNKNOWN.                              *)
Inspect(w) ==
    LET path == wk[w].snap.marker.path IN
    /\ At(w, "inspect")
    /\ IF lock[path] = NoWorker
       THEN /\ lock' = [lock EXCEPT ![path] = w]
            /\ wk' = [wk EXCEPT ![w].pc = "reconcile", ![w].observed = file[path]]
       ELSE Return(w) /\ UNCHANGED lock
    /\ UNCHANGED <<run, caps, receipt, ckpt, file, effects, moved>>

(* Mutants of Evidenced: a restartable action is not recognised; a Between *)
(* journal is not; the outstanding write is taken off the count.           *)
EvidencedWithoutRestart(k, observed) ==
    IF k.phase = "prepared" THEN {Correction("task", 0, "not_started")}
    ELSE IF k.phase = "running" /\ k.marker.kind \in {"between", "file"}
         THEN {Correction("task", k.accepted, "interrupted")}
    ELSE {}

(* The number of caller writes a checkpoint and, for a file marker, the    *)
(* observed image prove to have taken effect: a set of at most one number, *)
(* empty when the outcome stays unknown.                                   *)
ConfirmedWrites(k, observed) ==
    LET m == k.marker IN
    {n \in {0, k.accepted, k.accepted + 1} :
        \/ /\ k.phase = "prepared" /\ ~k.atomic
           /\ n = 0
        \/ /\ k.phase = "running" /\ ~k.atomic /\ n <= k.expected
           /\ \/ m.kind \in {"between", "restartable"} /\ n = k.accepted
              \/ /\ m.kind = "file" /\ m.before # m.after
                 /\ \/ observed = m.after /\ n = k.accepted + 1
                    \/ observed = m.before /\ n = k.accepted
        \/ /\ k.phase = "commit_ready" /\ k.expected = k.accepted
           /\ m.kind = IF k.atomic THEN "between" ELSE "restartable"
           /\ n = k.accepted}

(* The results reconcile_caller_writes can record.                         *)
Evidenced(k, observed) ==
    {Correction("task", n, IF k.phase = "prepared" THEN "not_started" ELSE "interrupted") :
        n \in ConfirmedWrites(k, observed)}

(* Mutant of Reconcile: the snapshot is trusted without being compared.    *)
ReconcileStale(w) ==
    LET c == wk[w].cap IN
    /\ At(w, "reconcile")
    /\ lock' = Unlocked(w)
    /\ Return(w)
    /\ IF Pending(c)
       THEN \E res \in Evidenced(wk[w].snap, wk[w].observed) : receipt' = Finished(c, res)
       ELSE UNCHANGED receipt
    /\ UNCHANGED <<run, caps, ckpt, file, effects, moved>>

(* reconcile_caller_writes: the snapshot must still be current.            *)
Reconcile(w) ==
    LET c == wk[w].cap IN
    /\ At(w, "reconcile")
    /\ lock' = Unlocked(w)
    /\ Return(w)
    /\ \/ /\ Completed(c)
          /\ UNCHANGED receipt
       \/ /\ Pending(c) /\ ckpt[c] = wk[w].snap
          /\ \E res \in Evidenced(ckpt[c], wk[w].observed) :
                receipt' = Finished(c, res)
       \/ /\ Pending(c)
          /\ ckpt[c] # wk[w].snap \/ Evidenced(ckpt[c], wk[w].observed) = {}
          /\ UNCHANGED receipt
    /\ UNCHANGED <<run, caps, ckpt, file, effects, moved>>

-----------------------------------------------------------------------------
(* next_task, alone or at the end of a submission.                         *)

(* An error of next_task ends a refresh, and sends a submission thread to  *)
(* report what is durable.                                                 *)
Leave(w) == IF wk[w].cap = NoCap THEN Return(w) ELSE DropGuard(w, "observe")
(* Its success ends a refresh, and lets a submission thread revoke.        *)
Proceed(w) == IF wk[w].cap = NoCap THEN Return(w)
              ELSE wk' = [wk EXCEPT ![w].pc = "revoke", ![w].domain = 0, ![w].epoch = 0]

(* require_owner: the run is read once, before the receipts are.           *)
ReadRun(w) ==
    /\ At(w, "next")
    /\ wk' = [wk EXCEPT ![w].pc = "refresh", ![w].stage = run.stage]
    /\ UNCHANGED <<run, caps, receipt, ckpt, file, lock, effects, moved>>

(* A pending submission blocks every task refresh.                         *)
CheckPending(w) ==
    /\ At(w, "refresh")
    /\ IF AnyPending THEN Leave(w) ELSE Goto(w, "advance")
    /\ UNCHANGED <<run, caps, receipt, ckpt, file, lock, effects, moved>>

(* advance_mechanical: the transition compares the run's state with the    *)
(* one read earlier, and nothing else.                                     *)
AdvanceMechanical(w) ==
    /\ At(w, "advance") /\ wk[w].stage = "mechanical"
    /\ IF run.stage = "mechanical"
       THEN \E next \in {"task", "terminal"} :
              /\ run' = [run EXCEPT !.stage = next, !.epoch = @ + 1]
              /\ caps' = AllRevoked
              /\ wk' = [wk EXCEPT ![w].stage = next]
       ELSE Leave(w) /\ UNCHANGED <<run, caps>>
    /\ UNCHANGED <<receipt, ckpt, file, lock, effects, moved>>

ReachTerminal(w) ==
    /\ At(w, "advance") /\ wk[w].stage = "terminal"
    /\ Proceed(w)
    /\ UNCHANGED <<run, caps, receipt, ckpt, file, lock, effects, moved>>

(* ensure_domain: the newest open domain, or a new one in a second         *)
(* transaction.  (The code looks for a domain of the run's own state; the  *)
(* model has one task state, so it also takes up a duplicate left open by  *)
(* two refreshes that raced in an earlier one.)                            *)
FindDomain(w) ==
    LET open == {d \in DOMAIN run.domains : run.domains[d]} IN
    /\ At(w, "advance") /\ wk[w].stage = "task"
    /\ IF open = {} THEN Goto(w, "domain")
       ELSE \E d \in open : /\ \A e \in open : e <= d
                            /\ wk' = [wk EXCEPT ![w].pc = "issue", ![w].domain = d]
    /\ UNCHANGED <<run, caps, receipt, ckpt, file, lock, effects, moved>>

CreateDomain(w) ==
    /\ At(w, "domain")
    /\ run' = [run EXCEPT !.domains = Append(@, TRUE)]
    /\ wk' = [wk EXCEPT ![w].pc = "issue", ![w].domain = Len(run.domains) + 1]
    /\ UNCHANGED <<caps, receipt, ckpt, file, lock, effects, moved>>

(* issue: reads the run and the domain, then inserts the capability in a   *)
(* transaction of its own.                                                 *)
ReadClaims(w) ==
    /\ At(w, "issue")
    /\ IF Open(wk[w].domain) /\ run.stage = "task"
       THEN wk' = [wk EXCEPT ![w].pc = "insert", ![w].epoch = run.epoch]
       ELSE Leave(w)
    /\ UNCHANGED <<run, caps, receipt, ckpt, file, lock, effects, moved>>

InsertCapability(w) ==
    /\ At(w, "insert")
    /\ \E c \in Caps :
         /\ ~caps[c].issued
         /\ caps' = [caps EXCEPT ![c].issued = TRUE, ![c].epoch = wk[w].epoch,
                                 ![c].domain = wk[w].domain]
    /\ Proceed(w)
    /\ UNCHANGED <<run, receipt, ckpt, file, lock, effects, moved>>

(* The bound: the supply of tokens is used up, the reply carries none.     *)
SupplyExhausted(w) ==
    /\ At(w, "insert") /\ \A c \in Caps : caps[c].issued
    /\ Proceed(w)
    /\ UNCHANGED <<run, caps, receipt, ckpt, file, lock, effects, moved>>

(* cancel: compares the state it read, whatever is pending or in flight.   *)
Cancel(w) ==
    /\ At(w, "cancel")
    /\ IF run.stage = wk[w].stage
       THEN /\ run' = [run EXCEPT !.stage = "terminal", !.epoch = @ + 1]
            /\ caps' = AllRevoked
       ELSE UNCHANGED <<run, caps>>
    /\ Return(w)
    /\ UNCHANGED <<receipt, ckpt, file, lock, effects, moved>>

-----------------------------------------------------------------------------
(* The environment.                                                        *)

(* A storage or file-system error that is neither Validation nor Conflict. *)
(* The step's transaction rolls back, the guards are dropped.              *)
Executing == {"write", "begin", "publish", "opaque", "checkpoint", "commit",
              "transition", "record", "correct", "next", "refresh", "advance",
              "domain", "issue", "insert", "revoke"}
Fault(w) ==
    /\ "fault" \in Hazards
    /\ wk[w].pc \in Executing \cup {"activate", "snapshot", "inspect", "reconcile"}
    /\ IF wk[w].pc \in Executing THEN Leave(w) ELSE Return(w)
    /\ lock' = Unlocked(w)
    /\ UNCHANGED <<run, caps, receipt, ckpt, file, effects, moved>>

(* Time passes beyond a capability's expiry.                               *)
Expire(c) ==
    /\ "expiry" \in Hazards
    /\ caps[c].issued /\ ~caps[c].expired
    /\ caps' = [caps EXCEPT ![c].expired = TRUE]
    /\ UNCHANGED <<run, receipt, ckpt, file, lock, wk, effects, moved>>

(* The process dies and is started again.                                  *)
Crash ==
    /\ "crash" \in Hazards
    /\ \E w \in Workers : wk[w].pc # "idle"
    /\ wk' = [w \in Workers |-> Idle]
    /\ lock' = [f \in Files |-> NoWorker]
    /\ UNCHANGED <<run, caps, receipt, ckpt, file, effects, moved>>

Call(w) ==
    \/ \E c \in Caps, r \in Requests, b \in BOOLEAN : StartSubmission(w, c, r, b)
    \/ StartRefresh(w) \/ StartCancel(w)

Step(w) ==
    \/ LookupMiss(w) \/ LookupHit(w) \/ Authorize(w) \/ Relookup(w)
    \/ Reserve(w) \/ ReserveRefused(w) \/ Activate(w) \/ ActivateRefused(w)
    \/ WriteDenied(w) \/ WriteRejected(w) \/ LockAndPrepare(w) \/ BeginFile(w)
    \/ Publish(w) \/ BeginOpaque(w) \/ RejectOpaque(w)
    \/ Checkpoint(w) \/ DatabaseWrite(w)
    \/ Arm(w) \/ CommitRefused(w) \/ EnrollAtomic(w) \/ EnrollRestartable(w)
    \/ SaveProgress(w) \/ Transition(w) \/ TransitionRefused(w)
    \/ Record(w) \/ Correct(w) \/ Observe(w) \/ Revoke(w) \/ Finish(w)
    \/ AnswerUnknown(w)
    \/ Snapshot(w) \/ Inspect(w) \/ Reconcile(w)
    \/ ReadRun(w) \/ CheckPending(w) \/ AdvanceMechanical(w) \/ ReachTerminal(w)
    \/ FindDomain(w) \/ CreateDomain(w) \/ ReadClaims(w) \/ InsertCapability(w)
    \/ SupplyExhausted(w) \/ Cancel(w)
    \/ Fault(w)

Next ==
    \/ \E w \in Workers : Call(w) \/ Step(w)
    \/ \E c \in Caps : Expire(c)
    \/ Crash

Spec == Init /\ [][Next]_vars

-----------------------------------------------------------------------------
(* Properties.                                                             *)

Labels == {"idle", "lookup", "authorize", "relookup", "reserve", "activate",
           "observe", "finish", "unrecorded", "snapshot", "inspect", "reconcile",
           "cancel"} \cup Executing

Threads == [pc : Labels, cap : Caps \cup {NoCap}, request : Requests \cup {NoRequest},
            recoverOnly : BOOLEAN, done : Nat, evidence : Markers, snap : Checkpoints,
            observed : Content, stage : Stages, domain : Nat, epoch : Nat,
            outcome : Results]

(* Every variable of the run, the tables, the vault and the threads keeps  *)
(* its type.                                                               *)
TypeOK ==
    /\ run \in RunRecords
    /\ caps \in [Caps -> CapRecords]
    /\ receipt \in [Caps -> Receipts]
    /\ ckpt \in [Caps -> Checkpoints]
    /\ file \in [Files -> Content]
    /\ lock \in [Files -> Workers \cup {NoWorker}]
    /\ wk \in [Workers -> Threads]
    /\ effects \in [Caps -> Nat]
    /\ moved \in [Caps -> Nat]

(* The inductive invariant behind the safety properties.  A thread past    *)
(* `activate' owns its submission: Owning threads have distinct ones.      *)
Serving == {"idle", "next", "refresh", "advance", "domain", "issue", "insert", "cancel"}
Owning == Executing \cup {"activate", "observe", "finish", "unrecorded"}
Owns(w, c) == wk[w].cap = c /\ wk[w].pc \in Owning

(* A thread outside of next_task and cancel works for a capability, with a *)
(* request; the evidence or snapshot its step relies on is there.          *)
Bound(w) ==
    /\ wk[w].pc = "idle" => wk[w] = Idle
    /\ wk[w].cap = NoCap => wk[w].pc \in Serving
    /\ wk[w].cap # NoCap => wk[w].request \in Requests /\ caps[wk[w].cap].issued
    /\ wk[w].pc \in {"begin", "publish", "checkpoint"} => wk[w].evidence.kind = "file"
    /\ wk[w].pc = "inspect" => wk[w].snap.marker.kind = "file"

(* The count the journal implies is exact while a submission is pending.   *)
(* A file marker leaves one write open, and the file itself tells whether  *)
(* that write took effect.                                                 *)
Journal(c) ==
    LET k == ckpt[c]
        m == ckpt[c].marker IN
    /\ moved[c] = 0 /\ k.accepted <= k.expected
    /\ k.phase \in {"prepared", "running", "commit_ready"}
    /\ k.phase = "prepared" =>
          k.accepted = 0 /\ m.kind = "absent" /\ ~k.atomic
    /\ k.phase = "running" => m.kind \in {"between", "opaque", "file"} /\ ~k.atomic
    /\ k.phase = "commit_ready" => m.kind \in {"between", "restartable"}
    /\ m.kind # "file" => effects[c] = k.accepted
    /\ m.kind = "file" =>
          /\ k.accepted < k.expected
          /\ \/ file[m.path] = m.before /\ effects[c] = k.accepted
             \/ file[m.path] = m.after /\ effects[c] = k.accepted + 1

ReceiptExact(c) ==
    /\ receipt[c].status = "absent" =>
          ckpt[c] = NoCheckpoint /\ effects[c] = 0 /\ moved[c] = 0
    /\ Pending(c) => Journal(c)
    /\ Completed(c) =>
          /\ receipt[c].result.writes = effects[c]
          /\ moved[c] = (IF receipt[c].result.complete THEN 1 ELSE 0)
          /\ receipt[c].result.disposition = "correction" => ~receipt[c].result.complete
    /\ moved[c] > 0 => caps[c].issued /\ caps[c].epoch < run.epoch
    /\ caps[c].epoch <= run.epoch

OnePending == \A c, d \in Caps : Pending(c) /\ Pending(d) => c = d

OneOwner == \A v, w \in Workers, c \in Caps : Owns(v, c) /\ Owns(w, c) => v = w

(* What each thread relies on.                                             *)
ThreadOK(w) ==
    LET t == wk[w]
        c == wk[w].cap
        e == wk[w].evidence
        m == wk[w].snap.marker IN
    /\ (c # NoCap /\ t.pc \in Owning) => receipt[c].status # "absent"
    /\ (c # NoCap /\ t.pc \in Owning \ {"activate", "observe"}) =>
          ckpt[c].phase \in {"running", "commit_ready"}
    /\ (c # NoCap /\ t.outcome.complete) => Completed(c)
    /\ t.outcome.complete => t.outcome.disposition = "applied"
    /\ t.pc = "begin" => lock[e.path] = w /\ file[e.path] = e.before
    /\ t.pc \in {"publish", "checkpoint"} =>
          /\ Pending(c) /\ ckpt[c].phase = "running" /\ ckpt[c].marker = e
          /\ ckpt[c].accepted = t.done /\ lock[e.path] = w
          /\ run.stage = "terminal" \/ (run.stage = "task" /\ caps[c].epoch = run.epoch)
    /\ t.pc = "publish" => file[e.path] = e.before /\ effects[c] = t.done
    /\ t.pc = "checkpoint" => file[e.path] = e.after /\ effects[c] = t.done + 1
    /\ (t.pc = "reconcile" /\ m.kind = "file") =>
          lock[m.path] = w /\ t.observed = file[m.path]
    /\ t.epoch <= run.epoch

TypeInv == TypeOK /\ \A w \in Workers : Bound(w)

(* Every receipt is exact, one submission is pending, one thread owns a    *)
(* submission, and no thread relies on something stale.                    *)
Inv ==
    /\ TypeInv
    /\ \A c \in Caps : ReceiptExact(c)
    /\ OnePending /\ OneOwner
    /\ \A w \in Workers : ThreadOK(w)

(* The ledger a client sees: receipts, with the number of caller writes    *)
(* that really took effect and of transitions really made beside them.     *)
Book == [c \in Caps |->
          [status |-> receipt[c].status, landed |-> effects[c], moved |-> moved[c],
           outcome |-> IF Completed(c)
                       THEN [disposition |-> receipt[c].result.disposition,
                             writes |-> receipt[c].result.writes,
                             complete |-> receipt[c].result.complete]
                       ELSE [disposition |-> "none", writes |-> 0, complete |-> FALSE]]]

Ledger == INSTANCE SubmissionLedger WITH Submissions <- Caps, ledger <- Book

(* The protocol implements the ledger: whatever the interleaving of        *)
(* threads, recoveries and crashes, at most one submission of the run is   *)
(* open, a receipt closes once, and it then states the exact number of     *)
(* caller writes that took effect and "complete" iff the run moved for it. *)
ImplementsLedger == Ledger!Spec

(* Recovery never settles a submission whose file write is in flight: as   *)
(* long as a thread is between begin_submission_write and the              *)
(* acknowledgement, the receipt is pending, the journal holds the evidence *)
(* that thread prepared, and the file holds the image the evidence names,  *)
(* so that the comparison in publish never fails.                          *)
InFlightFenced ==
    \A w \in Workers :
        (wk[w].pc \in {"publish", "checkpoint"} /\ wk[w].evidence.kind = "file")
            => /\ Pending(wk[w].cap)
               /\ ckpt[wk[w].cap].marker = wk[w].evidence
               /\ lock[wk[w].evidence.path] = w
               /\ file[wk[w].evidence.path] = IF At(w, "publish")
                                              THEN wk[w].evidence.before
                                              ELSE wk[w].evidence.after

(* No two submissions move the run from the same epoch: a plan of one      *)
(* capability never commits on top of the transition of another.           *)
OneCommitPerEpoch ==
    \A c, d \in Caps :
        (c # d /\ moved[c] > 0 /\ moved[d] > 0) => caps[c].epoch # caps[d].epoch

(* A caller write takes effect in the epoch its capability was issued for, *)
(* unless the owner cancelled the run under it.                            *)
WritesInEpoch ==
    [][\A c \in Caps : effects'[c] # effects[c]
            => (caps[c].epoch = run.epoch \/ run.stage = "terminal")]_vars

(* What recover_only cannot settle, once no thread executes a submission,  *)
(* is one of: an opaque write, an equal-byte overwrite, and an action      *)
(* that was armed and not enrolled.                                        *)
Executes(w, c) == wk[w].cap = c /\ wk[w].pc \in Executing \cup {"activate"}
Abandoned(c) == Pending(c) /\ \A w \in Workers : ~Executes(w, c)
Unsettled(c) == Evidenced(ckpt[c], IF ckpt[c].marker.kind = "file"
                                   THEN file[ckpt[c].marker.path] ELSE <<>>) = {}
OnlyKnownGaps ==
    \A c \in Caps : (Abandoned(c) /\ Unsettled(c)) =>
        \/ ckpt[c].marker.kind = "opaque"
        \/ ckpt[c].marker.kind = "file" /\ ckpt[c].marker.before = ckpt[c].marker.after
        \/ /\ ckpt[c].phase = "commit_ready" /\ ~ckpt[c].atomic
           /\ ckpt[c].marker = Plain("between")

(* Every call is answered.                                                 *)
EveryCallReturns == \A w \in Workers : wk[w].pc # "idle" ~> wk[w].pc = "idle"
=============================================================================
