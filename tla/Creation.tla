------------------------------ MODULE Creation ------------------------------
(***************************************************************************)
(* Creating a run (rethlas_start). With a creation key, the key is bound   *)
(* durably to one request and one run id before anything is written; the   *)
(* run's files are then published one by one under a file lock, its rows   *)
(* are inserted in one transaction and the transition created -> assess    *)
(* completes the receipt. A process that dies leaves a pending receipt;    *)
(* the same key resumes it. Without a key nothing is recorded beforehand.  *)
(***************************************************************************)
EXTENDS Naturals, FiniteSets, FiniteSetsExt

CONSTANTS
    Starters,       \* threads of the server that serve rethlas_start
    CreationKeys,
    CreationInputs, \* request hashes: everything the client sent
    RunIds,         \* 1 .. n, the ids the generator hands out in order
    InitFiles,      \* 1 .. n, published in this order
    MaxReceipts,    \* 100_000 in all, 10_000 per owner in the code
    MaxCreationFaults

ASSUME CreationSizes ==
    /\ RunIds = 1 .. Cardinality(RunIds) /\ IsFiniteSet(RunIds) /\ RunIds # {}
    /\ InitFiles = 1 .. Cardinality(InitFiles) /\ IsFiniteSet(InitFiles) /\ InitFiles # {}
    /\ IsFiniteSet(CreationKeys) /\ MaxReceipts \in Nat /\ MaxCreationFaults \in Nat

(* No request, key or thread is taken for the absence of one.              *)
ASSUME CreationNames ==
    /\ {"none", "no", "yes", "unlinked"} \cap CreationInputs = {}
    /\ "none" \notin CreationKeys /\ "free" \notin Starters

VARIABLES
    receipt,        \* creation_receipts: key -> row
    enrolled,       \* creation_initializations: run -> "no", "yes" or a hash
    created,        \* runs: run -> state and the input its rows describe
    initFile,       \* the run's final files
    initTemp,       \* their temporaries: inode state
    initLock,       \* .creation.lock: who holds it
    starter,        \* what each thread is doing
    won,            \* answers that said runs_created = 1, per key
    creationFaults

creationVars == <<receipt, enrolled, created, initFile, initTemp, initLock, starter, won, creationFaults>>

NoReceipt == [run |-> 0, input |-> "none", status |-> "none"]
NoRun == [state |-> "absent", input |-> "none"]
Idle == [pc |-> "idle", key |-> "none", input |-> "none", run |-> 0,
         file |-> 1, result |-> "none"]

(* A receipt left by a release without resumable initialization is pending *)
(* and has no row in creation_initializations.                             *)
Legacy(k) == receipt[k].status = "pending" /\ enrolled[receipt[k].run] = "no"

CreationInit ==
    /\ receipt \in [CreationKeys -> {NoReceipt} \cup
            [run : {Max(RunIds)}, input : CreationInputs, status : {"pending"}]]
    /\ Cardinality({k \in CreationKeys : receipt[k] # NoReceipt}) <= 1
    /\ enrolled = [r \in RunIds |-> "no"]
    /\ created = [r \in RunIds |-> NoRun]
    /\ initFile = [r \in RunIds |-> [f \in InitFiles |-> "none"]]
    /\ initTemp = [r \in RunIds |-> [f \in InitFiles |-> "none"]]
    /\ initLock = [r \in RunIds |-> "free"]
    /\ starter = [t \in Starters |-> Idle]
    /\ won = [k \in CreationKeys |-> 0]
    /\ creationFaults = 0

-----------------------------------------------------------------------------
UsedRuns == {receipt[k].run : k \in CreationKeys} \cup {starter[t].run : t \in Starters}
            \cup {r \in RunIds : created[r] # NoRun \/ initFile[r][1] # "none" \/ initTemp[r][1] # "none"}
FreshRuns == RunIds \ UsedRuns

Goto(t, pc) == starter' = [starter EXCEPT ![t].pc = pc]

Answer(t, result) ==
    starter' = [starter EXCEPT ![t] = [@ EXCEPT !.pc = "answered", !.result = result,
                                                !.run = 0, !.file = 1]]

(* Leave the closure that holds the guard: the lock is released and the    *)
(* receipt is observed whatever happened.                                  *)
LeaveGuard(t, pc, result) ==
    /\ starter' = [starter EXCEPT ![t].pc = pc, ![t].result = result]
    /\ initLock' = [r \in RunIds |-> IF initLock[r] = t THEN "free" ELSE initLock[r]]

Matches(t) == receipt[starter[t].key].input = starter[t].input

(* creation_receipt: a completed receipt answers before the inputs are     *)
(* looked at again; a completed one must still have its run.               *)
LookUp(t, k, q) ==
    /\ starter[t].pc = "idle"
    /\ LET row == receipt[k]
           call == [Idle EXCEPT !.key = k, !.input = q]
           done(result) == [call EXCEPT !.pc = "answered", !.result = result]
       IN starter' = [starter EXCEPT ![t] =
            IF row # NoReceipt /\ row.input # q THEN done("conflict")
            ELSE IF row.status = "completed" THEN done("replayed")
            ELSE [call EXCEPT !.pc = "reserve"]]
    /\ UNCHANGED <<receipt, enrolled, created, initFile, initTemp, initLock, won, creationFaults>>

ReserveUnchecked(t) ==
    LET r == Min(FreshRuns)
    IN /\ starter[t].pc = "reserve" /\ FreshRuns # {}
       /\ receipt' = [receipt EXCEPT ![starter[t].key] =
              [run |-> r, input |-> starter[t].input, status |-> "pending"]]
       /\ enrolled' = [enrolled EXCEPT ![r] = "yes"]
       /\ starter' = [starter EXCEPT ![t].pc = "lock", ![t].run = r]
       /\ UNCHANGED <<created, initFile, initTemp, initLock, won, creationFaults>>

(* reserve_creation: one transaction binds the key to the input and to a   *)
(* new run and enrolls it, or finds what another attempt has bound.        *)
Reserve(t) ==
    LET k == starter[t].key
        row == receipt[k]
    IN /\ starter[t].pc = "reserve"
       /\ \/ /\ row # NoReceipt
             /\ IF ~Matches(t) THEN Answer(t, "conflict")
                ELSE IF row.status = "completed" THEN Answer(t, "replayed")
                ELSE Goto(t, "resume")
             /\ UNCHANGED <<receipt, enrolled>>
          \/ /\ row = NoReceipt
             /\ Cardinality({j \in CreationKeys : receipt[j] # NoReceipt}) >= MaxReceipts
             /\ Answer(t, "capacity")
             /\ UNCHANGED <<receipt, enrolled>>
          \/ /\ row = NoReceipt /\ FreshRuns # {}
             /\ Cardinality({j \in CreationKeys : receipt[j] # NoReceipt}) < MaxReceipts
             /\ LET r == Min(FreshRuns)
                IN /\ receipt' = [receipt EXCEPT ![k] =
                          [run |-> r, input |-> starter[t].input, status |-> "pending"]]
                   /\ enrolled' = [enrolled EXCEPT ![r] = "yes"]
                   /\ starter' = [starter EXCEPT ![t].pc = "lock", ![t].run = r]
       /\ UNCHANGED <<created, initFile, initTemp, initLock, won, creationFaults>>

ResumeNever(t) ==
    /\ starter[t].pc = "resume" /\ Answer(t, "unknown")
    /\ UNCHANGED <<receipt, enrolled, created, initFile, initTemp, initLock, won, creationFaults>>

(* resume_creation: only an enrolled initialization is taken over.         *)
ResumeCreation(t) ==
    LET row == receipt[starter[t].key]
    IN /\ starter[t].pc = "resume"
       /\ \/ Legacy(starter[t].key) /\ Answer(t, "unknown")
          \/ /\ ~Legacy(starter[t].key)
             /\ starter' = [starter EXCEPT ![t].pc = "lock", ![t].run = row.run]
       /\ UNCHANGED <<receipt, enrolled, created, initFile, initTemp, initLock, won, creationFaults>>

(* lock_initialization never waits: a held lock is an unknown result.      *)
LockInitialization(t) ==
    LET r == starter[t].run
    IN /\ starter[t].pc = "lock"
       /\ \/ /\ initLock[r] = "free"
             /\ initLock' = [initLock EXCEPT ![r] = t]
             /\ Goto(t, "observe_locked")
          \/ /\ initLock[r] # "free"
             /\ starter' = [starter EXCEPT ![t].pc = "observe", ![t].result = "unknown"]
             /\ UNCHANGED initLock
       /\ UNCHANGED <<receipt, enrolled, created, initFile, initTemp, won, creationFaults>>

(* Another attempt may have completed between the lookup and the lock.     *)
ObserveLocked(t) ==
    /\ starter[t].pc = "observe_locked"
    /\ \/ /\ receipt[starter[t].key].status = "completed"
          /\ LeaveGuard(t, "observe", "lost")
       \/ /\ receipt[starter[t].key].status # "completed"
          /\ Goto(t, "check") /\ UNCHANGED initLock
    /\ UNCHANGED <<receipt, enrolled, created, initFile, initTemp, won, creationFaults>>

(* check_existing: absent, or this input's bytes in a private file whose   *)
(* only other name is its own temporary.                                   *)
Existing(t, f) ==
    LET r == starter[t].run
    IN initFile[r][f] # "none"
Compatible(t, f) ==
    LET r == starter[t].run
    IN initFile[r][f] \in {"none", starter[t].input}

(* Conflicting files are all detected before a missing one is published.   *)
CheckExisting(t) ==
    /\ starter[t].pc = "check"
    /\ IF \A f \in InitFiles : Compatible(t, f)
       THEN Goto(t, "publish") /\ UNCHANGED initLock
       ELSE LeaveGuard(t, "observe", "file_conflict")
    /\ UNCHANGED <<receipt, enrolled, created, initFile, initTemp, won, creationFaults>>

SetTemp(t, state) ==
    initTemp' = [initTemp EXCEPT ![starter[t].run][starter[t].file] = state]

NextFile(t) ==
    starter' = IF starter[t].file = Max(InitFiles)
               THEN [starter EXCEPT ![t].pc = "records", ![t].file = 1]
               ELSE [starter EXCEPT ![t].pc = "publish", ![t].file = @ + 1]

(* publish_one: drop a stale temporary and create a new one, then write it *)
(* and link it to the final name, then unlink it. A death can fall between *)
(* any two; a half-written temporary never has a final name.               *)
PublishOne(t) ==
    LET f == starter[t].file
    IN /\ starter[t].pc = "publish"
       /\ IF ~Compatible(t, f)
          THEN LeaveGuard(t, "observe", "file_conflict") /\ UNCHANGED initTemp
          ELSE IF Existing(t, f)
          THEN SetTemp(t, "none") /\ NextFile(t) /\ UNCHANGED initLock
          ELSE SetTemp(t, "partial") /\ Goto(t, "link") /\ UNCHANGED initLock
       /\ UNCHANGED <<receipt, enrolled, created, initFile, won, creationFaults>>

LinkFinal(t) ==
    LET r == starter[t].run
        f == starter[t].file
    IN /\ starter[t].pc = "link"
       /\ \/ /\ initFile[r][f] = "none"
             /\ initFile' = [initFile EXCEPT ![r][f] = starter[t].input]
             /\ SetTemp(t, "linked") /\ Goto(t, "unlink") /\ UNCHANGED initLock
          \/ /\ initFile[r][f] # "none"
             /\ LeaveGuard(t, "observe", "file_conflict") /\ UNCHANGED <<initFile, initTemp>>
       /\ UNCHANGED <<receipt, enrolled, created, won, creationFaults>>

UnlinkTemporary(t) ==
    /\ starter[t].pc = "unlink"
    /\ SetTemp(t, "none") /\ NextFile(t)
    /\ UNCHANGED <<receipt, enrolled, created, initFile, initLock, won, creationFaults>>

(* prepare_creation_records: one transaction inserts the run, its project  *)
(* link, snapshot and references, and the hash of what it inserted. On a   *)
(* repetition the hash must still describe the rows of a created run.      *)
PrepareRecords(t) ==
    LET r == starter[t].run
        row == receipt[starter[t].key]
        go == LeaveGuard(t, "transition", "none")
        refuse(result) == LeaveGuard(t, "observe", result) /\ UNCHANGED <<enrolled, created>>
    IN /\ starter[t].pc = "records"
       /\ \/ row.status # "pending" /\ refuse("invalid")
          \/ /\ row.status = "pending" /\ enrolled[r] \notin {"no", "yes"}
             /\ IF created[r].state # "created" THEN refuse("invalid")
                ELSE IF enrolled[r] # starter[t].input \/ created[r].input # enrolled[r]
                THEN refuse("record_conflict")
                ELSE go /\ UNCHANGED <<enrolled, created>>
          \/ /\ row.status = "pending" /\ enrolled[r] = "yes"
             /\ IF created[r] # NoRun THEN refuse("invalid")
                ELSE /\ created' = [created EXCEPT ![r] =
                            [state |-> "created", input |-> starter[t].input]]
                     /\ enrolled' = [enrolled EXCEPT ![r] = starter[t].input]
                     /\ go
       /\ UNCHANGED <<receipt, initFile, initTemp, won, creationFaults>>

(* transition: created -> assess, outside the lock. The same transaction   *)
(* completes the receipt (record_initialization).                          *)
InitializedRun(t) ==
    LET r == starter[t].run
        k == starter[t].key
    IN /\ starter[t].pc = "transition"
       /\ \/ /\ created[r].state = "created"
             /\ created' = [created EXCEPT ![r].state = "assess"]
             /\ receipt' = [receipt EXCEPT ![k].status = "completed"]
             /\ starter' = [starter EXCEPT ![t].pc = "observe", ![t].result = "won"]
          \/ /\ created[r].state # "created"
             /\ starter' = [starter EXCEPT ![t].pc = "observe", ![t].result = "state_conflict"]
             /\ UNCHANGED <<created, receipt>>
       /\ UNCHANGED <<enrolled, initFile, initTemp, initLock, won, creationFaults>>

(* The last word is the receipt: a completed one turns the error of an     *)
(* attempt that lost into a replayed answer.                               *)
ObserveCreation(t) ==
    LET k == starter[t].key
    IN /\ starter[t].pc = "observe"
       /\ IF receipt[k].status = "completed"
          THEN IF starter[t].result = "won"
               THEN /\ Answer(t, "created")
                    /\ won' = [won EXCEPT ![k] = @ + 1]
               ELSE Answer(t, "replayed") /\ UNCHANGED won
          ELSE Answer(t, starter[t].result) /\ UNCHANGED won
       /\ UNCHANGED <<receipt, enrolled, created, initFile, initTemp, initLock, creationFaults>>

Forget(t) ==
    /\ starter[t].pc = "answered"
    /\ starter' = [starter EXCEPT ![t] = Idle]
    /\ UNCHANGED <<receipt, enrolled, created, initFile, initTemp, initLock, won, creationFaults>>

-----------------------------------------------------------------------------
(* A start without a key: files, then the run row, then its project link   *)
(* and references, then the transition. Nothing resumes it.                *)
StartUnkeyed(t, q) ==
    /\ starter[t].pc = "idle" /\ FreshRuns # {}
    /\ LET r == Min(FreshRuns)
       IN /\ initFile' = [initFile EXCEPT ![r][1] = q]
          /\ starter' = [starter EXCEPT ![t] =
                [Idle EXCEPT !.pc = "more_files", !.input = q, !.run = r]]
    /\ UNCHANGED <<receipt, enrolled, created, initTemp, initLock, won, creationFaults>>

InitializeRun(t) ==
    LET r == starter[t].run
    IN /\ starter[t].pc = "more_files"
       /\ initFile' = [initFile EXCEPT ![r] = [f \in InitFiles |-> starter[t].input]]
       /\ Goto(t, "create_run")
       /\ UNCHANGED <<receipt, enrolled, created, initTemp, initLock, won, creationFaults>>

CreateRun(t) ==
    /\ starter[t].pc = "create_run"
    /\ created' = [created EXCEPT ![starter[t].run] = [state |-> "created", input |-> "unlinked"]]
    /\ Goto(t, "register")
    /\ UNCHANGED <<receipt, enrolled, initFile, initTemp, initLock, won, creationFaults>>

(* link_run_to_project and register_inline_references.                     *)
RegisterReferences(t) ==
    /\ starter[t].pc = "register"
    /\ created' = [created EXCEPT ![starter[t].run].input = starter[t].input]
    /\ Goto(t, "go")
    /\ UNCHANGED <<receipt, enrolled, initFile, initTemp, initLock, won, creationFaults>>

StartedRun(t) ==
    LET r == starter[t].run
    IN /\ starter[t].pc = "go"
       /\ \/ /\ created[r].state = "created"
             /\ created' = [created EXCEPT ![r].state = "assess"]
             /\ Answer(t, "created")
          \/ /\ created[r].state # "created"
             /\ Answer(t, "state_conflict") /\ UNCHANGED created
       /\ UNCHANGED <<receipt, enrolled, initFile, initTemp, initLock, won, creationFaults>>

-----------------------------------------------------------------------------
CancelRun(r) ==
    /\ created[r].state \in {"created", "assess"}
    /\ created' = [created EXCEPT ![r].state = "cancelled"]
    /\ UNCHANGED <<receipt, enrolled, initFile, initTemp, initLock, starter, won, creationFaults>>

(* An I/O or database error at a step of the guarded part.                 *)
InitializationFails(t) ==
    /\ creationFaults < MaxCreationFaults /\ creationFaults' = creationFaults + 1
    /\ starter[t].pc \in {"observe_locked", "check", "publish", "link", "unlink", "records"}
    /\ LeaveGuard(t, "observe", "io_error")
    /\ UNCHANGED <<receipt, enrolled, created, initFile, initTemp, won>>

ServerDies ==
    /\ creationFaults < MaxCreationFaults /\ creationFaults' = creationFaults + 1
    /\ starter' = [t \in Starters |-> Idle]
    /\ initLock' = [r \in RunIds |-> "free"]
    /\ UNCHANGED <<receipt, enrolled, created, initFile, initTemp, won>>

CreationStep(t) ==
    \/ Reserve(t) \/ ResumeCreation(t) \/ LockInitialization(t) \/ ObserveLocked(t)
    \/ CheckExisting(t) \/ PublishOne(t) \/ LinkFinal(t)
    \/ UnlinkTemporary(t) \/ PrepareRecords(t) \/ InitializedRun(t) \/ ObserveCreation(t)
    \/ Forget(t) \/ InitializeRun(t) \/ CreateRun(t) \/ RegisterReferences(t) \/ StartedRun(t)

CreationNext ==
    \/ \E t \in Starters :
        \/ \E k \in CreationKeys, q \in CreationInputs : LookUp(t, k, q)
        \/ \E q \in CreationInputs : StartUnkeyed(t, q)
        \/ CreationStep(t)
        \/ InitializationFails(t)
    \/ \E r \in RunIds : CancelRun(r)
    \/ ServerDies

CreationSpec == CreationInit /\ [][CreationNext]_creationVars

(* The client repeats its own request.                                     *)
RetryOf(k, q) == \E t \in Starters : q = receipt[k].input /\ LookUp(t, k, q)

-----------------------------------------------------------------------------
(* A run that has left "created" is whole: every file and every row of it  *)
(* describes one and the same request, the one its receipt is bound to,    *)
(* whichever attempts, deaths and errors wrote the parts.                  *)
CreationComplete ==
    \A r \in RunIds : created[r].state = "assess" =>
        /\ \A f \in InitFiles : initFile[r][f] = created[r].input
        /\ \A k \in CreationKeys : receipt[k].run = r =>
            receipt[k].input = created[r].input /\ receipt[k].status = "completed"

(* A key never makes a second run, and at most one answer ever claims to   *)
(* have created it: a retry is told that the run was there already.        *)
CreatedOncePerKey ==
    /\ \A k \in CreationKeys : won[k] <= 1
    /\ \A j, k \in CreationKeys : j # k /\ receipt[j] # NoReceipt => receipt[j].run # receipt[k].run
    /\ \A k \in CreationKeys :
        Cardinality({r \in RunIds : enrolled[r] # "no"}) <=
        Cardinality({j \in CreationKeys : receipt[j] # NoReceipt})

(* Whatever point an attempt died or failed at, a repetition with the same *)
(* request is never refused for what the dead attempt left behind: a       *)
(* conflict needs a cancelled run.                                         *)
CreationResumable ==
    \A t \in Starters :
        starter[t].pc = "answered" /\ starter[t].key # "none" /\ Matches(t) =>
            \/ starter[t].result \notin {"file_conflict", "record_conflict", "invalid", "state_conflict"}
            \/ \E r \in RunIds : r = receipt[starter[t].key].run /\ created[r].state = "cancelled"

(* A client that keeps retrying its key gets its run: once no more faults  *)
(* come, a reserved creation is completed unless its run is cancelled.     *)
CreationConverges ==
    \A k \in CreationKeys :
        (receipt[k].status = "pending" /\ ~Legacy(k)) ~>
            \/ receipt[k].status = "completed"
            \/ \E r \in RunIds : r = receipt[k].run /\ created[r].state = "cancelled"

(* A keyed creation makes one whole run, and whatever a dead attempt left  *)
(* behind a repetition can finish it (create_run, reconcile_creation).     *)
CreationSound ==
    /\ CreationComplete
    /\ CreatedOncePerKey
    /\ CreationResumable
=============================================================================
