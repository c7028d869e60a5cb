---------------------------- MODULE ActionEffect ----------------------------
(***************************************************************************)
(* The private files a restartable action writes between its enrollment    *)
(* and its transition. Each write has a slot, named by run, epoch, state   *)
(* and action, that keeps the image of the file before and after; a        *)
(* repetition of the action in the same epoch must find the file at one of *)
(* the two. Recovery settles a submission whose thread may be alive: the   *)
(* thread then runs on, without a receipt, beside the repetition.          *)
(***************************************************************************)
EXTENDS Naturals, Sequences, SequencesExt, FiniteSets

CONSTANTS
    Executors,     \* threads that execute submissions
    Proposals,     \* what a caller may submit as the action's payload
    SlotList,      \* the action's effects in order: [file, append]
    MaxEffectEpoch, MaxStamp, MaxNotes, \* bounds of the instance
    MaxSlots       \* MAX_ACTION_SLOTS_PER_RUN, 1024 in the code

ASSUME EffectSizes ==
    /\ SlotList \in Seq([file : STRING, append : BOOLEAN]) /\ SlotList # <<>>
    /\ {MaxEffectEpoch, MaxStamp, MaxNotes, MaxSlots} \subseteq Nat \ {0}

(* A memory file is only appended to, any other file only replaced; and no *)
(* thread is called what stands for none.                                  *)
ASSUME EffectNames ==
    /\ \A i, j \in 1 .. Len(SlotList) :
          SlotList[i].file = SlotList[j].file => SlotList[i].append = SlotList[j].append
    /\ Executors \cap {"none", "dead", "free"} = {}

VARIABLES
    effEpoch,     \* the run's transition epoch
    stamp,        \* the run's updated_at
    effFile,      \* the files' records
    slot,         \* the persisted slots, per epoch and position
    effLock,      \* flock of each file
    pendingOf,    \* who owns the pending receipt
    executor,     \* the threads
    sealed,       \* per epoch, the proposal whose transition committed
    notes,        \* caller writes so far, bounded by MaxNotes
    spent         \* slots the run used up in earlier epochs

effectVars == <<effEpoch, stamp, effFile, slot, effLock, pendingOf, executor, sealed, notes, spent>>

Positions == 1 .. Len(SlotList)
EffectFiles == {SlotList[i].file : i \in Positions}
Epochs == 0 .. MaxEffectEpoch
NoSlot == [content |-> "none"]
Resting == [pc |-> "rest", proposal |-> "none", epoch |-> 0, stamp |-> 0, at |-> 1]
(* A record the caller appended through an ordinary memory write.          *)
Note(n) == [by |-> "caller", epoch |-> n, at |-> 0, proposal |-> "none", stamp |-> 0]

EffectInit ==
    /\ effEpoch = 0 /\ stamp = 0 /\ notes = 0 /\ spent \in {0, MaxSlots - 1}
    /\ effFile = [f \in EffectFiles |-> <<>>]
    /\ slot = [ep \in Epochs |-> [i \in Positions |-> NoSlot]]
    /\ effLock = [f \in EffectFiles |-> "free"]
    /\ pendingOf = "none"
    /\ executor = [e \in Executors |-> Resting]
    /\ sealed = [ep \in Epochs |-> "none"]

-----------------------------------------------------------------------------
(* What the action writes at a position: the caller's proposal under a     *)
(* server stamp made of the binding and of the run's updated_at.           *)
Content(e) ==
    [by |-> "action", epoch |-> executor[e].epoch, at |-> executor[e].at,
     proposal |-> executor[e].proposal, stamp |-> executor[e].stamp]

(* FileEffectGuard::prepare: the image after the write.                    *)
AfterImage(before, record, append) ==
    IF append THEN Append(before, record) ELSE <<record>>

(* Every other slot of the file sees its file changed by somebody else.    *)
Disturbed(f, ep, i) ==
    [p \in Epochs |-> [j \in Positions |->
        IF <<p, j>> # <<ep, i>> /\ slot[p][j] # NoSlot /\ SlotList[j].file = f
        THEN [slot[p][j] EXCEPT !.disturbed = TRUE] ELSE slot[p][j]]]

Begin(e, p) ==
    /\ executor[e].pc = "rest" /\ pendingOf = "none" /\ effEpoch < MaxEffectEpoch
    /\ pendingOf' = e
    /\ executor' = [executor EXCEPT ![e] = [Resting EXCEPT !.pc = "writes", !.proposal = p]]
    /\ UNCHANGED <<effEpoch, stamp, effFile, slot, effLock, sealed, notes>>

(* A memory write of the submission itself, under the file's lock.         *)
CallerNote(e, f) ==
    /\ executor[e].pc = "writes" /\ pendingOf = e /\ effLock[f] = "free"
    /\ notes < MaxNotes /\ notes' = notes + 1
    /\ \E i \in Positions : SlotList[i].file = f /\
          effFile' = [effFile EXCEPT ![f] = AfterImage(@, Note(notes), SlotList[i].append)]
    /\ slot' = Disturbed(f, 0, 0)
    /\ UNCHANGED <<effEpoch, stamp, effLock, pendingOf, executor, sealed>>

(* An incomplete submission saves its progress and moves updated_at.       *)
SaveMetadata(e) ==
    /\ executor[e].pc = "writes" /\ pendingOf = e /\ stamp < MaxStamp
    /\ stamp' = stamp + 1
    /\ pendingOf' = "none"
    /\ executor' = [executor EXCEPT ![e] = Resting]
    /\ UNCHANGED <<effEpoch, effFile, slot, effLock, sealed, notes>>

(* commit reads the run, builds the records and enrolls the action.        *)
Enroll(e) ==
    /\ executor[e].pc = "writes"
    /\ executor' = [executor EXCEPT ![e] =
            IF pendingOf = e THEN [@ EXCEPT !.pc = "effects", !.epoch = effEpoch, !.stamp = stamp]
            ELSE Resting]
    /\ UNCHANGED <<effEpoch, stamp, effFile, slot, effLock, pendingOf, sealed, notes>>

(* The error is recorded as a correction if the receipt is still this      *)
(* thread's.                                                               *)
RefuseEffect(e) ==
    /\ executor' = [executor EXCEPT ![e].pc = "refused"]
    /\ UNCHANGED <<effFile, slot, effLock>>

FinishRefused(e) ==
    /\ executor[e].pc = "refused"
    /\ executor' = [executor EXCEPT ![e] = Resting]
    /\ pendingOf' = IF pendingOf = e THEN "none" ELSE pendingOf
    /\ UNCHANGED <<effEpoch, stamp, effFile, slot, effLock, sealed, notes>>

NextEffect(e) ==
    LET i == executor[e].at
        last == i = Len(SlotList)
    IN executor' = [executor EXCEPT ![e].pc = IF last THEN "seal" ELSE "effects",
                                    ![e].at = IF last THEN i ELSE i + 1]

SlotCount == spent + Cardinality({u \in Epochs \X Positions : slot[u[1]][u[2]] # NoSlot})

(* Mutant of EnsureEffect: the slot is consulted before the lock is taken. *)
EnsureUnlocked(e) ==
    LET i == executor[e].at
        ep == executor[e].epoch
        f == SlotList[i].file
        s == slot[ep][i]
    IN /\ executor[e].pc = "effects"
       /\ \/ s # NoSlot /\ s.content # Content(e) /\ RefuseEffect(e)
          \/ s # NoSlot /\ s.content = Content(e) /\ effFile[f] = s.after
             /\ NextEffect(e) /\ UNCHANGED <<effFile, slot, effLock>>
          \/ s # NoSlot /\ s.content = Content(e) /\ effFile[f] \notin {s.after, s.before} /\ RefuseEffect(e)
          \/ /\ IF s = NoSlot THEN TRUE ELSE s.content = Content(e) /\ effFile[f] = s.before
             /\ slot' = [slot EXCEPT ![ep][i] =
                   [content |-> Content(e), before |-> effFile[f], disturbed |-> FALSE,
                    after |-> AfterImage(effFile[f], Content(e), SlotList[i].append)]]
             /\ executor' = [executor EXCEPT ![e].pc = "publish"]
             /\ UNCHANGED <<effFile, effLock>>
       /\ UNCHANGED <<effEpoch, stamp, pendingOf, sealed, notes>>

(* ensure_action_effect, up to the rename: under the file's lock an        *)
(* existing slot must describe this very write and the file must be at its *)
(* after image (done) or its before image (publish again); without a slot  *)
(* one is created first.                                                   *)
EnsureEffect(e) ==
    LET i == executor[e].at
        ep == executor[e].epoch
        f == SlotList[i].file
        s == slot[ep][i]
    IN /\ executor[e].pc = "effects" /\ effLock[f] = "free"
       /\ \/ /\ s # NoSlot
             /\ s.content # Content(e) \/ effFile[f] \notin {s.after, s.before}
             /\ RefuseEffect(e)
          \/ /\ s # NoSlot /\ s.content = Content(e) /\ effFile[f] = s.after
             /\ NextEffect(e) /\ UNCHANGED <<effFile, slot, effLock>>
          \/ /\ s # NoSlot /\ s.content = Content(e) /\ effFile[f] = s.before /\ s.before # s.after
             /\ executor' = [executor EXCEPT ![e].pc = "publish"]
             /\ effLock' = [effLock EXCEPT ![f] = e] /\ UNCHANGED <<effFile, slot>>
          \/ s = NoSlot /\ SlotCount >= MaxSlots /\ RefuseEffect(e)
          \/ /\ s = NoSlot /\ SlotCount < MaxSlots
             /\ slot' = [slot EXCEPT ![ep][i] =
                   [content |-> Content(e), before |-> effFile[f], disturbed |-> FALSE,
                    after |-> AfterImage(effFile[f], Content(e), SlotList[i].append)]]
             /\ executor' = [executor EXCEPT ![e].pc = "publish"]
             /\ effLock' = [effLock EXCEPT ![f] = e] /\ UNCHANGED effFile
       /\ UNCHANGED <<effEpoch, stamp, pendingOf, sealed, notes>>

(* publish: the rename, and the guard is dropped.                          *)
PublishEffect(e) ==
    LET i == executor[e].at
        ep == executor[e].epoch
        f == SlotList[i].file
    IN /\ executor[e].pc = "publish"
       /\ effFile' = [effFile EXCEPT ![f] = slot[ep][i].after]
       /\ slot' = Disturbed(f, ep, i)
       /\ effLock' = [effLock EXCEPT ![f] = "free"]
       /\ NextEffect(e)
       /\ UNCHANGED <<effEpoch, stamp, pendingOf, sealed, notes>>

(* seal_restartable_transition: one transaction consumes the marker, seals *)
(* the domain and completes the receipt; it fails without the receipt.     *)
SealTransition(e) ==
    /\ executor[e].pc = "seal"
    /\ executor' = [executor EXCEPT ![e] = Resting]
    /\ IF pendingOf = e /\ executor[e].epoch = effEpoch
       THEN /\ sealed' = [sealed EXCEPT ![effEpoch] = executor[e].proposal]
            /\ effEpoch' = effEpoch + 1
            /\ stamp' = IF stamp < MaxStamp THEN stamp + 1 ELSE stamp
            /\ pendingOf' = "none"
       ELSE UNCHANGED <<sealed, effEpoch, stamp, pendingOf>>
    /\ UNCHANGED <<effFile, slot, effLock, notes>>

(* Another action without file effects leaves the epoch.                   *)
OtherAction(e) ==
    /\ executor[e].pc = "writes" /\ pendingOf = e
    /\ effEpoch' = effEpoch + 1 /\ pendingOf' = "none"
    /\ executor' = [executor EXCEPT ![e] = Resting]
    /\ UNCHANGED <<stamp, effFile, slot, effLock, sealed, notes>>

(* recover_only closes the pending receipt, dead thread or not.            *)
RecoverPending ==
    /\ pendingOf # "none" /\ pendingOf' = "none"
    /\ UNCHANGED <<effEpoch, stamp, effFile, slot, effLock, executor, sealed, notes>>

EffectsCrash ==
    /\ executor' = [e \in Executors |-> Resting]
    /\ effLock' = [f \in EffectFiles |-> "free"]
    /\ pendingOf' = IF pendingOf = "none" THEN "none" ELSE "dead"
    /\ UNCHANGED <<effEpoch, stamp, effFile, slot, sealed, notes>>

EffectNext ==
    /\ UNCHANGED spent
    /\ \/ \E e \in Executors :
          \/ \E p \in Proposals : Begin(e, p)
          \/ \E f \in EffectFiles : CallerNote(e, f)
          \/ SaveMetadata(e) \/ Enroll(e) \/ EnsureEffect(e) \/ PublishEffect(e)
          \/ FinishRefused(e) \/ SealTransition(e) \/ OtherAction(e)
       \/ RecoverPending
       \/ EffectsCrash

EffectSpec == EffectInit /\ [][EffectNext]_effectVars

-----------------------------------------------------------------------------
RecordsOf(f, ep, i) ==
    {n \in DOMAIN effFile[f] : effFile[f][n].by = "action" /\ effFile[f][n].epoch = ep /\ effFile[f][n].at = i}

(* However often an action is repeated, and whatever runs beside it, its   *)
(* record is appended once; and after the transition it is there, with the *)
(* proposal that was sealed.                                               *)
ActionRecordOnce ==
    \A ep \in Epochs, i \in Positions :
        LET f == SlotList[i].file
            written == RecordsOf(f, ep, i)
        IN SlotList[i].append =>
            /\ Cardinality(written) <= 1
            /\ sealed[ep] # "none" =>
                \E n \in written : effFile[f][n].proposal = sealed[ep]

(* A repetition is refused only for a reason of its own: the caller sent   *)
(* something else, the run's updated_at moved in the epoch, or the file was *)
(* changed after the slot was made. A death at any point is no reason.     *)
RepetitionRefusedForCause ==
    \A e \in Executors :
        LET s == slot[executor[e].epoch][executor[e].at]
        IN executor[e].pc = "refused" =>
            \/ s = NoSlot
            \/ s.content.proposal # executor[e].proposal
            \/ s.content.stamp # executor[e].stamp
            \/ s.disturbed

(* No append is lost: a memory file only ever grows at its end.            *)
MemoryOnlyGrows ==
    [][\A i \in Positions : SlotList[i].append =>
        IsPrefix(effFile[SlotList[i].file], effFile'[SlotList[i].file])]_effectVars

(* A restartable action may be repeated from any point: its records are    *)
(* appended once, nothing appended before is lost, and a repetition is     *)
(* refused only for a cause (run_action_effects).                          *)
ActionsRepeatable ==
    /\ [](ActionRecordOnce /\ RepetitionRefusedForCause)
    /\ MemoryOnlyGrows
=============================================================================
