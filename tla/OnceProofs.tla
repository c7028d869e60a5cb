----------------------------- MODULE OnceProofs -----------------------------
(***************************************************************************)
(* Proofs about what is repeated and still done once. For any number of    *)
(* clients' threads, keys, requests, runs, files, errors and deaths, a     *)
(* creation key makes one whole run, and a repetition is never refused for *)
(* what a dead attempt left behind. For any number of threads, files,      *)
(* epochs and deaths, the private files of a restartable action are        *)
(* written once however often it is repeated. For any number of retrievals *)
(* the sources they found are credited once, in whatever order they came.  *)
(***************************************************************************)
EXTENDS ServerProofs, ActionEffect, ResearchRetrieval, WellFoundedInduction

Guarded == {"observe_locked", "check", "publish", "link", "unlink", "records"}
Keyed == Guarded \cup {"lock", "transition", "observe"}
Unkeyed == {"more_files", "create_run", "register", "go"}
Early == {"reserve", "resume", "lock", "observe_locked", "check"}
Refusals == {"file_conflict", "record_conflict", "invalid", "state_conflict"}
Results == {"none", "conflict", "replayed", "capacity", "unknown", "lost",
            "won", "io_error", "created"} \cup Refusals

Receipts == [run : RunIds, input : CreationInputs, status : {"pending", "completed"}]
RunRows == [state : {"absent", "created", "assess", "cancelled"},
            input : CreationInputs \cup {"none", "unlinked"}]
StartCalls == [pc : {"idle", "reserve", "resume", "answered"} \cup Keyed \cup Unkeyed,
               key : CreationKeys \cup {"none"}, input : CreationInputs \cup {"none"},
               run : RunIds \cup {0}, file : InitFiles, result : Results]

CreationType ==
    /\ receipt \in [CreationKeys -> Receipts \cup {NoReceipt}]
    /\ enrolled \in [RunIds -> CreationInputs \cup {"no", "yes"}]
    /\ created \in [RunIds -> RunRows]
    /\ initFile \in [RunIds -> [InitFiles -> CreationInputs \cup {"none"}]]
    /\ initLock \in [RunIds -> Starters \cup {"free"}]
    /\ starter \in [Starters -> StartCalls]
    /\ won \in [CreationKeys -> Nat]

-----------------------------------------------------------------------------
Taken(k) == receipt[k] # NoReceipt
Whole(r, q) == \A f \in InitFiles : initFile[r][f] = q

(* The rows and files of the run that a key is bound to.                   *)
RowOK(k) == Taken(k) =>
    LET r == receipt[k].run
        q == receipt[k].input
    IN /\ \A f \in InitFiles : initFile[r][f] \in {"none", q}
       /\ enrolled[r] \in {"no", "yes", q}
       /\ enrolled[r] # q => created[r] = NoRun /\ receipt[k].status = "pending"
       /\ enrolled[r] = q =>
            /\ Whole(r, q) /\ created[r].input = q
            /\ \/ created[r].state = "created" /\ receipt[k].status = "pending"
               \/ created[r].state = "assess" /\ receipt[k].status = "completed"
               \/ created[r].state = "cancelled"

(* The ones of a run that no key is bound to.                              *)
Unbound(r) == \A k \in CreationKeys : receipt[k].run # r
FreeOK(r) == Unbound(r) =>
    /\ enrolled[r] = "no"
    /\ initFile[r][1] = "none" => created[r] = NoRun /\ Whole(r, "none")
    /\ created[r].state = "assess" => Whole(r, created[r].input)

RowsOK ==
    /\ \A k \in CreationKeys : RowOK(k)
    /\ \A r \in RunIds : FreeOK(r)
    /\ \A j, k \in CreationKeys : Taken(j) /\ j # k => receipt[j].run # receipt[k].run

-----------------------------------------------------------------------------
(* What a thread may rely on, whatever the others do.                      *)
HoldsLock(t) == \A r \in RunIds :
    initLock[r] = t <=> starter[t].pc \in Guarded /\ starter[t].run = r

Settled(k) == receipt[k].status = "completed" \/ created[receipt[k].run].state = "cancelled"

KeyOK(s) ==
    /\ s.pc \in {"reserve", "resume"} => s.key \in CreationKeys /\ s.input \in CreationInputs
    /\ s.pc \in Keyed \cup {"resume"} =>
        s.key \in CreationKeys /\ Taken(s.key) /\ receipt[s.key].input = s.input
    /\ s.pc \in Keyed => s.run = receipt[s.key].run /\ enrolled[s.run] # "no"
    /\ s.pc \notin Keyed \cup Unkeyed => s.run = 0

FilesOK(s) ==
    /\ s.pc \in Early => s.file = 1
    /\ s.pc = "publish" => \A f \in InitFiles : f < s.file => initFile[s.run][f] = s.input
    /\ s.pc = "link" =>
        /\ \A f \in InitFiles : f < s.file => initFile[s.run][f] = s.input
        /\ initFile[s.run][s.file] = "none"
    /\ s.pc = "unlink" => \A f \in InitFiles : f <= s.file => initFile[s.run][f] = s.input
    /\ s.pc = "records" => Whole(s.run, s.input)
    /\ s.pc = "transition" => enrolled[s.run] = s.input

AnswerOK(s) ==
    /\ s.pc = "observe" /\ s.result \in Refusals => Settled(s.key)
    /\ s.pc = "answered" /\ s.key # "none" /\ s.result \in Refusals =>
        Taken(s.key) /\ created[receipt[s.key].run].state = "cancelled"
    /\ s.pc = "observe" /\ s.result = "won" => receipt[s.key].status = "completed" /\ won[s.key] = 0

UnkeyedOK(s) == s.pc \in Unkeyed =>
    /\ s.key = "none" /\ s.input \in CreationInputs
    /\ s.run \in RunIds /\ Unbound(s.run) /\ initFile[s.run][1] = s.input
    /\ s.pc \in {"more_files", "create_run"} => created[s.run] = NoRun
    /\ IF s.pc = "more_files" THEN \A f \in InitFiles : initFile[s.run][f] \in {"none", s.input}
                              ELSE Whole(s.run, s.input)
    /\ s.pc \in {"register", "go"} => created[s.run].state \in {"created", "cancelled"}
    /\ s.pc = "go" => created[s.run].input = s.input

CallOK(s) == KeyOK(s) /\ FilesOK(s) /\ AnswerOK(s) /\ UnkeyedOK(s)

(* No two threads start one run without a key, none wins a key twice.      *)
Apart(s, u) ==
    /\ s.pc \in Unkeyed /\ u.pc \in Unkeyed => s.run # u.run
    /\ s.pc = "observe" /\ s.result = "won" /\ u.pc = "observe" /\ u.result = "won" => s.key # u.key

ThreadsOK ==
    /\ \A t \in Starters : HoldsLock(t) /\ CallOK(starter[t])
    /\ \A t, u \in Starters : t # u => Apart(starter[t], starter[u])

WinsOK == \A k \in CreationKeys :
    won[k] \in {0, 1} /\ (won[k] = 1 => receipt[k].status = "completed")

CreationInv == CreationType /\ RowsOK /\ ThreadsOK /\ WinsOK

-----------------------------------------------------------------------------
LEMMA RunFacts ==
    /\ RunIds \subseteq Nat /\ 0 \notin RunIds /\ Max(RunIds) \in RunIds
    /\ IsFiniteSet(RunIds) /\ NoReceipt.run \notin RunIds
<1>1. PICK n \in Nat : RunIds = 1..n /\ n # 0
  <2>1. Cardinality(RunIds) \in Nat  BY CreationSizes, FS_CardinalityType
  <2>2. Cardinality(RunIds) # 0  BY CreationSizes, FS_EmptySet
  <2> QED BY <2>1, <2>2, CreationSizes
<1>2. n \in RunIds /\ \A r \in RunIds : n >= r  BY <1>1
<1>3. Max(RunIds) \in RunIds  BY <1>2 DEF Max
<1> QED BY <1>1, <1>3, CreationSizes DEF NoReceipt

LEMMA FileFacts ==
    /\ InitFiles \subseteq Nat /\ 1 \in InitFiles /\ Max(InitFiles) \in InitFiles
    /\ \A f \in InitFiles : 1 <= f /\ f <= Max(InitFiles)
    /\ \A f \in InitFiles : f # Max(InitFiles) => f + 1 \in InitFiles
<1>1. PICK n \in Nat : InitFiles = 1..n /\ n # 0
  <2>1. Cardinality(InitFiles) \in Nat  BY CreationSizes, FS_CardinalityType
  <2>2. Cardinality(InitFiles) # 0  BY CreationSizes, FS_EmptySet
  <2> QED BY <2>1, <2>2, CreationSizes
<1>2. n \in InitFiles /\ \A r \in InitFiles : n >= r  BY <1>1
<1>3. Max(InitFiles) = n
  <2>1. \E m \in InitFiles : \A r \in InitFiles : m >= r  BY <1>2
  <2>2. Max(InitFiles) \in InitFiles /\ \A r \in InitFiles : Max(InitFiles) >= r  BY <2>1 DEF Max
  <2> QED BY <2>2, <1>1, <1>2
<1> QED BY <1>1, <1>3

(* A set of naturals has a least member.                                   *)
LEMMA MinIn == ASSUME NEW N, N \subseteq Nat, N # {} PROVE Min(N) \in N
<1>1. PICK k \in N : \A m \in N : <<m, k>> \notin OpToRel(<, Nat)
    BY NatLessThanWellFounded, WFMin
<1>2. OpToRel(<, Nat) = {ss \in Nat \X Nat : ss[1] < ss[2]}  BY DEF OpToRel
<1>3. ASSUME NEW m \in N, m < k PROVE FALSE
  <2>1. <<m, k>> \in {ss \in Nat \X Nat : ss[1] < ss[2]}  BY <1>3
  <2> QED BY <1>1, <1>2, <2>1
<1>4. \A m \in N : k =< m  BY <1>3
<1> QED BY <1>4 DEF Min

(* A run that the generator hands out is nobody's.                         *)
LEMMA FreshFacts ==
    ASSUME CreationInv, FreshRuns # {}, NEW r, r = Min(FreshRuns)
    PROVE  /\ r \in RunIds /\ Unbound(r) /\ created[r] = NoRun /\ Whole(r, "none")
           /\ enrolled[r] = "no"
           /\ \A t \in Starters : starter[t].run # r
<1>1. r \in FreshRuns
  <2>1. FreshRuns \subseteq Nat  BY RunFacts DEF FreshRuns
  <2> QED BY <2>1, MinIn
<1>2. /\ r \in RunIds
      /\ r \notin {receipt[k].run : k \in CreationKeys}
      /\ r \notin {starter[t].run : t \in Starters}
      /\ created[r] = NoRun /\ initFile[r][1] = "none"
    BY <1>1 DEF FreshRuns, UsedRuns
<1>3. Unbound(r)  BY <1>2 DEF Unbound
<1>4. FreeOK(r)  BY <1>2 DEF CreationInv, RowsOK
<1> QED BY <1>2, <1>3, <1>4 DEF FreeOK

-----------------------------------------------------------------------------
(* A thread goes on with the call s, and takes, keeps or leaves its lock.  *)
Continues(t, s) == starter' = [starter EXCEPT ![t] = s]

Locks(t, s) ==
    \/ /\ initLock' = initLock
       /\ starter[t].pc \in Guarded <=> s.pc \in Guarded
       /\ s.pc \in Guarded => s.run = starter[t].run
    \/ /\ initLock' = [r \in RunIds |-> IF initLock[r] = t THEN "free" ELSE initLock[r]]
       /\ s.pc \notin Guarded
    \/ /\ s.run \in RunIds /\ initLock[s.run] = "free"
       /\ initLock' = [initLock EXCEPT ![s.run] = t]
       /\ s.pc \in Guarded /\ starter[t].pc \notin Guarded

LEMMA LocksKeep ==
    ASSUME CreationInv, NEW t \in Starters, NEW s \in StartCalls, Continues(t, s), Locks(t, s)
    PROVE  /\ starter' \in [Starters -> StartCalls]
           /\ initLock' \in [RunIds -> Starters \cup {"free"}]
           /\ \A u \in Starters : HoldsLock(u)'
<1>1. /\ starter \in [Starters -> StartCalls] /\ initLock \in [RunIds -> Starters \cup {"free"}]
      /\ \A u \in Starters : HoldsLock(u) /\ u # "free"
    BY CreationNames DEF CreationInv, CreationType, ThreadsOK
<1>2. starter' \in [Starters -> StartCalls] /\ starter'[t] = s /\ \A u \in Starters \ {t} : starter'[u] = starter[u]
    BY <1>1 DEF Continues
<1>3. initLock' \in [RunIds -> Starters \cup {"free"}]  BY <1>1 DEF Locks
<1>4. ASSUME NEW u \in Starters, u # t, NEW r \in RunIds PROVE initLock'[r] = u <=> initLock[r] = u
    BY <1>1, <1>4 DEF Locks
<1>5. HoldsLock(t)'
  <2>1. ASSUME NEW r \in RunIds PROVE initLock'[r] = t <=> s.pc \in Guarded /\ s.run = r
    <3>1. initLock[r] = t <=> starter[t].pc \in Guarded /\ starter[t].run = r  BY <1>1 DEF HoldsLock
    <3> QED BY <1>1, <3>1 DEF Locks
  <2> QED BY <2>1, <1>2 DEF HoldsLock
<1>6. ASSUME NEW u \in Starters, u # t PROVE HoldsLock(u)'
    BY <1>1, <1>2, <1>4, <1>6 DEF HoldsLock
<1> QED BY <1>2, <1>3, <1>5, <1>6

(* What the rest of a step may do to the state that the threads share.     *)
Advances ==
    /\ \A k \in CreationKeys : Taken(k) =>
        /\ receipt'[k].run = receipt[k].run /\ receipt'[k].input = receipt[k].input
        /\ receipt[k].status = "completed" => receipt'[k].status = "completed"
    /\ \A r \in RunIds : enrolled[r] # "no" =>
        enrolled'[r] # "no" /\ (enrolled[r] # "yes" => enrolled'[r] = enrolled[r])
    /\ \A r \in RunIds : \A f \in InitFiles :
        initFile[r][f] # "none" => initFile'[r][f] = initFile[r][f]
    /\ \A r \in RunIds : created[r].state = "cancelled" => created'[r].state = "cancelled"

(* And to what a call s relies on alone.                                   *)
Spared(s) ==
    /\ s.pc = "link" => initFile'[s.run][s.file] = "none"
    /\ s.pc = "observe" /\ s.result = "won" => won'[s.key] = won[s.key]
    /\ s.pc \in Unkeyed =>
        /\ \A k \in CreationKeys : receipt'[k].run # s.run
        /\ initFile'[s.run] = initFile[s.run]
        /\ \/ created'[s.run] = created[s.run]
           \/ /\ created[s.run].state \in {"created", "assess"}
              /\ created'[s.run].state = "cancelled" /\ created'[s.run].input = created[s.run].input

LEMMA CallKept ==
    ASSUME CreationInv, NEW s \in StartCalls, CallOK(s), Advances, Spared(s),
           NEW u \in Starters, starter'[u] = s
    PROVE  CallOK(starter[u])'
<1> USE CreationNames
<1>1. /\ \A k \in CreationKeys : Taken(k) => receipt[k] \in Receipts
      /\ \A r \in RunIds : initFile[r] \in [InitFiles -> CreationInputs \cup {"none"}]
      /\ \A r \in RunIds : enrolled[r] \in CreationInputs \cup {"no", "yes"}
      /\ \A r \in RunIds : created[r] \in RunRows
    BY DEF CreationInv, CreationType, Taken
<1>2. \A k \in CreationKeys : Taken(k) => Taken(k)'
    BY <1>1, RunFacts DEF Advances, Taken, Receipts, NoReceipt
<1>3. KeyOK(starter[u])'
    BY <1>1, <1>2 DEF CallOK, KeyOK, Advances, Receipts, StartCalls
<1>4. /\ s.pc \in {"publish", "link", "unlink", "records", "transition"} => s.run \in RunIds
      /\ s.pc \in {"publish", "link", "unlink", "records", "transition"} => s.input \in CreationInputs
      /\ s.file \in InitFiles
    BY <1>1 DEF CallOK, KeyOK, Keyed, Guarded, Receipts, StartCalls
<1>5. FilesOK(starter[u])'
    BY <1>1, <1>4 DEF CallOK, FilesOK, Advances, Spared, Whole
<1>6. AnswerOK(starter[u])'
  <2>1. s.pc = "observe" => s.key \in CreationKeys /\ Taken(s.key)
      BY DEF CallOK, KeyOK, Keyed
  <2>2. s.pc = "answered" /\ s.key # "none" => s.key \in CreationKeys  BY DEF StartCalls
  <2>3. \A k \in CreationKeys : Taken(k) /\ Settled(k) => Settled(k)'
      BY <1>1 DEF Advances, Settled, Receipts
  <2>4. \A k \in CreationKeys : Taken(k) /\ created[receipt[k].run].state = "cancelled" =>
            created'[receipt'[k].run].state = "cancelled"
      BY <1>1 DEF Advances, Receipts
  <2> QED BY <1>2, <2>1, <2>2, <2>3, <2>4 DEF CallOK, AnswerOK, Advances, Spared
<1>7. UnkeyedOK(starter[u])'
  <2>1. SUFFICES ASSUME s.pc \in Unkeyed PROVE UnkeyedOK(starter[u])'  BY DEF UnkeyedOK
  <2>2. s.run \in RunIds /\ UnkeyedOK(s) /\ s.input \in CreationInputs  BY <2>1 DEF CallOK, UnkeyedOK
  <2>3. Unbound(s.run)'  BY <2>1 DEF Spared, Unbound
  <2>4. /\ initFile'[s.run][1] = s.input
        /\ IF s.pc = "more_files" THEN \A f \in InitFiles : initFile'[s.run][f] \in {"none", s.input}
                                  ELSE \A f \in InitFiles : initFile'[s.run][f] = s.input
      BY <2>1, <2>2 DEF UnkeyedOK, Spared, Whole
  <2>5. /\ s.pc \in {"more_files", "create_run"} => created'[s.run] = NoRun
        /\ s.pc \in {"register", "go"} => created'[s.run].state \in {"created", "cancelled"}
        /\ s.pc = "go" => created'[s.run].input = s.input
      BY <2>1, <2>2 DEF UnkeyedOK, Spared, NoRun
  <2> QED BY <2>1, <2>2, <2>3, <2>4, <2>5 DEF UnkeyedOK, Whole, Unbound
<1> QED BY <1>3, <1>5, <1>6, <1>7 DEF CallOK

(* A step of t that leaves what the threads rely on leaves them so.        *)
LEMMA ThreadsKeep ==
    ASSUME CreationInv, NEW t \in Starters, NEW s \in StartCalls, Continues(t, s), Locks(t, s), Advances,
           \A u \in Starters \ {t} : Spared(starter[u]),
           CallOK(starter[t])',
           \A u \in Starters \ {t} : Apart(s, starter[u]) /\ Apart(starter[u], s)
    PROVE  /\ starter' \in [Starters -> StartCalls]
           /\ initLock' \in [RunIds -> Starters \cup {"free"}]
           /\ ThreadsOK'
<1>1. /\ starter \in [Starters -> StartCalls]
      /\ \A u \in Starters : CallOK(starter[u])
      /\ \A u, v \in Starters : u # v => Apart(starter[u], starter[v])
    BY DEF CreationInv, CreationType, ThreadsOK
<1>2. starter'[t] = s /\ \A u \in Starters \ {t} : starter'[u] = starter[u]
    BY <1>1 DEF Continues
<1>3. ASSUME NEW u \in Starters, u # t PROVE CallOK(starter[u])'
  <2>1. starter[u] \in StartCalls /\ CallOK(starter[u]) /\ Spared(starter[u]) /\ starter'[u] = starter[u]
      BY <1>1, <1>2, <1>3
  <2> QED BY <2>1, CallKept
<1>4. ASSUME NEW u \in Starters, NEW v \in Starters, u # v PROVE Apart(starter'[u], starter'[v])
    BY <1>1, <1>2, <1>4
<1>5. \A u, v \in Starters : u # v => Apart(starter[u], starter[v])'
    BY <1>4 DEF Apart
<1> QED BY <1>3, <1>5, LocksKeep DEF ThreadsOK

Shared == <<receipt, enrolled, created, initFile, won>>

(* A step that changes a thread and its lock only.                         *)
LEMMA QuietKeeps ==
    ASSUME CreationInv, NEW t \in Starters, NEW s \in StartCalls, Continues(t, s), Locks(t, s),
           UNCHANGED Shared, CallOK(s), s.pc \notin Unkeyed, ~(s.pc = "observe" /\ s.result = "won")
    PROVE  CreationInv'
<1> USE DEF Shared
<1>1. starter \in [Starters -> StartCalls]  BY DEF CreationInv, CreationType
<1>2. Advances  BY DEF Advances
<1>3. ASSUME NEW u \in Starters, u # t PROVE Spared(starter[u])
    BY <1>3 DEF CreationInv, ThreadsOK, CallOK, FilesOK, UnkeyedOK, Unbound, Spared
<1>4. CallOK(starter[t])'
  <2>1. starter'[t] = s  BY <1>1 DEF Continues
  <2> QED BY <2>1 DEF CallOK, KeyOK, FilesOK, AnswerOK, UnkeyedOK, Taken, Whole, Settled, Unbound
<1>5. \A u \in Starters \ {t} : Apart(s, starter[u]) /\ Apart(starter[u], s)  BY DEF Apart
<1>6. /\ starter' \in [Starters -> StartCalls] /\ initLock' \in [RunIds -> Starters \cup {"free"}]
      /\ ThreadsOK'
    BY <1>2, <1>3, <1>4, <1>5, ThreadsKeep
<1>7. CreationType'  BY <1>6 DEF CreationInv, CreationType
<1>8. RowsOK' /\ WinsOK'
    BY DEF CreationInv, RowsOK, RowOK, FreeOK, Unbound, Whole, Taken, WinsOK
<1> QED BY <1>6, <1>7, <1>8 DEF CreationInv

-----------------------------------------------------------------------------
(* The steps that change a thread and its lock only.                       *)
LEMMA CallFacts ==
    ASSUME CreationInv, NEW t \in Starters
    PROVE  /\ starter \in [Starters -> StartCalls] /\ starter[t] \in StartCalls
           /\ CallOK(starter[t])
           /\ starter[t].pc \in Keyed \cup {"resume"} =>
                /\ starter[t].key \in CreationKeys /\ RowOK(starter[t].key) /\ Taken(starter[t].key)
                /\ receipt[starter[t].key] \in Receipts
                /\ receipt[starter[t].key].input = starter[t].input
           /\ starter[t].pc \in Keyed => starter[t].run = receipt[starter[t].key].run
    BY DEF CreationInv, CreationType, ThreadsOK, RowsOK, CallOK, KeyOK, Taken

LEMMA LookUpKeeps ==
    ASSUME CreationInv, NEW t \in Starters, NEW k \in CreationKeys, NEW q \in CreationInputs, LookUp(t, k, q)
    PROVE  CreationInv'
<1> DEFINE begun == [Idle EXCEPT !.key = k, !.input = q]
           done(result) == [begun EXCEPT !.pc = "answered", !.result = result]
<1>1. PICK s : /\ s \in {done("conflict"), done("replayed"), [begun EXCEPT !.pc = "reserve"]}
               /\ starter' = [starter EXCEPT ![t] = s]
    BY DEF LookUp
<1>2. /\ s.pc \in {"answered", "reserve"} /\ s.key = k /\ s.input = q /\ s.run = 0 /\ s.file = 1
      /\ s.result \in {"none", "conflict", "replayed"} /\ s \in StartCalls
    BY <1>1, FileFacts DEF Idle, StartCalls, Results
<1>3. CallOK(s)
    BY <1>2, CreationNames DEF CallOK, KeyOK, FilesOK, AnswerOK, UnkeyedOK, Keyed, Guarded, Unkeyed, Refusals, Early
<1>4. Locks(t, s)  BY <1>2 DEF LookUp, Locks, Guarded
<1>5. UNCHANGED Shared  BY DEF LookUp, Shared
<1> HIDE DEF begun, done
<1> QED BY <1>1, <1>2, <1>3, <1>4, <1>5, QuietKeeps DEF Continues, Unkeyed

(* A thread answers and holds nothing any more.                            *)
LEMMA AnswerKeeps ==
    ASSUME CreationInv, NEW t \in Starters, NEW result \in Results,
           Answer(t, result), starter[t].pc \notin Guarded, UNCHANGED <<Shared, initLock>>,
           LET k == starter[t].key
           IN k # "none" /\ result \in Refusals => Taken(k) /\ created[receipt[k].run].state = "cancelled"
    PROVE  CreationInv'
<1> DEFINE s == [starter[t] EXCEPT !.pc = "answered", !.result = result, !.run = 0, !.file = 1]
<1>1. starter[t] \in StartCalls /\ starter \in [Starters -> StartCalls]  BY CallFacts
<1>2. Continues(t, s)  BY <1>1 DEF Answer, Continues
<1>3. s \in StartCalls /\ s.pc = "answered" /\ s.result = result /\ s.run = 0 /\ s.key = starter[t].key
    BY <1>1, FileFacts DEF StartCalls
<1> HIDE DEF s
<1>4. CallOK(s)
    BY <1>3 DEF CallOK, KeyOK, FilesOK, AnswerOK, UnkeyedOK, Keyed, Guarded, Unkeyed, Refusals, Early
<1>5. Locks(t, s)  BY <1>3 DEF Locks, Guarded
<1> QED BY <1>2, <1>3, <1>4, <1>5, QuietKeeps DEF Unkeyed

LEMMA ResumeKeeps ==
    ASSUME CreationInv, NEW t \in Starters, ResumeCreation(t)
    PROVE  CreationInv'
<1> DEFINE k == starter[t].key  r == receipt[k].run
           s == [starter[t] EXCEPT !.pc = "lock", !.run = r]
<1>1. starter[t].pc = "resume" /\ UNCHANGED <<Shared, initLock>>  BY DEF ResumeCreation, Shared
<1>2. CASE Legacy(k) /\ Answer(t, "unknown")
    BY <1>1, <1>2, AnswerKeeps DEF Guarded, Results, Refusals
<1>3. CASE ~Legacy(k) /\ starter' = [starter EXCEPT ![t].pc = "lock", ![t].run = r]
  <2>1. /\ starter[t] \in StartCalls /\ starter \in [Starters -> StartCalls] /\ CallOK(starter[t])
        /\ k \in CreationKeys /\ Taken(k) /\ RowOK(k) /\ receipt[k] \in Receipts
        /\ receipt[k].input = starter[t].input
      BY <1>1, CallFacts
  <2>2. Continues(t, s)  BY <2>1, <1>3 DEF Continues
  <2>3. s \in StartCalls /\ s.pc = "lock" /\ s.run = r /\ s.key = k /\ s.input = starter[t].input
        /\ s.file = 1
      BY <1>1, <2>1 DEF StartCalls, Receipts, Keyed, CallOK, FilesOK, Early
  <2>4. enrolled[r] # "no"
    <3>1. receipt[k].input # "no"  BY <2>1, CreationNames DEF Receipts
    <3> QED BY <3>1, <2>1, <1>3 DEF Legacy, RowOK
  <2> HIDE DEF s, k, r
  <2>5. CallOK(s)
      BY <2>1, <2>3, <2>4 DEF CallOK, KeyOK, FilesOK, AnswerOK, UnkeyedOK, Keyed, Guarded, Unkeyed, Early, r
  <2>6. Locks(t, s)  BY <1>1, <2>3 DEF Locks, Guarded
  <2> QED BY <1>1, <2>2, <2>3, <2>5, <2>6, QuietKeeps DEF Unkeyed
<1> QED BY <1>2, <1>3 DEF ResumeCreation

(* A thread goes on with its own run.                                      *)
LEMMA KeyedKeeps ==
    ASSUME CreationInv, NEW t \in Starters, NEW s \in StartCalls, Continues(t, s), Locks(t, s), UNCHANGED Shared,
           starter[t].pc \in Keyed, s.pc \in Keyed,
           s.key = starter[t].key, s.input = starter[t].input, s.run = starter[t].run,
           FilesOK(s), s.pc = "observe" => s.result # "won" /\ (s.result \in Refusals => Settled(s.key))
    PROVE  CreationInv'
<1>1. CallOK(starter[t])  BY CallFacts
<1>2. KeyOK(s)  BY <1>1 DEF CallOK, KeyOK, Keyed, Guarded
<1>3. AnswerOK(s) /\ UnkeyedOK(s)
    BY DEF AnswerOK, UnkeyedOK, Unkeyed, Keyed, Guarded
<1> QED BY <1>2, <1>3, QuietKeeps DEF CallOK, Keyed, Guarded, Unkeyed

LEMMA LeaveKeeps ==
    ASSUME CreationInv, NEW t \in Starters, NEW result \in {"lost", "io_error"} \cup Refusals,
           starter[t].pc \in Guarded, LeaveGuard(t, "observe", result), UNCHANGED Shared,
           result \in Refusals => Settled(starter[t].key)
    PROVE  CreationInv'
<1> DEFINE s == [starter[t] EXCEPT !.pc = "observe", !.result = result]
<1>1. starter[t] \in StartCalls /\ starter \in [Starters -> StartCalls]  BY CallFacts
<1>2. Continues(t, s)  BY <1>1 DEF LeaveGuard, Continues
<1>3. s \in StartCalls /\ s.pc = "observe" /\ s.result = result /\ s.key = starter[t].key
      /\ s.run = starter[t].run /\ s.input = starter[t].input
    BY <1>1 DEF StartCalls, Keyed, Results
<1> HIDE DEF s
<1>4. FilesOK(s)  BY <1>3 DEF FilesOK, Early
<1>5. Locks(t, s)  BY <1>3 DEF Locks, Guarded, LeaveGuard
<1> QED BY <1>2, <1>3, <1>4, <1>5, KeyedKeeps DEF Keyed, Refusals

LEMMA LockKeeps ==
    ASSUME CreationInv, NEW t \in Starters, LockInitialization(t)
    PROVE  CreationInv'
<1> DEFINE r == starter[t].run
<1>1. starter[t].pc = "lock" /\ UNCHANGED Shared  BY DEF LockInitialization, Shared
<1>2. /\ starter[t] \in StartCalls /\ starter \in [Starters -> StartCalls] /\ r \in RunIds
      /\ initLock \in [RunIds -> Starters \cup {"free"}] /\ starter[t].file = 1
    BY <1>1, CallFacts DEF Keyed, Receipts, CreationInv, CreationType, CallOK, FilesOK, Early
<1>3. CASE initLock[r] = "free" /\ initLock' = [initLock EXCEPT ![r] = t] /\ Goto(t, "observe_locked")
  <2> DEFINE s == [starter[t] EXCEPT !.pc = "observe_locked"]
  <2>1. s \in StartCalls /\ s.pc = "observe_locked" /\ s.key = starter[t].key
        /\ s.run = starter[t].run /\ s.input = starter[t].input /\ s.file = starter[t].file
      BY <1>2 DEF StartCalls, Keyed, Guarded
  <2>2. Continues(t, s)  BY <1>2, <1>3 DEF Goto, Continues
  <2> HIDE DEF s
  <2>3. FilesOK(s) /\ Locks(t, s)  BY <1>1, <1>2, <1>3, <2>1 DEF FilesOK, Locks, Guarded, Early
  <2> QED BY <1>1, <2>1, <2>2, <2>3, KeyedKeeps DEF Keyed, Guarded
<1>4. CASE starter' = [starter EXCEPT ![t].pc = "observe", ![t].result = "unknown"] /\ UNCHANGED initLock
  <2> DEFINE s == [starter[t] EXCEPT !.pc = "observe", !.result = "unknown"]
  <2>1. s \in StartCalls /\ s.pc = "observe" /\ s.result = "unknown" /\ s.key = starter[t].key
        /\ s.run = starter[t].run /\ s.input = starter[t].input
      BY <1>2 DEF StartCalls, Keyed, Results
  <2>2. Continues(t, s)  BY <1>2, <1>4 DEF Continues
  <2> HIDE DEF s
  <2>3. FilesOK(s) /\ Locks(t, s)  BY <1>1, <1>4, <2>1 DEF FilesOK, Locks, Guarded, Early
  <2> QED BY <1>1, <2>1, <2>2, <2>3, KeyedKeeps DEF Keyed, Guarded, Refusals
<1> QED BY <1>3, <1>4 DEF LockInitialization

(* The next step of a thread that holds the lock.                          *)
LEMMA GotoKeeps ==
    ASSUME CreationInv, NEW t \in Starters, NEW pc \in Guarded, NEW file \in InitFiles,
           starter[t].pc \in Guarded, UNCHANGED <<Shared, initLock>>,
           starter' = [starter EXCEPT ![t].pc = pc, ![t].file = file],
           FilesOK([starter[t] EXCEPT !.pc = pc, !.file = file])
    PROVE  CreationInv'
<1> DEFINE s == [starter[t] EXCEPT !.pc = pc, !.file = file]
<1>1. starter[t] \in StartCalls /\ starter \in [Starters -> StartCalls]  BY CallFacts
<1>2. Continues(t, s)  BY <1>1 DEF Continues
<1>3. s \in StartCalls /\ s.pc = pc /\ s.key = starter[t].key
      /\ s.run = starter[t].run /\ s.input = starter[t].input /\ FilesOK(s)
    BY <1>1 DEF StartCalls, Keyed, Results
<1> HIDE DEF s
<1>4. Locks(t, s)  BY <1>3 DEF Locks
<1> QED BY <1>2, <1>3, <1>4, KeyedKeeps DEF Keyed, Guarded

LEMMA ObserveLockedKeeps ==
    ASSUME CreationInv, NEW t \in Starters, ObserveLocked(t)
    PROVE  CreationInv'
<1>1. starter[t].pc = "observe_locked" /\ UNCHANGED Shared  BY DEF ObserveLocked, Shared
<1>2. CASE LeaveGuard(t, "observe", "lost")
    BY <1>1, <1>2, LeaveKeeps DEF Guarded, Refusals
<1>3. CASE Goto(t, "check") /\ UNCHANGED initLock
  <2> DEFINE s == [starter[t] EXCEPT !.pc = "check", !.file = starter[t].file]
  <2>1. starter[t] \in StartCalls /\ starter \in [Starters -> StartCalls]  BY CallFacts
  <2>2. starter' = [starter EXCEPT ![t].pc = "check", ![t].file = starter[t].file]
      BY <1>3, <2>1 DEF Goto, StartCalls
  <2>3. starter[t].file \in InitFiles  BY <2>1 DEF StartCalls
  <2>4. s.pc = "check" /\ s.file = 1
      BY <1>1, <2>1, CallFacts DEF StartCalls, CallOK, FilesOK, Early
  <2> HIDE DEF s
  <2>5. FilesOK(s)  BY <2>4 DEF FilesOK
  <2> QED BY <1>1, <1>3, <2>2, <2>3, <2>5, GotoKeeps DEF Guarded, s
<1> QED BY <1>2, <1>3 DEF ObserveLocked

LEMMA FailsKeeps ==
    ASSUME CreationInv, NEW t \in Starters, InitializationFails(t)
    PROVE  CreationInv'
    BY LeaveKeeps DEF InitializationFails, Shared, Guarded, Refusals

(* The files of a thread's run are its own request's.                      *)
LEMMA AllCompatible ==
    ASSUME CreationInv, NEW t \in Starters, starter[t].pc \in Keyed, NEW f \in InitFiles
    PROVE  Compatible(t, f)
    BY CallFacts DEF RowOK, Compatible

LEMMA CheckKeeps ==
    ASSUME CreationInv, NEW t \in Starters, CheckExisting(t)
    PROVE  CreationInv'
<1>1. starter[t].pc = "check" /\ UNCHANGED <<Shared, initLock>> /\ Goto(t, "publish")
    BY AllCompatible DEF CheckExisting, Shared, Keyed, Guarded
<1>2. starter[t] \in StartCalls /\ starter \in [Starters -> StartCalls]  BY CallFacts
<1>3. starter[t].file = 1
    BY <1>1, CallFacts DEF CallOK, FilesOK, Early, CheckExisting
<1>4. QED
  <2> DEFINE s == [starter[t] EXCEPT !.pc = "publish", !.file = 1]
  <2>1. starter' = [starter EXCEPT ![t].pc = "publish", ![t].file = 1]
      BY <1>1, <1>2, <1>3 DEF Goto, StartCalls
  <2>2. s.pc = "publish" /\ s.file = 1  BY <1>2 DEF StartCalls
  <2> HIDE DEF s
  <2>3. FilesOK(s)  BY <2>2, FileFacts DEF FilesOK, Early
  <2> QED BY <1>1, <2>1, <2>3, FileFacts, GotoKeeps DEF Guarded, s

(* A file that is there: the next one, or the records.                     *)
LEMMA NextKeeps ==
    ASSUME CreationInv, NEW t \in Starters, starter[t].pc \in Guarded, NextFile(t),
           UNCHANGED <<Shared, initLock>>,
           \A f \in InitFiles : f <= starter[t].file => initFile[starter[t].run][f] = starter[t].input
    PROVE  CreationInv'
<1>1. starter[t] \in StartCalls /\ starter \in [Starters -> StartCalls] /\ starter[t].file \in InitFiles
    BY CallFacts DEF StartCalls
<1>2. CASE starter[t].file = Max(InitFiles)
  <2> DEFINE s == [starter[t] EXCEPT !.pc = "records", !.file = 1]
  <2>1. starter' = [starter EXCEPT ![t].pc = "records", ![t].file = 1]  BY <1>2 DEF NextFile
  <2>2. s.pc = "records" /\ s.run = starter[t].run /\ s.input = starter[t].input  BY <1>1 DEF StartCalls
  <2> HIDE DEF s
  <2>3. FilesOK(s)  BY <1>2, <2>2, FileFacts DEF FilesOK, Early, Whole
  <2> QED BY <2>1, <2>3, FileFacts, GotoKeeps DEF Guarded, s
<1>3. CASE starter[t].file # Max(InitFiles)
  <2> DEFINE n == starter[t].file + 1
             s == [starter[t] EXCEPT !.pc = "publish", !.file = n]
  <2>1. starter' = [starter EXCEPT ![t].pc = "publish", ![t].file = n]
      BY <1>1, <1>3 DEF NextFile
  <2>2. s.pc = "publish" /\ s.file = n /\ s.run = starter[t].run /\ s.input = starter[t].input
      BY <1>1 DEF StartCalls
  <2>3. n \in InitFiles  BY <1>1, <1>3, FileFacts
  <2>4. ASSUME NEW f \in InitFiles, f < n PROVE f <= starter[t].file
    <3>1. f \in Nat /\ starter[t].file \in Nat  BY <1>1, FileFacts
    <3> QED BY <2>4, <3>1
  <2> HIDE DEF s, n
  <2>5. FilesOK(s)  BY <2>2, <2>4 DEF FilesOK, Early
  <2> QED BY <2>1, <2>3, <2>5, GotoKeeps DEF Guarded, s
<1> QED BY <1>2, <1>3

LEMMA PublishKeeps ==
    ASSUME CreationInv, NEW t \in Starters, PublishOne(t)
    PROVE  CreationInv'
<1> DEFINE f == starter[t].file  r == starter[t].run
<1>1. starter[t].pc = "publish" /\ UNCHANGED Shared  BY DEF PublishOne, Shared
<1>2. /\ starter[t] \in StartCalls /\ starter \in [Starters -> StartCalls] /\ f \in InitFiles
      /\ FilesOK(starter[t])
    BY CallFacts DEF StartCalls, CallOK
<1>3. Compatible(t, f)  BY <1>1, <1>2, AllCompatible DEF Keyed, Guarded
<1>4. CASE Existing(t, f)
  <2>1. NextFile(t) /\ UNCHANGED initLock  BY <1>3, <1>4 DEF PublishOne
  <2>2. initFile[r][f] = starter[t].input  BY <1>3, <1>4 DEF Existing, Compatible
  <2>3. ASSUME NEW g \in InitFiles, g <= f PROVE g < f \/ g = f
    <3>1. f \in Nat /\ g \in Nat  BY <1>2, FileFacts
    <3> HIDE DEF f
    <3> QED BY <2>3, <3>1
  <2>4. \A g \in InitFiles : g <= f => initFile[r][g] = starter[t].input
      BY <1>1, <1>2, <2>2, <2>3 DEF FilesOK
  <2> QED BY <1>1, <2>1, <2>4, NextKeeps DEF Guarded
<1>5. CASE ~Existing(t, f)
  <2> DEFINE s == [starter[t] EXCEPT !.pc = "link", !.file = f]
  <2>1. Goto(t, "link") /\ UNCHANGED initLock  BY <1>3, <1>5 DEF PublishOne
  <2>2. starter' = [starter EXCEPT ![t].pc = "link", ![t].file = f]  BY <2>1, <1>2 DEF Goto, StartCalls
  <2>3. s.pc = "link" /\ s.run = r /\ s.input = starter[t].input /\ s.file = f  BY <1>2 DEF StartCalls
  <2> HIDE DEF s
  <2>4. FilesOK(s)  BY <1>1, <1>2, <1>5, <2>3 DEF FilesOK, Early, Existing
  <2> QED BY <1>1, <1>2, <2>1, <2>2, <2>4, GotoKeeps DEF Guarded, s
<1> QED BY <1>4, <1>5

LEMMA UnlinkKeeps ==
    ASSUME CreationInv, NEW t \in Starters, UnlinkTemporary(t)
    PROVE  CreationInv'
<1>1. starter[t].pc = "unlink" /\ UNCHANGED <<Shared, initLock>> /\ NextFile(t)
    BY DEF UnlinkTemporary, Shared
<1>2. FilesOK(starter[t])  BY CallFacts DEF CallOK
<1> QED BY <1>1, <1>2, NextKeeps DEF FilesOK, Guarded

(* The row of a key is the only one whose run and files a keyed thread     *)
(* touches.                                                                *)
LEMMA OwnRow ==
    ASSUME CreationInv, NEW t \in Starters, starter[t].pc \in Keyed, NEW u \in Starters, u # t
    PROVE  /\ starter[t].run \in RunIds
           /\ starter[u].pc \in Keyed /\ starter[u].run = starter[t].run =>
                starter[u].key = starter[t].key /\ starter[u].input = starter[t].input
           /\ starter[u].pc \in Unkeyed => starter[u].run # starter[t].run
           /\ starter[t].pc \in Guarded /\ starter[u].pc \in Guarded => starter[u].run # starter[t].run
<1>1. /\ starter[t].key \in CreationKeys /\ Taken(starter[t].key) /\ receipt[starter[t].key] \in Receipts
      /\ starter[t].run = receipt[starter[t].key].run /\ receipt[starter[t].key].input = starter[t].input
      /\ starter[t].run \in RunIds
    BY CallFacts DEF Receipts
<1>2. starter[u].pc \in Keyed => /\ starter[u].key \in CreationKeys /\ Taken(starter[u].key)
                                 /\ starter[u].run = receipt[starter[u].key].run
                                 /\ receipt[starter[u].key].input = starter[u].input
    BY CallFacts
<1>3. \A j, k \in CreationKeys : Taken(j) /\ j # k => receipt[j].run # receipt[k].run
    BY DEF CreationInv, RowsOK
<1>4. starter[u].pc \in Unkeyed => Unbound(starter[u].run)
    BY CallFacts DEF CallOK, UnkeyedOK
<1>5. starter[t].pc \in Guarded /\ starter[u].pc \in Guarded => starter[u].run # starter[t].run
    BY <1>1 DEF CreationInv, ThreadsOK, HoldsLock
<1>6. starter[u].pc \in Keyed /\ starter[u].run = starter[t].run => starter[u].key = starter[t].key
    BY <1>1, <1>2, <1>3
<1>7. starter[u].pc \in Unkeyed => starter[u].run # starter[t].run
    BY <1>1, <1>4 DEF Unbound
<1> QED BY <1>1, <1>2, <1>5, <1>6, <1>7

-----------------------------------------------------------------------------
(* The steps that change the files and the rows of a key's run.            *)
LEMMA LinkKeeps ==
    ASSUME CreationInv, NEW t \in Starters, LinkFinal(t)
    PROVE  CreationInv'
<1> USE CreationNames
<1> DEFINE f == starter[t].file  r == starter[t].run  q == starter[t].input  k == starter[t].key
           s == [starter[t] EXCEPT !.pc = "unlink"]
<1>1. /\ starter[t].pc = "link" /\ starter[t].pc \in Keyed /\ starter[t].pc \in Guarded
      /\ UNCHANGED <<receipt, enrolled, created, won>>
    BY DEF LinkFinal, Keyed, Guarded
<1>2. /\ starter[t] \in StartCalls /\ starter \in [Starters -> StartCalls] /\ f \in InitFiles
      /\ CallOK(starter[t]) /\ initFile[r][f] = "none"
      /\ \A g \in InitFiles : g < f => initFile[r][g] = q
    BY <1>1, CallFacts DEF StartCalls, CallOK, FilesOK
<1>3. /\ k \in CreationKeys /\ RowOK(k) /\ Taken(k) /\ r = receipt[k].run /\ receipt[k].input = q
      /\ r \in RunIds /\ q \in CreationInputs
    BY <1>1, CallFacts DEF Receipts
<1>4. /\ initFile \in [RunIds -> [InitFiles -> CreationInputs \cup {"none"}]]
      /\ \A j \in CreationKeys : RowOK(j)
      /\ \A x \in RunIds : FreeOK(x)
      /\ \A i, j \in CreationKeys : Taken(i) /\ i # j => receipt[i].run # receipt[j].run
    BY DEF CreationInv, CreationType, RowsOK
<1>5. /\ initFile' = [initFile EXCEPT ![r][f] = q] /\ Goto(t, "unlink") /\ UNCHANGED initLock
    BY <1>2 DEF LinkFinal
<1>6. /\ initFile'[r] = [initFile[r] EXCEPT ![f] = q]
      /\ \A x \in RunIds : x # r => initFile'[x] = initFile[x]
      /\ initFile' \in [RunIds -> [InitFiles -> CreationInputs \cup {"none"}]]
    BY <1>2, <1>3, <1>4, <1>5
<1>7. Continues(t, s) /\ s \in StartCalls /\ s.pc = "unlink" /\ s.run = r /\ s.input = q /\ s.file = f /\ s.key = k
    BY <1>2, <1>5 DEF Continues, Goto, StartCalls, Keyed, Guarded
<1>8. Advances  BY <1>1, <1>2, <1>3, <1>4, <1>6 DEF Advances
<1>9. ASSUME NEW u \in Starters, u # t PROVE Spared(starter[u])
  <2>1. starter[u] \in StartCalls /\ CallOK(starter[u])  BY CallFacts
  <2>2. starter[u].pc = "link" => starter[u].run \in RunIds /\ starter[u].run # r
      BY <1>1, <1>9, OwnRow, CallFacts DEF Keyed, Guarded, Receipts
  <2>3. starter[u].pc \in Unkeyed => starter[u].run \in RunIds /\ starter[u].run # r
      BY <1>1, <1>9, <2>1, OwnRow DEF CallOK, UnkeyedOK
  <2> QED BY <1>1, <1>6, <2>1, <2>2, <2>3 DEF Spared, CallOK, FilesOK, UnkeyedOK, Unbound
<1> HIDE DEF s, f, r, q, k
<1>10. \A g \in InitFiles : g <= f => initFile'[r][g] = q
  <2>1. ASSUME NEW g \in InitFiles, g <= f PROVE g < f \/ g = f
    <3>1. f \in Nat /\ g \in Nat  BY <1>2, FileFacts
    <3> QED BY <2>1, <3>1
  <2> QED BY <1>2, <1>3, <1>4, <1>6, <2>1
<1>11. CallOK(starter[t])'
  <2>1. starter'[t] = s  BY <1>2, <1>7 DEF Continues
  <2>2. KeyOK(starter[t])'
      BY <1>1, <1>2, <1>3, <1>7, <2>1 DEF CallOK, KeyOK, Taken, Keyed, Guarded, Unkeyed, k, r, q
  <2> QED BY <1>7, <1>10, <2>1, <2>2 DEF CallOK, FilesOK, AnswerOK, UnkeyedOK, Unkeyed, Early
<1>12. Locks(t, s)  BY <1>1, <1>5, <1>7 DEF Locks, Guarded, r
<1>13. \A u \in Starters \ {t} : Apart(s, starter[u]) /\ Apart(starter[u], s)
    BY <1>7 DEF Apart, Unkeyed
<1>14. ASSUME NEW j \in CreationKeys PROVE RowOK(j)'
  <2>1. CASE j = k
    <3>1. enrolled[r] # q  BY <1>2, <1>3 DEF RowOK, Whole
    <3>2. /\ \A g \in InitFiles : initFile[r][g] \in {"none", q}
          /\ enrolled[r] \in {"no", "yes", q}
          /\ created[r] = NoRun /\ receipt[k].status = "pending"
        BY <1>3, <3>1 DEF RowOK
    <3>3. \A g \in InitFiles : initFile'[r][g] \in {"none", q}  BY <1>2, <1>3, <1>4, <1>6, <3>2
    <3> QED BY <1>1, <1>3, <2>1, <3>1, <3>2, <3>3 DEF RowOK
  <2>2. CASE j # k
    <3>1. Taken(j) => receipt[j].run # r /\ receipt[j].run \in RunIds
        BY <1>3, <1>4, <2>2 DEF CreationInv, CreationType, Taken, Receipts
    <3> QED BY <1>1, <1>4, <1>6, <3>1 DEF RowOK, Taken, Whole
  <2> QED BY <2>1, <2>2
<1>15. ASSUME NEW x \in RunIds PROVE FreeOK(x)'
  <2>1. x = r => ~Unbound(x)  BY <1>3 DEF Unbound
  <2> QED BY <1>1, <1>4, <1>6, <2>1 DEF FreeOK, Unbound, Whole
<1>16. RowsOK'  BY <1>1, <1>4, <1>14, <1>15 DEF RowsOK, Taken
<1>17. WinsOK'  BY <1>1 DEF CreationInv, WinsOK
<1>18. /\ starter' \in [Starters -> StartCalls] /\ initLock' \in [RunIds -> Starters \cup {"free"}]
       /\ ThreadsOK'
    BY <1>7, <1>8, <1>9, <1>11, <1>12, <1>13, ThreadsKeep
<1> QED BY <1>1, <1>6, <1>16, <1>17, <1>18 DEF CreationInv, CreationType

LEMMA RecordsKeeps ==
    ASSUME CreationInv, NEW t \in Starters, PrepareRecords(t)
    PROVE  CreationInv'
<1> USE CreationNames
<1> DEFINE r == starter[t].run  q == starter[t].input  k == starter[t].key
           s == [starter[t] EXCEPT !.pc = "transition", !.result = "none"]
<1>1. /\ starter[t].pc = "records" /\ starter[t].pc \in Keyed /\ starter[t].pc \in Guarded
      /\ UNCHANGED <<receipt, initFile, won>>
    BY DEF PrepareRecords, Keyed, Guarded
<1>2. starter[t] \in StartCalls /\ starter \in [Starters -> StartCalls] /\ CallOK(starter[t]) /\ Whole(r, q)
    BY <1>1, CallFacts DEF CallOK, FilesOK
<1>3. /\ k \in CreationKeys /\ RowOK(k) /\ Taken(k) /\ r = receipt[k].run /\ receipt[k].input = q
      /\ r \in RunIds /\ q \in CreationInputs /\ receipt[k].status \in {"pending", "completed"}
    BY <1>1, CallFacts DEF Receipts
<1>4. s \in StartCalls /\ s.pc = "transition" /\ s.run = r /\ s.input = q /\ s.key = k
    BY <1>2 DEF StartCalls, Keyed, Results
<1>5. ASSUME NEW result \in Refusals, LeaveGuard(t, "observe", result), UNCHANGED <<enrolled, created>>, Settled(k)
      PROVE  CreationInv'
    BY <1>1, <1>5, LeaveKeeps DEF Shared
<1>6. ASSUME LeaveGuard(t, "transition", "none")
      PROVE  Continues(t, s) /\ Locks(t, s)
    BY <1>2, <1>4, <1>6 DEF LeaveGuard, Continues, Locks, Guarded
<1>7. CASE receipt[k].status # "pending"
    BY <1>1, <1>3, <1>5, <1>7 DEF PrepareRecords, Settled, Refusals
<1>8. CASE receipt[k].status = "pending" /\ enrolled[r] \notin {"no", "yes"}
  <2>1. enrolled[r] = q /\ created[r].input = q /\ created[r].state \in {"created", "cancelled"}
      BY <1>3, <1>8 DEF RowOK
  <2>2. CASE created[r].state # "created"
    <3>1. Settled(k)  BY <1>3, <2>1, <2>2 DEF Settled
    <3> QED BY <1>5, <1>8, <2>2, <3>1 DEF PrepareRecords, Refusals
  <2>3. CASE created[r].state = "created"
    <3>1. LeaveGuard(t, "transition", "none") /\ UNCHANGED <<enrolled, created>>
        BY <1>8, <2>1, <2>3 DEF PrepareRecords
    <3>2. FilesOK(s)  BY <1>4, <2>1 DEF FilesOK, Early
    <3> HIDE DEF s
    <3> QED BY <1>1, <1>4, <1>6, <3>1, <3>2, KeyedKeeps DEF Shared, Keyed
  <2> QED BY <2>2, <2>3
<1>9. CASE receipt[k].status = "pending" /\ enrolled[r] = "yes"
  <2>1. created[r] = NoRun  BY <1>3, <1>9 DEF RowOK
  <2>2. /\ created' = [created EXCEPT ![r] = [state |-> "created", input |-> q]]
        /\ enrolled' = [enrolled EXCEPT ![r] = q]
        /\ LeaveGuard(t, "transition", "none")
      BY <1>9, <2>1 DEF PrepareRecords
  <2>3. /\ enrolled \in [RunIds -> CreationInputs \cup {"no", "yes"}] /\ created \in [RunIds -> RunRows]
        /\ \A j \in CreationKeys : RowOK(j)
        /\ \A x \in RunIds : FreeOK(x)
        /\ \A i, j \in CreationKeys : Taken(i) /\ i # j => receipt[i].run # receipt[j].run
      BY DEF CreationInv, CreationType, RowsOK
  <2>4. [state |-> "created", input |-> q] \in RunRows  BY <1>3 DEF RunRows
  <2>5. /\ created'[r].state = "created" /\ created'[r].input = q /\ enrolled'[r] = q
        /\ \A x \in RunIds : x # r => created'[x] = created[x] /\ enrolled'[x] = enrolled[x]
        /\ enrolled' \in [RunIds -> CreationInputs \cup {"no", "yes"}] /\ created' \in [RunIds -> RunRows]
      BY <1>3, <2>2, <2>3, <2>4
  <2>6. Advances  BY <1>1, <1>3, <1>9, <2>1, <2>5 DEF Advances, NoRun
  <2>7. ASSUME NEW u \in Starters, u # t PROVE Spared(starter[u])
    <3>1. CallOK(starter[u])  BY CallFacts
    <3>2. starter[u].pc \in Unkeyed => starter[u].run \in RunIds /\ starter[u].run # r
        BY <1>1, <2>7, <3>1, OwnRow DEF CallOK, UnkeyedOK
    <3> QED BY <1>1, <2>5, <3>1, <3>2 DEF Spared, CallOK, FilesOK, UnkeyedOK, Unbound
  <2> HIDE DEF s, r, q, k
  <2>8. CallOK(starter[t])'
    <3>1. starter'[t] = s  BY <1>2, <1>6, <2>2 DEF Continues
    <3>2. KeyOK(starter[t])'
        BY <1>1, <1>3, <1>4, <2>5, <3>1 DEF KeyOK, Taken, Keyed, Guarded, Unkeyed
    <3> QED BY <1>4, <2>5, <3>1, <3>2 DEF CallOK, FilesOK, AnswerOK, UnkeyedOK, Unkeyed, Early
  <2>9. \A u \in Starters \ {t} : Apart(s, starter[u]) /\ Apart(starter[u], s)
      BY <1>4 DEF Apart, Unkeyed
  <2>10. ASSUME NEW j \in CreationKeys PROVE RowOK(j)'
    <3>1. CASE j = k
      <4>1. \A g \in InitFiles : initFile'[r][g] = q  BY <1>1, <1>2 DEF Whole, r, q
      <4> QED BY <1>1, <1>3, <1>9, <2>5, <3>1, <4>1 DEF RowOK, Whole
    <3>2. CASE j # k
      <4>1. Taken(j) => receipt[j].run # r /\ receipt[j].run \in RunIds
          BY <1>3, <2>3, <3>2 DEF CreationInv, CreationType, Taken, Receipts
      <4> QED BY <1>1, <2>3, <2>5, <4>1 DEF RowOK, Taken, Whole
    <3> QED BY <3>1, <3>2
  <2>11. ASSUME NEW x \in RunIds PROVE FreeOK(x)'
    <3>1. x = r => ~Unbound(x)  BY <1>3 DEF Unbound
    <3> QED BY <1>1, <2>3, <2>5, <3>1 DEF FreeOK, Unbound, Whole
  <2>12. RowsOK' /\ WinsOK'
      BY <1>1, <2>3, <2>10, <2>11 DEF RowsOK, Taken, CreationInv, WinsOK
  <2>13. /\ starter' \in [Starters -> StartCalls] /\ initLock' \in [RunIds -> Starters \cup {"free"}]
         /\ ThreadsOK'
      BY <1>4, <1>6, <2>2, <2>6, <2>7, <2>8, <2>9, ThreadsKeep
  <2> QED BY <1>1, <2>5, <2>12, <2>13 DEF CreationInv, CreationType
<1> QED BY <1>7, <1>8, <1>9 DEF PrepareRecords

LEMMA TransitionKeeps ==
    ASSUME CreationInv, NEW t \in Starters, InitializedRun(t)
    PROVE  CreationInv'
<1> USE CreationNames
<1> DEFINE r == starter[t].run  q == starter[t].input  k == starter[t].key
<1>1. /\ starter[t].pc = "transition" /\ starter[t].pc \in Keyed /\ starter[t].pc \notin Guarded
      /\ UNCHANGED <<enrolled, initFile, initLock, won>>
    BY DEF InitializedRun, Keyed, Guarded
<1>2. starter[t] \in StartCalls /\ starter \in [Starters -> StartCalls] /\ CallOK(starter[t]) /\ enrolled[r] = q
    BY <1>1, CallFacts DEF CallOK, FilesOK
<1>3. /\ k \in CreationKeys /\ RowOK(k) /\ Taken(k) /\ r = receipt[k].run /\ receipt[k].input = q
      /\ r \in RunIds /\ q \in CreationInputs /\ receipt[k] \in Receipts
    BY <1>1, CallFacts DEF Receipts
<1>4. /\ Whole(r, q) /\ created[r].input = q
      /\ \/ created[r].state = "created" /\ receipt[k].status = "pending"
         \/ created[r].state = "assess" /\ receipt[k].status = "completed"
         \/ created[r].state = "cancelled"
    BY <1>2, <1>3 DEF RowOK
<1>5. CASE /\ created[r].state # "created" /\ UNCHANGED <<created, receipt>>
           /\ starter' = [starter EXCEPT ![t].pc = "observe", ![t].result = "state_conflict"]
  <2> DEFINE s == [starter[t] EXCEPT !.pc = "observe", !.result = "state_conflict"]
  <2>1. s \in StartCalls /\ s.pc = "observe" /\ s.run = r /\ s.input = q /\ s.key = k /\ s.result = "state_conflict"
      BY <1>2 DEF StartCalls, Keyed, Results, Refusals
  <2>2. Continues(t, s)  BY <1>2, <1>5 DEF Continues
  <2> HIDE DEF s
  <2>3. Locks(t, s) /\ FilesOK(s)  BY <1>1, <2>1 DEF Locks, Guarded, FilesOK, Early
  <2>4. Settled(k)  BY <1>3, <1>4, <1>5 DEF Settled
  <2> QED BY <1>1, <1>5, <2>1, <2>2, <2>3, <2>4, KeyedKeeps DEF Shared, Keyed
<1>6. CASE /\ created[r].state = "created" /\ created' = [created EXCEPT ![r].state = "assess"]
           /\ receipt' = [receipt EXCEPT ![k].status = "completed"]
           /\ starter' = [starter EXCEPT ![t].pc = "observe", ![t].result = "won"]
  <2> DEFINE s == [starter[t] EXCEPT !.pc = "observe", !.result = "won"]
  <2>1. s \in StartCalls /\ s.pc = "observe" /\ s.run = r /\ s.input = q /\ s.key = k /\ s.result = "won"
      BY <1>2 DEF StartCalls, Keyed, Results
  <2>2. Continues(t, s)  BY <1>2, <1>6 DEF Continues
  <2>3. Locks(t, s)  BY <1>1, <2>1 DEF Locks, Guarded
  <2>4. /\ receipt \in [CreationKeys -> Receipts \cup {NoReceipt}] /\ created \in [RunIds -> RunRows]
        /\ \A j \in CreationKeys : RowOK(j)
        /\ \A x \in RunIds : FreeOK(x)
        /\ \A i, j \in CreationKeys : Taken(i) /\ i # j => receipt[i].run # receipt[j].run
      BY DEF CreationInv, CreationType, RowsOK
  <2>5. [receipt[k] EXCEPT !.status = "completed"] \in Receipts /\ [created[r] EXCEPT !.state = "assess"] \in RunRows
      BY <1>3, <2>4 DEF Receipts, RunRows
  <2>6. /\ receipt'[k].run = r /\ receipt'[k].input = q /\ receipt'[k].status = "completed"
        /\ created'[r].state = "assess" /\ created'[r].input = q
      BY <1>3, <1>4, <1>6, <2>4 DEF Receipts, RunRows
  <2>7. /\ \A x \in RunIds : x # r => created'[x] = created[x]
        /\ \A j \in CreationKeys : j # k => receipt'[j] = receipt[j]
        /\ receipt' \in [CreationKeys -> Receipts \cup {NoReceipt}] /\ created' \in [RunIds -> RunRows]
      BY <1>3, <1>6, <2>4, <2>5
  <2>8. receipt[k].status = "pending" /\ won[k] = 0
      BY <1>3, <1>4, <1>6 DEF CreationInv, WinsOK
  <2> HIDE DEF s, r, q, k
  <2>9. \A j \in CreationKeys : receipt'[j].run = receipt[j].run /\ receipt'[j].input = receipt[j].input
      BY <1>3, <2>6, <2>7
  <2>10. Advances  BY <1>1, <1>6, <2>6, <2>7, <2>9 DEF Advances
  <2>11. ASSUME NEW u \in Starters, u # t PROVE Spared(starter[u])
    <3>1. CallOK(starter[u])  BY CallFacts
    <3>2. starter[u].pc \in Unkeyed => starter[u].run \in RunIds /\ starter[u].run # r
        BY <1>1, <2>11, <3>1, OwnRow DEF CallOK, UnkeyedOK, r
    <3> QED BY <1>1, <2>7, <2>9, <3>1, <3>2 DEF Spared, CallOK, FilesOK, UnkeyedOK, Unbound
  <2>12. CallOK(starter[t])'
    <3>1. starter'[t] = s  BY <1>2, <2>2 DEF Continues
    <3>2. KeyOK(starter[t])'
      <4>1. receipt'[k] # NoReceipt  BY <1>3, <2>6, RunFacts DEF NoReceipt
      <4>2. enrolled'[r] # "no"  BY <1>1, <1>2, <1>3 DEF r, q
      <4> QED BY <1>3, <2>1, <2>6, <3>1, <4>1, <4>2 DEF KeyOK, Taken, Keyed, Guarded, Unkeyed
    <3> QED BY <1>1, <2>1, <2>6, <2>8, <3>1, <3>2 DEF CallOK, FilesOK, AnswerOK, UnkeyedOK, Unkeyed, Early, Refusals
  <2>13. ASSUME NEW u \in Starters, u # t PROVE Apart(s, starter[u]) /\ Apart(starter[u], s)
    <3>1. starter[u].pc = "observe" /\ starter[u].result = "won" => starter[u].key # k
        BY <2>8, CallFacts DEF CallOK, AnswerOK
    <3> QED BY <2>1, <3>1 DEF Apart, Unkeyed
  <2>14. ASSUME NEW j \in CreationKeys PROVE RowOK(j)'
    <3>1. CASE j = k
      <4>1. \A g \in InitFiles : initFile'[r][g] = q  BY <1>1, <1>4 DEF Whole, r, q
      <4>2. enrolled'[r] = q  BY <1>1, <1>2 DEF r, q
      <4> QED BY <1>3, <2>6, <3>1, <4>1, <4>2 DEF RowOK, Whole
    <3>2. CASE j # k
      <4>1. Taken(j) => receipt[j].run # r /\ receipt[j].run \in RunIds
          BY <1>3, <2>4, <3>2 DEF Taken, Receipts
      <4> QED BY <1>1, <2>4, <2>7, <3>2, <4>1 DEF RowOK, Taken, Whole
    <3> QED BY <3>1, <3>2
  <2>15. ASSUME NEW x \in RunIds PROVE FreeOK(x)'
    <3>1. x = r => ~Unbound(x)  BY <1>3 DEF Unbound
    <3>2. Unbound(x)' => Unbound(x)  BY <2>9 DEF Unbound
    <3> QED BY <1>1, <2>4, <2>7, <3>1, <3>2 DEF FreeOK, Whole
  <2>16. ASSUME NEW j \in CreationKeys, Taken(j)' PROVE Taken(j)
      BY <1>3, <2>7, <2>16 DEF Taken
  <2>17. RowsOK' /\ WinsOK'
    <3>1. \A i, j \in CreationKeys : (Taken(i) /\ i # j => receipt[i].run # receipt[j].run)'
        BY <2>4, <2>9, <2>16
    <3>2. RowsOK'  BY <2>14, <2>15, <3>1 DEF RowsOK
    <3>3. \A j \in CreationKeys : receipt[j].status = "completed" => receipt'[j].status = "completed"
        BY <2>6, <2>7
    <3> QED BY <1>1, <3>2, <3>3 DEF CreationInv, WinsOK
  <2>18. /\ starter' \in [Starters -> StartCalls] /\ initLock' \in [RunIds -> Starters \cup {"free"}]
         /\ ThreadsOK'
      BY <2>1, <2>2, <2>3, <2>10, <2>11, <2>12, <2>13, ThreadsKeep
  <2> QED BY <1>1, <2>7, <2>17, <2>18 DEF CreationInv, CreationType
<1> QED BY <1>5, <1>6 DEF InitializedRun

LEMMA ObserveKeeps ==
    ASSUME CreationInv, NEW t \in Starters, ObserveCreation(t)
    PROVE  CreationInv'
<1> DEFINE k == starter[t].key
<1>1. /\ starter[t].pc = "observe" /\ starter[t].pc \in Keyed /\ starter[t].pc \notin Guarded
      /\ UNCHANGED <<receipt, enrolled, created, initFile, initLock>>
    BY DEF ObserveCreation, Keyed, Guarded
<1>2. /\ starter[t] \in StartCalls /\ starter \in [Starters -> StartCalls] /\ CallOK(starter[t])
      /\ k \in CreationKeys /\ Taken(k) /\ starter[t].result \in Results
    BY <1>1, CallFacts DEF StartCalls
<1>3. CASE receipt[k].status # "completed"
  <2>1. Answer(t, starter[t].result) /\ UNCHANGED won  BY <1>3 DEF ObserveCreation
  <2>2. starter[t].result \in Refusals => created[receipt[k].run].state = "cancelled"
      BY <1>1, <1>2, <1>3 DEF CallOK, AnswerOK, Settled
  <2> QED BY <1>1, <1>2, <2>1, <2>2, AnswerKeeps DEF Shared
<1>4. CASE receipt[k].status = "completed" /\ starter[t].result # "won"
  <2>1. Answer(t, "replayed") /\ UNCHANGED won  BY <1>4 DEF ObserveCreation
  <2> QED BY <1>1, <1>2, <2>1, AnswerKeeps DEF Shared, Results, Refusals
<1>5. CASE receipt[k].status = "completed" /\ starter[t].result = "won"
  <2> DEFINE s == [starter[t] EXCEPT !.pc = "answered", !.result = "created", !.run = 0, !.file = 1]
  <2>1. Answer(t, "created") /\ won' = [won EXCEPT ![k] = @ + 1]  BY <1>5 DEF ObserveCreation
  <2>2. s \in StartCalls /\ s.pc = "answered" /\ s.result = "created" /\ s.run = 0 /\ s.key = k
      BY <1>2, FileFacts DEF StartCalls, Results
  <2>3. Continues(t, s)  BY <1>2, <2>1 DEF Answer, Continues
  <2>4. Locks(t, s)  BY <1>1, <2>2 DEF Locks, Guarded
  <2>5. won[k] = 0 /\ won \in [CreationKeys -> Nat]
      BY <1>1, <1>5, <1>2 DEF CallOK, AnswerOK, CreationInv, CreationType
  <2>6. /\ won'[k] = 1 /\ won' \in [CreationKeys -> Nat]
        /\ \A j \in CreationKeys : j # k => won'[j] = won[j]
      BY <1>2, <2>1, <2>5
  <2> HIDE DEF s, k
  <2>7. Advances  BY <1>1 DEF Advances
  <2>8. ASSUME NEW u \in Starters, u # t PROVE Spared(starter[u])
    <3>1. CallOK(starter[u])  BY CallFacts
    <3>2. starter[u].pc = "observe" /\ starter[u].result = "won" => starter[u].key # k
        BY <1>1, <1>5, <2>8 DEF CreationInv, ThreadsOK, Apart, k
    <3>3. starter[u].pc = "observe" => starter[u].key \in CreationKeys
        BY CallFacts DEF Keyed
    <3> QED BY <1>1, <2>6, <3>1, <3>2, <3>3 DEF Spared, CallOK, FilesOK, UnkeyedOK, Unbound
  <2>9. CallOK(starter[t])'
    <3>1. starter'[t] = s  BY <1>2, <2>3 DEF Continues
    <3> QED BY <2>2, <3>1
        DEF CallOK, KeyOK, FilesOK, AnswerOK, UnkeyedOK, Keyed, Guarded, Unkeyed, Early, Refusals
  <2>10. \A u \in Starters \ {t} : Apart(s, starter[u]) /\ Apart(starter[u], s)
      BY <2>2 DEF Apart, Unkeyed
  <2>11. /\ starter' \in [Starters -> StartCalls] /\ initLock' \in [RunIds -> Starters \cup {"free"}]
         /\ ThreadsOK'
      BY <2>2, <2>3, <2>4, <2>7, <2>8, <2>9, <2>10, ThreadsKeep
  <2>12. RowsOK'
      BY <1>1 DEF CreationInv, RowsOK, RowOK, FreeOK, Unbound, Whole, Taken
  <2>13. WinsOK'
      BY <1>1, <1>5, <2>6 DEF CreationInv, WinsOK, k
  <2> QED BY <1>1, <2>6, <2>11, <2>12, <2>13 DEF CreationInv, CreationType
<1> QED BY <1>3, <1>4, <1>5

LEMMA ForgetKeeps ==
    ASSUME CreationInv, NEW t \in Starters, Forget(t)
    PROVE  CreationInv'
<1>1. Continues(t, Idle) /\ starter[t].pc = "answered" /\ UNCHANGED <<Shared, initLock>>
    BY DEF Forget, Continues, Shared
<1>2. Idle \in StartCalls /\ Idle.pc = "idle" /\ Idle.run = 0
    BY FileFacts DEF Idle, StartCalls, Results
<1>3. CallOK(Idle)
    BY <1>2 DEF CallOK, KeyOK, FilesOK, AnswerOK, UnkeyedOK, Keyed, Guarded, Unkeyed, Early
<1>4. Locks(t, Idle)  BY <1>1, <1>2 DEF Locks, Guarded
<1> QED BY <1>1, <1>2, <1>3, <1>4, QuietKeeps DEF Unkeyed

-----------------------------------------------------------------------------
(* The steps of a start without a key, and of a cancellation.              *)
Kept(r) == \A x \in RunIds \ {r} : initFile'[x] = initFile[x] /\ created'[x] = created[x]

LEMMA FreeKeeps ==
    ASSUME CreationInv, NEW r \in RunIds, Unbound(r), UNCHANGED <<receipt, enrolled, won>>,
           Kept(r), FreeOK(r)'
    PROVE  RowsOK' /\ WinsOK'
<1>1. /\ \A j \in CreationKeys : RowOK(j)
      /\ \A x \in RunIds : FreeOK(x)
      /\ \A i, j \in CreationKeys : Taken(i) /\ i # j => receipt[i].run # receipt[j].run
      /\ receipt \in [CreationKeys -> Receipts \cup {NoReceipt}]
    BY DEF CreationInv, CreationType, RowsOK
<1>2. ASSUME NEW j \in CreationKeys PROVE RowOK(j)'
  <2>1. Taken(j) => receipt[j].run # r /\ receipt[j].run \in RunIds
      BY <1>1 DEF Unbound, Taken, Receipts
  <2> QED BY <1>1, <2>1 DEF Kept, RowOK, Taken, Whole
<1>3. ASSUME NEW x \in RunIds, x # r PROVE FreeOK(x)'
    BY <1>1, <1>3 DEF Kept, FreeOK, Unbound, Whole
<1> QED BY <1>1, <1>2, <1>3 DEF RowsOK, Taken, CreationInv, WinsOK

(* A thread without a key is alone with its run.                           *)
LEMMA FreeRun ==
    ASSUME CreationInv, NEW t \in Starters, starter[t].pc \in Unkeyed
    PROVE  /\ starter[t].run \in RunIds /\ Unbound(starter[t].run) /\ UnkeyedOK(starter[t])
           /\ starter[t] \in StartCalls /\ starter \in [Starters -> StartCalls]
           /\ \A u \in Starters \ {t} :
                /\ starter[u].pc \in Unkeyed => starter[u].run # starter[t].run
                /\ starter[u].pc \in Keyed => starter[u].run # starter[t].run
<1>1. /\ starter[t].run \in RunIds /\ Unbound(starter[t].run) /\ UnkeyedOK(starter[t])
      /\ starter[t] \in StartCalls /\ starter \in [Starters -> StartCalls]
    BY CallFacts DEF CallOK, UnkeyedOK
<1>2. ASSUME NEW u \in Starters, u # t, starter[u].pc \in Keyed PROVE starter[u].run # starter[t].run
    BY <1>1, <1>2, CallFacts DEF Unbound
<1>3. ASSUME NEW u \in Starters, u # t, starter[u].pc \in Unkeyed PROVE starter[u].run # starter[t].run
    BY <1>3 DEF CreationInv, ThreadsOK, Apart
<1> QED BY <1>1, <1>2, <1>3

FreeTypes ==
    /\ initFile' \in [RunIds -> [InitFiles -> CreationInputs \cup {"none"}]]
    /\ created' \in [RunIds -> RunRows]

LEMMA UnkeyedKeeps ==
    ASSUME CreationInv, NEW t \in Starters, starter[t].pc \in Unkeyed,
           NEW r, r = starter[t].run, NEW s \in StartCalls, Continues(t, s),
           UNCHANGED <<receipt, enrolled, won, initLock>>, Kept(r), FreeTypes, FreeOK(r)',
           \A f \in InitFiles : initFile[r][f] # "none" => initFile'[r][f] = initFile[r][f],
           created[r].state = "cancelled" => created'[r].state = "cancelled",
           (s.pc \in Unkeyed /\ s.run = r) \/ s.pc = "answered", CallOK(starter[t])'
    PROVE  CreationInv'
<1>1. /\ r \in RunIds /\ Unbound(r) /\ starter[t] \in StartCalls
      /\ \A u \in Starters \ {t} :
            /\ starter[u].pc \in Unkeyed => starter[u].run # r
            /\ starter[u].pc \in Keyed => starter[u].run # r
    BY FreeRun
<1>2. RowsOK' /\ WinsOK'  BY <1>1, FreeKeeps
<1>3. Advances  BY <1>1 DEF Advances, Kept
<1>4. ASSUME NEW u \in Starters, u # t PROVE Spared(starter[u])
  <2>1. CallOK(starter[u]) /\ (starter[u].pc = "link" => starter[u].run \in RunIds)
      BY CallFacts DEF Keyed, Guarded, Receipts
  <2> QED BY <1>1, <1>4, <2>1 DEF Spared, CallOK, FilesOK, UnkeyedOK, Unbound, Kept, Keyed, Guarded
<1>5. \A u \in Starters \ {t} : Apart(s, starter[u]) /\ Apart(starter[u], s)
    BY <1>1 DEF Apart, Unkeyed
<1>6. Locks(t, s)  BY DEF Locks, Guarded, Unkeyed
<1>7. /\ starter' \in [Starters -> StartCalls] /\ initLock' \in [RunIds -> Starters \cup {"free"}]
      /\ ThreadsOK'
    BY <1>3, <1>4, <1>5, <1>6, ThreadsKeep
<1> QED BY <1>2, <1>7 DEF CreationInv, CreationType, FreeTypes

LEMMA InitializeRunKeeps ==
    ASSUME CreationInv, NEW t \in Starters, InitializeRun(t)
    PROVE  CreationInv'
<1> USE CreationNames
<1> DEFINE s == [starter[t] EXCEPT !.pc = "create_run"]
<1>1. PICK r, q : r = starter[t].run /\ q = starter[t].input  OBVIOUS
<1>2. /\ starter[t].pc = "more_files" /\ starter[t].pc \in Unkeyed
      /\ initFile' = [initFile EXCEPT ![r] = [f \in InitFiles |-> q]] /\ Goto(t, "create_run")
      /\ UNCHANGED <<receipt, enrolled, created, initLock, won>>
    BY <1>1 DEF InitializeRun, Unkeyed
<1>3. /\ r \in RunIds /\ Unbound(r) /\ UnkeyedOK(starter[t])
      /\ starter[t] \in StartCalls /\ starter \in [Starters -> StartCalls]
    BY <1>1, <1>2, FreeRun
<1>4. /\ starter[t].key = "none" /\ q \in CreationInputs /\ initFile[r][1] = q /\ created[r] = NoRun
    BY <1>1, <1>2, <1>3 DEF UnkeyedOK
<1>5. /\ initFile \in [RunIds -> [InitFiles -> CreationInputs \cup {"none"}]]
      /\ created \in [RunIds -> RunRows] /\ FreeOK(r)
    BY <1>3 DEF CreationInv, CreationType, RowsOK
<1>6. Continues(t, s) /\ s \in StartCalls /\ s.pc = "create_run" /\ s.key = "none" /\ s.run = r /\ s.input = q
    BY <1>1, <1>2, <1>3, <1>4 DEF Continues, Goto, StartCalls, Unkeyed
<1>7. /\ FreeTypes /\ Kept(r)
      /\ \A f \in InitFiles : initFile'[r][f] = q
    BY <1>2, <1>3, <1>4, <1>5 DEF FreeTypes, Kept
<1>8. PICK g \in InitFiles : g = 1  BY FileFacts
<1>9. FreeOK(r)'
    BY <1>2, <1>3, <1>4, <1>5, <1>7, <1>8 DEF FreeOK, Unbound, Whole, NoRun
<1> HIDE DEF s
<1>10. CallOK(starter[t])'
  <2>1. starter'[t] = s  BY <1>3, <1>6 DEF Continues
  <2> QED BY <1>2, <1>3, <1>4, <1>6, <1>7, <1>8, <2>1
      DEF CallOK, KeyOK, FilesOK, AnswerOK, UnkeyedOK, Unbound, Whole, Keyed, Guarded, Unkeyed, Early
<1>11. \A f \in InitFiles : initFile[r][f] # "none" => initFile'[r][f] = initFile[r][f]
  <2>1. \A f \in InitFiles : initFile[r][f] \in {"none", q}
      BY <1>2, <1>1, <1>3 DEF UnkeyedOK
  <2> QED BY <1>7, <2>1
<1>12. QED BY <1>1, <1>2, <1>6, <1>7, <1>9, <1>10, <1>11, UnkeyedKeeps DEF Unkeyed

LEMMA CreateRunKeeps ==
    ASSUME CreationInv, NEW t \in Starters, CreateRun(t)
    PROVE  CreationInv'
<1> USE CreationNames
<1> DEFINE s == [starter[t] EXCEPT !.pc = "register"]
           row == [state |-> "created", input |-> "unlinked"]
<1>1. PICK r, q : r = starter[t].run /\ q = starter[t].input  OBVIOUS
<1>2. /\ starter[t].pc = "create_run" /\ starter[t].pc \in Unkeyed
      /\ created' = [created EXCEPT ![r] = row] /\ Goto(t, "register")
      /\ UNCHANGED <<receipt, enrolled, initFile, initLock, won>>
    BY <1>1 DEF CreateRun, Unkeyed
<1>3. /\ r \in RunIds /\ Unbound(r) /\ UnkeyedOK(starter[t])
      /\ starter[t] \in StartCalls /\ starter \in [Starters -> StartCalls]
    BY <1>1, <1>2, FreeRun
<1>4. /\ starter[t].key = "none" /\ q \in CreationInputs /\ initFile[r][1] = q /\ Whole(r, q)
      /\ created[r] = NoRun
    BY <1>1, <1>2, <1>3 DEF UnkeyedOK
<1>5. /\ initFile \in [RunIds -> [InitFiles -> CreationInputs \cup {"none"}]]
      /\ created \in [RunIds -> RunRows] /\ FreeOK(r)
    BY <1>3 DEF CreationInv, CreationType, RowsOK
<1>6. Continues(t, s) /\ s \in StartCalls /\ s.pc = "register" /\ s.key = "none" /\ s.run = r /\ s.input = q
    BY <1>1, <1>2, <1>3, <1>4 DEF Continues, Goto, StartCalls, Unkeyed
<1>7. /\ FreeTypes /\ Kept(r) /\ created'[r].state = "created"
    BY <1>2, <1>3, <1>5 DEF FreeTypes, Kept, RunRows
<1>8. FreeOK(r)'
    BY <1>2, <1>3, <1>4, <1>5, <1>7 DEF FreeOK, Unbound, Whole
<1> HIDE DEF s
<1>9. CallOK(starter[t])'
  <2>1. starter'[t] = s  BY <1>3, <1>6 DEF Continues
  <2> QED BY <1>2, <1>3, <1>4, <1>6, <1>7, <2>1
      DEF CallOK, KeyOK, FilesOK, AnswerOK, UnkeyedOK, Unbound, Whole, Keyed, Guarded, Unkeyed, Early
<1>10. created[r].state # "cancelled"  BY <1>4 DEF NoRun
<1> QED BY <1>1, <1>2, <1>6, <1>7, <1>8, <1>9, <1>10, UnkeyedKeeps DEF Unkeyed

LEMMA RegisterKeeps ==
    ASSUME CreationInv, NEW t \in Starters, RegisterReferences(t)
    PROVE  CreationInv'
<1> USE CreationNames
<1> DEFINE s == [starter[t] EXCEPT !.pc = "go"]
<1>1. PICK r, q : r = starter[t].run /\ q = starter[t].input  OBVIOUS
<1>2. /\ starter[t].pc = "register" /\ starter[t].pc \in Unkeyed
      /\ created' = [created EXCEPT ![r].input = q] /\ Goto(t, "go")
      /\ UNCHANGED <<receipt, enrolled, initFile, initLock, won>>
    BY <1>1 DEF RegisterReferences, Unkeyed
<1>3. /\ r \in RunIds /\ Unbound(r) /\ UnkeyedOK(starter[t])
      /\ starter[t] \in StartCalls /\ starter \in [Starters -> StartCalls]
    BY <1>1, <1>2, FreeRun
<1>4. /\ starter[t].key = "none" /\ q \in CreationInputs /\ initFile[r][1] = q /\ Whole(r, q)
      /\ created[r].state \in {"created", "cancelled"}
    BY <1>1, <1>2, <1>3 DEF UnkeyedOK
<1>5. /\ initFile \in [RunIds -> [InitFiles -> CreationInputs \cup {"none"}]]
      /\ created \in [RunIds -> RunRows] /\ FreeOK(r)
    BY <1>3 DEF CreationInv, CreationType, RowsOK
<1>6. Continues(t, s) /\ s \in StartCalls /\ s.pc = "go" /\ s.key = "none" /\ s.run = r /\ s.input = q
    BY <1>1, <1>2, <1>3, <1>4 DEF Continues, Goto, StartCalls, Unkeyed
<1>7. /\ FreeTypes /\ Kept(r) /\ created'[r].state = created[r].state /\ created'[r].input = q
    BY <1>2, <1>3, <1>4, <1>5 DEF FreeTypes, Kept, RunRows
<1>8. FreeOK(r)'
    BY <1>2, <1>3, <1>4, <1>5, <1>7 DEF FreeOK, Unbound, Whole
<1> HIDE DEF s
<1>9. CallOK(starter[t])'
  <2>1. starter'[t] = s  BY <1>3, <1>6 DEF Continues
  <2> QED BY <1>2, <1>3, <1>4, <1>6, <1>7, <2>1
      DEF CallOK, KeyOK, FilesOK, AnswerOK, UnkeyedOK, Unbound, Whole, Keyed, Guarded, Unkeyed, Early
<1> QED BY <1>1, <1>2, <1>6, <1>7, <1>8, <1>9, UnkeyedKeeps DEF Unkeyed

LEMMA StartedKeeps ==
    ASSUME CreationInv, NEW t \in Starters, StartedRun(t)
    PROVE  CreationInv'
<1> USE CreationNames
<1>1. PICK r, q : r = starter[t].run /\ q = starter[t].input  OBVIOUS
<1>2. /\ starter[t].pc = "go" /\ starter[t].pc \in Unkeyed /\ starter[t].pc \notin Guarded
      /\ UNCHANGED <<receipt, enrolled, initFile, initLock, won>>
    BY DEF StartedRun, Unkeyed, Guarded
<1>3. /\ r \in RunIds /\ Unbound(r) /\ UnkeyedOK(starter[t])
      /\ starter[t] \in StartCalls /\ starter \in [Starters -> StartCalls]
    BY <1>1, <1>2, FreeRun
<1>4. /\ starter[t].key = "none" /\ q \in CreationInputs /\ initFile[r][1] = q /\ Whole(r, q)
      /\ created[r].input = q
    BY <1>1, <1>2, <1>3 DEF UnkeyedOK
<1>5. /\ initFile \in [RunIds -> [InitFiles -> CreationInputs \cup {"none"}]]
      /\ created \in [RunIds -> RunRows] /\ FreeOK(r)
    BY <1>3 DEF CreationInv, CreationType, RowsOK
<1>6. CASE created[r].state # "created"
  <2>1. Answer(t, "state_conflict") /\ UNCHANGED created  BY <1>1, <1>6 DEF StartedRun
  <2> QED BY <1>2, <1>4, <2>1, AnswerKeeps DEF Shared, Results, Refusals
<1>7. CASE created[r].state = "created"
  <2> DEFINE s == [starter[t] EXCEPT !.pc = "answered", !.result = "created", !.run = 0, !.file = 1]
  <2>1. Answer(t, "created") /\ created' = [created EXCEPT ![r].state = "assess"]
      BY <1>1, <1>7 DEF StartedRun
  <2>2. Continues(t, s) /\ s \in StartCalls /\ s.pc = "answered" /\ s.result = "created" /\ s.run = 0
      BY <1>3, <2>1, FileFacts DEF Continues, Answer, StartCalls, Results
  <2>3. /\ FreeTypes /\ Kept(r) /\ created'[r].state = "assess" /\ created'[r].input = q
      BY <1>2, <1>3, <1>4, <1>5, <2>1 DEF FreeTypes, Kept, RunRows
  <2>4. FreeOK(r)'
      BY <1>2, <1>3, <1>4, <1>5, <2>3 DEF FreeOK, Unbound, Whole
  <2> HIDE DEF s
  <2>5. CallOK(starter[t])'
    <3>1. starter'[t] = s  BY <1>3, <2>2 DEF Continues
    <3> QED BY <2>2, <3>1
        DEF CallOK, KeyOK, FilesOK, AnswerOK, UnkeyedOK, Keyed, Guarded, Unkeyed, Early, Refusals
  <2> QED BY <1>1, <1>2, <1>7, <2>2, <2>3, <2>4, <2>5, UnkeyedKeeps
<1> QED BY <1>6, <1>7

LEMMA CancelKeeps ==
    ASSUME CreationInv, NEW r \in RunIds, CancelRun(r)
    PROVE  CreationInv'
<1> USE CreationNames
<1>1. /\ created[r].state \in {"created", "assess"}
      /\ created' = [created EXCEPT ![r].state = "cancelled"]
      /\ UNCHANGED <<receipt, enrolled, initFile, initLock, starter, won>>
    BY DEF CancelRun
<1>2. /\ created \in [RunIds -> RunRows] /\ starter \in [Starters -> StartCalls]
      /\ receipt \in [CreationKeys -> Receipts \cup {NoReceipt}]
      /\ \A j \in CreationKeys : RowOK(j)
      /\ \A x \in RunIds : FreeOK(x)
      /\ \A i, j \in CreationKeys : Taken(i) /\ i # j => receipt[i].run # receipt[j].run
    BY DEF CreationInv, CreationType, RowsOK
<1>3. /\ created'[r].state = "cancelled" /\ created'[r].input = created[r].input
      /\ \A x \in RunIds : x # r => created'[x] = created[x]
      /\ created' \in [RunIds -> RunRows]
    BY <1>1, <1>2 DEF RunRows
<1>4. created[r] # NoRun  BY <1>1 DEF NoRun
<1>5. Advances  BY <1>1, <1>3 DEF Advances
<1>6. ASSUME NEW u \in Starters PROVE HoldsLock(u)' /\ CallOK(starter[u])'
  <2>1. CallOK(starter[u]) /\ starter[u] \in StartCalls /\ HoldsLock(u)
      BY CallFacts DEF CreationInv, ThreadsOK
  <2>2. Spared(starter[u])
      BY <1>1, <1>3, <2>1 DEF Spared, CallOK, FilesOK, UnkeyedOK, Unbound
  <2>3. starter'[u] = starter[u]  BY <1>1
  <2>4. CallOK(starter[u])'  BY <1>5, <2>1, <2>2, <2>3, CallKept
  <2> QED BY <1>1, <2>1, <2>4 DEF HoldsLock
<1>7. ThreadsOK'
    BY <1>1, <1>6 DEF CreationInv, ThreadsOK, Apart
<1>8. ASSUME NEW j \in CreationKeys PROVE RowOK(j)'
  <2>1. Taken(j) => receipt[j].run \in RunIds  BY <1>2 DEF Taken, Receipts
  <2>2. CASE receipt[j].run = r
      BY <1>1, <1>2, <1>3, <1>4, <2>2 DEF RowOK, Taken, Whole
  <2>3. CASE receipt[j].run # r
      BY <1>1, <1>2, <1>3, <2>1, <2>3 DEF RowOK, Taken, Whole
  <2> QED BY <2>2, <2>3
<1>9. ASSUME NEW x \in RunIds PROVE FreeOK(x)'
    BY <1>1, <1>2, <1>3, <1>4 DEF FreeOK, Unbound, Whole
<1>10. RowsOK' /\ WinsOK'
    BY <1>1, <1>2, <1>8, <1>9 DEF RowsOK, Taken, CreationInv, WinsOK
<1> QED BY <1>1, <1>3, <1>7, <1>10 DEF CreationInv, CreationType

LEMMA DiesKeeps ==
    ASSUME CreationInv, ServerDies
    PROVE  CreationInv'
<1>1. /\ starter' = [t \in Starters |-> Idle] /\ initLock' = [r \in RunIds |-> "free"]
      /\ UNCHANGED <<receipt, enrolled, created, initFile, won>>
    BY DEF ServerDies
<1>2. Idle \in StartCalls /\ Idle.pc = "idle" /\ Idle.run = 0
    BY FileFacts DEF Idle, StartCalls, Results
<1>3. CreationType'  BY <1>1, <1>2 DEF CreationInv, CreationType
<1>4. ASSUME NEW t \in Starters PROVE HoldsLock(t)' /\ CallOK(starter[t])'
  <2>1. starter'[t] = Idle /\ t # "free"  BY <1>1, CreationNames
  <2>2. CallOK(starter[t])'
      BY <1>2, <2>1 DEF CallOK, KeyOK, FilesOK, AnswerOK, UnkeyedOK, Keyed, Guarded, Unkeyed, Early
  <2>3. HoldsLock(t)'  BY <1>1, <1>2, <2>1 DEF HoldsLock, Guarded
  <2> QED BY <2>2, <2>3
<1>5. \A t, u \in Starters : t # u => Apart(starter'[t], starter'[u])
    BY <1>1, <1>2 DEF Apart, Unkeyed
<1>6. ThreadsOK'  BY <1>4, <1>5 DEF ThreadsOK, Apart
<1>7. RowsOK' /\ WinsOK'
    BY <1>1 DEF CreationInv, RowsOK, RowOK, FreeOK, Unbound, Whole, Taken, WinsOK
<1> QED BY <1>3, <1>6, <1>7 DEF CreationInv

LEMMA StartUnkeyedKeeps ==
    ASSUME CreationInv, NEW t \in Starters, NEW q \in CreationInputs, StartUnkeyed(t, q)
    PROVE  CreationInv'
<1> USE CreationNames
<1>1. PICK r : r = Min(FreshRuns)  OBVIOUS
<1> DEFINE s == [Idle EXCEPT !.pc = "more_files", !.input = q, !.run = r]
<1>2. /\ starter[t].pc = "idle" /\ FreshRuns # {}
      /\ initFile' = [initFile EXCEPT ![r][1] = q]
      /\ starter' = [starter EXCEPT ![t] = s]
      /\ UNCHANGED <<receipt, enrolled, created, initLock, won>>
    BY <1>1 DEF StartUnkeyed
<1>3. /\ r \in RunIds /\ Unbound(r) /\ created[r] = NoRun /\ Whole(r, "none")
      /\ \A u \in Starters : starter[u].run # r
    BY <1>1, <1>2, FreshFacts
<1>4. /\ initFile \in [RunIds -> [InitFiles -> CreationInputs \cup {"none"}]]
      /\ created \in [RunIds -> RunRows] /\ starter \in [Starters -> StartCalls]
    BY DEF CreationInv, CreationType
<1>5. /\ s \in StartCalls /\ s.pc = "more_files" /\ s.run = r /\ s.input = q /\ s.key = "none"
    BY <1>3, FileFacts DEF Idle, StartCalls, Results, Unkeyed
<1>6. Continues(t, s)  BY <1>2 DEF Continues
<1> HIDE DEF s
<1>7. Locks(t, s)  BY <1>2, <1>5 DEF Locks, Guarded
<1>8. /\ Kept(r) /\ initFile'[r] = [initFile[r] EXCEPT ![1] = q]
      /\ initFile' \in [RunIds -> [InitFiles -> CreationInputs \cup {"none"}]]
    BY <1>2, <1>3, <1>4, FileFacts DEF Kept
<1>9. initFile'[r][1] = q /\ \A f \in InitFiles : initFile'[r][f] \in {"none", q}
    BY <1>3, <1>4, <1>8, FileFacts DEF Whole
<1>10. FreeOK(r)'
    BY <1>2, <1>3, <1>9 DEF FreeOK, NoRun, CreationInv, RowsOK, Unbound
<1>11. RowsOK' /\ WinsOK'  BY <1>2, <1>3, <1>8, <1>10, FreeKeeps
<1>12. Advances  BY <1>2, <1>3, <1>8 DEF Advances, Kept, Whole
<1>13. ASSUME NEW u \in Starters, u # t PROVE Spared(starter[u])
  <2>1. /\ CallOK(starter[u]) /\ starter[u].run # r
        /\ starter[u].pc = "link" => starter[u].run \in RunIds
      BY <1>3, CallFacts DEF Keyed, Guarded, Receipts
  <2> QED BY <1>2, <1>8, <2>1 DEF Spared, CallOK, FilesOK, UnkeyedOK, Unbound, Kept
<1>14. CallOK(starter[t])'
  <2>1. starter'[t] = s  BY <1>4, <1>6 DEF Continues
  <2> QED BY <1>2, <1>3, <1>5, <1>9, <2>1
      DEF CallOK, KeyOK, FilesOK, AnswerOK, UnkeyedOK, Unbound, Keyed, Guarded, Unkeyed, Early
<1>15. \A u \in Starters \ {t} : Apart(s, starter[u]) /\ Apart(starter[u], s)
    BY <1>3, <1>5 DEF Apart
<1>16. /\ starter' \in [Starters -> StartCalls] /\ initLock' \in [RunIds -> Starters \cup {"free"}]
       /\ ThreadsOK'
    BY <1>5, <1>6, <1>7, <1>12, <1>13, <1>14, <1>15, ThreadsKeep
<1> QED BY <1>2, <1>8, <1>11, <1>16 DEF CreationInv, CreationType

-----------------------------------------------------------------------------
LEMMA BindKeeps ==
    ASSUME CreationInv, NEW t \in Starters, NEW k, k = starter[t].key, NEW r, r = Min(FreshRuns),
           NEW q, q = starter[t].input,
           starter[t].pc = "reserve", ~Taken(k), FreshRuns # {}, q \in CreationInputs,
           receipt' = [receipt EXCEPT ![k] = [run |-> r, input |-> q, status |-> "pending"]],
           enrolled' = [enrolled EXCEPT ![r] = "yes"],
           starter' = [starter EXCEPT ![t].pc = "lock", ![t].run = r],
           UNCHANGED <<created, initFile, initLock, won>>
    PROVE  CreationInv'
<1> USE CreationNames
<1> DEFINE s == [starter[t] EXCEPT !.pc = "lock", !.run = r]
<1>1. /\ r \in RunIds /\ Unbound(r) /\ created[r] = NoRun /\ Whole(r, "none") /\ enrolled[r] = "no"
      /\ \A u \in Starters : starter[u].run # r
    BY FreshFacts
<1>2. /\ starter[t] \in StartCalls /\ starter \in [Starters -> StartCalls] /\ CallOK(starter[t])
      /\ k \in CreationKeys /\ starter[t].file = 1
    BY CallFacts DEF CallOK, KeyOK, FilesOK, Early
<1>3. /\ receipt \in [CreationKeys -> Receipts \cup {NoReceipt}]
      /\ enrolled \in [RunIds -> CreationInputs \cup {"no", "yes"}]
      /\ \A j \in CreationKeys : RowOK(j)
      /\ \A x \in RunIds : FreeOK(x)
      /\ \A i, j \in CreationKeys : Taken(i) /\ i # j => receipt[i].run # receipt[j].run
      /\ receipt[k] = NoReceipt
    BY DEF CreationInv, CreationType, RowsOK, Taken
<1>4. [run |-> r, input |-> q, status |-> "pending"] \in Receipts  BY <1>1 DEF Receipts
<1>5. /\ receipt'[k].run = r /\ receipt'[k].input = q /\ receipt'[k].status = "pending" /\ enrolled'[r] = "yes"
      /\ \A j \in CreationKeys : j # k => receipt'[j] = receipt[j]
      /\ \A x \in RunIds : x # r => enrolled'[x] = enrolled[x]
      /\ receipt' \in [CreationKeys -> Receipts \cup {NoReceipt}]
      /\ enrolled' \in [RunIds -> CreationInputs \cup {"no", "yes"}]
    BY <1>1, <1>2, <1>3, <1>4
<1>6. s \in StartCalls /\ s.pc = "lock" /\ s.run = r /\ s.input = q /\ s.key = k /\ s.file = 1
    BY <1>1, <1>2 DEF StartCalls, Keyed
<1>7. Continues(t, s)  BY <1>2 DEF Continues
<1> HIDE DEF s
<1>8. Locks(t, s)  BY <1>6 DEF Locks, Guarded
<1>9. Advances  BY <1>1, <1>3, <1>5 DEF Advances, Taken
<1>10. ASSUME NEW u \in Starters, u # t PROVE Spared(starter[u])
    BY <1>1, <1>5, CallFacts DEF Spared, CallOK, FilesOK, UnkeyedOK, Unbound
<1>11. receipt'[k] # NoReceipt  BY <1>1, <1>5, RunFacts DEF NoReceipt
<1>12. CallOK(starter[t])'
  <2>1. starter'[t] = s  BY <1>2, <1>7 DEF Continues
  <2> QED BY <1>2, <1>5, <1>6, <1>11, <2>1
      DEF CallOK, KeyOK, FilesOK, AnswerOK, UnkeyedOK, Taken, Keyed, Guarded, Unkeyed, Early
<1>13. \A u \in Starters \ {t} : Apart(s, starter[u]) /\ Apart(starter[u], s)
    BY <1>6 DEF Apart, Unkeyed
<1>14. ASSUME NEW j \in CreationKeys PROVE RowOK(j)'
  <2>1. CASE j = k
      BY <1>1, <1>5, <2>1 DEF RowOK, Whole
  <2>2. CASE j # k
    <3>1. Taken(j) => receipt[j].run # r /\ receipt[j].run \in RunIds
        BY <1>1, <1>3 DEF Taken, Receipts, Unbound
    <3> QED BY <1>3, <1>5, <2>2, <3>1 DEF RowOK, Taken, Whole
  <2> QED BY <2>1, <2>2
<1>15. ASSUME NEW x \in RunIds PROVE FreeOK(x)'
  <2>1. Unbound(x)' => x # r /\ Unbound(x)
      BY <1>2, <1>3, <1>5, RunFacts DEF Unbound
  <2> QED BY <1>3, <1>5, <2>1 DEF FreeOK, Whole
<1>16. RowsOK'
  <2>1. ASSUME NEW i \in CreationKeys, NEW j \in CreationKeys, receipt'[i] # NoReceipt, i # j
        PROVE  receipt'[i].run # receipt'[j].run
      BY <1>1, <1>3, <1>5, <2>1 DEF Taken, Unbound
  <2> QED BY <1>14, <1>15, <2>1 DEF RowsOK, Taken
<1>17. WinsOK'
    BY <1>3, <1>5 DEF CreationInv, WinsOK, NoReceipt
<1>18. /\ starter' \in [Starters -> StartCalls] /\ initLock' \in [RunIds -> Starters \cup {"free"}]
       /\ ThreadsOK'
    BY <1>6, <1>7, <1>8, <1>9, <1>10, <1>12, <1>13, ThreadsKeep
<1> QED BY <1>5, <1>16, <1>17, <1>18 DEF CreationInv, CreationType

LEMMA ReserveKeeps ==
    ASSUME CreationInv, NEW t \in Starters, Reserve(t)
    PROVE  CreationInv'
<1> DEFINE k == starter[t].key
<1>1. starter[t].pc = "reserve" /\ starter[t].pc \notin Guarded
      /\ UNCHANGED <<created, initFile, initLock, won>>
    BY DEF Reserve, Guarded
<1>2. /\ starter[t] \in StartCalls /\ starter \in [Starters -> StartCalls] /\ CallOK(starter[t])
      /\ k \in CreationKeys /\ starter[t].file = 1 /\ starter[t].run = 0
      /\ starter[t].input \in CreationInputs
    BY <1>1, CallFacts DEF CallOK, KeyOK, FilesOK, Early, Keyed, Guarded, Unkeyed
<1>3. ASSUME NEW result \in {"conflict", "replayed", "capacity"}, Answer(t, result), UNCHANGED <<receipt, enrolled>>
      PROVE  CreationInv'
  <2>1. result \in Results /\ result \notin Refusals  BY DEF Results, Refusals
  <2>2. UNCHANGED <<Shared, initLock>>  BY <1>1, <1>3 DEF Shared
  <2> QED BY <1>1, <1>3, <2>1, <2>2, AnswerKeeps
<1>4. CASE receipt[k] # NoReceipt /\ Matches(t) /\ Goto(t, "resume") /\ UNCHANGED <<receipt, enrolled>>
  <2> DEFINE s == [starter[t] EXCEPT !.pc = "resume"]
  <2>1. s \in StartCalls /\ s.pc = "resume" /\ s.run = 0 /\ s.key = k /\ s.input = starter[t].input /\ s.file = 1
      BY <1>2 DEF StartCalls
  <2>2. Continues(t, s)  BY <1>2, <1>4 DEF Goto, Continues
  <2> HIDE DEF s
  <2>3. Locks(t, s)  BY <1>1, <2>1 DEF Locks, Guarded
  <2>4. CallOK(s)
      BY <1>2, <1>4, <2>1
      DEF CallOK, KeyOK, FilesOK, AnswerOK, UnkeyedOK, Keyed, Guarded, Unkeyed, Early, Taken, Matches
  <2> QED BY <1>1, <1>4, <2>1, <2>2, <2>3, <2>4, QuietKeeps DEF Shared, Unkeyed
<1>5. CASE /\ receipt[k] = NoReceipt /\ FreshRuns # {}
           /\ LET r == Min(FreshRuns)
              IN /\ receipt' = [receipt EXCEPT ![k] =
                        [run |-> r, input |-> starter[t].input, status |-> "pending"]]
                 /\ enrolled' = [enrolled EXCEPT ![r] = "yes"]
                 /\ starter' = [starter EXCEPT ![t].pc = "lock", ![t].run = r]
    BY <1>1, <1>2, <1>5, BindKeeps DEF Taken
<1>6. CASE /\ receipt[k] # NoReceipt
           /\ IF ~Matches(t) THEN Answer(t, "conflict")
              ELSE IF receipt[k].status = "completed" THEN Answer(t, "replayed")
              ELSE Goto(t, "resume")
           /\ UNCHANGED <<receipt, enrolled>>
    BY <1>3, <1>4, <1>6
<1>7. CASE receipt[k] = NoReceipt /\ Answer(t, "capacity") /\ UNCHANGED <<receipt, enrolled>>
    BY <1>3, <1>7
<1> QED BY <1>5, <1>6, <1>7 DEF Reserve

-----------------------------------------------------------------------------
LEMMA InitCreation == CreationInit => CreationInv
<1> USE CreationNames
<1> SUFFICES ASSUME CreationInit PROVE CreationInv  OBVIOUS
<1>1. /\ receipt \in [CreationKeys -> {NoReceipt} \cup
              [run : {Max(RunIds)}, input : CreationInputs, status : {"pending"}]]
      /\ enrolled = [r \in RunIds |-> "no"] /\ created = [r \in RunIds |-> NoRun]
      /\ initFile = [r \in RunIds |-> [f \in InitFiles |-> "none"]]
      /\ initLock = [r \in RunIds |-> "free"] /\ starter = [t \in Starters |-> Idle]
      /\ won = [k \in CreationKeys |-> 0]
    BY DEF CreationInit
<1>2. Idle \in StartCalls /\ Idle.pc = "idle" /\ Idle.run = 0
    BY FileFacts DEF Idle, StartCalls, Results
<1>3. NoRun \in RunRows  BY DEF NoRun, RunRows
<1>4. \A k \in CreationKeys : Taken(k) =>
        receipt[k] \in Receipts /\ receipt[k].status = "pending"
  <2> SUFFICES ASSUME NEW k \in CreationKeys, Taken(k)
               PROVE  receipt[k] \in Receipts /\ receipt[k].status = "pending"
      OBVIOUS
  <2>1. receipt[k] \in [run : {Max(RunIds)}, input : CreationInputs, status : {"pending"}]
      BY <1>1 DEF Taken
  <2> QED BY <2>1, RunFacts DEF Receipts
<1>5. CreationType
    BY <1>1, <1>2, <1>3, <1>4 DEF CreationType, Taken
<1>6. ASSUME NEW k \in CreationKeys PROVE RowOK(k)
    BY <1>1, <1>4, FileFacts DEF RowOK, Receipts, Whole
<1>7. ASSUME NEW r \in RunIds PROVE FreeOK(r)
    BY <1>1, FileFacts DEF FreeOK, Whole, NoRun
<1>8. ASSUME NEW i \in CreationKeys, NEW j \in CreationKeys, Taken(i), i # j
      PROVE  receipt[i].run # receipt[j].run
  <2> DEFINE B == {k \in CreationKeys : receipt[k] # NoReceipt}
  <2>1. ~Taken(j)
    <3> SUFFICES ASSUME Taken(j) PROVE FALSE  OBVIOUS
    <3>1. IsFiniteSet(B) /\ Cardinality(B) <= 1
        BY CreationSizes, FS_Subset DEF CreationInit
    <3>2. {i} \cup {j} \in SUBSET B  BY <1>8 DEF Taken
    <3>3. Cardinality({i} \cup {j}) = 2
      <4>1. IsFiniteSet({i}) /\ Cardinality({i}) = 1  BY FS_Singleton
      <4> QED BY <4>1, <1>8, FS_AddElement
    <3>4. Cardinality({i} \cup {j}) <= Cardinality(B)  BY <3>1, <3>2, FS_Subset
    <3>5. Cardinality(B) \in Nat  BY <3>1, FS_CardinalityType
    <3> HIDE DEF B
    <3> QED BY <3>1, <3>3, <3>4, <3>5
  <2> QED BY <1>4, <1>8, <2>1, RunFacts DEF Taken, Receipts
<1>9. RowsOK  BY <1>6, <1>7, <1>8 DEF RowsOK
<1>10. ASSUME NEW t \in Starters PROVE HoldsLock(t) /\ CallOK(starter[t])
    BY <1>1, <1>2 DEF HoldsLock, CallOK, KeyOK, FilesOK, AnswerOK, UnkeyedOK, Keyed, Guarded, Unkeyed, Early, Idle
<1>11. ThreadsOK  BY <1>1, <1>2, <1>10 DEF ThreadsOK, Apart, Unkeyed
<1>12. WinsOK  BY <1>1 DEF WinsOK
<1> QED BY <1>5, <1>9, <1>11, <1>12 DEF CreationInv

LEMMA NextCreation == CreationInv /\ [CreationNext]_creationVars => CreationInv'
<1> SUFFICES ASSUME CreationInv, [CreationNext]_creationVars PROVE CreationInv'  OBVIOUS
<1>1. CASE UNCHANGED creationVars
    BY <1>1 DEF creationVars, CreationInv, CreationType, RowsOK, RowOK, FreeOK, Unbound, Whole, Taken,
                ThreadsOK, HoldsLock, CallOK, KeyOK, FilesOK, AnswerOK, UnkeyedOK, Settled, Apart, WinsOK
<1>2. ASSUME NEW t \in Starters, CreationStep(t) PROVE CreationInv'
    BY <1>2, ReserveKeeps, ResumeKeeps, LockKeeps, ObserveLockedKeeps, CheckKeeps, PublishKeeps,
       LinkKeeps, UnlinkKeeps, RecordsKeeps, TransitionKeeps, ObserveKeeps, ForgetKeeps,
       InitializeRunKeeps, CreateRunKeeps, RegisterKeeps, StartedKeeps
    DEF CreationStep
<1>3. ASSUME NEW t \in Starters, NEW k \in CreationKeys, NEW q \in CreationInputs, LookUp(t, k, q)
      PROVE  CreationInv'
    BY <1>3, LookUpKeeps
<1>4. ASSUME NEW t \in Starters, NEW q \in CreationInputs, StartUnkeyed(t, q) PROVE CreationInv'
    BY <1>4, StartUnkeyedKeeps
<1>5. ASSUME NEW t \in Starters, InitializationFails(t) PROVE CreationInv'
    BY <1>5, FailsKeeps
<1>6. ASSUME NEW r \in RunIds, CancelRun(r) PROVE CreationInv'
    BY <1>6, CancelKeeps
<1>7. CASE ServerDies
    BY <1>7, DiesKeeps
<1> QED BY <1>1, <1>2, <1>3, <1>4, <1>5, <1>6, <1>7 DEF CreationNext

-----------------------------------------------------------------------------
(* No more runs are enrolled than keys are bound.                          *)
LEMMA EnrolledCount ==
    ASSUME CreationInv
    PROVE  Cardinality({r \in RunIds : enrolled[r] # "no"}) <=
           Cardinality({j \in CreationKeys : receipt[j] # NoReceipt})
<1> DEFINE B == {j \in CreationKeys : receipt[j] # NoReceipt}
           E == {r \in RunIds : enrolled[r] # "no"}
           T == {receipt[j].run : j \in B}
           g == [j \in B |-> receipt[j].run]
<1>1. IsFiniteSet(B)  BY CreationSizes, FS_Subset
<1>2. E \in SUBSET T
  <2> SUFFICES ASSUME NEW r \in E PROVE r \in T  OBVIOUS
  <2>1. ~Unbound(r)  BY DEF CreationInv, RowsOK, FreeOK
  <2>2. PICK k \in CreationKeys : receipt[k].run = r  BY <2>1 DEF Unbound
  <2>3. k \in B  BY <2>2, RunFacts
  <2> QED BY <2>2, <2>3
<1>3. g \in Surjection(B, T)  BY DEF Surjection
<1>4. IsFiniteSet(T) /\ Cardinality(T) <= Cardinality(B)
  <2> HIDE DEF B, T, g
  <2> QED BY <1>1, <1>3, FS_Surjection
<1>5. Cardinality(E) <= Cardinality(T) /\ IsFiniteSet(E)
  <2> HIDE DEF E, T
  <2> QED BY <1>2, <1>4, FS_Subset
<1>6. Cardinality(E) \in Nat /\ Cardinality(T) \in Nat /\ Cardinality(B) \in Nat
  <2> HIDE DEF B, E, T
  <2> QED BY <1>1, <1>4, <1>5, FS_CardinalityType
<1>7. Cardinality(E) <= Cardinality(B)
  <2> HIDE DEF B, E, T
  <2> QED BY <1>4, <1>5, <1>6
<1> QED BY <1>7

LEMMA InvIsSound == CreationInv => CreationSound
<1> SUFFICES ASSUME CreationInv PROVE CreationSound  OBVIOUS
<1>1. /\ receipt \in [CreationKeys -> Receipts \cup {NoReceipt}]
      /\ enrolled \in [RunIds -> CreationInputs \cup {"no", "yes"}]
      /\ \A k \in CreationKeys : RowOK(k)
      /\ \A r \in RunIds : FreeOK(r)
      /\ \A j, k \in CreationKeys : Taken(j) /\ j # k => receipt[j].run # receipt[k].run
    BY DEF CreationInv, CreationType, RowsOK
<1>2. CreationComplete
  <2> SUFFICES ASSUME NEW r \in RunIds, created[r].state = "assess"
               PROVE  /\ Whole(r, created[r].input)
                      /\ \A k \in CreationKeys : receipt[k].run = r =>
                          receipt[k].input = created[r].input /\ receipt[k].status = "completed"
      BY DEF CreationComplete, Whole
  <2>1. CASE Unbound(r)
      BY <1>1, <2>1 DEF FreeOK, Unbound
  <2>2. ASSUME NEW k \in CreationKeys, receipt[k].run = r
        PROVE  receipt[k].input = created[r].input /\ receipt[k].status = "completed" /\ Whole(r, created[r].input)
    <3>1. Taken(k)  BY <2>2, RunFacts DEF Taken
    <3>2. enrolled[r] = receipt[k].input  BY <1>1, <2>2, <3>1 DEF RowOK, NoRun
    <3> QED BY <1>1, <2>2, <3>1, <3>2 DEF RowOK
  <2> QED BY <2>1, <2>2 DEF Unbound
<1>3. CreatedOncePerKey
  <2>1. \A k \in CreationKeys : won[k] <= 1  BY DEF CreationInv, WinsOK
  <2> QED BY <1>1, <2>1, EnrolledCount DEF CreatedOncePerKey, Taken
<1>4. CreationResumable
  <2> SUFFICES ASSUME NEW t \in Starters, starter[t].pc = "answered", starter[t].key # "none",
                      starter[t].result \in Refusals
               PROVE  \E r \in RunIds : r = receipt[starter[t].key].run /\ created[r].state = "cancelled"
      BY DEF CreationResumable, Refusals
  <2>1. starter[t] \in StartCalls /\ AnswerOK(starter[t])  BY CallFacts DEF CallOK
  <2>2. starter[t].key \in CreationKeys  BY <2>1 DEF StartCalls
  <2>3. Taken(starter[t].key) /\ created[receipt[starter[t].key].run].state = "cancelled"
      BY <2>1 DEF AnswerOK
  <2>4. receipt[starter[t].key].run \in RunIds  BY <1>1, <2>2, <2>3 DEF Taken, Receipts
  <2> QED BY <2>3, <2>4
<1> QED BY <1>2, <1>3, <1>4 DEF CreationSound

(* A keyed start makes one whole run of one request, at most one answer    *)
(* claims it, and no repetition is refused for what a dead attempt left    *)
(* (start_idempotent, create_run, prepare_creation_records).               *)
THEOREM CreationAlwaysSound == CreationSpec => []CreationSound
<1>1. CreationSpec => []CreationInv  BY InitCreation, NextCreation, PTL DEF CreationSpec
<1> QED BY <1>1, InvIsSound, PTL

(* And so with the secret of the deployment and the tables of its          *)
(* database, when its processes start (materialize_secrets, initialize).   *)
THEOREM AlwaysCreatedOnce == CreationSpec /\ FirstSpec => []CreatedOnce
<1>1. CreationSound /\ StartsAgree => CreatedOnce  BY DEF CreatedOnce
<1> QED BY <1>1, CreationAlwaysSound, StartsAlwaysAgree, PTL

-----------------------------------------------------------------------------
(* The private files of a restartable action. The file at a position, how  *)
(* it is written, and the records the action has in it.                    *)
EffectRecords == [by : {"caller", "action"}, epoch : Nat, at : Nat,
                  proposal : Proposals \cup {"none"}, stamp : Nat]
Images == Seq(EffectRecords)
EffectSlots == [content : EffectRecords, before : Images, disturbed : BOOLEAN, after : Images]
EffectCalls == [pc : {"rest", "writes", "effects", "publish", "seal", "refused"},
                proposal : Proposals \cup {"none"}, epoch : Epochs, stamp : Nat, at : Positions]

EffectType ==
    /\ effEpoch \in Epochs /\ stamp \in Nat /\ notes \in Nat /\ spent \in Nat
    /\ effFile \in [EffectFiles -> Images]
    /\ slot \in [Epochs -> [Positions -> EffectSlots \cup {NoSlot}]]
    /\ effLock \in [EffectFiles -> Executors \cup {"free"}]
    /\ pendingOf \in Executors \cup {"none", "dead"}
    /\ executor \in [Executors -> EffectCalls]
    /\ sealed \in [Epochs -> Proposals \cup {"none"}]

FileOf(i) == SlotList[i].file
Appends(i) == SlotList[i].append
Records(ep, i) == RecordsOf(FileOf(i), ep, i)

(* What a slot says of its file.                                           *)
SlotOK(ep, i) ==
    LET s == slot[ep][i]
        image == effFile[FileOf(i)]
    IN /\ s = NoSlot /\ Appends(i) => Records(ep, i) = {}
       /\ s # NoSlot =>
            /\ s.content.by = "action" /\ s.content.epoch = ep /\ s.content.at = i
            /\ s.after = AfterImage(s.before, s.content, Appends(i))
            /\ s.disturbed \/ image \in {s.before, s.after}
            /\ Appends(i) =>
                 /\ Len(s.before) <= Len(image)
                 /\ Len(s.before) = Len(image) => Records(ep, i) = {}

SlotsOK == \A ep \in Epochs, i \in Positions : SlotOK(ep, i)

Once(ep, i) == Appends(i) => \A m, n \in Records(ep, i) : m = n
OnceOK == \A ep \in Epochs, i \in Positions : Once(ep, i)

(* The record of a position is in its file, with this proposal.            *)
InPlace(ep, i, p) ==
    Appends(i) => \E n \in Records(ep, i) : effFile[FileOf(i)][n].proposal = p

SealedOK == \A ep \in Epochs, i \in Positions : sealed[ep] # "none" => InPlace(ep, i, sealed[ep])

Progress(e) ==
    /\ executor[e].pc = "writes" => executor[e].at = 1
    /\ executor[e].pc \in {"effects", "publish", "seal"} =>
        \A j \in Positions : j < executor[e].at \/ executor[e].pc = "seal" =>
            InPlace(executor[e].epoch, j, executor[e].proposal)

AtRename(e) ==
    LET f == FileOf(executor[e].at)
        s == slot[executor[e].epoch][executor[e].at]
    IN executor[e].pc = "publish" =>
        effLock[f] = e /\ s # NoSlot /\ s.content = Content(e) /\ effFile[f] = s.before

Cause(e) ==
    LET s == slot[executor[e].epoch][executor[e].at]
    IN executor[e].pc = "refused" =>
        \/ s = NoSlot /\ SlotCount >= MaxSlots
        \/ /\ s # NoSlot
           /\ \/ s.content.proposal # executor[e].proposal
              \/ s.content.stamp # executor[e].stamp
              \/ s.disturbed

ActionThreadsOK == \A e \in Executors : Progress(e) /\ AtRename(e) /\ Cause(e)
OwnerOK == pendingOf \in Executors => effEpoch < MaxEffectEpoch

EffectInv == EffectType /\ OwnerOK /\ SlotsOK /\ OnceOK /\ SealedOK /\ ActionThreadsOK

-----------------------------------------------------------------------------
LEMMA PositionFacts ==
    /\ SlotList \in Seq([file : STRING, append : BOOLEAN])
    /\ Positions \subseteq Nat \ {0} /\ 1 \in Positions /\ Len(SlotList) \in Positions
    /\ \A i \in Positions : FileOf(i) \in EffectFiles /\ Appends(i) \in BOOLEAN
    /\ \A i, j \in Positions : FileOf(i) = FileOf(j) => Appends(i) = Appends(j)
<1>1. SlotList \in Seq([file : STRING, append : BOOLEAN]) /\ Len(SlotList) \in Nat /\ SlotList # <<>>
  BY EffectSizes, LenProperties
<1>2. Len(SlotList) > 0  BY <1>1, EmptySeq
<1>3. \A i \in Positions : SlotList[i] \in [file : STRING, append : BOOLEAN]
  BY <1>1, ElementOfSeq DEF Positions
<1>4. \A i \in Positions : FileOf(i) \in EffectFiles  BY DEF EffectFiles, FileOf
<1>5. \A i \in Positions : Appends(i) \in BOOLEAN  BY <1>3 DEF Appends
<1>6. \A i, j \in Positions : FileOf(i) = FileOf(j) => Appends(i) = Appends(j)
  BY EffectNames DEF Positions, FileOf, Appends
<1> QED BY <1>1, <1>2, <1>4, <1>5, <1>6 DEF Positions

LEMMA EffectNumbers ==
    /\ MaxEffectEpoch \in Nat /\ MaxSlots \in Nat /\ MaxStamp \in Nat /\ 0 \in Epochs
    /\ Epochs \subseteq Nat
BY EffectSizes DEF Epochs

LEMMA NoSlotApart == NoSlot \notin EffectSlots
<1>1. SUFFICES ASSUME NoSlot \in EffectSlots PROVE FALSE  OBVIOUS
<1>2. DOMAIN NoSlot = {"content", "before", "disturbed", "after"}  BY <1>1 DEF EffectSlots
<1>3. DOMAIN NoSlot = {"content"}  BY DEF NoSlot
<1> QED BY <1>2, <1>3

(* What writing a record does to an image.                                 *)
LEMMA AfterFacts ==
    ASSUME NEW s \in Images, NEW r \in EffectRecords, NEW a \in BOOLEAN
    PROVE  /\ AfterImage(s, r, a) \in Images
           /\ Len(s) \in Nat /\ DOMAIN s = 1 .. Len(s)
           /\ a => /\ Len(AfterImage(s, r, a)) = Len(s) + 1
                   /\ DOMAIN AfterImage(s, r, a) = 1 .. (Len(s) + 1)
                   /\ \A n \in 1 .. Len(s) : AfterImage(s, r, a)[n] = s[n]
                   /\ AfterImage(s, r, a)[Len(s) + 1] = r
<1>1. Append(s, r) \in Seq(EffectRecords) /\ Len(s) \in Nat /\ DOMAIN s = 1 .. Len(s)
  BY AppendProperties, LenProperties DEF Images
<1>2. /\ Len(Append(s, r)) = Len(s) + 1
      /\ \A n \in 1 .. Len(s) : Append(s, r)[n] = s[n]
      /\ Append(s, r)[Len(s) + 1] = r
  BY AppendProperties DEF Images
<1>3. DOMAIN Append(s, r) = 1 .. (Len(s) + 1)  BY <1>1, <1>2, LenProperties
<1>4. <<r>> \in Seq(EffectRecords)  OBVIOUS
<1> QED BY <1>1, <1>2, <1>3, <1>4 DEF AfterImage, Images

LEMMA LastWritten ==
    ASSUME NEW s \in Images, NEW r \in EffectRecords, NEW t, t = AfterImage(s, r, TRUE)
    PROVE  Len(s) + 1 \in DOMAIN t /\ t[Len(s) + 1] = r
<1>1. t = Append(s, r)  BY DEF AfterImage
<1>2. Len(s) \in Nat /\ Append(s, r) \in Seq(EffectRecords) /\ Len(Append(s, r)) = Len(s) + 1
  BY AppendProperties, LenProperties DEF Images
<1>3. DOMAIN Append(s, r) = 1 .. (Len(s) + 1) /\ Append(s, r)[Len(s) + 1] = r
  BY <1>2, AppendProperties, LenProperties DEF Images
<1>4. Len(s) + 1 \in 1 .. (Len(s) + 1)  BY <1>2
<1>5. Len(s) + 1 \in DOMAIN t  BY <1>1, <1>3, <1>4, Zenon
<1>6. t[Len(s) + 1] = r  BY <1>1, <1>3, Zenon
<1> QED BY <1>5, <1>6

LEMMA ContentFacts ==
    ASSUME EffectType, NEW e \in Executors
    PROVE  /\ Content(e) \in EffectRecords
           /\ executor[e] \in EffectCalls
           /\ Content(e).by = "action" /\ Content(e).epoch = executor[e].epoch
           /\ Content(e).at = executor[e].at /\ Content(e).proposal = executor[e].proposal
           /\ Content(e).stamp = executor[e].stamp
BY PositionFacts, EffectNumbers DEF EffectType, EffectCalls, EffectRecords, Content

-----------------------------------------------------------------------------
(* The record r is written to the file f.                                  *)
Writes(f, r) == \A i \in Positions :
    FileOf(i) = f => effFile' = [effFile EXCEPT ![f] = AfterImage(@, r, Appends(i))]

(* One more record in the file, and none goes.                             *)
LEMMA WriteRecords ==
    ASSUME EffectType, NEW f \in EffectFiles, NEW r \in EffectRecords, Writes(f, r),
           NEW i \in Positions, NEW ep \in Epochs, Appends(i)
    PROVE  /\ f # FileOf(i) => effFile'[FileOf(i)] = effFile[FileOf(i)] /\ Records(ep, i)' = Records(ep, i)
           /\ f = FileOf(i) =>
                /\ effFile'[FileOf(i)] = AfterImage(effFile[FileOf(i)], r, TRUE)
                /\ Len(effFile'[FileOf(i)]) = Len(effFile[FileOf(i)]) + 1
                /\ Records(ep, i)' \subseteq Records(ep, i) \cup {Len(effFile[FileOf(i)]) + 1}
                /\ ~(r.by = "action" /\ r.epoch = ep /\ r.at = i) => Records(ep, i)' = Records(ep, i)
           /\ \A n \in Records(ep, i) :
                n \in Records(ep, i)' /\ effFile'[FileOf(i)][n] = effFile[FileOf(i)][n]
<1>1. FileOf(i) \in EffectFiles /\ effFile \in [EffectFiles -> Images]  BY PositionFacts DEF EffectType
<1>2. PICK j \in Positions : f = FileOf(j)  BY DEF EffectFiles, FileOf
<1>3. effFile' = [effFile EXCEPT ![f] = AfterImage(@, r, Appends(j))]  BY <1>2 DEF Writes
<1>4. CASE f # FileOf(i)
  <2>1. effFile'[FileOf(i)] = effFile[FileOf(i)]  BY <1>1, <1>3, <1>4
  <2>2. Records(ep, i)' = Records(ep, i)  BY <2>1 DEF Records, RecordsOf
  <2> QED BY <2>1, <2>2, <1>4
<1>5. CASE f = FileOf(i)
  <2> DEFINE s == effFile[FileOf(i)]
             t == AfterImage(s, r, TRUE)
             hit == r.by = "action" /\ r.epoch = ep /\ r.at = i
  <2>1. effFile'[FileOf(i)] = t  BY <1>1, <1>2, <1>3, <1>5, PositionFacts
  <2>2. /\ s \in Images /\ Len(s) \in Nat /\ DOMAIN s = 1 .. Len(s) /\ Len(t) = Len(s) + 1
        /\ DOMAIN t = 1 .. (Len(s) + 1) /\ \A n \in 1 .. Len(s) : t[n] = s[n]
        /\ t[Len(s) + 1] = r
    BY <1>1, AfterFacts
  <2>3. Records(ep, i) = {n \in DOMAIN s : s[n].by = "action" /\ s[n].epoch = ep /\ s[n].at = i}
    BY DEF Records, RecordsOf
  <2>4. Records(ep, i)' = {n \in DOMAIN t : t[n].by = "action" /\ t[n].epoch = ep /\ t[n].at = i}
    BY <2>1 DEF Records, RecordsOf
  <2> HIDE DEF s, t
  <2>5. 1 .. (Len(s) + 1) = (1 .. Len(s)) \cup {Len(s) + 1} /\ Len(s) + 1 \notin 1 .. Len(s)  BY <2>2
  <2>6. Records(ep, i)' = Records(ep, i) \cup (IF hit THEN {Len(s) + 1} ELSE {})
    <3>1. ASSUME NEW n PROVE n \in Records(ep, i)' <=> n \in Records(ep, i) \cup (IF hit THEN {Len(s) + 1} ELSE {})
      <4>1. CASE n \in 1 .. Len(s)  BY <4>1, <2>2, <2>3, <2>4, <2>5
      <4>2. CASE n = Len(s) + 1  BY <4>2, <2>2, <2>3, <2>4, <2>5
      <4>3. CASE n \notin 1 .. (Len(s) + 1)  BY <4>3, <2>2, <2>3, <2>4, <2>5
      <4> QED BY <4>1, <4>2, <4>3, <2>5
    <3> QED BY <3>1
  <2>7. \A n \in Records(ep, i) : n \in Records(ep, i)' /\ t[n] = s[n]  BY <2>2, <2>3, <2>6
  <2> QED BY <1>5, <2>1, <2>2, <2>6, <2>7 DEF s, t
<1> QED BY <1>4, <1>5

LEMMA InPlaceStays ==
    ASSUME EffectType, NEW ep \in Epochs, NEW i \in Positions, NEW p, InPlace(ep, i, p),
           \/ effFile' = effFile
           \/ \E f \in EffectFiles, r \in EffectRecords : Writes(f, r)
    PROVE  InPlace(ep, i, p)'
<1>1. CASE effFile' = effFile  BY <1>1 DEF InPlace, Records, RecordsOf
<1>2. ASSUME NEW f \in EffectFiles, NEW r \in EffectRecords, Writes(f, r), Appends(i)
      PROVE  \E n \in Records(ep, i)' : effFile'[FileOf(i)][n].proposal = p
  <2>1. PICK n \in Records(ep, i) : effFile[FileOf(i)][n].proposal = p  BY <1>2 DEF InPlace
  <2>2. n \in Records(ep, i)' /\ effFile'[FileOf(i)][n] = effFile[FileOf(i)][n]  BY <1>2, WriteRecords
  <2> QED BY <2>1, <2>2
<1> QED BY <1>1, <1>2 DEF InPlace

(* A slot keeps what it says, but that its file was changed.               *)
SlotStays(ep, i) ==
    \/ slot'[ep][i] = slot[ep][i]
    \/ slot[ep][i] # NoSlot /\ slot'[ep][i] = [slot[ep][i] EXCEPT !.disturbed = TRUE]

LEMMA DisturbedFacts ==
    ASSUME EffectType, NEW f, NEW ep0, NEW i0, slot' = Disturbed(f, ep0, i0),
           NEW ep \in Epochs, NEW i \in Positions
    PROVE  /\ slot' \in [Epochs -> [Positions -> EffectSlots \cup {NoSlot}]]
           /\ SlotStays(ep, i)
           /\ FileOf(i) # f => slot'[ep][i] = slot[ep][i]
           /\ ep = ep0 /\ i = i0 => slot'[ep][i] = slot[ep][i]
           /\ slot[ep][i] = NoSlot => slot'[ep][i] = NoSlot
           /\ (ep # ep0 \/ i # i0) /\ slot[ep][i] # NoSlot /\ FileOf(i) = f =>
                slot'[ep][i] = [slot[ep][i] EXCEPT !.disturbed = TRUE]
<1> DEFINE Next1(p, j) == IF <<p, j>> # <<ep0, i0>> /\ slot[p][j] # NoSlot /\ SlotList[j].file = f
                          THEN [slot[p][j] EXCEPT !.disturbed = TRUE] ELSE slot[p][j]
<1>1. slot' = [p \in Epochs |-> [j \in Positions |-> Next1(p, j)]]  BY DEF Disturbed
<1>2. ASSUME NEW p \in Epochs, NEW j \in Positions PROVE Next1(p, j) \in EffectSlots \cup {NoSlot}
  <2>1. slot[p][j] \in EffectSlots \cup {NoSlot}  BY DEF EffectType
  <2>2. slot[p][j] # NoSlot => [slot[p][j] EXCEPT !.disturbed = TRUE] \in EffectSlots  BY <2>1 DEF EffectSlots
  <2> QED BY <2>1, <2>2
<1>3. slot'[ep][i] = Next1(ep, i)  BY <1>1
<1>4. slot' \in [Epochs -> [Positions -> EffectSlots \cup {NoSlot}]]
  <2> HIDE DEF Next1
  <2> QED BY <1>1, <1>2
<1> QED BY <1>3, <1>4 DEF SlotStays, FileOf

(* The record of a disturbed slot stands in the same fields.               *)
LEMMA DisturbedFields ==
    ASSUME NEW s \in EffectSlots, NEW t, t = [s EXCEPT !.disturbed = TRUE]
    PROVE  /\ t \in EffectSlots /\ t # NoSlot /\ t.disturbed = TRUE
           /\ t.content = s.content /\ t.before = s.before /\ t.after = s.after
<1>1. t \in EffectSlots  BY DEF EffectSlots
<1> QED BY <1>1, NoSlotApart DEF EffectSlots

(* A write leaves every slot telling the truth: the caller's record is in  *)
(* no slot, and the slot that is published finds its file as it was.       *)
LEMMA WriteSlots ==
    ASSUME EffectType, SlotsOK, OnceOK,
           NEW f \in EffectFiles, NEW r \in EffectRecords, Writes(f, r),
           NEW ep0 \in Epochs, NEW i0 \in Nat, slot' = Disturbed(f, ep0, i0),
           \/ i0 = 0 /\ r.by = "caller"
           \/ /\ i0 \in Positions /\ FileOf(i0) = f /\ slot[ep0][i0] # NoSlot
              /\ r = slot[ep0][i0].content /\ effFile[f] = slot[ep0][i0].before
    PROVE  SlotsOK' /\ OnceOK'
<1>1. SUFFICES ASSUME NEW ep \in Epochs, NEW i \in Positions PROVE SlotOK(ep, i)' /\ Once(ep, i)'
  BY DEF SlotsOK, OnceOK
<1>2. /\ SlotOK(ep, i) /\ Once(ep, i) /\ FileOf(i) \in EffectFiles /\ Appends(i) \in BOOLEAN
      /\ slot[ep][i] \in EffectSlots \cup {NoSlot} /\ effFile[FileOf(i)] \in Images /\ 0 \notin Positions
  BY PositionFacts DEF SlotsOK, OnceOK, EffectType
<1>0. /\ FileOf(i) # f => slot'[ep][i] = slot[ep][i]
      /\ ep = ep0 /\ i = i0 => slot'[ep][i] = slot[ep][i]
      /\ slot[ep][i] = NoSlot => slot'[ep][i] = NoSlot
      /\ (ep # ep0 \/ i # i0) /\ slot[ep][i] # NoSlot /\ FileOf(i) = f =>
           slot'[ep][i] = [slot[ep][i] EXCEPT !.disturbed = TRUE]
  BY DisturbedFacts
<1>7. Appends(i) /\ f = FileOf(i) =>
        /\ Len(effFile'[FileOf(i)]) = Len(effFile[FileOf(i)]) + 1
        /\ Records(ep, i)' \subseteq Records(ep, i) \cup {Len(effFile[FileOf(i)]) + 1}
        /\ ~(r.by = "action" /\ r.epoch = ep /\ r.at = i) => Records(ep, i)' = Records(ep, i)
  BY WriteRecords
<1>8. Appends(i) => \A n \in Records(ep, i) : effFile'[FileOf(i)][n] = effFile[FileOf(i)][n]
  BY WriteRecords
<1>3. /\ Len(effFile[FileOf(i)]) \in Nat
      /\ slot[ep][i] # NoSlot => Len(slot[ep][i].before) \in Nat
  BY <1>2, LenProperties DEF Images, EffectSlots
<1>4. CASE FileOf(i) # f
  <2>1. slot'[ep][i] = slot[ep][i]  BY <1>4, <1>0
  <2>2. effFile'[FileOf(i)] = effFile[FileOf(i)]
    <3>1. PICK j \in Positions : f = FileOf(j)  BY DEF EffectFiles, FileOf
    <3>2. effFile' = [effFile EXCEPT ![f] = AfterImage(@, r, Appends(j))]  BY <3>1 DEF Writes
    <3> QED BY <3>2, <1>2, <1>4
  <2>3. Records(ep, i)' = Records(ep, i)  BY <2>2 DEF Records, RecordsOf
  <2> QED BY <1>2, <2>1, <2>2, <2>3 DEF SlotOK, Once
<1>5. CASE FileOf(i) = f /\ ep = ep0 /\ i = i0
  <2>1. slot'[ep][i] = slot[ep][i]  BY <1>5, <1>0
  <2>2. /\ slot[ep][i] # NoSlot /\ r = slot[ep][i].content /\ effFile[f] = slot[ep][i].before
    BY <1>2, <1>5
  <2>3. effFile' = [effFile EXCEPT ![f] = AfterImage(@, r, Appends(i))]  BY <1>5 DEF Writes
  <2>4. effFile'[FileOf(i)] = slot[ep][i].after  BY <1>2, <1>5, <2>2, <2>3 DEF SlotOK, EffectType
  <2>5. ASSUME Appends(i)
        PROVE  /\ Records(ep, i) = {} /\ Len(effFile'[FileOf(i)]) = Len(effFile[FileOf(i)]) + 1
               /\ Records(ep, i)' \subseteq {Len(effFile[FileOf(i)]) + 1}
    <3>1. Records(ep, i) = {}  BY <1>2, <1>5, <2>2, <2>5 DEF SlotOK
    <3> QED BY <1>5, <2>5, <3>1, <1>7
  <2>6. Once(ep, i)'  BY <2>5 DEF Once
  <2>7. SlotOK(ep, i)'
    <3>1. Appends(i) => Len(slot[ep][i].before) < Len(effFile'[FileOf(i)])  BY <2>5, <2>2, <1>3, <1>5
    <3> QED BY <3>1, <1>2, <1>3, <2>1, <2>2, <2>4, <2>5 DEF SlotOK
  <2> QED BY <2>6, <2>7
<1>6. CASE FileOf(i) = f /\ ~(ep = ep0 /\ i = i0)
  <2>1. ep # ep0 \/ i # i0  BY <1>6
  <2>2. IF slot[ep][i] = NoSlot THEN slot'[ep][i] = NoSlot
        ELSE slot'[ep][i] = [slot[ep][i] EXCEPT !.disturbed = TRUE]
    BY <1>6, <2>1, <1>0
  <2>3. ~(r.by = "action" /\ r.epoch = ep /\ r.at = i)
    <3>1. CASE r.by = "caller"  BY <3>1
    <3>2. CASE i0 \in Positions /\ slot[ep0][i0] # NoSlot /\ r = slot[ep0][i0].content
      <4>1. SlotOK(ep0, i0)  BY <3>2 DEF SlotsOK
      <4> QED BY <3>2, <4>1, <1>6 DEF SlotOK
    <3> QED BY <3>1, <3>2
  <2>4. ASSUME Appends(i)
        PROVE  /\ Records(ep, i)' = Records(ep, i) /\ Len(effFile'[FileOf(i)]) = Len(effFile[FileOf(i)]) + 1
               /\ \A n \in Records(ep, i) : effFile'[FileOf(i)][n] = effFile[FileOf(i)][n]
    BY <1>6, <2>3, <2>4, <1>7, <1>8
  <2>5. Once(ep, i)'  BY <2>4, <1>2 DEF Once
  <2>6. SlotOK(ep, i)'
    <3>1. CASE slot[ep][i] = NoSlot  BY <3>1, <2>2, <2>4, <1>2 DEF SlotOK
    <3>2. CASE slot[ep][i] # NoSlot
      <4>1. /\ slot'[ep][i] # NoSlot /\ slot'[ep][i].disturbed = TRUE
            /\ slot'[ep][i].content = slot[ep][i].content /\ slot'[ep][i].before = slot[ep][i].before
            /\ slot'[ep][i].after = slot[ep][i].after
        BY <3>2, <2>2, <1>2, DisturbedFields
      <4>2. Appends(i) => Len(slot[ep][i].before) < Len(effFile'[FileOf(i)])
        BY <3>2, <1>2, <1>3, <2>4 DEF SlotOK
      <4> QED BY <3>2, <4>1, <4>2, <1>2, <1>3 DEF SlotOK
    <3> QED BY <3>1, <3>2
  <2> QED BY <2>5, <2>6
<1> QED BY <1>4, <1>5, <1>6

-----------------------------------------------------------------------------
(* Slots are added only while there is room for them.                      *)
SlotsStay ==
    \/ \A ep \in Epochs, i \in Positions : SlotStays(ep, i)
    \/ /\ SlotCount < MaxSlots
       /\ \A ep \in Epochs, i \in Positions : slot[ep][i] # NoSlot => SlotStays(ep, i)

LEMMA SlotFields ==
    ASSUME EffectType, NEW ep \in Epochs, NEW i \in Positions, slot[ep][i] # NoSlot, SlotStays(ep, i)
    PROVE  /\ slot'[ep][i] # NoSlot /\ slot'[ep][i].content = slot[ep][i].content
           /\ slot'[ep][i].before = slot[ep][i].before /\ slot'[ep][i].after = slot[ep][i].after
           /\ slot[ep][i].disturbed => slot'[ep][i].disturbed
<1>1. slot[ep][i] \in EffectSlots  BY DEF EffectType
<1>2. CASE slot'[ep][i] = slot[ep][i]  BY <1>2
<1>3. CASE slot'[ep][i] = [slot[ep][i] EXCEPT !.disturbed = TRUE]  BY <1>1, <1>3, DisturbedFields
<1> QED BY <1>2, <1>3 DEF SlotStays

LEMMA CountStays ==
    ASSUME EffectType, spent' = spent, \A ep \in Epochs, i \in Positions : SlotStays(ep, i)
    PROVE  SlotCount' = SlotCount
<1> DEFINE Used == {u \in Epochs \X Positions : slot[u[1]][u[2]] # NoSlot}
<1>1. ASSUME NEW u \in Epochs \X Positions
      PROVE  slot[u[1]][u[2]] # NoSlot <=> slot'[u[1]][u[2]] # NoSlot
  <2>1. u[1] \in Epochs /\ u[2] \in Positions /\ SlotStays(u[1], u[2])  OBVIOUS
  <2>2. slot[u[1]][u[2]] # NoSlot => slot'[u[1]][u[2]] # NoSlot  BY <2>1, SlotFields
  <2>3. slot[u[1]][u[2]] = NoSlot => slot'[u[1]][u[2]] = NoSlot  BY <2>1 DEF SlotStays
  <2> QED BY <2>2, <2>3
<1>2. Used' = Used  BY <1>1
<1> QED BY <1>2 DEF SlotCount

LEMMA CauseStays ==
    ASSUME EffectType, NEW e \in Executors, Cause(e), executor'[e] = executor[e], spent' = spent, SlotsStay
    PROVE  Cause(e)'
<1> DEFINE ep == executor[e].epoch
           i == executor[e].at
<1>1. ep \in Epochs /\ i \in Positions  BY DEF EffectType, EffectCalls
<1>2. SUFFICES ASSUME executor[e].pc = "refused"
      PROVE  \/ slot'[ep][i] = NoSlot /\ SlotCount' >= MaxSlots
             \/ /\ slot'[ep][i] # NoSlot
                /\ \/ slot'[ep][i].content.proposal # executor[e].proposal
                   \/ slot'[ep][i].content.stamp # executor[e].stamp
                   \/ slot'[ep][i].disturbed
  BY DEF Cause
<1>3. CASE slot[ep][i] # NoSlot
  <2>1. SlotStays(ep, i)  BY <1>1, <1>3 DEF SlotsStay
  <2> HIDE DEF ep, i
  <2>2. /\ slot'[ep][i] # NoSlot /\ slot'[ep][i].content = slot[ep][i].content
        /\ slot[ep][i].disturbed => slot'[ep][i].disturbed
    BY <1>1, <1>3, <2>1, SlotFields
  <2>3. \/ slot[ep][i].content.proposal # executor[e].proposal
        \/ slot[ep][i].content.stamp # executor[e].stamp
        \/ slot[ep][i].disturbed
    BY <1>2, <1>3 DEF Cause, ep, i
  <2> QED BY <2>2, <2>3
<1>4. CASE slot[ep][i] = NoSlot
  <2>1. SlotCount >= MaxSlots  BY <1>2, <1>4 DEF Cause
  <2>2. spent \in Nat /\ MaxSlots \in Nat  BY EffectNumbers DEF EffectType
  <2>3. ~(SlotCount < MaxSlots)
    <3>1. SlotCount \in Nat
      <4>1. IsFiniteSet(Epochs \X Positions)
        <5>1. IsFiniteSet(Epochs)  BY EffectNumbers, FS_Interval DEF Epochs
        <5>2. IsFiniteSet(Positions)  BY PositionFacts, FS_Interval DEF Positions
        <5> QED BY <5>1, <5>2, FS_Product
      <4> DEFINE Used == {u \in Epochs \X Positions : slot[u[1]][u[2]] # NoSlot}
      <4>2. Used \subseteq Epochs \X Positions  OBVIOUS
      <4> HIDE DEF Used
      <4>3. Cardinality(Used) \in Nat  BY <4>1, <4>2, FS_Subset, FS_CardinalityType
      <4> QED BY <4>3, <2>2 DEF SlotCount, Used
    <3> QED BY <2>1, <2>2, <3>1
  <2>4. \A p \in Epochs, j \in Positions : SlotStays(p, j)  BY <2>3 DEF SlotsStay
  <2>5. slot'[ep][i] = NoSlot  BY <1>1, <1>4, <2>4 DEF SlotStays
  <2>6. SlotCount' = SlotCount  BY <2>4, CountStays
  <2> QED BY <2>1, <2>5, <2>6
<1> QED BY <1>3, <1>4

(* A thread that does not move keeps what it relies on, when nobody else   *)
(* touches the file whose lock it holds.                                   *)
LEMMA ThreadStays ==
    ASSUME EffectType, NEW e \in Executors, Progress(e), AtRename(e), Cause(e),
           executor'[e] = executor[e], spent' = spent, SlotsStay,
           \/ effFile' = effFile
           \/ \E f \in EffectFiles, r \in EffectRecords : Writes(f, r),
           executor[e].pc = "publish" =>
              /\ effLock'[FileOf(executor[e].at)] = effLock[FileOf(executor[e].at)]
              /\ effFile'[FileOf(executor[e].at)] = effFile[FileOf(executor[e].at)]
    PROVE  Progress(e)' /\ AtRename(e)' /\ Cause(e)'
<1>1. executor[e] \in EffectCalls /\ executor[e].epoch \in Epochs /\ executor[e].at \in Positions
  BY DEF EffectType, EffectCalls
<1>2. Cause(e)'  BY CauseStays
<1>3. Progress(e)'
  <2>1. \A j \in Positions : InPlace(executor[e].epoch, j, executor[e].proposal) =>
            InPlace(executor[e].epoch, j, executor[e].proposal)'
    BY <1>1, InPlaceStays
  <2> DEFINE x == executor[e]
  <2>2. x = executor'[e]  OBVIOUS
  <2>3. x.pc \in {"effects", "publish", "seal"} => \A j \in Positions :
            j < x.at \/ x.pc = "seal" => InPlace(x.epoch, j, x.proposal)
    BY DEF Progress
  <2>4. ASSUME x.pc \in {"effects", "publish", "seal"}, NEW j \in Positions, j < x.at \/ x.pc = "seal"
        PROVE  InPlace(executor[e].epoch, j, executor[e].proposal)'
    BY <2>1, <2>3, <2>4
  <2>5. x.pc = "writes" => x.at = 1  BY DEF Progress
  <2> QED BY <2>4, <2>5 DEF Progress, InPlace, Records, RecordsOf
<1>4. AtRename(e)'
  <2>1. SUFFICES ASSUME executor[e].pc = "publish" PROVE AtRename(e)'  BY DEF AtRename
  <2>2. /\ slot[executor[e].epoch][executor[e].at] # NoSlot
        /\ slot[executor[e].epoch][executor[e].at].content = Content(e)
        /\ effLock[FileOf(executor[e].at)] = e
        /\ effFile[FileOf(executor[e].at)] = slot[executor[e].epoch][executor[e].at].before
    BY <2>1 DEF AtRename
  <2>3. SlotStays(executor[e].epoch, executor[e].at)  BY <1>1, <2>2 DEF SlotsStay
  <2>4. /\ slot'[executor[e].epoch][executor[e].at] # NoSlot
        /\ slot'[executor[e].epoch][executor[e].at].content = Content(e)
        /\ effFile[FileOf(executor[e].at)] = slot'[executor[e].epoch][executor[e].at].before
    BY <1>1, <2>2, <2>3, SlotFields
  <2>5. Content(e)' = Content(e)  BY DEF Content
  <2> QED BY <2>1, <2>2, <2>4, <2>5 DEF AtRename
<1> QED BY <1>2, <1>3, <1>4

-----------------------------------------------------------------------------
(* A step of one thread that touches no file and no slot.                  *)
LEMMA QuietStep ==
    ASSUME EffectInv, UNCHANGED <<effFile, slot, effLock, spent>>, NEW e \in Executors, NEW x \in EffectCalls,
           executor' = [executor EXCEPT ![e] = x], Progress(e)', AtRename(e)', Cause(e)'
    PROVE  SlotsOK' /\ OnceOK' /\ ActionThreadsOK'
<1>1. SlotsOK' /\ OnceOK'
  BY DEF EffectInv, SlotsOK, OnceOK, SlotOK, Once, Records, RecordsOf
<1>2. ASSUME NEW o \in Executors PROVE Progress(o)' /\ AtRename(o)' /\ Cause(o)'
  <2>1. CASE o = e  BY <2>1
  <2>2. CASE o # e
    <3>1. executor'[o] = executor[o]  BY <2>2 DEF EffectInv, EffectType
    <3>2. Progress(o) /\ AtRename(o) /\ Cause(o) /\ EffectType  BY DEF EffectInv, ActionThreadsOK
    <3>3. SlotsStay  BY DEF SlotsStay, SlotStays
    <3> QED BY <3>1, <3>2, <3>3, ThreadStays
  <2> QED BY <2>1, <2>2
<1> QED BY <1>1, <1>2 DEF ActionThreadsOK

LEMMA SealedStays ==
    ASSUME EffectType, SealedOK, sealed' = sealed,
           \/ effFile' = effFile
           \/ \E f \in EffectFiles, r \in EffectRecords : Writes(f, r)
    PROVE  SealedOK'
<1>1. SUFFICES ASSUME NEW ep \in Epochs, NEW i \in Positions, sealed[ep] # "none"
               PROVE  InPlace(ep, i, sealed[ep])'
  <2>1. \A ep \in Epochs, i \in Positions : sealed[ep] # "none" => InPlace(ep, i, sealed[ep])'  BY <1>1
  <2> QED BY <2>1 DEF SealedOK, InPlace, Records, RecordsOf
<1>2. InPlace(ep, i, sealed[ep])  BY <1>1 DEF SealedOK
<1>3. ASSUME NEW p, p = sealed[ep] PROVE InPlace(ep, i, p)'  BY <1>2, <1>3, InPlaceStays
<1>4. PICK p : p = sealed[ep]  OBVIOUS
<1>5. InPlace(ep, i, p)'  BY <1>3, <1>4
<1> QED BY <1>4, <1>5 DEF InPlace

LEMMA InitIntact == EffectInit => EffectInv
<1> SUFFICES ASSUME EffectInit PROVE EffectInv  OBVIOUS
<1>1. \A f \in EffectFiles : effFile[f] = <<>>  BY DEF EffectInit
<1>2. \A ep \in Epochs, i \in Positions : Records(ep, i) = {} /\ slot[ep][i] = NoSlot
  BY <1>1, PositionFacts DEF EffectInit, Records, RecordsOf
<1>3. EffectType
  <2>1. <<>> \in Images  BY DEF Images
  <2>2. Resting \in EffectCalls  BY PositionFacts, EffectNumbers DEF Resting, EffectCalls
  <2>3. spent \in Nat
    <3>1. MaxSlots \in Nat \ {0}  BY EffectSizes
    <3> QED BY <3>1 DEF EffectInit
  <2> QED BY <2>1, <2>2, <2>3, EffectNumbers DEF EffectInit, EffectType
<1>4. OwnerOK  BY EffectNames DEF EffectInit, OwnerOK
<1>5. SlotsOK /\ OnceOK  BY <1>2 DEF SlotsOK, OnceOK, SlotOK, Once
<1>6. SealedOK  BY DEF SealedOK, EffectInit
<1>7. ActionThreadsOK  BY DEF EffectInit, ActionThreadsOK, Progress, AtRename, Cause, Resting
<1> QED BY <1>3, <1>4, <1>5, <1>6, <1>7 DEF EffectInv

LEMMA BeginIntact ==
    ASSUME EffectInv, UNCHANGED spent, NEW e \in Executors, NEW p \in Proposals, Begin(e, p)
    PROVE  EffectInv'
<1> DEFINE x == [Resting EXCEPT !.pc = "writes", !.proposal = p]
<1>1. x \in EffectCalls /\ x.pc = "writes" /\ x.at = 1
  BY PositionFacts, EffectNumbers DEF Resting, EffectCalls
<1> HIDE DEF x
<1>2. executor' = [executor EXCEPT ![e] = x] /\ executor'[e] = x
  BY DEF Begin, x, EffectInv, EffectType
<1>3. Progress(e)' /\ AtRename(e)' /\ Cause(e)'  BY <1>1, <1>2 DEF Progress, AtRename, Cause
<1>4. UNCHANGED <<effFile, slot, effLock, spent>>  BY DEF Begin
<1>5. SlotsOK' /\ OnceOK' /\ ActionThreadsOK'  BY <1>1, <1>2, <1>3, <1>4, QuietStep
<1>6. EffectType'  BY <1>1, <1>2 DEF Begin, EffectInv, EffectType
<1>7. OwnerOK'  BY DEF Begin, OwnerOK
<1>8. SealedOK'  BY SealedStays DEF Begin, EffectInv
<1> QED BY <1>5, <1>6, <1>7, <1>8 DEF EffectInv

LEMMA RestingFacts == Resting \in EffectCalls /\ Resting.pc = "rest"
BY PositionFacts, EffectNumbers DEF Resting, EffectCalls

(* Any step of a thread that ends its call and seals nothing.              *)
LEMMA RestIntact ==
    ASSUME EffectInv, UNCHANGED <<effFile, slot, effLock, spent>>, NEW e \in Executors,
           executor' = [executor EXCEPT ![e] = Resting]
    PROVE  SlotsOK' /\ OnceOK' /\ ActionThreadsOK' /\ executor' \in [Executors -> EffectCalls]
<1>1. executor'[e] = Resting  BY DEF EffectInv, EffectType
<1>2. Progress(e)' /\ AtRename(e)' /\ Cause(e)'  BY <1>1, RestingFacts DEF Progress, AtRename, Cause
<1>3. SlotsOK' /\ OnceOK' /\ ActionThreadsOK'  BY <1>2, RestingFacts, QuietStep
<1> QED BY <1>3, RestingFacts DEF EffectInv, EffectType

LEMMA SaveIntact ==
    ASSUME EffectInv, UNCHANGED spent, NEW e \in Executors, SaveMetadata(e)
    PROVE  EffectInv'
<1>1. SlotsOK' /\ OnceOK' /\ ActionThreadsOK' /\ executor' \in [Executors -> EffectCalls]
  BY RestIntact DEF SaveMetadata
<1>2. SealedOK'  BY SealedStays DEF SaveMetadata, EffectInv
<1>3. EffectType'  BY <1>1 DEF SaveMetadata, EffectInv, EffectType
<1>4. OwnerOK'  BY EffectNames DEF SaveMetadata, OwnerOK
<1> QED BY <1>1, <1>2, <1>3, <1>4 DEF EffectInv

LEMMA FinishIntact ==
    ASSUME EffectInv, UNCHANGED spent, NEW e \in Executors, FinishRefused(e)
    PROVE  EffectInv'
<1>1. SlotsOK' /\ OnceOK' /\ ActionThreadsOK' /\ executor' \in [Executors -> EffectCalls]
  BY RestIntact DEF FinishRefused
<1>2. SealedOK'  BY SealedStays DEF FinishRefused, EffectInv
<1>3. EffectType'  BY <1>1 DEF FinishRefused, EffectInv, EffectType
<1>4. OwnerOK'  BY EffectNames DEF FinishRefused, OwnerOK, EffectInv
<1> QED BY <1>1, <1>2, <1>3, <1>4 DEF EffectInv

LEMMA OtherIntact ==
    ASSUME EffectInv, UNCHANGED spent, NEW e \in Executors, OtherAction(e)
    PROVE  EffectInv'
<1>1. SlotsOK' /\ OnceOK' /\ ActionThreadsOK' /\ executor' \in [Executors -> EffectCalls]
  BY RestIntact DEF OtherAction
<1>2. SealedOK'  BY SealedStays DEF OtherAction, EffectInv
<1>3. effEpoch' \in Epochs
  BY EffectNumbers DEF OtherAction, EffectInv, EffectType, OwnerOK, Epochs
<1>4. EffectType'  BY <1>1, <1>3 DEF OtherAction, EffectInv, EffectType
<1>5. OwnerOK'  BY EffectNames DEF OtherAction, OwnerOK
<1> QED BY <1>1, <1>2, <1>4, <1>5 DEF EffectInv

LEMMA EnrollIntact ==
    ASSUME EffectInv, UNCHANGED spent, NEW e \in Executors, Enroll(e)
    PROVE  EffectInv'
<1>1. CASE pendingOf # e
  <2>1. executor' = [executor EXCEPT ![e] = Resting]  BY <1>1 DEF Enroll
  <2>2. SlotsOK' /\ OnceOK' /\ ActionThreadsOK' /\ executor' \in [Executors -> EffectCalls]
    BY <2>1, RestIntact DEF Enroll
  <2>3. SealedOK'  BY SealedStays DEF Enroll, EffectInv
  <2>4. EffectType'  BY <2>2 DEF Enroll, EffectInv, EffectType
  <2>5. OwnerOK'  BY DEF Enroll, OwnerOK, EffectInv
  <2> QED BY <2>2, <2>3, <2>4, <2>5 DEF EffectInv
<1>2. CASE pendingOf = e
  <2> DEFINE x == [executor[e] EXCEPT !.pc = "effects", !.epoch = effEpoch, !.stamp = stamp]
  <2>1. executor[e] \in EffectCalls /\ executor[e].pc = "writes" /\ executor[e].at = 1
    BY DEF Enroll, EffectInv, EffectType, ActionThreadsOK, Progress
  <2>2. x \in EffectCalls /\ x.pc = "effects" /\ x.at = 1
    BY <2>1 DEF EffectInv, EffectType, EffectCalls
  <2> HIDE DEF x
  <2>3. executor' = [executor EXCEPT ![e] = x] /\ executor'[e] = x
    BY <1>2 DEF Enroll, x, EffectInv, EffectType
  <2>4. \A j \in Positions : ~(j < 1)  BY PositionFacts
  <2>5. Progress(e)' /\ AtRename(e)' /\ Cause(e)'  BY <2>2, <2>3, <2>4 DEF Progress, AtRename, Cause
  <2>6. SlotsOK' /\ OnceOK' /\ ActionThreadsOK'  BY <2>2, <2>3, <2>5, QuietStep DEF Enroll
  <2>7. SealedOK'  BY SealedStays DEF Enroll, EffectInv
  <2>8. EffectType'  BY <2>2, <2>3 DEF Enroll, EffectInv, EffectType
  <2>9. OwnerOK'  BY DEF Enroll, OwnerOK, EffectInv
  <2> QED BY <2>6, <2>7, <2>8, <2>9 DEF EffectInv
<1> QED BY <1>1, <1>2

(* The transition is sealed with the proposal of a thread that saw every   *)
(* record of its own epoch in place.                                       *)
LEMMA SealIntact ==
    ASSUME EffectInv, UNCHANGED spent, NEW e \in Executors, SealTransition(e)
    PROVE  EffectInv'
<1>1. SlotsOK' /\ OnceOK' /\ ActionThreadsOK' /\ executor' \in [Executors -> EffectCalls]
  BY RestIntact DEF SealTransition
<1>2. CASE pendingOf = e /\ executor[e].epoch = effEpoch
  <2>1. effEpoch' \in Epochs /\ stamp' \in Nat
    BY <1>2, EffectNumbers DEF SealTransition, EffectInv, EffectType, OwnerOK, Epochs
  <2>2. executor[e].proposal \in Proposals \cup {"none"}  BY DEF EffectInv, EffectType, EffectCalls
  <2>3. EffectType'  BY <1>1, <1>2, <2>1, <2>2 DEF SealTransition, EffectInv, EffectType
  <2>4. OwnerOK'  BY <1>2, EffectNames DEF SealTransition, OwnerOK
  <2>5. SealedOK'
    <3>1. ASSUME NEW ep \in Epochs, NEW i \in Positions, sealed'[ep] # "none"
          PROVE  InPlace(ep, i, sealed'[ep])
      <4>1. CASE ep # effEpoch
        <5>1. sealed'[ep] = sealed[ep]  BY <1>2, <4>1 DEF SealTransition, EffectInv, EffectType
        <5> QED BY <5>1, <3>1 DEF EffectInv, SealedOK
      <4>2. CASE ep = effEpoch
        <5>1. sealed'[ep] = executor[e].proposal  BY <1>2, <4>2 DEF SealTransition, EffectInv, EffectType
        <5>2. InPlace(executor[e].epoch, i, executor[e].proposal)
          BY DEF SealTransition, EffectInv, ActionThreadsOK, Progress
        <5> QED BY <5>1, <5>2, <1>2, <4>2
      <4> QED BY <4>1, <4>2
    <3>2. effFile' = effFile  BY DEF SealTransition
    <3> QED BY <3>1, <3>2 DEF SealedOK, InPlace, Records, RecordsOf
  <2> QED BY <1>1, <2>3, <2>4, <2>5 DEF EffectInv
<1>3. CASE ~(pendingOf = e /\ executor[e].epoch = effEpoch)
  <2>1. EffectType'  BY <1>1, <1>3 DEF SealTransition, EffectInv, EffectType
  <2>2. OwnerOK'  BY <1>3 DEF SealTransition, OwnerOK, EffectInv
  <2>3. SealedOK'  BY <1>3, SealedStays DEF SealTransition, EffectInv
  <2> QED BY <1>1, <2>1, <2>2, <2>3 DEF EffectInv
<1> QED BY <1>2, <1>3

-----------------------------------------------------------------------------
LEMMA RecoverIntact == ASSUME EffectInv, UNCHANGED spent, RecoverPending PROVE EffectInv'
<1>1. UNCHANGED <<effEpoch, stamp, effFile, slot, effLock, executor, sealed, notes, spent>> /\ pendingOf' = "none"
  BY DEF RecoverPending
<1>2. EffectType'  BY <1>1 DEF EffectInv, EffectType
<1>3. OwnerOK'  BY <1>1, EffectNames DEF OwnerOK
<1>4. SlotsOK' /\ OnceOK'  BY <1>1 DEF EffectInv, SlotsOK, OnceOK, SlotOK, Once, Records, RecordsOf
<1>5. SealedOK'  BY <1>1, SealedStays DEF EffectInv
<1>6. ASSUME NEW e \in Executors PROVE Progress(e)' /\ AtRename(e)' /\ Cause(e)'
  <2>1. SlotsStay  BY <1>1 DEF SlotsStay, SlotStays
  <2> QED BY <1>1, <2>1, ThreadStays DEF EffectInv, ActionThreadsOK
<1> QED BY <1>2, <1>3, <1>4, <1>5, <1>6 DEF EffectInv, ActionThreadsOK

LEMMA EffectsCrashIntact == ASSUME EffectInv, UNCHANGED spent, EffectsCrash PROVE EffectInv'
<1>1. \A e \in Executors : executor'[e] = Resting  BY DEF EffectsCrash
<1>2. EffectType'  BY RestingFacts DEF EffectsCrash, EffectInv, EffectType
<1>3. OwnerOK'  BY EffectNames DEF EffectsCrash, OwnerOK
<1>4. SlotsOK' /\ OnceOK'
  BY DEF EffectsCrash, EffectInv, SlotsOK, OnceOK, SlotOK, Once, Records, RecordsOf
<1>5. SealedOK'  BY SealedStays DEF EffectsCrash, EffectInv
<1>6. ActionThreadsOK'  BY <1>1, RestingFacts DEF ActionThreadsOK, Progress, AtRename, Cause
<1> QED BY <1>2, <1>3, <1>4, <1>5, <1>6 DEF EffectInv

LEMMA SameRecord ==
    ASSUME NEW r \in EffectRecords, NEW t \in EffectRecords,
           r.by = t.by, r.epoch = t.epoch, r.at = t.at, r.proposal = t.proposal, r.stamp = t.stamp
    PROVE  r = t
BY DEF EffectRecords

(* A refusal has a cause of its own.                                       *)
LEMMA RefuseIntact ==
    ASSUME EffectInv, UNCHANGED spent, NEW e \in Executors, executor[e].pc = "effects", RefuseEffect(e),
           UNCHANGED <<effEpoch, stamp, pendingOf, sealed, notes>>,
           LET s == slot[executor[e].epoch][executor[e].at]
           IN \/ s = NoSlot /\ SlotCount >= MaxSlots
              \/ /\ s # NoSlot
                 /\ s.content # Content(e) \/ effFile[FileOf(executor[e].at)] \notin {s.after, s.before}
    PROVE  EffectInv'
<1> DEFINE x == [executor[e] EXCEPT !.pc = "refused"]
           s == slot[executor[e].epoch][executor[e].at]
<1>1. /\ executor[e] \in EffectCalls /\ executor[e].epoch \in Epochs /\ executor[e].at \in Positions
      /\ EffectType
  BY DEF EffectInv, EffectType, EffectCalls
<1>2. /\ x \in EffectCalls /\ x.pc = "refused" /\ x.epoch = executor[e].epoch /\ x.at = executor[e].at
      /\ x.proposal = executor[e].proposal /\ x.stamp = executor[e].stamp
  BY <1>1 DEF EffectCalls
<1> HIDE DEF x
<1>3. executor' = [executor EXCEPT ![e] = x] /\ executor'[e] = x  BY <1>1 DEF RefuseEffect, x, EffectType
<1>4. UNCHANGED <<effFile, slot, effLock, spent>>  BY DEF RefuseEffect
<1>5. Cause(e)'
  <2>1. SlotCount' = SlotCount  BY <1>4 DEF SlotCount
  <2>2. s # NoSlot => \/ s.content.proposal # executor[e].proposal
                      \/ s.content.stamp # executor[e].stamp
                      \/ s.disturbed
    <3>1. SUFFICES ASSUME s # NoSlot PROVE \/ s.content.proposal # executor[e].proposal
                                           \/ s.content.stamp # executor[e].stamp
                                           \/ s.disturbed
      OBVIOUS
    <3>2. /\ s.content.by = "action" /\ s.content.epoch = executor[e].epoch /\ s.content.at = executor[e].at
          /\ s.disturbed \/ effFile[FileOf(executor[e].at)] \in {s.before, s.after}
      BY <1>1, <3>1 DEF EffectInv, SlotsOK, SlotOK
    <3>3. s.content \in EffectRecords  BY <1>1, <3>1 DEF EffectType, EffectSlots
    <3>4. CASE s.content # Content(e)
      <4>1. /\ Content(e) \in EffectRecords /\ Content(e).by = "action"
            /\ Content(e).epoch = executor[e].epoch /\ Content(e).at = executor[e].at
            /\ Content(e).proposal = executor[e].proposal /\ Content(e).stamp = executor[e].stamp
        BY <1>1, ContentFacts
      <4>2. ~(/\ s.content.by = Content(e).by /\ s.content.epoch = Content(e).epoch /\ s.content.at = Content(e).at
              /\ s.content.proposal = Content(e).proposal /\ s.content.stamp = Content(e).stamp)
        BY <3>3, <3>4, <4>1, SameRecord
      <4> QED BY <3>2, <4>1, <4>2
    <3>5. CASE effFile[FileOf(executor[e].at)] \notin {s.after, s.before}  BY <3>2, <3>5
    <3> QED BY <3>1, <3>4, <3>5
  <2>3. s' = slot[x.epoch][x.at]  BY <1>3, <1>4
  <2>4. s' = s  BY <2>3, <1>2
  <2>5. s' = NoSlot => SlotCount >= MaxSlots  BY <2>4
  <2> HIDE DEF s
  <2>6. \/ s = NoSlot /\ SlotCount >= MaxSlots
        \/ s # NoSlot /\ (\/ s.content.proposal # x.proposal \/ s.content.stamp # x.stamp \/ s.disturbed)
    BY <2>2, <2>4, <2>5, <1>2
  <2> QED BY <2>1, <2>4, <2>6, <1>3, <1>4, <1>2 DEF Cause, s
<1>6. Progress(e)' /\ AtRename(e)'  BY <1>2, <1>3 DEF Progress, AtRename
<1>7. SlotsOK' /\ OnceOK' /\ ActionThreadsOK'  BY <1>2, <1>3, <1>4, <1>5, <1>6, QuietStep
<1>8. SealedOK'  BY <1>4, SealedStays DEF EffectInv
<1>9. EffectType'  BY <1>1, <1>2, <1>3, <1>4 DEF EffectType
<1>10. OwnerOK'  BY DEF OwnerOK, EffectInv
<1> QED BY <1>7, <1>8, <1>9, <1>10 DEF EffectInv

(* The next position, or the seal after the last.                          *)
LEMMA NextFacts ==
    ASSUME EffectType, NEW e \in Executors, NextEffect(e), executor[e].pc \in {"effects", "publish"}
    PROVE  /\ executor' \in [Executors -> EffectCalls]
           /\ \A o \in Executors : o # e => executor'[o] = executor[o]
           /\ executor'[e].pc \in {"effects", "seal"}
           /\ executor'[e].epoch = executor[e].epoch /\ executor'[e].proposal = executor[e].proposal
           /\ \A j \in Positions : j < executor'[e].at \/ executor'[e].pc = "seal" =>
                 j < executor[e].at \/ j = executor[e].at
           /\ \E x \in EffectCalls : executor' = [executor EXCEPT ![e] = x]
<1>1. executor[e] \in EffectCalls /\ executor[e].at \in Positions  BY DEF EffectType, EffectCalls
<1>2. CASE executor[e].at = Len(SlotList)
  <2> DEFINE x == [executor[e] EXCEPT !.pc = "seal"]
  <2>1. /\ x \in EffectCalls /\ x.pc = "seal" /\ x.at = executor[e].at
        /\ x.epoch = executor[e].epoch /\ x.proposal = executor[e].proposal
    BY <1>1 DEF EffectCalls
  <2>2. executor' = [executor EXCEPT ![e] = x]  BY <1>1, <1>2 DEF NextEffect, EffectType, EffectCalls
  <2> HIDE DEF x
  <2>3. \A j \in Positions : j < executor[e].at \/ j = executor[e].at
    BY <1>2, PositionFacts DEF Positions
  <2> QED BY <2>1, <2>2, <2>3 DEF EffectType
<1>3. CASE executor[e].at # Len(SlotList)
  <2> DEFINE x == [executor[e] EXCEPT !.pc = "effects", !.at = executor[e].at + 1]
  <2>1. executor[e].at + 1 \in Positions  BY <1>1, <1>3, PositionFacts DEF Positions
  <2>2. /\ x \in EffectCalls /\ x.pc = "effects" /\ x.at = executor[e].at + 1
        /\ x.epoch = executor[e].epoch /\ x.proposal = executor[e].proposal
    BY <1>1, <2>1 DEF EffectCalls
  <2>3. executor' = [executor EXCEPT ![e] = x]  BY <1>1, <1>3 DEF NextEffect, EffectType, EffectCalls
  <2> HIDE DEF x
  <2>4. \A j \in Positions : j < executor[e].at + 1 => j < executor[e].at \/ j = executor[e].at
    BY <1>1 DEF Positions
  <2> QED BY <2>2, <2>3, <2>4 DEF EffectType
<1> QED BY <1>2, <1>3

(* Whoever moves on has its record in place.                               *)
LEMMA NextProgress ==
    ASSUME EffectType, NEW e \in Executors, Progress(e), NextEffect(e),
           executor[e].pc \in {"effects", "publish"},
           \/ effFile' = effFile
           \/ \E f \in EffectFiles, r \in EffectRecords : Writes(f, r),
           NEW ep \in Epochs, ep = executor[e].epoch, NEW i \in Positions, i = executor[e].at,
           NEW p, p = executor[e].proposal, InPlace(ep, i, p)'
    PROVE  Progress(e)' /\ AtRename(e)' /\ Cause(e)'
<1>1. /\ executor'[e].pc \in {"effects", "seal"}
      /\ executor'[e].epoch = executor[e].epoch /\ executor'[e].proposal = executor[e].proposal
      /\ \A j \in Positions : j < executor'[e].at \/ executor'[e].pc = "seal" =>
            j < executor[e].at \/ j = executor[e].at
  BY NextFacts
<1>2. \A j \in Positions : j < i => InPlace(ep, j, p)  BY DEF Progress
<1>3. \A j \in Positions : j < i => InPlace(ep, j, p)'  BY <1>2, InPlaceStays
<1>4. ASSUME NEW j \in Positions, j < executor'[e].at \/ executor'[e].pc = "seal"
      PROVE  InPlace(ep, j, p)'
  BY <1>1, <1>3, <1>4
<1>5. Progress(e)'  BY <1>1, <1>4 DEF Progress, InPlace, Records, RecordsOf
<1> QED BY <1>1, <1>5 DEF AtRename, Cause

LEMMA EnsureIntact ==
    ASSUME EffectInv, UNCHANGED spent, NEW e \in Executors, EnsureEffect(e)
    PROVE  EffectInv'
<1> DEFINE i == executor[e].at
           ep == executor[e].epoch
           f == FileOf(i)
           s == slot[ep][i]
<1>1. /\ executor[e].pc = "effects" /\ effLock[f] = "free"
      /\ UNCHANGED <<effEpoch, stamp, pendingOf, sealed, notes>>
      /\ \/ /\ s # NoSlot /\ (s.content # Content(e) \/ effFile[f] \notin {s.after, s.before})
            /\ RefuseEffect(e)
         \/ /\ s # NoSlot /\ s.content = Content(e) /\ effFile[f] = s.after
            /\ NextEffect(e) /\ UNCHANGED <<effFile, slot, effLock>>
         \/ /\ s # NoSlot /\ s.content = Content(e) /\ effFile[f] = s.before /\ s.before # s.after
            /\ executor' = [executor EXCEPT ![e].pc = "publish"]
            /\ effLock' = [effLock EXCEPT ![f] = e] /\ UNCHANGED <<effFile, slot>>
         \/ s = NoSlot /\ SlotCount >= MaxSlots /\ RefuseEffect(e)
         \/ /\ s = NoSlot /\ SlotCount < MaxSlots
            /\ slot' = [slot EXCEPT ![ep][i] =
                  [content |-> Content(e), before |-> effFile[f], disturbed |-> FALSE,
                   after |-> AfterImage(effFile[f], Content(e), Appends(i))]]
            /\ executor' = [executor EXCEPT ![e].pc = "publish"]
            /\ effLock' = [effLock EXCEPT ![f] = e] /\ UNCHANGED effFile
  BY DEF EnsureEffect, FileOf, Appends
<1>2. /\ EffectType /\ OwnerOK /\ SlotsOK /\ OnceOK /\ SealedOK
      /\ \A o \in Executors : Progress(o) /\ AtRename(o) /\ Cause(o)
      /\ executor[e] \in EffectCalls /\ ep \in Epochs /\ i \in Positions
      /\ f \in EffectFiles /\ effFile[f] \in Images /\ Appends(i) \in BOOLEAN /\ SlotOK(ep, i)
  BY PositionFacts DEF EffectInv, ActionThreadsOK, SlotsOK, EffectType, EffectCalls
<1>3. /\ Content(e) \in EffectRecords /\ Content(e).by = "action" /\ Content(e).epoch = ep
      /\ Content(e).at = i /\ Content(e).proposal = executor[e].proposal
  BY <1>2, ContentFacts
<1>4. SealedOK' /\ OwnerOK'  BY <1>1, <1>2, SealedStays DEF RefuseEffect, OwnerOK
<1>5. CASE \/ s = NoSlot /\ SlotCount >= MaxSlots /\ RefuseEffect(e)
           \/ /\ s # NoSlot /\ (s.content # Content(e) \/ effFile[f] \notin {s.after, s.before})
              /\ RefuseEffect(e)
  BY <1>1, <1>5, RefuseIntact
<1>6. CASE /\ s # NoSlot /\ s.content = Content(e) /\ effFile[f] = s.after
           /\ NextEffect(e) /\ UNCHANGED <<effFile, slot, effLock>>
  <2>1. InPlace(ep, i, executor[e].proposal)
    <3>1. ASSUME Appends(i) PROVE \E n \in Records(ep, i) : effFile[f][n].proposal = executor[e].proposal
      <4>1. s \in EffectSlots  BY <1>2, <1>6 DEF EffectType
      <4>2. s.before \in Images /\ s.after = AfterImage(s.before, Content(e), TRUE)
        BY <1>2, <1>6, <3>1, <4>1 DEF SlotOK, EffectSlots
      <4>3. /\ Len(s.before) + 1 \in DOMAIN s.after /\ s.after[Len(s.before) + 1] = Content(e)
        <5>1. PICK old \in Images, new \in {s.after} : old = s.before /\ new = s.after  BY <4>2
        <5>2. new = AfterImage(old, Content(e), TRUE)  BY <4>2, <5>1
        <5>3. Len(old) + 1 \in DOMAIN new /\ new[Len(old) + 1] = Content(e)  BY <1>3, <5>2, LastWritten
        <5> HIDE DEF s
        <5> QED BY <5>1, <5>3
      <4> HIDE DEF s
      <4> QED BY <1>3, <1>6, <4>3 DEF Records, RecordsOf
    <3> QED BY <3>1 DEF InPlace
  <2>2. PICK ep0 \in Epochs, i0 \in Positions : ep0 = ep /\ i0 = i  BY <1>2
  <2>7. PICK p0 : p0 = executor[e].proposal  OBVIOUS
  <2>8. InPlace(ep0, i0, p0)'  BY <1>2, <1>6, <2>1, <2>2, <2>7, InPlaceStays
  <2>3. Progress(e)' /\ AtRename(e)' /\ Cause(e)'  BY <1>1, <1>2, <1>6, <2>2, <2>7, <2>8, NextProgress
  <2>4. PICK x \in EffectCalls : executor' = [executor EXCEPT ![e] = x]  BY <1>1, <1>2, <1>6, NextFacts
  <2>5. SlotsOK' /\ OnceOK' /\ ActionThreadsOK'  BY <1>6, <2>3, <2>4, QuietStep
  <2>6. EffectType'  BY <1>1, <1>2, <1>6, <2>4 DEF EffectType
  <2> QED BY <1>4, <2>5, <2>6 DEF EffectInv
<1>7. ASSUME executor' = [executor EXCEPT ![e].pc = "publish"], effLock' = [effLock EXCEPT ![f] = e],
             effFile' = effFile, SlotsOK', SlotsStay,
             slot' \in [Epochs -> [Positions -> EffectSlots \cup {NoSlot}]],
             slot'[ep][i] # NoSlot, slot'[ep][i].content = Content(e), slot'[ep][i].before = effFile[f]
      PROVE  EffectInv'
  <2>1. /\ executor'[e].pc = "publish" /\ executor'[e].at = i /\ executor'[e].epoch = ep
        /\ executor'[e].proposal = executor[e].proposal /\ executor'[e].stamp = executor[e].stamp
        /\ executor'[e] \in EffectCalls /\ \A o \in Executors : o # e => executor'[o] = executor[o]
        /\ executor' \in [Executors -> EffectCalls]
    BY <1>2, <1>7 DEF EffectType, EffectCalls
  <2>2. OnceOK'  BY <1>2, <1>7 DEF OnceOK, Once, Records, RecordsOf
  <2>3. Progress(e)'
    <3>1. \A j \in Positions : j < i => InPlace(ep, j, executor[e].proposal)  BY <1>1, <1>2 DEF Progress
    <3> HIDE DEF i, ep
    <3> QED BY <1>7, <2>1, <3>1 DEF Progress, InPlace, Records, RecordsOf
  <2>4. AtRename(e)'
    <3>1. effLock'[f] = e  BY <1>2, <1>7 DEF EffectType
    <3>2. Content(e)' = Content(e)  BY <2>1 DEF Content
    <3> QED BY <1>7, <2>1, <3>1, <3>2 DEF AtRename
  <2>5. Cause(e)'  BY <2>1 DEF Cause
  <2>6. ASSUME NEW o \in Executors, o # e PROVE Progress(o)' /\ AtRename(o)' /\ Cause(o)'
    <3>1. executor[o].pc = "publish" => effLock'[FileOf(executor[o].at)] = effLock[FileOf(executor[o].at)]
      <4>1. executor[o].pc = "publish" => effLock[FileOf(executor[o].at)] = o  BY <1>2 DEF AtRename
      <4>2. o # "free"  BY EffectNames
      <4>3. executor[o].pc = "publish" => FileOf(executor[o].at) # f  BY <1>1, <4>1, <4>2
      <4>4. FileOf(executor[o].at) \in EffectFiles  BY <1>2, PositionFacts DEF EffectType, EffectCalls
      <4> QED BY <1>2, <1>7, <4>3, <4>4 DEF EffectType
    <3> QED BY <1>2, <1>7, <2>1, <2>6, <3>1, ThreadStays
  <2>7. ActionThreadsOK'  BY <2>3, <2>4, <2>5, <2>6 DEF ActionThreadsOK
  <2>8. EffectType'  BY <1>1, <1>2, <1>7, <2>1 DEF EffectType
  <2> QED BY <1>4, <1>7, <2>2, <2>7, <2>8 DEF EffectInv
<1>8. CASE /\ s # NoSlot /\ s.content = Content(e) /\ effFile[f] = s.before /\ s.before # s.after
           /\ executor' = [executor EXCEPT ![e].pc = "publish"]
           /\ effLock' = [effLock EXCEPT ![f] = e] /\ UNCHANGED <<effFile, slot>>
  <2>1. SlotsStay  BY <1>8 DEF SlotsStay, SlotStays
  <2>2. SlotsOK'
    <3> HIDE DEF s, f
    <3> QED BY <1>8 DEF EffectInv, SlotsOK, SlotOK, Records, RecordsOf
  <2> QED BY <1>2, <1>7, <1>8, <2>1, <2>2 DEF EffectType
<1>9. CASE /\ s = NoSlot /\ SlotCount < MaxSlots
           /\ slot' = [slot EXCEPT ![ep][i] =
                 [content |-> Content(e), before |-> effFile[f], disturbed |-> FALSE,
                  after |-> AfterImage(effFile[f], Content(e), Appends(i))]]
           /\ executor' = [executor EXCEPT ![e].pc = "publish"]
           /\ effLock' = [effLock EXCEPT ![f] = e] /\ UNCHANGED effFile
  <2> DEFINE t == [content |-> Content(e), before |-> effFile[f], disturbed |-> FALSE,
                   after |-> AfterImage(effFile[f], Content(e), Appends(i))]
  <2>1. t \in EffectSlots  BY <1>2, <1>3, AfterFacts DEF EffectSlots
  <2>2. /\ t.content = Content(e) /\ t.before = effFile[f] /\ t.after = AfterImage(effFile[f], Content(e), Appends(i))
    OBVIOUS
  <2>3. slot' = [slot EXCEPT ![ep][i] = t]  BY <1>9
  <2>4. t # NoSlot  BY <2>1, NoSlotApart
  <2> HIDE DEF t
  <2>5. /\ slot'[ep][i] = t /\ slot' \in [Epochs -> [Positions -> EffectSlots \cup {NoSlot}]]
        /\ \A p \in Epochs, j \in Positions : p # ep \/ j # i => slot'[p][j] = slot[p][j]
    BY <1>2, <2>1, <2>3 DEF EffectType
  <2>6. SlotsStay  BY <1>9, <2>5 DEF SlotsStay, SlotStays
  <2>7. SlotsOK'
    <3>1. SUFFICES ASSUME NEW p \in Epochs, NEW j \in Positions PROVE SlotOK(p, j)'  BY DEF SlotsOK
    <3>2. CASE p # ep \/ j # i
      BY <1>2, <1>9, <2>5, <3>2 DEF SlotsOK, SlotOK, Records, RecordsOf
    <3>3. CASE p = ep /\ j = i
      <4>1. Appends(i) => Records(ep, i) = {}  BY <1>2, <1>9 DEF SlotOK
      <4>2. Records(ep, i)' = Records(ep, i)  BY <1>9 DEF Records, RecordsOf
      <4>3. Len(effFile[f]) \in Nat  BY <1>2, AfterFacts, <1>3
      <4> QED BY <1>3, <1>9, <2>2, <2>4, <2>5, <3>3, <4>1, <4>2, <4>3 DEF SlotOK
    <3> QED BY <3>2, <3>3
  <2> QED BY <1>7, <1>9, <2>2, <2>4, <2>5, <2>6, <2>7
<1> QED BY <1>1, <1>5, <1>6, <1>8, <1>9

(* The writer of f leaves alone every thread that holds another lock.      *)
LEMMA OthersStay ==
    ASSUME EffectInv, spent' = spent, SlotsStay, NEW f \in EffectFiles, NEW r \in EffectRecords, Writes(f, r),
           \A g \in EffectFiles : g # f => effLock'[g] = effLock[g],
           NEW o \in Executors, executor'[o] = executor[o], effLock[f] # o
    PROVE  Progress(o)' /\ AtRename(o)' /\ Cause(o)'
<1>1. /\ EffectType /\ Progress(o) /\ AtRename(o) /\ Cause(o) /\ executor[o].at \in Positions
      /\ FileOf(executor[o].at) \in EffectFiles
  BY PositionFacts DEF EffectInv, ActionThreadsOK, EffectType, EffectCalls
<1>2. PICK j \in Positions : f = FileOf(j)  BY DEF EffectFiles, FileOf
<1>3. effFile' = [effFile EXCEPT ![f] = AfterImage(@, r, Appends(j))]  BY <1>2 DEF Writes
<1>4. executor[o].pc = "publish" => FileOf(executor[o].at) # f  BY <1>1 DEF AtRename
<1>5. executor[o].pc = "publish" =>
        /\ effLock'[FileOf(executor[o].at)] = effLock[FileOf(executor[o].at)]
        /\ effFile'[FileOf(executor[o].at)] = effFile[FileOf(executor[o].at)]
  BY <1>1, <1>3, <1>4 DEF EffectType
<1> QED BY <1>1, <1>5, ThreadStays

LEMMA WritesType ==
    ASSUME EffectType, NEW f \in EffectFiles, NEW r \in EffectRecords, Writes(f, r)
    PROVE  effFile' \in [EffectFiles -> Images]
<1>1. PICK j \in Positions : f = FileOf(j)  BY DEF EffectFiles, FileOf
<1>2. effFile' = [effFile EXCEPT ![f] = AfterImage(@, r, Appends(j))]  BY <1>1 DEF Writes
<1>3. AfterImage(effFile[f], r, Appends(j)) \in Images  BY PositionFacts, AfterFacts DEF EffectType
<1> QED BY <1>2, <1>3 DEF EffectType

(* The rename of a slot is a write of its record.                          *)
LEMMA PublishWrites ==
    ASSUME EffectInv, NEW e \in Executors, PublishEffect(e)
    PROVE  /\ FileOf(executor[e].at) \in EffectFiles /\ Content(e) \in EffectRecords
           /\ Writes(FileOf(executor[e].at), Content(e))
           /\ slot[executor[e].epoch][executor[e].at] # NoSlot
           /\ slot[executor[e].epoch][executor[e].at].content = Content(e)
           /\ effFile[FileOf(executor[e].at)] = slot[executor[e].epoch][executor[e].at].before
           /\ effLock[FileOf(executor[e].at)] = e
<1>1. /\ EffectType /\ executor[e].epoch \in Epochs /\ executor[e].at \in Positions
      /\ FileOf(executor[e].at) \in EffectFiles
  BY PositionFacts DEF EffectInv, EffectType, EffectCalls
<1>2. /\ slot[executor[e].epoch][executor[e].at] # NoSlot
      /\ slot[executor[e].epoch][executor[e].at].content = Content(e)
      /\ effFile[FileOf(executor[e].at)] = slot[executor[e].epoch][executor[e].at].before
      /\ effLock[FileOf(executor[e].at)] = e
  BY DEF PublishEffect, EffectInv, ActionThreadsOK, AtRename
<1>3. slot[executor[e].epoch][executor[e].at].after
        = AfterImage(effFile[FileOf(executor[e].at)], Content(e), Appends(executor[e].at))
  BY <1>1, <1>2 DEF EffectInv, SlotsOK, SlotOK
<1>4. ASSUME NEW j \in Positions, FileOf(j) = FileOf(executor[e].at)
      PROVE  effFile' = [effFile EXCEPT ![FileOf(executor[e].at)] = AfterImage(@, Content(e), Appends(j))]
  <2>1. Appends(j) = Appends(executor[e].at)  BY <1>1, <1>4, PositionFacts
  <2> QED BY <1>3, <2>1 DEF PublishEffect, FileOf
<1> QED BY <1>1, <1>2, <1>4, ContentFacts DEF Writes

LEMMA PublishIntact ==
    ASSUME EffectInv, UNCHANGED spent, NEW e \in Executors, PublishEffect(e)
    PROVE  EffectInv'
<1>0. PICK i \in Positions, ep \in Epochs, p \in Proposals \cup {"none"} :
        i = executor[e].at /\ ep = executor[e].epoch /\ p = executor[e].proposal
  BY DEF EffectInv, EffectType, EffectCalls
<1> DEFINE f == FileOf(i)
<1>1. /\ f \in EffectFiles /\ Content(e) \in EffectRecords /\ Writes(f, Content(e))
      /\ slot[ep][i] # NoSlot /\ slot[ep][i].content = Content(e) /\ effFile[f] = slot[ep][i].before
      /\ effLock[f] = e
  BY <1>0, PublishWrites
<1>2. /\ executor[e].pc = "publish" /\ slot' = Disturbed(f, ep, i) /\ effLock' = [effLock EXCEPT ![f] = "free"]
      /\ NextEffect(e) /\ UNCHANGED <<effEpoch, stamp, pendingOf, sealed, notes>>
  BY <1>0 DEF PublishEffect, FileOf
<1>3. EffectType /\ OwnerOK /\ SlotsOK /\ OnceOK /\ SealedOK /\ Progress(e)
  BY DEF EffectInv, ActionThreadsOK
<1> HIDE DEF f
<1>4. i \in Nat  BY PositionFacts
<1>5. SlotsOK' /\ OnceOK'
  <2>1. /\ i \in Positions /\ FileOf(i) = f /\ slot[ep][i] # NoSlot
        /\ Content(e) = slot[ep][i].content /\ effFile[f] = slot[ep][i].before
    BY <1>1 DEF f
  <2> QED BY <1>1, <1>2, <1>3, <1>4, <2>1, WriteSlots
<1>6. SlotsStay  BY <1>2, <1>3, DisturbedFacts DEF SlotsStay
<1>7. SealedOK'  BY <1>1, <1>2, <1>3, SealedStays
<1>8. InPlace(ep, i, p)'
  <2>1. ASSUME Appends(i) PROVE \E n \in Records(ep, i)' : effFile'[FileOf(i)][n].proposal = p
    <3>1. PICK old \in Images, new \in {effFile'[FileOf(i)]} : old = effFile[f] /\ new = effFile'[FileOf(i)]
      BY <1>1, <1>3 DEF EffectType
    <3>2. new = AfterImage(old, Content(e), TRUE)  BY <1>1, <1>3, <2>1, <3>1, WriteRecords DEF f
    <3>3. Len(old) + 1 \in DOMAIN new /\ new[Len(old) + 1] = Content(e)  BY <1>1, <3>2, LastWritten
    <3>4. /\ Content(e).by = "action" /\ Content(e).epoch = ep /\ Content(e).at = i /\ Content(e).proposal = p
      BY <1>0, <1>3, ContentFacts
    <3>5. Len(old) + 1 \in Records(ep, i)'  BY <3>1, <3>3, <3>4 DEF Records, RecordsOf
    <3> QED BY <3>1, <3>3, <3>4, <3>5
  <2> QED BY <2>1 DEF InPlace
<1>9. Progress(e)' /\ AtRename(e)' /\ Cause(e)'  BY <1>0, <1>1, <1>2, <1>3, <1>8, NextProgress
<1>10. executor' \in [Executors -> EffectCalls] /\ \A o \in Executors : o # e => executor'[o] = executor[o]
  BY <1>2, <1>3, NextFacts
<1>11. ASSUME NEW o \in Executors, o # e PROVE Progress(o)' /\ AtRename(o)' /\ Cause(o)'
  <2>1. \A g \in EffectFiles : g # f => effLock'[g] = effLock[g]  BY <1>2, <1>3 DEF EffectType
  <2> QED BY <1>1, <1>6, <1>10, <1>11, <2>1, OthersStay
<1>12. ActionThreadsOK'  BY <1>9, <1>11 DEF ActionThreadsOK
<1>13. EffectType'
  <2>1. effFile' \in [EffectFiles -> Images]  BY <1>1, <1>3, WritesType
  <2>2. slot' \in [Epochs -> [Positions -> EffectSlots \cup {NoSlot}]]  BY <1>2, <1>3, DisturbedFacts
  <2> QED BY <1>2, <1>3, <1>10, <2>1, <2>2 DEF EffectType
<1>14. OwnerOK'  BY <1>2, <1>3 DEF OwnerOK
<1> QED BY <1>5, <1>7, <1>12, <1>13, <1>14 DEF EffectInv

LEMMA CallerWrites ==
    ASSUME EffectInv, NEW e \in Executors, NEW f \in EffectFiles, CallerNote(e, f)
    PROVE  Note(notes) \in EffectRecords /\ Note(notes).by = "caller" /\ Writes(f, Note(notes))
<1>1. Note(notes) \in EffectRecords /\ Note(notes).by = "caller"
  BY DEF EffectInv, EffectType, Note, EffectRecords
<1>2. PICK i \in Positions : FileOf(i) = f /\ effFile' = [effFile EXCEPT ![f] = AfterImage(@, Note(notes), Appends(i))]
  BY DEF CallerNote, FileOf, Appends
<1>3. \A j \in Positions : FileOf(j) = f => Appends(j) = Appends(i)  BY <1>2, PositionFacts
<1> QED BY <1>1, <1>2, <1>3 DEF Writes

LEMMA CallerIntact ==
    ASSUME EffectInv, UNCHANGED spent, NEW e \in Executors, NEW f \in EffectFiles, CallerNote(e, f)
    PROVE  EffectInv'
<1>1. Note(notes) \in EffectRecords /\ Note(notes).by = "caller" /\ Writes(f, Note(notes))  BY CallerWrites
<1>2. /\ effLock[f] = "free" /\ slot' = Disturbed(f, 0, 0) /\ notes' = notes + 1
      /\ UNCHANGED <<effEpoch, stamp, effLock, pendingOf, executor, sealed>>
  BY DEF CallerNote
<1>3. EffectType /\ OwnerOK /\ SlotsOK /\ OnceOK /\ SealedOK  BY DEF EffectInv
<1>4. SlotsOK' /\ OnceOK'  BY <1>1, <1>2, <1>3, EffectNumbers, WriteSlots
<1>5. SlotsStay  BY <1>2, <1>3, DisturbedFacts DEF SlotsStay
<1>6. SealedOK'  BY <1>1, <1>2, <1>3, SealedStays
<1>7. ActionThreadsOK'
  <2>1. ASSUME NEW o \in Executors PROVE Progress(o)' /\ AtRename(o)' /\ Cause(o)'
    <3>1. effLock[f] # o  BY <1>2, EffectNames
    <3> QED BY <1>1, <1>2, <1>5, <3>1, OthersStay
  <2> QED BY <2>1 DEF ActionThreadsOK
<1>8. EffectType'
  <2>1. effFile' \in [EffectFiles -> Images]  BY <1>1, <1>3, WritesType
  <2>2. slot' \in [Epochs -> [Positions -> EffectSlots \cup {NoSlot}]]  BY <1>2, <1>3, EffectNumbers, PositionFacts, DisturbedFacts
  <2> QED BY <1>2, <1>3, <2>1, <2>2 DEF EffectType
<1>9. OwnerOK'  BY <1>2, <1>3 DEF OwnerOK
<1> QED BY <1>4, <1>6, <1>7, <1>8, <1>9 DEF EffectInv

-----------------------------------------------------------------------------
LEMMA EffectStepIntact == EffectInv /\ [EffectNext]_effectVars => EffectInv'
<1> SUFFICES ASSUME EffectInv, [EffectNext]_effectVars PROVE EffectInv'  OBVIOUS
<1>1. CASE UNCHANGED effectVars
  <2>1. UNCHANGED <<effEpoch, stamp, effFile, slot, effLock, pendingOf, executor, sealed, notes, spent>>
    BY <1>1 DEF effectVars
  <2>2. EffectType' /\ OwnerOK'  BY <2>1 DEF EffectInv, EffectType, OwnerOK
  <2>3. SlotsOK' /\ OnceOK'  BY <2>1 DEF EffectInv, SlotsOK, OnceOK, SlotOK, Once, Records, RecordsOf
  <2>4. SealedOK'  BY <2>1, SealedStays DEF EffectInv
  <2>5. SlotsStay  BY <2>1 DEF SlotsStay, SlotStays
  <2>6. ActionThreadsOK'  BY <2>1, <2>5, ThreadStays DEF EffectInv, ActionThreadsOK
  <2> QED BY <2>2, <2>3, <2>4, <2>6 DEF EffectInv
<1>2. CASE EffectNext
  BY <1>2, BeginIntact, CallerIntact, SaveIntact, EnrollIntact, EnsureIntact, PublishIntact,
     FinishIntact, SealIntact, OtherIntact, RecoverIntact, EffectsCrashIntact DEF EffectNext
<1> QED BY <1>1, <1>2

LEMMA EffectAlways == EffectSpec => []EffectInv
BY InitIntact, EffectStepIntact, PTL DEF EffectSpec

LEMMA InvRecordOnce == EffectInv => ActionRecordOnce
<1> SUFFICES ASSUME EffectInv, NEW ep \in Epochs, NEW i \in Positions, Appends(i)
             PROVE  /\ Cardinality(Records(ep, i)) <= 1
                    /\ sealed[ep] # "none" => \E n \in Records(ep, i) : effFile[FileOf(i)][n].proposal = sealed[ep]
  BY DEF ActionRecordOnce, Records, FileOf, Appends
<1>1. \A m, n \in Records(ep, i) : m = n  BY DEF EffectInv, OnceOK, Once
<1>2. Cardinality(Records(ep, i)) <= 1
  <2>1. CASE Records(ep, i) = {}
    <3>1. Cardinality({}) = 0  BY FS_EmptySet
    <3> QED BY <2>1, <3>1
  <2>2. CASE Records(ep, i) # {}
    <3>1. PICK n : n \in Records(ep, i)  BY <2>2
    <3>2. Records(ep, i) = {n}  BY <1>1, <3>1
    <3>3. Cardinality({n}) = 1  BY FS_Singleton
    <3> QED BY <3>2, <3>3
  <2> QED BY <2>1, <2>2
<1>3. sealed[ep] # "none" => \E n \in Records(ep, i) : effFile[FileOf(i)][n].proposal = sealed[ep]
  BY DEF EffectInv, SealedOK, InPlace
<1> QED BY <1>2, <1>3

LEMMA InvRefusedForCause == EffectInv => RepetitionRefusedForCause
BY DEF EffectInv, ActionThreadsOK, Cause, RepetitionRefusedForCause

Grow == \A i \in Positions : SlotList[i].append =>
            IsPrefix(effFile[SlotList[i].file], effFile'[SlotList[i].file])

LEMMA PrefixSelf == ASSUME NEW s \in Images PROVE IsPrefix(s, s)
<1>1. Len(s) \in Nat  BY LenProperties DEF Images
<1> QED BY <1>1 DEF IsPrefix

LEMMA PrefixAppend == ASSUME NEW s \in Images, NEW r \in EffectRecords PROVE IsPrefix(s, Append(s, r))
<1>1. /\ Len(s) \in Nat /\ s \in Seq(EffectRecords) /\ Append(s, r) \in Seq(EffectRecords)
      /\ Len(Append(s, r)) = Len(s) + 1 /\ \A n \in 1 .. Len(s) : Append(s, r)[n] = s[n]
  BY LenProperties, AppendProperties DEF Images
<1>2. SubSeq(s, 1, Len(s)) = SubSeq(Append(s, r), 1, Len(s))  BY <1>1
<1> QED BY <1>1, <1>2 DEF IsPrefix

LEMMA GrowStep == EffectInv /\ [EffectNext]_effectVars => [Grow]_effectVars
<1> SUFFICES ASSUME EffectInv, [EffectNext]_effectVars, NEW i \in Positions, Appends(i)
             PROVE  IsPrefix(effFile[FileOf(i)], effFile'[FileOf(i)])
  BY DEF Grow, Appends, FileOf
<1>1. EffectType /\ FileOf(i) \in EffectFiles /\ effFile[FileOf(i)] \in Images
  BY PositionFacts DEF EffectInv, EffectType
<1>2. CASE effFile' = effFile  BY <1>1, <1>2, PrefixSelf
<1>3. ASSUME NEW f \in EffectFiles, NEW r \in EffectRecords, Writes(f, r)
      PROVE  IsPrefix(effFile[FileOf(i)], effFile'[FileOf(i)])
  <2>1. 0 \in Epochs  BY EffectNumbers
  <2>2. CASE f # FileOf(i)  BY <1>1, <1>3, <2>1, <2>2, WriteRecords, PrefixSelf
  <2>3. CASE f = FileOf(i)
    <3>1. effFile'[FileOf(i)] = AfterImage(effFile[FileOf(i)], r, TRUE)  BY <1>1, <1>3, <2>1, <2>3, WriteRecords
    <3>2. effFile'[FileOf(i)] = Append(effFile[FileOf(i)], r)  BY <3>1 DEF AfterImage
    <3> QED BY <1>1, <3>2, PrefixAppend
  <2> QED BY <2>2, <2>3
<1>4. ASSUME NEW e \in Executors, NEW f \in EffectFiles, CallerNote(e, f)
      PROVE  IsPrefix(effFile[FileOf(i)], effFile'[FileOf(i)])
  BY <1>3, <1>4, CallerWrites
<1>5. ASSUME NEW e \in Executors, PublishEffect(e)
      PROVE  IsPrefix(effFile[FileOf(i)], effFile'[FileOf(i)])
  BY <1>3, <1>5, PublishWrites
<1>6. effFile' = effFile
      \/ \E e \in Executors : PublishEffect(e) \/ \E f \in EffectFiles : CallerNote(e, f)
  BY DEF EffectNext, effectVars, Begin, SaveMetadata, Enroll, EnsureEffect, RefuseEffect, FinishRefused,
         SealTransition, OtherAction, RecoverPending, EffectsCrash
<1> QED BY <1>2, <1>4, <1>5, <1>6

(* A restartable action may be repeated from any point and beside a thread *)
(* that was given up: its records are appended once and are there when it  *)
(* is sealed, nothing appended before is lost, and a repetition is refused *)
(* only for a cause (run_action_effects, ensure_action_effect).            *)
THEOREM ActionsAlwaysRepeatable == EffectSpec => ActionsRepeatable
<1>1. EffectSpec => [](ActionRecordOnce /\ RepetitionRefusedForCause)
  BY EffectAlways, InvRecordOnce, InvRefusedForCause, PTL
<1>2. EffectSpec => [][Grow]_effectVars  BY EffectAlways, GrowStep, PTL DEF EffectSpec
<1>3. EffectSpec => MemoryOnlyGrows  BY <1>2 DEF Grow, MemoryOnlyGrows
<1> QED BY <1>1, <1>3 DEF ActionsRepeatable

(***************************************************************************)
(* The evidence of a run's retrievals: what the fold over the events comes *)
(* to, whatever their number.                                              *)
(***************************************************************************)
RetrievalEvents ==
    [type : {"search", "assessment"}, refs : SUBSET Sources, outcome : {"new_material", "inconclusive"}]

RetrievalType == retrievals \in Seq(RetrievalEvents) /\ registered \in SUBSET Sources

Accounts == [seen : SUBSET Sources, assessed : SUBSET Sources, novel : Nat, repeated : Nat,
             evidence : Seq(SUBSET Sources)]

(* What the first n events met, and what the assessments among them named. *)
MetBy(n) == UNION {retrievals[i].refs : i \in 1..n}
NamedBy(n) == UNION {retrievals[i].refs : i \in {j \in 1..n : retrievals[j].type # "search"}}

LEMMA CreditTyped ==
    ASSUME RetrievalSizes, NEW acc \in Accounts, NEW e \in RetrievalEvents
    PROVE  Credit(acc, e) \in Accounts
<1> DEFINE known == IF e.type = "search" THEN acc.seen ELSE acc.assessed
<1>1. /\ acc.seen \subseteq Sources /\ acc.assessed \subseteq Sources /\ acc.novel \in Nat
      /\ acc.repeated \in Nat /\ acc.evidence \in Seq(SUBSET Sources) /\ e.refs \subseteq Sources
  BY DEF Accounts, RetrievalEvents
<1>2. IsFiniteSet(e.refs \ acc.seen) /\ IsFiniteSet(e.refs \cap acc.seen)
  BY <1>1, FS_Subset DEF RetrievalSizes
<1>3. Cardinality(e.refs \ acc.seen) \in Nat /\ Cardinality(e.refs \cap acc.seen) \in Nat
  BY <1>2, FS_CardinalityType
<1>4. e.refs \ known \in SUBSET Sources  BY <1>1
<1>5. Append(acc.evidence, e.refs \ known) \in Seq(SUBSET Sources)  BY <1>1, <1>4, AppendProperties
<1>6. (IF e.type = "search" THEN acc.assessed ELSE acc.assessed \cup e.refs) \in SUBSET Sources  BY <1>1
<1>7. /\ acc.novel + Cardinality(e.refs \ acc.seen) \in Nat
      /\ acc.repeated + Cardinality(e.refs \cap acc.seen) \in Nat
  BY <1>1, <1>3
<1> QED BY <1>1, <1>5, <1>6, <1>7 DEF Credit, Accounts

(* The accounts the events are credited in, one after the other.           *)
LEMMA CreditSteps ==
    ASSUME RetrievalSizes, RetrievalType
    PROVE  \E f : /\ f[0] = Uncredited /\ Retrieval = f[Len(retrievals)]
                  /\ \A n \in 1..Len(retrievals) : f[n] = Credit(f[n - 1], retrievals[n])
<1> DEFINE L == Len(retrievals)
           T == Accounts
           step == [x \in (1..L) \X T |-> Credit(x[2], retrievals[x[1]])]
           Body(f) == [n \in 0 .. L |-> IF n = 0 THEN Uncredited ELSE Credit(f[n - 1], retrievals[n])]
           credited == CHOOSE f : f = Body(f)
<1>1. L \in Nat /\ \A n \in 1..L : retrievals[n] \in RetrievalEvents
  BY LenProperties, ElementOfSeq DEF RetrievalType
<1>2. Uncredited \in T
  <2>1. <<>> \in Seq(SUBSET Sources)  BY EmptySeq
  <2> QED BY <2>1 DEF Uncredited, Accounts
<1>3. ASSUME NEW x \in (1..L) \X T PROVE Credit(x[2], retrievals[x[1]]) \in T
  <2>1. x[2] \in T /\ x[1] \in 1..L  OBVIOUS
  <2> HIDE DEF L
  <2>2. retrievals[x[1]] \in RetrievalEvents  BY <2>1, <1>1
  <2> QED BY <2>1, <2>2, CreditTyped
<1>4. step \in [(1..L) \X T -> T]  BY <1>3
<1>5. \A n \in 1..L, t \in T : step[<<n, t>>] = Credit(t, retrievals[n])  OBVIOUS
<1> HIDE DEF step, T, L
<1>6. PICK r \in [0..L -> T] : IsSteps(r, step, Uncredited, L)  BY <1>1, <1>2, <1>4, StepsExist
<1>7. r = Body(r)
  <2>1. ASSUME NEW n \in 0..L
        PROVE  r[n] = IF n = 0 THEN Uncredited ELSE Credit(r[n - 1], retrievals[n])
    <3>1. CASE n = 0  BY <3>1, <1>6 DEF IsSteps
    <3>2. CASE n # 0
      <4>1. n \in 1..L /\ n - 1 \in 0..L  BY <3>2, <1>1
      <4>2. r[n - 1] \in T  BY <4>1
      <4>3. r[n] = step[<<n, r[n - 1]>>]  BY <4>1, <1>6 DEF IsSteps
      <4> QED BY <4>1, <4>2, <4>3, <1>5, <3>2
    <3> QED BY <3>1, <3>2
  <2> QED BY <2>1
<1>8. credited = Body(credited)
  <2> HIDE DEF Body
  <2> QED BY <1>7
<1>9. credited[0] = Uncredited
  <2>1. 0 \in 0..L  BY <1>1
  <2>2. Body(credited)[0] = Uncredited  BY <2>1
  <2> QED BY <1>8, <2>2
<1>10. ASSUME NEW n \in 1..L PROVE credited[n] = Credit(credited[n - 1], retrievals[n])
  <2>1. n \in 0..L /\ n # 0  BY <1>1
  <2>2. Body(credited)[n] = Credit(credited[n - 1], retrievals[n])
    <3> HIDE DEF credited
    <3> QED BY <2>1
  <2> HIDE DEF Body, credited
  <2> QED BY <1>8, <2>2
<1>11. Retrieval = credited[L]  BY DEF Retrieval, L
<1> HIDE DEF credited, Body
<1> QED BY <1>9, <1>10, <1>11 DEF L

(* The accounts of the first n events say what those events came to.       *)
AccountOK(acc, n) ==
    /\ acc \in Accounts
    /\ acc.seen = MetBy(n) /\ acc.assessed = NamedBy(n)
    /\ acc.novel = Cardinality(MetBy(n))
    /\ Len(acc.evidence) = n
    /\ \A i \in 1..n : acc.evidence[i] =
        retrievals[i].refs \ (IF retrievals[i].type = "search" THEN MetBy(i - 1) ELSE NamedBy(i - 1))

LEMMA CreditAdds ==
    ASSUME RetrievalSizes, RetrievalType, NEW n \in 1..Len(retrievals), NEW acc, AccountOK(acc, n - 1)
    PROVE  AccountOK(Credit(acc, retrievals[n]), n)
<1> DEFINE e == retrievals[n]
           known == IF e.type = "search" THEN acc.seen ELSE acc.assessed
           new == Credit(acc, e)
<1>0. Len(retrievals) \in Nat /\ \A i \in 1..Len(retrievals) : retrievals[i] \in RetrievalEvents
  BY LenProperties, ElementOfSeq DEF RetrievalType
<1>1. e \in RetrievalEvents /\ acc \in Accounts  BY <1>0 DEF AccountOK
<1>2. new \in Accounts  BY <1>1, CreditTyped
<1>3. (1..n) = (1..(n - 1)) \cup {n}  BY <1>0
<1>4. MetBy(n) = MetBy(n - 1) \cup e.refs  BY <1>3 DEF MetBy
<1>5. NamedBy(n) = IF e.type = "search" THEN NamedBy(n - 1) ELSE NamedBy(n - 1) \cup e.refs
  BY <1>3 DEF NamedBy
<1>6. new.seen = MetBy(n)  BY <1>4 DEF Credit, AccountOK
<1>7. new.assessed = NamedBy(n)  BY <1>5 DEF Credit, AccountOK
<1>8. new.novel = Cardinality(MetBy(n))
  <2> DEFINE A == MetBy(n - 1)
             B == e.refs \ A
  <2>1. A \subseteq Sources /\ B \subseteq Sources  BY <1>1 DEF AccountOK, Accounts, RetrievalEvents
  <2>2. IsFiniteSet(A) /\ IsFiniteSet(B)  BY <2>1, FS_Subset DEF RetrievalSizes
  <2>3. A \cap B = {} /\ A \cup B = MetBy(n)  BY <1>4
  <2>4. new.novel = Cardinality(A) + Cardinality(B)  BY DEF Credit, AccountOK
  <2> HIDE DEF A, B
  <2>5. Cardinality(A \cup B) = Cardinality(A) + Cardinality(B) - Cardinality(A \cap B)  BY <2>2, FS_Union
  <2>6. Cardinality(A) \in Nat /\ Cardinality(B) \in Nat  BY <2>2, FS_CardinalityType
  <2>7. Cardinality(A \cap B) = 0  BY <2>3, FS_EmptySet
  <2>8. Cardinality(MetBy(n)) = Cardinality(A) + Cardinality(B) - Cardinality(A \cap B)  BY <2>3, <2>5
  <2>9. Cardinality(MetBy(n)) = Cardinality(A) + Cardinality(B)  BY <2>6, <2>7, <2>8
  <2> HIDE DEF new
  <2> QED BY <2>4, <2>9
<1>9. /\ Len(new.evidence) = n
      /\ new.evidence[n] = e.refs \ known
      /\ \A i \in 1..(n - 1) : new.evidence[i] = acc.evidence[i]
  <2>1. acc.evidence \in Seq(SUBSET Sources) /\ Len(acc.evidence) = n - 1  BY DEF AccountOK, Accounts
  <2>2. e.refs \ known \in SUBSET Sources  BY <1>1 DEF RetrievalEvents
  <2>3. new.evidence = Append(acc.evidence, e.refs \ known)  BY DEF Credit
  <2> HIDE DEF e, known, new
  <2>4. /\ Len(new.evidence) = Len(acc.evidence) + 1
        /\ \A i \in 1..Len(acc.evidence) : new.evidence[i] = acc.evidence[i]
        /\ new.evidence[Len(acc.evidence) + 1] = e.refs \ known
    BY <2>1, <2>2, <2>3, AppendProperties
  <2> QED BY <2>1, <2>4, <1>0
<1>10. known = IF e.type = "search" THEN MetBy(n - 1) ELSE NamedBy(n - 1)  BY DEF AccountOK
<1>11. ASSUME NEW i \in 1..n
       PROVE  new.evidence[i] =
                retrievals[i].refs \ (IF retrievals[i].type = "search" THEN MetBy(i - 1) ELSE NamedBy(i - 1))
  <2>1. CASE i = n  BY <2>1, <1>9, <1>10
  <2>2. CASE i # n
    <3>1. i \in 1..(n - 1)  BY <2>2
    <3>2. new.evidence[i] = acc.evidence[i]  BY <3>1, <1>9
    <3> QED BY <3>1, <3>2 DEF AccountOK
  <2> QED BY <2>1, <2>2
<1>12. AccountOK(new, n)
  <2> HIDE DEF new, e, known
  <2> QED BY <1>2, <1>6, <1>7, <1>8, <1>9, <1>11 DEF AccountOK
<1> QED BY <1>12

LEMMA AccountsAddUp ==
    ASSUME RetrievalSizes, RetrievalType
    PROVE  AccountOK(Retrieval, Len(retrievals))
<1> DEFINE L == Len(retrievals)
<1>1. PICK f : /\ f[0] = Uncredited /\ Retrieval = f[L]
               /\ \A n \in 1..L : f[n] = Credit(f[n - 1], retrievals[n])
  BY CreditSteps
<1>2. L \in Nat  BY LenProperties DEF RetrievalType
<1> DEFINE N == {m \in 0..L : ~AccountOK(f[m], m)}
<1>3. AccountOK(f[0], 0)
  <2>1. <<>> \in Seq(SUBSET Sources) /\ Len(<<>>) = 0  BY EmptySeq
  <2>2. MetBy(0) = {} /\ NamedBy(0) = {}  BY DEF MetBy, NamedBy
  <2>3. Cardinality({}) = 0  BY FS_EmptySet
  <2>4. Uncredited \in Accounts  BY <2>1 DEF Uncredited, Accounts
  <2>5. AccountOK(Uncredited, 0)
    <3>1. /\ Uncredited.seen = {} /\ Uncredited.assessed = {} /\ Uncredited.novel = 0
          /\ Uncredited.evidence = <<>>
      BY DEF Uncredited
    <3>2. 1..0 = {}  OBVIOUS
    <3> QED BY <2>1, <2>2, <2>3, <2>4, <3>1, <3>2 DEF AccountOK
  <2> QED BY <1>1, <2>5
<1>4. N = {}
  <2> SUFFICES ASSUME N # {} PROVE FALSE  OBVIOUS
  <2>1. N \subseteq Nat /\ \E n \in N : TRUE  OBVIOUS
  <2>2. PICK k \in N : \A m \in N : k <= m
    <3> HIDE DEF N
    <3> QED BY <2>1, LeastIn
  <2>3. k # 0  BY <1>3
  <2>4. k \in 1..L /\ (k - 1) \in 0..L /\ k - 1 \notin N  BY <2>2, <2>3, <1>2
  <2>5. AccountOK(f[k - 1], k - 1)  BY <2>4
  <2>6. AccountOK(Credit(f[k - 1], retrievals[k]), k)  BY <2>4, <2>5, CreditAdds
  <2> QED BY <1>1, <2>2, <2>4, <2>6
<1> QED BY <1>1, <1>2, <1>4

LEMMA EvidenceFromAccounts ==
    ASSUME RetrievalSizes, RetrievalType
    PROVE  EvidenceCountsOnce
<1> DEFINE L == Len(retrievals)
           R == Retrieval
<1>1. AccountOK(R, L)  BY AccountsAddUp
<1>2. L \in Nat /\ DOMAIN retrievals = 1..L /\ \A i \in 1..L : retrievals[i] \in RetrievalEvents
  BY LenProperties, ElementOfSeq DEF RetrievalType
<1>3. \A i \in 1..L : R.evidence[i] =
        retrievals[i].refs \ (IF retrievals[i].type = "search" THEN MetBy(i - 1) ELSE NamedBy(i - 1))
  BY <1>1 DEF AccountOK
<1>4. R.novel = Cardinality(UNION {retrievals[i].refs : i \in DOMAIN retrievals})
  BY <1>1, <1>2 DEF AccountOK, MetBy
<1> HIDE DEF R, L
<1>5. ASSUME NEW i \in 1..L, NEW j \in 1..L, i < j, retrievals[i].type = retrievals[j].type
      PROVE  R.evidence[i] \cap R.evidence[j] = {}
  <2>1. i \in 1..(j - 1)  BY <1>5, <1>2
  <2>2. retrievals[i].refs \subseteq MetBy(j - 1)  BY <2>1 DEF MetBy
  <2>3. retrievals[j].type # "search" => retrievals[i].refs \subseteq NamedBy(j - 1)
    BY <2>1, <1>5 DEF NamedBy
  <2> QED BY <1>3, <2>2, <2>3
<1>6. ASSUME NEW i \in DOMAIN retrievals, NEW j \in DOMAIN retrievals, i # j, retrievals[i].type = retrievals[j].type
      PROVE  R.evidence[i] \cap R.evidence[j] = {}
  <2>1. i \in 1..L /\ j \in 1..L  BY <1>2
  <2>2. i < j \/ j < i  BY <2>1, <1>6, <1>2
  <2> QED BY <2>1, <2>2, <1>5, <1>6
<1>7. ASSUME NEW i \in Assessments, retrievals[i].outcome = "new_material",
             NEW s \in retrievals[i].refs, ~\E j \in Assessments : j < i /\ s \in retrievals[j].refs
      PROVE  MakesProgress(i)
  <2>1. i \in 1..L /\ retrievals[i].type = "assessment"  BY <1>2 DEF Assessments
  <2>2. s \notin NamedBy(i - 1)
    <3> SUFFICES ASSUME NEW j \in 1..(i - 1), retrievals[j].type # "search", s \in retrievals[j].refs PROVE FALSE
      BY DEF NamedBy
    <3>1. j \in 1..L /\ j < i  BY <2>1, <1>2
    <3>2. j \in Assessments  BY <3>1, <1>2 DEF Assessments, RetrievalEvents
    <3> QED BY <3>1, <3>2, <1>7
  <2>3. s \in R.evidence[i]  BY <1>3, <2>1, <2>2
  <2> QED BY <2>3, <1>7 DEF MakesProgress, R
<1> QED BY <1>4, <1>6, <1>7 DEF EvidenceCountsOnce, R

LEMMA RetrievalTypeStays ==
    ASSUME RetrievalType, [RetrievalNext]_retrievalVars
    PROVE  RetrievalType'
<1>1. ASSUME NEW type \in {"search", "assessment"}, NEW refs \in SUBSET Sources,
             NEW outcome \in {"new_material", "inconclusive"}, Record(type, refs, outcome)
      PROVE  retrievals' \in Seq(RetrievalEvents)
  <2> DEFINE e == [type |-> type, refs |-> refs, outcome |-> outcome]
  <2>1. e \in RetrievalEvents  BY DEF RetrievalEvents
  <2>2. retrievals \in Seq(RetrievalEvents) /\ retrievals' = Append(retrievals, e)
    BY <1>1 DEF RetrievalType, Record
  <2> HIDE DEF e
  <2> QED BY <2>1, <2>2, AppendProperties
<1>2. CASE SearchReferences
  <2>1. PICK found \in SUBSET Sources : registered' = registered \cup found /\ Record("search", found, "new_material")
    BY <1>2 DEF SearchReferences
  <2>2. retrievals' \in Seq(RetrievalEvents)  BY <2>1, <1>1
  <2> QED BY <2>1, <2>2 DEF RetrievalType
<1>3. CASE AssessReferences
  <2>1. PICK refs \in SUBSET registered, outcome \in {"new_material", "inconclusive"} :
            Record("assessment", refs, outcome) /\ UNCHANGED registered
    BY <1>3 DEF AssessReferences
  <2>2. refs \in SUBSET Sources  BY DEF RetrievalType
  <2>3. retrievals' \in Seq(RetrievalEvents)  BY <2>1, <2>2, <1>1
  <2> QED BY <2>1, <2>3 DEF RetrievalType
<1>4. CASE UNCHANGED retrievalVars  BY <1>4 DEF RetrievalType, retrievalVars
<1> QED BY <1>2, <1>3, <1>4 DEF RetrievalNext

(* For any finite set of references and any number of events: a reference  *)
(* is counted as new once, no two assessments and no two searches have the *)
(* same evidence, and an assessment that claims new material makes         *)
(* progress unless all it names was named before                           *)
(* (normalize_retrieval_events).                                           *)
THEOREM EvidenceAlwaysCountsOnce == RetrievalSpec => []EvidenceCountsOnce
<1>1. RetrievalInit => RetrievalType  BY EmptySeq DEF RetrievalInit, RetrievalType
<1>2. RetrievalType /\ [RetrievalNext]_retrievalVars => RetrievalType'  BY RetrievalTypeStays
<1>3. RetrievalType => EvidenceCountsOnce  BY RetrievalSizes, EvidenceFromAccounts
<1> QED BY <1>1, <1>2, <1>3, PTL DEF RetrievalSpec
=============================================================================
