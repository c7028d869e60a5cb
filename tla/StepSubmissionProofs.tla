----------------------- MODULE StepSubmissionProofs -----------------------
(***************************************************************************)
(* Proofs about StepSubmission, for every value of its constants.          *)
(*                                                                         *)
(* Inv, the inductive invariant, is proved with one lemma per action; the  *)
(* lemmas QuietStep, LockStep, JournalStep, SettleStep and RunStep say     *)
(* once what each class of step has to keep.  Type correctness, the fence  *)
(* around an in-flight write, the two epoch properties and the refinement  *)
(* of SubmissionLedger follow from it and from NextFootprint, which lists  *)
(* the few steps that touch receipts, effects or transitions.  GapInv adds *)
(* what recovery relies on, for the gaps it cannot settle.                 *)
(***************************************************************************)
EXTENDS StepSubmission, SequenceTheorems, TLAPS

USE DEF At, RunRecords, CapRecords

(* The thread-local part of a step.                                        *)
OnlyThread(w) == /\ wk' \in [Workers -> Threads]
                 /\ \A v \in Workers : v # w => wk'[v] = wk[v]

Same(w) == /\ wk'[w].cap = wk[w].cap /\ wk'[w].request = wk[w].request
           /\ wk'[w].recoverOnly = wk[w].recoverOnly
           /\ wk'[w].snap = wk[w].snap /\ wk'[w].observed = wk[w].observed
           /\ wk'[w].domain = wk[w].domain
           /\ wk'[w].epoch = wk[w].epoch

(* The constant markers, results, rows and the idle thread are well        *)
(* typed.                                                                  *)
LEMMA Constants ==
  /\ Plain("absent") \in Markers /\ Plain("between") \in Markers
  /\ Plain("opaque") \in Markers /\ Plain("restartable") \in Markers
  /\ Blank \in Results /\ NoCheckpoint \in Checkpoints /\ NoReceipt \in Receipts
  /\ Idle \in Threads
<1>1. /\ Plain("absent") \in Markers /\ Plain("between") \in Markers
      /\ Plain("opaque") \in Markers /\ Plain("restartable") \in Markers
  BY DEF Plain, Markers, PlainMarkers
<1>2. Blank \in Results
  BY DEF Blank, Correction, Results, Stages
<1>3. NoCheckpoint \in Checkpoints
  BY <1>1 DEF NoCheckpoint, Checkpoints
<1>4. NoReceipt \in Receipts
  BY <1>2 DEF NoReceipt, Receipts
<1>5. Idle \in Threads
  BY <1>1, <1>2, <1>3 DEF Idle, Threads, Labels, Stages, Content
<1> QED BY <1>1, <1>2, <1>3, <1>4, <1>5

(* A jump changes the program counter of one thread.                       *)
LEMMA GotoFacts ==
  ASSUME wk \in [Workers -> Threads], NEW w \in Workers, NEW l \in Labels, Goto(w, l)
  PROVE  /\ OnlyThread(w) /\ Same(w)
         /\ wk'[w].pc = l /\ wk'[w].evidence = wk[w].evidence /\ wk'[w].done = wk[w].done
         /\ wk'[w].stage = wk[w].stage /\ wk'[w].outcome = wk[w].outcome
BY DEF Goto, Threads, OnlyThread, Same

(* Dropping a FileEffectGuard changes the program counter and the          *)
(* evidence of one thread.                                                 *)
LEMMA DropFacts ==
  ASSUME wk \in [Workers -> Threads], NEW w \in Workers, NEW l \in Labels, DropGuard(w, l)
  PROVE  /\ OnlyThread(w) /\ Same(w)
         /\ wk'[w].pc = l /\ wk'[w].evidence = Plain("absent") /\ wk'[w].done = wk[w].done
         /\ wk'[w].stage = wk[w].stage /\ wk'[w].outcome = wk[w].outcome
BY Constants DEF DropGuard, Threads, OnlyThread, Same

(* A returning thread becomes idle, the others stay.                       *)
LEMMA ReturnFacts ==
  ASSUME wk \in [Workers -> Threads], NEW w \in Workers, Return(w)
  PROVE  OnlyThread(w) /\ wk'[w] = Idle
BY Constants DEF Return, OnlyThread

(* A thread outside of next_task and cancel has a capability and a request. *)
LEMMA HasCap ==
  ASSUME Inv, NEW w \in Workers, wk[w].pc \notin Serving
  PROVE  wk[w].cap \in Caps /\ wk[w].cap # NoCap /\ wk[w].request \in Requests
BY ConstantAssumption DEF Inv, TypeInv, TypeOK, Threads, Bound

(* An idle thread relies on nothing and owns nothing.                      *)
LEMMA IdleOK ==
  ASSUME Inv, NEW w \in Workers, wk'[w] = Idle, run'.epoch \in Nat
  PROVE  Bound(w)' /\ ThreadOK(w)' /\ \A c \in Caps : ~Owns(w, c)'
BY ConstantAssumption DEF Idle, Bound, ThreadOK, Owns, Owning, Executing, Serving, Blank, Correction, NoCheckpoint, Plain

(* A step that changes its own thread only.                                *)
Quiet == UNCHANGED <<run, caps, receipt, ckpt, file, lock, effects, moved>>

(* A step that touches its own thread only preserves the invariant when    *)
(* that thread still relies on what is there and owns no new submission.   *)
LEMMA QuietStep ==
  ASSUME Inv, NEW w \in Workers, Quiet, OnlyThread(w), Bound(w)', ThreadOK(w)',
         \A c \in Caps : Owns(w, c)' => Owns(w, c)
  PROVE  Inv'
<1> USE DEF Quiet, OnlyThread, Inv
<1>1. TypeOK' BY DEF TypeInv, TypeOK
<1>2. ASSUME NEW v \in Workers PROVE Bound(v)'
  BY DEF TypeInv, Bound
<1>3. ASSUME NEW c \in Caps PROVE ReceiptExact(c)'
  BY DEF ReceiptExact, Journal, Pending, Completed
<1>4. OnePending'
  BY DEF OnePending, Pending
<1>5. OneOwner'
  BY DEF OneOwner, Owns
<1>6. ASSUME NEW v \in Workers PROVE ThreadOK(v)'
  BY DEF ThreadOK, Pending, Completed
<1> QED BY <1>1, <1>2, <1>3, <1>4, <1>5, <1>6 DEF TypeInv

(* Returning from a call preserves the invariant.                          *)
LEMMA QuietReturn ==
  ASSUME Inv, NEW w \in Workers, Quiet, Return(w)
  PROVE  Inv'
<1>1. OnlyThread(w) /\ wk'[w] = Idle
  BY ReturnFacts DEF Inv, TypeInv, TypeOK
<1>2. run'.epoch \in Nat
  BY DEF Inv, TypeInv, TypeOK, Quiet
<1> QED BY <1>1, <1>2, IdleOK, QuietStep

(* A jump of a thread within its phase.                                    *)
LEMMA QuietGoto ==
  ASSUME Inv, NEW w \in Workers, Quiet,
         NEW l \in Labels \ {"idle", "begin", "publish", "checkpoint", "inspect", "reconcile"},
         Goto(w, l),
         wk[w].cap = NoCap => l \in Serving,
         l \in Owning => (wk[w].pc \in Owning \ {"activate", "observe"} \/ wk[w].cap = NoCap \/ (l = "observe" /\ wk[w].pc \in Owning))
  PROVE  Inv'
<1>1. /\ OnlyThread(w) /\ Same(w)
      /\ wk'[w].pc = l /\ wk'[w].outcome = wk[w].outcome
  BY GotoFacts DEF Inv, TypeInv, TypeOK
<1>2. Bound(w)'
  BY <1>1 DEF Inv, TypeInv, Bound, Same, Quiet
<1>3. ThreadOK(w)'
  BY <1>1 DEF Inv, ThreadOK, Same, Quiet, Completed, Pending
<1>4. \A c \in Caps : Owns(w, c)' => Owns(w, c)
  BY <1>1, ConstantAssumption DEF Owns, Same
<1> QED BY <1>1, <1>2, <1>3, <1>4, QuietStep

(* A step of w leaves alone what another thread relies on.                 *)
Undisturbed(w) ==
  /\ \A c \in Caps : /\ receipt[c].status # "absent" => receipt'[c].status # "absent"
                     /\ receipt[c].status = "completed" => receipt'[c].status = "completed"
                     /\ ckpt[c].phase \in {"running", "commit_ready"} =>
                           ckpt'[c].phase \in {"running", "commit_ready"}
  /\ \A v \in Workers : (v # w /\ wk[v].pc \in {"publish", "checkpoint"}) =>
       LET c == wk[v].cap IN
       /\ receipt'[c].status = receipt[c].status /\ ckpt'[c] = ckpt[c]
       /\ effects'[c] = effects[c]
       /\ \/ run'.stage = "terminal"
          \/ run'.stage = run.stage /\ run'.epoch = run.epoch /\ caps'[c].epoch = caps[c].epoch
  /\ \A f \in Files, v \in Workers :
       (v # w /\ lock[f] = v) => lock'[f] = v /\ file'[f] = file[f]
  /\ run'.epoch \in Nat /\ run'.epoch >= run.epoch
  /\ \A c \in Caps : caps[c].issued => caps'[c].issued

(* What the other threads rely on survives a step that leaves it alone.    *)
LEMMA OtherThreads ==
  ASSUME Inv, NEW w \in Workers, OnlyThread(w), Undisturbed(w),
         NEW v \in Workers, v # w
  PROVE  Bound(v)' /\ ThreadOK(v)'
<1>1. wk'[v] = wk[v] BY DEF OnlyThread
<1>2. Bound(v) /\ ThreadOK(v) /\ wk[v] \in Threads /\ run.epoch \in Nat
  BY DEF Inv, TypeInv, TypeOK
<1>3. wk[v].cap \in Caps \cup {NoCap} /\ wk[v].epoch \in Nat
  BY <1>2 DEF Threads
<1>4. Bound(v)'
  BY <1>1, <1>2, <1>3 DEF Bound, Undisturbed
<1>5. wk[v].pc \in {"begin", "publish", "checkpoint"} => wk[v].evidence.path \in Files
  BY <1>2 DEF Bound, Threads, Markers, PlainMarkers, FileMarkers
<1>6. wk[v].snap.marker.kind = "file" => wk[v].snap.marker.path \in Files
  BY <1>2 DEF Threads, Checkpoints, Markers, PlainMarkers, FileMarkers
<1>7. wk[v].pc \in {"publish", "checkpoint"} => wk[v].cap \in Caps
  BY <1>2, <1>3 DEF Bound, Serving
<1>8. ThreadOK(v)'
  BY <1>1, <1>2, <1>3, <1>5, <1>6, <1>7 DEF ThreadOK, Undisturbed, Pending, Completed
<1> QED BY <1>4, <1>8

(* A step of w, taken apart.                                               *)
LEMMA Assemble ==
  ASSUME Inv, NEW w \in Workers, TypeOK', OnlyThread(w), Undisturbed(w),
         Bound(w)', ThreadOK(w)', \A c \in Caps : Owns(w, c)' => Owns(w, c),
         \A c \in Caps : ReceiptExact(c)', OnePending'
  PROVE  Inv'
<1>1. \A v \in Workers : Bound(v)' /\ ThreadOK(v)'
  BY OtherThreads
<1>2. OneOwner'
  BY DEF OneOwner, Owns, OnlyThread, Inv
<1> QED BY <1>1, <1>2 DEF Inv, TypeInv

(* A new tool call preserves the invariant.                                *)
LEMMA StartSteps ==
  ASSUME Inv, NEW w \in Workers, Call(w)
  PROVE  Inv'
<1>0. wk \in [Workers -> Threads] /\ wk[w] \in Threads /\ Bound(w) /\ ThreadOK(w)
  BY DEF Inv, TypeInv, TypeOK
<1>1. ASSUME NEW c \in Caps, NEW r \in Requests, NEW b \in BOOLEAN, StartSubmission(w, c, r, b)
      PROVE  Inv'
  <2>1. /\ OnlyThread(w) /\ Quiet /\ caps[c].issued
        /\ wk'[w] = [Idle EXCEPT !.pc = "lookup", !.cap = c, !.request = r, !.recoverOnly = b]
    BY <1>0, <1>1, Constants DEF StartSubmission, OnlyThread, Quiet, Threads, Labels
  <2>2. /\ wk'[w].pc = "lookup" /\ wk'[w].cap = c /\ wk'[w].request = r
        /\ wk'[w].epoch = 0 /\ wk'[w].outcome = Blank
    BY <2>1 DEF Idle
  <2>3. Bound(w)'
    BY <2>1, <2>2, ConstantAssumption DEF Bound, Quiet
  <2>4. ThreadOK(w)'
    BY <2>1, <2>2 DEF ThreadOK, Owning, Executing, Blank, Correction, Quiet, Inv, TypeInv, TypeOK
  <2> QED BY <2>1, <2>2, <2>3, <2>4, QuietStep DEF Owns, Owning, Executing
<1>2. CASE StartRefresh(w)
  <2>1. Quiet /\ Goto(w, "next") /\ wk[w].cap = NoCap
    BY <1>0, <1>2 DEF StartRefresh, Quiet, Bound, Idle
  <2> QED BY <2>1, QuietGoto DEF Labels, Executing, Serving
<1>3. CASE StartCancel(w)
  <2>1. /\ OnlyThread(w) /\ Same(w) /\ Quiet /\ wk[w] = Idle
        /\ wk'[w].pc = "cancel" /\ wk'[w].outcome = wk[w].outcome
    BY <1>0, <1>3 DEF StartCancel, OnlyThread, Same, Quiet, Threads, Labels, Inv, TypeInv, TypeOK, Bound
  <2>2. Bound(w)'
    BY <2>1, <1>0 DEF Bound, Quiet, Same, Idle, Serving
  <2>3. ThreadOK(w)'
    BY <2>1, <1>0 DEF ThreadOK, Owning, Executing, Quiet, Same, Completed
  <2> QED BY <2>1, <2>2, <2>3, QuietStep DEF Owns, Owning, Executing
<1> QED BY <1>1, <1>2, <1>3 DEF Call

(* Steps of the handler that only decide where to go.                      *)
LEMMA RoutingSteps ==
  ASSUME Inv, NEW w \in Workers,
         \/ LookupMiss(w) \/ LookupHit(w) \/ Authorize(w) \/ Relookup(w)
         \/ ReserveRefused(w) \/ ActivateRefused(w) \/ WriteDenied(w) \/ WriteRejected(w)
         \/ RejectOpaque(w) \/ CommitRefused(w) \/ TransitionRefused(w)
         \/ Observe(w) \/ AnswerUnknown(w)
  PROVE  Inv'
<1>0. Bound(w) BY DEF Inv, TypeInv
<1>1. CASE LookupMiss(w) \/ LookupHit(w)
  BY <1>0, <1>1, QuietReturn, QuietGoto
     DEF LookupMiss, LookupHit, Quiet, Bound, Labels, Executing, Owning, Serving
<1>2. CASE Authorize(w)
  BY <1>0, <1>2, QuietGoto DEF Authorize, Quiet, Bound, Labels, Executing, Owning, Serving
<1>3. CASE Relookup(w) \/ ReserveRefused(w) \/ ActivateRefused(w) \/ Observe(w) \/ AnswerUnknown(w)
  BY <1>3, QuietReturn
     DEF Relookup, ReserveRefused, ActivateRefused, Observe, AnswerUnknown, Quiet
<1>4. CASE WriteDenied(w)
  BY <1>0, <1>4, QuietGoto DEF WriteDenied, Quiet, Bound, Labels, Executing, Owning, Serving
<1>5. CASE WriteRejected(w)
  BY <1>0, <1>5, QuietGoto DEF WriteRejected, Quiet, Bound, Labels, Executing, Owning, Serving
<1>6. CASE RejectOpaque(w) \/ TransitionRefused(w)
  BY <1>0, <1>6, QuietGoto
     DEF RejectOpaque, TransitionRefused, Quiet, Bound, Labels, Executing, Owning, Serving
<1>7. CASE CommitRefused(w)
  BY <1>0, <1>7, QuietGoto DEF CommitRefused, Quiet, Bound, Labels, Executing, Owning, Serving
<1> QED BY <1>1, <1>2, <1>3, <1>4, <1>5, <1>6, <1>7

(* next_task's own steps, and what it does for a submission or a refresh.  *)
LEMMA LeaveStep ==
  ASSUME Inv, NEW w \in Workers, Quiet, Leave(w), wk[w].pc \in Executing
  PROVE  Inv'
<1>1. CASE wk[w].cap = NoCap
  BY <1>1, QuietReturn DEF Leave
<1>2. CASE wk[w].cap # NoCap
  <2>1. DropGuard(w, "observe") BY <1>2 DEF Leave
  <2>2. OnlyThread(w) /\ Same(w) /\ wk'[w].pc = "observe" /\ wk'[w].outcome = wk[w].outcome
    BY <2>1, DropFacts DEF Inv, TypeInv, TypeOK, Labels
  <2>3. Bound(w)'
    BY <1>2, <2>2 DEF Inv, TypeInv, Bound, Same, Quiet
  <2>4. ThreadOK(w)'
    BY <1>2, <2>2 DEF Inv, ThreadOK, Same, Quiet, Completed, Owning
  <2> QED BY <2>2, <2>3, <2>4, QuietStep DEF Owns, Owning, Same
<1> QED BY <1>1, <1>2

(* A next_task that succeeds ends a refresh, or leaves the thread of a     *)
(* submission with its capability at `revoke'.                             *)
LEMMA ProceedFacts ==
  ASSUME Inv, NEW w \in Workers, Proceed(w), wk[w].pc \in {"advance", "insert"},
         UNCHANGED <<run, receipt, ckpt, file, lock, effects, moved>>,
         \A c \in Caps : caps[c].issued => caps'[c].issued
  PROVE  /\ OnlyThread(w) /\ Bound(w)' /\ ThreadOK(w)'
         /\ \A c \in Caps : Owns(w, c)' => Owns(w, c)
<1>0. wk \in [Workers -> Threads] /\ wk[w] \in Threads /\ Bound(w) /\ ThreadOK(w) /\ run.epoch \in Nat
  BY DEF Inv, TypeInv, TypeOK
<1>1. CASE wk[w].cap = NoCap
  <2>1. OnlyThread(w) /\ wk'[w] = Idle
    BY <1>0, <1>1, ReturnFacts DEF Proceed
  <2> QED BY <2>1, <1>0, IdleOK
<1>2. CASE wk[w].cap # NoCap
  <2>1. /\ OnlyThread(w) /\ wk'[w].pc = "revoke" /\ wk'[w].outcome = wk[w].outcome
        /\ wk'[w].cap = wk[w].cap /\ wk'[w].request = wk[w].request /\ wk'[w].epoch = 0
    BY <1>0, <1>2 DEF Proceed, OnlyThread, Threads, Labels, Executing
  <2>2. wk[w].cap \in Caps BY <1>0, <1>2 DEF Threads
  <2>3. Bound(w)'
    BY <1>0, <1>2, <2>1, <2>2 DEF Bound
  <2>4. ThreadOK(w)'
    BY <1>0, <1>2, <2>1 DEF ThreadOK, Completed, Owning, Executing
  <2> QED BY <2>1, <2>3, <2>4 DEF Owns, Owning, Executing
<1> QED BY <1>1, <1>2

(* The steps of next_task and issue that only read the run preserve the    *)
(* invariant.                                                              *)
LEMMA TaskSteps ==
  ASSUME Inv, NEW w \in Workers,
         \/ ReadRun(w) \/ CheckPending(w) \/ ReachTerminal(w) \/ FindDomain(w) \/ ReadClaims(w)
         \/ SupplyExhausted(w) \/ SaveProgress(w) \/ Snapshot(w)
  PROVE  Inv'
<1>0. /\ wk \in [Workers -> Threads] /\ wk[w] \in Threads /\ Bound(w) /\ ThreadOK(w)
      /\ run.epoch \in Nat /\ run.stage \in Stages /\ run.domains \in Seq(BOOLEAN)
  BY DEF Inv, TypeInv, TypeOK
<1>1. CASE CheckPending(w)
  <2>1. CASE AnyPending
    BY <1>1, <2>1, LeaveStep DEF CheckPending, Quiet, Executing
  <2>2. CASE ~AnyPending
    BY <1>1, <2>2, QuietGoto DEF CheckPending, Quiet, Labels, Executing, Owning, Serving
  <2> QED BY <2>1, <2>2
<1>8. CASE ReadRun(w)
  <2>1. /\ OnlyThread(w) /\ Same(w) /\ Quiet
        /\ wk'[w].pc = "refresh" /\ wk'[w].outcome = wk[w].outcome
    <3>1. Quiet /\ wk' = [wk EXCEPT ![w].pc = "refresh", ![w].stage = run.stage]
      BY <1>8 DEF ReadRun, Quiet
    <3> QED BY <1>0, <3>1 DEF OnlyThread, Same, Threads, Labels, Executing
  <2>2. Bound(w)' BY <1>0, <1>8, <2>1 DEF ReadRun, Bound, Same, Quiet, Serving
  <2>3. ThreadOK(w)'
    BY <1>0, <1>8, <2>1 DEF ReadRun, ThreadOK, Same, Quiet, Completed, Owning, Executing
  <2> QED BY <1>8, <2>1, <2>2, <2>3, QuietStep DEF ReadRun, Owns, Owning, Executing, Same
<1>2. CASE ReachTerminal(w)
  BY <1>2, ProceedFacts, QuietStep DEF ReachTerminal, Quiet
<1>3. CASE SupplyExhausted(w)
  BY <1>3, ProceedFacts, QuietStep DEF SupplyExhausted, Quiet
<1>4. CASE FindDomain(w)
  <2>1. CASE Goto(w, "domain")
    BY <1>4, <2>1, QuietGoto DEF FindDomain, Quiet, Labels, Executing, Owning, Serving
  <2>2. CASE \E d \in DOMAIN run.domains : wk' = [wk EXCEPT ![w].pc = "issue", ![w].domain = d]
    <3>1. /\ OnlyThread(w) /\ Quiet /\ wk'[w].pc = "issue" /\ wk'[w].outcome = wk[w].outcome
          /\ wk'[w].cap = wk[w].cap /\ wk'[w].request = wk[w].request /\ wk'[w].epoch = wk[w].epoch
      <4>1. PICK d \in DOMAIN run.domains : wk' = [wk EXCEPT ![w].pc = "issue", ![w].domain = d]
        BY <2>2
      <4>2. d \in Nat /\ Quiet
        BY <1>0, <1>4 DEF FindDomain, Quiet
      <4> QED BY <1>0, <4>1, <4>2 DEF OnlyThread, Threads, Labels, Executing
    <3>2. Bound(w)' BY <1>0, <1>4, <3>1 DEF FindDomain, Bound, Quiet, Serving
    <3>3. ThreadOK(w)'
      BY <1>0, <1>4, <3>1 DEF FindDomain, ThreadOK, Quiet, Completed, Owning, Executing
    <3> QED BY <1>4, <3>1, <3>2, <3>3, QuietStep DEF FindDomain, Owns, Owning, Executing
  <2> QED BY <1>4, <2>1, <2>2 DEF FindDomain
<1>5. CASE ReadClaims(w)
  <2>1. CASE Leave(w)
    BY <1>5, <2>1, LeaveStep DEF ReadClaims, Quiet, Executing
  <2>2. CASE wk' = [wk EXCEPT ![w].pc = "insert", ![w].epoch = run.epoch]
    <3>1. /\ OnlyThread(w) /\ Quiet /\ wk'[w].pc = "insert" /\ wk'[w].outcome = wk[w].outcome
          /\ wk'[w].cap = wk[w].cap /\ wk'[w].request = wk[w].request /\ wk'[w].epoch = run.epoch
      BY <1>0, <1>5, <2>2 DEF ReadClaims, OnlyThread, Quiet, Threads, Labels, Executing
    <3>2. Bound(w)' BY <1>0, <1>5, <3>1 DEF ReadClaims, Bound, Quiet, Serving
    <3>3. ThreadOK(w)'
      BY <1>0, <1>5, <3>1 DEF ReadClaims, ThreadOK, Quiet, Completed, Owning, Executing
    <3> QED BY <1>5, <3>1, <3>2, <3>3, QuietStep DEF ReadClaims, Owns, Owning, Executing
  <2> QED BY <1>5, <2>1, <2>2 DEF ReadClaims
<1>6. CASE SaveProgress(w)
  <2>1. /\ OnlyThread(w) /\ Same(w) /\ Quiet /\ wk'[w].pc = "record"
        /\ wk'[w].outcome = Applied("task", wk[w].done, FALSE)
    BY <1>0, <1>6 DEF SaveProgress, OnlyThread, Same, Quiet, Threads, Labels, Executing, Results, Applied, Stages
  <2>2. Bound(w)' BY <1>0, <1>6, <2>1 DEF SaveProgress, Bound, Same, Quiet, Serving
  <2>3. ThreadOK(w)'
    BY <1>0, <1>6, <2>1 DEF SaveProgress, ThreadOK, Same, Quiet, Applied, Owning, Executing
  <2> QED BY <1>6, <2>1, <2>2, <2>3, QuietStep DEF SaveProgress, Owns, Owning, Executing, Same
<1>7. CASE Snapshot(w)
  <2>0. wk[w].cap \in Caps /\ wk[w].pc = "snapshot" /\ ckpt[wk[w].cap] \in Checkpoints
    BY <1>0, <1>7 DEF Snapshot, Bound, Serving, Threads, Inv, TypeInv, TypeOK
  <2>1. /\ OnlyThread(w) /\ Quiet /\ wk'[w].pc \in {"inspect", "reconcile"}
        /\ wk'[w].pc = "inspect" <=> ckpt[wk[w].cap].marker.kind = "file"
        /\ wk'[w].snap = ckpt[wk[w].cap] /\ wk'[w].outcome = wk[w].outcome
        /\ wk'[w].cap = wk[w].cap /\ wk'[w].request = wk[w].request /\ wk'[w].epoch = wk[w].epoch
    BY <1>0, <1>7, <2>0 DEF Snapshot, OnlyThread, Quiet, Threads, Labels
  <2>2. Bound(w)' BY <1>0, <2>0, <2>1 DEF Bound, Quiet, Serving
  <2>3. ThreadOK(w)'
    BY <1>0, <2>0, <2>1 DEF ThreadOK, Quiet, Completed, Owning, Executing
  <2> QED BY <2>0, <2>1, <2>2, <2>3, QuietStep DEF Owns, Owning, Executing
<1> QED BY <1>1, <1>2, <1>3, <1>4, <1>5, <1>6, <1>7, <1>8

(* Locks: a step gives up or takes locks of its own thread only.           *)
LockKept(w) ==
  /\ lock' \in [Files -> Workers \cup {NoWorker}]
  /\ \A f \in Files, v \in Workers : (v # w /\ lock[f] = v) => lock'[f] = v

(* Taking a free flock, or dropping one's own, leaves the other threads'   *)
(* flocks alone.                                                           *)
LEMMA LockFacts ==
  ASSUME Inv, NEW w \in Workers,
         \/ lock' = lock \/ lock' = Unlocked(w)
         \/ \E f \in Files : lock[f] = NoWorker /\ lock' = [lock EXCEPT ![f] = w]
  PROVE  LockKept(w)
<1>1. lock \in [Files -> Workers \cup {NoWorker}] BY DEF Inv, TypeInv, TypeOK
<1>2. CASE lock' = lock BY <1>1, <1>2 DEF LockKept
<1>3. CASE lock' = Unlocked(w) BY <1>1, <1>3 DEF LockKept, Unlocked
<1>4. CASE \E f \in Files : lock[f] = NoWorker /\ lock' = [lock EXCEPT ![f] = w]
  BY <1>1, <1>4, ConstantAssumption DEF LockKept
<1> QED BY <1>2, <1>3, <1>4

(* A step that changes its own thread and its own locks.                   *)
LEMMA LockStep ==
  ASSUME Inv, NEW w \in Workers, OnlyThread(w), LockKept(w),
         UNCHANGED <<run, caps, receipt, ckpt, file, effects, moved>>,
         Bound(w)', ThreadOK(w)', \A c \in Caps : Owns(w, c)' => Owns(w, c)
  PROVE  Inv'
<1>1. TypeOK' BY DEF Inv, TypeInv, TypeOK, LockKept, OnlyThread
<1>2. Undisturbed(w) BY DEF Undisturbed, LockKept, Inv, TypeInv, TypeOK
<1>3. \A c \in Caps : ReceiptExact(c)'
  BY DEF Inv, ReceiptExact, Journal, Pending, Completed
<1>4. OnePending' BY DEF Inv, OnePending, Pending
<1> QED BY <1>1, <1>2, <1>3, <1>4, Assemble

(* The owner of a pending submission changes its journal.                  *)
LEMMA JournalStep ==
  ASSUME Inv, NEW w \in Workers, NEW c \in Caps, NEW k \in Checkpoints, NEW n \in Nat,
         OnlyThread(w), LockKept(w), wk[w].cap = c, wk[w].pc \in Owning, Pending(c),
         ckpt' = [ckpt EXCEPT ![c] = k], k.phase \in {"running", "commit_ready"},
         effects' = [effects EXCEPT ![c] = n],
         file' \in [Files -> Content],
         \A f \in Files : file'[f] # file[f] => lock[f] = w,
         UNCHANGED <<run, caps, receipt, moved>>,
         Journal(c)', Bound(w)', ThreadOK(w)', \A d \in Caps : Owns(w, d)' => Owns(w, d)
  PROVE  Inv'
<1>0. /\ ckpt \in [Caps -> Checkpoints] /\ effects \in [Caps -> Nat] /\ run.epoch \in Nat
      /\ lock \in [Files -> Workers \cup {NoWorker}]
  BY DEF Inv, TypeInv, TypeOK
<1>1. TypeOK'
  <2>1. ckpt' \in [Caps -> Checkpoints] /\ effects' \in [Caps -> Nat] BY <1>0
  <2> QED BY <2>1 DEF Inv, TypeInv, TypeOK, LockKept, OnlyThread
<1>2. \A d \in Caps : d # c => ckpt'[d] = ckpt[d] /\ effects'[d] = effects[d]
  BY <1>0
<1>3. ASSUME NEW v \in Workers, v # w, wk[v].pc \in {"publish", "checkpoint"}
      PROVE  wk[v].cap \in Caps /\ wk[v].cap # c
  <2>1. wk[v].cap \in Caps BY <1>3, HasCap DEF Serving
  <2>2. wk[v].pc \in Owning BY <1>3 DEF Owning, Executing
  <2> QED BY <1>3, <2>1, <2>2 DEF Inv, OneOwner, Owns
<1>4. Undisturbed(w)
  <2>0. ckpt'[c] = k BY <1>0
  <2>1. ASSUME NEW d \in Caps
        PROVE  ckpt[d].phase \in {"running", "commit_ready"} =>
                  ckpt'[d].phase \in {"running", "commit_ready"}
    BY <1>2, <2>0
  <2>2. ASSUME NEW f \in Files, NEW v \in Workers, v # w, lock[f] = v
        PROVE  lock'[f] = v /\ file'[f] = file[f]
    BY <2>2 DEF LockKept
  <2> QED BY <1>0, <1>2, <1>3, <2>1, <2>2 DEF Undisturbed
<1>5. ASSUME NEW d \in Caps PROVE ReceiptExact(d)'
  <2>1. ReceiptExact(d) BY DEF Inv
  <2>2. CASE d = c BY <2>1, <2>2 DEF ReceiptExact, Pending, Completed
  <2>3. CASE d # c
    <3>1. ~Pending(d) BY <2>3 DEF Inv, OnePending
    <3> QED BY <1>2, <2>1, <2>3, <3>1 DEF ReceiptExact, Pending, Completed
  <2> QED BY <2>2, <2>3
<1>6. OnePending' BY DEF Inv, OnePending, Pending
<1> QED BY <1>1, <1>4, <1>5, <1>6, Assemble

(* A pending receipt is settled without a transition.                      *)
LEMMA SettleStep ==
  ASSUME Inv, NEW w \in Workers, NEW c \in Caps, NEW res \in Results,
         OnlyThread(w), LockKept(w), Pending(c), receipt' = Finished(c, res),
         res.writes = effects[c], ~res.complete,
         \A v \in Workers : v # w /\ wk[v].pc \in {"publish", "checkpoint"} => wk[v].cap # c,
         UNCHANGED <<run, caps, ckpt, file, effects, moved>>,
         Bound(w)', ThreadOK(w)', \A d \in Caps : Owns(w, d)' => Owns(w, d)
  PROVE  Inv'
<1>0. receipt \in [Caps -> Receipts] /\ run.epoch \in Nat
  BY DEF Inv, TypeInv, TypeOK
<1>1. /\ receipt' \in [Caps -> Receipts]
      /\ receipt'[c].status = "completed" /\ receipt'[c].result = res
      /\ \A d \in Caps : d # c => receipt'[d] = receipt[d]
  BY <1>0 DEF Finished, Receipts
<1>2. TypeOK' BY <1>1 DEF Inv, TypeInv, TypeOK, LockKept, OnlyThread
<1>3. ASSUME NEW v \in Workers, v # w, wk[v].pc \in {"publish", "checkpoint"}
      PROVE  wk[v].cap \in Caps /\ wk[v].cap # c
  BY <1>3 DEF Inv, TypeInv, TypeOK, Threads, Bound, Serving
<1>4. Undisturbed(w)
  BY <1>0, <1>1, <1>3 DEF Undisturbed, LockKept
<1>5. ASSUME NEW d \in Caps PROVE ReceiptExact(d)'
  <2>1. ReceiptExact(d) BY DEF Inv
  <2>2. CASE d = c
    BY <1>1, <2>1, <2>2 DEF ReceiptExact, Journal, Pending, Completed
  <2>3. CASE d # c
    BY <1>1, <2>1, <2>3 DEF ReceiptExact, Journal, Pending, Completed
  <2> QED BY <2>2, <2>3
<1>6. OnePending' BY <1>1 DEF Inv, OnePending, Pending
<1> QED BY <1>2, <1>4, <1>5, <1>6, Assemble

(* What the invariant says of a thread that works for a capability.        *)
LEMMA OwnerFacts ==
  ASSUME Inv, NEW w \in Workers, wk[w].pc \notin Serving
  PROVE  /\ wk[w].cap \in Caps /\ wk[w].cap # NoCap /\ wk[w].request \in Requests
         /\ wk[w] \in Threads /\ wk \in [Workers -> Threads] /\ Bound(w) /\ ThreadOK(w)
         /\ ckpt \in [Caps -> Checkpoints] /\ effects \in [Caps -> Nat]
         /\ file \in [Files -> Content] /\ receipt \in [Caps -> Receipts]
         /\ ckpt[wk[w].cap] \in Checkpoints /\ effects[wk[w].cap] \in Nat
         /\ ReceiptExact(wk[w].cap)
         /\ run.epoch \in Nat /\ run.stage \in Stages
<1>1. wk[w].cap \in Caps /\ wk[w].cap # NoCap /\ wk[w].request \in Requests BY HasCap
<1> QED BY <1>1 DEF Inv, TypeInv, TypeOK

(* The thread of a submission arrives at a label that relies on nothing.   *)
PlainLabels == {"write", "opaque", "commit", "transition", "record", "correct", "next",
                "revoke", "finish", "unrecorded"}

(* A thread that arrives at such a label relies only on its receipt and    *)
(* on the phase of its checkpoint.                                         *)
LEMMA Lands ==
  ASSUME Inv, NEW w \in Workers, wk[w].pc \in Owning, wk[w].pc \notin Serving,
         OnlyThread(w), wk'[w].pc \in PlainLabels \cup {"observe"},
         wk'[w].cap = wk[w].cap, wk'[w].request = wk[w].request,
         wk'[w].epoch = wk[w].epoch, run'.epoch \in Nat, run'.epoch >= run.epoch,
         caps'[wk[w].cap].issued,
         wk'[w].outcome.complete => /\ receipt'[wk[w].cap].status = "completed"
                                    /\ wk'[w].outcome.disposition = "applied",
         receipt'[wk[w].cap].status # "absent",
         wk'[w].pc = "observe" \/ ckpt'[wk[w].cap].phase \in {"running", "commit_ready"}
  PROVE  Bound(w)' /\ ThreadOK(w)' /\ \A c \in Caps : Owns(w, c)' => Owns(w, c)
<1>0. /\ wk[w].cap \in Caps /\ wk[w].cap # NoCap /\ wk[w].request \in Requests
      /\ ThreadOK(w) /\ run.epoch \in Nat /\ wk[w].epoch \in Nat
  BY OwnerFacts DEF Threads
<1>1. Bound(w)' BY <1>0 DEF Bound, PlainLabels
<1>2. ThreadOK(w)' BY <1>0 DEF ThreadOK, Completed, PlainLabels
<1>3. \A c \in Caps : Owns(w, c)' => Owns(w, c) BY DEF Owns
<1> QED BY <1>1, <1>2, <1>3

(* The journal row of the submission changes and its thread goes on.       *)
GoodRow(c, k) ==
  /\ k.phase \in {"running", "commit_ready"}
  /\ k.accepted <= k.expected /\ k.accepted = effects[c]
  /\ k.phase = "running" => k.marker.kind \in {"between", "opaque"} /\ ~k.atomic
  /\ k.phase = "commit_ready" => k.marker.kind \in {"between", "restartable"}

(* Such a change preserves the invariant.                                  *)
LEMMA JournalGoto ==
  ASSUME Inv, NEW w \in Workers, NEW c \in Caps, NEW k \in Checkpoints, NEW l \in PlainLabels,
         c = wk[w].cap, wk[w].pc \in Owning, wk[w].pc \notin Serving, Pending(c), Goto(w, l),
         ckpt' = [ckpt EXCEPT ![c] = k], GoodRow(c, k),
         UNCHANGED <<run, caps, receipt, file, lock, effects, moved>>
  PROVE  Inv'
<1> USE DEF GoodRow
<1>1. /\ wk \in [Workers -> Threads] /\ Bound(w) /\ ThreadOK(w) /\ c # NoCap
      /\ ckpt \in [Caps -> Checkpoints] /\ effects \in [Caps -> Nat] /\ effects[c] \in Nat
      /\ ReceiptExact(c) /\ run.epoch \in Nat /\ file \in [Files -> Content]
  BY OwnerFacts
<1>2. ckpt'[c] = k BY <1>1
<1>3. Journal(c)'
  BY <1>1, <1>2 DEF Journal, ReceiptExact
<1>4. OnlyThread(w) /\ Same(w) /\ wk'[w].pc = l /\ wk'[w].outcome = wk[w].outcome
  BY <1>1, GotoFacts DEF PlainLabels, Labels, Executing
<1>5. Bound(w)' /\ ThreadOK(w)' /\ \A d \in Caps : Owns(w, d)' => Owns(w, d)
  <2>1. /\ caps[c].issued
        /\ wk[w].outcome.complete => Completed(c) /\ wk[w].outcome.disposition = "applied"
    BY <1>1 DEF Bound, ThreadOK
  <2> QED BY <1>1, <1>2, <1>4, <2>1, Lands DEF Same, Pending, Completed
<1>6. effects' = [effects EXCEPT ![c] = effects[c]] BY <1>1
<1>7. LockKept(w) BY LockFacts
<1> QED BY <1>1, <1>3, <1>4, <1>5, <1>6, <1>7, JournalStep

(* activate_submission writes the expected count and an empty journal      *)
(* before any caller write took effect.                                    *)
LEMMA ActivateStep ==
  ASSUME Inv, NEW w \in Workers, Activate(w)
  PROVE  Inv'
<1>0. wk[w].pc = "activate" /\ wk[w].pc \in Owning /\ wk[w].pc \notin Serving
  BY DEF Activate, Owning, Serving
<1>c. PICK c \in Caps : c = wk[w].cap
  BY <1>0, HasCap
<1> DEFINE n == Len(wk[w].request.writes)
           k == [ckpt[c] EXCEPT !.phase = "running", !.expected = n,
                                !.marker = Plain("between")]
<1>1. /\ ckpt[c] \in Checkpoints /\ ckpt \in [Caps -> Checkpoints] /\ ReceiptExact(c)
  BY <1>0, <1>c, OwnerFacts
<1>2. Pending(c) /\ ckpt[c].phase = "prepared"
  BY <1>c DEF Activate
<1>3. n \in Nat
  BY <1>0, HasCap, RequestAssumption
<1>4. k \in Checkpoints /\ ckpt' = [ckpt EXCEPT ![c] = k]
  BY <1>c, <1>1, <1>3, Constants DEF Activate, Checkpoints
<1>5. /\ k.phase = "running" /\ k.accepted = 0 /\ ~k.atomic /\ effects[c] = 0
      /\ k.expected = n /\ k.marker.kind = "between"
  BY <1>1, <1>2 DEF Checkpoints, ReceiptExact, Journal, Plain
<1>6. Goto(w, "write") /\ UNCHANGED <<run, caps, receipt, file, lock, effects, moved>>
  BY DEF Activate
<1> HIDE DEF k, n
<1>7. GoodRow(c, k) BY <1>3, <1>5 DEF GoodRow
<1>8. "write" \in PlainLabels BY DEF PlainLabels
<1> QED BY <1>0, <1>c, <1>2, <1>4, <1>6, <1>7, <1>8, JournalGoto

(* begin_submission_write without evidence: no write took effect beyond    *)
(* the accepted ones.                                                      *)
LEMMA BeginOpaqueStep ==
  ASSUME Inv, NEW w \in Workers, BeginOpaque(w)
  PROVE  Inv'
<1>0. wk[w].pc = "write" /\ wk[w].pc \in Owning \ {"activate", "observe"} /\ wk[w].pc \notin Serving
  BY DEF BeginOpaque, Owning, Executing, Serving
<1>c. PICK c \in Caps : c = wk[w].cap /\ c # NoCap
  BY <1>0, HasCap
<1>1. ckpt[c] \in Checkpoints /\ ckpt \in [Caps -> Checkpoints] /\ ReceiptExact(c)
  BY <1>0, <1>c, OwnerFacts
<1>2. CASE ckpt' # ckpt
  <2> DEFINE k == [ckpt[c] EXCEPT !.marker = Plain("opaque")]
  <2>1. Pending(c) /\ ckpt[c].phase = "running" /\ ckpt[c].marker = Plain("between")
    BY <1>c, <1>2 DEF BeginOpaque, SlotFree, CheckTask
  <2>2. k \in Checkpoints
    BY <1>1, Constants DEF Checkpoints
  <2>3. ckpt' = [ckpt EXCEPT ![c] = k]
    BY <1>1, <1>2, <1>c DEF BeginOpaque
  <2>4. GoodRow(c, k)
    BY <1>1, <2>1 DEF Checkpoints, ReceiptExact, Journal, Plain, GoodRow
  <2>5. Goto(w, "opaque") /\ UNCHANGED <<run, caps, receipt, file, lock, effects, moved>>
    BY <1>2 DEF BeginOpaque
  <2>6. "opaque" \in PlainLabels BY DEF PlainLabels
  <2> HIDE DEF k
  <2> QED BY <1>0, <1>c, <2>1, <2>2, <2>3, <2>4, <2>5, <2>6, JournalGoto
<1>3. CASE ckpt' = ckpt
  <2>1. Quiet BY <1>3 DEF BeginOpaque, Quiet
  <2>2. \E l \in {"opaque", "correct"} : Goto(w, l)
    BY DEF BeginOpaque
  <2> QED BY <1>0, <1>c, <2>1, <2>2, QuietGoto DEF Labels, Executing, Owning
<1> QED BY <1>2, <1>3

(* arm_submission_commit: every expected write was accepted.               *)
LEMMA ArmStep ==
  ASSUME Inv, NEW w \in Workers, Arm(w)
  PROVE  Inv'
<1>0. wk[w].pc = "write" /\ wk[w].pc \in Owning \ {"activate", "observe"} /\ wk[w].pc \notin Serving
  BY DEF Arm, Owning, Executing, Serving
<1>c. PICK c \in Caps : c = wk[w].cap /\ c # NoCap
  BY <1>0, HasCap
<1>1. ckpt[c] \in Checkpoints /\ ckpt \in [Caps -> Checkpoints] /\ ReceiptExact(c)
  BY <1>0, <1>c, OwnerFacts
<1>2. CASE ckpt' # ckpt
  <2> DEFINE k == [ckpt[c] EXCEPT !.phase = "commit_ready"]
  <2>1. Pending(c) /\ ckpt[c].phase = "running" /\ ckpt[c].marker = Plain("between")
    BY <1>c, <1>2 DEF Arm, SlotFree, CheckTask
  <2>2. k \in Checkpoints
    BY <1>1, Constants DEF Checkpoints
  <2>3. ckpt' = [ckpt EXCEPT ![c] = k]
    BY <1>1, <1>2, <1>c DEF Arm
  <2>4. GoodRow(c, k)
    BY <1>1, <2>1 DEF Checkpoints, ReceiptExact, Journal, Plain, GoodRow
  <2>5. Goto(w, "commit") /\ UNCHANGED <<run, caps, receipt, file, lock, effects, moved>>
    BY <1>2 DEF Arm
  <2>6. "commit" \in PlainLabels BY DEF PlainLabels
  <2> HIDE DEF k
  <2> QED BY <1>0, <1>c, <2>1, <2>2, <2>3, <2>4, <2>5, <2>6, JournalGoto
<1>3. CASE ckpt' = ckpt
  <2>1. Quiet BY <1>3 DEF Arm, Quiet
  <2>2. \E l \in {"commit", "observe"} : Goto(w, l)
    BY DEF Arm
  <2> QED BY <1>0, <1>c, <2>1, <2>2, QuietGoto DEF Labels, Executing, Owning
<1> QED BY <1>2, <1>3

(* enroll_atomic_action changes the class of the action only.              *)
LEMMA EnrollAtomicStep ==
  ASSUME Inv, NEW w \in Workers, EnrollAtomic(w)
  PROVE  Inv'
<1>0. wk[w].pc = "commit" /\ wk[w].pc \in Owning \ {"activate", "observe"} /\ wk[w].pc \notin Serving
  BY DEF EnrollAtomic, Owning, Executing, Serving
<1>c. PICK c \in Caps : c = wk[w].cap /\ c # NoCap
  BY <1>0, HasCap
<1>1. ckpt[c] \in Checkpoints /\ ckpt \in [Caps -> Checkpoints] /\ ReceiptExact(c)
  BY <1>0, <1>c, OwnerFacts
<1>2. CASE ckpt' # ckpt
  <2> DEFINE k == [ckpt[c] EXCEPT !.atomic = TRUE]
  <2>1. Pending(c) /\ ckpt[c].phase = "commit_ready" /\ ckpt[c].marker = Plain("between")
    BY <1>c, <1>2 DEF EnrollAtomic, SlotFree, CheckTask
  <2>2. k \in Checkpoints
    BY <1>1, Constants DEF Checkpoints
  <2>3. ckpt' = [ckpt EXCEPT ![c] = k]
    BY <1>1, <1>2, <1>c DEF EnrollAtomic
  <2>4. GoodRow(c, k)
    BY <1>1, <2>1 DEF Checkpoints, ReceiptExact, Journal, Plain, GoodRow
  <2>5. Goto(w, "transition") /\ UNCHANGED <<run, caps, receipt, file, lock, effects, moved>>
    BY <1>2 DEF EnrollAtomic
  <2>6. "transition" \in PlainLabels BY DEF PlainLabels
  <2> HIDE DEF k
  <2> QED BY <1>0, <1>c, <2>1, <2>2, <2>3, <2>4, <2>5, <2>6, JournalGoto
<1>3. CASE ckpt' = ckpt
  <2>1. Quiet BY <1>3 DEF EnrollAtomic, Quiet
  <2>2. \E l \in {"transition", "correct"} : Goto(w, l)
    BY DEF EnrollAtomic
  <2> QED BY <1>0, <1>c, <2>1, <2>2, QuietGoto DEF Labels, Executing, Owning
<1> QED BY <1>2, <1>3

(* enroll_restartable_action changes the marker, not the count.            *)
LEMMA EnrollRestartableStep ==
  ASSUME Inv, NEW w \in Workers, EnrollRestartable(w)
  PROVE  Inv'
<1>0. wk[w].pc = "commit" /\ wk[w].pc \in Owning \ {"activate", "observe"} /\ wk[w].pc \notin Serving
  BY DEF EnrollRestartable, Owning, Executing, Serving
<1>c. PICK c \in Caps : c = wk[w].cap /\ c # NoCap
  BY <1>0, HasCap
<1>1. ckpt[c] \in Checkpoints /\ ckpt \in [Caps -> Checkpoints] /\ ReceiptExact(c)
  BY <1>0, <1>c, OwnerFacts
<1>2. CASE ckpt' # ckpt
  <2> DEFINE k == [ckpt[c] EXCEPT !.marker = Plain("restartable")]
  <2>1. Pending(c) /\ ckpt[c].phase = "commit_ready" /\ ckpt[c].marker = Plain("between")
    BY <1>c, <1>2 DEF EnrollRestartable, SlotFree, CheckTask
  <2>2. k \in Checkpoints
    BY <1>1, Constants DEF Checkpoints
  <2>3. ckpt' = [ckpt EXCEPT ![c] = k]
    BY <1>1, <1>2, <1>c DEF EnrollRestartable
  <2>4. GoodRow(c, k)
    BY <1>1, <2>1 DEF Checkpoints, ReceiptExact, Journal, Plain, GoodRow
  <2>5. Goto(w, "transition") /\ UNCHANGED <<run, caps, receipt, file, lock, effects, moved>>
    BY <1>2 DEF EnrollRestartable
  <2>6. "transition" \in PlainLabels BY DEF PlainLabels
  <2> HIDE DEF k
  <2> QED BY <1>0, <1>c, <2>1, <2>2, <2>3, <2>4, <2>5, <2>6, JournalGoto
<1>3. CASE ckpt' = ckpt
  <2>1. Quiet BY <1>3 DEF EnrollRestartable, Quiet
  <2>2. \E l \in {"transition", "correct"} : Goto(w, l)
    BY DEF EnrollRestartable
  <2> QED BY <1>0, <1>c, <2>1, <2>2, QuietGoto DEF Labels, Executing, Owning
<1> QED BY <1>2, <1>3

(* A database write takes effect and is acknowledged in one transaction,   *)
(* so the count stays exact.                                               *)
LEMMA DatabaseWriteStep ==
  ASSUME Inv, NEW w \in Workers, DatabaseWrite(w)
  PROVE  Inv'
<1>0. /\ wk[w].pc = "write" /\ wk[w].pc \in Owning \ {"activate", "observe"}
      /\ wk[w].pc \notin Serving
  BY DEF DatabaseWrite, Owning, Executing, Serving
<1>c. PICK c \in Caps : c = wk[w].cap /\ c # NoCap
  BY <1>0, HasCap
<1>1. /\ ckpt[c] \in Checkpoints /\ ckpt \in [Caps -> Checkpoints] /\ ReceiptExact(c)
      /\ effects \in [Caps -> Nat] /\ effects[c] \in Nat /\ file \in [Files -> Content]
      /\ wk \in [Workers -> Threads] /\ wk[w] \in Threads /\ Bound(w) /\ ThreadOK(w)
      /\ run.epoch \in Nat
  BY <1>0, <1>c, OwnerFacts
<1>2. CASE SlotFree(c, wk[w].done)
  <2> DEFINE k == [ckpt[c] EXCEPT !.accepted = wk[w].done + 1]
             n == effects[c] + 1
  <2>1. /\ Pending(c) /\ ckpt[c].phase = "running" /\ ckpt[c].marker = Plain("between")
        /\ ckpt[c].accepted = wk[w].done /\ ckpt[c].expected > wk[w].done
    BY <1>2 DEF SlotFree
  <2>2. wk[w].done \in Nat BY <1>1 DEF Threads
  <2>3. k \in Checkpoints /\ n \in Nat
    BY <1>1, <2>2 DEF Checkpoints
  <2>4. ckpt' = [ckpt EXCEPT ![c] = k] /\ effects' = [effects EXCEPT ![c] = n]
    BY <1>1, <1>2, <1>c DEF DatabaseWrite
  <2>5. /\ wk' = [wk EXCEPT ![w].done = @ + 1]
        /\ UNCHANGED <<run, caps, receipt, file, lock, moved>>
    BY <1>2, <1>c DEF DatabaseWrite
  <2>6. /\ OnlyThread(w) /\ wk'[w].pc = "write" /\ wk'[w].outcome = wk[w].outcome
        /\ wk'[w].cap = wk[w].cap /\ wk'[w].request = wk[w].request
        /\ wk'[w].epoch = wk[w].epoch
    BY <1>0, <1>1, <2>2, <2>5 DEF OnlyThread, Threads
  <2>7. k.phase = "running" /\ ckpt'[c] = k /\ effects'[c] = n
    BY <1>1, <2>1, <2>4 DEF Checkpoints
  <2>8. Journal(c)'
    BY <1>1, <2>1, <2>2, <2>5, <2>7 DEF Journal, ReceiptExact, Checkpoints, Plain
  <2>9. Bound(w)' /\ ThreadOK(w)' /\ \A d \in Caps : Owns(w, d)' => Owns(w, d)
    <3>1. /\ caps[c].issued
          /\ wk[w].outcome.complete => Completed(c) /\ wk[w].outcome.disposition = "applied"
      BY <1>1, <1>c DEF Bound, ThreadOK
    <3>2. /\ receipt'[wk[w].cap].status # "absent" /\ caps'[wk[w].cap].issued
          /\ wk'[w].outcome.complete => /\ receipt'[wk[w].cap].status = "completed"
                                        /\ wk'[w].outcome.disposition = "applied"
          /\ ckpt'[wk[w].cap].phase \in {"running", "commit_ready"}
          /\ run'.epoch \in Nat /\ run'.epoch >= run.epoch
      BY <1>1, <1>c, <2>1, <2>5, <2>6, <2>7, <3>1 DEF Pending, Completed
    <3>3. wk'[w].pc \in PlainLabels BY <2>6 DEF PlainLabels
    <3> HIDE DEF k, n
    <3> QED BY <1>0, <2>6, <3>2, <3>3, Lands
  <2>10. LockKept(w) BY <2>5, LockFacts
  <2> HIDE DEF k, n
  <2> QED BY <1>0, <1>1, <1>c, <2>1, <2>3, <2>4, <2>5, <2>6, <2>7, <2>8, <2>9, <2>10, JournalStep
<1>3. CASE ~SlotFree(c, wk[w].done)
  <2>1. Quiet /\ Goto(w, "correct") BY <1>3, <1>c DEF DatabaseWrite, Quiet
  <2> QED BY <1>0, <1>c, <2>1, QuietGoto DEF Labels, Executing, Owning
<1> QED BY <1>2, <1>3

(* lock_file_effect and prepare: the images are read under the flock that  *)
(* protects them.                                                          *)
LEMMA LockAndPrepareStep ==
  ASSUME Inv, NEW w \in Workers, LockAndPrepare(w)
  PROVE  Inv'
<1>0. /\ wk[w].pc = "write" /\ wk[w].pc \in Owning \ {"activate", "observe"}
      /\ wk[w].pc \notin Serving
  BY DEF LockAndPrepare, Owning, Executing, Serving
<1>c. PICK c \in Caps : c = wk[w].cap /\ c # NoCap
  BY <1>0, HasCap
<1>1. /\ file \in [Files -> Content] /\ wk \in [Workers -> Threads] /\ wk[w] \in Threads
      /\ Bound(w) /\ ThreadOK(w) /\ run.epoch \in Nat
      /\ lock \in [Files -> Workers \cup {NoWorker}]
  BY <1>0, <1>c, OwnerFacts DEF Inv, TypeInv, TypeOK
<1> DEFINE wr == Current(w)
           e == FileEvidence(wr.path, file[wr.path], After(wr, file[wr.path]))
<1>2. wr \in FileWrites
  <2>1. wk[w].request.writes \in Seq(Writes) /\ wk[w].done \in Nat
    BY <1>0, <1>1, HasCap, RequestAssumption DEF Threads
  <2>2. wr \in Writes /\ wr.kind = "file"
    BY <2>1 DEF LockAndPrepare, MoreWrites, Current
  <2> QED BY <2>2 DEF Writes, FileWrites, OtherWrites
<1>3. wr.path \in Files /\ wr.append \in BOOLEAN /\ wr.bytes \in Bytes
  BY <1>2 DEF FileWrites
<1>4. e \in FileMarkers /\ e.path = wr.path /\ e.before = file[wr.path] /\ e.kind = "file"
  BY <1>1, <1>3 DEF FileEvidence, FileMarkers, After, Content
<1>5. /\ lock[wr.path] = NoWorker /\ lock' = [lock EXCEPT ![wr.path] = w]
      /\ wk' = [wk EXCEPT ![w].pc = "begin", ![w].evidence = e]
      /\ UNCHANGED <<run, caps, receipt, ckpt, file, effects, moved>>
  BY DEF LockAndPrepare
<1>6. LockKept(w) /\ lock'[wr.path] = w
  BY <1>1, <1>3, <1>5, LockFacts
<1> HIDE DEF e, wr
<1>7. /\ OnlyThread(w) /\ wk'[w].pc = "begin" /\ wk'[w].outcome = wk[w].outcome
      /\ wk'[w].cap = c /\ wk'[w].request = wk[w].request
      /\ wk'[w].epoch = wk[w].epoch /\ wk'[w].evidence = e
  BY <1>1, <1>c, <1>4, <1>5 DEF OnlyThread, Threads, Markers, Labels, Executing
<1>8. Bound(w)'
  BY <1>1, <1>c, <1>4, <1>5, <1>7 DEF Bound
<1>9. ThreadOK(w)'
  BY <1>0, <1>1, <1>c, <1>4, <1>5, <1>6, <1>7 DEF ThreadOK, Completed
<1>10. \A d \in Caps : Owns(w, d)' => Owns(w, d)
  BY <1>0, <1>7, <1>c DEF Owns
<1> QED BY <1>5, <1>6, <1>7, <1>8, <1>9, <1>10, LockStep

(* A thread gives up its guard and goes on to report.                      *)
LEMMA DropStep ==
  ASSUME Inv, NEW w \in Workers, NEW l \in {"correct", "observe"},
         wk[w].pc \in Owning \ {"activate", "observe"}, wk[w].cap # NoCap,
         DropGuard(w, l), lock' = Unlocked(w),
         UNCHANGED <<run, caps, receipt, ckpt, file, effects, moved>>
  PROVE  Inv'
<1>1. wk \in [Workers -> Threads] /\ Bound(w) /\ ThreadOK(w) /\ run.epoch \in Nat
  BY DEF Inv, TypeInv, TypeOK
<1>c. PICK c \in Caps : c = wk[w].cap /\ c # NoCap
  BY <1>1 DEF Threads
<1>2. OnlyThread(w) /\ Same(w) /\ wk'[w].pc = l /\ wk'[w].outcome = wk[w].outcome
  BY <1>1, DropFacts DEF Labels, Executing
<1>3. Bound(w)' BY <1>1, <1>c, <1>2 DEF Bound, Same
<1>4. ThreadOK(w)'
  BY <1>1, <1>c, <1>2 DEF ThreadOK, Completed, Same, Owning, Executing
<1>5. \A d \in Caps : Owns(w, d)' => Owns(w, d)
  BY <1>2, <1>c DEF Owns, Same
<1> QED BY <1>2, <1>3, <1>4, <1>5, LockFacts, LockStep

(* begin_submission_write with evidence: the file still holds the before   *)
(* image, because the thread has held the flock since it read it.          *)
LEMMA BeginFileStep ==
  ASSUME Inv, NEW w \in Workers, BeginFile(w)
  PROVE  Inv'
<1>0. /\ wk[w].pc = "begin" /\ wk[w].pc \in Owning \ {"activate", "observe"}
      /\ wk[w].pc \notin Serving
  BY DEF BeginFile, Owning, Executing, Serving
<1>c. PICK c \in Caps : c = wk[w].cap /\ c # NoCap
  BY <1>0, HasCap
<1>1. /\ ckpt[c] \in Checkpoints /\ ckpt \in [Caps -> Checkpoints] /\ ReceiptExact(c)
      /\ effects \in [Caps -> Nat] /\ effects[c] \in Nat /\ file \in [Files -> Content]
      /\ wk \in [Workers -> Threads] /\ wk[w] \in Threads /\ Bound(w) /\ ThreadOK(w)
      /\ run.epoch \in Nat
  BY <1>0, <1>c, OwnerFacts
<1>2. CASE Live(c) /\ SlotFree(c, wk[w].done)
  <2>e. PICK e \in FileMarkers : e = wk[w].evidence
    BY <1>0, <1>1 DEF Bound, Threads, Markers, PlainMarkers, FileMarkers
  <2> DEFINE k == [ckpt[c] EXCEPT !.marker = e]
  <2>1. /\ Pending(c) /\ ckpt[c].phase = "running" /\ ckpt[c].marker = Plain("between")
        /\ ckpt[c].accepted = wk[w].done /\ ckpt[c].expected > wk[w].done
        /\ run.stage = "task" /\ caps[c].epoch = run.epoch
    BY <1>2 DEF SlotFree, Live
  <2>2. e.kind = "file" /\ e.path \in Files /\ lock[e.path] = w /\ file[e.path] = e.before
    BY <1>0, <1>1, <2>e DEF FileMarkers, ThreadOK
  <2>3. k \in Checkpoints
    BY <1>1 DEF Checkpoints, Markers
  <2>4. /\ ckpt' = [ckpt EXCEPT ![c] = k]
        /\ Goto(w, "publish") /\ UNCHANGED <<run, caps, receipt, file, lock, effects, moved>>
    BY <1>1, <1>2, <1>c, <2>e DEF BeginFile
  <2>5. /\ k.phase = "running" /\ k.marker = e /\ k.accepted = wk[w].done
        /\ k.expected > wk[w].done /\ ~k.atomic /\ effects[c] = wk[w].done /\ moved[c] = 0
        /\ k.expected \in Nat
    BY <1>1, <2>1 DEF Checkpoints, ReceiptExact, Journal, Plain
  <2>6. ckpt'[c] = k BY <1>1, <2>4
  <2>7. /\ OnlyThread(w) /\ Same(w) /\ wk'[w].pc = "publish" /\ wk'[w].outcome = wk[w].outcome
        /\ wk'[w].evidence = e /\ wk'[w].done = wk[w].done /\ wk[w].done \in Nat
    BY <1>1, <2>4, <2>e, GotoFacts DEF Labels, Executing, Threads
  <2> HIDE DEF k
  <2>8. Journal(c)'
    BY <1>1, <2>2, <2>4, <2>5, <2>6, <2>7 DEF Journal
  <2>9. Bound(w)'
    BY <1>1, <1>c, <2>2, <2>4, <2>7 DEF Bound, Same
  <2>10. ThreadOK(w)'
    BY <1>1, <1>c, <2>1, <2>2, <2>4, <2>5, <2>6, <2>7 DEF ThreadOK, Same, Pending, Completed
  <2>11. \A d \in Caps : Owns(w, d)' => Owns(w, d)
    BY <1>0, <2>7 DEF Owns, Same
  <2>12. effects' = [effects EXCEPT ![c] = effects[c]] /\ LockKept(w)
    BY <1>1, <2>4, LockFacts
  <2>13. k.phase \in {"running", "commit_ready"} BY <2>5
  <2>14. file' \in [Files -> Content] /\ \A f \in Files : file'[f] # file[f] => lock[f] = w
    BY <1>1, <2>4
  <2> QED BY <1>0, <1>1, <1>c, <2>1, <2>3, <2>4, <2>7, <2>8, <2>9, <2>10, <2>11, <2>12,
             <2>13, <2>14, JournalStep
<1>3. CASE ~(Live(c) /\ SlotFree(c, wk[w].done))
  <2>1. /\ DropGuard(w, "correct") /\ lock' = Unlocked(w)
        /\ UNCHANGED <<run, caps, receipt, ckpt, file, effects, moved>>
    BY <1>3, <1>c DEF BeginFile
  <2> QED BY <1>0, <1>c, <2>1, DropStep
<1> QED BY <1>2, <1>3

(* publish: the write takes effect, the file holds the after image and     *)
(* the marker still leaves exactly this write open.                        *)
LEMMA PublishStep ==
  ASSUME Inv, NEW w \in Workers, Publish(w)
  PROVE  Inv'
<1>0. /\ wk[w].pc = "publish" /\ wk[w].pc \in Owning \ {"activate", "observe"}
      /\ wk[w].pc \notin Serving
  BY DEF Publish, Owning, Executing, Serving
<1>c. PICK c \in Caps : c = wk[w].cap /\ c # NoCap
  BY <1>0, HasCap
<1>1. /\ ckpt[c] \in Checkpoints /\ ckpt \in [Caps -> Checkpoints] /\ ReceiptExact(c)
      /\ effects \in [Caps -> Nat] /\ effects[c] \in Nat /\ file \in [Files -> Content]
      /\ wk \in [Workers -> Threads] /\ wk[w] \in Threads /\ Bound(w) /\ ThreadOK(w)
      /\ run.epoch \in Nat
  BY <1>0, <1>c, OwnerFacts
<1>e. PICK e \in FileMarkers : e = wk[w].evidence
  BY <1>0, <1>1 DEF Bound, Threads, Markers, PlainMarkers, FileMarkers
<1>2. /\ e.kind = "file" /\ e.path \in Files /\ e.after \in Content
      /\ lock[e.path] = w /\ file[e.path] = e.before
      /\ Pending(c) /\ ckpt[c].phase = "running" /\ ckpt[c].marker = e
      /\ ckpt[c].accepted = wk[w].done /\ effects[c] = wk[w].done
      /\ run.stage = "terminal" \/ (run.stage = "task" /\ caps[c].epoch = run.epoch)
  BY <1>0, <1>1, <1>c, <1>e DEF ThreadOK, FileMarkers
<1>3. /\ file' = [file EXCEPT ![e.path] = e.after]
      /\ effects' = [effects EXCEPT ![c] = effects[c] + 1]
      /\ UNCHANGED <<run, caps, receipt, ckpt, moved>>
      /\ \/ Goto(w, "checkpoint") /\ UNCHANGED lock
         \/ DropGuard(w, "observe") /\ lock' = Unlocked(w)
  BY <1>1, <1>2, <1>c, <1>e DEF Publish
<1>4. /\ file' \in [Files -> Content] /\ file'[e.path] = e.after
      /\ \A f \in Files : file'[f] # file[f] => lock[f] = w
      /\ effects'[c] = effects[c] + 1 /\ effects[c] + 1 \in Nat
      /\ ckpt' = [ckpt EXCEPT ![c] = ckpt[c]]
  BY <1>1, <1>2, <1>3
<1>5. Journal(c)'
  BY <1>1, <1>2, <1>3, <1>4 DEF Journal, ReceiptExact, Pending, Checkpoints
<1>6. LockKept(w) BY <1>3, LockFacts
<1>7. /\ OnlyThread(w) /\ Bound(w)' /\ ThreadOK(w)'
      /\ \A d \in Caps : Owns(w, d)' => Owns(w, d)
  <2>1. CASE Goto(w, "checkpoint") /\ UNCHANGED lock
    <3>1. /\ OnlyThread(w) /\ Same(w) /\ wk'[w].pc = "checkpoint"
          /\ wk'[w].outcome = wk[w].outcome /\ wk'[w].evidence = e
          /\ wk'[w].done = wk[w].done
      BY <1>1, <1>e, <2>1, GotoFacts DEF Labels, Executing
    <3>2. Bound(w)' BY <1>1, <1>c, <1>2, <1>3, <3>1 DEF Bound, Same
    <3>3. ThreadOK(w)'
      BY <1>1, <1>c, <1>2, <1>3, <1>4, <2>1, <3>1 DEF ThreadOK, Same, Pending, Completed
    <3> QED BY <1>0, <3>1, <3>2, <3>3 DEF Owns, Same
  <2>2. CASE DropGuard(w, "observe") /\ lock' = Unlocked(w)
    <3>1. OnlyThread(w) /\ Same(w) /\ wk'[w].pc = "observe" /\ wk'[w].outcome = wk[w].outcome
      BY <1>1, <2>2, DropFacts DEF Labels
    <3>2. Bound(w)' BY <1>1, <1>c, <1>3, <3>1 DEF Bound, Same
    <3>3. ThreadOK(w)'
      BY <1>1, <1>c, <1>2, <1>3, <3>1 DEF ThreadOK, Same, Pending, Completed
    <3> QED BY <1>0, <3>1, <3>2, <3>3 DEF Owns, Same
  <2> QED BY <1>3, <2>1, <2>2
<1>8. ckpt[c].phase \in {"running", "commit_ready"} BY <1>2
<1> QED BY <1>0, <1>1, <1>c, <1>2, <1>3, <1>4, <1>5, <1>6, <1>7, <1>8, JournalStep

(* checkpoint_submission_write: the marker is cleared when the file holds  *)
(* the after image, so the accepted count is the number of effects.        *)
LEMMA CheckpointStep ==
  ASSUME Inv, NEW w \in Workers, Checkpoint(w)
  PROVE  Inv'
<1>0. /\ wk[w].pc = "checkpoint" /\ wk[w].pc \in Owning \ {"activate", "observe"}
      /\ wk[w].pc \notin Serving
  BY DEF Checkpoint, Owning, Executing, Serving
<1>c. PICK c \in Caps : c = wk[w].cap /\ c # NoCap
  BY <1>0, HasCap
<1>1. /\ ckpt[c] \in Checkpoints /\ ckpt \in [Caps -> Checkpoints] /\ ReceiptExact(c)
      /\ effects \in [Caps -> Nat] /\ effects[c] \in Nat /\ file \in [Files -> Content]
      /\ wk \in [Workers -> Threads] /\ wk[w] \in Threads /\ Bound(w) /\ ThreadOK(w)
      /\ run.epoch \in Nat /\ wk[w].done \in Nat
  BY <1>0, <1>c, OwnerFacts DEF Threads
<1> DEFINE k == [ckpt[c] EXCEPT !.accepted = wk[w].done + 1, !.marker = Plain("between")]
<1>2. /\ ckpt[c].marker = wk[w].evidence /\ wk[w].evidence.kind = "file"
      /\ Pending(c) /\ ckpt[c].phase = "running"
      /\ ckpt[c].accepted = wk[w].done /\ effects[c] = wk[w].done + 1
  BY <1>0, <1>1, <1>c DEF ThreadOK, Bound
<1>3. /\ ckpt[c].expected > wk[w].done /\ moved[c] = 0 /\ ~ckpt[c].atomic
      /\ ckpt[c].expected \in Nat /\ ckpt[c].marker # Plain("between")
  BY <1>1, <1>2 DEF ReceiptExact, Journal, Checkpoints, Plain
<1>4. /\ ckpt' = [ckpt EXCEPT ![c] = k]
      /\ wk' = [wk EXCEPT ![w].pc = "write", ![w].done = @ + 1, ![w].evidence = Plain("absent")]
      /\ lock' = Unlocked(w) /\ UNCHANGED <<run, caps, receipt, file, effects, moved>>
  BY <1>1, <1>2, <1>3, <1>c DEF Checkpoint
<1>5. /\ k \in Checkpoints /\ k.phase = "running" /\ k.accepted = wk[w].done + 1
      /\ k.expected = ckpt[c].expected /\ k.marker.kind = "between" /\ ~k.atomic
  BY <1>1, <1>2, <1>3, Constants DEF Checkpoints, Plain
<1> HIDE DEF k
<1>6. ckpt'[c] = k /\ effects' = [effects EXCEPT ![c] = effects[c]] /\ LockKept(w)
  BY <1>1, <1>4, LockFacts
<1>7. Journal(c)'
  BY <1>1, <1>2, <1>3, <1>4, <1>5, <1>6 DEF Journal
<1>8. /\ OnlyThread(w) /\ wk'[w].pc = "write" /\ wk'[w].outcome = wk[w].outcome
      /\ wk'[w].cap = wk[w].cap /\ wk'[w].request = wk[w].request
      /\ wk'[w].epoch = wk[w].epoch
  BY <1>1, <1>4, Constants DEF OnlyThread, Threads, Labels, Executing
<1>9. Bound(w)' BY <1>1, <1>c, <1>4, <1>8 DEF Bound
<1>10. ThreadOK(w)'
  BY <1>1, <1>c, <1>2, <1>4, <1>5, <1>6, <1>8 DEF ThreadOK, Pending, Completed
<1>11. \A d \in Caps : Owns(w, d)' => Owns(w, d) BY <1>0, <1>8 DEF Owns
<1>12. file' \in [Files -> Content] /\ \A f \in Files : file'[f] # file[f] => lock[f] = w
  BY <1>1, <1>4
<1>13. k.phase \in {"running", "commit_ready"} BY <1>5
<1> QED BY <1>0, <1>1, <1>c, <1>2, <1>4, <1>5, <1>6, <1>7, <1>8, <1>9, <1>10, <1>11, <1>12,
           <1>13, JournalStep

(* Recording an outcome.  A pending submission has left `prepared', so the *)
(* journal vouches for the count; a complete outcome is already recorded.  *)
LEMMA CorrectStep ==
  ASSUME Inv, NEW w \in Workers, Correct(w)
  PROVE  Inv'
<1>0. /\ wk[w].pc = "correct" /\ wk[w].pc \in Owning \ {"activate", "observe"}
      /\ wk[w].pc \notin Serving
  BY DEF Correct, Owning, Executing, Serving
<1>1. /\ wk \in [Workers -> Threads] /\ wk[w] \in Threads /\ Bound(w) /\ ThreadOK(w)
      /\ run.stage \in Stages /\ wk[w].done \in Nat /\ wk[w].cap # NoCap
  BY <1>0, OwnerFacts DEF Threads
<1>2. PICK res \in Results : /\ res = Correction(run.stage, wk[w].done, "rejected")
                             /\ ~res.complete
  <2>1. PICK st \in Stages, n \in Nat : st = run.stage /\ n = wk[w].done BY <1>1
  <2>2. /\ Correction(st, n, "rejected") \in Results
        /\ ~Correction(st, n, "rejected").complete
    BY DEF Correction, Results
  <2> QED BY <2>1, <2>2
<1>3. wk' = [wk EXCEPT ![w].pc = "record", ![w].outcome = res] /\ Quiet
  BY <1>2 DEF Correct, Quiet
<1>4. /\ OnlyThread(w) /\ Same(w) /\ wk'[w].pc = "record" /\ wk'[w].outcome = res
  BY <1>1, <1>3 DEF OnlyThread, Same, Threads, Labels, Executing
<1>5. Bound(w)' BY <1>1, <1>3, <1>4 DEF Bound, Same, Quiet
<1>6. ThreadOK(w)' BY <1>0, <1>1, <1>2, <1>3, <1>4 DEF ThreadOK, Same, Quiet
<1> QED BY <1>0, <1>3, <1>4, <1>5, <1>6, QuietStep DEF Owns, Same

(* record_submission_outcome: what is recorded counts every write.         *)
LEMMA RecordStep ==
  ASSUME Inv, NEW w \in Workers, Record(w)
  PROVE  Inv'
<1>0. /\ wk[w].pc = "record" /\ wk[w].pc \in Owning \ {"activate", "observe"}
      /\ wk[w].pc \notin Serving
  BY DEF Record, Owning, Executing, Serving
<1>c. PICK c \in Caps : c = wk[w].cap /\ c # NoCap
  BY <1>0, HasCap
<1>1. /\ wk \in [Workers -> Threads] /\ wk[w] \in Threads /\ Bound(w) /\ ThreadOK(w)
      /\ ReceiptExact(c) /\ run.epoch \in Nat /\ ckpt[c] \in Checkpoints
      /\ ckpt[c].phase \in {"running", "commit_ready"} /\ receipt[c].status # "absent"
      /\ caps[c].issued /\ receipt \in [Caps -> Receipts]
  BY <1>0, <1>c, OwnerFacts DEF ThreadOK, Bound
<1>r. PICK res \in Results : res = wk[w].outcome BY <1>1 DEF Threads
<1>2. CASE ~Recordable(c, res)
  <2>1. Quiet /\ Goto(w, "observe") BY <1>2, <1>c, <1>r DEF Record, Quiet
  <2> QED BY <1>0, <1>c, <2>1, QuietGoto DEF Labels, Executing, Owning
<1>3. CASE Recordable(c, res)
  <2>1. /\ receipt' = Recorded(c, res) /\ Goto(w, "next")
        /\ UNCHANGED <<run, caps, ckpt, file, lock, effects, moved>>
    BY <1>3, <1>c, <1>r DEF Record
  <2>2. CASE Completed(c)
    <3>1. Quiet BY <2>1, <2>2 DEF Recorded, Quiet
    <3> QED BY <1>0, <1>c, <2>1, <3>1, QuietGoto DEF Labels, Executing, Owning
  <2>3. CASE ~Completed(c)
    <3>1. Pending(c) /\ receipt' = Finished(c, res)
      BY <1>3, <2>1, <2>3 DEF Recordable, Recorded
    <3>2. ckpt[c].marker.kind # "absent" /\ ~res.complete
      BY <1>1, <1>c, <1>r, <2>3, <3>1 DEF ReceiptExact, Journal, ThreadOK
    <3>3. res.writes = effects[c]
      BY <1>1, <1>3, <2>3, <3>1, <3>2 DEF Recordable, ReceiptExact, Journal, Plain
    <3>4. \A v \in Workers : v # w /\ wk[v].pc \in {"publish", "checkpoint"} => wk[v].cap # c
      BY <1>0, <1>c DEF Inv, OneOwner, Owns, Owning, Executing
    <3>5. receipt'[c].status = "completed"
      BY <1>1, <3>1 DEF Finished, Receipts
    <3>6. OnlyThread(w) /\ Same(w) /\ wk'[w].pc = "next" /\ wk'[w].outcome = wk[w].outcome
      BY <1>1, <2>1, GotoFacts DEF Labels, Executing
    <3>7. Bound(w)' /\ ThreadOK(w)' /\ \A d \in Caps : Owns(w, d)' => Owns(w, d)
      <4>1. "next" \in PlainLabels BY DEF PlainLabels
      <4> QED BY <1>0, <1>1, <1>c, <1>r, <2>1, <3>2, <3>5, <3>6, <4>1, Lands DEF Same
    <3>8. LockKept(w) BY <2>1, LockFacts
    <3> QED BY <2>1, <3>1, <3>2, <3>3, <3>4, <3>6, <3>7, <3>8, SettleStep
  <2> QED BY <2>2, <2>3
<1> QED BY <1>2, <1>3

(* finish_receipted_submission records what the thread decided, or finds   *)
(* it recorded.                                                            *)
LEMMA FinishStep ==
  ASSUME Inv, NEW w \in Workers, Finish(w)
  PROVE  Inv'
<1>0. /\ wk[w].pc = "finish" /\ wk[w].pc \in Owning \ {"activate", "observe"}
      /\ wk[w].pc \notin Serving
  BY DEF Finish, Owning, Serving
<1>c. PICK c \in Caps : c = wk[w].cap /\ c # NoCap
  BY <1>0, HasCap
<1>1. /\ wk \in [Workers -> Threads] /\ wk[w] \in Threads /\ Bound(w) /\ ThreadOK(w)
      /\ ReceiptExact(c) /\ run.epoch \in Nat
      /\ ckpt[c].phase \in {"running", "commit_ready"} /\ receipt[c].status # "absent"
  BY <1>0, <1>c, OwnerFacts DEF ThreadOK
<1> DEFINE res == [wk[w].outcome EXCEPT !.stage = wk[w].stage]
<1>2. /\ res \in Results /\ res.complete = wk[w].outcome.complete
      /\ res.disposition = wk[w].outcome.disposition
  BY <1>1 DEF Threads, Results
<1>3. CASE ~Recordable(c, res)
  <2>1. Quiet /\ Goto(w, "unrecorded") BY <1>3, <1>c DEF Finish, Quiet
  <2> QED BY <1>0, <1>c, <2>1, QuietGoto DEF Labels, Executing, Owning
<1>4. CASE Recordable(c, res)
  <2>1. /\ receipt' = Recorded(c, res) /\ Return(w)
        /\ UNCHANGED <<run, caps, ckpt, file, lock, effects, moved>>
    BY <1>4, <1>c DEF Finish
  <2> HIDE DEF res
  <2>2. CASE Completed(c)
    BY <2>1, <2>2, QuietReturn DEF Recorded, Quiet
  <2>3. CASE ~Completed(c)
    <3>1. Pending(c) /\ receipt' = Finished(c, res) /\ ~res.complete
      BY <1>1, <1>2, <1>4, <1>c, <2>1, <2>3 DEF Recordable, Recorded, ThreadOK
    <3>2. ckpt[c].marker.kind # "absent"
      BY <1>1, <3>1 DEF ReceiptExact, Journal
    <3>3. res.writes = effects[c]
      BY <1>1, <1>4, <2>3, <3>1, <3>2 DEF Recordable, ReceiptExact, Journal, Plain
    <3>4. \A v \in Workers : v # w /\ wk[v].pc \in {"publish", "checkpoint"} => wk[v].cap # c
      BY <1>0, <1>c DEF Inv, OneOwner, Owns, Owning, Executing
    <3>5. OnlyThread(w) /\ wk'[w] = Idle /\ run'.epoch \in Nat
      BY <1>1, <2>1, ReturnFacts
    <3>6. Bound(w)' /\ ThreadOK(w)' /\ \A d \in Caps : Owns(w, d)' => Owns(w, d)
      BY <3>5, IdleOK
    <3>7. LockKept(w) BY <2>1, LockFacts
    <3> QED BY <1>2, <2>1, <3>1, <3>3, <3>4, <3>5, <3>6, <3>7, SettleStep
  <2> QED BY <2>2, <2>3
<1> QED BY <1>3, <1>4

(* What evidence supports: a correction with the count the journal and,    *)
(* for an outstanding file write, the observed image imply.                *)
LEMMA EvidencedFacts ==
  ASSUME NEW k \in Checkpoints, NEW o, NEW res \in Evidenced(k, o)
  PROVE  /\ res \in Results /\ ~res.complete
         /\ \/ k.phase = "prepared" /\ res.writes = 0
            \/ k.phase # "prepared" /\ k.marker.kind # "file" /\ res.writes = k.accepted
            \/ /\ k.marker.kind = "file" /\ k.marker.before # k.marker.after
               /\ \/ o = k.marker.after /\ res.writes = k.accepted + 1
                  \/ o = k.marker.before /\ res.writes = k.accepted
<1>1. \E n \in Nat, why \in {"not_started", "interrupted"} :
        /\ res = Correction("task", n, why)
        /\ \/ k.phase = "prepared" /\ n = 0
           \/ k.phase # "prepared" /\ k.marker.kind # "file" /\ n = k.accepted
           \/ /\ k.marker.kind = "file" /\ k.marker.before # k.marker.after
              /\ \/ o = k.marker.after /\ n = k.accepted + 1
                 \/ o = k.marker.before /\ n = k.accepted
  BY DEF Evidenced, ConfirmedWrites, Checkpoints
<1> QED BY <1>1 DEF Correction, Results, Stages

(* recover_submission observes the file under its flock and keeps it.      *)
LEMMA InspectStep ==
  ASSUME Inv, NEW w \in Workers, Inspect(w)
  PROVE  Inv'
<1>0. wk[w].pc = "inspect" /\ wk[w].pc \notin Serving BY DEF Inspect, Serving
<1>1. /\ wk \in [Workers -> Threads] /\ wk[w] \in Threads /\ Bound(w) /\ ThreadOK(w)
      /\ wk[w].cap # NoCap /\ run.epoch \in Nat /\ file \in [Files -> Content]
  BY <1>0, OwnerFacts
<1>p. PICK p \in Files : p = wk[w].snap.marker.path
  BY <1>0, <1>1 DEF Bound, Threads, Checkpoints, Markers, PlainMarkers, FileMarkers
<1>2. CASE lock[p] = NoWorker
  <2>1. /\ lock' = [lock EXCEPT ![p] = w]
        /\ wk' = [wk EXCEPT ![w].pc = "reconcile", ![w].observed = file[p]]
        /\ UNCHANGED <<run, caps, receipt, ckpt, file, effects, moved>>
    BY <1>2, <1>p DEF Inspect
  <2>2. LockKept(w) /\ lock'[p] = w
    BY <1>2, <2>1, LockFacts DEF Inv, TypeInv, TypeOK
  <2>3. /\ OnlyThread(w) /\ wk'[w].pc = "reconcile" /\ wk'[w].observed = file[p]
        /\ wk'[w].cap = wk[w].cap /\ wk'[w].request = wk[w].request
        /\ wk'[w].snap = wk[w].snap /\ wk'[w].outcome = wk[w].outcome
        /\ wk'[w].epoch = wk[w].epoch
    BY <1>1, <2>1 DEF OnlyThread, Threads, Labels
  <2>4. Bound(w)' BY <1>1, <2>1, <2>3 DEF Bound
  <2>5. ThreadOK(w)'
    BY <1>1, <1>p, <2>1, <2>2, <2>3 DEF ThreadOK, Completed, Owning, Executing
  <2>6. \A d \in Caps : Owns(w, d)' => Owns(w, d) BY <2>3 DEF Owns, Owning, Executing
  <2> QED BY <2>1, <2>2, <2>3, <2>4, <2>5, <2>6, LockStep
<1>3. CASE lock[p] # NoWorker
  BY <1>3, <1>p, QuietReturn DEF Inspect, Quiet
<1> QED BY <1>2, <1>3

(* reconcile_caller_writes: the snapshot is current and the file was       *)
(* observed under the flock, so the evidence proves the count it records.  *)
LEMMA ReconcileStep ==
  ASSUME Inv, NEW w \in Workers, Reconcile(w)
  PROVE  Inv'
<1>0. wk[w].pc = "reconcile" /\ wk[w].pc \notin Serving BY DEF Reconcile, Serving
<1>c. PICK c \in Caps : c = wk[w].cap /\ c # NoCap
  BY <1>0, HasCap
<1>1. /\ wk \in [Workers -> Threads] /\ wk[w] \in Threads /\ Bound(w) /\ ThreadOK(w)
      /\ ReceiptExact(c) /\ run.epoch \in Nat /\ ckpt[c] \in Checkpoints
      /\ effects[c] \in Nat
  BY <1>0, <1>c, OwnerFacts
<1>2. /\ lock' = Unlocked(w) /\ Return(w)
      /\ UNCHANGED <<run, caps, ckpt, file, effects, moved>>
  BY DEF Reconcile
<1>3. LockKept(w) /\ OnlyThread(w) /\ wk'[w] = Idle /\ run'.epoch \in Nat
  BY <1>1, <1>2, LockFacts, ReturnFacts
<1>4. Bound(w)' /\ ThreadOK(w)' /\ \A d \in Caps : Owns(w, d)' => Owns(w, d)
  BY <1>3, IdleOK
<1>5. CASE UNCHANGED receipt
  BY <1>2, <1>3, <1>4, <1>5, LockStep
<1>6. ASSUME NEW res \in Evidenced(ckpt[c], wk[w].observed), Pending(c),
             ckpt[c] = wk[w].snap, receipt' = Finished(c, res)
      PROVE  Inv'
  <2>1. Journal(c) BY <1>1, <1>6 DEF ReceiptExact
  <2>2. /\ res \in Results /\ ~res.complete
        /\ \/ ckpt[c].phase = "prepared" /\ res.writes = 0
           \/ /\ ckpt[c].phase # "prepared" /\ ckpt[c].marker.kind # "file"
              /\ res.writes = ckpt[c].accepted
           \/ /\ ckpt[c].marker.kind = "file" /\ ckpt[c].marker.before # ckpt[c].marker.after
              /\ \/ /\ wk[w].observed = ckpt[c].marker.after
                    /\ res.writes = ckpt[c].accepted + 1
                 \/ /\ wk[w].observed = ckpt[c].marker.before
                    /\ res.writes = ckpt[c].accepted
    BY <1>1, <1>6, EvidencedFacts
  <2>3. ckpt[c].marker.kind = "file" =>
          lock[ckpt[c].marker.path] = w /\ wk[w].observed = file[ckpt[c].marker.path]
    BY <1>0, <1>1, <1>6 DEF ThreadOK
  <2>4. res.writes = effects[c]
    BY <1>1, <2>1, <2>2, <2>3 DEF Journal, Checkpoints
  <2>5. ASSUME NEW v \in Workers, v # w, wk[v].pc \in {"publish", "checkpoint"}
        PROVE  wk[v].cap # c
    <3>1. ThreadOK(v) /\ Bound(v) BY DEF Inv, TypeInv
    <3> QED BY <2>3, <2>5, <3>1 DEF ThreadOK, Bound
  <2> QED BY <1>2, <1>3, <1>4, <1>6, <2>2, <2>4, <2>5, SettleStep
<1> QED BY <1>c, <1>5, <1>6 DEF Reconcile

(* A step on the run or the capabilities.                                  *)
LEMMA RunStep ==
  ASSUME Inv, NEW w \in Workers, OnlyThread(w),
         run' \in RunRecords,
         caps' \in [Caps -> CapRecords],
         run'.epoch >= run.epoch,
         \A c \in Caps : /\ caps[c].issued => caps'[c].issued /\ caps'[c].epoch = caps[c].epoch
                         /\ caps'[c].epoch <= run'.epoch,
         run'.stage = "terminal" \/ (run'.epoch = run.epoch /\ run'.stage = run.stage)
            \/ run.stage = "mechanical",
         UNCHANGED <<receipt, ckpt, file, lock, effects, moved>>,
         Bound(w)', ThreadOK(w)', \A c \in Caps : Owns(w, c)' => Owns(w, c)
  PROVE  Inv'
<1>0. /\ run \in RunRecords
      /\ run.epoch \in Nat /\ run'.epoch \in Nat
  BY DEF Inv, TypeInv, TypeOK
<1>1. TypeOK' BY DEF Inv, TypeInv, TypeOK, OnlyThread
<1>2. ASSUME NEW v \in Workers, wk[v].pc \in {"publish", "checkpoint"}
      PROVE  /\ wk[v].cap \in Caps /\ caps[wk[v].cap].issued
             /\ run.stage # "mechanical"
  BY <1>2, HasCap DEF Inv, TypeInv, Bound, ThreadOK, Serving
<1>3. Undisturbed(w)
  BY <1>0, <1>2 DEF Undisturbed
<1>4. ASSUME NEW c \in Caps PROVE ReceiptExact(c)'
  <2>1. ReceiptExact(c) /\ moved[c] \in Nat /\ caps[c].epoch \in Nat
    BY DEF Inv, TypeInv, TypeOK
  <2> QED BY <1>0, <2>1 DEF ReceiptExact, Journal, Pending, Completed
<1>5. OnePending' BY DEF Inv, OnePending, Pending
<1> QED BY <1>1, <1>3, <1>4, <1>5, Assemble

(* What the invariant says of the run and its capabilities.                *)
LEMMA RunFacts ==
  ASSUME Inv
  PROVE  /\ run \in RunRecords
         /\ run.epoch \in Nat /\ run.stage \in Stages /\ run.domains \in Seq(BOOLEAN)
         /\ caps \in [Caps -> CapRecords] /\ wk \in [Workers -> Threads]
         /\ \A c \in Caps : caps[c].epoch \in Nat /\ caps[c].epoch <= run.epoch
BY DEF Inv, TypeInv, TypeOK, CapRecords, RunRecords, ReceiptExact

(* The run record after a transition.                                      *)
LEMMA RunMoves ==
  ASSUME NEW r \in RunRecords, NEW s \in Stages, NEW q,
         q = [r EXCEPT !.stage = s, !.epoch = @ + 1]
  PROVE  q \in RunRecords /\ q.stage = s /\ q.epoch = r.epoch + 1 /\ q.epoch \in Nat
<1>1. r.epoch \in Nat /\ r.domains \in Seq(BOOLEAN) OBVIOUS
<1>2. q = [stage |-> s, epoch |-> r.epoch + 1, domains |-> r.domains]
  BY DEF RunRecords
<1>3. q \in RunRecords BY <1>1, <1>2
<1>4. q.stage = s /\ q.epoch = r.epoch + 1 /\ q.epoch \in Nat BY <1>1, <1>2
<1> QED BY <1>3, <1>4

(* The run record after a domain was created.                              *)
LEMMA RunGrows ==
  ASSUME NEW r \in RunRecords, NEW q, q = [r EXCEPT !.domains = Append(@, TRUE)]
  PROVE  q \in RunRecords /\ q.stage = r.stage /\ q.epoch = r.epoch
<1>1. Append(r.domains, TRUE) \in Seq(BOOLEAN)
  <2>1. r.domains \in Seq(BOOLEAN) OBVIOUS
  <2> QED BY <2>1
<1> QED BY <1>1

(* Revoking every capability changes neither their epochs nor whether      *)
(* they were issued.                                                       *)
LEMMA RevokedFacts ==
  ASSUME Inv
  PROVE  /\ AllRevoked \in [Caps -> CapRecords]
         /\ \A c \in Caps : /\ AllRevoked[c].issued = caps[c].issued
                            /\ AllRevoked[c].epoch = caps[c].epoch
BY RunFacts DEF AllRevoked, CapRecords

(* capabilities.revoke preserves the invariant.                            *)
LEMMA RevokeStep ==
  ASSUME Inv, NEW w \in Workers, Revoke(w)
  PROVE  Inv'
<1>0. /\ wk[w].pc = "revoke" /\ wk[w].pc \in Owning \ {"activate", "observe"}
      /\ wk[w].pc \notin Serving
  BY DEF Revoke, Owning, Executing, Serving
<1>c. PICK c \in Caps : c = wk[w].cap /\ c # NoCap
  BY <1>0, HasCap
<1>1. Bound(w) /\ ThreadOK(w) BY DEF Inv, TypeInv
<1>2. /\ caps' = [caps EXCEPT ![c].revoked = TRUE] /\ Goto(w, "finish")
      /\ UNCHANGED <<run, receipt, ckpt, file, lock, effects, moved>>
  BY <1>c DEF Revoke
<1>3. /\ caps' \in [Caps -> CapRecords]
      /\ \A d \in Caps : caps'[d].issued = caps[d].issued /\ caps'[d].epoch = caps[d].epoch
  BY <1>2, RunFacts DEF CapRecords
<1>4. OnlyThread(w) /\ Same(w) /\ wk'[w].pc = "finish" /\ wk'[w].outcome = wk[w].outcome
  BY <1>2, GotoFacts, RunFacts DEF Labels
<1>5. Bound(w)' BY <1>1, <1>3, <1>4, <1>c DEF Bound, Same
<1>6. ThreadOK(w)' BY <1>0, <1>1, <1>2, <1>4, <1>c DEF ThreadOK, Same, Completed
<1>7. \A d \in Caps : Owns(w, d)' => Owns(w, d) BY <1>0, <1>4 DEF Owns, Same
<1>8. /\ run' \in RunRecords
      /\ run'.epoch >= run.epoch /\ run'.epoch = run.epoch /\ run'.stage = run.stage
      /\ \A d \in Caps : caps'[d].epoch <= run'.epoch
  BY <1>2, <1>3, RunFacts
<1> QED BY <1>2, <1>3, <1>4, <1>5, <1>6, <1>7, <1>8, RunStep

(* create_domain preserves the invariant.                                  *)
LEMMA CreateDomainStep ==
  ASSUME Inv, NEW w \in Workers, CreateDomain(w)
  PROVE  Inv'
<1>0. wk[w].pc = "domain" /\ Bound(w) /\ ThreadOK(w)
  BY DEF Inv, TypeInv, CreateDomain
<1>2. /\ run' = [run EXCEPT !.domains = Append(@, TRUE)]
      /\ wk' = [wk EXCEPT ![w].pc = "issue", ![w].domain = Len(run.domains) + 1]
      /\ UNCHANGED <<caps, receipt, ckpt, file, lock, effects, moved>>
  BY DEF CreateDomain
<1>3. /\ run' \in RunRecords
      /\ run'.epoch = run.epoch /\ run'.stage = run.stage
  BY <1>2, RunFacts, RunGrows
<1>4. /\ OnlyThread(w) /\ wk'[w].pc = "issue" /\ wk'[w].outcome = wk[w].outcome
      /\ wk'[w].cap = wk[w].cap /\ wk'[w].request = wk[w].request
      /\ wk'[w].epoch = wk[w].epoch
  <2>1. PICK n \in Nat : n = Len(run.domains) + 1 BY RunFacts
  <2>2. wk' = [wk EXCEPT ![w].pc = "issue", ![w].domain = n] BY <1>2, <2>1
  <2>3. wk \in [Workers -> Threads] /\ wk[w] \in Threads BY RunFacts
  <2> QED BY <2>2, <2>3 DEF OnlyThread, Threads, Labels, Executing
<1>5. Bound(w)' BY <1>0, <1>2, <1>4 DEF Bound, Serving
<1>6. ThreadOK(w)'
  BY <1>0, <1>2, <1>3, <1>4 DEF ThreadOK, Completed, Owning, Executing
<1>7. \A d \in Caps : Owns(w, d)' => Owns(w, d) BY <1>0, <1>4 DEF Owns, Owning, Executing
<1>8. /\ caps' \in [Caps -> CapRecords] /\ run'.epoch >= run.epoch
      /\ \A d \in Caps : caps'[d].epoch <= run'.epoch
  BY <1>2, <1>3, RunFacts
<1> QED BY <1>2, <1>3, <1>4, <1>5, <1>6, <1>7, <1>8, RunStep

(* insert_capability: the epoch read earlier is at most the run's, even    *)
(* when the run has moved since.                                           *)
LEMMA InsertCapabilityStep ==
  ASSUME Inv, NEW w \in Workers, InsertCapability(w)
  PROVE  Inv'
<1>0. wk[w].pc = "insert" /\ ThreadOK(w) /\ wk[w] \in Threads
  BY DEF Inv, TypeInv, TypeOK, InsertCapability
<1>1. wk[w].epoch \in Nat /\ wk[w].domain \in Nat /\ wk[w].epoch <= run.epoch
  BY <1>0 DEF Threads, ThreadOK
<1>2. PICK c \in Caps :
        /\ ~caps[c].issued
        /\ caps' = [caps EXCEPT ![c].issued = TRUE, ![c].epoch = wk[w].epoch,
                                ![c].domain = wk[w].domain]
  BY DEF InsertCapability
<1>3. Proceed(w) /\ UNCHANGED <<run, receipt, ckpt, file, lock, effects, moved>>
  BY DEF InsertCapability
<1>4. /\ caps' \in [Caps -> CapRecords]
      /\ caps'[c].epoch = wk[w].epoch /\ caps'[c].issued
      /\ \A d \in Caps : d # c => caps'[d] = caps[d]
  BY <1>1, <1>2, RunFacts DEF CapRecords
<1>5. \A d \in Caps : /\ caps[d].issued => caps'[d].issued /\ caps'[d].epoch = caps[d].epoch
                      /\ caps'[d].epoch <= run'.epoch
  BY <1>1, <1>2, <1>3, <1>4, RunFacts
<1>6. /\ OnlyThread(w) /\ Bound(w)' /\ ThreadOK(w)'
      /\ \A d \in Caps : Owns(w, d)' => Owns(w, d)
  BY <1>0, <1>3, <1>5, ProceedFacts
<1>7. /\ run' \in RunRecords
      /\ run'.epoch >= run.epoch /\ run'.epoch = run.epoch /\ run'.stage = run.stage
  BY <1>3, RunFacts
<1> QED BY <1>3, <1>4, <1>5, <1>6, <1>7, RunStep

(* cancel preserves the invariant whatever is in flight: a write between   *)
(* begin and acknowledgement may then land in the terminal run.            *)
LEMMA CancelStep ==
  ASSUME Inv, NEW w \in Workers, Cancel(w)
  PROVE  Inv'
<1>1. OnlyThread(w) /\ wk'[w] = Idle
  BY RunFacts, ReturnFacts DEF Cancel
<1>2. CASE run.stage # wk[w].stage
  BY <1>2, QuietReturn DEF Cancel, Quiet
<1>3. CASE run.stage = wk[w].stage
  <2>1. /\ run' = [run EXCEPT !.stage = "terminal", !.epoch = @ + 1] /\ caps' = AllRevoked
        /\ UNCHANGED <<receipt, ckpt, file, lock, effects, moved>>
    BY <1>3 DEF Cancel
  <2>2. /\ run' \in RunRecords
        /\ run'.epoch = run.epoch + 1 /\ run'.stage = "terminal" /\ run'.epoch \in Nat
    <3>1. run \in RunRecords /\ run.epoch \in Nat BY RunFacts
    <3>2. "terminal" \in Stages BY DEF Stages
    <3> QED BY <2>1, <3>1, <3>2, RunMoves
  <2>3. Bound(w)' /\ ThreadOK(w)' /\ \A d \in Caps : Owns(w, d)' => Owns(w, d)
    BY <1>1, <2>2, IdleOK
  <2>4. /\ caps' \in [Caps -> CapRecords] /\ run'.epoch >= run.epoch
        /\ \A d \in Caps : /\ caps[d].issued => caps'[d].issued /\ caps'[d].epoch = caps[d].epoch
                           /\ caps'[d].epoch <= run'.epoch
    BY <2>1, <2>2, RunFacts, RevokedFacts
  <2>5. run'.stage = "terminal" \/ (run'.epoch = run.epoch /\ run'.stage = run.stage)
          \/ run.stage = "mechanical"
    BY <2>2
  <2>6. UNCHANGED <<receipt, ckpt, file, lock, effects, moved>> BY <2>1
  <2> QED BY <1>1, <2>2, <2>6, <2>3, <2>4, <2>5, RunStep
<1> QED BY <1>2, <1>3

(* A mechanical transition preserves the invariant: no write is in flight  *)
(* in a mechanical state.                                                  *)
LEMMA AdvanceMechanicalStep ==
  ASSUME Inv, NEW w \in Workers, AdvanceMechanical(w)
  PROVE  Inv'
<1>0. wk[w].pc = "advance" /\ Bound(w) /\ ThreadOK(w) /\ wk[w] \in Threads
  BY DEF Inv, TypeInv, TypeOK, AdvanceMechanical
<1>1. CASE run.stage # "mechanical"
  BY <1>1, LeaveStep DEF AdvanceMechanical, Quiet, Executing
<1>2. CASE run.stage = "mechanical"
  <2>1. PICK next \in {"task", "terminal"} :
          /\ run' = [run EXCEPT !.stage = next, !.epoch = @ + 1]
          /\ wk' = [wk EXCEPT ![w].stage = next]
    BY <1>2 DEF AdvanceMechanical
  <2>2. caps' = AllRevoked /\ UNCHANGED <<receipt, ckpt, file, lock, effects, moved>>
    BY <1>2 DEF AdvanceMechanical
  <2>3. /\ run' \in RunRecords
        /\ run'.epoch = run.epoch + 1 /\ run'.epoch \in Nat /\ run'.epoch >= run.epoch
    <3>1. run \in RunRecords /\ run.epoch \in Nat BY RunFacts
    <3>2. next \in Stages BY DEF Stages
    <3>3. run' = [run EXCEPT !.stage = next, !.epoch = @ + 1] BY <2>1
    <3>4. run' \in RunRecords /\ run'.epoch = run.epoch + 1 /\ run'.epoch \in Nat
      BY <3>1, <3>2, <3>3, RunMoves
    <3> QED BY <3>1, <3>4
  <2>4. /\ OnlyThread(w) /\ wk'[w].pc = "advance" /\ wk'[w].outcome = wk[w].outcome
        /\ wk'[w].cap = wk[w].cap /\ wk'[w].request = wk[w].request
        /\ wk'[w].epoch = wk[w].epoch
    BY <1>0, <2>1, RunFacts DEF OnlyThread, Threads, Stages
  <2>5. /\ caps' \in [Caps -> CapRecords]
        /\ \A d \in Caps : /\ caps[d].issued => caps'[d].issued /\ caps'[d].epoch = caps[d].epoch
                           /\ caps'[d].epoch <= run'.epoch
    BY <2>2, <2>3, RunFacts, RevokedFacts
  <2>6. wk[w].epoch \in Nat /\ run.epoch \in Nat /\ wk[w].cap \in Caps \cup {NoCap}
    BY <1>0, RunFacts DEF Threads
  <2>7. Bound(w)' BY <1>0, <2>4, <2>5, <2>6 DEF Bound, Serving
  <2>8. ThreadOK(w)'
    BY <1>0, <2>2, <2>3, <2>4, <2>6 DEF ThreadOK, Completed, Owning, Executing
  <2>9. \A d \in Caps : Owns(w, d)' => Owns(w, d) BY <1>0, <2>4 DEF Owns
  <2>10. run'.stage = "terminal" \/ (run'.epoch = run.epoch /\ run'.stage = run.stage)
          \/ run.stage = "mechanical"
    BY <1>2
  <2>11. UNCHANGED <<receipt, ckpt, file, lock, effects, moved>> BY <2>2
  <2> QED BY <2>3, <2>4, <2>5, <2>7, <2>8, <2>9, <2>10, <2>11, RunStep
<1> QED BY <1>1, <1>2

(* reserve_submission makes the thread the owner of the submission: nobody *)
(* else can be, because an owner's receipt is not absent.                  *)
LEMMA ReserveStep ==
  ASSUME Inv, NEW w \in Workers, Reserve(w)
  PROVE  Inv'
<1>0. wk[w].pc = "reserve" /\ wk[w].pc \notin Serving BY DEF Reserve, Serving
<1>c. PICK c \in Caps : c = wk[w].cap /\ c # NoCap
  BY <1>0, HasCap
<1>1. /\ ckpt[c] \in Checkpoints /\ ckpt \in [Caps -> Checkpoints] /\ ReceiptExact(c)
      /\ receipt \in [Caps -> Receipts] /\ wk[w].request \in Requests
      /\ wk \in [Workers -> Threads] /\ Bound(w) /\ ThreadOK(w) /\ run.epoch \in Nat
  BY <1>0, <1>c, OwnerFacts
<1>2. /\ receipt[c].status = "absent" /\ \A d \in Caps : ~Pending(d)
      /\ receipt' = [receipt EXCEPT ![c].status = "pending", ![c].request = wk[w].request]
      /\ ckpt' = [ckpt EXCEPT ![c].phase = "prepared"]
      /\ Goto(w, "activate")
      /\ UNCHANGED <<run, caps, file, lock, effects, moved>>
  BY <1>c DEF Reserve, AnyPending
<1>3. /\ receipt' \in [Caps -> Receipts] /\ receipt'[c].status = "pending"
      /\ \A d \in Caps : d # c => receipt'[d] = receipt[d]
  <2>1. PICK r \in Requests : r = wk[w].request BY <1>1
  <2>2. receipt' = [receipt EXCEPT ![c].status = "pending", ![c].request = r] BY <1>2, <2>1
  <2> QED BY <1>1, <2>2 DEF Receipts
<1>4. /\ ckpt' \in [Caps -> Checkpoints] /\ ckpt'[c] = [NoCheckpoint EXCEPT !.phase = "prepared"]
      /\ \A d \in Caps : d # c => ckpt'[d] = ckpt[d]
  BY <1>1, <1>2 DEF Checkpoints, ReceiptExact
<1>5. /\ OnlyThread(w) /\ Same(w) /\ wk'[w].pc = "activate"
      /\ wk'[w].outcome = wk[w].outcome
  BY <1>1, <1>2, GotoFacts DEF Labels
<1>6. TypeOK' BY <1>2, <1>3, <1>4, <1>5 DEF Inv, TypeInv, TypeOK, OnlyThread
<1>7. Bound(w)' BY <1>1, <1>2, <1>5, <1>c DEF Bound, Same
<1>8. ThreadOK(w)'
  <2>1. ~wk[w].outcome.complete
    BY <1>1, <1>2, <1>c DEF ThreadOK, Completed
  <2> QED BY <1>1, <1>2, <1>3, <1>5, <1>c, <2>1 DEF ThreadOK, Same, Owning, Executing
<1>9. Undisturbed(w)
  <2>1. ASSUME NEW v \in Workers, wk[v].pc \in {"publish", "checkpoint"} PROVE FALSE
    <3>1. ThreadOK(v) /\ wk[v].cap \in Caps
      BY <2>1, HasCap DEF Inv, Serving
    <3> QED BY <1>2, <2>1, <3>1 DEF ThreadOK
  <2>2. ckpt[c].phase = "absent" BY <1>1, <1>2 DEF ReceiptExact, NoCheckpoint
  <2>3. \A d \in Caps : /\ receipt[d].status # "absent" => receipt'[d].status # "absent"
                        /\ receipt[d].status = "completed" => receipt'[d].status = "completed"
    BY <1>2, <1>3
  <2>4. \A d \in Caps : ckpt[d].phase \in {"running", "commit_ready"} =>
                          ckpt'[d].phase \in {"running", "commit_ready"}
    BY <1>4, <2>2
  <2>5. UNCHANGED <<run, caps, file, lock>> /\ run.epoch \in Nat BY <1>1, <1>2
  <2> QED BY <2>1, <2>3, <2>4, <2>5 DEF Undisturbed
<1>10. ASSUME NEW d \in Caps PROVE ReceiptExact(d)'
  <2>1. ReceiptExact(d) BY DEF Inv
  <2>2. CASE d = c
    BY <1>2, <1>3, <1>4, <2>1, <2>2
       DEF ReceiptExact, Journal, Pending, Completed, NoCheckpoint, Plain
  <2>3. CASE d # c
    BY <1>2, <1>3, <1>4, <2>1, <2>3 DEF ReceiptExact, Journal, Pending, Completed
  <2> QED BY <2>2, <2>3
<1>11. OnePending' BY <1>2, <1>3 DEF OnePending, Pending
<1>12. \A v \in Workers : Bound(v)' /\ ThreadOK(v)'
  BY <1>5, <1>7, <1>8, <1>9, OtherThreads
<1>13. OneOwner'
  <2>1. ASSUME NEW v \in Workers, v # w PROVE ~Owns(v, c)
    BY <1>2, <1>c DEF Inv, ThreadOK, Owns
  <2>2. \A d \in Caps : Owns(w, d)' => d = c BY <1>5, <1>c DEF Owns, Same
  <2> QED BY <1>5, <2>1, <2>2 DEF Inv, OneOwner, Owns, OnlyThread
<1> QED BY <1>6, <1>10, <1>11, <1>12, <1>13 DEF Inv, TypeInv

(* transition_task: the one step that moves the run for a submission.  No  *)
(* other thread is between begin and acknowledgement, because there is one *)
(* pending submission and one owner of it.                                 *)
LEMMA TransitionStep ==
  ASSUME Inv, NEW w \in Workers, Transition(w)
  PROVE  Inv'
<1>0. /\ wk[w].pc = "transition" /\ wk[w].pc \in Owning /\ wk[w].pc \notin Serving
  BY DEF Transition, Owning, Executing, Serving
<1>c. PICK c \in Caps : c = wk[w].cap /\ c # NoCap
  BY <1>0, HasCap
<1>1. /\ ckpt[c] \in Checkpoints /\ ckpt \in [Caps -> Checkpoints] /\ ReceiptExact(c)
      /\ receipt \in [Caps -> Receipts] /\ wk \in [Workers -> Threads]
      /\ wk[w] \in Threads /\ Bound(w) /\ ThreadOK(w) /\ run.epoch \in Nat
      /\ effects[c] \in Nat
  BY <1>0, <1>c, OwnerFacts
<1>2. /\ Live(c) /\ Pending(c) /\ ckpt[c].phase = "commit_ready"
      /\ ckpt[c].marker.kind # "file"
  BY <1>c DEF Transition, CheckTask, Plain
<1>3. PICK next \in {"task", "mechanical"} :
        /\ run' = [run EXCEPT !.stage = next, !.epoch = @ + 1,
                              !.domains[caps[c].domain] = FALSE]
        /\ receipt' = Finished(c, Applied(next, ckpt[c].accepted, TRUE))
        /\ wk' = [wk EXCEPT ![w].pc = "record",
                            ![w].outcome = Applied(next, wk[w].done, TRUE)]
  BY <1>c DEF Transition
<1>4. /\ caps' = AllRevoked
      /\ ckpt' = [ckpt EXCEPT ![c].marker = Plain("between")]
      /\ moved' = [moved EXCEPT ![c] = @ + 1]
      /\ UNCHANGED <<file, lock, effects>>
  BY <1>c DEF Transition
<1>5. /\ run' \in RunRecords /\ run'.epoch = run.epoch + 1 /\ run'.epoch \in Nat
      /\ run'.epoch >= run.epoch
  <2>1. PICK d \in DOMAIN run.domains : d = caps[c].domain BY <1>2 DEF Live, Open
  <2>2. run \in RunRecords /\ next \in Stages BY RunFacts DEF Stages
  <2>3. run' = [run EXCEPT !.stage = next, !.epoch = @ + 1, !.domains[d] = FALSE]
    BY <1>3, <2>1
  <2>4. PICK ds \in Seq(BOOLEAN) : ds = [run.domains EXCEPT ![d] = FALSE]
    <3>1. run.domains \in Seq(BOOLEAN) /\ d \in 1 .. Len(run.domains) /\ FALSE \in BOOLEAN
      BY <2>1, RunFacts
    <3>2. [run.domains EXCEPT ![d] = FALSE] \in Seq(BOOLEAN) BY <3>1, ExceptSeq
    <3> QED BY <3>2
  <2>5. run' = [stage |-> next, epoch |-> run.epoch + 1, domains |-> ds]
    BY <2>2, <2>3, <2>4
  <2>6. run' \in RunRecords /\ run'.epoch = run.epoch + 1 BY <1>1, <2>2, <2>5
  <2> QED BY <1>1, <2>6
<1>6. PICK res \in Results : /\ res = Applied(next, ckpt[c].accepted, TRUE)
                             /\ res.writes = ckpt[c].accepted /\ res.complete
                             /\ res.disposition = "applied"
  <2>1. PICK n \in Nat : n = ckpt[c].accepted BY <1>1 DEF Checkpoints
  <2>2. /\ Applied(next, n, TRUE) \in Results /\ Applied(next, n, TRUE).writes = n
        /\ Applied(next, n, TRUE).complete /\ Applied(next, n, TRUE).disposition = "applied"
    BY DEF Applied, Results, Stages
  <2> QED BY <2>1, <2>2
<1>7. /\ receipt' \in [Caps -> Receipts] /\ receipt'[c].status = "completed"
      /\ receipt'[c].result = res /\ \A d \in Caps : d # c => receipt'[d] = receipt[d]
  <2>1. receipt' = Finished(c, res) BY <1>3, <1>6
  <2> QED BY <1>1, <2>1 DEF Finished, Receipts
<1>8. /\ ckpt' \in [Caps -> Checkpoints] /\ ckpt'[c].phase = "commit_ready"
      /\ \A d \in Caps : d # c => ckpt'[d] = ckpt[d]
  <2>1. Plain("between") \in Markers BY Constants
  <2> QED BY <1>1, <1>2, <1>4, <2>1 DEF Checkpoints
<1>9. PICK out \in Results : /\ out = Applied(next, wk[w].done, TRUE)
                             /\ out.complete /\ out.disposition = "applied"
  <2>1. PICK n \in Nat : n = wk[w].done BY <1>1 DEF Threads
  <2>2. /\ Applied(next, n, TRUE) \in Results /\ Applied(next, n, TRUE).complete
        /\ Applied(next, n, TRUE).disposition = "applied"
    BY DEF Applied, Results, Stages
  <2> QED BY <2>1, <2>2
<1>10. /\ OnlyThread(w) /\ wk'[w].pc = "record" /\ wk'[w].outcome = out
       /\ wk'[w].cap = wk[w].cap /\ wk'[w].request = wk[w].request
       /\ wk'[w].epoch = wk[w].epoch
  <2>1. wk' = [wk EXCEPT ![w].pc = "record", ![w].outcome = out] BY <1>3, <1>9
  <2> QED BY <1>1, <2>1 DEF OnlyThread, Threads, Labels, Executing
<1>11. /\ caps' \in [Caps -> CapRecords]
       /\ \A d \in Caps : /\ caps'[d].issued = caps[d].issued
                          /\ caps'[d].epoch = caps[d].epoch
  BY <1>4, RevokedFacts
<1>12. /\ moved' \in [Caps -> Nat] /\ moved'[c] = 1
       /\ \A d \in Caps : d # c => moved'[d] = moved[d]
  <2>1. moved \in [Caps -> Nat] /\ moved[c] = 0
    BY <1>1, <1>2 DEF Inv, TypeInv, TypeOK, ReceiptExact, Journal
  <2> QED BY <1>4, <2>1
<1>13. TypeOK'
  BY <1>4, <1>5, <1>7, <1>8, <1>10, <1>11, <1>12 DEF Inv, TypeInv, TypeOK, OnlyThread
<1>14. Bound(w)' /\ ThreadOK(w)' /\ \A d \in Caps : Owns(w, d)' => Owns(w, d)
  <2>1. caps'[c].issued BY <1>2, <1>11 DEF Live
  <2>2. "record" \in PlainLabels BY DEF PlainLabels
  <2> QED BY <1>0, <1>5, <1>7, <1>8, <1>9, <1>10, <1>c, <2>1, <2>2, Lands
<1>15. Undisturbed(w)
  <2>1. ASSUME NEW v \in Workers, v # w, wk[v].pc \in {"publish", "checkpoint"} PROVE FALSE
    <3>1. ThreadOK(v) /\ wk[v].cap \in Caps
      BY <2>1, HasCap DEF Inv, Serving
    <3>2. wk[v].cap = c BY <1>2, <2>1, <3>1 DEF ThreadOK, Inv, OnePending
    <3>3. wk[v].pc \in Owning BY <2>1 DEF Owning, Executing
    <3> QED BY <1>0, <1>c, <2>1, <3>2, <3>3 DEF Inv, OneOwner, Owns
  <2> QED BY <1>4, <1>5, <1>7, <1>8, <1>11, <2>1 DEF Undisturbed
<1>16. ASSUME NEW d \in Caps PROVE ReceiptExact(d)'
  <2>0. ReceiptExact(d) /\ caps[d].epoch \in Nat /\ moved[d] \in Nat
    BY RunFacts DEF Inv, TypeInv, TypeOK
  <2>1. CASE d = c
    <3>1. effects'[c] = ckpt[c].accepted
      BY <1>1, <1>2, <1>4 DEF ReceiptExact, Journal
    <3>2. caps'[c].issued /\ caps'[c].epoch < run'.epoch /\ caps'[c].epoch <= run'.epoch
      BY <1>1, <1>2, <1>5, <1>11 DEF Live
    <3> QED BY <1>6, <1>7, <1>12, <2>1, <3>1, <3>2 DEF ReceiptExact, Pending, Completed
  <2>2. CASE d # c
    <3>1. ~Pending(d) BY <1>2, <2>2 DEF Inv, OnePending
    <3>2. caps'[d].epoch <= run'.epoch /\ (moved'[d] > 0 => caps'[d].issued /\ caps'[d].epoch < run'.epoch)
      BY <1>1, <1>5, <1>11, <1>12, <2>0, <2>2 DEF ReceiptExact
    <3> QED BY <1>4, <1>7, <1>8, <1>12, <2>0, <2>2, <3>1, <3>2
            DEF ReceiptExact, Pending, Completed
  <2> QED BY <2>1, <2>2
<1>17. OnePending' BY <1>7 DEF Inv, OnePending, Pending
<1> QED BY <1>10, <1>13, <1>14, <1>15, <1>16, <1>17, Assemble

(* The environment: an error drops the thread's guards, time passes, the   *)
(* process is restarted.                                                   *)
LEMMA FaultStep ==
  ASSUME Inv, NEW w \in Workers, Fault(w)
  PROVE  Inv'
<1>1. lock' = Unlocked(w) /\ UNCHANGED <<run, caps, receipt, ckpt, file, effects, moved>>
  BY DEF Fault
<1>2. CASE Return(w)
  <2>1. OnlyThread(w) /\ wk'[w] = Idle /\ run'.epoch \in Nat
    BY <1>1, <1>2, RunFacts, ReturnFacts
  <2>2. Bound(w)' /\ ThreadOK(w)' /\ \A d \in Caps : Owns(w, d)' => Owns(w, d)
    BY <2>1, IdleOK
  <2>3. LockKept(w) BY <1>1, LockFacts
  <2> QED BY <1>1, <2>1, <2>2, <2>3, LockStep
<1>3. CASE ~Return(w)
  <2>1. wk[w].pc \in Executing /\ wk[w].cap # NoCap /\ DropGuard(w, "observe")
    BY <1>3 DEF Fault, Leave
  <2>2. wk[w].pc \in Owning \ {"activate", "observe"}
    BY <2>1 DEF Owning, Executing
  <2> QED BY <1>1, <2>1, <2>2, DropStep
<1> QED BY <1>2, <1>3

(* The expiry of a capability preserves the invariant.                     *)
LEMMA ExpireStep ==
  ASSUME Inv, NEW c \in Caps, Expire(c)
  PROVE  Inv'
<1>1. /\ caps' = [caps EXCEPT ![c].expired = TRUE]
      /\ UNCHANGED <<run, receipt, ckpt, file, lock, wk, effects, moved>>
  BY DEF Expire
<1>2. /\ caps' \in [Caps -> CapRecords]
      /\ \A d \in Caps : caps'[d].issued = caps[d].issued /\ caps'[d].epoch = caps[d].epoch
  BY <1>1, RunFacts
<1>3. TypeOK' BY <1>1, <1>2 DEF Inv, TypeInv, TypeOK
<1>4. ASSUME NEW v \in Workers PROVE Bound(v)' /\ ThreadOK(v)'
  <2>1. Bound(v) /\ ThreadOK(v) /\ wk[v].cap \in Caps \cup {NoCap}
    BY DEF Inv, TypeInv, TypeOK, Threads
  <2>2. Bound(v)' BY <1>1, <1>2, <2>1 DEF Bound
  <2>3. wk[v].pc \in {"publish", "checkpoint"} => wk[v].cap \in Caps
    BY <2>1 DEF Bound, Serving
  <2>4. ThreadOK(v)' BY <1>1, <1>2, <2>1, <2>3 DEF ThreadOK, Pending, Completed
  <2> QED BY <2>2, <2>4
<1>5. ASSUME NEW d \in Caps PROVE ReceiptExact(d)'
  <2>1. ReceiptExact(d) BY DEF Inv
  <2> QED BY <1>1, <1>2, <2>1 DEF ReceiptExact, Journal, Pending, Completed
<1>6. OnePending' /\ OneOwner' BY <1>1 DEF Inv, OnePending, OneOwner, Owns, Pending
<1> QED BY <1>3, <1>4, <1>5, <1>6 DEF Inv, TypeInv

(* A crash loses the threads and the flocks; what the journal says of the  *)
(* files stays true.                                                       *)
LEMMA CrashStep ==
  ASSUME Inv, Crash
  PROVE  Inv'
<1>1. /\ wk' = [w \in Workers |-> Idle] /\ lock' = [f \in Files |-> NoWorker]
      /\ UNCHANGED <<run, caps, receipt, ckpt, file, effects, moved>>
  BY DEF Crash
<1>2. wk' \in [Workers -> Threads] /\ \A w \in Workers : wk'[w] = Idle
  BY <1>1, Constants
<1>3. TypeOK' BY <1>1, <1>2 DEF Inv, TypeInv, TypeOK
<1>4. run'.epoch \in Nat BY <1>1, RunFacts
<1>5. ASSUME NEW w \in Workers
      PROVE  Bound(w)' /\ ThreadOK(w)' /\ \A c \in Caps : ~Owns(w, c)'
  BY <1>2, <1>4, IdleOK
<1>6. ASSUME NEW d \in Caps PROVE ReceiptExact(d)'
  <2>1. ReceiptExact(d) BY DEF Inv
  <2> QED BY <1>1, <2>1 DEF ReceiptExact, Journal, Pending, Completed
<1>7. OnePending' BY <1>1 DEF Inv, OnePending, Pending
<1>8. OneOwner' BY <1>5 DEF OneOwner
<1> QED BY <1>3, <1>5, <1>6, <1>7, <1>8 DEF Inv, TypeInv

(* The invariant holds when the run was created.                           *)
LEMMA InitInv == Init => Inv
<1> SUFFICES ASSUME Init PROVE Inv OBVIOUS
<1> USE DEF Init
<1>1. TypeOK
  <2>1. <<>> \in Seq(BOOLEAN) /\ <<>> \in Content BY DEF Content
  <2>2. run \in RunRecords BY <2>1 DEF Stages
  <2> QED BY <2>1, <2>2, Constants DEF TypeOK
<1>2. ASSUME NEW w \in Workers
      PROVE  Bound(w) /\ ThreadOK(w) /\ \A c \in Caps : ~Owns(w, c)
  BY ConstantAssumption
     DEF Idle, Bound, ThreadOK, Owns, Owning, Executing, Serving, Blank, Correction, NoCheckpoint, Plain
<1>3. ASSUME NEW c \in Caps PROVE ReceiptExact(c) /\ ~Pending(c)
  BY DEF ReceiptExact, Pending, Completed, NoReceipt
<1>4. OnePending BY <1>3 DEF OnePending
<1>5. OneOwner BY <1>2 DEF OneOwner
<1> QED BY <1>1, <1>2, <1>3, <1>4, <1>5 DEF Inv, TypeInv

(* The invariant depends on the variables only.                            *)
LEMMA StutterInv ==
  ASSUME Inv, UNCHANGED vars
  PROVE  Inv'
<1> USE DEF vars
<1>1. TypeOK' BY DEF Inv, TypeInv, TypeOK
<1>2. ASSUME NEW w \in Workers PROVE Bound(w)' /\ ThreadOK(w)'
  BY DEF Inv, TypeInv, Bound, ThreadOK, Pending, Completed
<1>3. ASSUME NEW c \in Caps PROVE ReceiptExact(c)'
  BY DEF Inv, ReceiptExact, Journal, Pending, Completed
<1>4. OnePending' /\ OneOwner' BY DEF Inv, OnePending, OneOwner, Owns, Pending
<1> QED BY <1>1, <1>2, <1>3, <1>4 DEF Inv, TypeInv

(* Every step preserves the invariant.                                     *)
LEMMA NextInv == Inv /\ [Next]_vars => Inv'
<1> SUFFICES ASSUME Inv, [Next]_vars PROVE Inv' OBVIOUS
<1>1. ASSUME NEW w \in Workers, Call(w) PROVE Inv' BY <1>1, StartSteps
<1>2. ASSUME NEW w \in Workers, Step(w) PROVE Inv'
  <2>1. CASE \/ LookupMiss(w) \/ LookupHit(w) \/ Authorize(w) \/ Relookup(w)
             \/ ReserveRefused(w) \/ ActivateRefused(w) \/ WriteDenied(w) \/ WriteRejected(w)
             \/ RejectOpaque(w) \/ CommitRefused(w) \/ TransitionRefused(w)
             \/ Observe(w) \/ AnswerUnknown(w)
    BY <2>1, RoutingSteps
  <2>2. CASE \/ ReadRun(w) \/ CheckPending(w) \/ ReachTerminal(w) \/ FindDomain(w) \/ ReadClaims(w)
             \/ SupplyExhausted(w) \/ SaveProgress(w) \/ Snapshot(w)
    BY <2>2, TaskSteps
  <2>3. CASE Reserve(w) \/ Activate(w) \/ LockAndPrepare(w) \/ BeginFile(w) \/ Publish(w)
    BY <2>3, ReserveStep, ActivateStep, LockAndPrepareStep, BeginFileStep, PublishStep
  <2>4. CASE BeginOpaque(w) \/ Checkpoint(w) \/ DatabaseWrite(w) \/ Arm(w)
    BY <2>4, BeginOpaqueStep, CheckpointStep, DatabaseWriteStep, ArmStep
  <2>5. CASE EnrollAtomic(w) \/ EnrollRestartable(w) \/ Transition(w)
    BY <2>5, EnrollAtomicStep, EnrollRestartableStep, TransitionStep
  <2>6. CASE Record(w) \/ Correct(w) \/ Revoke(w) \/ Finish(w)
    BY <2>6, RecordStep, CorrectStep, RevokeStep, FinishStep
  <2>7. CASE Inspect(w) \/ Reconcile(w)
    BY <2>7, InspectStep, ReconcileStep
  <2>8. CASE AdvanceMechanical(w) \/ CreateDomain(w) \/ InsertCapability(w) \/ Cancel(w)
    BY <2>8, AdvanceMechanicalStep, CreateDomainStep, InsertCapabilityStep, CancelStep
  <2>9. CASE Fault(w)
    BY <2>9, FaultStep
  <2> QED BY <1>2, <2>1, <2>2, <2>3, <2>4, <2>5, <2>6, <2>7, <2>8, <2>9 DEF Step
<1>3. ASSUME NEW c \in Caps, Expire(c) PROVE Inv' BY <1>3, ExpireStep
<1>4. CASE Crash BY <1>4, CrashStep
<1>5. CASE UNCHANGED vars BY <1>5, StutterInv
<1> QED BY <1>1, <1>2, <1>3, <1>4, <1>5 DEF Next

(* Every receipt is exact, one submission is pending, one thread owns a    *)
(* submission and no thread relies on something stale, in every reachable  *)
(* state: the inductive invariant behind reserve_submission, the write     *)
(* journal and reconcile_caller_writes.                                    *)
THEOREM Invariance == Spec => []Inv
<1>1. Init => Inv BY InitInv
<1>2. Inv /\ [Next]_vars => Inv' BY NextInv
<1> QED BY <1>1, <1>2, PTL DEF Spec

(* Every variable keeps its type, for any number of tokens, threads,       *)
(* files and contents.                                                     *)
THEOREM TypeCorrect == Spec => []TypeOK
<1>1. Inv => TypeOK BY DEF Inv, TypeInv
<1> QED BY <1>1, Invariance, PTL

(* Recovery never settles a submission whose file write is between         *)
(* begin_submission_write and checkpoint_submission_write, and publish     *)
(* finds the before image it prepared.                                     *)
THEOREM Fenced == Spec => []InFlightFenced
<1>1. Inv => InFlightFenced
  BY DEF Inv, ThreadOK, InFlightFenced, Pending
<1> QED BY <1>1, Invariance, PTL

(* What a step does to the receipts and to what they are about: nothing,   *)
(* or a submission is reserved, one of its writes lands, it commits, or it *)
(* is settled without having moved the run.                                *)
Lands1(c) == /\ Pending(c) /\ effects' = [effects EXCEPT ![c] = @ + 1]
             /\ caps[c].epoch = run.epoch \/ run.stage = "terminal"
             /\ UNCHANGED <<receipt, moved>>
Settles(c) == /\ Pending(c) /\ receipt'[c].status = "completed"
              /\ \A d \in Caps : d # c => receipt'[d] = receipt[d]
              /\ UNCHANGED <<effects, moved>>
Footprint == \/ UNCHANGED <<receipt, effects, moved>>
             \/ \E w \in Workers : Reserve(w) \/ Transition(w)
             \/ \E c \in Caps : Lands1(c) \/ Settles(c)

(* Completing a pending receipt settles it.                                *)
LEMMA FinishedSettles ==
  ASSUME Inv, NEW c \in Caps, NEW res, Pending(c), receipt' = Finished(c, res),
         UNCHANGED <<effects, moved>>
  PROVE  Settles(c)
<1>1. receipt \in [Caps -> Receipts] BY DEF Inv, TypeInv, TypeOK
<1> QED BY <1>1 DEF Finished, Settles, Receipts

(* A step of a thread has one of these footprints.                         *)
LEMMA StepFootprint ==
  ASSUME Inv, NEW w \in Workers, Step(w)
  PROVE  Footprint
<1>1. CASE UNCHANGED <<receipt, effects, moved>> BY <1>1 DEF Footprint
<1>2. CASE Reserve(w) \/ Transition(w) BY <1>2 DEF Footprint
<1>3. CASE Publish(w)
  <2>0. wk[w].pc = "publish" /\ wk[w].pc \notin Serving BY <1>3 DEF Publish, Serving
  <2>c. PICK c \in Caps : c = wk[w].cap BY <2>0, HasCap
  <2>1. ThreadOK(w) BY DEF Inv
  <2>2. Pending(c) /\ (caps[c].epoch = run.epoch \/ run.stage = "terminal")
    BY <2>0, <2>c, <2>1 DEF ThreadOK
  <2>3. receipt' = receipt /\ moved' = moved
    BY <1>3 DEF Publish
  <2>4. effects' = effects \/ effects' = [effects EXCEPT ![c] = @ + 1]
    BY <1>3, <2>c DEF Publish
  <2> QED BY <2>2, <2>3, <2>4 DEF Footprint, Lands1
<1>4. CASE DatabaseWrite(w)
  <2>0. wk[w].pc = "write" /\ wk[w].pc \notin Serving BY <1>4 DEF DatabaseWrite, Serving
  <2>c. PICK c \in Caps : c = wk[w].cap BY <2>0, HasCap
  <2>1. Live(c) /\ receipt' = receipt /\ moved' = moved
    BY <1>4, <2>c DEF DatabaseWrite
  <2>2. \/ effects' = effects
        \/ Pending(c) /\ effects' = [effects EXCEPT ![c] = @ + 1]
    BY <1>4, <2>c DEF DatabaseWrite, SlotFree
  <2> QED BY <2>1, <2>2 DEF Footprint, Lands1, Live
<1>5. CASE Record(w)
  <2>0. wk[w].pc \notin Serving BY <1>5 DEF Record, Serving
  <2>c. PICK c \in Caps : c = wk[w].cap BY <2>0, HasCap
  <2>1. receipt' = receipt \/ \E res : Pending(c) /\ receipt' = Finished(c, res)
    BY <1>5, <2>c DEF Record, Recordable, Recorded
  <2>2. UNCHANGED <<effects, moved>> BY <1>5 DEF Record
  <2> QED BY <2>1, <2>2, FinishedSettles DEF Footprint
<1>8. CASE Finish(w)
  <2>0. wk[w].pc \notin Serving BY <1>8 DEF Finish, Serving
  <2>c. PICK c \in Caps : c = wk[w].cap BY <2>0, HasCap
  <2>1. PICK res : res = [wk[w].outcome EXCEPT !.stage = wk[w].stage] OBVIOUS
  <2>2. receipt' = receipt \/ (Pending(c) /\ receipt' = Finished(c, res))
    BY <1>8, <2>c, <2>1 DEF Finish, Recordable, Recorded
  <2>3. UNCHANGED <<effects, moved>> BY <1>8 DEF Finish
  <2> QED BY <2>2, <2>3, FinishedSettles DEF Footprint
<1>9. CASE Reconcile(w)
  <2>0. wk[w].pc \notin Serving BY <1>9 DEF Reconcile, Serving
  <2>c. PICK c \in Caps : c = wk[w].cap BY <2>0, HasCap
  <2>1. receipt' = receipt \/ \E res : Pending(c) /\ receipt' = Finished(c, res)
    BY <1>9, <2>c DEF Reconcile
  <2>2. UNCHANGED <<effects, moved>> BY <1>9 DEF Reconcile
  <2> QED BY <2>1, <2>2, FinishedSettles DEF Footprint
<1> QED
  <2>1. CASE \/ LookupMiss(w) \/ LookupHit(w) \/ Authorize(w) \/ Relookup(w)
             \/ ReserveRefused(w) \/ ActivateRefused(w) \/ WriteDenied(w) \/ WriteRejected(w)
             \/ RejectOpaque(w) \/ CommitRefused(w) \/ TransitionRefused(w)
             \/ Observe(w) \/ AnswerUnknown(w)
    BY <1>1, <2>1 DEF LookupMiss, LookupHit, Authorize, Relookup, ReserveRefused,
         ActivateRefused, WriteDenied, WriteRejected, RejectOpaque, CommitRefused,
         TransitionRefused, Observe, AnswerUnknown
  <2>2. CASE \/ ReadRun(w) \/ CheckPending(w) \/ ReachTerminal(w) \/ FindDomain(w) \/ ReadClaims(w)
             \/ SupplyExhausted(w) \/ SaveProgress(w) \/ Snapshot(w) \/ Inspect(w)
             \/ AdvanceMechanical(w) \/ CreateDomain(w) \/ InsertCapability(w) \/ Cancel(w)
    BY <1>1, <2>2 DEF ReadRun, CheckPending, ReachTerminal, FindDomain, ReadClaims, SupplyExhausted,
         SaveProgress, Snapshot, Inspect, AdvanceMechanical, CreateDomain, InsertCapability,
         Cancel
  <2>3. CASE \/ Activate(w) \/ LockAndPrepare(w) \/ BeginFile(w) \/ BeginOpaque(w)
             \/ Checkpoint(w) \/ Arm(w) \/ EnrollAtomic(w) \/ EnrollRestartable(w)
             \/ Correct(w) \/ Revoke(w) \/ Fault(w)
    BY <1>1, <2>3 DEF Activate, LockAndPrepare, BeginFile, BeginOpaque, Checkpoint, Arm,
         EnrollAtomic, EnrollRestartable, Correct, Revoke, Fault
  <2> QED BY <1>2, <1>3, <1>4, <1>5, <1>8, <1>9, <2>1, <2>2, <2>3 DEF Step

(* So has every step of the system.                                        *)
LEMMA NextFootprint ==
  ASSUME Inv, [Next]_vars
  PROVE  Footprint
<1>1. ASSUME NEW w \in Workers, Call(w) PROVE Footprint
  BY <1>1 DEF Call, StartSubmission, StartRefresh, StartCancel, Footprint
<1>2. ASSUME NEW w \in Workers, Step(w) PROVE Footprint BY <1>2, StepFootprint
<1>3. ASSUME NEW c \in Caps, Expire(c) PROVE Footprint BY <1>3 DEF Expire, Footprint
<1>4. CASE Crash BY <1>4 DEF Crash, Footprint
<1>5. CASE UNCHANGED vars BY <1>5 DEF vars, Footprint
<1> QED BY <1>1, <1>2, <1>3, <1>4, <1>5 DEF Next

(* A caller write takes effect in the epoch its capability was issued      *)
(* for, unless cancel made the run terminal under it (recheck_authority,   *)
(* and the absence of a transition while a submission is pending).         *)
THEOREM InEpoch == Spec => WritesInEpoch
<1>1. Inv /\ [Next]_vars =>
        [\A c \in Caps : effects'[c] # effects[c]
            => (caps[c].epoch = run.epoch \/ run.stage = "terminal")]_vars
  <2> SUFFICES ASSUME Inv, [Next]_vars, NEW c \in Caps, effects'[c] # effects[c]
               PROVE  caps[c].epoch = run.epoch \/ run.stage = "terminal"
    OBVIOUS
  <2>1. effects \in [Caps -> Nat] BY DEF Inv, TypeInv, TypeOK
  <2>2. Footprint BY NextFootprint
  <2>3. PICK d \in Caps : Lands1(d)
    BY <2>2 DEF Footprint, Reserve, Transition, Settles
  <2> QED BY <2>1, <2>3 DEF Lands1
<1> QED BY <1>1, Invariance, PTL DEF Spec, WritesInEpoch

(* No step changes the epoch of a capability that was issued.              *)
KeepsEpochs == \A c \in Caps : caps[c].issued => caps'[c].epoch = caps[c].epoch

(* No step of a thread changes it: a token is inserted once.               *)
LEMMA StepKeepsEpochs ==
  ASSUME Inv, NEW w \in Workers, Step(w)
  PROVE  KeepsEpochs
<1>0. caps \in [Caps -> CapRecords] /\ wk[w].cap \in Caps \cup {NoCap}
  BY DEF Inv, TypeInv, TypeOK, Threads
<1>1. CASE caps' = caps BY <1>1 DEF KeepsEpochs
<1>2. CASE caps' = AllRevoked BY <1>2, RevokedFacts DEF KeepsEpochs
<1>3. CASE Revoke(w)
  <2>1. PICK c : c = wk[w].cap /\ caps' = [caps EXCEPT ![c].revoked = TRUE]
    BY <1>3 DEF Revoke
  <2> QED BY <1>0, <2>1 DEF KeepsEpochs
<1>4. CASE InsertCapability(w)
  <2>1. PICK c \in Caps : /\ ~caps[c].issued
                          /\ caps' = [caps EXCEPT ![c].issued = TRUE, ![c].epoch = wk[w].epoch,
                                                  ![c].domain = wk[w].domain]
    BY <1>4 DEF InsertCapability
  <2> QED BY <1>0, <2>1 DEF KeepsEpochs
<1> QED
  <2>1. CASE \/ LookupMiss(w) \/ LookupHit(w) \/ Authorize(w) \/ Relookup(w)
             \/ ReserveRefused(w) \/ ActivateRefused(w) \/ WriteDenied(w) \/ WriteRejected(w)
             \/ RejectOpaque(w) \/ CommitRefused(w) \/ TransitionRefused(w)
             \/ Observe(w) \/ AnswerUnknown(w)
    BY <1>1, <2>1 DEF LookupMiss, LookupHit, Authorize, Relookup, ReserveRefused,
         ActivateRefused, WriteDenied, WriteRejected, RejectOpaque, CommitRefused,
         TransitionRefused, Observe, AnswerUnknown
  <2>2. CASE \/ ReadRun(w) \/ CheckPending(w) \/ ReachTerminal(w) \/ FindDomain(w) \/ ReadClaims(w)
             \/ SupplyExhausted(w) \/ SaveProgress(w) \/ Snapshot(w) \/ Inspect(w)
             \/ CreateDomain(w) \/ Reconcile(w) \/ Record(w) \/ Correct(w) \/ Finish(w)
    BY <1>1, <2>2 DEF ReadRun, CheckPending, ReachTerminal, FindDomain, ReadClaims, SupplyExhausted,
         SaveProgress, Snapshot, Inspect, CreateDomain, Reconcile, Record, Correct, Finish
  <2>3. CASE \/ Activate(w) \/ LockAndPrepare(w) \/ BeginFile(w) \/ BeginOpaque(w)
             \/ Checkpoint(w) \/ Arm(w) \/ EnrollAtomic(w) \/ EnrollRestartable(w)
             \/ Reserve(w) \/ Publish(w) \/ DatabaseWrite(w) \/ Fault(w)
    BY <1>1, <2>3 DEF Activate, LockAndPrepare, BeginFile, BeginOpaque, Checkpoint, Arm,
         EnrollAtomic, EnrollRestartable, Reserve, Publish, DatabaseWrite, Fault
  <2>4. CASE Transition(w) BY <1>2, <2>4 DEF Transition
  <2>5. CASE AdvanceMechanical(w) BY <1>1, <1>2, <2>5 DEF AdvanceMechanical
  <2>6. CASE Cancel(w) BY <1>1, <1>2, <2>6 DEF Cancel
  <2> QED BY <1>3, <1>4, <2>1, <2>2, <2>3, <2>4, <2>5, <2>6 DEF Step

(* Neither does any step of the system.                                    *)
LEMMA NextKeepsEpochs ==
  ASSUME Inv, [Next]_vars
  PROVE  KeepsEpochs
<1>1. ASSUME NEW w \in Workers, Call(w) PROVE KeepsEpochs
  BY <1>1 DEF Call, StartSubmission, StartRefresh, StartCancel, KeepsEpochs
<1>2. ASSUME NEW w \in Workers, Step(w) PROVE KeepsEpochs BY <1>2, StepKeepsEpochs
<1>3. ASSUME NEW c \in Caps, Expire(c) PROVE KeepsEpochs
  <2>1. caps \in [Caps -> CapRecords] BY RunFacts
  <2> QED BY <1>3, <2>1 DEF Expire, KeepsEpochs
<1>4. CASE Crash BY <1>4 DEF Crash, KeepsEpochs
<1>5. CASE UNCHANGED vars BY <1>5 DEF vars, KeepsEpochs
<1> QED BY <1>1, <1>2, <1>3, <1>4, <1>5 DEF Next

(* Two submissions never move the run from the same epoch: transition_on   *)
(* compares and advances the epoch in one transaction.                     *)
THEOREM CommitsApart == Spec => []OneCommitPerEpoch
<1>1. Init => OneCommitPerEpoch BY DEF Init, OneCommitPerEpoch
<1>2. Inv /\ OneCommitPerEpoch /\ [Next]_vars => OneCommitPerEpoch'
  <2> SUFFICES ASSUME Inv, OneCommitPerEpoch, [Next]_vars, NEW c \in Caps, NEW d \in Caps,
                      c # d, moved'[c] > 0, moved'[d] > 0
               PROVE  caps'[c].epoch # caps'[d].epoch
    BY DEF OneCommitPerEpoch
  <2>1. KeepsEpochs /\ Footprint BY NextKeepsEpochs, NextFootprint
  <2>2. ASSUME NEW e \in Caps, moved[e] > 0
        PROVE  /\ caps[e].issued /\ caps'[e].epoch = caps[e].epoch
               /\ caps[e].epoch < run.epoch
    BY <2>1, <2>2 DEF Inv, ReceiptExact, KeepsEpochs
  <2>3. CASE moved' = moved BY <2>2, <2>3 DEF OneCommitPerEpoch
  <2>4. CASE \E w \in Workers : Transition(w)
    <3>1. PICK w \in Workers : Transition(w) BY <2>4
    <3>2. PICK b \in Caps : b = wk[w].cap
      BY <3>1, HasCap DEF Transition, Serving
    <3>3. moved' = [moved EXCEPT ![b] = @ + 1] /\ caps[b].issued /\ caps[b].epoch = run.epoch
      BY <3>1, <3>2 DEF Transition, Live
    <3>4. moved \in [Caps -> Nat] BY DEF Inv, TypeInv, TypeOK
    <3>5. caps'[b].epoch = run.epoch BY <2>1, <3>3 DEF KeepsEpochs
    <3>6. \A e \in Caps : e # b /\ moved'[e] > 0 => moved[e] > 0 BY <3>3, <3>4
    <3>7. run.epoch \in Nat /\ caps[c].epoch \in Nat /\ caps[d].epoch \in Nat BY RunFacts
    <3>8. CASE c = b BY <2>2, <3>5, <3>6, <3>7, <3>8
    <3>9. CASE d = b BY <2>2, <3>5, <3>6, <3>7, <3>9
    <3>10. CASE c # b /\ d # b BY <2>2, <3>6, <3>10 DEF OneCommitPerEpoch
    <3> QED BY <3>8, <3>9, <3>10
  <2> QED BY <2>1, <2>3, <2>4 DEF Footprint, Reserve, Lands1, Settles
<1> QED BY <1>1, <1>2, Invariance, PTL DEF Spec

(* The entry of the ledger that the receipt of a submission stands for.    *)
Said(c) == IF Completed(c)
           THEN [disposition |-> receipt[c].result.disposition,
                 writes |-> receipt[c].result.writes,
                 complete |-> receipt[c].result.complete]
           ELSE [disposition |-> "none", writes |-> 0, complete |-> FALSE]
EntryOf(c) == Ledger!Entry(receipt[c].status, effects[c], moved[c], Said(c))

(* The refinement mapping, one entry at a time, now and in the next        *)
(* state.                                                                  *)
LEMMA BookEntries ==
  /\ Book = [c \in Caps |-> EntryOf(c)]
  /\ Book' = [c \in Caps |-> EntryOf(c)']
  /\ \A c \in Caps : Book[c] = EntryOf(c)
BY DEF Book, EntryOf, Said, Ledger!Entry

(* One entry is replaced, the others keep what they are about.             *)
LEMMA BookChange ==
  ASSUME NEW c \in Caps,
         \A d \in Caps : d # c => /\ receipt'[d] = receipt[d] /\ effects'[d] = effects[d]
                                  /\ moved'[d] = moved[d]
  PROVE  /\ Book' = [Book EXCEPT ![c] = EntryOf(c)']
         /\ Book[c].status = receipt[c].status /\ Book[c].landed = effects[c]
<1>1. \A d \in Caps : d # c => EntryOf(d)' = EntryOf(d)
  BY DEF EntryOf, Said, Completed, Ledger!Entry
<1>2. ASSUME NEW f, NEW g, f = [d \in Caps |-> EntryOf(d)], g = [d \in Caps |-> EntryOf(d)']
      PROVE  g = [f EXCEPT ![c] = EntryOf(c)']
  BY <1>1, <1>2
<1> QED BY <1>2, BookEntries DEF EntryOf, Ledger!Entry

(* An open submission has said nothing and moved nothing.                  *)
LEMMA OpenFacts ==
  ASSUME Inv, NEW c \in Caps, ~Completed(c)
  PROVE  Said(c) = Ledger!NoOutcome /\ moved[c] = 0
<1>1. ReceiptExact(c) /\ receipt[c].status \in {"absent", "pending", "completed"}
  BY DEF Inv, TypeInv, TypeOK, Receipts
<1> QED BY <1>1 DEF Said, Ledger!NoOutcome, Ledger!Outcome, ReceiptExact, Journal, Pending, Completed

(* reserve_submission opens an entry of the ledger.                        *)
LEMMA ReserveOpens ==
  ASSUME Inv, Inv', NEW w \in Workers, Reserve(w)
  PROVE  Ledger!Next
<1>1. PICK c \in Caps : c = wk[w].cap BY HasCap DEF Reserve, Serving
<1>2. /\ receipt[c].status = "absent" /\ \A d \in Caps : ~Pending(d)
      /\ receipt' = [receipt EXCEPT ![c].status = "pending", ![c].request = wk[w].request]
      /\ effects' = effects /\ moved' = moved
  BY <1>1 DEF Reserve, AnyPending
<1>3. receipt \in [Caps -> Receipts] /\ effects[c] = 0 /\ moved[c] = 0
  BY <1>2 DEF Inv, TypeInv, TypeOK, ReceiptExact
<1>4. receipt'[c].status = "pending" /\ \A d \in Caps : d # c => receipt'[d] = receipt[d]
  BY <1>2, <1>3 DEF Receipts
<1>5. Said(c) = Ledger!NoOutcome BY <1>2, OpenFacts DEF Completed
<1>6. Said(c)' = Ledger!NoOutcome
  BY <1>4 DEF Said, Completed, Ledger!NoOutcome, Ledger!Outcome
<1>7. Book[c] = Ledger!Absent
  BY <1>2, <1>3, <1>5, BookEntries DEF EntryOf, Ledger!Absent
<1>8. EntryOf(c)' = Ledger!Entry("pending", 0, 0, Ledger!NoOutcome)
  BY <1>2, <1>3, <1>4, <1>6 DEF EntryOf, Ledger!Entry
<1>9. Book' = [Book EXCEPT ![c] = Ledger!Entry("pending", 0, 0, Ledger!NoOutcome)]
  BY <1>2, <1>4, <1>8, BookChange
<1>10. \A d \in Caps : Book[d].status # "pending"
  BY <1>2, BookEntries DEF EntryOf, Pending, Ledger!Entry
<1>11. Ledger!OpenEntry(c) BY <1>7, <1>9, <1>10 DEF Ledger!OpenEntry
<1> QED BY <1>11 DEF Ledger!Next

(* A caller write that takes effect lands in the open entry.               *)
LEMMA WriteLands ==
  ASSUME Inv, NEW c \in Caps, Lands1(c)
  PROVE  Ledger!Next
<1>1. /\ receipt[c].status = "pending" /\ effects' = [effects EXCEPT ![c] = @ + 1]
      /\ receipt' = receipt /\ moved' = moved
  BY DEF Lands1, Pending
<1>2. effects \in [Caps -> Nat] BY DEF Inv, TypeInv, TypeOK
<1>3. effects'[c] = effects[c] + 1 /\ \A d \in Caps : d # c => effects'[d] = effects[d]
  BY <1>1, <1>2
<1>4. Said(c)' = Ledger!NoOutcome /\ moved[c] = 0
  <2>1. Said(c)' = Said(c) BY <1>1 DEF Said, Completed
  <2> QED BY <1>1, <2>1, OpenFacts DEF Completed
<1>5. EntryOf(c)' = Ledger!Entry("pending", effects[c] + 1, 0, Ledger!NoOutcome)
  BY <1>1, <1>3, <1>4 DEF EntryOf, Ledger!Entry
<1>6. /\ Book' = [Book EXCEPT ![c] = EntryOf(c)'] /\ Book[c].landed = effects[c]
      /\ Book[c].status = "pending"
  BY <1>1, <1>3, BookChange
<1>7. Ledger!Land(c) BY <1>5, <1>6 DEF Ledger!Land
<1> QED BY <1>7 DEF Ledger!Next

(* transition_task closes its entry as complete and exact.                 *)
LEMMA TransitionCommits ==
  ASSUME Inv, Inv', NEW w \in Workers, Transition(w)
  PROVE  Ledger!Next
<1>1. PICK c \in Caps : c = wk[w].cap BY HasCap DEF Transition, Serving
<1>2. /\ receipt[c].status = "pending" /\ effects' = effects
      /\ moved' = [moved EXCEPT ![c] = @ + 1]
      /\ \E next : receipt' = Finished(c, Applied(next, ckpt[c].accepted, TRUE))
  BY <1>1 DEF Transition, CheckTask, Pending
<1>3. receipt \in [Caps -> Receipts] /\ moved \in [Caps -> Nat] BY DEF Inv, TypeInv, TypeOK
<1>4. /\ receipt'[c].status = "completed" /\ receipt'[c].result.complete = TRUE
      /\ receipt'[c].result.disposition = "applied"
      /\ \A d \in Caps : d # c => receipt'[d] = receipt[d]
  BY <1>2, <1>3 DEF Finished, Applied, Receipts
<1>5. receipt'[c].result.writes = effects[c]
  BY <1>2, <1>4 DEF Inv, ReceiptExact, Completed
<1>6. moved'[c] = 1 /\ \A d \in Caps : d # c => moved'[d] = moved[d]
  BY <1>2, <1>3, OpenFacts DEF Completed
<1>7. Said(c)' = Ledger!Outcome("applied", effects[c], TRUE)
  BY <1>4, <1>5 DEF Said, Completed, Ledger!Outcome
<1>8. EntryOf(c)' = Ledger!Entry("completed", effects[c], 1,
                                 Ledger!Outcome("applied", effects[c], TRUE))
  BY <1>2, <1>4, <1>6, <1>7 DEF EntryOf, Ledger!Entry
<1>9. /\ Book' = [Book EXCEPT ![c] = EntryOf(c)'] /\ Book[c].landed = effects[c]
      /\ Book[c].status = "pending"
  BY <1>2, <1>4, <1>6, BookChange
<1>10. Ledger!Commit(c) BY <1>8, <1>9 DEF Ledger!Commit
<1> QED BY <1>10 DEF Ledger!Next

(* A receipt that is completed by recording or by recovery closes its      *)
(* entry with the exact count.                                             *)
LEMMA SettlementCloses ==
  ASSUME Inv, Inv', NEW c \in Caps, Settles(c)
  PROVE  Ledger!Next
<1>1. /\ receipt[c].status = "pending" /\ receipt'[c].status = "completed"
      /\ \A d \in Caps : d # c => receipt'[d] = receipt[d]
      /\ effects' = effects /\ moved' = moved
  BY DEF Settles, Pending
<1>2. receipt' \in [Caps -> Receipts] /\ ReceiptExact(c)'
  BY DEF Inv, TypeInv, TypeOK
<1>3. PICK res \in Results : res = receipt'[c].result BY <1>2 DEF Receipts
<1>4. moved[c] = 0 BY <1>1, OpenFacts DEF Completed
<1>5. res.writes = effects[c] /\ res.complete = FALSE
  BY <1>1, <1>2, <1>3, <1>4 DEF ReceiptExact, Completed, Results
<1>6. PICK d \in Ledger!Dispositions : d = res.disposition
  BY <1>3 DEF Results, Ledger!Dispositions
<1>7. Said(c)' = Ledger!Outcome(d, effects[c], FALSE)
  BY <1>1, <1>3, <1>5, <1>6 DEF Said, Completed, Ledger!Outcome
<1>8. EntryOf(c)' = Ledger!Entry("completed", effects[c], 0, Ledger!Outcome(d, effects[c], FALSE))
  BY <1>1, <1>4, <1>7 DEF EntryOf, Ledger!Entry
<1>9. /\ Book' = [Book EXCEPT ![c] = EntryOf(c)'] /\ Book[c].landed = effects[c]
      /\ Book[c].status = "pending"
  BY <1>1, BookChange
<1>10. Ledger!Close(c, d) BY <1>8, <1>9 DEF Ledger!Close
<1> QED BY <1>6, <1>10 DEF Ledger!Next

(* The submission protocol implements the client's ledger, for every set   *)
(* of tokens, threads and requests: a receipt closes once, with the exact  *)
(* number of caller writes that took effect, and is complete iff the run   *)
(* moved for it.                                                           *)
THEOREM LedgerRefinement == Spec => ImplementsLedger
<1>1. Init => Ledger!Init
  BY DEF Init, Ledger!Init, Book, NoReceipt, Completed, Ledger!Absent, Ledger!Entry,
         Ledger!NoOutcome, Ledger!Outcome
<1>2. Inv /\ Inv' /\ [Next]_vars => [Ledger!Next]_Book
  <2> SUFFICES ASSUME Inv, Inv', [Next]_vars PROVE Ledger!Next \/ Book' = Book OBVIOUS
  <2>1. Footprint BY NextFootprint
  <2>2. CASE UNCHANGED <<receipt, effects, moved>> BY <2>2 DEF Book, Completed
  <2> QED BY <2>1, <2>2, ReserveOpens, TransitionCommits, WriteLands, SettlementCloses
          DEF Footprint
<1> QED BY <1>1, <1>2, Invariance, PTL DEF Spec, ImplementsLedger, Ledger!Spec

-----------------------------------------------------------------------------
(* What recovery relies on beyond Inv: an action is armed after the last   *)
(* caller write, an enrolled action never looks restartable, and a thread  *)
(* about to enrol its action is the first to do so.                        *)
CommitExact == \A c \in Caps : ckpt[c].phase = "commit_ready" =>
    /\ ckpt[c].expected = ckpt[c].accepted
    /\ ckpt[c].atomic => ckpt[c].marker.kind = "between"
FirstEnrolment == \A w \in Workers : wk[w].pc = "commit" => ~ckpt[wk[w].cap].atomic

(* A step of w after which only threads that were there are at `commit'.   *)
NoneNew(w) == \A v \in Workers : wk'[v].pc = "commit" => v # w /\ wk'[v] = wk[v]

(* Only Arm brings a thread to `commit'.                                   *)
LEMMA StepsElsewhere ==
  ASSUME Inv, NEW w \in Workers, Step(w), ~Arm(w)
  PROVE  NoneNew(w)
<1>1. wk \in [Workers -> Threads] BY DEF Inv, TypeInv, TypeOK
<1>2. ASSUME NEW l \in Labels, l # "commit", Goto(w, l) \/ DropGuard(w, l) PROVE NoneNew(w)
  BY <1>1, <1>2, GotoFacts, DropFacts DEF OnlyThread, NoneNew
<1>3. ASSUME NEW r, r.pc # "commit", wk' = [wk EXCEPT ![w] = r] PROVE NoneNew(w)
  BY <1>1, <1>3 DEF NoneNew
<1>4. Return(w) => NoneNew(w)
  BY <1>3 DEF Return, Idle
<1>5. Leave(w) => NoneNew(w)
  BY <1>2, <1>4 DEF Leave, Labels
<1>6. Proceed(w) => NoneNew(w)
  BY <1>1, <1>4 DEF Proceed, NoneNew, Threads
<1>7. ASSUME NEW l, l # "commit", NEW x,
             \/ wk' = [wk EXCEPT ![w].pc = l, ![w].evidence = x]
             \/ wk' = [wk EXCEPT ![w].pc = l, ![w].outcome = x]
             \/ wk' = [wk EXCEPT ![w].pc = l, ![w].stage = x]
             \/ wk' = [wk EXCEPT ![w].pc = l, ![w].domain = x]
             \/ wk' = [wk EXCEPT ![w].pc = l, ![w].epoch = x]
             \/ wk' = [wk EXCEPT ![w].pc = l, ![w].observed = x]
             \/ wk' = [wk EXCEPT ![w].snap = x, ![w].pc = l]
      PROVE  NoneNew(w)
  BY <1>1, <1>7 DEF NoneNew, Threads
<1>8. ASSUME NEW x, wk[w].pc # "commit",
             wk' = [wk EXCEPT ![w].done = @ + 1] \/ wk' = [wk EXCEPT ![w].stage = x]
      PROVE  NoneNew(w)
  BY <1>1, <1>8 DEF NoneNew, Threads
<1>9. LockAndPrepare(w) => NoneNew(w)
  <2>1. ASSUME LockAndPrepare(w) PROVE \E x : wk' = [wk EXCEPT ![w].pc = "begin", ![w].evidence = x]
    BY <2>1, Zenon DEF LockAndPrepare
  <2> QED BY <1>7, <2>1
<1>10. Checkpoint(w) => NoneNew(w)
  <2> SUFFICES ASSUME Checkpoint(w) PROVE NoneNew(w) OBVIOUS
  <2> DEFINE accepted == [wk EXCEPT ![w].pc = "write", ![w].done = @ + 1, ![w].evidence = Plain("absent")]
  <2>1. CASE wk' = accepted BY <1>1, <2>1 DEF NoneNew, Threads
  <2>2. CASE DropGuard(w, "correct") BY <1>2, <2>2 DEF Labels, Executing
  <2>3. DropGuard(w, "correct") \/ wk' = accepted
    <3> DEFINE c == wk[w].cap
    <3>1. IF /\ Pending(c) /\ ckpt[c].phase = "running"
             /\ ckpt[c].accepted = wk[w].done /\ ckpt[c].expected > wk[w].done
             /\ ckpt[c].marker # Plain("between")
          THEN wk' = accepted ELSE DropGuard(w, "correct")
      BY DEF Checkpoint
    <3> QED BY <3>1, Zenon
  <2> HIDE DEF accepted
  <2> QED BY <2>1, <2>2, <2>3
<1>11. DatabaseWrite(w) => NoneNew(w)
  <2> SUFFICES ASSUME DatabaseWrite(w) PROVE NoneNew(w) OBVIOUS
  <2>1. wk[w].pc # "commit" BY DEF DatabaseWrite, At
  <2>2. CASE wk' = [wk EXCEPT ![w].done = @ + 1] BY <1>8, <2>1, <2>2
  <2>3. CASE Goto(w, "correct") BY <1>2, <2>3 DEF Labels, Executing
  <2>4. wk' = [wk EXCEPT ![w].done = @ + 1] \/ Goto(w, "correct") BY DEF DatabaseWrite
  <2> QED BY <2>2, <2>3, <2>4
<1>12. SaveProgress(w) \/ Correct(w) => NoneNew(w)
  BY <1>7 DEF SaveProgress, Correct
<1>13. Transition(w) => NoneNew(w)
  <2>1. ASSUME Transition(w) PROVE \E x : wk' = [wk EXCEPT ![w].pc = "record", ![w].outcome = x]
    BY <2>1, Zenon DEF Transition
  <2> QED BY <1>7, <2>1
<1>14. Snapshot(w) => NoneNew(w)
  <2>1. ASSUME Snapshot(w)
        PROVE  \E l, x : l # "commit" /\ wk' = [wk EXCEPT ![w].snap = x, ![w].pc = l]
    <3>1. PICK l : l = IF ckpt[wk[w].cap].marker.kind = "file" THEN "inspect" ELSE "reconcile"
      OBVIOUS
    <3>2. PICK x : x = ckpt[wk[w].cap]
      OBVIOUS
    <3>3. wk' = [wk EXCEPT ![w].snap = x, ![w].pc = l]
      BY <2>1, <3>1, <3>2 DEF Snapshot
    <3>4. l # "commit"
      BY <3>1
    <3> QED BY <3>3, <3>4
  <2> QED BY <1>7, <2>1
<1>15. Inspect(w) => NoneNew(w)
  BY <1>4, <1>7 DEF Inspect
<1>16. ReadRun(w) => NoneNew(w)
  BY <1>7 DEF ReadRun
<1>17. AdvanceMechanical(w) => NoneNew(w)
  <2>1. ASSUME AdvanceMechanical(w) PROVE Leave(w) \/ \E x : wk' = [wk EXCEPT ![w].stage = x]
    BY <2>1, Zenon DEF AdvanceMechanical
  <2>2. AdvanceMechanical(w) => wk[w].pc # "commit"
    BY DEF AdvanceMechanical, At
  <2> QED BY <1>5, <1>8, <2>1, <2>2
<1>18. FindDomain(w) => NoneNew(w)
  BY <1>2, <1>7 DEF FindDomain, Labels, Executing
<1>19. CreateDomain(w) \/ ReadClaims(w) => NoneNew(w)
  BY <1>5, <1>7 DEF CreateDomain, ReadClaims
<1>. USE <1>2, <1>4, <1>5, <1>6 DEF Labels, Executing
<1> QED
  <2>1. CASE \/ LookupMiss(w) \/ LookupHit(w) \/ Authorize(w) \/ Relookup(w)
             \/ Reserve(w) \/ ReserveRefused(w) \/ Activate(w) \/ ActivateRefused(w)
             \/ WriteDenied(w) \/ WriteRejected(w) \/ BeginFile(w) \/ BeginOpaque(w) \/ RejectOpaque(w)
    BY <2>1 DEF LookupMiss, LookupHit, Authorize, Relookup, Reserve, ReserveRefused, Activate, ActivateRefused,
         WriteDenied, WriteRejected, BeginFile, BeginOpaque, RejectOpaque
  <2>2. CASE \/ Publish(w) \/ CommitRefused(w) \/ EnrollAtomic(w) \/ EnrollRestartable(w) \/ TransitionRefused(w)
             \/ Record(w) \/ Observe(w) \/ AnswerUnknown(w) \/ Revoke(w) \/ Finish(w) \/ Reconcile(w)
    BY <2>2 DEF Publish, CommitRefused, EnrollAtomic, EnrollRestartable, TransitionRefused, Record, Observe,
         AnswerUnknown, Revoke, Finish, Reconcile
  <2>3. CASE \/ CheckPending(w) \/ ReachTerminal(w) \/ InsertCapability(w) \/ SupplyExhausted(w) \/ Cancel(w) \/ Fault(w)
    BY <2>3 DEF CheckPending, ReachTerminal, InsertCapability, SupplyExhausted, Cancel, Fault
  <2> QED BY <1>9, <1>10, <1>11, <1>12, <1>13, <1>14, <1>15, <1>16, <1>17, <1>18, <1>19, <2>1, <2>2, <2>3 DEF Step

GapInv == CommitExact /\ FirstEnrolment

(* A step that neither touches the journal nor arms an action.             *)
LEMMA QuietKeepsGaps ==
  ASSUME GapInv, ckpt' = ckpt, \A v \in Workers : wk'[v].pc = "commit" => wk'[v] = wk[v]
  PROVE  GapInv'
BY DEF GapInv, CommitExact, FirstEnrolment

(* A step that writes the journal of the submission its thread owns.       *)
LEMMA OwnerKeepsGaps ==
  ASSUME Inv, GapInv, NEW w \in Workers, wk[w].pc \in Owning, NoneNew(w),
         NEW c \in Caps, c = wk[w].cap, NEW k, ckpt' = [ckpt EXCEPT ![c] = k],
         k.phase = "commit_ready" => k.expected = k.accepted /\ (k.atomic => k.marker.kind = "between")
  PROVE  GapInv'
<1>1. ckpt \in [Caps -> Checkpoints] BY DEF Inv, TypeInv, TypeOK
<1>2. CommitExact' BY <1>1 DEF GapInv, CommitExact
<1>3. ASSUME NEW v \in Workers, wk'[v].pc = "commit" PROVE ~ckpt'[wk'[v].cap].atomic
  <2>1. v # w /\ wk'[v] = wk[v] /\ wk[v].pc = "commit" BY <1>3 DEF NoneNew
  <2>2. wk[v].cap \in Caps /\ wk[v].pc \in Owning
    BY <2>1, HasCap DEF Owning, Executing, Serving
  <2>3. wk[v].cap # c BY <2>1, <2>2 DEF Inv, OneOwner, Owns
  <2> QED BY <1>1, <2>1, <2>2, <2>3 DEF GapInv, FirstEnrolment
<1> QED BY <1>2, <1>3 DEF GapInv, FirstEnrolment

(* The entry of a submission whose thread has passed `activate'.           *)
LEMMA OwnerEntry ==
  ASSUME Inv, NEW w \in Workers, wk[w].pc \in Owning \ Serving
  PROVE  /\ wk[w].cap \in Caps /\ ckpt[wk[w].cap] \in Checkpoints
         /\ Pending(wk[w].cap) /\ ckpt[wk[w].cap].phase = "running" => ~ckpt[wk[w].cap].atomic
<1>1. wk[w].cap \in Caps BY HasCap
<1> QED BY <1>1 DEF Inv, TypeInv, TypeOK, ReceiptExact, Journal

(* The steps that write the journal.                                       *)
LEMMA JournalKeepsGaps ==
  ASSUME Inv, GapInv, NEW w \in Workers,
         \/ Activate(w) \/ BeginFile(w) \/ BeginOpaque(w) \/ Checkpoint(w) \/ DatabaseWrite(w)
         \/ EnrollAtomic(w) \/ EnrollRestartable(w) \/ Transition(w)
  PROVE  GapInv'
<1>1. wk[w].pc \in Owning \ Serving /\ wk[w].pc \in Owning
  BY DEF Activate, BeginFile, BeginOpaque, Checkpoint, DatabaseWrite, EnrollAtomic, EnrollRestartable, Transition,
         At, Owning, Executing, Serving
<1>2. NoneNew(w)
  <2>1. Step(w) BY DEF Step
  <2>2. ~Arm(w)
    BY DEF Arm, Activate, BeginFile, BeginOpaque, Checkpoint, DatabaseWrite, EnrollAtomic, EnrollRestartable,
         Transition, At
  <2> QED BY <2>1, <2>2, StepsElsewhere
<1>3. PICK c \in Caps : c = wk[w].cap /\ ckpt[c] \in Checkpoints
  BY <1>1, OwnerEntry
<1>4. ckpt \in [Caps -> Checkpoints] BY DEF Inv, TypeInv, TypeOK
<1>5. CASE ckpt' = ckpt
  BY <1>2, <1>5, QuietKeepsGaps DEF NoneNew
<1>6. ASSUME NEW k, ckpt' = [ckpt EXCEPT ![c] = k],
             k.phase = "commit_ready" => k.expected = k.accepted /\ (k.atomic => k.marker.kind = "between")
      PROVE  GapInv'
  BY <1>1, <1>2, <1>3, <1>6, OwnerKeepsGaps
<1>7. CASE Activate(w)
  <2>1. ckpt' = [ckpt EXCEPT ![c] = [ckpt[c] EXCEPT !.phase = "running", !.expected = Len(wk[w].request.writes),
                                                    !.marker = Plain("between")]]
    BY <1>3, <1>4, <1>7 DEF Activate
  <2> QED BY <1>3, <1>6, <2>1 DEF Checkpoints
<1>8. CASE BeginFile(w) \/ BeginOpaque(w)
  <2>1. \/ ckpt' = ckpt
        \/ /\ ckpt[c].phase = "running"
           /\ \E m : ckpt' = [ckpt EXCEPT ![c] = [ckpt[c] EXCEPT !.marker = m]]
    BY <1>3, <1>4, <1>8 DEF BeginFile, BeginOpaque, SlotFree
  <2> QED BY <1>3, <1>5, <1>6, <2>1 DEF Checkpoints
<1>9. CASE Checkpoint(w) \/ DatabaseWrite(w)
  <2>1. \/ ckpt' = ckpt
        \/ /\ ckpt[c].phase = "running"
           /\ \/ ckpt' = [ckpt EXCEPT ![c] = [ckpt[c] EXCEPT !.accepted = wk[w].done + 1]]
              \/ ckpt' = [ckpt EXCEPT ![c] = [ckpt[c] EXCEPT !.accepted = wk[w].done + 1,
                                                             !.marker = Plain("between")]]
    BY <1>3, <1>4, <1>9 DEF Checkpoint, DatabaseWrite, SlotFree
  <2> QED BY <1>3, <1>5, <1>6, <2>1 DEF Checkpoints
<1>10. CASE EnrollAtomic(w)
  <2>1. \/ ckpt' = ckpt
        \/ /\ ckpt[c].expected = ckpt[c].accepted /\ ckpt[c].marker.kind = "between"
           /\ ckpt' = [ckpt EXCEPT ![c] = [ckpt[c] EXCEPT !.atomic = TRUE]]
    BY <1>3, <1>4, <1>10 DEF EnrollAtomic, CheckTask, Plain
  <2> QED BY <1>3, <1>5, <1>6, <2>1 DEF Checkpoints
<1>11. CASE EnrollRestartable(w)
  <2>1. \/ ckpt' = ckpt
        \/ /\ ckpt[c].expected = ckpt[c].accepted /\ ~ckpt[c].atomic
           /\ ckpt' = [ckpt EXCEPT ![c] = [ckpt[c] EXCEPT !.marker = Plain("restartable")]]
    BY <1>3, <1>4, <1>11 DEF EnrollRestartable, CheckTask, GapInv, FirstEnrolment, At
  <2> QED BY <1>3, <1>5, <1>6, <2>1 DEF Checkpoints
<1>12. CASE Transition(w)
  <2>1. /\ ckpt[c].expected = ckpt[c].accepted
        /\ ckpt' = [ckpt EXCEPT ![c] = [ckpt[c] EXCEPT !.marker = Plain("between")]]
    BY <1>3, <1>4, <1>12 DEF Transition, CheckTask
  <2> QED BY <1>3, <1>6, <2>1 DEF Checkpoints, Plain
<1> QED BY <1>7, <1>8, <1>9, <1>10, <1>11, <1>12

(* A reservation finds the checkpoint of its submission untouched.         *)
LEMMA ReserveKeepsGaps ==
  ASSUME Inv, GapInv, NEW w \in Workers, Reserve(w)
  PROVE  GapInv'
<1>1. wk[w].pc = "reserve" /\ wk[w].pc \notin Serving BY DEF Reserve, At, Serving
<1>2. PICK c \in Caps : c = wk[w].cap BY <1>1, HasCap
<1>3. /\ receipt[c].status = "absent"
      /\ ckpt' = [ckpt EXCEPT ![c] = [ckpt[c] EXCEPT !.phase = "prepared"]]
      /\ ckpt \in [Caps -> Checkpoints]
  BY <1>2 DEF Reserve, Inv, TypeInv, TypeOK
<1>4. NoneNew(w)
  <2>1. Step(w) /\ ~Arm(w) BY <1>1 DEF Step, Arm, At
  <2> QED BY <2>1, StepsElsewhere
<1>5. CommitExact'
  BY <1>3 DEF GapInv, CommitExact, Checkpoints
<1>6. ASSUME NEW v \in Workers, wk'[v].pc = "commit" PROVE ~ckpt'[wk'[v].cap].atomic
  <2>1. wk'[v] = wk[v] /\ wk[v].pc = "commit" BY <1>4, <1>6 DEF NoneNew
  <2>2. wk[v].cap \in Caps /\ wk[v].cap # NoCap /\ wk[v].pc \in Owning
    BY <2>1, HasCap DEF Owning, Executing, Serving
  <2>3. receipt[wk[v].cap].status # "absent" BY <2>2 DEF Inv, ThreadOK
  <2>4. ckpt'[wk[v].cap] = ckpt[wk[v].cap] BY <1>3, <2>2, <2>3
  <2> QED BY <2>1, <2>4 DEF GapInv, FirstEnrolment
<1> QED BY <1>5, <1>6 DEF GapInv, FirstEnrolment

(* Arming finds every caller write accepted and no action enrolled.        *)
LEMMA ArmKeepsGaps ==
  ASSUME Inv, GapInv, NEW w \in Workers, Arm(w)
  PROVE  GapInv'
<1>1. wk[w].pc \in Owning \ Serving BY DEF Arm, At, Owning, Executing, Serving
<1>2. PICK c \in Caps : c = wk[w].cap /\ ckpt[c] \in Checkpoints
  BY <1>1, OwnerEntry
<1>3. ckpt \in [Caps -> Checkpoints] /\ wk \in [Workers -> Threads] BY DEF Inv, TypeInv, TypeOK
<1>4. CASE Goto(w, "observe") /\ ckpt' = ckpt
  <2>1. wk'[w].pc = "observe" /\ \A v \in Workers : v # w => wk'[v] = wk[v]
    BY <1>3, <1>4, GotoFacts DEF OnlyThread, Labels
  <2> QED BY <1>4, <2>1, QuietKeepsGaps
<1>5. CASE /\ Pending(c) /\ ckpt[c].phase = "running" /\ ckpt[c].marker = Plain("between")
           /\ ckpt[c].accepted = ckpt[c].expected
           /\ ckpt' = [ckpt EXCEPT ![c].phase = "commit_ready"] /\ Goto(w, "commit")
  <2>1. ~ckpt[c].atomic BY <1>1, <1>2, <1>5, OwnerEntry
  <2>2. /\ ckpt'[c].expected = ckpt'[c].accepted /\ ~ckpt'[c].atomic
        /\ \A d \in Caps \ {c} : ckpt'[d] = ckpt[d]
    BY <1>3, <1>5, <2>1 DEF Checkpoints
  <2>3. CommitExact' BY <2>2 DEF GapInv, CommitExact
  <2>4. wk'[w].cap = c /\ \A v \in Workers : v # w => wk'[v] = wk[v]
    BY <1>2, <1>3, <1>5, GotoFacts DEF OnlyThread, Same, Labels, Executing
  <2>5. ASSUME NEW v \in Workers, wk'[v].pc = "commit" PROVE ~ckpt'[wk'[v].cap].atomic
    <3>1. CASE v = w BY <2>2, <2>4, <3>1
    <3>2. CASE v # w
      <4>1. wk'[v] = wk[v] /\ wk[v].pc = "commit" BY <2>4, <2>5, <3>2
      <4>2. wk[v].cap \in Caps /\ wk[v].pc \in Owning
        BY <4>1, HasCap DEF Owning, Executing, Serving
      <4>3. wk[v].cap # c BY <1>1, <1>2, <3>2, <4>2 DEF Inv, OneOwner, Owns
      <4> QED BY <2>2, <4>1, <4>2, <4>3 DEF GapInv, FirstEnrolment
    <3> QED BY <3>1, <3>2
  <2> QED BY <2>3, <2>5 DEF GapInv, FirstEnrolment
<1> QED BY <1>2, <1>4, <1>5 DEF Arm

LEMMA NextGaps == Inv /\ GapInv /\ [Next]_vars => GapInv'
<1> SUFFICES ASSUME Inv, GapInv, [Next]_vars PROVE GapInv' OBVIOUS
<1>0. wk \in [Workers -> Threads] BY DEF Inv, TypeInv, TypeOK
<1>1. ASSUME NEW w \in Workers, Call(w) PROVE GapInv'
  <2>1. ckpt' = ckpt BY <1>1 DEF Call, StartSubmission, StartRefresh, StartCancel
  <2>2. \A v \in Workers : wk'[v].pc = "commit" => wk'[v] = wk[v]
    <3>1. CASE StartRefresh(w)
      BY <1>0, <3>1, GotoFacts DEF StartRefresh, OnlyThread, Labels, Executing
    <3>2. CASE StartCancel(w)
      <4>1. PICK s : wk' = [wk EXCEPT ![w].pc = "cancel", ![w].stage = s] BY <3>2 DEF StartCancel
      <4> QED BY <1>0, <4>1 DEF Threads
    <3>3. CASE \E c \in Caps, r \in Requests, b \in BOOLEAN : StartSubmission(w, c, r, b)
      <4>1. PICK t : t.pc = "lookup" /\ wk' = [wk EXCEPT ![w] = t] BY <3>3 DEF StartSubmission, Idle
      <4> QED BY <1>0, <4>1
    <3> QED BY <1>1, <3>1, <3>2, <3>3 DEF Call
  <2> QED BY <2>1, <2>2, QuietKeepsGaps
<1>2. ASSUME NEW w \in Workers, Step(w) PROVE GapInv'
  <2>1. CASE Arm(w) BY <2>1, ArmKeepsGaps
  <2>2. CASE Reserve(w) BY <2>2, ReserveKeepsGaps
  <2>3. CASE \/ Activate(w) \/ BeginFile(w) \/ BeginOpaque(w) \/ Checkpoint(w) \/ DatabaseWrite(w)
             \/ EnrollAtomic(w) \/ EnrollRestartable(w) \/ Transition(w)
    BY <2>3, JournalKeepsGaps
  <2>4. CASE ckpt' = ckpt /\ ~Arm(w)
    <3>1. NoneNew(w) BY <1>2, <2>4, StepsElsewhere
    <3> QED BY <2>4, <3>1, QuietKeepsGaps DEF NoneNew
  <2>5. CASE \/ LookupMiss(w) \/ LookupHit(w) \/ Authorize(w) \/ Relookup(w)
             \/ ReserveRefused(w) \/ ActivateRefused(w) \/ WriteDenied(w) \/ WriteRejected(w)
             \/ LockAndPrepare(w) \/ Publish(w) \/ RejectOpaque(w) \/ CommitRefused(w) \/ TransitionRefused(w)
             \/ Observe(w) \/ AnswerUnknown(w) \/ Record(w) \/ Correct(w) \/ Revoke(w) \/ Finish(w)
    BY <2>1, <2>4, <2>5 DEF LookupMiss, LookupHit, Authorize, Relookup, ReserveRefused,
         ActivateRefused, WriteDenied, WriteRejected, LockAndPrepare, Publish, RejectOpaque, CommitRefused,
         TransitionRefused, Observe, AnswerUnknown, Record, Correct, Revoke, Finish
  <2>6. CASE \/ ReadRun(w) \/ CheckPending(w) \/ AdvanceMechanical(w) \/ ReachTerminal(w) \/ FindDomain(w)
             \/ CreateDomain(w) \/ ReadClaims(w) \/ InsertCapability(w) \/ SupplyExhausted(w) \/ Cancel(w)
             \/ SaveProgress(w) \/ Snapshot(w) \/ Inspect(w) \/ Reconcile(w) \/ Fault(w)
    BY <2>1, <2>4, <2>6 DEF ReadRun, CheckPending, AdvanceMechanical, ReachTerminal, FindDomain, CreateDomain,
         ReadClaims, InsertCapability, SupplyExhausted, Cancel, SaveProgress, Snapshot, Inspect, Reconcile, Fault
  <2> QED BY <1>2, <2>1, <2>2, <2>3, <2>5, <2>6 DEF Step
<1>3. ASSUME NEW c \in Caps, Expire(c) PROVE GapInv'
  BY <1>3, QuietKeepsGaps DEF Expire
<1>4. CASE Crash
  BY <1>4, QuietKeepsGaps DEF Crash, Idle
<1>5. CASE UNCHANGED vars
  BY <1>5, QuietKeepsGaps DEF vars
<1> QED BY <1>1, <1>2, <1>3, <1>4, <1>5 DEF Next

(* A pending submission whose journal proves no count is one of three.     *)
LEMMA GapsAreKnown == Inv /\ GapInv => OnlyKnownGaps
<1> SUFFICES ASSUME Inv, GapInv, NEW c \in Caps, Pending(c), Unsettled(c),
                    ckpt[c].marker.kind # "opaque",
                    ~(ckpt[c].marker.kind = "file" /\ ckpt[c].marker.before = ckpt[c].marker.after)
             PROVE  ckpt[c].phase = "commit_ready" /\ ~ckpt[c].atomic /\ ckpt[c].marker = Plain("between")
  BY DEF OnlyKnownGaps, Abandoned
<1> DEFINE o == IF ckpt[c].marker.kind = "file" THEN file[ckpt[c].marker.path] ELSE <<>>
<1>1. PICK k \in Checkpoints : k = ckpt[c] BY DEF Inv, TypeInv, TypeOK
<1>2. PICK m \in Markers : m = k.marker BY DEF Checkpoints
<1>3. Journal(c) BY DEF Inv, ReceiptExact
<1>4. ConfirmedWrites(k, o) = {} BY <1>1 DEF Unsettled, Evidenced
<1>5. k.phase # "prepared"
  BY <1>1, <1>3, <1>4 DEF Journal, ConfirmedWrites
<1>6. k.phase # "running"
  <2> SUFFICES ASSUME k.phase = "running" PROVE FALSE OBVIOUS
  <2>1. m.kind \in {"between", "file"} /\ ~k.atomic /\ k.accepted \in Nat /\ k.expected \in Nat
    BY <1>1, <1>2, <1>3 DEF Journal, Checkpoints
  <2>2. CASE m.kind = "between"
    BY <1>1, <1>2, <1>3, <1>4, <2>1, <2>2 DEF Journal, ConfirmedWrites
  <2>3. CASE m.kind = "file"
    <3>1. /\ k.accepted < k.expected /\ m.before # m.after
          /\ o = m.before \/ o = m.after
      BY <1>1, <1>2, <1>3, <2>3 DEF Journal
    <3>2. k.accepted \in ConfirmedWrites(k, o) \/ k.accepted + 1 \in ConfirmedWrites(k, o)
      BY <1>2, <2>1, <2>3, <3>1 DEF ConfirmedWrites
    <3> QED BY <1>4, <3>2
  <2> QED BY <2>1, <2>2, <2>3
<1>7. k.phase = "commit_ready" /\ m.kind \in {"between", "restartable"} /\ k.expected = k.accepted
      /\ (k.atomic => m.kind = "between")
  BY <1>1, <1>2, <1>3, <1>5, <1>6 DEF Journal, GapInv, CommitExact
<1>8. ~k.atomic /\ m.kind = "between"
  BY <1>2, <1>4, <1>7 DEF ConfirmedWrites, Checkpoints
<1>9. m = Plain("between")
  BY <1>8 DEF Markers, PlainMarkers, FileMarkers, Plain
<1> QED BY <1>1, <1>2, <1>7, <1>8, <1>9

(* What recover_only cannot settle is one of the three gaps its messages   *)
(* name, for any number of threads and crashes: the journal proves the     *)
(* count of every other abandoned submission (reconcile_caller_writes).    *)
THEOREM GapsKnown == Spec => []OnlyKnownGaps
<1>1. Init => GapInv BY DEF Init, GapInv, CommitExact, FirstEnrolment, NoCheckpoint, Idle
<1>2. Inv /\ GapInv /\ [Next]_vars => GapInv' BY NextGaps
<1>3. Inv /\ GapInv => OnlyKnownGaps BY GapsAreKnown
<1> QED BY <1>1, <1>2, <1>3, Invariance, PTL DEF Spec
=============================================================================
