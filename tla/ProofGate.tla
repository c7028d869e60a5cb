------------------------------ MODULE ProofGate -----------------------------
(***************************************************************************)
(* From the assessment of a problem to the published proof: assembly, the  *)
(* LaTeX gate, verification, repair, the escalation of a compact run to a  *)
(* full one, and finalization.                                             *)
(*                                                                         *)
(* Code: mtm-workflow engine.rs (commit_assessment_complete,               *)
(* commit_proof_submitted, commit_verification_submitted,                  *)
(* commit_repair_submitted, run_latex_gate, finalize), vault.rs,           *)
(* mtm-storage mechanical_transitions.rs (complete_latex_gate).            *)
(*                                                                         *)
(* The gates run inside next_task, on the run that call read at its start; *)
(* the compiler takes seconds.  Several such calls may overlap.  Of        *)
(* submissions there is one at a time (OnePending of StepSubmission).  How *)
(* tokens are issued is left to StepSubmission: a submission is live until *)
(* the run leaves the state its token was issued in.                       *)
(***************************************************************************)
EXTENDS Naturals

CONSTANTS
    Proofs,      \* contents of draft/proof.tex
    Compiles,    \* those the LaTeX gate can accept
    NoProof,
    Refreshers,  \* threads that serve next_task
    Hazards      \* what the environment of an instance does

ProofAssumption ==
    /\ Compiles \subseteq Proofs
    /\ NoProof \notin Proofs
    /\ Hazards \subseteq {"crash", "cancel"}

(* A compact run is given up after this many rejections.                   *)
CompactFailures == 2

Drafts == Proofs \cup {NoProof}
States == {"assess", "explore", "assemble", "latex_validate", "verify", "repair",
           "finalize", "done", "cancelled"}
Tasks == {"assess", "explore", "assemble", "verify", "repair"}
Verdicts == {"none", "correct", "wrong"}

(* metadata_json, as far as these handlers read or write it.  A gate       *)
(* result is its verdict: two results with equal verdicts can be equal     *)
(* bytes, as they are whenever the compiler was not started.               *)
Metadata == [mode : {"unset", "compact", "full"}, failures : 0..CompactFailures,
             submitted : Drafts, latex : {"none", "passed", "failed"}, verified : Drafts]

RunRecords == [state : States, latexPassed : BOOLEAN, verdict : Verdicts, meta : Metadata]

VARIABLES
    run,     \* the runs row
    draft,   \* vault: draft/proof.tex
    report,  \* vault: the verdict of verification/verification.json
    final,   \* vault: final/proof_verified.tex
    sub,     \* the pending submission
    rf       \* the refresh threads

vars == <<run, draft, report, final, sub, rf>>

NoSubmission == [pc |-> "none", live |-> FALSE, verdict |-> "none", proof |-> NoProof]

Fresh == [state |-> "assess", latexPassed |-> FALSE, verdict |-> "none",
          meta |-> [mode |-> "unset", failures |-> 0, submitted |-> NoProof,
                    latex |-> "none", verified |-> NoProof]]

Resting == [pc |-> "idle", run |-> Fresh, proof |-> NoProof]

Init ==
    /\ run = Fresh
    /\ draft = NoProof
    /\ report = "none"
    /\ final = NoProof
    /\ sub = NoSubmission
    /\ rf = [t \in Refreshers |-> Resting]

-----------------------------------------------------------------------------
(* Submissions.                                                            *)

Submit ==
    /\ sub.pc = "none" /\ run.state \in Tasks
    /\ sub' = [NoSubmission EXCEPT !.pc = "open", !.live = TRUE]
    /\ UNCHANGED <<run, draft, report, final, rf>>

(* A correction, a refusal or an interruption settled by recovery: files   *)
(* that were written stay.                                                 *)
Settle ==
    /\ sub.pc # "none"
    /\ sub' = NoSubmission
    /\ UNCHANGED <<run, draft, report, final, rf>>

Acting(state) == sub.pc = "open" /\ sub.live /\ run.state = state

(* Mutant of MayWriteProof: the verifier may edit the proof it judges.     *)
MayWriteProofVerifier == run.state \in {"assemble", "repair", "verify"}

(* default_permissions: write:proof belongs to assembler and repair.       *)
MayWriteProof == run.state \in {"assemble", "repair"}

(* Caller writes of a submission.                                          *)
WriteProof(p) ==
    /\ sub.pc = "open" /\ sub.live /\ MayWriteProof
    /\ draft' = p
    /\ UNCHANGED <<run, report, final, sub, rf>>

WriteReport(v) ==
    /\ Acting("verify")
    /\ report' = v
    /\ UNCHANGED <<run, draft, final, sub, rf>>

(* seal_atomic_transition: the run moves and the submission completes.     *)
Commit(newRun) ==
    /\ run' = newRun
    /\ sub' = NoSubmission
    /\ UNCHANGED <<draft, report, final, rf>>

AssessmentComplete(mode) ==
    /\ Acting("assess")
    /\ Commit([run EXCEPT !.state = IF mode = "compact" THEN "assemble" ELSE "explore",
                          !.meta.mode = mode])

(* The research of a full run (BranchRound) ends in assembly.              *)
ResearchComplete ==
    /\ Acting("explore")
    /\ Commit([run EXCEPT !.state = "assemble"])

Escalate ==
    /\ Acting("assemble") /\ run.meta.mode = "compact"
    /\ Commit([run EXCEPT !.state = "explore", !.meta.mode = "full"])

ProofSubmitted ==
    /\ Acting("assemble") /\ draft # NoProof
    /\ Commit([run EXCEPT !.state = "latex_validate", !.meta.submitted = draft])

(* Mutant of RepairSubmitted: a repair is taken for compiled already.      *)
RepairSkipsGate ==
    /\ Acting("repair") /\ draft # run.meta.verified
    /\ Commit([run EXCEPT !.state = "verify", !.latexPassed = TRUE, !.meta.submitted = draft])

(* commit_repair_submitted compares with the proof verified last.          *)
RepairSubmitted ==
    /\ Acting("repair") /\ draft # run.meta.verified
    /\ Commit([run EXCEPT !.state = "latex_validate", !.meta.submitted = draft])

(* commit_verification_submitted: proof and report are read, gaps the      *)
(* server finds turn the verdict, and the normalized report is published   *)
(* before the transition.                                                  *)
Judge(v) ==
    /\ Acting("verify") /\ report # "none"
    /\ v \in {report, "wrong"}
    /\ v = "correct" => run.latexPassed
    /\ report' = v
    /\ sub' = [sub EXCEPT !.pc = "judged", !.verdict = v, !.proof = draft]
    /\ UNCHANGED <<run, draft, final, rf>>

(* Mutant of Judged: the verified hash is kept from the last rejection.    *)
JudgedUnnamed(v, p) ==
    [run EXCEPT !.state = IF v = "correct" THEN "finalize" ELSE "repair", !.verdict = v]

(* The run after the verdict v on p: a second rejection makes a compact    *)
(* run a full one.                                                         *)
Judged(v, p) ==
    LET compact == run.meta.mode = "compact"
        failures == run.meta.failures + (IF v = "wrong" /\ compact THEN 1 ELSE 0)
        givenUp == v = "wrong" /\ compact /\ failures >= CompactFailures
    IN  [run EXCEPT !.state = IF v = "correct" THEN "finalize"
                              ELSE IF givenUp THEN "explore" ELSE "repair",
                    !.verdict = v,
                    !.meta.verified = p,
                    !.meta.failures = failures,
                    !.meta.mode = IF givenUp THEN "full" ELSE @]

VerificationSubmitted ==
    /\ sub.pc = "judged" /\ sub.live
    /\ Commit(Judged(sub.verdict, sub.proof))

-----------------------------------------------------------------------------
(* Refreshes: next_task with advance_mechanical.                           *)

At(t, label) == rf[t].pc = label
Goto(t, label) == rf' = [rf EXCEPT ![t].pc = label]
Rest(t) == rf' = [rf EXCEPT ![t] = Resting]

ReadRun(t) ==
    /\ At(t, "idle")
    /\ rf' = [rf EXCEPT ![t] = [pc |-> "refresh", run |-> run, proof |-> NoProof]]
    /\ UNCHANGED <<run, draft, report, final, sub>>

CheckPending(t) ==
    /\ At(t, "refresh")
    /\ IF sub.pc = "none" THEN Goto(t, "advance") ELSE Rest(t)
    /\ UNCHANGED <<run, draft, report, final, sub>>

Dispatch(t) ==
    LET state == rf[t].run.state IN
    /\ At(t, "advance")
    /\ IF state = "latex_validate" THEN Goto(t, "read")
       ELSE IF state = "finalize" THEN Goto(t, "permit") ELSE Rest(t)
    /\ UNCHANGED <<run, draft, report, final, sub>>

(* run_latex_gate reads the draft that is there by now.                    *)
ReadProof(t) ==
    /\ At(t, "read")
    /\ rf' = [rf EXCEPT ![t].pc = "compile", ![t].proof = draft]
    /\ UNCHANGED <<run, draft, report, final, sub>>

(* complete_latex_gate compares state and metadata, neither the epoch nor  *)
(* the proof.  A compiler that times out rejects any proof.                *)
CompleteGate(t, passed) ==
    /\ At(t, "compile")
    /\ passed => rf[t].proof \in Compiles
    /\ IF run.state = "latex_validate" /\ run.meta = rf[t].run.meta
       THEN run' = [run EXCEPT !.state = IF passed THEN "verify" ELSE "repair",
                               !.latexPassed = passed,
                               !.meta.latex = IF passed THEN "passed" ELSE "failed"]
       ELSE UNCHANGED run
    /\ Rest(t)
    /\ UNCHANGED <<draft, report, final, sub>>

(* finalize: the run that was read, the report and the draft must agree.   *)
Permitted(r) ==
    /\ r.latexPassed /\ r.verdict = "correct"
    /\ report = "correct"
    /\ draft = r.meta.verified

IssuePermit(t) ==
    /\ At(t, "permit")
    /\ IF Permitted(rf[t].run)
       THEN rf' = [rf EXCEPT ![t].pc = "publish", ![t].proof = draft]
       ELSE Rest(t)
    /\ UNCHANGED <<run, draft, report, final, sub>>

(* finalize_proof: existing bytes must be equal.                           *)
PublishFinal(t) ==
    /\ At(t, "publish")
    /\ IF draft = rf[t].proof /\ final \in {NoProof, draft}
       THEN final' = draft /\ Goto(t, "done")
       ELSE Rest(t) /\ UNCHANGED final
    /\ UNCHANGED <<run, draft, report, sub>>

CompleteFinalize(t) ==
    /\ At(t, "done")
    /\ run' = IF run.state = "finalize" THEN [run EXCEPT !.state = "done"] ELSE run
    /\ Rest(t)
    /\ UNCHANGED <<draft, report, final, sub>>

-----------------------------------------------------------------------------
(* The environment.                                                        *)

Cancel ==
    /\ "cancel" \in Hazards /\ run.state \notin {"done", "cancelled"}
    /\ run' = [run EXCEPT !.state = "cancelled"]
    /\ sub' = [sub EXCEPT !.live = FALSE]
    /\ UNCHANGED <<draft, report, final, rf>>

Crash ==
    /\ "crash" \in Hazards /\ \E t \in Refreshers : ~At(t, "idle")
    /\ rf' = [t \in Refreshers |-> Resting]
    /\ UNCHANGED <<run, draft, report, final, sub>>

Refresh(t) ==
    \/ ReadRun(t) \/ CheckPending(t) \/ Dispatch(t) \/ ReadProof(t)
    \/ (\E passed \in BOOLEAN : CompleteGate(t, passed))
    \/ IssuePermit(t) \/ PublishFinal(t) \/ CompleteFinalize(t)

Next ==
    \/ Submit \/ Settle
    \/ (\E p \in Proofs : WriteProof(p))
    \/ (\E v \in {"correct", "wrong"} : WriteReport(v) \/ Judge(v))
    \/ (\E m \in {"compact", "full"} : AssessmentComplete(m))
    \/ ResearchComplete \/ Escalate \/ ProofSubmitted \/ RepairSubmitted
    \/ VerificationSubmitted
    \/ \E t \in Refreshers : Refresh(t)
    \/ Cancel \/ Crash

Spec == Init /\ [][Next]_vars

-----------------------------------------------------------------------------
(* Properties.                                                             *)

(* Every row, file and thread keeps its type; a compact run is never       *)
(* rejected more often than CompactFailures.                               *)
TypeOK ==
    /\ run \in RunRecords
    /\ draft \in Drafts /\ final \in Drafts
    /\ report \in Verdicts
    /\ sub \in [pc : {"none", "open", "judged"}, live : BOOLEAN, verdict : Verdicts,
                proof : Drafts]
    /\ rf \in [Refreshers ->
                 [pc : {"idle", "refresh", "advance", "read", "compile", "permit", "publish",
                        "done"}, run : RunRecords, proof : Drafts]]

(* "the verifier and LaTeX gates accepted one exact proof": what is        *)
(* published as verified is accepted by the compiler.                      *)
PublishedCompiles == run.state = "done" => final \in Compiles

(* An approved run can always be finalized: whatever was repaired,         *)
(* interrupted, judged twice or published by a thread that died, no check  *)
(* of finalize denies a refresh that starts now.                           *)
NeverDenied == run.state = "finalize" => Permitted(run) /\ final \in {NoProof, draft}

Phase == CASE run.state = "verify"    -> "checked"
           [] run.state = "finalize"  -> "approved"
           [] run.state = "done"      -> "published"
           [] run.state = "cancelled" -> "dropped"
           [] OTHER                   -> "draft"
Paper == IF run.state \in {"verify", "finalize"} THEN draft
         ELSE IF run.state = "done" THEN final ELSE NoProof
Pipeline == INSTANCE ProofPipeline WITH phase <- Phase, paper <- Paper

(* The paper that passed the compiler is the one that is judged, and the   *)
(* one that was approved is the one that is published.                     *)
ImplementsPipeline == Pipeline!Spec
=============================================================================
