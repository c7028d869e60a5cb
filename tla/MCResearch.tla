----------------------------- MODULE MCResearch -----------------------------
(***************************************************************************)
(* The components that share no state with each other, checked side by     *)
(* side: a behaviour chooses at the start the one that runs.               *)
(***************************************************************************)
EXTENDS
    ResearchSnapshots, ResearchRecords, ResearchRetrieval, ResearchAdvice

VARIABLE focus

vars == <<focus, snapshotVars, recordVars, retrievalVars, adviceVars>>

Report(s, p, u, o) == [status |-> s, proved |-> p, unproved |-> u, obstructed |-> o]
MCReports == {Report("solved", {1}, {}, {}), Report("failed", {}, {}, {}), Report("partial", {1}, {2}, {}),
              Report("failed", {2}, {}, {1}), Report("partial", {1}, {}, {1})}

Init ==
    /\ focus \in {"snapshots", "records", "retrieval", "advice"}
    /\ SnapshotInit
    /\ RecordsInit
    /\ RetrievalInit
    /\ AdviceInit

Runs(c) == focus = c /\ UNCHANGED focus

(* Every component but c keeps its state.                                  *)
Rest(c) ==
    /\ IF c = "snapshots" THEN TRUE ELSE UNCHANGED snapshotVars
    /\ IF c = "records" THEN TRUE ELSE UNCHANGED recordVars
    /\ IF c = "retrieval" THEN TRUE ELSE UNCHANGED retrievalVars
    /\ IF c = "advice" THEN TRUE ELSE UNCHANGED adviceVars

Next ==
    \/ Runs("snapshots") /\ SnapshotNext /\ Rest("snapshots")
    \/ Runs("records") /\ RecordsNext /\ Rest("records")
    \/ Runs("retrieval") /\ RetrievalNext /\ Rest("retrieval")
    \/ Runs("advice") /\ AdviceNext /\ Rest("advice")

Spec == Init /\ [][Next]_vars

-----------------------------------------------------------------------------
(* What is derived from the graph of claims agrees with its definition:    *)
(* cycles, order, issues, solved plans and the work that is left           *)
(* (project_research_state).                                               *)
RoutesExact == focus = "snapshots" =>
    /\ CyclesAndOrderExact
    /\ IssuesReachDependents
    /\ SolvedRoutesStand
    /\ UnsolvedPlansHaveWork

(* The plans agree with the reports they were assembled from, a refuted    *)
(* claim blocks what needs it (assemble_branch, apply_event), and what the *)
(* records come to is a snapshot that the analysis accepts.                *)
RecordsAgree == focus = "records" =>
    /\ ValidSnapshot(Snapshot)
    /\ AssembledPlansAgree
    /\ RefutationStands
=============================================================================
