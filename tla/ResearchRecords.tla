-------------------------- MODULE ResearchRecords ---------------------------
(***************************************************************************)
(* The research records of a protocol-3 run over its rounds, and the state *)
(* of research that is rebuilt from them before every generator or repair  *)
(* task (research_state/normalize.rs, then ResearchGraph).                 *)
(*                                                                         *)
(* Records are only appended; the plans are replaced every round, with the *)
(* round in their identifiers.  The first plan of a round has two subgoals *)
(* in a chain, the others one.   A plan is the number 10 * round + index    *)
(* and its k-th node 10 * plan + k; the target is 1.  Every text is left   *)
(* out.  A record is accepted against the scope of the day (protocol.rs).  *)
(***************************************************************************)
EXTENDS ResearchGraph

CONSTANTS
    PlansPerRound,
    BranchReports,       \* the reports of a branch: [status, proved, unproved, obstructed]
    MaxResearchRounds,   \* bound: rounds of plans
    MaxResearchRecords   \* bound: records of memory, and results kept besides

VARIABLES
    phase,          \* what the run does
    roundIndex,     \* the branch rounds begun
    activePlans,    \* metadata.active_plans
    progress,       \* metadata.direct_screening_progress: a status of each active node
    branchResults,  \* the sealed results of every round
    memory          \* the channels of generation memory

recordVars == <<phase, roundIndex, activePlans, progress, branchResults, memory>>

Theorem == 1

Subgoals(p) == IF p % 10 = 1 THEN {10 * p + 1, 10 * p + 2} ELSE {10 * p + 1}

PlanOf(n) == n \div 10

Planned == UNION {Subgoals(p) : p \in activePlans}

(* ProtocolResearchScope: what a record may name when it is written.       *)
Scope == {Theorem} \cup Planned

-----------------------------------------------------------------------------
(* The nodes as the screening leaves them.                                 *)
ScreenedStatus(n) ==
    CASE progress[n] = "solved" -> "route_solved"
      [] progress[n] = "partial" -> "partial"
      [] progress[n] = "stuck" -> "blocked"
      [] OTHER -> "open"

(* A solved branch solves only the nodes it lists as proved.               *)
ApplyBranchListed(statuses, r) ==
    IF r.plan \notin activePlans THEN statuses
    ELSE [n \in DOMAIN statuses |->
            IF n \in r.proved THEN "route_solved"
            ELSE IF n \in r.unproved \cup r.obstructed /\ statuses[n] # "route_solved" THEN "blocked"
            ELSE statuses[n]]

(* One sealed result, if its plan is still active.                         *)
ApplyBranch(statuses, r) ==
    LET mine == Subgoals(r.plan)
        proved == IF r.status = "solved" THEN mine ELSE r.proved
        touched == r.proved \cup r.unproved
        told == IF r.status = "failed" /\ touched = {} THEN mine ELSE r.unproved
        blocked == IF r.status = "solved" THEN {} ELSE told \cup r.obstructed
    IN  IF r.plan \notin activePlans THEN statuses
        ELSE [n \in DOMAIN statuses |->
                IF n \in proved THEN "route_solved"
                ELSE IF n \in blocked /\ statuses[n] # "route_solved" THEN "blocked"
                ELSE statuses[n]]

AfterBranches(results) ==
    FoldLeft(ApplyBranch, [n \in Scope |-> IF n = Theorem THEN "open" ELSE ScreenedStatus(n)], results)

(* A counterexample that was found refutes its node if the node is known.  *)
Refutes(n) == \E i \in DOMAIN memory.counterexamples :
                memory.counterexamples[i] = [node |-> n, found |-> TRUE]

NodeStatus ==
    LET reported == AfterBranches(branchResults)
    IN  [n \in Scope |-> IF Refutes(n) THEN "refuted" ELSE reported[n]]

(* The snapshot handed to the analysis; every planned node is critical.    *)
Snapshot ==
    LET statuses == NodeStatus
    IN  [target |-> Theorem, active |-> activePlans,
         nodes |-> [n \in Scope |->
            [status |-> statuses[n], critical |-> n # Theorem,
             plan |-> IF n = Theorem THEN 0 ELSE PlanOf(n),
             deps |-> IF n % 10 = 2 THEN {n - 1} ELSE {}]]]

(* Normalization fails on a failure, or an assessment, of an unknown node; *)
(* it only warns of a counterexample, a decision or a branch result.       *)
Malformed ==
    \/ \E i \in DOMAIN memory.failures : ~(memory.failures[i] \subseteq Scope)
    \/ \E i \in DOMAIN memory.assessments : memory.assessments[i] \notin Scope

-----------------------------------------------------------------------------
NoRecords == [counterexamples |-> <<>>, assessments |-> <<>>, failures |-> <<>>]

Room == Len(memory.counterexamples) + Len(memory.assessments) + Len(memory.failures) < MaxResearchRecords

(* The next task of a generator shows the research state: without it the   *)
(* run hands out no task and stops.                                        *)
HasTask(ph) == phase = ph /\ ~Malformed

RecordsInit ==
    /\ phase = "propose_plans"
    /\ roundIndex = 0
    /\ activePlans = {}
    /\ progress = <<>>
    /\ branchResults = <<>>
    /\ memory = NoRecords

ProposePlans ==
    /\ HasTask("propose_plans")
    /\ roundIndex < MaxResearchRounds
    /\ activePlans' = {10 * (roundIndex + 1) + i : i \in 1..PlansPerRound}
    /\ progress' = [n \in UNION {Subgoals(p) : p \in activePlans'} |-> "none"]
    /\ phase' = "direct_proving"
    /\ UNCHANGED <<roundIndex, branchResults, memory>>

Complete(g) == \A n \in DOMAIN g : g[n] # "none"

SolvedPlans(g) == {p \in activePlans : \A n \in Subgoals(p) : g[n] = "solved"}

(* One subgoal is screened, or screened anew; the answer that completes    *)
(* the screening also moves the run.                                       *)
Screen ==
    /\ HasTask("direct_proving")
    /\ \E n \in Planned : \E s \in {"solved", "stuck"} :
        LET merged == [progress EXCEPT ![n] = s]
        IN  /\ progress' = merged
            /\ phase' = IF ~Complete(merged) THEN "direct_proving"
                        ELSE IF SolvedPlans(merged) # {} THEN "assemble" ELSE "branches"
            /\ roundIndex' = IF phase' = "branches" THEN roundIndex + 1 ELSE roundIndex
    /\ UNCHANGED <<activePlans, branchResults, memory>>

HasResult(p) == \E i \in DOMAIN branchResults : branchResults[i].plan = p

(* A branch is sealed with a report on nodes of its own plan.              *)
SealBranch ==
    /\ phase = "branches"
    /\ \E p \in activePlans : \E report \in BranchReports :
        LET own(ks) == {10 * p + k : k \in ks} \cap Subgoals(p)
        IN  /\ ~HasResult(p)
            /\ branchResults' = Append(branchResults,
                    [plan |-> p, status |-> report.status, proved |-> own(report.proved),
                     unproved |-> own(report.unproved), obstructed |-> own(report.obstructed)])
    /\ UNCHANGED <<phase, roundIndex, activePlans, progress, memory>>

BranchSolved(p) ==
    \E i \in DOMAIN branchResults : branchResults[i].plan = p /\ branchResults[i].status = "solved"

Join ==
    /\ phase = "branches"
    /\ \A p \in activePlans : HasResult(p)
    /\ phase' = IF \E p \in activePlans : BranchSolved(p) THEN "assemble" ELSE "identify_failures"
    /\ UNCHANGED <<roundIndex, activePlans, progress, branchResults, memory>>

(* failures_identified: at least one node of the scope is named.           *)
IdentifyFailures ==
    /\ HasTask("identify_failures")
    /\ Room
    /\ \E affected \in {S \in SUBSET Scope : Cardinality(S) \in 1..2} :
        memory' = [memory EXCEPT !.failures = Append(@, affected)]
    /\ phase' = "replan"
    /\ UNCHANGED <<roundIndex, activePlans, progress, branchResults>>

ReplanComplete ==
    /\ HasTask("replan")
    /\ phase' = "propose_plans"
    /\ UNCHANGED <<roundIndex, activePlans, progress, branchResults, memory>>

Generating == phase \in {"propose_plans", "direct_proving", "identify_failures", "replan"}

(* A probe recorded in the counterexamples channel.                        *)
ProbeCounterexample ==
    /\ Generating /\ ~Malformed /\ Room
    /\ \E n \in Scope : \E found \in BOOLEAN :
        memory' = [memory EXCEPT !.counterexamples = Append(@, [node |-> n, found |-> found])]
    /\ UNCHANGED <<phase, roundIndex, activePlans, progress, branchResults>>

(* A judgement of retrieved references, for a node or for the target.      *)
RecordAssessment ==
    /\ Generating /\ ~Malformed /\ Room
    /\ \E n \in Scope : memory' = [memory EXCEPT !.assessments = Append(@, n)]
    /\ UNCHANGED <<phase, roundIndex, activePlans, progress, branchResults>>

RecordsNext ==
    \/ ProposePlans \/ Screen \/ SealBranch \/ Join \/ IdentifyFailures \/ ReplanComplete
    \/ ProbeCounterexample \/ RecordAssessment

RecordsSpec == RecordsInit /\ [][RecordsNext]_recordVars

-----------------------------------------------------------------------------
(* The design record says that records are append-only and the current     *)
(* state is their deterministic replay.  So what the server accepted must  *)
(* always replay, or the run can hand out no further task                  *)
(* (normalize_failures, normalize_retrieval_events).                       *)
AcceptedRecordsReplay == ~Malformed

(* When the run goes on to assemble a proof, by screening or by a branch,  *)
(* the plans it judged solved are solved routes of the research state too, *)
(* and the other way round, refuted nodes aside (commit_direct_proving and *)
(* the join against derive_plan_routes).                                   *)
AssembledPlansAgree ==
    phase = "assemble" =>
        \A p \in activePlans :
            LET solved == PlanRoute(Snapshot, p).route_solved IN
            /\ solved => \A n \in Subgoals(p) : ~Refutes(n)
            /\ (p \in SolvedPlans(progress) \/ BranchSolved(p)) /\ (\A n \in Subgoals(p) : ~Refutes(n)) => solved

(* A counterexample outlasts every later report of success: no screening   *)
(* or branch result makes a route through a refuted node solved, nor a     *)
(* node that needs it something to work on (normalize_counterexamples).    *)
RefutationStands ==
    LET now == Snapshot
        invalid == InvalidNodes(now)
        actionable == ActionableNodes(now)
    IN  \A n \in Planned : Refutes(n) =>
            /\ n \in invalid
            /\ ~PlanRoute(now, PlanOf(n)).route_solved
            /\ \A m \in actionable : n \notin DependencyClosure(m, now)
=============================================================================
