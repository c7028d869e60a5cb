----------------------------- MODULE BranchRound ----------------------------
(***************************************************************************)
(* The research part of a full workflow run: plans are proposed, screened  *)
(* directly, and what stays stuck is worked on in one isolated branch per  *)
(* plan; when every branch is sealed the join selects a solution or the    *)
(* round is given up, its failures are identified and a new one planned.   *)
(*                                                                         *)
(* Code: mtm-workflow engine.rs (next_task, ensure_domain,                 *)
(* prepare_branch_round and the commit handlers of these states), vault.rs,*)
(* mtm-storage task_transitions.rs, mechanical_transitions.rs, store.rs,   *)
(* capability.rs (issue).                                                  *)
(*                                                                         *)
(* Several refreshes (next_task) may run at once, each one read or one     *)
(* transaction at a time.  Of submissions there is one at a time: the      *)
(* receipts of a run see to that (OnePending of StepSubmission), and a     *)
(* pending one only keeps refreshes from starting.  The records an action  *)
(* leaves in the generation memory are not kept here: a conflict of their  *)
(* effect slots ends a submission the way Settle does.                     *)
(***************************************************************************)
EXTENDS Naturals, FiniteSets

CONSTANTS
    PlanCount,   \* plans proposed in every round
    MaxRounds,   \* bound on the rounds of an instance
    Refreshers,  \* threads that serve next_task
    Hazards      \* what the environment of an instance does

(* validate_plans requires at least two plans.                             *)
ASSUME RoundAssumption ==
    /\ PlanCount \in Nat /\ PlanCount >= 2
    /\ MaxRounds \in Nat
    /\ Hazards \subseteq {"crash", "cancel"}

Plans == 1..PlanCount
Rounds == 1..MaxRounds

(* A branch id holds its round and its order_index, and so does the id of  *)
(* the plan it works on (plan-r1-2).                                       *)
Branches == Rounds \X Plans
NoBranch == <<0, 0>>

States == {"propose_plans", "direct_proving", "branch_prepare", "branch_run",
           "branch_join", "identify_failures", "replan", "assemble", "cancelled"}

(* role_for_state; the run leaves this module's scope in "assemble".       *)
Role == [s \in States |->
           IF s \in {"propose_plans", "direct_proving", "identify_failures", "replan"}
           THEN "generator"
           ELSE IF s = "branch_run" THEN "branch"
           ELSE IF s = "branch_join" THEN "join" ELSE "none"]

ScreeningStatus == {"none", "solved", "stuck"}
NothingScreened == [p \in Plans |-> "none"]

RunRecords == [state : States, epoch : Nat, round : 0..MaxRounds,
               requests : SUBSET Branches,          \* metadata.branch_requests
               progress : [Plans -> ScreeningStatus]]

(* A branches row with its domain, which is open until the task is sealed. *)
Rows == [status : {"absent", "pending", "running", "sealed"}, open : BOOLEAN]
NoRow == [status |-> "absent", open |-> FALSE]

Tokens == [epoch : Nat, state : States, branch : Branches \cup {NoBranch}]
NoToken == [epoch |-> 0, state |-> "propose_plans", branch |-> NoBranch]

Joins == [epoch : Nat, outcome : {"none", "solved", "failed"}, considered : SUBSET Branches]
NoJoin == [epoch |-> 0, outcome |-> "none", considered |-> {}]

(* A result file, with the epoch of the effect slot that published it.     *)
Results == [epoch : Nat, outcome : {"none", "solved", "failed"}]
NoResult == [epoch |-> 0, outcome |-> "none"]

VARIABLES
    run,     \* the runs row
    row,     \* branches joined with their domains
    frozen,  \* vault: the plans in each round's snapshot and assignments
    result,  \* vault: branches/<id>/result.json
    join,    \* vault: join/result.json, with the epoch of its effect slot
    tokens,  \* capabilities that are not revoked
    sub,     \* the pending submission
    rf       \* the refresh threads

vars == <<run, row, frozen, result, join, tokens, sub, rf>>

NoSubmission == [pc |-> "none", token |-> NoToken, after |-> "branch_run", sealed |-> {},
                 outcome |-> "none", progress |-> NothingScreened]
Resting == [pc |-> "idle", state |-> "propose_plans", round |-> 0, requests |-> {},
            branch |-> NoBranch]

Init ==
    /\ run = [state |-> "propose_plans", epoch |-> 1, round |-> 0, requests |-> {},
              progress |-> NothingScreened]
    /\ row = [b \in Branches |-> NoRow]
    /\ frozen = [n \in Rounds |-> {}]
    /\ result = [b \in Branches |-> NoResult]
    /\ join = NoJoin
    /\ tokens = {}
    /\ sub = NoSubmission
    /\ rf = [t \in Refreshers |-> Resting]

-----------------------------------------------------------------------------
(* Helpers.                                                                *)

SealedIds == {b \in Branches : row[b].status = "sealed"}
Unsealed == {b \in Branches : row[b].status \notin {"absent", "sealed"}}
OfRound(n) == {b \in Branches : b[1] = n}

(* list_branches orders the branches of all rounds by order_index alone.   *)
Earliest(S) == {b \in S : \A c \in S : b[2] <= c[2]}

(* recheck_authority: of the run's epoch and state, its domain open.       *)
Live(t) ==
    /\ t \in tokens
    /\ t.epoch = run.epoch /\ t.state = run.state
    /\ t.branch # NoBranch => row[t.branch].open

(* transition_on: the epoch advances and every capability is revoked.      *)
MoveTo(state) ==
    /\ run' = [run EXCEPT !.state = state, !.epoch = @ + 1]
    /\ tokens' = {}

At(t, label) == rf[t].pc = label
Goto(t, label) == rf' = [rf EXCEPT ![t].pc = label]
Rest(t) == rf' = [rf EXCEPT ![t] = Resting]

-----------------------------------------------------------------------------
(* Refreshes (next_task).                                                  *)

(* require_owner reads the run once.                                       *)
ReadRun(t) ==
    /\ At(t, "idle")
    /\ rf' = [rf EXCEPT ![t] = [pc |-> "refresh", state |-> run.state, round |-> run.round,
                                requests |-> run.requests, branch |-> NoBranch]]
    /\ UNCHANGED <<run, row, frozen, result, join, tokens, sub>>

(* A pending submission ends the refresh.                                  *)
CheckPending(t) ==
    /\ At(t, "refresh")
    /\ IF sub.pc = "none" THEN Goto(t, "advance") ELSE Rest(t)
    /\ UNCHANGED <<run, row, frozen, result, join, tokens, sub>>

(* advance_mechanical and the choice of a domain, by the run that was read.*)
Dispatch(t) ==
    LET s == rf[t].state IN
    /\ At(t, "advance")
    /\ IF s \in {"assemble", "cancelled"} THEN Rest(t)
       ELSE Goto(t, IF s = "branch_prepare" THEN "freeze"
                    ELSE IF s = "branch_run" THEN "list" ELSE "issue")
    /\ UNCHANGED <<run, row, frozen, result, join, tokens, sub>>

(* ensure_snapshot and ensure_branch_assignment: published once; existing  *)
(* bytes that differ end the refresh.                                      *)
FreezeRound(t) ==
    LET n == rf[t].round + 1 IN
    /\ At(t, "freeze")
    /\ IF rf[t].requests # {} /\ frozen[n] \in {{}, rf[t].requests}
       THEN frozen' = [frozen EXCEPT ![n] = rf[t].requests] /\ Goto(t, "prepare")
       ELSE Rest(t) /\ UNCHANGED frozen
    /\ UNCHANGED <<run, row, result, join, tokens, sub>>

(* Mutant of PrepareRound: the state is not compared.                      *)
PrepareRoundAnyState(t) ==
    /\ At(t, "prepare")
    /\ row' = [b \in Branches |-> IF b \in rf[t].requests
                                  THEN [status |-> "pending", open |-> TRUE] ELSE row[b]]
    /\ run' = [run EXCEPT !.state = "branch_run", !.epoch = @ + 1,
                          !.round = rf[t].round + 1, !.requests = {}]
    /\ tokens' = {}
    /\ Goto(t, "list")
    /\ UNCHANGED <<frozen, result, join, sub>>

(* complete_branch_preparation: one transaction, refused when the run left *)
(* branch_prepare, its requests changed or rows of the round exist.        *)
PrepareRound(t) ==
    /\ At(t, "prepare")
    /\ IF /\ run.state = "branch_prepare" /\ run.requests = rf[t].requests
          /\ \A b \in OfRound(run.round + 1) : row[b] = NoRow
       THEN /\ row' = [b \in Branches |->
                         IF b \in run.requests
                         THEN [status |-> "pending", open |-> TRUE] ELSE row[b]]
            /\ run' = [run EXCEPT !.state = "branch_run", !.epoch = @ + 1,
                                  !.round = @ + 1, !.requests = {}]
            /\ tokens' = {}
            /\ rf' = [rf EXCEPT ![t] = [@ EXCEPT !.pc = "list", !.state = "branch_run",
                                                 !.round = run.round + 1, !.requests = {}]]
       ELSE Rest(t) /\ UNCHANGED <<row, run, tokens>>
    /\ UNCHANGED <<frozen, result, join, sub>>

Selectable(status) == {b \in Branches : row[b].status = status}

(* ensure_domain for a branch: the running branch, else the next pending   *)
(* one; neither is BRANCH_BARRIER_INCONSISTENT.                            *)
ListBranches(t) ==
    LET running == Earliest(Selectable("running"))
        pending == Earliest(Selectable("pending")) IN
    /\ At(t, "list")
    /\ \/ \E b \in running : rf' = [rf EXCEPT ![t].pc = "issue", ![t].branch = b]
       \/ /\ running = {}
          /\ \E b \in pending : rf' = [rf EXCEPT ![t].pc = "activate", ![t].branch = b]
       \/ running = {} /\ pending = {} /\ Rest(t)
    /\ UNCHANGED <<run, row, frozen, result, join, tokens, sub>>

(* update_branch_status: a transaction of its own, without a condition on  *)
(* the status the branch has by now.                                       *)
SetRunning(t) ==
    /\ At(t, "activate")
    /\ row' = [row EXCEPT ![rf[t].branch].status = "running"]
    /\ Goto(t, "issue")
    /\ UNCHANGED <<run, frozen, result, join, tokens, sub>>

(* issue: the run and the domain are read again; the role of the state the *)
(* refresh saw must be the active one and a branch domain must be open.    *)
Issue(t) ==
    LET b == rf[t].branch IN
    /\ At(t, "issue")
    /\ IF /\ Role[run.state] = Role[rf[t].state] /\ Role[run.state] # "none"
          /\ b # NoBranch => row[b].open
       THEN tokens' = tokens \cup {[epoch |-> run.epoch, state |-> run.state, branch |-> b]}
       ELSE UNCHANGED tokens
    /\ Rest(t)
    /\ UNCHANGED <<run, row, frozen, result, join, sub>>

-----------------------------------------------------------------------------
(* Submissions.                                                            *)

Submit(t) ==
    /\ sub.pc = "none" /\ Live(t)
    /\ sub' = [NoSubmission EXCEPT !.pc = "open", !.token = t]
    /\ UNCHANGED <<run, row, frozen, result, join, tokens, rf>>

(* The submission ends without a transition: a rejected payload, a refused *)
(* transaction, or an interruption settled by recovery.  Files stay.       *)
Settle ==
    /\ sub.pc # "none"
    /\ sub' = NoSubmission
    /\ UNCHANGED <<run, row, frozen, result, join, tokens, rf>>

Committing(state) == sub.pc = "open" /\ sub.token.state = state /\ Live(sub.token)

(* commit_plans_proposed: the screening progress starts anew.              *)
PlansProposed ==
    /\ Committing("propose_plans") /\ run.round < MaxRounds
    /\ run' = [run EXCEPT !.state = "direct_proving", !.epoch = @ + 1,
                          !.progress = NothingScreened]
    /\ tokens' = {}
    /\ sub' = NoSubmission
    /\ UNCHANGED <<row, frozen, result, join, rf>>

(* merge_direct_screening: a report replaces earlier ones plan by plan.    *)
Merged(report) == [p \in Plans |-> IF report[p] = "none" THEN run.progress[p] ELSE report[p]]

(* commit_direct_proving: missing plans keep the task, a solved plan is    *)
(* written down as the join result, otherwise a branch is requested for    *)
(* every active plan.                                                      *)
SaveScreening(merged) ==
    /\ \E p \in Plans : merged[p] = "none"
    /\ run' = [run EXCEPT !.progress = merged]
    /\ tokens' = tokens \ {sub.token}
    /\ sub' = NoSubmission
    /\ UNCHANGED join

RequestBranches(merged) ==
    /\ \A p \in Plans : merged[p] = "stuck"
    /\ run' = [run EXCEPT !.state = "branch_prepare", !.epoch = @ + 1,
                          !.progress = merged, !.requests = OfRound(run.round + 1)]
    /\ tokens' = {}
    /\ sub' = NoSubmission
    /\ UNCHANGED join

PublishRoute(merged) ==
    LET payload == [epoch |-> run.epoch, outcome |-> "solved", considered |-> {}] IN
    /\ \A p \in Plans : merged[p] # "none"
    /\ \E p \in Plans : merged[p] = "solved"
    /\ join' = payload
    /\ sub' = [sub EXCEPT !.pc = "routed", !.progress = merged]
    /\ UNCHANGED <<run, tokens>>

DirectProving(report) ==
    /\ Committing("direct_proving")
    /\ \/ SaveScreening(Merged(report))
       \/ RequestBranches(Merged(report))
       \/ PublishRoute(Merged(report))
    /\ UNCHANGED <<row, frozen, result, rf>>

CommitRoute ==
    /\ sub.pc = "routed" /\ Live(sub.token)
    /\ run' = [run EXCEPT !.state = "assemble", !.epoch = @ + 1, !.progress = sub.progress]
    /\ tokens' = {}
    /\ sub' = NoSubmission
    /\ UNCHANGED <<row, frozen, result, join, rf>>

(* The branches other than b are all sealed, those of earlier rounds too.  *)
Barrier(b) == Unsealed \ {b} = {}

(* commit_branch: the branches are listed to choose the next state.        *)
PlanSeal ==
    /\ Committing("branch_run")
    /\ sub' = [sub EXCEPT !.pc = "sealing",
                          !.after = IF Barrier(sub.token.branch) THEN "branch_join"
                                                                ELSE "branch_run"]
    /\ UNCHANGED <<run, row, frozen, result, join, tokens, rf>>

(* Mutant of PublishResult: an existing slot is overwritten.               *)
PublishResultAgain(r) ==
    /\ sub.pc = "sealing"
    /\ result' = [result EXCEPT ![sub.token.branch] = [epoch |-> sub.token.epoch, outcome |-> r]]
    /\ sub' = [sub EXCEPT !.pc = "seal"]
    /\ UNCHANGED <<run, row, frozen, join, tokens, rf>>

(* ensure_action_read_only_json: a slot belongs to one epoch and accepts   *)
(* the same bytes only.                                                    *)
PublishResult(r) ==
    LET payload == [epoch |-> sub.token.epoch, outcome |-> r] IN
    /\ sub.pc = "sealing"
    /\ result[sub.token.branch].epoch = sub.token.epoch => result[sub.token.branch] = payload
    /\ result' = [result EXCEPT ![sub.token.branch] = payload]
    /\ sub' = [sub EXCEPT !.pc = "seal"]
    /\ UNCHANGED <<run, row, frozen, join, tokens, rf>>

(* Mutant of SealBranch: the branch's own status is left alone.            *)
SealDomainOnly ==
    LET b == sub.token.branch IN
    /\ sub.pc = "seal" /\ Live(sub.token) /\ row[b].status # "sealed"
    /\ row' = [row EXCEPT ![b].open = FALSE]
    /\ MoveTo(sub.after)
    /\ sub' = NoSubmission
    /\ UNCHANGED <<frozen, result, join, rf>>

(* transition_task with BranchSeal: seal the branch, count again, close    *)
(* the domain; any disagreement rolls the transaction back.                *)
SealBranch ==
    LET b == sub.token.branch IN
    /\ sub.pc = "seal" /\ Live(sub.token) /\ row[b].status # "sealed"
    /\ sub.after = IF Barrier(b) THEN "branch_join" ELSE "branch_run"
    /\ row' = [row EXCEPT ![b] = [status |-> "sealed", open |-> FALSE]]
    /\ MoveTo(sub.after)
    /\ sub' = NoSubmission
    /\ UNCHANGED <<frozen, result, join, rf>>

(* commit_join: the sealed branches are listed and their results read. A   *)
(* solved branch or a synthesis solves the round; it fails only when no    *)
(* considered branch is solved.                                            *)
EvaluateJoin(outcome) ==
    /\ Committing("branch_join")
    /\ \A b \in SealedIds : result[b] # NoResult
    /\ outcome = "failed" => \A b \in SealedIds : result[b].outcome # "solved"
    /\ sub' = [sub EXCEPT !.pc = "joining", !.sealed = SealedIds, !.outcome = outcome]
    /\ UNCHANGED <<run, row, frozen, result, join, tokens, rf>>

(* ensure_action_json: within one epoch the slot accepts the same bytes    *)
(* only.                                                                   *)
PublishJoin ==
    LET payload == [epoch |-> run.epoch, outcome |-> sub.outcome, considered |-> sub.sealed] IN
    /\ sub.pc = "joining" /\ Live(sub.token)
    /\ join.epoch = run.epoch => join = payload
    /\ join' = payload
    /\ sub' = [sub EXCEPT !.pc = "joined"]
    /\ UNCHANGED <<run, row, frozen, result, tokens, rf>>

CommitJoin ==
    /\ sub.pc = "joined" /\ Live(sub.token)
    /\ MoveTo(IF sub.outcome = "solved" THEN "assemble" ELSE "identify_failures")
    /\ sub' = NoSubmission
    /\ UNCHANGED <<row, frozen, result, join, rf>>

FailuresIdentified ==
    /\ Committing("identify_failures")
    /\ MoveTo("replan")
    /\ sub' = NoSubmission
    /\ UNCHANGED <<row, frozen, result, join, rf>>

ReplanComplete ==
    /\ Committing("replan")
    /\ MoveTo("propose_plans")
    /\ sub' = NoSubmission
    /\ UNCHANGED <<row, frozen, result, join, rf>>

-----------------------------------------------------------------------------
(* The environment.                                                        *)

(* cancel, at any moment.                                                  *)
Cancel ==
    /\ "cancel" \in Hazards /\ run.state \notin {"assemble", "cancelled"}
    /\ MoveTo("cancelled")
    /\ UNCHANGED <<row, frozen, result, join, sub, rf>>

(* The process dies; the submission stays pending until Settle.            *)
Crash ==
    /\ "crash" \in Hazards /\ \E t \in Refreshers : ~At(t, "idle")
    /\ rf' = [t \in Refreshers |-> Resting]
    /\ UNCHANGED <<run, row, frozen, result, join, tokens, sub>>

Refresh(t) ==
    \/ ReadRun(t) \/ CheckPending(t) \/ Dispatch(t) \/ FreezeRound(t) \/ PrepareRound(t)
    \/ ListBranches(t) \/ SetRunning(t) \/ Issue(t)

Next ==
    \/ \E t \in Refreshers : Refresh(t)
    \/ \E t \in tokens : Submit(t)
    \/ Settle \/ PlansProposed
    \/ \E report \in [Plans -> ScreeningStatus] : DirectProving(report)
    \/ CommitRoute
    \/ PlanSeal \/ (\E r \in {"solved", "failed"} : PublishResult(r)) \/ SealBranch
    \/ (\E o \in {"solved", "failed"} : EvaluateJoin(o)) \/ PublishJoin \/ CommitJoin
    \/ FailuresIdentified \/ ReplanComplete
    \/ Cancel \/ Crash

Spec == Init /\ [][Next]_vars

-----------------------------------------------------------------------------
(* Properties.                                                             *)

Submissions == [pc : {"none", "open", "routed", "sealing", "seal", "joining", "joined"},
                token : Tokens, after : States, sealed : SUBSET Branches,
                outcome : {"none", "solved", "failed"}, progress : [Plans -> ScreeningStatus]]
Threads == [pc : {"idle", "refresh", "advance", "freeze", "prepare", "list", "activate",
                  "issue"},
            state : States, round : 0..MaxRounds, requests : SUBSET Branches,
            branch : Branches \cup {NoBranch}]

(* Every row, file and thread keeps its type.                              *)
TypeOK ==
    /\ run \in RunRecords
    /\ row \in [Branches -> Rows]
    /\ frozen \in [Rounds -> SUBSET Branches]
    /\ result \in [Branches -> Results]
    /\ join \in Joins
    /\ tokens \subseteq Tokens
    /\ sub \in Submissions
    /\ rf \in [Refreshers -> Threads]

(* The round as fork and join see it: a branch has finished when its       *)
(* domain is closed, with the result file it left.                         *)
Phase == IF run.state = "branch_run" THEN "forked"
         ELSE IF run.state = "branch_join" THEN "joined"
         ELSE IF run.state = "cancelled" THEN "over" ELSE "idle"
Finished == [p \in Plans |->
               IF run.round > 0 /\ row[<<run.round, p>>].status # "absent"
                                /\ ~row[<<run.round, p>>].open
               THEN result[<<run.round, p>>].outcome ELSE "none"]
Rounding == INSTANCE ForkJoin WITH phase <- Phase, round <- run.round, finished <- Finished

(* However many refreshes race each other and the submissions, a round is  *)
(* forked once, each branch finishes once with a result that stays, and    *)
(* the join is reached only when all of them have finished.                *)
ImplementsForkJoin == Rounding!Spec

(* A branch result is read-only: an interrupted seal that is repeated, by  *)
(* whatever token and in whatever epoch, leaves the published file as it   *)
(* is, so that the sealed branch says what its first attempt said.         *)
ResultsReadOnly ==
    [][\A b \in Branches : result[b] # NoResult => result'[b] = result[b]]_vars

(* As long as branches are to be run there is one a task can be issued     *)
(* for: a branch that is not sealed, whose domain is open, and which       *)
(* ensure_domain selects.                                                  *)
NeverWedged ==
    run.state = "branch_run" =>
        LET running == Earliest(Selectable("running"))
            next == IF running # {} THEN running ELSE Earliest(Selectable("pending"))
        IN  next # {} /\ \A b \in next : row[b].open

(* A round is given up only if no branch of it solved the problem.         *)
SolvedRoundKept ==
    run.state \in {"identify_failures", "replan"} =>
        \A b \in OfRound(run.round) : result[b].outcome # "solved"

(* "complete coverage is server-derived": the join considers every branch  *)
(* of the round.                                                           *)
JoinCoversRound ==
    run.state \in {"identify_failures", "replan"} => OfRound(run.round) \subseteq join.considered
=============================================================================
