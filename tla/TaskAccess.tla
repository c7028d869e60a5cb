----------------------------- MODULE TaskAccess -----------------------------
(***************************************************************************)
(* Who may see what of a run: the roles, what their capabilities permit,   *)
(* what each call serves, and what the tasks come to know of each other.   *)
(*                                                                         *)
(* Code: mtm-storage capability.rs (issue, validate, default_permissions,  *)
(* authorize_role_resource), mtm-workflow engine.rs (read, search,         *)
(* retrieve, read_resource, task_context, prepare_branch_round, the commit *)
(* handlers), vault.rs (the memories, snapshots and results).              *)
(*                                                                         *)
(* A branch is to know nothing of its siblings before the join, and the    *)
(* verifier nothing but the proof and its sources.  A call is checked when *)
(* it arrives and served later, from whatever the vault holds by then; the *)
(* record of a retrieval is appended when the provider has answered.  A    *)
(* record carries what its writer knew: the model keeps, of each memory,   *)
(* whose knowledge its records hold.  The proof, its manifest and the      *)
(* registered sources are made for their readers and carry nothing here.   *)
(* Writes and commits belong to a submission and are fenced                *)
(* (StepSubmission).                                                       *)
(***************************************************************************)
EXTENDS Naturals, Sequences, FiniteSets

CONSTANTS
    BranchesPerRound,
    LastRound,       \* bound on the rounds of an instance
    LastEpoch,       \* bound on the transitions of an instance
    MaxRecords,      \* bounds on the records of the generation memory:
    MaxEvents,       \* its frozen channels, and its events
    Callers          \* threads that serve reads, searches and retrievals

AccessAssumption ==
    /\ BranchesPerRound \in Nat /\ LastRound \in Nat /\ LastEpoch \in Nat \ {0}
    /\ MaxRecords \in Nat /\ MaxEvents \in Nat

RoundBranches == (1..LastRound) \X (1..BranchesPerRound)
NoOne == <<0, 0>>
Siblings(b) == {c \in RoundBranches : c[1] = b[1] /\ c # b}

(* Whoever a task may learn of: a branch, the verifier, and the rest of    *)
(* the run, which hands its knowledge on from task to task.                *)
Generation == <<0, 1>>
Verifier == <<0, 2>>
Parties == RoundBranches \cup {Generation, Verifier}

Stages == {"explore", "branch_prepare", "branch_run", "branch_join", "assemble", "verify",
           "repair", "finished"}

(* role_for_state; "explore" stands for the six states of the generator.   *)
RoleOf == [s \in Stages |->
    CASE s = "explore" -> "generator"
      [] s = "branch_run" -> "branch"
      [] s = "branch_join" -> "join"
      [] s = "assemble" -> "assembler"
      [] s = "verify" -> "verifier"
      [] s = "repair" -> "repair"
      [] OTHER -> "none"]

GenerationMemory == {"memory:generation:events", "memory:generation:others"}
Public == {"problem", "references", "project"}

(* default_permissions.                                                    *)
MayRead == [r \in {RoleOf[s] : s \in Stages} |->
    CASE r = "generator" -> Public \cup {"steering"} \cup GenerationMemory
      [] r = "branch" -> Public \cup {"snapshot", "branch:self", "memory:branch"}
      [] r = "join" -> {"problem", "snapshot", "branch:sealed"}
      [] r = "assembler" -> Public \cup {"join_result"} \cup GenerationMemory
      [] r = "verifier" -> {"problem", "proof", "proof_manifest", "project", "sources", "memory:verifier"}
      [] r = "repair" -> {"problem", "proof", "proof_manifest", "project", "verification_report"}
                            \cup GenerationMemory
      [] OTHER -> {}]

MaySearch == [r \in DOMAIN MayRead |->
    CASE r = "generator" -> GenerationMemory [] r = "branch" -> {"memory:branch"} [] OTHER -> {}]

MayRetrieve == {"generator", "branch", "verifier", "repair"}

(* authorize_role_resource, whatever the capability permits.               *)
Firewall(role, resource) ==
    \/ role = "verifier" /\ resource \in GenerationMemory
                                \cup {"branch:self", "branch:sealed", "steering", "join_result", "snapshot"}
    \/ role # "join" /\ resource = "branch:sealed"

VARIABLES
    task, epoch, round,
    opened,     \* branches: the status of each
    issued,     \* the capabilities: role, branch and epoch
    records,    \* memory/generation: the channels a snapshot freezes
    events,     \* memory/generation/events
    notes,      \* branches/<id>/memory
    reviews,    \* memory/verifier
    snapshots,  \* snapshots/<id>: the records as they were
    preparing,  \* a refresh holds the frozen snapshot of the round to come
    results,    \* branches/<id>/result.json
    joined,     \* join/result.json
    knows,      \* what each party has been shown or has written itself
    call        \* the calls in flight

durable == <<task, epoch, round, opened, issued, records, events, notes, reviews, snapshots, results,
             joined, knows>>
accessVars == <<durable, preparing, call>>

NoSnapshot == [taken |-> FALSE, records |-> <<>>]
NoBranchResult == [written |-> FALSE, holds |-> {}]
NoCall == [at |-> "idle"]

AccessInit ==
    /\ task = "explore" /\ epoch = 1 /\ round = 0
    /\ opened = [b \in RoundBranches |-> "absent"]
    /\ issued = {} /\ records = <<>> /\ events = <<>>
    /\ notes = [b \in RoundBranches |-> {}] /\ reviews = {}
    /\ snapshots = [n \in 1..LastRound |-> NoSnapshot] /\ preparing = FALSE
    /\ results = [b \in RoundBranches |-> NoBranchResult] /\ joined = {}
    /\ knows = [p \in Parties |-> {p}]
    /\ call = [c \in Callers |-> NoCall]

-----------------------------------------------------------------------------
(* Helpers.                                                                *)

Held(channel) == UNION {channel[i] : i \in DOMAIN channel}

Party(t) == IF t.role = "branch" THEN t.branch
            ELSE IF t.role = "verifier" THEN Verifier ELSE Generation

Started == {b \in RoundBranches : opened[b] # "absent"}
AllSealed == Started # {} /\ \A b \in Started : opened[b] = "sealed"

(* The signature holds and the registry has the same facts: a capability   *)
(* that was issued.                                                        *)
Genuine(t) == t \in issued

(* validate_inner: of the run's epoch, of the role its state calls for,    *)
(* its domain open.                                                        *)
Valid(t) ==
    /\ Genuine(t)
    /\ t.epoch = epoch /\ t.role = RoleOf[task] /\ t.role # "none"
    /\ t.role = "branch" => opened[t.branch] = "running"

AccessMoves(s) == epoch < LastEpoch /\ epoch' = epoch + 1 /\ task' = s

Learn(p, what) == knows' = [knows EXCEPT ![p] = @ \cup what]

-----------------------------------------------------------------------------
(* Tasks.                                                                  *)

(* The context of a task beside the problem: the view of the research for  *)
(* the generator and the repair, made of the generation memory and of the  *)
(* sealed results (task_context, normalized_research_state).               *)
Context(role) ==
    IF role \in {"generator", "repair"}
    THEN Held(records) \cup Held(events)
            \cup UNION {results[b].holds : b \in {b \in RoundBranches : opened[b] = "sealed"}}
    ELSE {}

(* issue: for the run's epoch.                                             *)
Capability(role, b) == [role |-> role, branch |-> b, epoch |-> epoch]

(* next_task: ensure_domain takes the branch that runs or starts the first *)
(* that is pending; a capability of the current epoch is issued for it.    *)
NextTask ==
    LET role == RoleOf[task]
        open == {b \in RoundBranches : opened[b] = "running"}
        pending == {b \in RoundBranches : opened[b] = "pending"}
        due == {b \in pending : \A c \in pending : b[2] <= c[2]}
    IN
    /\ role # "none" /\ ~\E t \in issued : t.epoch = epoch
    /\ \E b \in IF role # "branch" THEN {NoOne} ELSE IF open # {} THEN open ELSE due :
        LET t == Capability(role, b) IN
        /\ opened' = IF role = "branch" THEN [opened EXCEPT ![b] = "running"] ELSE opened
        /\ issued' = issued \cup {t}
        /\ Learn(Party(t), Context(role))
    /\ UNCHANGED <<task, epoch, round, records, events, notes, reviews, snapshots, preparing,
                   results, joined, call>>

-----------------------------------------------------------------------------
(* Calls that no submission fences.                                        *)

(* read, search and retrieve: the capability is validated.                 *)
Ask(c) ==
    /\ call[c] = NoCall
    /\ \E t \in issued :
        /\ Valid(t)
        /\ \/ \E resource \in MayRead[t.role] \cup MaySearch[t.role] :
                /\ ~Firewall(t.role, resource)
                /\ call' = [call EXCEPT ![c] = [at |-> "read", token |-> t, resource |-> resource]]
           \/ /\ t.role \in MayRetrieve
              /\ call' = [call EXCEPT ![c] = [at |-> "retrieve", token |-> t]]
    /\ UNCHANGED <<durable, preparing>>

(* Mutant of OwnBranch: the branch that runs when the call is served.      *)
OwnBranchNow(t) ==
    IF \E b \in RoundBranches : opened[b] = "running"
    THEN CHOOSE b \in RoundBranches : opened[b] = "running"
    ELSE t.branch

(* branch_id_for_domain: the branch of the claims' domain.                 *)
OwnBranch(t) == t.branch

(* The memories, read or searched.                                         *)
Recalled(t, resource) ==
    CASE resource = "memory:generation:others" -> Held(records)
      [] resource = "memory:generation:events" -> Held(events)
      [] resource = "memory:branch" -> notes[OwnBranch(t)]
      [] resource = "memory:verifier" -> reviews
      [] OTHER -> {}

(* read_resource.  The join has no snapshot of its own, steering is empty. *)
Served(t, resource) ==
    CASE resource \in {"snapshot", "branch:self"} /\ t.role = "branch" ->
            Held(snapshots[OwnBranch(t)[1]].records)
      [] resource = "branch:sealed" /\ AllSealed -> UNION {results[b].holds : b \in Started}
      [] resource = "join_result" -> joined
      [] resource = "verification_report" -> {Verifier}
      [] OTHER -> {}

(* The call is answered from the vault as it is now.                       *)
Answer(c) ==
    LET t == call[c].token IN
    /\ call[c].at = "read"
    /\ Learn(Party(t), Recalled(t, call[c].resource) \cup Served(t, call[c].resource))
    /\ call' = [call EXCEPT ![c] = NoCall]
    /\ UNCHANGED <<task, epoch, round, opened, issued, records, events, notes, reviews,
                   snapshots, preparing, results, joined>>

(* retrieve: the record of the query goes to the memory of the role that   *)
(* asked, in whatever state the run is by now.                             *)
Retrieved(c) ==
    LET t == call[c].token
        record == knows[Party(t)] IN
    /\ call[c].at = "retrieve"
    /\ CASE t.role \in {"generator", "repair"} ->
                /\ Len(events) < MaxEvents /\ events' = Append(events, record)
                /\ UNCHANGED <<notes, reviews>>
         [] t.role = "branch" ->
                notes' = [notes EXCEPT ![OwnBranch(t)] = @ \cup record] /\ UNCHANGED <<events, reviews>>
         [] OTHER ->
                reviews' = reviews \cup record /\ UNCHANGED <<events, notes>>
    /\ call' = [call EXCEPT ![c] = NoCall]
    /\ UNCHANGED <<task, epoch, round, opened, issued, records, snapshots, preparing, results,
                   joined, knows>>

-----------------------------------------------------------------------------
(* Submissions: the writes of a task and the action that ends it.          *)

Current == {t \in issued : Valid(t)}

(* write_resource: to the memory of the role.                              *)
Write ==
    /\ \E t \in Current :
        LET record == knows[Party(t)] IN
        CASE t.role = "branch" ->
                notes' = [notes EXCEPT ![OwnBranch(t)] = @ \cup record] /\ UNCHANGED <<records, reviews>>
          [] t.role = "verifier" ->
                reviews' = reviews \cup record /\ UNCHANGED <<records, notes>>
          [] t.role \in {"generator", "join", "repair"} ->
                /\ Len(records) < MaxRecords /\ records' = Append(records, record)
                /\ UNCHANGED <<notes, reviews>>
          [] OTHER -> FALSE
    /\ UNCHANGED <<task, epoch, round, opened, issued, events, snapshots, preparing, results,
                   joined, knows, call>>

(* The generator's actions: the plans, the screening and the failures are  *)
(* recorded; a plan that holds is assembled, plans that are stuck branch.  *)
ExploreDone ==
    /\ task = "explore" /\ Current # {}
    /\ Len(records) < MaxRecords /\ records' = Append(records, knows[Generation])
    /\ \/ AccessMoves("assemble") \/ (round < LastRound /\ AccessMoves("branch_prepare"))
    /\ UNCHANGED <<round, opened, issued, events, notes, reviews, snapshots, preparing,
                   results, joined, knows, call>>

(* branch_complete: the result and its record are published, the branch is *)
(* sealed, and the last one lets the join begin.                           *)
BranchComplete ==
    /\ task = "branch_run"
    /\ \E t \in Current :
        LET b == t.branch IN
        /\ notes[b] # {}
        /\ results' = [results EXCEPT ![b] = [written |-> TRUE, holds |-> knows[b]]]
        /\ Len(records) < MaxRecords /\ records' = Append(records, {b})
        /\ opened' = [opened EXCEPT ![b] = "sealed"]
        /\ AccessMoves(IF Started \ {b} \subseteq {c \in RoundBranches : opened[c] = "sealed"}
                       THEN "branch_join" ELSE "branch_run")
    /\ UNCHANGED <<round, issued, events, notes, reviews, snapshots, preparing, joined, knows,
                   call>>

(* join_complete.                                                          *)
JoinComplete ==
    /\ task = "branch_join" /\ Current # {}
    /\ joined' = knows[Generation] \cup UNION {results[b].holds : b \in Started}
    /\ Len(records) < MaxRecords /\ records' = Append(records, joined')
    /\ AccessMoves("assemble") \/ AccessMoves("explore")
    /\ Learn(Generation, joined')
    /\ UNCHANGED <<round, opened, issued, events, notes, reviews, snapshots, preparing,
                   results, call>>

(* proof_submitted, repair_submitted and verification_submitted.           *)
ProofSubmitted ==
    /\ task \in {"assemble", "repair"} /\ Current # {} /\ AccessMoves("verify")
    /\ UNCHANGED <<round, opened, issued, records, events, notes, reviews, snapshots,
                   preparing, results, joined, knows, call>>

VerificationSubmitted ==
    /\ task = "verify" /\ Current # {} /\ reviews # {}
    /\ \E s \in {"finished", "repair", "explore"} : AccessMoves(s)
    /\ UNCHANGED <<round, opened, issued, records, events, notes, reviews, snapshots,
                   preparing, results, joined, knows, call>>

-----------------------------------------------------------------------------
(* Branch preparation.                                                     *)

(* What prepare_branch_round would freeze now: events are left out.        *)
SnapshotNow == records

(* ensure_snapshot: bytes that are there already must be the same.         *)
Freeze ==
    /\ task = "branch_prepare" /\ ~preparing
    /\ snapshots[round + 1] \in {NoSnapshot, [taken |-> TRUE, records |-> SnapshotNow]}
    /\ snapshots' = [snapshots EXCEPT ![round + 1] = [taken |-> TRUE, records |-> SnapshotNow]]
    /\ preparing' = TRUE
    /\ UNCHANGED <<task, epoch, round, opened, issued, records, events, notes, reviews,
                   results, joined, knows, call>>

(* complete_branch_preparation.                                            *)
OpenRound ==
    /\ task = "branch_prepare" /\ preparing
    /\ preparing' = FALSE /\ round' = round + 1
    /\ opened' = [b \in RoundBranches |-> IF b[1] = round + 1 THEN "pending" ELSE opened[b]]
    /\ AccessMoves("branch_run")
    /\ UNCHANGED <<issued, records, events, notes, reviews, snapshots, results, joined, knows,
                   call>>

-----------------------------------------------------------------------------
(* The owner cancels the run; the process dies with the calls in flight.   *)

AccessCancel ==
    /\ task # "finished" /\ AccessMoves("finished") /\ preparing' = FALSE
    /\ UNCHANGED <<round, opened, issued, records, events, notes, reviews, snapshots, results,
                   joined, knows, call>>

AccessCrash ==
    /\ preparing' = FALSE /\ call' = [c \in Callers |-> NoCall]
    /\ <<preparing, call>>' # <<preparing, call>>
    /\ UNCHANGED durable

Commit == ExploreDone \/ BranchComplete \/ JoinComplete \/ ProofSubmitted \/ VerificationSubmitted

AccessNext ==
    \/ NextTask \/ Write \/ Commit
    \/ \E c \in Callers : Ask(c) \/ Answer(c) \/ Retrieved(c)
    \/ Freeze \/ OpenRound
    \/ AccessCancel \/ AccessCrash

AccessSpec == AccessInit /\ [][AccessNext]_accessVars

-----------------------------------------------------------------------------
(* Properties.                                                             *)

AccessTypeOK ==
    /\ task \in Stages /\ epoch \in 1..LastEpoch /\ round \in 0..LastRound
    /\ opened \in [RoundBranches -> {"absent", "pending", "running", "sealed"}]
    /\ knows \in [Parties -> SUBSET Parties]

(* No task of a branch is shown anything its siblings of the round know,   *)
(* and no task of the verifier anything of those who made the proof,       *)
(* however late a call is answered and whatever a late record is appended  *)
(* to (read_resource, retrieve, prepare_branch_round).                     *)
Firewalled ==
    /\ \A b \in RoundBranches : knows[b] \cap Siblings(b) = {}
    /\ knows[Verifier] = {Verifier}

(* A preparation that stopped half-way can be repeated: what is frozen is  *)
(* what a repetition would freeze, though retrievals are still answered    *)
(* (prepare_branch_round, ensure_snapshot).                                *)
PreparationRepeats ==
    (task = "branch_prepare" /\ snapshots[round + 1].taken) => snapshots[round + 1].records = SnapshotNow
=============================================================================
