# MTM, modelled in TLA+

MTM is a local server that lets a language model drive a long mathematical
*workflow run* through a handful of tools. The model calls `rethlas_step` again
and again; every call carries a capability token, some caller writes (records
appended to or replacing logical files of the run's private vault, or rows of
the database) and one workflow action. Beside the workflow the server offers
native tools: commands in a sandbox, patches, reads and searches of a workspace.
It is a multi-threaded process over SQLite and the file system: it may be killed
at any point, calls may be lost, repeated or raced, files change under it, and
the same action must never be executed twice nor be reported wrongly.

This directory holds TLA+ models of that program, TLC configurations that check
them on small instances, and TLAPS proofs of their most important properties
for every value of the constants. `PROJECT.json` maps every definition to the
lines it models, and lists the runs, the mutants that show each property can
fail, the findings, the hazards and the theorems.

## 1. Inventory

| Component | State | Operations | Hard behaviour | Module |
|---|---|---|---|---|
| Step submission receipts (`mtm-storage/step_*.rs`, `atomic_actions.rs`, `mtm-runtime/submission_receipts.rs`) | receipts, checkpoints, write journals, enrolled actions | reserve, activate, begin/checkpoint a write, arm, enroll, complete, look up, recover | crash between two transactions, recovery racing the live thread, replays | `StepSubmission`, `SubmissionLedger` |
| Tool handler (`mtm-runtime/tool_backend.rs`) | none of its own | `rethlas_step` and its `recover_only` form, the other tools | values read before and used after several transactions | `StepSubmission` |
| Caller file effects (`file_effect.rs`, `submission_write.rs`) | vault files, flocks | lock, prepare, publish, observe | rename done, acknowledgement not; equal bytes | `StepSubmission` |
| Task transitions (`task_transitions.rs`) | run state, epoch, domains, capabilities, receipt | one transaction for all five | authority rechecked at commit | `StepSubmission`, `BranchRound` |
| Capabilities and what they show (`capability.rs`, `engine.rs` read/search/retrieve) | registered tokens, memories, frozen snapshots | issue, validate, revoke, expire; read, search, retrieve | checked when the call arrives, served later | `StepSubmission`, `TaskAccess` |
| Workflow engine, kernel, mechanical transitions (`engine.rs`, `kernel.rs`, `mechanical_transitions.rs`) | runs, plans, branches, proof records | next_task, the commit handlers, cancel, gates | a stale refresh, the branch barrier, seconds-long gates | `BranchRound`, `ProofGate` |
| Sources and audits (`research_writes.rs`, `engine.rs`) | references, stored sources, manifest, audits, report | retrieve, register, audit, judge | retrievals that race and die; audits of an earlier round | `SourceAudits` |
| Action effects (`action_effect.rs`, `action_transactions.rs`) | private effect slots | prepare, write, seal | repetition after a crash, or beside a thread that was given up | `ActionEffect` |
| Run creation (`creation_*.rs`) | creation receipts, half-initialised runs | create, resume | crash during initialization | `Creation` |
| Claims and fact memory (`fact_memory.rs`, `store.rs`) | claims, revisions, facts, findings | promote, revoke, view | promotion of something superseded, revocation in between | `FactRegistry` |
| Research state (`research_state/*`) | none: a projection of the records | accept, normalize, analyze, advise | records of one round replayed in another; cycles | `Research*` |
| State store and configuration (`store.rs`, `schema.rs`, `config.rs`) | schema version, secret | open, migrate, publish the secret | simultaneous first starts | `FirstStart` |
| OAuth gateway (`oauth.rs`) | clients, codes, tokens | register, authorize, exchange, verify, purge | one use of a code | `OAuth` |
| MCP/HTTP gateway (`mcp.rs`, `http.rs`) | none | one request | two eras, mirrored headers, what ran before a refusal | `McpHttp` |
| Native processes (`process.rs`, `capture.rs`, `quick_tunnel.rs`) | command table, output rings, tunnel | start, poll, kill, page, close | watchdog, exit and callers at once; late events | `CommandManager`, `ChildOutput` |
| Native authority and replay (`native_*.rs`, `mtm-core/shell_*.rs`) | keyed writes, approvals | collect facts, classify, inspect, start | files that move between inspection and start | `NativeExec`, `CommandFacts`, `PatchCommit`, `NativeReplay` |
| Workspace (`workspace*.rs`) | files others write to | patch, edit, read, blame, list, search | rollback when one of several fails; pages of a changing file | `PatchCommit`, `TextEdits`, `WorkspaceReads` |
| Patches (`mtm-core/patch*.rs`) | none | place and splice hunks | repeated context | `TextEdits` |
| Sandbox (`bubblewrap.rs`, `toolchain.rs`, `helper.rs`) | roots fixed at the start | plan, attest, mount | a host that changes after the attestation | `SandboxPlan` |
| LaTeX gate (`latex.rs`, `latex_scan.rs`) | none | scan, look out, compile | a text that means something else to TeX | `LatexGate` |
| Deployment (`mtm-cli/deployment.rs`) and rollout (`xtask/release_cutover.rs`) | selectors, manifest, journal, receipt | install, roll back, recover, roll out | interruption at any step, two rollouts | `Deployment`, `ReleaseSwitch`, `ReleaseCutover` |
| Developer tooling (`xtask`) | none | build, qualify | none at run time | none |

Interaction. The gateway admits a request and calls the tool handler. The
handler looks the receipt up, authorizes the token against the capability table
and the run, reserves a receipt, and drives the workflow engine; the engine
changes the run, its domains and its files; storage transactions tie the run,
the capabilities and the receipt together. A *domain* is one task episode: the
commit of its task seals it. The run's *epoch* rises with every transition and
every transition revokes all tokens of the run, which is how late requests are
fenced. Calls that only read, search or retrieve are not fenced that way.
The native tools share no state with the workflow but the process.

What makes each part correct:

- receipts: at most one submission of a run is open; a receipt closes once and
  states exactly what took effect; recovery never executes and never guesses;
- file effects: no write is settled while it is in flight; the journal and the
  file together always tell whether the outstanding write took effect;
- capabilities and transitions: a token acts only in the epoch it was issued
  for, and no two submissions move the run from the same epoch; no task is shown
  what it must not know, however late a call is answered;
- threads: every call is answered;
- branch rounds: a round is forked once, a branch finishes once and its result
  stays, the join waits for every branch and considers all of them, and there is
  always a branch a task can be issued for;
- proof gates: the paper that passed the compiler is the one that is judged and
  the one that is published, on evidence of its own round, and an approved run
  can be finalized;
- action effects: a repetition appends nothing twice and loses nothing;
- creation: a key makes one whole run, and a client that retries gets it;
- facts: what stands rests on what stands; no revision is lost;
- research state: everything accepted replays; what is reported solved is; advice
  can be followed and leads on;
- gateway: a code buys one token, a refusal ran nothing;
- commands: no child without a handle, each end reported once, no character of
  output shown twice, and none lacking that is neither announced as missing nor
  cut by an edge of an answer;
- native authority: what runs was inspected, what is written is written once per
  key, a change is there as a whole or not at all;
- sandbox and LaTeX gate: data stays hidden, a command TeX would run is seen;
- releases: the selectors move together, and an answer or a receipt is true.

## 2. Modules

Core, one submission and one run:

| Module | What it is |
|---|---|
| `StepSubmission` | the `rethlas_step` submission protocol of one run, with the task episodes it acts in |
| `SubmissionLedger` | what the receipts promise a client, with no threads, files or transactions |
| `StepSubmissionProofs` | the TLAPS proofs about `StepSubmission` |
| `ActionEffect` | the private files of a restartable action, between enrollment and seal |
| `Creation` | a run is created, keyed or not, and resumed |
| `BranchRound`, `ForkJoin` | plans, direct screening, branches, join and replanning of a full run; what a branch round promises |
| `ProofGate`, `ProofPipeline` | assembly, LaTeX gate, verification, repair, escalation, finalization; what the two gates promise |
| `RoundsProofs` | the proofs about branch rounds and proof gates, and about what runs beside them |
| `SourceAudits` | references, retrievals, manifest, audits and the verdict |
| `TaskAccess` | what each role is served and comes to know |
| `FactRegistry` | claims, revisions, facts, revocation, findings, the memory view |
| `TaskProofs` | the proofs about `TaskAccess`, `SourceAudits` and `FactRegistry` |
| `ResearchGraph` | the analysis of a research snapshot, as operators |
| `ResearchSnapshots`, `ResearchRecords`, `ResearchRetrieval`, `ResearchAdvice` | every small snapshot against a reference definition; records over rounds; retrieval evidence; advice |
| `OnceProofs` | the proofs about what may be repeated: `Creation`, `FirstStart`, `ActionEffect` and `ResearchRetrieval` |

Server:

| Module | What it is |
|---|---|
| `FirstStart` | secret and schema when processes start at the same time and fail; extends `Creation`, and joins what each promises in `CreatedOnce` |
| `OAuth` | the authorization server |
| `McpHttp` | one request to POST /mcp, from the origin check to the status |
| `CommandManager`, `ChildOutput` | native commands; their output and the events of the tunnel |
| `NativeReplay` | the bounded memory of keyed writes |
| `ServerProofs` | the proofs about `FirstStart`, `ChildOutput`, `McpHttp`, `OAuth`, `NativeReplay` and `CommandManager` |

Host:

| Module | What it is |
|---|---|
| `NativeExec`, `CommandFacts` | exec_command from the facts to the start; the executables a shell text names |
| `TextEdits` | the placement of hunks and of line edits, against reference definitions |
| `PatchCommit` | git's ignore rules as a patch knows them, and prepared changes put into a workspace others write to |
| `WorkspaceReads` | pages of a file, listings and searches while others write |
| `ReadsProofs` | the proofs about `WorkspaceReads` |
| `SandboxPlan` | roots, mounts, probe and helper |
| `LatexGate` | the scan, the look-out and the compiler |
| `Deployment`, `ReleaseSwitch` | install, rollback, status and recovery; what they promise of the selectors |
| `ReleaseCutover` | the governed rollout; extends `Deployment`, and joins what each promises in `ReleasesHonest` |
| `ReleaseProofs` | the proofs about `Deployment` and `ReleaseCutover` |
| `HostProofs` | the proofs about `NativeExec`, `PatchCommit` and `SandboxPlan` |

Model checking: `MCStepSubmission` holds model values, requests and symmetry.
`MCRounds`, `MCServer`, `MCHost`, `MCResearch` and `MCLifecycles` put components
that share no state side by side: a behaviour chooses in its initial state, by
`focus`, the one that runs, so that the state space is the sum and not the
product of theirs. They compose nothing; what composes is `BranchRound` with
`ForkJoin`, `ProofGate` with `ProofPipeline`, `Deployment` with `ReleaseSwitch`
and `StepSubmission` with `SubmissionLedger`, by refinement.

`StepSubmission` looks at one submission from the inside and leaves the workflow
states abstract; `BranchRound` and `ProofGate` look at the workflow states and
take from it that a run has at most one pending submission (`OnePending`, a
theorem there). `ProofGate` sees all the research of `BranchRound` as its state
`explore`; `BranchRound` ends where `ProofGate` has `assemble`. `SourceAudits`
and `TaskAccess` take from `StepSubmission` that writes and commits are fenced,
and model what is not: retrievals and reads.

### StepSubmission

*Granularity.* One SQLite immediate transaction, one rename, or one read of
shared state is one step of a thread; whatever the thread does between two of
those is local and invisible to the others. Every handler is therefore a chain
of steps, and `wk[w].pc` says how far thread `w` is. What a thread read earlier
and still relies on (`evidence`, `snap`, `observed`, `stage`, `domain`,
`epoch`, `outcome`) is kept in its record, so that it can be stale.

*Durable state.* `run` (stage, epoch, domains), `caps` (the capability table),
`receipt` (`step_receipts`), `ckpt` (`step_checkpoints` joined with
`step_write_journals` and the enrolled atomic action) and `file` (vault
contents). *Volatile state*: `lock` (flocks) and `wk` (threads); a crash resets
both and nothing else. *History*: `effects` counts the caller writes of each
submission that really took effect and `moved` its transitions; no guard reads
them.

*Actions and code.*

| Actions | Code |
|---|---|
| `LookupMiss`, `LookupHit`, `Authorize`, `Relookup` | the entry of `rethlas_step`: `submission_receipt`, `authorize_submission` |
| `Reserve(Refused)`, `Activate(Refused)` | `reserve_submission`, `activate_submission` |
| `WriteDenied`, `WriteRejected`, `LockAndPrepare`, `BeginFile`, `Publish`, `Checkpoint`, `BeginOpaque`, `RejectOpaque`, `DatabaseWrite` | `write_submission`, `FileEffectGuard`, `begin_`/`checkpoint_submission_write`, the database writes that acknowledge in their own transaction |
| `Arm`, `CommitRefused`, `EnrollAtomic`, `EnrollRestartable`, `SaveProgress`, `Transition`, `TransitionRefused` | `arm_submission_commit`, `commit`, enrollment, `transition_task`, the progress-only answer of `direct_proving_complete` |
| `Record`, `Correct`, `Observe`, `Revoke`, `Finish`, `AnswerUnknown` | `record_submission_outcome`, `recoverable_step`, `finish_receipted_submission` |
| `Snapshot`, `Inspect`, `Reconcile` | `recover_submission`: `submission_recovery`, the observation under the flock, `reconcile_caller_writes` |
| `ReadRun`, `CheckPending`, `AdvanceMechanical`, `ReachTerminal`, `FindDomain`, `CreateDomain`, `ReadClaims`, `InsertCapability` | `next_task`, `advance_mechanical`, `ensure_domain`, `issue` |
| `StartCancel`, `Cancel` | the tool call that cancels a run |
| `Fault`, `Expire`, `Crash` | an I/O error at any executing step, the token's TTL, a killed process |

*Abstractions.* A token, its fingerprint, its receipt and its execution id are
in one-to-one correspondence and are one element of `Caps`. The eighteen
workflow states are reduced to those with a model role, those `next_task`
advances mechanically, and the terminal ones. Domains are those of one task
state (see the comment of `FindDomain`). An error is what its category makes of
it: `Validation` and `Conflict` become a recorded correction (label
`"correct"`), every other category leaves the receipt as it is (`"observe"`).
A malformed token leads to the same refresh as a call without one. Role
permissions and normalizers are the free choice of `WriteRejected`. The files an
action writes itself are disjoint from the caller's and are not part of this
module.

### SubmissionLedger

Every submission is opened at most once and only while no other is open; caller
writes land while it is open; it is closed either together with the one move of
the run or without one; and the closing entry states the exact number of landed
writes. `StepSubmission!Book` is the refinement mapping and `ImplementsLedger`
the property.

### BranchRound

*State.* `run` is the row of the run (state, epoch, round, branch requests,
screening progress), `row` the branches with their domains, `frozen`, `result`
and `join` the vault files, `tokens` the capabilities that are not revoked,
`sub` the pending submission, `rf` the threads inside `next_task`. Such a thread
keeps the run it read at its start, because the code does: everything it decides
later is decided by that copy, and only the transactions compare it with the
row.

| Actions | Code |
|---|---|
| `ReadRun`, `CheckPending`, `Dispatch` | `next_task` up to `advance_mechanical` |
| `FreezeRound`, `PrepareRound` | `prepare_branch_round`: the vault snapshot and assignments, then `complete_branch_preparation` |
| `ListBranches`, `SetRunning`, `Issue` | `ensure_domain` for a branch (a listing and, in a later statement, `update_branch_status`), `issue` |
| `Submit`, `Settle` | a submission is reserved; it ends without a transition |
| `PlansProposed`, `DirectProving`, `CommitRoute` | `commit_plans_proposed`, `commit_direct_proving` |
| `PlanSeal`, `PublishResult`, `SealBranch` | `commit_branch`: the barrier is computed, the read-only result is written, one transaction seals and computes the barrier again |
| `EvaluateJoin`, `PublishJoin`, `CommitJoin` | `commit_join` |
| `FailuresIdentified`, `ReplanComplete`, `Cancel`, `Crash` | the other commits, `cancel`, a killed process |

*Abstractions.* A branch is named by its round and its plan. The records an
action leaves in the generation memory are `ActionEffect`'s; a conflict of their
slots ends a submission the way `Settle` does. A result is its outcome together with
the epoch of the slot that wrote it.

### ProofGate

*State.* `run` with the metadata the gates compare, the three vault files
`draft`, `report` and `final`, the pending submission and the `next_task`
threads. A gate thread reads the run, checks for a pending submission, reads the
draft, compiles for seconds and commits; each of these is a step.

| Actions | Code |
|---|---|
| `WriteProof`, `WriteReport` | caller writes, by role permission |
| `AssessmentComplete`, `Escalate`, `ProofSubmitted`, `RepairSubmitted` | the commit handlers of the same names |
| `Judge`, `VerificationSubmitted` | `commit_verification_submitted`: the normalized report is published, then the run moves; the second rejection of a compact run makes it a full one |
| `ReadProof`, `CompleteGate` | `run_latex_gate`, `complete_latex_gate` |
| `IssuePermit`, `PublishFinal`, `CompleteFinalize` | `finalize`, `finalize_proof` |
| `ReadRun`, `CheckPending`, `Dispatch`, `Submit`, `Settle`, `Cancel`, `Crash` | as in `BranchRound` |

*Abstractions.* How tokens are issued is left to `StepSubmission`: a submission
is live until the run is moved under it. A gate result is its verdict, since two
results with the same verdict can be the same bytes; the compiler rejects what
is not in `Compiles` and may time out on anything. The promotion of a finished
proof into a project is `FactRegistry`'s, the audits the verdict looks at are
`SourceAudits`'.

### ForkJoin and ProofPipeline

`ForkJoin` has a phase, a round number and the finished branches: fork, finish,
leave, drop. `ProofPipeline` has a phase and one paper: check, reject, approve,
publish, drop. The mappings are `Phase`, `Finished` and `Paper` of the detailed
modules. A branch counts as finished when its *domain* is closed, not when its
status says so; the first is what the code keeps in every interleaving.

### ActionEffect and Creation

`ActionEffect` follows `run_action_effects`: for each write of the action a slot
named by run, epoch, state and action is looked for, made with the images of the
file before and after, and published; a repetition must find the file at one of
the two images. Recovery may give a submission up whose thread still runs, so a
thread and its repetition may meet at any step, and another action may change
`updated_at`, which is part of a record. `Creation` follows `start_idempotent`:
the key is bound to one request and one run id, the files are published one by
one under a lock, the rows are inserted in one transaction, and the transition
completes the receipt. An attempt may die or fail at each step, and a run may be
cancelled before it is complete.

### SourceAudits, TaskAccess and FactRegistry

`SourceAudits` gives every statement of a retrieval a step of its own, because
nothing holds them together: two retrievals may look the same paper up before
either inserts it (the second then fails on the UNIQUE constraint and its whole
retrieval with it). A verdict reads audits, report and manifest that earlier
submissions wrote. `TaskAccess` keeps, of every memory, whose knowledge its
records hold, and lets a call be checked at one moment and served at a later one.
The proof, its manifest and the registered sources are made to be read by others
and carry nothing. `FactRegistry` has one step per immediate transaction and one
per read outside of one.

### Research

`ResearchGraph` is the projection as operators; `ResearchSnapshots` walks through
every snapshot of two plans with up to three dependencies and compares cycles,
order, issues, routes and frontier with their definitions. `ResearchRecords` lets
the records of rounds accumulate the way the commit handlers accept them and
rebuilds the state. Nodes are numbers in the code's stable order.

### Server and host

Each module states its granularity in its header. Where the code holds a mutex
over an operation, the operation is one step; where it does not, every read and
every write of shared state is one. Others who write to the workspace, the tool
directories, the ignore rules or the selectors are actions of the environment
with a bound. What a library, the kernel or another program does (git, cloudflared,
the LaTeX compiler, the lookup through PATH) is modelled by what the code uses of
it and marked external in the map.

`ChildOutput` keeps what the code keeps, bytes, and decodes what the code decodes.
A byte is its offset in the stream; `CharWidth` says where the characters of the
text begin and how many bytes, one to four, each has. The ring, the polls, the
pages and the capture are cut at byte limits, and each answer is decoded by itself
with `Lossy`, the model of `String::from_utf8_lossy`: a first byte takes the
continuation bytes behind it, from whichever character, and what does not come to
a whole character is U+FFFD. `RefusedSecond` lists the first bytes after which the
second byte of another character is not acceptable (as after `E0` or `ED`). A
child that writes bytes that are no UTF-8 is left out: they are U+FFFD for every
reader and belong to no character. The properties compare the decoded answers with
the text that was written, and say what an edge does to a character that it cuts.
In the tunnel, the two log readers may end while cloudflared lives (`LogEnds`); the
reader then finds the channel disconnected.

## 3. Runs

| Run | Instance | Checks | Result |
|---|---|---|---|
| `step_crash` | 2 tokens, 2 threads, crash, cancel and I/O error anywhere; overwrite, restartable action | `OneCommitPerEpoch`, `OnlyKnownGaps`, `WritesInEpoch`, `ImplementsLedger` | holds |
| `step_race` | 1 token, 3 threads (the executor, retries, recoveries), expiry; append with an atomic action, a database write, an opaque write that may stop half-way | `Inv`, `InFlightFenced` | holds |
| `lifecycles` | a keyed creation with two starters and a fault; two commands; two submissions with crashes; fairness | `CreationConverges`, `CommandsEnd`, `EveryCallReturns` | holds |
| `server` | nine components of the server | `CreatedOnce`, `RepliesSound`, `OutputExact`, `TunnelEventsOrdered`, `WritesRemembered`, `ActionsRepeatable`, `GrantsSound`, `CommandsAccounted` | holds |
| `host` | twelve components of the host | `ExecutionInspected`, `FactsOfOneMoment`, `EditsExact`, `PatchKeepsFiles`, `ReadsExact`, `SandboxSound`, `TextsJudged`, `ImplementsSwitch`, `ReleasesHonest` | holds |
| `rounds_solo` | 2 rounds of 2 plans, 3 proofs of which 2 compile, 1 refresh at a time, crash, cancel; registry with views, evidence, access | `RoundsSound`, `PublishedCompiles`, `ApprovalEvidenced`, `FindingsSound`, `Firewalled` | holds |
| `rounds_race` | the same with 2 refreshes, 2 promotions and 2 retrievals at a time, and proofs that all compile | `NeverDenied`, `RegistrySound`, `ResultsReadOnly`, `ImplementsForkJoin`, `ImplementsPipeline` | holds |
| `research` | snapshots of 2 plans with up to 3 dependencies, 2 rounds of records, 4 retrievals, 3 attempts | `RoutesExact`, `RecordsAgree`, `EvidenceCountsOnce`, `AdviceSound` | holds |
| `branch_unseal` | 1 round of 2 plans, 2 refreshes, no hazard | `JoinCoversRound` | violated |
| `proof_aba` | 2 proofs, 1 of which compiles, 2 refreshes, no hazard | `PublishedCompiles` | violated |
| `research_replay` | 2 rounds with failure summaries | `AcceptedRecordsReplay` | violated |
| `audit_stale` | 2 proofs, 1 rejection, no concurrency | `AuditsOfApprovedProof` | violated |

A property of a portfolio joins the statements about one promise, each of which
has a name and a comment in its module (`CommandsAccounted` is `NoOrphan`,
`ActiveBounded`, `EndReportedOnce` and `OutcomeStable`).

*Bounds.* `Caps` is a finite supply of tokens: it bounds how many episodes a run
has. Two are needed for one submission to act on top of another's transition,
and every cross-submission property speaks of pairs. Two threads give the races
between an executor and a recovery, a retry, a refresh or a cancel; three, with
one token, give an executor, a recovery and a retry at once. One file and one
content suffice because an append always changes the file while a second
overwrite leaves its bytes equal, which are the two cases the journal tells
apart. Each cfg switches on the hazards it is about, because together they
multiply the state space without meeting in one code path.

For the branch runs two plans are the least the code accepts and two rounds the
least in which branches of an earlier round are listed with those of the current
one. Two refreshes are what a stale one needs to meet a fresh one. Three proofs
let a compact run be rejected twice, each time for another proof, and still
publish. The properties of the solo run are those a stale refresh can break:
`branch_unseal` and `proof_aba` show that for one of each. Two claims let a
result depend on another's; one revocation and (in the racing run) one
revision of the owner are what a promotion can miss. `LastEpoch = 9` with six
records lets a run of `TaskAccess` seal a branch of its second round while the
other one still works; the join of that round would take one more of each.

In the server run there are two callers of everything that can be called
twice at a time and two commands with room for one, so that one is pruned while
the other runs; the replay memory has two places for three keys; the ring
keeps 5 of 9 bytes, so that its middle is dropped, of a text with characters of
one, two and three bytes, so that pages, polls and the seam of the capture cut
characters, and at the seam a continuation byte of another character is once taken
and once refused; the versions a database may
have (0, 1, 2, 7) are those with a migration of their own kind before 8. In the
host run there are two paths with one foreign write each, patches of two
changes of every kind, hunks on files of up to three lines, texts of up to four
lexemes and of three characters, two selectors with two failures and a user edit,
and two rollouts. Three changes of a rule file are what it takes to change it and
to change it back between two looks.

*Symmetry* over threads and tokens is used in the two step runs, and over the
runs of a project in `rounds_solo`; all of them check safety only. *Deadlock*
is not checked: a run that is terminal, blocked behind an unknown receipt, or
out of tokens may really stop, and every other component comes to an end of its
bounded work.

*Fairness* (`lifecycles`, one component per behaviour). Weak fairness of each
thread of `rethlas_step` and of each started creation: threads are scheduled by
the operating system, flocks are taken without waiting, and a store operation
only waits for other short transactions. Strong fairness of the retry of a key
with its request: `CreationConverges` is about a client that keeps asking, while
other creations may hold the lock in between. Weak fairness of the watchdog of a
command, and of the death of a child that got a SIGKILL or heeds its SIGTERM.
Nothing is assumed about other callers, about faults, crashes, cancels, polls or
a child ending by itself.

### Findings

- `branch_unseal`: `ensure_domain` lists the branches and then sets the chosen
  one to running, without a condition on the status it has by now
  (`engine.rs:1529`). A refresh that listed a branch before another thread's
  submission sealed it revives the sealed branch. The join then considers only
  the branches that still are sealed, although its coverage is said to be
  complete and server-derived; if the round is still running, `ensure_domain`
  selects the revived branch, whose domain is closed, until the run is cancelled.
- `proof_aba`: `complete_latex_gate` compares the state and the metadata of the
  run and nothing else (`mechanical_transitions.rs:47`). If a repaired proof
  fails twice in the same way, the metadata are the same again, and a slow gate
  that read the draft in the middle of the repair commits its verdict for a proof
  it never compiled.
- `research_replay`: a failure summary may name nodes of the plans of the day;
  when the next round replaces the plans, `normalize_failures` answers an error
  for the old record, the research state cannot be rebuilt, and `next_task` fails
  for every later generator and repair task (`normalize/other.rs:330`).
- `audit_stale`: the verdict looks at the disposition of a source's audit and not
  at the proof it was made for; after a rejection and a repair the old audits
  cover the new proof (`engine.rs:3526`).

Met while modelling, described here and allowed for in the properties:

- Two steps of the submission protocol leave a pending receipt that no recovery
  can settle: a death between arming and enrolling, and a write to `branch:self`,
  which marks the journal opaque before it is rejected. `OnlyKnownGaps` shows that
  these and the (documented) overwrite with equal bytes are the only ones. A
  correction that was recorded and then overtaken by a cancel is answered as
  pending although it is completed.
- `FirstStart`: two processes that both read a version below 2 repeat the
  idempotent migrations 0 to 1 and 1 to 2, which set the version back; the slower
  one then fails at the creation of `step_receipts`, and the database stays at
  version 2 with the tables of 8 and cannot be opened again (`store.rs:206-313`).
  `StartsAgree` excludes exactly this.
- `ReleaseCutover`: the deployment is read before the lock is taken, so a rollout
  that began earlier and fails undoes a release that was receipted meanwhile
  (`release_cutover.rs:461`); the same when the receipt's directory cannot be synced.
- `FactRegistry`: a manifest that cites a fact by its id, and not the conditional
  revision it comes from, is promoted VERIFIED without the revision's hypotheses
  (`engine.rs:4020`); two promotions of one finished run may overwrite `promoted`
  by `conflict`; claim revisions stay VERIFIED when their fact is revoked; a memory
  view fails when a predecessor is revoked while it is collected.
- `TaskAccess`: a join domain is permitted the resource `snapshot`, which its
  domain has no identifier for; `steering` reads `[]` although the owner's
  instructions are queued (`engine.rs:1992`); an unchanged repair is compared only
  with the last rejected proof.
- `ChildOutput`: output is cut at bytes and then decoded lossily, in a page
  (`process.rs:495`), in a poll (`process.rs:1026`) and in the payload of a capture
  (`capture.rs:69`). A character cut by `next_offset`, by the preview or by the
  moment of a poll is U+FFFD in both answers, while `next_offset`, `omitted` and
  `truncated` count its bytes as delivered and no warning names it; a caller that
  joins the pages does not get it back. At the seam of a capture a first byte of
  the head may be completed by bytes of another character in the tail, to one that
  was never written. `OutputExact` states exactly these exceptions and no others.
  The tunnel reports that cloudflared exited when its output has ended, although
  it may still run (`quick_tunnel.rs:172`).
- `CommandManager`: the limit may be passed by concurrent starts; the watchdog can
  turn an exit code into a timeout. `WorkspaceReads`: a listing says truncated
  when exactly the maximum is there, and the search does not say that it looked
  into 50,000 files only; the continuation of a blame is not bound to the content. `Deployment`: an install whose journal was removed and whose
  directory cannot be synced answers failure although the release stands.
  `ResearchAdvice`: `stop_retrieval` hides the advice to screen or to consolidate
  until a retrieval finds something new.
- `SandboxPlan`: only the links of programs in a directory of `PATH` are followed
  to the roots they need, not those of an explicitly configured tool directory;
  and a host directory `/workspace` below a tool root is hidden by the workspace's
  own mount. Both came out of the proof: `ToolsReachable` names the two.

## 4. Proofs

`StepSubmissionProofs` proves, for any number of tokens, threads, files,
contents and requests, and with all hazards, from `RequestAssumption` and
`ConstantAssumption` only:

| Theorem | States |
|---|---|
| `Invariance` | `Spec => []Inv` |
| `TypeCorrect` | `Spec => []TypeOK` |
| `Fenced` | `Spec => []InFlightFenced` |
| `InEpoch` | `Spec => WritesInEpoch` |
| `CommitsApart` | `Spec => []OneCommitPerEpoch` |
| `LedgerRefinement` | `Spec => ImplementsLedger` |

The inductive invariant is
`Inv == TypeInv /\ (\A c : ReceiptExact(c)) /\ OnePending /\ OneOwner /\ (\A w : ThreadOK(w))`.
Exact receipts are not inductive alone:

- a pending receipt is exact only through its journal, and while a file marker
  is outstanding only the *file* tells whether one more write took effect
  (`Journal`);
- that the file cannot change under the marker needs the flock and the fact that
  a thread about to publish still sees its own marker and its own count
  (`ThreadOK`), and that recovery observed the file under the same flock;
- the marker stays the thread's own only because the thread owns its submission
  alone (`OneOwner`: reservation succeeds once per token) and no other submission
  is open (`OnePending`);
- writes stay in their epoch because only a submission that is pending can move
  the run out of a task stage, except for `Cancel`, which makes it terminal.

The proof is layered: lemmas that say what an invariant needs of a step that
changes only a thread (`QuietStep`), locks (`LockStep`), the journal
(`JournalStep`), the settlement of a receipt (`SettleStep`) or the run
(`RunStep`); one lemma per action from those; `NextInv` from the actions; two
footprint lemmas (`NextFootprint`, `NextKeepsEpochs`) for the action properties
and the refinement. `Inv` is also an invariant of the run `step_race`.

`GapsKnown` (`Spec => []OnlyKnownGaps`) is about the receipts a recovery has to
leave open. It rests on `GapInv` on top of `Inv`: a submission that is ready to
commit has accepted exactly what it expected (`CommitExact`), and an action that
is being armed is the first thing its journal records (`FirstEnrolment`).

`RoundsProofs` proves about `BranchRound` and `ProofGate`, for any number of
plans, rounds and refreshes and any set of proofs:

| Theorem | States | Assumes |
|---|---|---|
| `RoundTypes` | `Spec => []TypeOK` | `RoundAssumption` |
| `ResultsStay` | `Spec => ResultsReadOnly` | `RoundAssumption` |
| `RoundsForkAndJoin` | `Spec => ImplementsForkJoin` | `RoundAssumption` |
| `RoundsAlwaysSound` | `RoundsSpec => []RoundsSound` | `OneAtATime`, `RoundAssumption`, `AccessAssumption`, `SourceAssumption` |
| `ApprovedNeverDenied` | `Gate!Spec => []NeverDenied` | nothing |
| `PublishedAlwaysCompiles` | `Gate!Spec => []PublishedCompiles` | `GateAlone` |
| `GateIsPipeline` | `Gate!Spec => ImplementsPipeline` | `GateAlone` |
| `RegistrySoundAlways` | `RoundsSpec => []RegistrySound` | `Given` finite |
| `FindingsSoundAlways` | `RoundsSpec => []FindingsSound` | nothing |

That a round is forked once although several refreshes prepare it from copies of
the row needs `RoundInv`. Open branches are of the current round, which has all
its branches (`RowOK`). The branches run in order: one that a refresh, a token or
a result speaks of was selected, those before it being over (`Selected`, in
`ThreadOK`, `TokenOK` and `ResultOK`). A submission that seals works on an open
branch, whose result, if there is one, is of the submission's own epoch
(`Sealing`).

`RoundsAlwaysSound` adds `SoloInv` to it: a branch's domain is open until the
branch is sealed and a token's branch is no longer pending (`StatusOK`), while
branches run one is unfinished and from the join on none is (`BarrierOK`), and a
join of the current epoch has looked at every branch of the round (`JoinOK`). It
assumes `OneAtATime`, one refresh at a time. Without it the property is false: a
refresh that read a pending branch puts a sealed one back to running, which
`branch_unseal` shows. The parts that are not about the rounds (`Gate!TypeOK`,
`EvidenceTypeOK`, `AccessTypeOK`, `PreparationRepeats`) come from the invariants
of their own modules; `PartsApart` shows that a behaviour of `MCRounds` is one of
each part.

`GateInv` is about the gates: a live submission that has judged has judged what
lies in the vault (`GateSubmission`), from the approval on the draft stays and
what is published is it (`GateFiles`), and a refresh that saw the approval finds
the run approved for good (`GateThread`). `Compiled` adds that the draft is the paper
the compiler took. It holds under `GateAlone`: one refresh at a time is in the
gate, or the compiler takes every proof. The hypothesis is not a convenience.
Without it the property is false: the verdict of a compiler that ran on a draft
since replaced is accepted for the draft of the next visit, which `proof_aba`
shows. `ApprovedNeverDenied` needs no such hypothesis.

`TaskProofs` proves about `TaskAccess`, for any number of branches, rounds,
callers and retrievals:

| Theorem | States | Assumes |
|---|---|---|
| `BranchesFirewalled` | `AccessSpec => []Firewalled` | nothing |
| `PreparationAlwaysRepeats` | `AccessSpec => []PreparationRepeats` | `AccessAssumption` |

That nothing of a sibling is *shown* is not inductive: it needs that nothing of a
sibling is in any record the task can reach, that a snapshot was frozen from
memories without branches of its round, that a result is only read after the
round was joined, and, for a call that was checked earlier, that what was
permitted then is still harmless now, because round and stage only grow.

It also proves about `SourceAudits`, for any number of sources, threads,
retrievals and rejections:

| Theorem | States | Assumes |
|---|---|---|
| `SourcesAlwaysOnce` | `EvidenceSpec => []SourcesOnce` | `Given` finite |
| `ApprovalAlwaysEvidenced` | `EvidenceSpec => []ApprovalEvidenced` | `Given` and `Papers` finite |

Its invariant `SourceInv` adds what a retrieval in flight holds (a row that is
registered, items that are stored), that the text of the owner is stored only of
what the owner supplied, and that a report that says "correct" is of the current
round, because a judgement that leaves it in the past rewrites it. There are no
more rows than keys (`RowsAuditable`), by injectivity and cardinality.

And about `FactRegistry`, for any claims, revisions, facts, runs and
dependencies, from `RegistryAssumption`:

| Theorem | States |
|---|---|
| `RegistryAlwaysSound` | `RegistrySpec => [](RestsOnStanding /\ LineOfRevisions)` |
| `FindingsAlwaysStand` | `RegistrySpec => [](HypothesesKept /\ VerifiedStands /\ ViewComplete)` |

A revocation deactivates everything that rests on the fact, to any depth, in one
transaction; promotions in between only add rows that rest on what stands. The
invariant `RegistryInv` says that a row never changes but for being active, that
the batch of a manifest is fixed when it is read and that what a run remembers of
a claim was its revision then. The closures (dependencies, dependents) are the
least sets, so that no induction over their depth is needed; where a revision has
a predecessor of a predecessor, the proof goes by the least number for which the
statement fails.

`OnceProofs` proves about what may be repeated:

| Theorem | States | Assumes |
|---|---|---|
| `CreationAlwaysSound` | `CreationSpec => []CreationSound` | `CreationSizes`, `CreationNames` |
| `AlwaysCreatedOnce` | `CreationSpec /\ FirstSpec => []CreatedOnce` | also `FirstAssumption` |
| `ActionsAlwaysRepeatable` | `EffectSpec => ActionsRepeatable` | `EffectSizes`, `EffectNames` |
| `EvidenceAlwaysCountsOnce` | `RetrievalSpec => []EvidenceCountsOnce` | `RetrievalSizes` |

`CreationInv`: the row and the files of a run that a receipt is bound to are all
of the request of that receipt, and a starter relies, at each of its steps, on
what the others may not undo meanwhile. `EffectInv`: a slot tells the truth of
its file, and a thread at its rename holds the lock and finds the image from
before; the records of earlier actions stay where they are, and what a repetition
is refused for does not go away. Both let a second thread, one whose submission
was given up, come by at any step. `EvidenceCountsOnce` is about what a fold over
the events accounts to each search; it is a recursive function in
`ResearchRetrieval`, and the proof goes by the least number of events after which
an account is wrong.

`ReleaseProofs` proves about the releases, for any selectors, releases, faults,
deaths and edits, from `DeploymentAssumption` and `CutoverAssumption`:

| Theorem | States |
|---|---|
| `DeploymentImplementsSwitch` | `DeploySpec => ImplementsSwitch` |
| `DeploymentAlwaysHonest` | `DeploySpec => DeploymentHonest` |
| `CutoverAlwaysHonest` | `CutoverSpec => CutoverHonest` |
| `ReleasesAlwaysHonest` | both, as the run checks them: `ReleasesSpec => ReleasesHonest` |

The refinement mapping of `ReleaseSwitch` is what a recovery would restore. So
the whole of an install is one stutter after another but for the step that
removes the journal, which is the one that switches; `DeployInv` says that until
then the journal leads back to what stood, wherever the command died. In
`CutoverInv`, between two rollouts the entries and the deployment agree, or the
one that broke off left its lock or said so.

`ServerProofs` proves about seven protocols of the server, for any number of
callers and any sizes, from the assumptions of their modules:

| Theorem | States | Rests on |
|---|---|---|
| `StartsAlwaysAgree` | `FirstSpec => []StartsAgree` | tables are never dropped (`TablesStay`); a process that migrates has read a version no newer than its tables |
| `TunnelAlwaysOrdered` | `TunnelSpec => []TunnelEventsOrdered` | a reader lives only beside a child that was started, and the last event is its own while it lives (`ReaderLast`) |
| `RepliesAlwaysSound` | `McpSpec => []RepliesSound` | no tool has run before the call (`RunsLate`), and a modern call passed the comparison of header and body |
| `GrantsAlwaysSound` | `OAuthSpec => GrantsSound` | what a request holds of a code is what the table held when it was deleted (`InHand`), it was never drawn again (`Undrawn`), and what reaches the token was compared (`Compared`) |
| `WritesAlwaysRemembered` | `ReplaySpec => []WritesRemembered` | one entry per slot; a call that writes has a pending entry (`WritersPend`), so that no eviction can pick it; what was written for a slot is held by its entry or was completed and evicted (`WorkHeld`) |
| `OutputAlwaysExact` | `StreamSpec => []OutputExact` | the ring and the capture keep the head and the tail in their places (`RetainedExactly`); a run of the written bytes decodes to what `ShownText` says (`LossyRun`), so that only edges cut; a page begins where the last one ended or at a gap it announces, and a character is cut by an edge exactly when it lies in no page (`EdgesCut`); across the seam nothing but the last character of the head can take a foreign byte (`SeamText`). Assumes `StreamSizes` and `WritesUtf8` |
| `CommandsAlwaysAccounted` | `ManagerSpec => CommandsAccounted` | a child that lives is in the table or about to be put there; those in the table and the callers that are starting one are never more than the limit and the callers; what a caller was told of an end is what its record says, and commands only move on (`ManagerInv`) |

`HostProofs` proves about the host:

| Theorem | States | Rests on |
|---|---|---|
| `ExecutionAlwaysInspected` | `ExecSpec => []ExecutionInspected` | what was collected is of the command and no refusal is among it (`Collected`); every privileged program among it was asked for (`Authorized`); what is on disk when the command starts is what was found twice, or came later (`Fresh`) |
| `PatchAlwaysKeepsFiles` | `CommitSpec => []PatchKeepsFiles` | `CommitInv`, from `PatchShapes` |
| `FactsAlwaysOfOneMoment` | `IgnoreSpec => []FactsOfOneMoment` | versions only grow, so a file with the same print twice did not change between: each answer is of a state between the two prints (`SeenBetween`), and which files count is said by one of them |
| `SandboxAlwaysSound` | `SandboxSpec => []SandboxSound` | `SandboxInv`: what the probe saw, what was derived from directories that never move, the plan of the start |

`PatchKeepsFiles` speaks of inodes: an original that is moved aside, linked back
or found under its name. Its invariant has two halves. An inode is found under
one name only, or meant for one by a staged or a kept link (`Homes`), so a step on
one name takes nothing from another, and a file that is written in place is
written at its home. And every call knows where each of its changes stands
(`JobInv`): it looked at what it is about to replace, unless that came after its
last look (`Looked`); what it has to take back is its own, or came too late
(`Own`); and a name nobody else touched holds the change, the original, or the
original is kept (`Placed`). The writers outside may act between any two steps,
as often as they like. `PatchShapes` is what `insert_prepared_change` gives: one
change per path, for the prepared changes are a map.

`SandboxSound` is about any `PATH` and any configured tool directories over the
host of the model, which has 23 directories. Its proof has a part about the
algorithm and a part about change. The algorithm: `CollapseKeeps`, a nested root is
dropped only when one above it is kept; `MountShape` and the lemmas after it, which
mount covers a path is decided by the last one above it, and the data is masked
after every root was bound; `AllPlanned`, a probe that counts as many roots as were
planned found all of them. Change: a movable directory may come and go between the
start and any command, so the invariant keeps only what was derived from the
others, and the plan of a command fails rather than bind what is gone.

`ReadsProofs` proves about what is read of the workspace:

| Theorem | States | Assumes |
|---|---|---|
| `ReadsAlwaysExact` | `ReadSpec /\ SearchSpec => []ReadsExact` | `ReadSizes`: the cap on the files of a search is a number |

It holds for files and pages of any size, any number of writes and of changes of
the tree; the requests, the ways others write and the eight paths of the tree are
the model's. A page is computed line by line. `PageOK` says of any number of lines
that what the page has, joined with what is left from where it stands, is what was
asked for, and that it stands where a line begins or at a character inside one;
`TakeLineOK` is one line, `PageIsOK` the page, by the least number of lines that
fails. What fits of a text is a beginning of it, and the next character would not
fit (`FitsIs`). The invariant `ReadInv` then says that the pages given, joined with
what is left, are what was asked for, all in the content the continuation names,
and that what was loaded is a content of the file unless somebody wrote since its
print was taken (`LoadedFresh`): the read in two halves is torn only when the print
tells.

The invariant of a walk, `SearchInv`, says that what stood all the time is listed,
in `todo` or in a directory of `todo` (`ListCovers`, `FilesCover`): a step takes the
least path, lists it or goes into it, and a path that was ever missing has not stood.
The paths are found in increasing order, so none is found twice, and a search has
for each file it read all of its matching lines, and none for one to come
(`Counted`). With no change nothing is gone (`NothingGone`), so a call that fails
has a change to blame.

*Only model-checked:*

- liveness (`EveryCallReturns`, `CreationConverges`, `CommandsEnd`), which is
  beyond the prover;
- the research projection (`RoutesExact`, `RecordsAgree`, `AdviceSound`) and the
  candidates of a shell line (in `TextsJudged`): their modules need recursive
  operators over graphs and texts, which the prover has no backend for;
- `EditsExact` and the scan of the LaTeX gate (in `TextsJudged`): what a
  definition computes over a text of any length, lexeme by lexeme, is an induction
  over data. Where the recursion is over a number and could be written as a
  function, it was proved by the least number that fails (`EvidenceCountsOnce`,
  `ReadsExact`);
  these two compare two recursions with each other;
- the findings: each refutes a property on one instance.

## 5. Plan

Done: the submission protocol, branch rounds and proof gates with their
refinements, what tasks are shown, sources and audits, claims and facts, action
effects, creation and first starts, OAuth, the MCP endpoint, keyed writes,
commands, their output and the tunnel, native execution, git's facts, the commit
of a patch, reads and searches of the workspace, the sandbox, deployment and
rollout, retrieval evidence: all with proofs. The research projection, the
placement of edits, the texts of commands and proofs: checked.

Left, in this order:

1. Compose a promotion of `FactRegistry` with the end of `ProofGate`, so that the
   run's metadata and the registry are compared.
2. The attempts, decisions and the rendered view of the research state; the git
   wrappers; the wildcard match and the path policy as bounded algorithms.
3. The placement of hunks as a recursive function over line numbers, and
   `EditsExact` as a theorem.

## 6. Not modelled

- Sockets, TLS and the bodies of the routes other than POST /mcp and the OAuth
  endpoints; the HTTP research client; the operator's console; argument and
  configuration parsing; terminal output: I/O or text without protocol state.
- Listing and paging queries of the store, the search index and its ranking,
  methodology parsing, the JSON schema validator, the command, path and URL
  policies and the classification table of programs: pure functions over texts.
- `get_artifact` and the other inspection tools. The transition log it can serve
  names a sealed branch and its status before the join (`engine.rs:3207`), while
  the task says "Other branch results are unavailable until join"
  (`engine.rs:1747`); `TaskAccess` is about what the tasks' capabilities serve.
- `PatchCommit`: a process that dies in the middle of a change has no recovery in
  the code, so none is modelled; directories created on the way stay.
- `SandboxPlan`: seccomp, limits, environment; a change between the plan of a
  command and its mounts. `LatexGate` is about what the lexical scan claims, no
  TeX interpreter; active characters and `^^` are part of what is refused.
- `CommandFacts`: compound commands over several lines.
- `ChildOutput`: the one-line summary of a compact answer and its preview of stdout
  and stderr together (`process.rs:655`, `process.rs:988`), and the answer's counts
  of retained bytes.
- `Deployment` with user edits during a running command; other writers of the
  deployment record beside `ReleaseCutover`.
- Power loss: a file that was renamed and whose directory was not synced is
  modelled as failed or done, never as gone later.
- The token's HMAC, digests and encodings are assumed to do what they are for: a
  token that validates was issued, and equal digests are equal contents.
- `xtask` apart from the rollout is build and qualification tooling.
