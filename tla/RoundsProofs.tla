---------------------------- MODULE RoundsProofs ----------------------------
(***************************************************************************)
(* Proofs about the research rounds and the proof gates of MCRounds, for   *)
(* any number of plans, rounds and racing refreshes and any set of proofs: *)
(* a branch round is forked and joined as ForkJoin says, with one refresh  *)
(* at a time it never wedges and loses no solved branch, a published       *)
(* branch result is never replaced, an approved run can be finalized, and  *)
(* the gates are the pipeline ProofPipeline describes.                     *)
(***************************************************************************)
EXTENDS MCRounds, TaskProofs, WellFoundedInduction, TLAPS

-----------------------------------------------------------------------------
(* The branch round: its invariant.                                        *)

(* The branches of b's round that come before it.                          *)
Lower(b) == {c \in Branches : c[1] = b[1] /\ c[2] < b[2]}

(* A branch is selected for a task when those before it are over.          *)
Selected(b) == row[b].status # "absent" /\ \A c \in Lower(b) : ~row[c].open

ThreadOK(r) ==
    /\ r \in Threads
    /\ r.pc = "list" => r.state = "branch_run"
    /\ r.pc = "activate" => r.branch # NoBranch /\ r.state = "branch_run"
    /\ r.pc = "issue" => (r.branch # NoBranch <=> r.state = "branch_run")
    /\ r.pc \notin {"activate", "issue"} => r.branch = NoBranch
    /\ r.branch # NoBranch => Selected(r.branch)

TokenOK(t) ==
    /\ t \in Tokens
    /\ t.branch # NoBranch <=> t.state = "branch_run"
    /\ t.branch # NoBranch => Selected(t.branch)

(* A submission that seals works on an open branch, whose result, if there *)
(* is one, is of the submission's own epoch.                               *)
Sealing(b) ==
    /\ b # NoBranch /\ row[b].open
    /\ result[b] = NoResult \/ result[b].epoch = sub.token.epoch
    /\ run.state = "branch_run" => sub.token.epoch = run.epoch
    /\ sub.pc = "seal" => result[b].outcome # "none"

SubmissionOK ==
    /\ sub \in Submissions /\ TokenOK(sub.token)
    /\ sub.pc = "routed" => sub.token.state = "direct_proving"
    /\ sub.pc \in {"joining", "joined"} => sub.token.state = "branch_join"
    /\ sub.pc \in {"sealing", "seal"} => Sealing(sub.token.branch)

StoreType ==
    /\ run \in RunRecords /\ row \in [Branches -> Rows] /\ result \in [Branches -> Results]
    /\ frozen \in [Rounds -> SUBSET Branches] /\ join \in Joins

(* The requests are those of the next round.                               *)
Requested ==
    /\ run.state \in {"direct_proving", "branch_prepare"} => run.round < MaxRounds
    /\ run.state = "branch_prepare" => run.requests = OfRound(run.round + 1)
    /\ run.state = "branch_run" => run.round > 0

(* Open branches are of the current round, which has all its branches.     *)
RowOK(b) ==
    /\ b[1] > run.round => row[b] = NoRow /\ result[b] = NoResult
    /\ row[b].open => /\ b[1] = run.round /\ run.state \in {"branch_run", "cancelled"}
                      /\ row[b].status \in {"pending", "running"}
    /\ run.state = "branch_run" /\ b[1] = run.round => row[b].status # "absent"

(* Branches run in order; a closed one has a result, and the result of an  *)
(* open one is of the current epoch.                                       *)
ResultOK(b) ==
    /\ row[b].status \in {"running", "sealed"} \/ result[b] # NoResult => Selected(b)
    /\ row[b].status # "absent" /\ ~row[b].open => result[b].outcome # "none"
    /\ result[b].outcome = "none" => result[b] = NoResult
    /\ result[b] # NoResult /\ row[b].open /\ run.state = "branch_run" => result[b].epoch = run.epoch

StoreOK == StoreType /\ Requested /\ \A b \in Branches : RowOK(b) /\ ResultOK(b)

RoundInv ==
    /\ StoreOK
    /\ rf \in [Refreshers -> Threads] /\ \A t \in Refreshers : ThreadOK(rf[t])
    /\ \A t \in tokens : TokenOK(t)
    /\ SubmissionOK

-----------------------------------------------------------------------------
LEMMA BranchFacts == ASSUME RoundAssumption PROVE
    /\ \A b \in Branches : b[1] \in Rounds /\ b[2] \in Plans /\ b = <<b[1], b[2]>>
    /\ \A n \in Rounds, p \in Plans : <<n, p>> \in Branches
    /\ NoBranch \notin Branches
    /\ Rounds \subseteq Nat \ {0} /\ Plans \subseteq Nat
  BY DEF RoundAssumption, Branches, Rounds, Plans, NoBranch

LEMMA InitRound == ASSUME RoundAssumption PROVE Init => RoundInv
  <1>. SUFFICES ASSUME Init PROVE RoundInv
    OBVIOUS
  <1>1. run \in RunRecords /\ row \in [Branches -> Rows] /\ result \in [Branches -> Results]
    BY DEF Init, RunRecords, Rows, Results, NoRow, NoResult, States, NothingScreened, ScreeningStatus,
           RoundAssumption
  <1>2. frozen \in [Rounds -> SUBSET Branches] /\ join \in Joins
    BY DEF Init, Joins, NoJoin
  <1>3. Requested /\ \A b \in Branches : RowOK(b) /\ ResultOK(b)
    BY DEF Init, Requested, RowOK, ResultOK, NoRow, NoResult
  <1>4. rf \in [Refreshers -> Threads] /\ \A t \in Refreshers : ThreadOK(rf[t])
    BY DEF Init, ThreadOK, Threads, Resting, NoBranch, States, RoundAssumption
  <1>5. NoToken \in Tokens
    BY DEF NoToken, Tokens, States
  <1>6. NoSubmission \in Submissions
    BY <1>5 DEF NoSubmission, Submissions, States, NothingScreened, ScreeningStatus
  <1>7. SubmissionOK
    BY <1>5, <1>6 DEF Init, SubmissionOK, TokenOK, NoSubmission, NoToken
  <1>. QED
    BY <1>1, <1>2, <1>3, <1>4, <1>7 DEF Init, RoundInv, StoreOK, StoreType

(* A selected branch stays selected: rows never go, and the rows that are  *)
(* opened are of a round that has none yet.                                *)
LEMMA SelectedStays ==
    ASSUME RoundAssumption, StoreOK, NEW b \in Branches, Selected(b),
           row'[b].status # "absent",
           \A c \in Branches : row'[c].open => row[c].open \/ c[1] > run.round
    PROVE  Selected(b)'
  <1>1. b[1] <= run.round
    BY BranchFacts DEF Selected, StoreOK, StoreType, RunRecords, RowOK, NoRow, RoundAssumption
  <1>2. \A c \in Lower(b) : ~(c[1] > run.round)
    BY <1>1, BranchFacts DEF Lower, StoreOK, StoreType, RunRecords, RoundAssumption
  <1>. QED
    BY <1>2 DEF Selected, Lower

(* A step that leaves the store alone.                                     *)
LEMMA StoreStays ==
    ASSUME StoreOK, UNCHANGED <<run, row, result>>,
           frozen' \in [Rounds -> SUBSET Branches], join' \in Joins
    PROVE  StoreOK' /\ \A b : Selected(b)' = Selected(b)
  BY DEF StoreOK, StoreType, Requested, RowOK, ResultOK, Selected, Lower

LEMMA ThreadsStay ==
    ASSUME RoundInv, StoreOK', UNCHANGED <<run, row, result, tokens, sub>>, \A b : Selected(b)' = Selected(b),
           NEW t \in Refreshers, NEW r, ThreadOK(r), rf' = [rf EXCEPT ![t] = r]
    PROVE  RoundInv'
  <1>1. \A x : ThreadOK(x)' = ThreadOK(x) /\ TokenOK(x)' = TokenOK(x)
    BY DEF ThreadOK, TokenOK
  <1>2. SubmissionOK'
    BY <1>1 DEF RoundInv, SubmissionOK, Sealing
  <1>3. rf' \in [Refreshers -> Threads] /\ \A u \in Refreshers : ThreadOK(rf'[u])
    BY DEF RoundInv, ThreadOK
  <1>. QED
    BY <1>1, <1>2, <1>3 DEF RoundInv

(* A step that opens no branch but those of a new round, and leaves every  *)
(* thread as it is, except one that does as it may.                        *)
LEMMA Steps ==
    ASSUME RoundInv, StoreOK', SubmissionOK',
           \A b \in Branches : Selected(b) => Selected(b)',
           \A t \in tokens' : t \in tokens \/ TokenOK(t)',
           rf' \in [Refreshers -> Threads], \A t \in Refreshers : rf'[t] = rf[t] \/ ThreadOK(rf[t])'
    PROVE  RoundInv'
  <1>1. ASSUME NEW t \in Refreshers, rf'[t] = rf[t] PROVE ThreadOK(rf[t])'
    <2>1. ThreadOK(rf[t]) /\ rf[t].branch \in Branches \cup {NoBranch}
      BY DEF RoundInv, Threads
    <2>. QED
      BY <1>1, <2>1 DEF ThreadOK
  <1>2. ASSUME NEW t \in tokens PROVE TokenOK(t)'
    <2>1. TokenOK(t) /\ t.branch \in Branches \cup {NoBranch}
      BY DEF RoundInv, TokenOK, Tokens
    <2>. QED
      BY <2>1 DEF TokenOK
  <1>. QED
    BY <1>1, <1>2 DEF RoundInv

LEMMA RestingOK == ASSUME RoundAssumption PROVE ThreadOK(Resting)
  BY DEF ThreadOK, Threads, Resting, NoBranch, States, RoundAssumption

(* Of some branches one comes first.                                       *)
LEMMA SomeEarliest == ASSUME RoundAssumption, NEW S \in SUBSET Branches, S # {} PROVE Earliest(S) # {}
  <1> DEFINE T == {b[2] : b \in S}
  <1>1. T \subseteq Nat /\ T # {}
    BY BranchFacts
  <1>2. PICK n \in T : \A m \in T : <<m, n>> \notin OpToRel(<, Nat)
    <2>. HIDE DEF T
    <2>. QED
      BY <1>1, NatLessThanWellFounded, WFMin
  <1>3. \A m \in T : n <= m
    <2>1. OpToRel(<, Nat) = {ss \in Nat \X Nat : ss[1] < ss[2]}
      BY DEF OpToRel
    <2>2. ASSUME NEW m \in T, m < n PROVE FALSE
      <3>1. <<m, n>> \in {ss \in Nat \X Nat : ss[1] < ss[2]}
        BY <1>1, <2>2
      <3>. QED
        BY <1>2, <2>1, <3>1
    <2>. HIDE DEF T
    <2>. QED
      BY <1>1, <2>2
  <1>4. PICK b \in S : b[2] = n
    OBVIOUS
  <1>. QED
    BY <1>3, <1>4 DEF Earliest

-----------------------------------------------------------------------------
(* The refreshes, one lemma per group of steps.                            *)

LEMMA ReadingKeeps ==
    ASSUME RoundAssumption, RoundInv, NEW t \in Refreshers, ReadRun(t) \/ CheckPending(t) \/ Dispatch(t)
    PROVE  RoundInv'
  <1>1. StoreOK' /\ \A b : Selected(b)' = Selected(b)
    BY StoreStays DEF ReadRun, CheckPending, Dispatch, RoundInv, StoreOK, StoreType
  <1>2. UNCHANGED <<run, row, result, tokens, sub>>
    BY DEF ReadRun, CheckPending, Dispatch
  <1>3. ThreadOK(rf[t]) /\ rf[t] \in Threads /\ run \in RunRecords /\ ThreadOK(Resting)
    BY RestingOK DEF RoundInv, StoreOK, StoreType
  <1>4. CASE ReadRun(t)
    <2> DEFINE r == [pc |-> "refresh", state |-> run.state, round |-> run.round,
                     requests |-> run.requests, branch |-> NoBranch]
    <2>1. ThreadOK(r)
      BY <1>3 DEF ThreadOK, Threads, RunRecords
    <2>. QED
      BY <1>1, <1>2, <1>4, <2>1, ThreadsStay DEF ReadRun
  <1>5. CASE CheckPending(t)
    <2>1. ThreadOK([rf[t] EXCEPT !.pc = "advance"])
      BY <1>3, <1>5 DEF CheckPending, ThreadOK, Threads, At
    <2>2. \/ rf' = [rf EXCEPT ![t] = [rf[t] EXCEPT !.pc = "advance"]]
          \/ rf' = [rf EXCEPT ![t] = Resting]
      BY <1>5 DEF CheckPending, Goto, Rest
    <2>. QED
      BY <1>1, <1>2, <1>3, <2>1, <2>2, ThreadsStay
  <1>6. CASE Dispatch(t)
    <2>1. ThreadOK([rf[t] EXCEPT !.pc = "freeze"])
      BY <1>3, <1>6 DEF Dispatch, ThreadOK, Threads, At
    <2>2. rf[t].state = "branch_run" => ThreadOK([rf[t] EXCEPT !.pc = "list"])
      BY <1>3, <1>6 DEF Dispatch, ThreadOK, Threads, At
    <2>3. rf[t].state # "branch_run" => ThreadOK([rf[t] EXCEPT !.pc = "issue"])
      BY <1>3, <1>6 DEF Dispatch, ThreadOK, Threads, At
    <2>4. \/ rf' = [rf EXCEPT ![t] = [rf[t] EXCEPT !.pc = "freeze"]]
          \/ rf[t].state = "branch_run" /\ rf' = [rf EXCEPT ![t] = [rf[t] EXCEPT !.pc = "list"]]
          \/ rf[t].state # "branch_run" /\ rf' = [rf EXCEPT ![t] = [rf[t] EXCEPT !.pc = "issue"]]
          \/ rf' = [rf EXCEPT ![t] = Resting]
      BY <1>6 DEF Dispatch, Goto, Rest
    <2>. QED
      BY <1>1, <1>2, <1>3, <2>1, <2>2, <2>3, <2>4, ThreadsStay
  <1>. QED
    BY <1>4, <1>5, <1>6

LEMMA FreezingKeeps ==
    ASSUME RoundAssumption, RoundInv, NEW t \in Refreshers, FreezeRound(t)
    PROVE  RoundInv'
  <1>1. ThreadOK(rf[t]) /\ rf[t] \in Threads /\ ThreadOK(Resting) /\ frozen \in [Rounds -> SUBSET Branches]
    BY RestingOK DEF RoundInv, StoreOK, StoreType
  <1>2. frozen' \in [Rounds -> SUBSET Branches]
    BY <1>1 DEF FreezeRound, Threads
  <1>3. StoreOK' /\ \A b : Selected(b)' = Selected(b)
    BY <1>2, StoreStays DEF FreezeRound, RoundInv, StoreOK, StoreType
  <1>4. ThreadOK([rf[t] EXCEPT !.pc = "prepare"])
    BY <1>1 DEF FreezeRound, ThreadOK, Threads, At
  <1>5. \/ rf' = [rf EXCEPT ![t] = [rf[t] EXCEPT !.pc = "prepare"]]
        \/ rf' = [rf EXCEPT ![t] = Resting]
    BY DEF FreezeRound, Goto, Rest
  <1>. QED
    BY <1>1, <1>3, <1>4, <1>5, ThreadsStay DEF FreezeRound

LEMMA ListingKeeps ==
    ASSUME RoundAssumption, RoundInv, NEW t \in Refreshers, ListBranches(t)
    PROVE  RoundInv'
  <1>1. StoreOK' /\ \A b : Selected(b)' = Selected(b)
    BY StoreStays DEF ListBranches, RoundInv, StoreOK, StoreType
  <1>2. /\ ThreadOK(rf[t]) /\ rf[t] \in Threads /\ ThreadOK(Resting)
        /\ rf[t].state = "branch_run" /\ row \in [Branches -> Rows]
    BY RestingOK DEF RoundInv, StoreOK, StoreType, ListBranches, At, ThreadOK
  <1>3. ASSUME NEW b \in Earliest(Selectable("running")) PROVE b \in Branches /\ Selected(b)
    BY DEF Earliest, Selectable, RoundInv, StoreOK, ResultOK
  <1>4. ASSUME NEW b \in Earliest(Selectable("pending")), Selectable("running") = {}
        PROVE  b \in Branches /\ Selected(b)
    <2>1. b \in Branches /\ row[b].status = "pending" /\ \A c \in Selectable("pending") : b[2] <= c[2]
      BY DEF Earliest, Selectable
    <2>2. ASSUME NEW c \in Lower(b), row[c].open PROVE FALSE
      <3>1. c \in Branches /\ c[2] < b[2] /\ c[2] \in Nat /\ b[2] \in Nat
        BY <2>1, BranchFacts DEF Lower
      <3>2. row[c].status \in {"pending", "running"}
        BY <2>2, <3>1 DEF RoundInv, StoreOK, RowOK
      <3>. QED
        BY <1>4, <2>1, <3>1, <3>2 DEF Selectable
    <2>. QED
      BY <2>1, <2>2 DEF Selected
  <1>5. ASSUME NEW b \in Branches, Selected(b), NEW pc \in {"issue", "activate"}
        PROVE  ThreadOK([rf[t] EXCEPT !.pc = pc, !.branch = b])
    BY <1>2, <1>5, BranchFacts DEF ThreadOK, Threads
  <1>6. CASE \E b \in Earliest(Selectable("running")) : rf' = [rf EXCEPT ![t].pc = "issue", ![t].branch = b]
    <2>1. PICK b \in Earliest(Selectable("running")) : rf' = [rf EXCEPT ![t] = [rf[t] EXCEPT !.pc = "issue", !.branch = b]]
      BY <1>6
    <2>2. ThreadOK([rf[t] EXCEPT !.pc = "issue", !.branch = b])
      BY <1>3, <1>5
    <2>. QED
      BY <1>1, <2>1, <2>2, ThreadsStay DEF ListBranches
  <1>7. CASE /\ Earliest(Selectable("running")) = {}
             /\ \E b \in Earliest(Selectable("pending")) : rf' = [rf EXCEPT ![t].pc = "activate", ![t].branch = b]
    <2>1. PICK b \in Earliest(Selectable("pending")) : rf' = [rf EXCEPT ![t] = [rf[t] EXCEPT !.pc = "activate", !.branch = b]]
      BY <1>7
    <2>2. ThreadOK([rf[t] EXCEPT !.pc = "activate", !.branch = b])
      BY <1>4, <1>5, <1>7, SomeEarliest DEF Selectable
    <2>. QED
      BY <1>1, <2>1, <2>2, ThreadsStay DEF ListBranches
  <1>8. CASE Rest(t)
    BY <1>1, <1>2, <1>8, ThreadsStay DEF ListBranches, Rest
  <1>. QED
    BY <1>6, <1>7, <1>8 DEF ListBranches

(* The token that is issued is for the state the run is in; a role belongs *)
(* to branches exactly if the state does.                                  *)
LEMMA IssuingKeeps ==
    ASSUME RoundAssumption, RoundInv, NEW t \in Refreshers, Issue(t)
    PROVE  RoundInv'
  <1>1. StoreOK' /\ \A b : Selected(b)' = Selected(b)
    BY StoreStays DEF Issue, RoundInv, StoreOK, StoreType
  <1>2. SubmissionOK'
    BY <1>1 DEF Issue, RoundInv, SubmissionOK, Sealing, TokenOK
  <1>3. rf' = [rf EXCEPT ![t] = Resting] /\ ThreadOK(Resting) /\ ThreadOK(rf[t]) /\ rf[t].pc = "issue"
    BY RestingOK DEF Issue, Rest, RoundInv, At
  <1>4. rf' \in [Refreshers -> Threads] /\ rf'[t] = Resting /\ \A u \in Refreshers \ {t} : rf'[u] = rf[u]
    BY <1>3 DEF RoundInv, ThreadOK
  <1>5. ThreadOK(rf[t])'
    <2>1. ThreadOK(Resting)'
      BY <1>3, <1>1 DEF ThreadOK
    <2>. QED
      BY <1>4, <2>1
  <1> DEFINE new == [epoch |-> run.epoch, state |-> run.state, branch |-> rf[t].branch]
  <1>6. CASE tokens' = tokens \cup {new} /\ Role[run.state] = Role[rf[t].state]
    <2>1. run.state = "branch_run" <=> rf[t].state = "branch_run"
      BY <1>3, <1>6 DEF Role, RoundInv, StoreOK, StoreType, RunRecords, ThreadOK, Threads, States
    <2>2. TokenOK(new)
      BY <1>3, <2>1 DEF TokenOK, Tokens, ThreadOK, Threads, RoundInv, StoreOK, StoreType, RunRecords
    <2>3. PICK k : k = new
      OBVIOUS
    <2>4. TokenOK(k) /\ tokens' = tokens \cup {k}
      BY <1>6, <2>2, <2>3
    <2>5. TokenOK(k)'
      BY <1>1, <2>4 DEF TokenOK
    <2>. QED
      BY <1>1, <1>2, <1>4, <1>5, <2>4, <2>5, Steps
  <1>7. CASE tokens' = tokens
    BY <1>1, <1>2, <1>4, <1>5, <1>7, Steps
  <1>. QED
    BY <1>6, <1>7 DEF Issue

(* update_branch_status may find the branch sealed by now: its row reads   *)
(* running again, its domain stays closed.                                 *)
LEMMA RunningKeeps ==
    ASSUME RoundAssumption, RoundInv, NEW t \in Refreshers, SetRunning(t)
    PROVE  RoundInv'
  <1>0. PICK b : b = rf[t].branch
    OBVIOUS
  <1>1. ThreadOK(rf[t]) /\ b \in Branches /\ Selected(b) /\ rf[t].state = "branch_run" /\ row \in [Branches -> Rows]
    BY <1>0, BranchFacts DEF SetRunning, At, RoundInv, ThreadOK, Threads, StoreOK, StoreType
  <1>2. row' = [row EXCEPT ![b].status = "running"] /\ UNCHANGED <<run, frozen, result, join, tokens, sub>>
    BY <1>0 DEF SetRunning
  <1>3. \A c \in Branches : /\ row'[c].open = row[c].open
                            /\ row'[c].status = IF c = b THEN "running" ELSE row[c].status
                            /\ row'[c] \in Rows
    BY <1>1, <1>2 DEF Rows
  <1>4. row' \in [Branches -> Rows] /\ row[b].status # "absent"
    BY <1>1, <1>2, <1>3 DEF Selected
  <1>5. \A c \in Branches : Selected(c) => Selected(c)'
    BY <1>3 DEF Selected, Lower
  <1>6. StoreOK'
    <2>1. StoreType' /\ Requested'
      BY <1>2, <1>4 DEF StoreType, RoundInv, StoreOK, Requested
    <2>2. ASSUME NEW c \in Branches PROVE RowOK(c)'
      <3>1. RowOK(c) /\ (c[1] > run.round => c # b)
        BY <1>4, BranchFacts DEF RoundInv, StoreOK, RowOK, NoRow
      <3>2. c # b => row'[c] = row[c]
        BY <1>1, <1>2
      <3>. QED
        BY <1>2, <1>3, <3>1, <3>2 DEF RowOK
    <2>3. ASSUME NEW c \in Branches PROVE ResultOK(c)'
      BY <1>1, <1>2, <1>3, <1>4, <1>5 DEF RoundInv, StoreOK, ResultOK
    <2>. QED
      BY <2>1, <2>2, <2>3 DEF StoreOK
  <1>7. SubmissionOK'
    <2>1. TokenOK(sub.token)' /\ (sub.token.branch # NoBranch => sub.token.branch \in Branches)
      BY <1>2, <1>5 DEF RoundInv, SubmissionOK, TokenOK, Tokens
    <2>. QED
      BY <1>2, <1>3, <2>1 DEF RoundInv, SubmissionOK, Sealing
  <1>8. rf' \in [Refreshers -> Threads] /\ ThreadOK(rf[t])' /\ \A u \in Refreshers \ {t} : rf'[u] = rf[u]
    <2>1. rf' = [rf EXCEPT ![t] = [rf[t] EXCEPT !.pc = "issue"]] /\ rf \in [Refreshers -> Threads]
      BY DEF SetRunning, Goto, RoundInv
    <2>2. rf'[t] = [rf[t] EXCEPT !.pc = "issue"] /\ rf[t] \in Threads
      BY <2>1
    <2>3. [rf[t] EXCEPT !.pc = "issue"] \in Threads
      BY <2>2 DEF Threads
    <2>4. Selected(b)' /\ b # NoBranch
      BY <1>1, <1>5, BranchFacts
    <2>5. ThreadOK(rf[t])'
      BY <1>0, <1>1, <2>2, <2>3, <2>4 DEF ThreadOK, Threads
    <2>. QED
      BY <2>1, <2>3, <2>5
  <1>. QED
    BY <1>2, <1>5, <1>6, <1>7, <1>8, Steps

(* complete_branch_preparation opens the rows of a new round.              *)
LEMMA PreparingKeeps ==
    ASSUME RoundAssumption, RoundInv, NEW t \in Refreshers, PrepareRound(t)
    PROVE  RoundInv'
  <1>1. ThreadOK(rf[t]) /\ rf[t] \in Threads /\ ThreadOK(Resting) /\ StoreType /\ Requested
    BY RestingOK DEF RoundInv, StoreOK
  <1>2. CASE Rest(t) /\ UNCHANGED <<row, run, tokens>>
    <2>1. StoreOK' /\ \A b : Selected(b)' = Selected(b)
      BY <1>1, <1>2, StoreStays DEF PrepareRound, RoundInv, StoreType
    <2>. QED
      BY <1>1, <1>2, <2>1, ThreadsStay DEF PrepareRound, Rest
  <1>3. CASE run.state = "branch_prepare" /\ ~(Rest(t) /\ UNCHANGED <<row, run, tokens>>)
    <2> DEFINE now == run.round + 1
    <2>1. /\ row' = [b \in Branches |-> IF b \in OfRound(now) THEN [status |-> "pending", open |-> TRUE] ELSE row[b]]
          /\ run' = [run EXCEPT !.state = "branch_run", !.epoch = @ + 1, !.round = @ + 1, !.requests = {}]
          /\ rf' = [rf EXCEPT ![t] = [rf[t] EXCEPT !.pc = "list", !.state = "branch_run", !.round = now, !.requests = {}]]
          /\ tokens' = {} /\ UNCHANGED <<frozen, result, join, sub>> /\ rf[t].pc = "prepare"
      BY <1>1, <1>3 DEF PrepareRound, Requested, At
    <2>2. run.round \in 0..MaxRounds /\ run.round < MaxRounds /\ MaxRounds \in Nat /\ now \in 0..MaxRounds /\ now > 0
      BY <1>1, <1>3 DEF StoreType, RunRecords, Requested, RoundAssumption
    <2>3. run' \in RunRecords /\ run'.state = "branch_run" /\ run'.round = now
      <3>1. run' = [run EXCEPT !.state = "branch_run", !.epoch = run.epoch + 1, !.round = now, !.requests = {}]
        BY <2>1
      <3>2. run \in RunRecords /\ "branch_run" \in States
        BY <1>1 DEF StoreType, States
      <3>3. run' = [state |-> "branch_run", epoch |-> run.epoch + 1, round |-> now, requests |-> {},
                    progress |-> run.progress]
        BY <3>1, <3>2 DEF RunRecords
      <3>4. run.epoch + 1 \in Nat /\ run.progress \in [Plans -> ScreeningStatus]
        BY <3>2 DEF RunRecords
      <3>. HIDE DEF now
      <3>. QED
        BY <2>2, <3>2, <3>3, <3>4 DEF RunRecords
    <2>4. \A b \in Branches : b \in OfRound(now) <=> b[1] = now
      BY DEF OfRound
    <2>. HIDE DEF now
    <2>5. \A b \in Branches : /\ b[1] = now => row'[b] = [status |-> "pending", open |-> TRUE]
                              /\ b[1] # now => row'[b] = row[b]
                              /\ row[b].open = FALSE /\ row[b] \in Rows
                              /\ b[1] \in Nat /\ b[1] >= now => row[b] = NoRow /\ result[b] = NoResult
      <3>1. \A b \in Branches : b[1] \in Nat
        BY BranchFacts
      <3>2. \A b \in Branches : row[b].open = FALSE
        BY <1>1, <1>3 DEF RoundInv, StoreOK, RowOK, StoreType, Rows
      <3>. QED
        BY <1>1, <2>1, <2>2, <2>4, <3>1, <3>2 DEF RoundInv, StoreOK, RowOK, StoreType, now
    <2>6. row' \in [Branches -> Rows]
      BY <2>1, <2>5 DEF Rows
    <2>7. \A b \in Branches : Selected(b) => Selected(b)'
      <3>1. ASSUME NEW b \in Branches, Selected(b) PROVE row'[b].status # "absent"
        BY <2>5, <3>1, BranchFacts DEF Selected, NoRow
      <3>2. \A c \in Branches : row'[c].open => c[1] > run.round
        BY <2>2, <2>5 DEF now
      <3>. QED
        BY <3>1, <3>2, SelectedStays DEF RoundInv
    <2>8. StoreOK'
      <3>1. StoreType'
        BY <1>1, <2>1, <2>3, <2>6 DEF StoreType
      <3>2. Requested'
        BY <2>2, <2>3 DEF Requested
      <3>3. ASSUME NEW b \in Branches PROVE RowOK(b)'
        BY <2>1, <2>2, <2>3, <2>5, BranchFacts DEF RowOK, NoRow
      <3>4. ASSUME NEW b \in Branches PROVE ResultOK(b)'
        <4>1. ResultOK(b) /\ b[1] \in Nat
          BY BranchFacts DEF RoundInv, StoreOK
        <4>2. CASE b[1] = now
          BY <2>1, <2>2, <2>5, <4>1, <4>2 DEF ResultOK, NoResult
        <4>3. CASE b[1] # now
          BY <2>1, <2>5, <2>7, <4>1, <4>3 DEF ResultOK
        <4>. QED
          BY <4>2, <4>3
      <3>. QED
        BY <3>1, <3>2, <3>3, <3>4 DEF StoreOK
    <2>9. SubmissionOK'
      <3>1. TokenOK(sub.token)'
        BY <2>1, <2>7 DEF RoundInv, SubmissionOK, TokenOK, Tokens
      <3>2. sub.pc \notin {"sealing", "seal"}
        BY <2>5 DEF RoundInv, SubmissionOK, Sealing, TokenOK, Tokens
      <3>. QED
        BY <2>1, <3>1, <3>2 DEF RoundInv, SubmissionOK
    <2>10. rf' \in [Refreshers -> Threads] /\ ThreadOK(rf[t])' /\ \A u \in Refreshers \ {t} : rf'[u] = rf[u]
      <3>1. [rf[t] EXCEPT !.pc = "list", !.state = "branch_run", !.round = now, !.requests = {}] \in Threads
        BY <1>1, <2>2 DEF Threads, States
      <3>2. rf[t].branch = NoBranch
        BY <1>1, <2>1 DEF ThreadOK
      <3>. QED
        BY <1>1, <2>1, <3>1, <3>2 DEF RoundInv, ThreadOK, Threads
    <2>. QED
      BY <2>1, <2>7, <2>8, <2>9, <2>10, Steps
  <1>. QED
    BY <1>2, <1>3 DEF PrepareRound

-----------------------------------------------------------------------------
(* The submissions.                                                        *)

LEMMA NoSubmissionOK == ASSUME RoundAssumption, sub' = NoSubmission PROVE SubmissionOK'
  BY DEF SubmissionOK, TokenOK, NoSubmission, NoToken, Submissions, Tokens, States,
         NothingScreened, ScreeningStatus

(* A step of the submission that leaves the store and the run as they are. *)
LEMMA SubmissionSteps ==
    ASSUME RoundAssumption, RoundInv, UNCHANGED <<run, row, result, frozen, rf>>, join' \in Joins,
           tokens' \subseteq tokens, SubmissionOK'
    PROVE  RoundInv'
  <1>1. StoreOK' /\ \A b : Selected(b)' = Selected(b)
    BY StoreStays DEF RoundInv, StoreOK, StoreType
  <1>. QED
    BY <1>1, Steps DEF RoundInv

(* A step that moves the run on when no branch is open, or gives it up.    *)
LEMMA MovingKeeps ==
    ASSUME RoundAssumption, RoundInv, UNCHANGED <<row, frozen, result, join, rf>>,
           tokens' \subseteq tokens,
           run' \in RunRecords, run'.round = run.round, Requested', SubmissionOK',
           run'.state # "branch_run",
           run'.state = "cancelled" \/ run.state \notin {"branch_run", "cancelled"}
    PROVE  RoundInv'
  <1>1. \A b : Selected(b)' = Selected(b)
    BY DEF Selected, Lower
  <1>2. \A b \in Branches : RowOK(b)' /\ ResultOK(b)'
    BY <1>1 DEF RoundInv, StoreOK, RowOK, ResultOK
  <1>3. StoreOK'
    BY <1>2 DEF RoundInv, StoreOK, StoreType
  <1>. QED
    BY <1>1, <1>3, Steps DEF RoundInv

LEMMA RunMoves ==
    ASSUME run \in RunRecords, NEW s \in States, NEW p \in [Plans -> ScreeningStatus], NEW q \in SUBSET Branches,
           NEW e \in {run.epoch, run.epoch + 1},
           run' = [run EXCEPT !.state = s, !.epoch = e, !.progress = p, !.requests = q]
    PROVE  run' \in RunRecords /\ run'.state = s /\ run'.round = run.round /\ run'.epoch = e /\ run'.requests = q
  <1>1. run' = [state |-> s, epoch |-> e, round |-> run.round, requests |-> q, progress |-> p]
    BY DEF RunRecords
  <1>2. run.epoch + 1 \in Nat /\ run.epoch \in Nat
    BY DEF RunRecords
  <1>. QED
    BY <1>1, <1>2 DEF RunRecords

(* transition_on without more: the state and the epoch.                    *)
LEMMA StateMoves ==
    ASSUME run \in RunRecords, NEW s \in States, run' = [run EXCEPT !.state = s, !.epoch = @ + 1]
    PROVE  run' \in RunRecords /\ run'.state = s /\ run'.round = run.round
  <1>1. run' = [state |-> s, epoch |-> run.epoch + 1, round |-> run.round, requests |-> run.requests,
                progress |-> run.progress]
    BY DEF RunRecords
  <1>2. run.epoch + 1 \in Nat /\ run.requests \in SUBSET Branches /\ run.progress \in [Plans -> ScreeningStatus]
    BY DEF RunRecords
  <1>. QED
    BY <1>1, <1>2 DEF RunRecords

LEMMA SubmittingKeeps ==
    ASSUME RoundAssumption, RoundInv, Settle \/ \E t \in tokens : Submit(t)
    PROVE  RoundInv'
  <1>1. CASE Settle
    BY <1>1, NoSubmissionOK, SubmissionSteps DEF Settle, RoundInv, StoreOK, StoreType
  <1>2. CASE \E t \in tokens : Submit(t)
    <2>1. PICK t \in tokens : Submit(t)
      BY <1>2
    <2>2. TokenOK(t)'
      BY <2>1 DEF Submit, RoundInv, TokenOK, Selected
    <2>3. sub' = [pc |-> "open", token |-> t, after |-> "branch_run", sealed |-> {}, outcome |-> "none",
                  progress |-> NothingScreened]
      BY <2>1 DEF Submit, NoSubmission
    <2>4. SubmissionOK'
      BY <2>2, <2>3 DEF SubmissionOK, Submissions, TokenOK, States, NothingScreened, ScreeningStatus
    <2>. QED
      BY <2>1, <2>4, SubmissionSteps DEF Submit, RoundInv, StoreOK, StoreType
  <1>. QED
    BY <1>1, <1>2

(* The screening of plans, up to the branches or the route it settles on.  *)
LEMMA ScreeningKeeps ==
    ASSUME RoundAssumption, RoundInv,
           PlansProposed \/ CommitRoute \/ \E screened \in [Plans -> ScreeningStatus] : DirectProving(screened)
    PROVE  RoundInv'
  <1>1. StoreType /\ Requested /\ SubmissionOK /\ run \in RunRecords /\ NothingScreened \in [Plans -> ScreeningStatus]
    BY DEF RoundInv, StoreOK, StoreType, NothingScreened, ScreeningStatus
  <1>2. run.requests \in SUBSET Branches /\ run.progress \in [Plans -> ScreeningStatus] /\ sub.progress \in [Plans -> ScreeningStatus]
    BY <1>1 DEF RunRecords, SubmissionOK, Submissions
  <1>3. CASE PlansProposed
    <2>1. run' = [run EXCEPT !.state = "direct_proving", !.epoch = run.epoch + 1, !.progress = NothingScreened,
                             !.requests = run.requests]
      BY <1>1, <1>3 DEF PlansProposed, RunRecords
    <2>2. run' \in RunRecords /\ run'.state = "direct_proving" /\ run'.round = run.round
      BY <1>1, <1>2, <2>1, RunMoves DEF States
    <2>3. Requested' /\ run.state = "propose_plans"
      BY <1>3, <2>2 DEF PlansProposed, Requested, Committing, Live
    <2>4. UNCHANGED <<row, frozen, result, join, rf>> /\ tokens' \subseteq tokens /\ SubmissionOK'
      BY <1>3, NoSubmissionOK DEF PlansProposed
    <2>. QED
      BY <2>2, <2>3, <2>4, MovingKeeps
  <1>4. CASE CommitRoute
    <2>1. run' = [run EXCEPT !.state = "assemble", !.epoch = run.epoch + 1, !.progress = sub.progress,
                             !.requests = run.requests]
      BY <1>1, <1>4 DEF CommitRoute, RunRecords
    <2>2. run' \in RunRecords /\ run'.state = "assemble" /\ run'.round = run.round
      BY <1>1, <1>2, <2>1, RunMoves DEF States
    <2>3. Requested' /\ run.state = "direct_proving"
      BY <1>1, <1>4, <2>2 DEF CommitRoute, Requested, SubmissionOK, Live
    <2>4. UNCHANGED <<row, frozen, result, join, rf>> /\ tokens' \subseteq tokens /\ SubmissionOK'
      BY <1>4, NoSubmissionOK DEF CommitRoute
    <2>. QED
      BY <2>2, <2>3, <2>4, MovingKeeps
  <1>5. ASSUME NEW screened \in [Plans -> ScreeningStatus], DirectProving(screened) PROVE RoundInv'
    <2>1. Merged(screened) \in [Plans -> ScreeningStatus]
      BY <1>2 DEF Merged
    <2>2. run.state = "direct_proving" /\ sub.pc = "open" /\ sub.token.state = "direct_proving"
      BY <1>5 DEF DirectProving, Committing, Live
    <2>3. CASE SaveScreening(Merged(screened))
      <3>1. run' = [run EXCEPT !.state = "direct_proving", !.epoch = run.epoch, !.progress = Merged(screened),
                               !.requests = run.requests]
        BY <1>1, <2>2, <2>3 DEF SaveScreening, RunRecords
      <3>2. run' \in RunRecords /\ run'.state = "direct_proving" /\ run'.round = run.round /\ run'.epoch = run.epoch
        BY <1>1, <1>2, <2>1, <3>1, RunMoves DEF States
      <3>3. Requested'
        BY <1>1, <2>2, <3>2 DEF Requested
      <3>4. UNCHANGED <<row, frozen, result, join, rf>> /\ tokens' \subseteq tokens /\ SubmissionOK'
        BY <1>5, <2>3, NoSubmissionOK DEF SaveScreening, DirectProving
      <3>. QED
        BY <2>2, <3>2, <3>3, <3>4, MovingKeeps
    <2>4. CASE RequestBranches(Merged(screened))
      <3>1. run' = [run EXCEPT !.state = "branch_prepare", !.epoch = run.epoch + 1, !.progress = Merged(screened),
                               !.requests = OfRound(run.round + 1)]
        BY <1>1, <2>4 DEF RequestBranches, RunRecords
      <3>2. /\ run' \in RunRecords /\ run'.state = "branch_prepare" /\ run'.round = run.round
            /\ run'.requests = OfRound(run.round + 1)
        <4>1. OfRound(run.round + 1) \in SUBSET Branches
          BY DEF OfRound
        <4>. QED
          BY <1>1, <2>1, <3>1, <4>1, RunMoves DEF States
      <3>3. Requested'
        BY <1>1, <2>2, <3>2 DEF Requested, OfRound
      <3>4. UNCHANGED <<row, frozen, result, join, rf>> /\ tokens' \subseteq tokens /\ SubmissionOK'
        BY <1>5, <2>4, NoSubmissionOK DEF RequestBranches, DirectProving
      <3>. QED
        BY <2>2, <3>2, <3>3, <3>4, MovingKeeps
    <2>5. CASE PublishRoute(Merged(screened))
      <3>1. sub' \in Submissions /\ sub'.pc = "routed" /\ sub'.token = sub.token
        BY <1>1, <2>1, <2>5 DEF PublishRoute, SubmissionOK, Submissions
      <3>2. SubmissionOK'
        BY <1>1, <1>5, <2>2, <2>5, <3>1 DEF PublishRoute, DirectProving, SubmissionOK, TokenOK, Selected
      <3>3. join' \in Joins
        BY <1>1, <2>5 DEF PublishRoute, Joins, RunRecords
      <3>. QED
        BY <1>5, <2>5, <3>2, <3>3, SubmissionSteps DEF PublishRoute, DirectProving
    <2>. QED
      BY <1>5, <2>3, <2>4, <2>5 DEF DirectProving
  <1>. QED
    BY <1>3, <1>4, <1>5

(* What a live token of a branch says of it.                               *)
LEMMA LiveBranch ==
    ASSUME RoundAssumption, RoundInv, Live(sub.token), sub.token.state = "branch_run"
    PROVE  /\ sub.token.branch \in Branches /\ row[sub.token.branch].open /\ Selected(sub.token.branch)
           /\ run.state = "branch_run" /\ sub.token.epoch = run.epoch
           /\ sub.token.branch # NoBranch
  BY DEF Live, RoundInv, SubmissionOK, TokenOK, Tokens

LEMMA PlanningKeeps == ASSUME RoundAssumption, RoundInv, PlanSeal PROVE RoundInv'
  <1>1. sub.token.state = "branch_run" /\ Live(sub.token)
    BY DEF PlanSeal, Committing
  <1>2. Sealing(sub.token.branch)'
    BY <1>1, LiveBranch DEF PlanSeal, Sealing, RoundInv, StoreOK, ResultOK, SubmissionOK, Submissions
  <1>3. sub' \in Submissions /\ sub'.token = sub.token /\ sub'.pc = "sealing"
    BY DEF PlanSeal, RoundInv, SubmissionOK, Submissions, States
  <1>4. SubmissionOK'
    BY <1>2, <1>3 DEF PlanSeal, RoundInv, SubmissionOK, TokenOK, Selected
  <1>. QED
    BY <1>4, SubmissionSteps DEF PlanSeal, RoundInv, StoreOK, StoreType

(* The result a sealing submission publishes is new, or of its own epoch   *)
(* and then the same.                                                      *)
LEMMA Published ==
    ASSUME RoundAssumption, RoundInv, NEW o \in {"solved", "failed"}, PublishResult(o)
    PROVE  LET b == sub.token.branch IN
           /\ b \in Branches /\ row[b].open /\ Selected(b) /\ row[b].status # "absent"
           /\ result'[b] = [epoch |-> sub.token.epoch, outcome |-> o]
           /\ result[b] = NoResult \/ result'[b] = result[b]
           /\ \A c \in Branches \ {b} : result'[c] = result[c]
           /\ result' \in [Branches -> Results]
  <1>1. Sealing(sub.token.branch) /\ sub.token.branch \in Branches /\ Selected(sub.token.branch) /\ sub.token.epoch \in Nat
    BY DEF PublishResult, RoundInv, SubmissionOK, TokenOK, Tokens, Sealing
  <1>2. result \in [Branches -> Results]
    BY DEF RoundInv, StoreOK, StoreType
  <1>. QED
    BY <1>1, <1>2 DEF PublishResult, Sealing, Results, Selected

LEMMA PublishingKeeps ==
    ASSUME RoundAssumption, RoundInv, NEW o \in {"solved", "failed"}, PublishResult(o)
    PROVE  RoundInv'
  <1>1. PICK b : b = sub.token.branch
    OBVIOUS
  <1>2. /\ b \in Branches /\ row[b].open /\ Selected(b) /\ row[b].status # "absent"
        /\ result'[b] = [epoch |-> sub.token.epoch, outcome |-> o]
        /\ \A c \in Branches \ {b} : result'[c] = result[c]
        /\ result' \in [Branches -> Results]
    BY <1>1, Published
  <1>3. UNCHANGED <<run, row, frozen, join, tokens, rf>> /\ sub' = [sub EXCEPT !.pc = "seal"] /\ sub.pc = "sealing"
    BY DEF PublishResult
  <1>4. \A c : Selected(c)' = Selected(c)
    BY <1>3 DEF Selected, Lower
  <1>5. StoreOK'
    <2>1. StoreType' /\ Requested'
      BY <1>2, <1>3 DEF RoundInv, StoreOK, StoreType, Requested
    <2>2. RowOK(b)' /\ ResultOK(b)'
      <3>1. Sealing(b) /\ RowOK(b) /\ ResultOK(b)
        BY <1>1, <1>2, <1>3 DEF RoundInv, StoreOK, SubmissionOK
      <3>2. ~(b[1] > run.round)
        BY <1>2, <3>1 DEF RowOK, NoRow
      <3>3. RowOK(b)'
        BY <1>3, <3>1, <3>2 DEF RowOK
      <3>4. ResultOK(b)'
        BY <1>2, <1>3, <1>4, <3>1 DEF ResultOK, Sealing
      <3>. QED
        BY <3>3, <3>4
    <2>3. ASSUME NEW c \in Branches \ {b} PROVE RowOK(c)' /\ ResultOK(c)'
      BY <1>2, <1>3, <1>4 DEF RoundInv, StoreOK, RowOK, ResultOK
    <2>. QED
      BY <2>1, <2>2, <2>3 DEF StoreOK
  <1>6. SubmissionOK'
    <2>1. sub' \in Submissions /\ sub'.token = sub.token /\ sub'.pc = "seal"
      BY <1>3 DEF RoundInv, SubmissionOK, Submissions
    <2>2. Sealing(b)'
      BY <1>1, <1>2, <1>3, <2>1 DEF Sealing, RoundInv, SubmissionOK
    <2>. QED
      BY <1>1, <1>4, <2>1, <2>2 DEF RoundInv, SubmissionOK, TokenOK
  <1>. QED
    BY <1>3, <1>4, <1>5, <1>6, Steps DEF RoundInv

(* Of a round only one branch at a time is both open and selected.         *)
LEMMA OneRuns ==
    ASSUME RoundAssumption, RoundInv, NEW b \in Branches, NEW c \in Branches,
           Selected(b), Selected(c), row[b].open, row[c].open
    PROVE  b = c
  <1>1. b[1] = c[1] /\ b = <<b[1], b[2]>> /\ c = <<c[1], c[2]>> /\ b[2] \in Nat /\ c[2] \in Nat
    BY BranchFacts DEF RoundInv, StoreOK, RowOK
  <1>2. ~(b[2] < c[2]) /\ ~(c[2] < b[2])
    BY <1>1 DEF Selected, Lower
  <1>. QED
    BY <1>1, <1>2

LEMMA SealingKeeps == ASSUME RoundAssumption, RoundInv, SealBranch PROVE RoundInv'
  <1>1. PICK b : b = sub.token.branch
    OBVIOUS
  <1>2. /\ b \in Branches /\ row[b].open /\ Selected(b) /\ Sealing(b) /\ result[b].outcome # "none"
        /\ run.state = "branch_run"
    <2>1. sub.token.branch # NoBranch /\ Sealing(sub.token.branch)
      BY DEF SealBranch, RoundInv, SubmissionOK, Sealing
    <2>2. sub.token.state = "branch_run"
      BY <2>1 DEF RoundInv, SubmissionOK, TokenOK
    <2>. QED
      BY <1>1, <2>1, <2>2, LiveBranch DEF SealBranch, Sealing
  <1>3. /\ row' = [row EXCEPT ![b] = [status |-> "sealed", open |-> FALSE]]
        /\ run' = [run EXCEPT !.state = sub.after, !.epoch = @ + 1] /\ tokens' = {} /\ sub' = NoSubmission
        /\ UNCHANGED <<frozen, result, join, rf>>
        /\ sub.after = IF Barrier(b) THEN "branch_join" ELSE "branch_run"
    BY <1>1 DEF SealBranch, MoveTo
  <1>4. run' \in RunRecords /\ run'.state = sub.after /\ run'.round = run.round
    BY <1>3, StateMoves DEF RoundInv, StoreOK, StoreType, States
  <1>5. row' \in [Branches -> Rows] /\ \A c \in Branches \ {b} : row'[c] = row[c]
    BY <1>3 DEF RoundInv, StoreOK, StoreType, Rows
  <1>6. row'[b] = [status |-> "sealed", open |-> FALSE]
    BY <1>2, <1>3 DEF RoundInv, StoreOK, StoreType
  <1>7. \A c \in Branches : Selected(c) => Selected(c)'
    BY <1>5, <1>6 DEF Selected, Lower
  <1>8. Barrier(b) => \A c \in Branches \ {b} : ~row[c].open
    BY DEF Barrier, Unsealed, RoundInv, StoreOK, RowOK
  <1>9. StoreOK'
    <2>1. StoreType' /\ Requested'
      BY <1>2, <1>3, <1>4, <1>5 DEF RoundInv, StoreOK, StoreType, Requested
    <2>2. ASSUME NEW c \in Branches PROVE RowOK(c)'
      <3>1. CASE c = b
        BY <1>2, <1>3, <1>4, <1>6, <3>1 DEF RoundInv, StoreOK, RowOK, NoRow
      <3>2. CASE c # b
        BY <1>2, <1>3, <1>4, <1>5, <1>8, <3>2 DEF RoundInv, StoreOK, RowOK
      <3>. QED
        BY <3>1, <3>2
    <2>3. ASSUME NEW c \in Branches PROVE ResultOK(c)'
      <3>1. CASE c = b
        BY <1>2, <1>3, <1>6, <1>7, <3>1 DEF RoundInv, StoreOK, ResultOK
      <3>2. CASE c # b
        <4>1. row[c].open => result[c] = NoResult
          BY <1>2, <3>2, OneRuns DEF RoundInv, StoreOK, ResultOK
        <4>. QED
          BY <1>3, <1>5, <1>7, <3>2, <4>1 DEF RoundInv, StoreOK, ResultOK
      <3>. QED
        BY <3>1, <3>2
    <2>. QED
      BY <2>1, <2>2, <2>3 DEF StoreOK
  <1>10. SubmissionOK' /\ tokens' \subseteq tokens
    BY <1>3, NoSubmissionOK
  <1>. QED
    BY <1>3, <1>7, <1>9, <1>10, Steps DEF RoundInv

(* The join and what follows it work on a run in which no branch is open.  *)
LEMMA JoiningKeeps ==
    ASSUME RoundAssumption, RoundInv,
           PublishJoin \/ \E o \in {"solved", "failed"} : EvaluateJoin(o)
    PROVE  RoundInv'
  <1>1. TokenOK(sub.token) /\ sub \in Submissions /\ run \in RunRecords /\ join \in Joins
    BY DEF RoundInv, SubmissionOK, StoreOK, StoreType
  <1>2. CASE PublishJoin
    <2>1. sub' \in Submissions /\ sub'.pc = "joined" /\ sub'.token = sub.token
      BY <1>1, <1>2 DEF PublishJoin, Submissions
    <2>2. SubmissionOK'
      BY <1>1, <1>2, <2>1 DEF PublishJoin, RoundInv, SubmissionOK, TokenOK, Selected
    <2>3. join' \in Joins
      BY <1>1, <1>2 DEF PublishJoin, Joins, RunRecords, Submissions
    <2>. QED
      BY <1>2, <2>2, <2>3, SubmissionSteps DEF PublishJoin
  <1>3. ASSUME NEW o \in {"solved", "failed"}, EvaluateJoin(o) PROVE RoundInv'
    <2>1. sub' = [sub EXCEPT !.pc = "joining", !.sealed = SealedIds, !.outcome = o]
          /\ SealedIds \in SUBSET Branches /\ sub.token.state = "branch_join"
      BY <1>3 DEF EvaluateJoin, SealedIds, Committing
    <2>2. sub' \in Submissions /\ sub'.pc = "joining" /\ sub'.token = sub.token
      BY <1>1, <2>1 DEF Submissions
    <2>3. SubmissionOK'
      BY <1>1, <1>3, <2>1, <2>2 DEF EvaluateJoin, SubmissionOK, TokenOK, Selected
    <2>. QED
      BY <1>1, <1>3, <2>3, SubmissionSteps DEF EvaluateJoin
  <1>. QED
    BY <1>2, <1>3

LEMMA LeavingKeeps ==
    ASSUME RoundAssumption, RoundInv, CommitJoin \/ FailuresIdentified \/ ReplanComplete
    PROVE  RoundInv'
  <1>1. /\ run.state \in {"branch_join", "identify_failures", "replan"}
        /\ UNCHANGED <<row, frozen, result, join, rf>> /\ tokens' = {} /\ sub' = NoSubmission
        /\ \E s \in {"assemble", "identify_failures", "replan", "propose_plans"} :
              run' = [run EXCEPT !.state = s, !.epoch = @ + 1]
    BY DEF CommitJoin, FailuresIdentified, ReplanComplete, MoveTo, Committing, Live, RoundInv, SubmissionOK
  <1>2. PICK s \in {"assemble", "identify_failures", "replan", "propose_plans"} :
              run' = [run EXCEPT !.state = s, !.epoch = @ + 1]
    BY <1>1
  <1>3. run \in RunRecords /\ s \in States
    BY DEF RoundInv, StoreOK, StoreType, States
  <1>4. run' \in RunRecords /\ run'.state = s /\ run'.round = run.round
    BY <1>2, <1>3, StateMoves
  <1>5. Requested' /\ SubmissionOK' /\ tokens' \subseteq tokens
    BY <1>1, <1>4, NoSubmissionOK DEF Requested
  <1>. QED
    BY <1>1, <1>4, <1>5, MovingKeeps

(* A submission that is under way when the run is cancelled may still      *)
(* publish its result; its branch is open for good.                        *)
LEMMA EnvironmentKeeps == ASSUME RoundAssumption, RoundInv, Cancel \/ Crash PROVE RoundInv'
  <1>1. CASE Cancel
    <2>1. run' = [run EXCEPT !.state = "cancelled", !.epoch = @ + 1] /\ run \in RunRecords
          /\ "cancelled" \in States
      BY <1>1 DEF Cancel, MoveTo, RoundInv, StoreOK, StoreType, States
    <2>2. run' \in RunRecords /\ run'.state = "cancelled" /\ run'.round = run.round
      BY <2>1, StateMoves
    <2>3. UNCHANGED <<row, frozen, result, join, rf, sub>> /\ tokens' \subseteq tokens
      BY <1>1 DEF Cancel, MoveTo
    <2>4. SubmissionOK'
      BY <2>2, <2>3 DEF RoundInv, SubmissionOK, TokenOK, Selected, Sealing
    <2>5. Requested'
      BY <2>2 DEF Requested
    <2>. QED
      BY <2>2, <2>3, <2>4, <2>5, MovingKeeps
  <1>2. CASE Crash
    <2>1. StoreOK' /\ \A b : Selected(b)' = Selected(b)
      BY <1>2, StoreStays DEF Crash, RoundInv, StoreOK, StoreType
    <2>2. SubmissionOK'
      BY <1>2, <2>1 DEF Crash, RoundInv, SubmissionOK, TokenOK, Sealing
    <2>3. rf' = [t \in Refreshers |-> Resting] /\ tokens' = tokens
      BY <1>2 DEF Crash
    <2>4. ThreadOK(Resting) /\ Resting \in Threads /\ ThreadOK(Resting)'
      BY RestingOK DEF ThreadOK, Resting
    <2>5. \A t \in Refreshers : ThreadOK(rf[t])'
      BY <2>3, <2>4
    <2>6. rf' \in [Refreshers -> Threads]
      BY <2>3, <2>4
    <2>. QED
      BY <2>1, <2>2, <2>3, <2>5, <2>6, Steps
  <1>. QED
    BY <1>1, <1>2

LEMMA NextRound == ASSUME RoundAssumption, RoundInv, [Next]_vars PROVE RoundInv'
  <1>1. ASSUME NEW t \in Refreshers, Refresh(t) PROVE RoundInv'
    BY <1>1, ReadingKeeps, FreezingKeeps, PreparingKeeps, ListingKeeps, RunningKeeps, IssuingKeeps DEF Refresh
  <1>2. CASE Settle \/ \E t \in tokens : Submit(t)
    BY <1>2, SubmittingKeeps
  <1>3. CASE PlansProposed \/ CommitRoute \/ \E screened \in [Plans -> ScreeningStatus] : DirectProving(screened)
    BY <1>3, ScreeningKeeps
  <1>4. CASE PlanSeal
    BY <1>4, PlanningKeeps
  <1>5. ASSUME NEW r \in {"solved", "failed"}, PublishResult(r) PROVE RoundInv'
    BY <1>5, PublishingKeeps
  <1>6. CASE SealBranch
    BY <1>6, SealingKeeps
  <1>7. CASE PublishJoin \/ \E o \in {"solved", "failed"} : EvaluateJoin(o)
    BY <1>7, JoiningKeeps
  <1>8. CASE CommitJoin \/ FailuresIdentified \/ ReplanComplete
    BY <1>8, LeavingKeeps
  <1>9. CASE Cancel \/ Crash
    BY <1>9, EnvironmentKeeps
  <1>10. CASE UNCHANGED vars
    BY <1>10 DEF vars, RoundInv, StoreOK, StoreType, Requested, RowOK, ResultOK, Selected, Lower, ThreadOK,
                 TokenOK, SubmissionOK, Sealing
  <1>. QED
    BY <1>1, <1>2, <1>3, <1>4, <1>5, <1>6, <1>7, <1>8, <1>9, <1>10 DEF Next

-----------------------------------------------------------------------------
(* The results.                                                            *)

LEMMA RoundHolds == ASSUME RoundAssumption PROVE Spec => []RoundInv
  <1>1. Init => RoundInv
    BY InitRound
  <1>2. RoundInv /\ [Next]_vars => RoundInv'
    BY NextRound
  <1>. QED
    BY <1>1, <1>2, PTL DEF Spec

LEMMA OthersKeepResults ==
    ASSUME [Next]_vars, ~\E o \in {"solved", "failed"} : PublishResult(o)
    PROVE  result' = result
  BY DEF Next, vars, Refresh, ReadRun, CheckPending, Dispatch, FreezeRound, PrepareRound, ListBranches,
         SetRunning, Issue, Submit, Settle, PlansProposed, DirectProving, CommitRoute, PlanSeal, SealBranch,
         EvaluateJoin, PublishJoin, CommitJoin, FailuresIdentified, ReplanComplete, Cancel, Crash

(* Every row, file and thread keeps its type (store.rs, vault.rs).         *)
THEOREM RoundTypes == ASSUME RoundAssumption PROVE Spec => []TypeOK
  <1>1. RoundInv => TypeOK
    BY DEF RoundInv, StoreOK, StoreType, SubmissionOK, TokenOK, TypeOK
  <1>. QED
    BY <1>1, RoundHolds, PTL

(* The read-only slot of a branch result: whatever seals are interrupted   *)
(* and repeated, the published file stays (ensure_action_read_only_json).  *)
THEOREM ResultsStay == ASSUME RoundAssumption PROVE Spec => ResultsReadOnly
  <1> DEFINE Stay == \A b \in Branches : result[b] # NoResult => result'[b] = result[b]
  <1>1. ASSUME RoundInv, [Next]_vars PROVE Stay
    <2>1. CASE \E o \in {"solved", "failed"} : PublishResult(o)
      BY <1>1, <2>1, Published
    <2>2. CASE ~\E o \in {"solved", "failed"} : PublishResult(o)
      BY <1>1, <2>2, OthersKeepResults
    <2>. QED
      BY <2>1, <2>2
  <1>2. RoundInv /\ [Next]_vars => [Stay]_vars
    BY <1>1
  <1>. QED
    BY <1>2, RoundHolds, PTL DEF Spec, ResultsReadOnly

-----------------------------------------------------------------------------
(* The refinement.                                                         *)

(* What the round has finished is in the rows and files of its branches.   *)
LEMMA FinishedOf ==
    ASSUME RoundAssumption, RoundInv
    PROVE  /\ \A p \in Plans : run.round > 0 => <<run.round, p>> \in Branches
           /\ \A p \in Plans : Finished[p] = IF run.round > 0 /\ row[<<run.round, p>>].status # "absent"
                                                              /\ ~row[<<run.round, p>>].open
                                             THEN result[<<run.round, p>>].outcome ELSE "none"
           /\ Finished = [p \in Plans |-> Finished[p]]
           /\ run.round \in Nat
  <1>1. run.round \in 0..MaxRounds /\ MaxRounds \in Nat
    BY DEF RoundInv, StoreOK, StoreType, RunRecords, RoundAssumption
  <1>2. \A p \in Plans : run.round > 0 => <<run.round, p>> \in Branches
    BY <1>1 DEF Branches, Rounds
  <1>. QED
    BY <1>1, <1>2 DEF Finished

LEMMA FinishedStays ==
    ASSUME RoundAssumption, RoundInv, run'.round = run.round,
           \A b \in Branches : /\ row'[b].status # "absent" <=> row[b].status # "absent"
                               /\ row'[b].open = row[b].open
                               /\ row[b].status # "absent" /\ ~row[b].open => result'[b] = result[b]
    PROVE  Finished' = Finished
  <1>1. \A p \in Plans : run.round > 0 => <<run.round, p>> \in Branches
    BY FinishedOf
  <1>. QED
    BY <1>1 DEF Finished

LEMMA InitForks == ASSUME RoundAssumption PROVE Init => Rounding!Init
  BY DEF Init, Rounding!Init, Phase, Finished, Rounding!Unfinished

(* Refreshes do not show, except the one whose preparation is committed.   *)
LEMMA RefreshesFork ==
    ASSUME RoundAssumption, RoundInv, NEW t \in Refreshers, Refresh(t)
    PROVE  Rounding!Fork \/ UNCHANGED Rounding!vars
  <1>1. CASE PrepareRound(t) /\ run.state = "branch_prepare" /\ ~UNCHANGED <<row, run, tokens>>
    <2> DEFINE now == run.round + 1
    <2>1. /\ row' = [b \in Branches |-> IF b \in OfRound(now) THEN [status |-> "pending", open |-> TRUE] ELSE row[b]]
          /\ run' = [run EXCEPT !.state = "branch_run", !.epoch = @ + 1, !.round = @ + 1, !.requests = {}]
      BY <1>1 DEF PrepareRound, Requested, RoundInv, StoreOK
    <2>2. run'.state = "branch_run" /\ run'.round = now
      <3>1. run \in RunRecords
        BY DEF RoundInv, StoreOK, StoreType
      <3>. QED
        BY <2>1, <3>1 DEF RunRecords
    <2>3. run.round \in Nat /\ now \in Rounds
      BY <1>1 DEF RoundInv, StoreOK, StoreType, RunRecords, Requested, RoundAssumption, Rounds
    <2>4. \A p \in Plans : row'[<<now, p>>] = [status |-> "pending", open |-> TRUE]
      BY <2>1, <2>3 DEF OfRound, Branches
    <2>. HIDE DEF now
    <2>5. Finished' = [p \in Plans |-> "none"]
      BY <2>2, <2>4 DEF Finished
    <2>6. Phase = "idle" /\ Phase' = "forked"
      BY <1>1, <2>2 DEF Phase
    <2>. QED
      BY <2>2, <2>5, <2>6 DEF Rounding!Fork, Rounding!Unfinished, now
  <1>2. CASE SetRunning(t)
    <2>1. rf[t].branch \in Branches /\ row[rf[t].branch].status # "absent" /\ row \in [Branches -> Rows]
      BY <1>2, BranchFacts DEF SetRunning, At, RoundInv, ThreadOK, Threads, StoreOK, StoreType, Selected
    <2>2. UNCHANGED <<run, result>>
      BY <1>2 DEF SetRunning
    <2>3. \A b \in Branches : /\ row'[b].open = row[b].open
                              /\ row'[b].status = IF b = rf[t].branch THEN "running" ELSE row[b].status
      BY <1>2, <2>1 DEF SetRunning, Rows
    <2>4. Finished' = Finished
      BY <2>1, <2>2, <2>3, FinishedStays
    <2>. QED
      BY <2>2, <2>4 DEF Rounding!vars, Phase
  <1>3. CASE UNCHANGED <<run, row, result>>
    BY <1>3 DEF Rounding!vars, Phase, Finished
  <1>4. PrepareRound(t) => \/ run.state = "branch_prepare" /\ ~UNCHANGED <<row, run, tokens>>
                           \/ UNCHANGED <<run, row, result>>
    BY DEF PrepareRound
  <1>. QED
    BY <1>1, <1>2, <1>3, <1>4 DEF Refresh, ReadRun, CheckPending, Dispatch, FreezeRound, ListBranches, Issue

(* A sealed branch finishes, with the result that its file holds; the join *)
(* opens when no other branch of the round is open.                        *)
LEMMA SealsFinish ==
    ASSUME RoundAssumption, RoundInv, SealBranch
    PROVE  \E p \in Plans, r \in Rounding!Results : Rounding!Finish(p, r)
  <1>1. PICK b : b = sub.token.branch
    OBVIOUS
  <1>2. /\ b \in Branches /\ row[b].open /\ result[b].outcome # "none" /\ run.state = "branch_run"
    <2>1. sub.token.branch # NoBranch /\ Sealing(sub.token.branch)
      BY DEF SealBranch, RoundInv, SubmissionOK, Sealing
    <2>2. sub.token.state = "branch_run"
      BY <2>1 DEF RoundInv, SubmissionOK, TokenOK
    <2>. QED
      BY <1>1, <2>1, <2>2, LiveBranch DEF SealBranch, Sealing
  <1>3. /\ row' = [row EXCEPT ![b] = [status |-> "sealed", open |-> FALSE]]
        /\ run' = [run EXCEPT !.state = sub.after, !.epoch = @ + 1] /\ result' = result
        /\ sub.after = IF Barrier(b) THEN "branch_join" ELSE "branch_run"
    BY <1>1 DEF SealBranch, MoveTo
  <1>4. run'.state = sub.after /\ run'.round = run.round
    BY <1>3, StateMoves DEF RoundInv, StoreOK, StoreType, States
  <1>5. /\ row'[b] = [status |-> "sealed", open |-> FALSE]
        /\ \A c \in Branches \ {b} : row'[c] = row[c]
    BY <1>2, <1>3 DEF RoundInv, StoreOK, StoreType
  <1>6. PICK p \in Plans : b = <<run.round, p>>
    BY <1>2, BranchFacts DEF RoundInv, StoreOK, RowOK
  <1>7. run.round > 0
    BY <1>2 DEF RoundInv, StoreOK, Requested
  <1>8. PICK r : r = result[b].outcome
    OBVIOUS
  <1>9. r \in {"solved", "failed"}
    BY <1>2, <1>8 DEF RoundInv, StoreOK, StoreType, Results
  <1>10. Finished[p] = "none"
    BY <1>2, <1>6, FinishedOf
  <1>11. Finished' = [Finished EXCEPT ![p] = r]
    <2>1. \A q \in Plans \ {p} : <<run.round, q>> \in Branches \ {b}
      BY <1>6, <1>7, FinishedOf
    <2>2. \A q \in Plans \ {p} : row'[<<run.round, q>>] = row[<<run.round, q>>]
      BY <1>5, <2>1
    <2>3. Finished' = [q \in Plans |-> IF q = p THEN r ELSE Finished[q]]
      BY <1>3, <1>4, <1>5, <1>6, <1>7, <1>8, <2>2 DEF Finished
    <2>. QED
      BY <2>3, FinishedOf
  <1>12. Barrier(b) => \A q \in Plans : Finished'[q] # "none"
    <2>1. ASSUME Barrier(b), NEW q \in Plans \ {p} PROVE Finished[q] # "none"
      <3>1. PICK c : c = <<run.round, q>>
        OBVIOUS
      <3>2. c \in Branches \ {b} /\ c[1] = run.round
        BY <1>6, <1>7, <3>1, FinishedOf
      <3>3. row[c].status # "absent" /\ ~row[c].open
        BY <1>2, <2>1, <3>2 DEF Barrier, Unsealed, RoundInv, StoreOK, RowOK
      <3>4. result[c].outcome # "none"
        BY <3>2, <3>3 DEF RoundInv, StoreOK, ResultOK
      <3>. QED
        BY <1>7, <3>1, <3>3, <3>4, FinishedOf
    <2>. QED
      BY <1>9, <1>11, <2>1, FinishedOf
  <1>13. Phase = "forked" /\ Phase' = IF Barrier(b) THEN "joined" ELSE "forked"
    BY <1>2, <1>3, <1>4 DEF Phase
  <1>14. Rounding!Finish(p, r)
    BY <1>4, <1>10, <1>11, <1>12, <1>13 DEF Rounding!Finish
  <1>. QED
    BY <1>9, <1>14 DEF Rounding!Results

LEMMA StepsFork ==
    ASSUME RoundAssumption, RoundInv, [Next]_vars
    PROVE  [Rounding!Next]_Rounding!vars
  <1>1. ASSUME NEW t \in Refreshers, Refresh(t) PROVE Rounding!Fork \/ UNCHANGED Rounding!vars
    BY <1>1, RefreshesFork
  <1>2. CASE SealBranch
    BY <1>2, SealsFinish DEF Rounding!Next
  <1>3. ASSUME NEW o \in {"solved", "failed"}, PublishResult(o) PROVE UNCHANGED Rounding!vars
    <2>1. UNCHANGED <<run, row>>
      BY <1>3 DEF PublishResult
    <2>2. \A c \in Branches : ~row[c].open => result'[c] = result[c]
      BY <1>3, Published
    <2>3. Finished' = Finished
      BY <2>1, <2>2, FinishedStays
    <2>. QED
      BY <2>1, <2>3 DEF Rounding!vars, Phase
  <1>4. ASSUME UNCHANGED <<row, result>>, NEW s \in States, run'.state = s, run'.round = run.round
        PROVE  Finished' = Finished
    BY <1>4 DEF Finished
  <1>5. CASE CommitJoin
    <2>1. PICK s \in {"assemble", "identify_failures"} : run' = [run EXCEPT !.state = s, !.epoch = @ + 1]
      BY <1>5 DEF CommitJoin, MoveTo
    <2>2. run'.state = s /\ run'.round = run.round /\ s \in States
      BY <2>1, StateMoves DEF RoundInv, StoreOK, StoreType, States
    <2>3. run.state = "branch_join"
      BY <1>5 DEF CommitJoin, Live, RoundInv, SubmissionOK
    <2>. QED
      BY <1>4, <1>5, <2>1, <2>2, <2>3 DEF CommitJoin, Rounding!Next, Rounding!Leave, Phase
  <1>6. CASE Cancel
    <2>1. run' = [run EXCEPT !.state = "cancelled", !.epoch = @ + 1] /\ UNCHANGED <<row, result>>
          /\ run.state # "cancelled"
      BY <1>6 DEF Cancel, MoveTo
    <2>2. run'.state = "cancelled" /\ run'.round = run.round /\ "cancelled" \in States
      BY <2>1, StateMoves DEF RoundInv, StoreOK, StoreType, States
    <2>. QED
      BY <1>4, <2>1, <2>2 DEF Rounding!Next, Rounding!Drop, Phase
  <1>7. CASE FailuresIdentified \/ ReplanComplete
    <2>1. PICK s \in {"replan", "propose_plans"} : run' = [run EXCEPT !.state = s, !.epoch = @ + 1]
      BY <1>7 DEF FailuresIdentified, ReplanComplete, MoveTo
    <2>2. run'.state = s /\ run'.round = run.round /\ s \in States
      BY <2>1, StateMoves DEF RoundInv, StoreOK, StoreType, States
    <2>3. run.state \in {"identify_failures", "replan"} /\ UNCHANGED <<row, result>>
      BY <1>7 DEF FailuresIdentified, ReplanComplete, Committing, Live
    <2>. QED
      BY <1>4, <2>1, <2>2, <2>3 DEF Rounding!vars, Phase
  <1>8. CASE PlansProposed \/ CommitRoute \/ \E screened \in [Plans -> ScreeningStatus] : DirectProving(screened)
    <2>1. run.state \in {"propose_plans", "direct_proving"} /\ UNCHANGED <<row, result>>
      BY <1>8 DEF PlansProposed, CommitRoute, DirectProving, Committing, Live, RoundInv, SubmissionOK
    <2>2. /\ run'.state \in {"direct_proving", "branch_prepare", "assemble"}
          /\ run'.round = run.round
      <3>1. run \in RunRecords
        BY DEF RoundInv, StoreOK, StoreType
      <3>2. run.state = "direct_proving" \/ PlansProposed
        BY <1>8 DEF CommitRoute, DirectProving, Committing, Live, RoundInv, SubmissionOK
      <3>. QED
        BY <1>8, <3>1, <3>2 DEF PlansProposed, CommitRoute, DirectProving, SaveScreening, RequestBranches, PublishRoute,
                                RunRecords
    <2>3. Finished' = Finished
      BY <1>4, <2>1, <2>2 DEF States
    <2>. QED
      BY <2>1, <2>2, <2>3 DEF Rounding!vars, Phase
  <1>9. CASE UNCHANGED <<run, row, result>>
    BY <1>9 DEF Rounding!vars, Phase, Finished
  <1>. QED
    BY <1>1, <1>2, <1>3, <1>5, <1>6, <1>7, <1>8, <1>9
    DEF Next, vars, Rounding!Next, Submit, Settle, PlanSeal, EvaluateJoin, PublishJoin, Crash

(* However many refreshes race each other and the submissions, a round is  *)
(* forked once, each branch finishes once with a result that stays, and    *)
(* the join opens when all of them have (complete_branch_preparation,      *)
(* transition_task with BranchSeal).                                       *)
THEOREM RoundsForkAndJoin == ASSUME RoundAssumption PROVE Spec => ImplementsForkJoin
  <1>1. Init => Rounding!Init
    BY InitForks
  <1>2. RoundInv /\ [Next]_vars => [Rounding!Next]_Rounding!vars
    BY StepsFork
  <1>. QED
    BY <1>1, <1>2, RoundHolds, PTL DEF Spec, ImplementsForkJoin, Rounding!Spec

-----------------------------------------------------------------------------
(* One refresh at a time: the rounds end and lose nothing.  With two, a    *)
(* branch is sealed and put back to running (run branch_unseal).           *)
OneAtATime == \A t, u \in Refreshers : t = u

Unfinished(b) == row[b].status \in {"pending", "running"}

(* A domain is open until its branch is sealed; a branch that is pending   *)
(* has no token, and a lone refresh that found it pending finds it so.     *)
StatusOK ==
    /\ \A b \in Branches : row[b].open <=> Unfinished(b)
    /\ \A t \in tokens : t.branch # NoBranch => row[t.branch].status # "pending"
    /\ \A t \in Refreshers :
        /\ rf[t].pc = "activate" => row[rf[t].branch].status = "pending"
        /\ rf[t].pc = "issue" /\ rf[t].branch # NoBranch => row[rf[t].branch].status # "pending"

(* While branches run one is unfinished, and from the join on none is.     *)
BarrierOK ==
    /\ run.state = "branch_run" => \E b \in Branches : Unfinished(b)
    /\ run.state \in {"branch_join", "identify_failures", "replan"} =>
        \A b \in OfRound(run.round) : row[b].status = "sealed"

(* What the join of the current epoch has looked at is all of the round.   *)
JoinOK ==
    sub.pc \in {"joining", "joined"} /\ sub.token.epoch = run.epoch /\ run.state = "branch_join" =>
        /\ OfRound(run.round) \subseteq sub.sealed /\ sub.outcome \in {"solved", "failed"}
        /\ sub.outcome = "failed" => \A b \in OfRound(run.round) : result[b].outcome # "solved"
        /\ sub.pc = "joined" => join.considered = sub.sealed

SoloInv == StatusOK /\ BarrierOK /\ JoinOK /\ SolvedRoundKept /\ JoinCoversRound

-----------------------------------------------------------------------------
(* What a lone refresh may hold, by its program counter.                   *)
HoldsOK(r) ==
    /\ r.pc = "activate" => row[r.branch].status = "pending"
    /\ r.pc = "issue" /\ r.branch # NoBranch => row[r.branch].status # "pending"

Becomes(t, r) == rf' = [rf EXCEPT ![t] = r]

LEMMA InitSolo == ASSUME RoundAssumption, Init PROVE SoloInv
  BY DEF Init, SoloInv, StatusOK, BarrierOK, JoinOK, SolvedRoundKept, JoinCoversRound, Unfinished, NoRow, Resting,
         NoSubmission, NoBranch

(* A step of the refresh that leaves the store alone.                      *)
LEMMA SoloReads ==
    ASSUME SoloInv, UNCHANGED <<run, row, result, join, sub>>,
           \A k \in tokens' : k \in tokens \/ (k.branch # NoBranch => row[k.branch].status # "pending"),
           \A t \in Refreshers : HoldsOK(rf'[t])
    PROVE  SoloInv'
  <1>1. StatusOK'
    BY DEF SoloInv, StatusOK, Unfinished, HoldsOK
  <1>2. BarrierOK' /\ JoinOK' /\ SolvedRoundKept' /\ JoinCoversRound'
    BY DEF SoloInv, BarrierOK, JoinOK, SolvedRoundKept, JoinCoversRound, Unfinished
  <1>. QED
    BY <1>1, <1>2 DEF SoloInv

LEMMA AloneBecomes ==
    ASSUME RoundInv, OneAtATime, NEW t \in Refreshers, NEW r, Becomes(t, r), HoldsOK(r)
    PROVE  \A u \in Refreshers : HoldsOK(rf'[u])
  <1>1. rf'[t] = r
    BY DEF RoundInv, Becomes
  <1>. QED
    BY <1>1 DEF OneAtATime

LEMMA SoloReading ==
    ASSUME RoundAssumption, RoundInv, SoloInv, OneAtATime, NEW t \in Refreshers,
           ReadRun(t) \/ CheckPending(t) \/ Dispatch(t) \/ FreezeRound(t)
    PROVE  SoloInv'
  <1>1. UNCHANGED <<run, row, result, join, tokens, sub>> /\ rf[t].branch = NoBranch
    BY DEF ReadRun, CheckPending, Dispatch, FreezeRound, At, RoundInv, ThreadOK
  <1>2. PICK r : Becomes(t, r) /\ (r.pc = "issue" => r.branch = NoBranch) /\ r.pc # "activate"
    <2>1. CASE ReadRun(t)
      <3>1. PICK r : r = [pc |-> "refresh", state |-> run.state, round |-> run.round,
                          requests |-> run.requests, branch |-> NoBranch]
        OBVIOUS
      <3>2. Becomes(t, r)
        BY <2>1, <3>1 DEF ReadRun, Becomes
      <3>3. r.pc = "refresh"
        BY <3>1
      <3>. QED
        BY <3>2, <3>3
    <2>2. CASE ~ReadRun(t)
      <3>1. PICK e : e = rf[t] /\ e \in Threads
        BY DEF RoundInv
      <3>2. ASSUME NEW pc \in {"advance", "freeze", "list", "issue", "prepare"}, Goto(t, pc)
            PROVE  \E r : Becomes(t, r) /\ r.pc = pc /\ r.branch = NoBranch
        <4>1. PICK r : r = [e EXCEPT !.pc = pc]
          OBVIOUS
        <4>2. r.pc = pc /\ r.branch = NoBranch
          BY <1>1, <3>1, <4>1 DEF Threads
        <4>3. Becomes(t, r)
          BY <3>1, <3>2, <4>1 DEF Goto, Becomes
        <4>. QED
          BY <4>2, <4>3
      <3>3. \/ \E pc \in {"advance", "freeze", "list", "issue", "prepare"} : Goto(t, pc)
            \/ Rest(t)
        BY <2>2 DEF CheckPending, Dispatch, FreezeRound
      <3>4. CASE Rest(t)
        <4>1. Becomes(t, Resting) /\ Resting.pc = "idle"
          BY <3>4 DEF Rest, Resting, Becomes
        <4>. QED
          BY <4>1
      <3>5. CASE \E pc \in {"advance", "freeze", "list", "issue", "prepare"} : Goto(t, pc)
        <4>1. PICK pc \in {"advance", "freeze", "list", "issue", "prepare"} : Goto(t, pc)
          BY <3>5
        <4>. QED
          BY <3>2, <4>1
      <3>. QED
        BY <3>3, <3>4, <3>5
    <2>. QED
      BY <2>1, <2>2
  <1>3. \A u \in Refreshers : HoldsOK(rf'[u])
    BY <1>2, AloneBecomes DEF HoldsOK
  <1>. QED
    BY <1>1, <1>3, SoloReads

LEMMA SoloListing ==
    ASSUME RoundAssumption, RoundInv, SoloInv, OneAtATime, NEW t \in Refreshers, ListBranches(t)
    PROVE  SoloInv'
  <1>1. PICK e : e = rf[t] /\ e \in Threads
    BY DEF RoundInv
  <1>2. ASSUME NEW b, NEW pc, rf' = [rf EXCEPT ![t].pc = pc, ![t].branch = b]
        PROVE  \E r : Becomes(t, r) /\ r.pc = pc /\ r.branch = b
    <2>1. PICK r : r = [e EXCEPT !.pc = pc, !.branch = b]
      OBVIOUS
    <2>2. r.pc = pc /\ r.branch = b
      BY <1>1, <2>1 DEF Threads
    <2>3. Becomes(t, r)
      BY <1>1, <1>2, <2>1 DEF Becomes
    <2>. QED
      BY <2>2, <2>3
  <1>3. \E r : Becomes(t, r) /\ HoldsOK(r)
    <2>1. ASSUME NEW b \in Earliest(Selectable("running")), rf' = [rf EXCEPT ![t].pc = "issue", ![t].branch = b]
          PROVE  \E r : Becomes(t, r) /\ HoldsOK(r)
      <3>1. PICK r : Becomes(t, r) /\ r.pc = "issue" /\ r.branch = b
        BY <1>2, <2>1
      <3>2. HoldsOK(r)
        BY <3>1 DEF Earliest, Selectable, HoldsOK
      <3>. QED
        BY <3>1, <3>2
    <2>2. ASSUME NEW b \in Earliest(Selectable("pending")), rf' = [rf EXCEPT ![t].pc = "activate", ![t].branch = b]
          PROVE  \E r : Becomes(t, r) /\ HoldsOK(r)
      <3>1. PICK r : Becomes(t, r) /\ r.pc = "activate" /\ r.branch = b
        BY <1>2, <2>2
      <3>2. HoldsOK(r)
        BY <3>1 DEF Earliest, Selectable, HoldsOK
      <3>. QED
        BY <3>1, <3>2
    <2>3. ASSUME Rest(t) PROVE \E r : Becomes(t, r) /\ HoldsOK(r)
      <3>1. Becomes(t, Resting) /\ HoldsOK(Resting)
        BY <2>3 DEF Rest, Resting, HoldsOK, Becomes
      <3>. QED
        BY <3>1
    <2>. QED
      BY <2>1, <2>2, <2>3 DEF ListBranches
  <1>4. \A u \in Refreshers : HoldsOK(rf'[u])
    BY <1>3, AloneBecomes
  <1>. QED
    BY <1>4, SoloReads DEF ListBranches

LEMMA SoloIssuing ==
    ASSUME RoundAssumption, RoundInv, SoloInv, OneAtATime, NEW t \in Refreshers, Issue(t)
    PROVE  SoloInv'
  <1>1. Becomes(t, Resting) /\ HoldsOK(Resting)
    BY DEF Issue, Rest, HoldsOK, Resting, Becomes
  <1>2. \A k \in tokens' : k \in tokens \/ k.branch = rf[t].branch
    BY DEF Issue
  <1>3. rf[t].branch # NoBranch => row[rf[t].branch].status # "pending"
    BY DEF Issue, At, SoloInv, StatusOK
  <1>4. \A u \in Refreshers : HoldsOK(rf'[u])
    BY <1>1, AloneBecomes
  <1>. QED
    BY <1>2, <1>3, <1>4, SoloReads DEF Issue

(* What was found pending still is: only the lone refresh starts branches. *)
LEMMA SoloRunning ==
    ASSUME RoundAssumption, RoundInv, SoloInv, OneAtATime, NEW t \in Refreshers, SetRunning(t)
    PROVE  SoloInv'
  <1>1. PICK b : b = rf[t].branch
    OBVIOUS
  <1>2. /\ b \in Branches /\ row[b].status = "pending" /\ row[b].open /\ row \in [Branches -> Rows]
        /\ b[1] = run.round /\ run.state \in {"branch_run", "cancelled"}
    <2>1. ThreadOK(rf[t]) /\ rf[t].pc = "activate" /\ row[b].status = "pending"
      BY <1>1 DEF SetRunning, At, RoundInv, SoloInv, StatusOK
    <2>2. b \in Branches
      BY <1>1, <2>1 DEF ThreadOK, Threads
    <2>. QED
      BY <2>1, <2>2 DEF SoloInv, StatusOK, Unfinished, RoundInv, StoreOK, StoreType, RowOK
  <1>3. row' = [row EXCEPT ![b].status = "running"] /\ UNCHANGED <<run, frozen, result, join, tokens, sub>>
    BY <1>1 DEF SetRunning
  <1>4. \A c \in Branches : /\ row'[c].open = row[c].open
                            /\ row'[c].status = IF c = b THEN "running" ELSE row[c].status
    BY <1>2, <1>3 DEF Rows
  <1>5. \A c \in Branches : Unfinished(c)' <=> Unfinished(c)
    BY <1>2, <1>4 DEF Unfinished
  <1>6. PICK e : e = rf[t] /\ e \in Threads /\ e.branch = b
    BY <1>1 DEF RoundInv
  <1>7. PICK r : r = [e EXCEPT !.pc = "issue"]
    OBVIOUS
  <1>8. rf' = [rf EXCEPT ![t] = r] /\ r.pc = "issue" /\ r.branch = b
    BY <1>6, <1>7 DEF SetRunning, Goto, Threads
  <1>9. \A u \in Refreshers : rf'[u] = r
    <2>1. rf'[t] = r
      BY <1>8 DEF RoundInv
    <2>. QED
      BY <2>1 DEF OneAtATime
  <1>10. StatusOK'
    <2>1. ASSUME NEW k \in tokens, k.branch # NoBranch PROVE row'[k.branch].status # "pending"
      <3>1. k.branch \in Branches /\ row[k.branch].status # "pending"
        BY <2>1 DEF RoundInv, TokenOK, Tokens, SoloInv, StatusOK
      <3>. QED
        BY <1>4, <3>1
    <2>. QED
      BY <1>2, <1>3, <1>4, <1>5, <1>8, <1>9, <2>1 DEF SoloInv, StatusOK
  <1>11. BarrierOK'
    BY <1>2, <1>3, <1>5 DEF SoloInv, BarrierOK
  <1>12. JoinOK' /\ SolvedRoundKept' /\ JoinCoversRound'
    BY <1>3 DEF SoloInv, JoinOK, SolvedRoundKept, JoinCoversRound
  <1>. QED
    BY <1>10, <1>11, <1>12 DEF SoloInv

LEMMA SoloPreparing ==
    ASSUME RoundAssumption, RoundInv, SoloInv, OneAtATime, NEW t \in Refreshers, PrepareRound(t)
    PROVE  SoloInv'
  <1>1. PICK e : e = rf[t] /\ e \in Threads /\ e.pc = "prepare" /\ ThreadOK(e)
    BY DEF RoundInv, PrepareRound, At
  <1>2. CASE Rest(t) /\ UNCHANGED <<row, run, tokens>>
    <2>1. HoldsOK(Resting)
      BY DEF HoldsOK, Resting
    <2>2. \A u \in Refreshers : HoldsOK(rf'[u])
      BY <1>2, <2>1, AloneBecomes DEF Rest, Becomes
    <2>. QED
      BY <1>2, <2>2, SoloReads DEF PrepareRound
  <1>3. CASE run.state = "branch_prepare" /\ ~(Rest(t) /\ UNCHANGED <<row, run, tokens>>)
    <2>1. PICK now : now = run.round + 1
      OBVIOUS
    <2>2. /\ row' = [b \in Branches |-> IF b \in OfRound(now) THEN [status |-> "pending", open |-> TRUE] ELSE row[b]]
          /\ run' = [run EXCEPT !.state = "branch_run", !.epoch = @ + 1, !.round = @ + 1, !.requests = {}]
          /\ rf' = [rf EXCEPT ![t] = [rf[t] EXCEPT !.pc = "list", !.state = "branch_run", !.round = now, !.requests = {}]]
          /\ tokens' = {} /\ UNCHANGED <<frozen, result, join, sub>>
      BY <1>3, <2>1 DEF PrepareRound, RoundInv, StoreOK, Requested
    <2>3. now \in Rounds /\ run'.state = "branch_run"
      BY <1>3, <2>1, <2>2 DEF RoundInv, StoreOK, StoreType, Requested, RunRecords, Rounds, RoundAssumption
    <2>4. PICK r : r = [e EXCEPT !.pc = "list", !.state = "branch_run", !.round = now, !.requests = {}]
      OBVIOUS
    <2>5. \A u \in Refreshers : rf'[u] = r
      <3>1. rf'[t] = r
        BY <1>1, <2>2, <2>4 DEF RoundInv
      <3>. QED
        BY <3>1 DEF OneAtATime
    <2>6. r.pc = "list"
      BY <1>1, <2>4 DEF Threads
    <2>7. StatusOK'
      BY <2>2, <2>5, <2>6 DEF SoloInv, StatusOK, Unfinished
    <2>8. BarrierOK'
      <3>1. <<now, 1>> \in Branches /\ <<now, 1>> \in OfRound(now)
        BY <2>3, BranchFacts DEF OfRound, Plans, RoundAssumption
      <3>2. Unfinished(<<now, 1>>)'
        BY <2>2, <3>1 DEF Unfinished
      <3>. QED
        BY <2>3, <3>1, <3>2 DEF BarrierOK
    <2>9. JoinOK' /\ SolvedRoundKept' /\ JoinCoversRound'
      BY <2>3 DEF JoinOK, SolvedRoundKept, JoinCoversRound
    <2>. QED
      BY <2>7, <2>8, <2>9 DEF SoloInv
  <1>. QED
    BY <1>2, <1>3 DEF PrepareRound

-----------------------------------------------------------------------------
(* Submissions.                                                            *)

LEMMA SoloKeepsStatus == ASSUME SoloInv, UNCHANGED <<row, rf>>, tokens' \subseteq tokens PROVE StatusOK'
  BY DEF SoloInv, StatusOK, Unfinished

(* A step of a run that is neither branching nor leaving a branch round.   *)
LEMMA SoloElsewhere ==
    ASSUME SoloInv, UNCHANGED <<row, rf>>, tokens' \subseteq tokens,
           run'.state \notin {"branch_run", "branch_join", "identify_failures", "replan"}
    PROVE  SoloInv'
  BY SoloKeepsStatus DEF SoloInv, BarrierOK, JoinOK, SolvedRoundKept, JoinCoversRound

(* A step of the submission that ends before the join's.                   *)
LEMMA SoloSubmits ==
    ASSUME SoloInv, UNCHANGED <<run, row, result, join, rf>>, tokens' \subseteq tokens,
           sub'.pc \notin {"joining", "joined"}
    PROVE  SoloInv'
  BY SoloKeepsStatus DEF SoloInv, BarrierOK, JoinOK, SolvedRoundKept, JoinCoversRound, Unfinished

LEMMA SoloSubmitting ==
    ASSUME RoundInv, SoloInv, Settle \/ PlanSeal \/ \E t \in tokens : Submit(t)
    PROVE  SoloInv'
  <1>1. sub'.pc \in {"none", "open", "sealing"}
    <2>1. sub \in Submissions
      BY DEF RoundInv, SubmissionOK
    <2>2. CASE Settle
      BY <2>2 DEF Settle, NoSubmission
    <2>3. CASE PlanSeal
      BY <2>1, <2>3 DEF PlanSeal, Submissions
    <2>4. ASSUME NEW t \in tokens, Submit(t) PROVE sub'.pc = "open"
      BY <2>4 DEF Submit, NoSubmission
    <2>. QED
      BY <2>2, <2>3, <2>4
  <1>. QED
    BY <1>1, SoloSubmits DEF Settle, PlanSeal, Submit

LEMMA SoloScreening ==
    ASSUME RoundAssumption, RoundInv, SoloInv,
           PlansProposed \/ CommitRoute \/ \E screened \in [Plans -> ScreeningStatus] : DirectProving(screened)
    PROVE  SoloInv'
  <1>1. run \in RunRecords /\ UNCHANGED <<row, rf>> /\ tokens' \subseteq tokens
    BY DEF RoundInv, StoreOK, StoreType, PlansProposed, CommitRoute, DirectProving, SaveScreening, RequestBranches,
           PublishRoute
  <1>2. run'.state \notin {"branch_run", "branch_join", "identify_failures", "replan"}
    <2>1. CASE PlansProposed
      BY <1>1, <2>1 DEF PlansProposed, RunRecords
    <2>2. CASE CommitRoute
      BY <1>1, <2>2 DEF CommitRoute, RunRecords
    <2>3. CASE \E screened \in [Plans -> ScreeningStatus] : DirectProving(screened)
      <3>1. PICK screened \in [Plans -> ScreeningStatus] : DirectProving(screened)
        BY <2>3
      <3>2. run.state = "direct_proving"
        BY <3>1 DEF DirectProving, Committing, Live
      <3>3. CASE SaveScreening(Merged(screened))
        BY <1>1, <3>2, <3>3 DEF SaveScreening, RunRecords
      <3>4. CASE RequestBranches(Merged(screened))
        BY <1>1, <3>4 DEF RequestBranches, RunRecords
      <3>5. CASE PublishRoute(Merged(screened))
        BY <3>2, <3>5 DEF PublishRoute
      <3>. QED
        BY <3>1, <3>3, <3>4, <3>5 DEF DirectProving
    <2>. QED
      BY <2>1, <2>2, <2>3
  <1>. QED
    BY <1>1, <1>2, SoloElsewhere

(* A branch that publishes is open, and the round is not joined.           *)
LEMMA SoloPublishing ==
    ASSUME RoundAssumption, RoundInv, SoloInv, NEW o \in {"solved", "failed"}, PublishResult(o)
    PROVE  SoloInv'
  <1>1. run.state \in {"branch_run", "cancelled"}
    BY Published DEF RoundInv, StoreOK, RowOK
  <1>2. UNCHANGED <<run, row, join, tokens, rf>>
    BY DEF PublishResult
  <1>3. StatusOK'
    BY <1>2, SoloKeepsStatus
  <1>. QED
    BY <1>1, <1>2, <1>3 DEF SoloInv, BarrierOK, JoinOK, SolvedRoundKept, JoinCoversRound, Unfinished

(* The branch that is sealed is not the one the refresh found pending: no  *)
(* token is out for that.                                                  *)
LEMMA SoloSealing == ASSUME RoundAssumption, RoundInv, SoloInv, SealBranch PROVE SoloInv'
  <1>1. PICK b : b = sub.token.branch
    OBVIOUS
  <1>2. /\ b \in Branches /\ row[b].open /\ Selected(b) /\ run.state = "branch_run" /\ row[b].status # "pending"
    <2>1. sub.token.branch # NoBranch /\ sub.token \in tokens
      BY DEF SealBranch, RoundInv, SubmissionOK, Sealing, Live
    <2>2. sub.token.state = "branch_run"
      BY <2>1 DEF RoundInv, SubmissionOK, TokenOK
    <2>. QED
      BY <1>1, <2>1, <2>2, LiveBranch DEF SealBranch, SoloInv, StatusOK
  <1>3. /\ row' = [row EXCEPT ![b] = [status |-> "sealed", open |-> FALSE]]
        /\ run' = [run EXCEPT !.state = sub.after, !.epoch = @ + 1] /\ tokens' = {} /\ sub' = NoSubmission
        /\ UNCHANGED <<frozen, result, join, rf>>
        /\ sub.after = IF Barrier(b) THEN "branch_join" ELSE "branch_run"
    BY <1>1 DEF SealBranch, MoveTo
  <1>4. run'.state = sub.after /\ run'.round = run.round
    BY <1>3, StateMoves DEF RoundInv, StoreOK, StoreType, States
  <1>5. row \in [Branches -> Rows] /\ \A c \in Branches : c # b => row'[c] = row[c]
    BY <1>3 DEF RoundInv, StoreOK, StoreType
  <1>6. row'[b].status = "sealed" /\ ~row'[b].open
    BY <1>2, <1>3, <1>5
  <1>7. StatusOK'
    <2>1. ASSUME NEW t \in Refreshers, rf[t].pc = "activate" PROVE row'[rf[t].branch].status = "pending"
      <3>1. rf[t].branch \in Branches /\ row[rf[t].branch].status = "pending"
        BY <2>1 DEF RoundInv, ThreadOK, Threads, SoloInv, StatusOK
      <3>. QED
        BY <1>2, <1>5, <3>1
    <2>2. ASSUME NEW t \in Refreshers, rf[t].pc = "issue", rf[t].branch # NoBranch
          PROVE  row'[rf[t].branch].status # "pending"
      <3>1. rf[t].branch \in Branches /\ row[rf[t].branch].status # "pending"
        BY <2>2 DEF RoundInv, ThreadOK, Threads, SoloInv, StatusOK
      <3>. QED
        BY <1>5, <1>6, <3>1
    <2>3. \A c \in Branches : row'[c].open <=> Unfinished(c)'
      BY <1>5, <1>6 DEF SoloInv, StatusOK, Unfinished
    <2>. QED
      BY <1>3, <2>1, <2>2, <2>3 DEF StatusOK
  <1>8. BarrierOK'
    <2>1. CASE Barrier(b)
      <3>1. ASSUME NEW c \in OfRound(run.round), c # b PROVE row'[c].status = "sealed"
        BY <1>2, <1>5, <2>1, <3>1 DEF Barrier, Unsealed, OfRound, RoundInv, StoreOK, RowOK
      <3>. QED
        BY <1>3, <1>4, <1>6, <2>1, <3>1 DEF BarrierOK, OfRound
    <2>2. CASE ~Barrier(b)
      <3>1. PICK c \in Branches : c # b /\ row[c].status \notin {"absent", "sealed"}
        BY <2>2 DEF Barrier, Unsealed
      <3>2. Unfinished(c)'
        BY <1>5, <3>1 DEF Unfinished, Rows
      <3>. QED
        BY <1>3, <1>4, <2>2, <3>2 DEF BarrierOK
    <2>. QED
      BY <2>1, <2>2
  <1>9. JoinOK' /\ SolvedRoundKept' /\ JoinCoversRound'
    BY <1>3, <1>4 DEF JoinOK, SolvedRoundKept, JoinCoversRound, NoSubmission
  <1>. QED
    BY <1>7, <1>8, <1>9 DEF SoloInv

(* The join looks at every branch of the round, for all of them are sealed.*)
LEMMA SoloJoining ==
    ASSUME RoundAssumption, RoundInv, SoloInv,
           PublishJoin \/ \E o \in {"solved", "failed"} : EvaluateJoin(o)
    PROVE  SoloInv'
  <1>1. sub \in Submissions /\ run.state = "branch_join" /\ sub.token.epoch = run.epoch
    BY DEF RoundInv, SubmissionOK, PublishJoin, EvaluateJoin, Committing, Live
  <1>2. UNCHANGED <<run, row, result, tokens, rf>>
    BY DEF PublishJoin, EvaluateJoin
  <1>3. StatusOK' /\ BarrierOK' /\ SolvedRoundKept' /\ JoinCoversRound'
    BY <1>1, <1>2, SoloKeepsStatus DEF SoloInv, BarrierOK, SolvedRoundKept, JoinCoversRound, Unfinished
  <1>4. CASE PublishJoin
    <2>1. sub'.pc = "joined" /\ sub'.token = sub.token /\ sub'.sealed = sub.sealed /\ sub'.outcome = sub.outcome
      BY <1>1, <1>4 DEF PublishJoin, Submissions
    <2>2. join'.considered = sub.sealed /\ sub.pc = "joining"
      BY <1>4 DEF PublishJoin
    <2>3. JoinOK'
      BY <1>1, <1>2, <2>1, <2>2 DEF SoloInv, JoinOK
    <2>. QED
      BY <1>3, <2>3 DEF SoloInv
  <1>5. ASSUME NEW o \in {"solved", "failed"}, EvaluateJoin(o) PROVE SoloInv'
    <2>1. sub'.pc = "joining" /\ sub'.sealed = SealedIds /\ sub'.outcome = o
      BY <1>1, <1>5 DEF EvaluateJoin, Submissions
    <2>2. OfRound(run.round) \subseteq SealedIds
      BY <1>1 DEF SoloInv, BarrierOK, OfRound, SealedIds
    <2>3. o = "failed" => \A b \in OfRound(run.round) : result[b].outcome # "solved"
      BY <1>5, <2>2 DEF EvaluateJoin
    <2>4. JoinOK'
      BY <1>2, <2>1, <2>2, <2>3 DEF JoinOK
    <2>. QED
      BY <1>3, <2>4 DEF SoloInv
  <1>. QED
    BY <1>4, <1>5

LEMMA SoloLeaving ==
    ASSUME RoundAssumption, RoundInv, SoloInv, CommitJoin \/ FailuresIdentified \/ ReplanComplete
    PROVE  SoloInv'
  <1>1. UNCHANGED <<row, frozen, result, join, rf>> /\ tokens' = {} /\ sub' = NoSubmission /\ run \in RunRecords
    BY DEF CommitJoin, FailuresIdentified, ReplanComplete, MoveTo, RoundInv, StoreOK, StoreType
  <1>2. StatusOK' /\ JoinOK'
    BY <1>1, SoloKeepsStatus DEF JoinOK, NoSubmission
  <1>3. CASE CommitJoin
    <2>1. /\ run.state = "branch_join" /\ sub.token.epoch = run.epoch /\ sub.pc = "joined"
      BY <1>3 DEF CommitJoin, Live, RoundInv, SubmissionOK
    <2>2. PICK s \in {"assemble", "identify_failures"} :
            run' = [run EXCEPT !.state = s, !.epoch = @ + 1] /\ (s = "identify_failures" => sub.outcome # "solved")
      BY <1>3 DEF CommitJoin, MoveTo
    <2>3. run'.state = s /\ run'.round = run.round
      BY <1>1, <2>2, StateMoves DEF States
    <2>4. s = "identify_failures" =>
            /\ OfRound(run.round) \subseteq join.considered
            /\ \A b \in OfRound(run.round) : result[b].outcome # "solved" /\ row[b].status = "sealed"
      BY <2>1, <2>2 DEF SoloInv, JoinOK, BarrierOK
    <2>5. BarrierOK' /\ SolvedRoundKept' /\ JoinCoversRound'
      BY <1>1, <2>3, <2>4 DEF BarrierOK, SolvedRoundKept, JoinCoversRound, OfRound
    <2>. QED
      BY <1>2, <2>5 DEF SoloInv
  <1>4. CASE FailuresIdentified \/ ReplanComplete
    <2>1. run.state \in {"identify_failures", "replan"}
      BY <1>4 DEF FailuresIdentified, ReplanComplete, Committing, Live
    <2>2. PICK s \in {"replan", "propose_plans"} : run' = [run EXCEPT !.state = s, !.epoch = @ + 1]
      BY <1>4 DEF FailuresIdentified, ReplanComplete, MoveTo
    <2>3. run'.state = s /\ run'.round = run.round
      BY <1>1, <2>2, StateMoves DEF States
    <2>4. BarrierOK' /\ SolvedRoundKept' /\ JoinCoversRound'
      BY <1>1, <2>1, <2>3 DEF SoloInv, BarrierOK, SolvedRoundKept, JoinCoversRound, OfRound
    <2>. QED
      BY <1>2, <2>4 DEF SoloInv
  <1>. QED
    BY <1>3, <1>4

LEMMA SoloEnvironment == ASSUME RoundAssumption, RoundInv, SoloInv, Cancel \/ Crash PROVE SoloInv'
  <1>1. CASE Cancel
    <2>1. run' = [run EXCEPT !.state = "cancelled", !.epoch = @ + 1] /\ run \in RunRecords
          /\ UNCHANGED <<row, rf>> /\ tokens' = {}
      BY <1>1 DEF Cancel, MoveTo, RoundInv, StoreOK, StoreType
    <2>2. run'.state = "cancelled"
      BY <2>1 DEF RunRecords
    <2>. QED
      BY <2>1, <2>2, SoloElsewhere
  <1>2. CASE Crash
    <2>1. UNCHANGED <<run, row, result, join, tokens, sub>> /\ rf' = [t \in Refreshers |-> Resting]
      BY <1>2 DEF Crash
    <2>2. \A t \in Refreshers : HoldsOK(rf'[t])
      BY <2>1 DEF HoldsOK, Resting
    <2>. QED
      BY <2>1, <2>2, SoloReads
  <1>. QED
    BY <1>1, <1>2

LEMMA NextSolo == ASSUME RoundAssumption, OneAtATime, RoundInv, SoloInv, [Next]_vars PROVE SoloInv'
  <1>1. ASSUME NEW t \in Refreshers, Refresh(t) PROVE SoloInv'
    BY <1>1, SoloReading, SoloPreparing, SoloListing, SoloRunning, SoloIssuing DEF Refresh
  <1>2. CASE Settle \/ PlanSeal \/ \E t \in tokens : Submit(t)
    BY <1>2, SoloSubmitting
  <1>3. CASE PlansProposed \/ CommitRoute \/ \E screened \in [Plans -> ScreeningStatus] : DirectProving(screened)
    BY <1>3, SoloScreening
  <1>4. ASSUME NEW r \in {"solved", "failed"}, PublishResult(r) PROVE SoloInv'
    BY <1>4, SoloPublishing
  <1>5. CASE SealBranch
    BY <1>5, SoloSealing
  <1>6. CASE PublishJoin \/ \E o \in {"solved", "failed"} : EvaluateJoin(o)
    BY <1>6, SoloJoining
  <1>7. CASE CommitJoin \/ FailuresIdentified \/ ReplanComplete
    BY <1>7, SoloLeaving
  <1>8. CASE Cancel \/ Crash
    BY <1>8, SoloEnvironment
  <1>9. CASE UNCHANGED vars
    BY <1>9 DEF vars, SoloInv, StatusOK, BarrierOK, JoinOK, SolvedRoundKept, JoinCoversRound, Unfinished, OfRound
  <1>. QED
    BY <1>1, <1>2, <1>3, <1>4, <1>5, <1>6, <1>7, <1>8, <1>9 DEF Next

(* With an unfinished branch there is an earliest that runs or waits.      *)
LEMMA SomeBranch == ASSUME RoundAssumption, RoundInv, SoloInv PROVE NeverWedged
  <1>. SUFFICES ASSUME run.state = "branch_run" PROVE NeverWedged
    BY DEF NeverWedged
  <1>1. Selectable("running") \cup Selectable("pending") # {}
    BY DEF SoloInv, BarrierOK, Unfinished, Selectable
  <1>2. \A s \in {"running", "pending"} :
            /\ Selectable(s) \in SUBSET Branches /\ Earliest(Selectable(s)) \subseteq Selectable(s)
            /\ \A b \in Selectable(s) : row[b].open
    BY DEF Selectable, Earliest, SoloInv, StatusOK, Unfinished
  <1>3. \A s \in {"running", "pending"} : Selectable(s) # {} => Earliest(Selectable(s)) # {}
    BY <1>2, SomeEarliest
  <1>4. Earliest(Selectable("running")) = {} => Selectable("running") = {}
    BY <1>3
  <1>. QED
    BY <1>1, <1>2, <1>3, <1>4 DEF NeverWedged

LEMMA SoloHolds == ASSUME RoundAssumption, OneAtATime PROVE Spec => [](RoundInv /\ SoloInv)
  <1>1. Init => RoundInv /\ SoloInv
    BY InitRound, InitSolo
  <1>2. RoundInv /\ SoloInv /\ [Next]_vars => (RoundInv /\ SoloInv)'
    BY NextRound, NextSolo
  <1>. QED
    BY <1>1, <1>2, PTL DEF Spec

-----------------------------------------------------------------------------
(* The proof gates: their invariant.                                       *)

(* A live submission works in a state that has tasks; what it has judged   *)
(* is what lies in the vault.                                              *)
GateSubmission ==
    /\ proofSub.pc # "none" /\ proofSub.live => proofRun.state \in Gate!Tasks
    /\ proofSub.pc = "judged" /\ proofSub.live =>
          /\ proofRun.state = "verify" /\ proofSub.verdict # "none"
          /\ proofReport = proofSub.verdict /\ proofDraft = proofSub.proof
          /\ proofSub.verdict = "correct" => proofRun.latexPassed

Closing == {"finalize", "done", "cancelled"}

(* From the approval on the draft stays, and what is published is it; a    *)
(* compact run has a rejection left.                                       *)
GateFiles ==
    /\ proofRun.state \notin {"assess", "explore", "assemble", "cancelled"} => proofDraft # NoProof
    /\ final # NoProof => final = proofDraft /\ proofRun.state \in Closing
    /\ proofRun.state = "finalize" => Gate!Permitted(proofRun)
    /\ proofRun.state = "done" => final # NoProof
    /\ proofRun.state = "assess" => proofRun.meta.failures = 0
    /\ proofRun.meta.mode = "compact" => proofRun.meta.failures < Gate!CompactFailures

(* A refresh that saw the approval finds the run approved for good.        *)
GateThread(r) ==
    /\ r.pc \in {"permit", "publish", "done"} => r.run.state = "finalize"
    /\ r.pc \in {"read", "compile"} => r.run.state = "latex_validate"
    /\ r.run.state = "finalize" => proofRun.state \in Closing /\ proofDraft # NoProof
    /\ r.pc = "done" => final # NoProof

GateInv ==
    /\ Gate!TypeOK /\ GateSubmission /\ GateFiles
    /\ \A t \in Refreshers : GateThread(proofRf[t])

(* What the compiler accepted is the draft; a lone refresh that reads it   *)
(* is what the run waits for.                                              *)
Compiled ==
    /\ proofRun.state \in {"verify", "finalize", "done"} => proofDraft \in Compiles
    /\ Compiles # Proofs =>
        \A t \in Refreshers : proofRf[t].run.state = "latex_validate" =>
            /\ proofRun.state \in {"latex_validate", "cancelled"}
            /\ proofRf[t].pc = "compile" /\ proofRun.state = "latex_validate" => proofRf[t].proof = proofDraft

(* One refresh compiles at a time, or the compiler takes every proof.      *)
GateAlone == (\A t, u \in Refreshers : t = u) \/ Compiles = Proofs

GatePcs == {"idle", "refresh", "advance", "read", "compile", "permit", "publish", "done"}
GateThreads == [pc : GatePcs, run : Gate!RunRecords, proof : Gate!Drafts]

LEMMA GateTypes ==
    Gate!TypeOK <=> /\ proofRun \in Gate!RunRecords
                    /\ proofDraft \in Gate!Drafts /\ final \in Gate!Drafts /\ proofReport \in Gate!Verdicts
                    /\ proofSub \in [pc : {"none", "open", "judged"}, live : BOOLEAN, verdict : Gate!Verdicts,
                                     proof : Gate!Drafts]
                    /\ proofRf \in [Refreshers -> GateThreads]
  BY DEF Gate!TypeOK, GateThreads, GatePcs

LEMMA GateConstants ==
    /\ Compiles \subseteq Proofs /\ NoProof \notin Proofs
    /\ Gate!Drafts = Proofs \cup {NoProof}
    /\ Gate!Resting \in GateThreads /\ Gate!Fresh \in Gate!RunRecords
    /\ Gate!Resting.pc = "idle" /\ Gate!Resting.run.state = "assess" /\ Gate!Fresh.state = "assess"
    /\ \A r \in Gate!RunRecords : /\ r.state \in Gate!States /\ r.latexPassed \in BOOLEAN
                                  /\ r.verdict \in Gate!Verdicts /\ r.meta \in Gate!Metadata
  <1>1. Gate!Fresh \in Gate!RunRecords /\ Gate!Fresh.state = "assess"
    BY DEF Gate!Fresh, Gate!RunRecords, Gate!Metadata, Gate!States, Gate!Verdicts, Gate!Drafts, Gate!CompactFailures
  <1>2. Gate!Resting \in GateThreads /\ Gate!Resting.pc = "idle" /\ Gate!Resting.run.state = "assess"
    BY <1>1 DEF Gate!Resting, GateThreads, GatePcs, Gate!Drafts
  <1>. QED
    BY <1>1, <1>2, GateAssumption DEF Gate!ProofAssumption, Gate!Drafts, Gate!RunRecords

LEMMA GateInitial == Gate!Init => GateInv /\ Compiled
  <1>. SUFFICES ASSUME Gate!Init PROVE GateInv /\ Compiled
    OBVIOUS
  <1>1. Gate!TypeOK
    BY GateTypes, GateConstants DEF Gate!Init, Gate!NoSubmission, Gate!Verdicts
  <1>2. GateSubmission /\ GateFiles
    BY GateConstants DEF Gate!Init, GateSubmission, GateFiles, Gate!NoSubmission, Gate!Fresh, Gate!CompactFailures
  <1>3. \A t \in Refreshers : GateThread(proofRf[t])
    BY GateConstants DEF Gate!Init, GateThread
  <1>4. Compiled
    BY GateConstants DEF Gate!Init, Compiled
  <1>. QED
    BY <1>1, <1>2, <1>3, <1>4 DEF GateInv

(* A refresh that changes nothing but itself.                              *)
LEMMA GateThreadSteps ==
    ASSUME GateInv, UNCHANGED <<proofRun, proofDraft, proofReport, final, proofSub>>,
           NEW t \in Refreshers, NEW r \in GateThreads, GateThread(r), proofRf' = [proofRf EXCEPT ![t] = r]
    PROVE  GateInv'
  <1>1. Gate!TypeOK'
    BY GateTypes DEF GateInv, Gate!TypeOK, GateThreads, GatePcs
  <1>2. GateSubmission' /\ GateFiles'
    BY DEF GateInv, GateSubmission, GateFiles, Gate!Permitted
  <1>3. \A u \in Refreshers : GateThread(proofRf[u])'
    BY GateTypes DEF GateInv, GateThread
  <1>. QED
    BY <1>1, <1>2, <1>3 DEF GateInv

LEMMA GateReading ==
    ASSUME GateInv, NEW t \in Refreshers,
           Gate!ReadRun(t) \/ Gate!CheckPending(t) \/ Gate!Dispatch(t) \/ Gate!ReadProof(t) \/ Gate!IssuePermit(t)
    PROVE  GateInv'
  <1>1. /\ GateThread(proofRf[t]) /\ proofRf[t] \in GateThreads /\ proofRun \in Gate!RunRecords
        /\ proofDraft \in Gate!Drafts /\ NoProof \in Gate!Drafts
    BY GateTypes DEF GateInv, Gate!Drafts
  <1>2. UNCHANGED <<proofRun, proofDraft, proofReport, final, proofSub>>
    BY DEF Gate!ReadRun, Gate!CheckPending, Gate!Dispatch, Gate!ReadProof, Gate!IssuePermit
  <1>3. GateThread(Gate!Resting) /\ Gate!Resting \in GateThreads
    BY GateConstants DEF GateThread
  <1>4. CASE Gate!ReadRun(t)
    <2> DEFINE r == [pc |-> "refresh", run |-> proofRun, proof |-> NoProof]
    <2>1. r \in GateThreads /\ GateThread(r)
      BY <1>1 DEF GateThreads, GatePcs, GateThread, GateInv, GateFiles, Closing
    <2>. QED
      BY <1>2, <1>4, <2>1, GateThreadSteps DEF Gate!ReadRun
  <1>5. CASE Gate!CheckPending(t)
    <2>1. [proofRf[t] EXCEPT !.pc = "advance"] \in GateThreads /\ GateThread([proofRf[t] EXCEPT !.pc = "advance"])
      BY <1>1 DEF GateThreads, GatePcs, GateThread
    <2>2. \/ proofRf' = [proofRf EXCEPT ![t] = [proofRf[t] EXCEPT !.pc = "advance"]]
          \/ proofRf' = [proofRf EXCEPT ![t] = Gate!Resting]
      BY <1>5 DEF Gate!CheckPending, Gate!Goto, Gate!Rest
    <2>. QED
      BY <1>2, <1>3, <2>1, <2>2, GateThreadSteps
  <1>6. CASE Gate!Dispatch(t)
    <2>1. PICK pc \in {"read", "permit"} :
             \/ /\ proofRf' = [proofRf EXCEPT ![t] = [proofRf[t] EXCEPT !.pc = pc]]
                /\ proofRf[t].run.state = IF pc = "read" THEN "latex_validate" ELSE "finalize"
             \/ proofRf' = [proofRf EXCEPT ![t] = Gate!Resting]
      BY <1>6 DEF Gate!Dispatch, Gate!Goto, Gate!Rest
    <2>2. proofRf[t].run.state = (IF pc = "read" THEN "latex_validate" ELSE "finalize") =>
             [proofRf[t] EXCEPT !.pc = pc] \in GateThreads /\ GateThread([proofRf[t] EXCEPT !.pc = pc])
      BY <1>1 DEF GateThreads, GatePcs, GateThread
    <2>. QED
      BY <1>2, <1>3, <2>1, <2>2, GateThreadSteps
  <1>7. CASE Gate!ReadProof(t) \/ Gate!IssuePermit(t)
    <2>1. PICK pc \in {"compile", "publish"} :
             \/ /\ proofRf' = [proofRf EXCEPT ![t] = [proofRf[t] EXCEPT !.pc = pc, !.proof = proofDraft]]
                /\ proofRf[t].pc = IF pc = "compile" THEN "read" ELSE "permit"
             \/ proofRf' = [proofRf EXCEPT ![t] = Gate!Resting]
      BY <1>7 DEF Gate!ReadProof, Gate!IssuePermit, Gate!Rest, Gate!At
    <2>2. proofRf[t].pc = (IF pc = "compile" THEN "read" ELSE "permit") =>
             /\ [proofRf[t] EXCEPT !.pc = pc, !.proof = proofDraft] \in GateThreads
             /\ GateThread([proofRf[t] EXCEPT !.pc = pc, !.proof = proofDraft])
      BY <1>1 DEF GateThreads, GatePcs, GateThread
    <2>. QED
      BY <1>2, <1>3, <2>1, <2>2, GateThreadSteps
  <1>. QED
    BY <1>4, <1>5, <1>6, <1>7

(* Any other step: what holds of the threads goes on to hold as long as    *)
(* an approved run stays approved, and files stay.                         *)
LEMMA GateSteps ==
    ASSUME GateInv, Gate!TypeOK', GateSubmission', GateFiles',
           proofRun.state \in Closing => proofRun'.state \in Closing,
           proofDraft # NoProof => proofDraft' # NoProof,
           final # NoProof => final' # NoProof,
           \A t \in Refreshers : proofRf'[t] = proofRf[t] \/ GateThread(proofRf[t])'
    PROVE  GateInv'
  <1>1. \A t \in Refreshers : GateThread(proofRf[t])'
    BY DEF GateInv, GateThread
  <1>. QED
    BY <1>1 DEF GateInv

LEMMA GateRests ==
    ASSUME GateInv, NEW t \in Refreshers, Gate!Rest(t)
    PROVE  /\ proofRf' \in [Refreshers -> GateThreads]
           /\ proofRf'[t] = Gate!Resting /\ GateThread(Gate!Resting)'
           /\ \A u \in Refreshers : proofRf'[u] = proofRf[u] \/ GateThread(proofRf[u])'
  <1>1. proofRf' = [proofRf EXCEPT ![t] = Gate!Resting] /\ proofRf \in [Refreshers -> GateThreads]
    BY GateTypes DEF Gate!Rest, GateInv
  <1>2. GateThread(Gate!Resting)'
    BY GateConstants DEF GateThread, Gate!Resting
  <1>3. proofRf'[t] = Gate!Resting /\ \A u \in Refreshers \ {t} : proofRf'[u] = proofRf[u]
    BY <1>1
  <1>4. GateThread(proofRf[t])'
    BY <1>2, <1>3
  <1>. QED
    BY <1>1, <1>2, <1>3, <1>4, GateConstants

(* How the handlers write the runs row.                                    *)
LEMMA GateRows ==
    ASSUME NEW r \in Gate!RunRecords, NEW s \in Gate!States
    PROVE  /\ [r EXCEPT !.state = s] \in Gate!RunRecords
           /\ [r EXCEPT !.state = s].state = s
           /\ [r EXCEPT !.state = s].latexPassed = r.latexPassed
           /\ [r EXCEPT !.state = s].verdict = r.verdict
           /\ [r EXCEPT !.state = s].meta = r.meta
  BY DEF Gate!RunRecords

LEMMA GateCompleting ==
    ASSUME GateInv, NEW t \in Refreshers, NEW passed \in BOOLEAN, Gate!CompleteGate(t, passed)
    PROVE  GateInv'
  <1>1. /\ proofRun \in Gate!RunRecords /\ proofRun.meta \in Gate!Metadata
        /\ UNCHANGED <<proofDraft, proofReport, final, proofSub>> /\ Gate!Rest(t)
    BY GateTypes, GateConstants DEF GateInv, Gate!CompleteGate
  <1>2. CASE proofRun' = proofRun
    <2>1. Gate!TypeOK'
      BY <1>1, <1>2, GateTypes, GateRests DEF GateInv, Gate!TypeOK, GateThreads, GatePcs
    <2>2. GateSubmission' /\ GateFiles'
      BY <1>1, <1>2 DEF GateInv, GateSubmission, GateFiles, Gate!Permitted
    <2>. QED
      BY <1>1, <1>2, <2>1, <2>2, GateRests, GateSteps
  <1>3. CASE proofRun.state = "latex_validate" /\ proofRun' # proofRun
    <2> DEFINE s == IF passed THEN "verify" ELSE "repair"
               m == [proofRun.meta EXCEPT !.latex = IF passed THEN "passed" ELSE "failed"]
    <2>1. proofRun' = [proofRun EXCEPT !.state = s, !.latexPassed = passed, !.meta = m]
      BY <1>1, <1>3 DEF Gate!CompleteGate
    <2>2. m \in Gate!Metadata /\ s \in Gate!States
      BY <1>1 DEF Gate!Metadata, Gate!States
    <2>3. proofRun' = [state |-> s, latexPassed |-> passed, verdict |-> proofRun.verdict, meta |-> m]
      <3>. HIDE DEF s, m
      <3>. QED
        BY <1>1, <2>1 DEF Gate!RunRecords
    <2>4. proofRun' \in Gate!RunRecords /\ proofRun'.state = s
      <3>. HIDE DEF s, m
      <3>. QED
        BY <1>1, <2>2, <2>3 DEF Gate!RunRecords
    <2>5. Gate!TypeOK'
      BY <1>1, <2>4, GateTypes, GateRests DEF GateInv, Gate!TypeOK, GateThreads, GatePcs
    <2>6. proofRun'.meta = m /\ m.failures = proofRun.meta.failures /\ m.mode = proofRun.meta.mode
      BY <1>1, <2>3 DEF Gate!Metadata
    <2>7. GateSubmission' /\ GateFiles'
      <3>. HIDE DEF m
      <3>. QED
        BY <1>1, <1>3, <2>4, <2>6 DEF GateInv, GateSubmission, GateFiles, Gate!Tasks, Closing
    <2>. QED
      BY <1>1, <1>3, <2>5, <2>7, GateRests, GateSteps DEF Closing
  <1>. QED
    BY <1>2, <1>3 DEF Gate!CompleteGate

LEMMA GatePublishing ==
    ASSUME GateInv, NEW t \in Refreshers, Gate!PublishFinal(t)
    PROVE  GateInv'
  <1>1. /\ GateThread(proofRf[t]) /\ proofRf[t] \in GateThreads /\ proofRf[t].run.state = "finalize"
        /\ proofRun.state \in Closing /\ proofDraft # NoProof
        /\ UNCHANGED <<proofRun, proofDraft, proofReport, proofSub>>
    BY GateTypes DEF GateInv, Gate!PublishFinal, Gate!At, GateThread
  <1>2. CASE Gate!Rest(t) /\ UNCHANGED final
    <2>1. Gate!TypeOK'
      BY <1>1, <1>2, GateTypes, GateRests DEF GateInv, Gate!TypeOK, GateThreads, GatePcs
    <2>2. GateSubmission' /\ GateFiles'
      BY <1>1, <1>2 DEF GateInv, GateSubmission, GateFiles, Gate!Permitted
    <2>. QED
      BY <1>1, <1>2, <2>1, <2>2, GateRests, GateSteps
  <1>3. CASE final' = proofDraft /\ Gate!Goto(t, "done")
    <2>1. /\ proofRf' = [proofRf EXCEPT ![t] = [proofRf[t] EXCEPT !.pc = "done"]]
          /\ [proofRf[t] EXCEPT !.pc = "done"] \in GateThreads
          /\ proofRf'[t] = [proofRf[t] EXCEPT !.pc = "done"]
      BY <1>1, <1>3, GateTypes DEF Gate!Goto, GateThreads, GatePcs, GateInv
    <2>2. Gate!TypeOK'
      BY <1>1, <1>3, <2>1, GateTypes DEF GateInv, Gate!TypeOK, GateThreads, GatePcs
    <2>3. GateSubmission' /\ GateFiles'
      BY <1>1, <1>3 DEF GateInv, GateSubmission, GateFiles, Gate!Permitted
    <2>4. GateThread(proofRf[t])'
      BY <1>1, <1>3, <2>1 DEF GateThread, GateThreads
    <2>5. \A u \in Refreshers : proofRf'[u] = proofRf[u] \/ GateThread(proofRf[u])'
      BY <2>1, <2>4
    <2>. QED
      BY <1>1, <1>3, <2>2, <2>3, <2>5, GateSteps
  <1>. QED
    BY <1>2, <1>3 DEF Gate!PublishFinal

LEMMA GateClosing ==
    ASSUME GateInv, NEW t \in Refreshers, Gate!CompleteFinalize(t)
    PROVE  GateInv'
  <1>1. /\ GateThread(proofRf[t]) /\ final # NoProof /\ proofRun.state \in Closing
        /\ UNCHANGED <<proofDraft, proofReport, final, proofSub>> /\ Gate!Rest(t)
        /\ proofRun \in Gate!RunRecords
    BY GateTypes DEF GateInv, Gate!CompleteFinalize, Gate!At, GateThread
  <1>2. /\ proofRun' \in Gate!RunRecords
        /\ \/ proofRun' = proofRun
           \/ /\ proofRun.state = "finalize" /\ proofRun'.state = "done"
              /\ proofRun'.meta = proofRun.meta
    BY <1>1, GateRows DEF Gate!CompleteFinalize, Gate!States
  <1>3. Gate!TypeOK'
    BY <1>1, <1>2, GateTypes, GateRests DEF GateInv, Gate!TypeOK, GateThreads, GatePcs
  <1>4. GateSubmission' /\ GateFiles'
    BY <1>1, <1>2 DEF GateInv, GateSubmission, GateFiles, Gate!Permitted, Gate!Tasks, Closing
  <1>. QED
    BY <1>1, <1>2, <1>3, <1>4, GateRests, GateSteps DEF Closing

LEMMA GateWriting ==
    ASSUME GateInv,
           \/ Gate!Submit \/ Gate!Settle \/ \E p \in Proofs : Gate!WriteProof(p)
           \/ \E v \in {"correct", "wrong"} : Gate!WriteReport(v) \/ Gate!Judge(v)
    PROVE  GateInv'
  <1>1. /\ UNCHANGED <<proofRun, final, proofRf>> /\ proofSub.pc \in {"none", "open", "judged"}
        /\ proofReport \in Gate!Verdicts /\ proofDraft \in Gate!Drafts
    BY GateTypes DEF Gate!Submit, Gate!Settle, Gate!WriteProof, Gate!WriteReport, Gate!Judge, GateInv
  <1>2. CASE Gate!Submit \/ Gate!Settle
    <2>1. /\ \/ proofSub' = [pc |-> "open", live |-> TRUE, verdict |-> "none", proof |-> NoProof]
                /\ proofRun.state \in Gate!Tasks
             \/ proofSub' = [pc |-> "none", live |-> FALSE, verdict |-> "none", proof |-> NoProof]
          /\ UNCHANGED <<proofDraft, proofReport>>
      <3>1. CASE Gate!Submit
        BY <3>1 DEF Gate!Submit, Gate!NoSubmission
      <3>2. CASE Gate!Settle
        BY <3>2 DEF Gate!Settle, Gate!NoSubmission
      <3>. QED
        BY <1>2, <3>1, <3>2
    <2>2. proofSub' \in [pc : {"none", "open", "judged"}, live : BOOLEAN, verdict : Gate!Verdicts, proof : Gate!Drafts]
      <3>1. /\ [pc |-> "open", live |-> TRUE, verdict |-> "none", proof |-> NoProof] \in
                  [pc : {"none", "open", "judged"}, live : BOOLEAN, verdict : Gate!Verdicts, proof : Gate!Drafts]
            /\ [pc |-> "none", live |-> FALSE, verdict |-> "none", proof |-> NoProof] \in
                  [pc : {"none", "open", "judged"}, live : BOOLEAN, verdict : Gate!Verdicts, proof : Gate!Drafts]
        BY DEF Gate!Drafts, Gate!Verdicts
      <3>. QED
        BY <2>1, <3>1
    <2>3. Gate!TypeOK'
      BY <1>1, <2>1, <2>2, GateTypes DEF GateInv, Gate!TypeOK, GateThreads, GatePcs
    <2>4. GateSubmission' /\ GateFiles'
      BY <1>1, <2>1 DEF GateInv, GateSubmission, GateFiles, Gate!Permitted
    <2>. QED
      BY <1>1, <2>1, <2>3, <2>4, GateSteps
  <1>3. ASSUME NEW p \in Proofs, Gate!WriteProof(p) PROVE GateInv'
    <2>1. /\ proofDraft' = p /\ p # NoProof /\ UNCHANGED <<proofReport, proofSub>> /\ proofSub.pc = "open"
          /\ proofRun.state \in {"assemble", "repair"}
      BY <1>3, GateConstants DEF Gate!WriteProof, Gate!MayWriteProof
    <2>2. Gate!TypeOK'
      BY <1>1, <2>1, GateTypes, GateConstants DEF GateInv, Gate!TypeOK, GateThreads, GatePcs
    <2>3. GateSubmission' /\ GateFiles'
      BY <1>1, <2>1 DEF GateInv, GateSubmission, GateFiles, Closing
    <2>. QED
      BY <1>1, <2>1, <2>2, <2>3, GateSteps
  <1>4. ASSUME NEW v \in {"correct", "wrong"}, Gate!WriteReport(v) PROVE GateInv'
    <2>1. /\ proofReport' = v /\ UNCHANGED <<proofDraft, proofSub>> /\ proofSub.pc = "open"
          /\ proofRun.state = "verify"
      BY <1>4 DEF Gate!WriteReport, Gate!Acting
    <2>2. Gate!TypeOK'
      BY <1>1, <2>1, GateTypes DEF GateInv, Gate!TypeOK, Gate!Verdicts, GateThreads, GatePcs
    <2>3. GateSubmission' /\ GateFiles'
      BY <1>1, <2>1 DEF GateInv, GateSubmission, GateFiles, Gate!Tasks
    <2>. QED
      BY <1>1, <2>1, <2>2, <2>3, GateSteps
  <1>5. ASSUME NEW v \in {"correct", "wrong"}, Gate!Judge(v) PROVE GateInv'
    <2>1. /\ proofReport' = v /\ UNCHANGED proofDraft /\ proofRun.state = "verify"
          /\ proofSub' = [proofSub EXCEPT !.pc = "judged", !.verdict = v, !.proof = proofDraft]
          /\ v = "correct" => proofRun.latexPassed
      BY <1>5 DEF Gate!Judge, Gate!Acting
    <2>2. /\ proofSub' \in [pc : {"none", "open", "judged"}, live : BOOLEAN, verdict : Gate!Verdicts, proof : Gate!Drafts]
          /\ proofSub'.pc = "judged" /\ proofSub'.verdict = v /\ proofSub'.proof = proofDraft
      BY <1>1, <2>1, GateTypes DEF GateInv, Gate!Verdicts
    <2>3. Gate!TypeOK'
      BY <1>1, <2>1, <2>2, GateTypes DEF GateInv, Gate!TypeOK, Gate!Verdicts, GateThreads, GatePcs
    <2>4. GateSubmission' /\ GateFiles'
      BY <1>1, <2>1, <2>2 DEF GateInv, GateSubmission, GateFiles, Gate!Tasks
    <2>. QED
      BY <1>1, <2>1, <2>3, <2>4, GateSteps
  <1>. QED
    BY <1>2, <1>3, <1>4, <1>5

(* The transitions of submissions: the run leaves a state that has tasks.  *)
LEMMA GateCommits ==
    ASSUME GateInv, UNCHANGED <<proofDraft, proofReport, final, proofRf>>, proofSub' = Gate!NoSubmission,
           proofRun.state \in Gate!Tasks, proofRun' \in Gate!RunRecords,
           proofRun'.state \notin {"assess", "done"},
           proofRun'.meta.mode = "compact" => proofRun'.meta.failures < Gate!CompactFailures,
           proofRun'.state \notin {"assess", "explore", "assemble", "cancelled"} => proofDraft # NoProof,
           proofRun'.state = "finalize" => Gate!Permitted(proofRun)'
    PROVE  GateInv'
  <1>1. Gate!NoSubmission \in [pc : {"none", "open", "judged"}, live : BOOLEAN, verdict : Gate!Verdicts, proof : Gate!Drafts]
    BY GateConstants DEF Gate!NoSubmission, Gate!Verdicts
  <1>2. Gate!TypeOK'
    BY <1>1, GateTypes DEF GateInv, Gate!TypeOK, GateThreads, GatePcs
  <1>3. GateSubmission' /\ GateFiles'
    BY DEF GateInv, GateSubmission, GateFiles, Gate!NoSubmission, Gate!Tasks, Closing
  <1>. QED
    BY <1>2, <1>3, GateSteps DEF Gate!Tasks, Closing

(* What a transition does to the state and the metadata.                   *)
LEMMA GateTransitions ==
    ASSUME GateInv, NEW m \in {"compact", "full"},
           \/ Gate!AssessmentComplete(m) \/ Gate!ResearchComplete \/ Gate!Escalate
           \/ Gate!ProofSubmitted \/ Gate!RepairSubmitted
    PROVE  GateInv' /\ proofRun'.state \in {"explore", "assemble", "latex_validate"}
  <1>1. /\ UNCHANGED <<proofDraft, proofReport, final, proofRf>> /\ proofSub' = Gate!NoSubmission
        /\ proofRun.state \in Gate!Tasks /\ proofRun \in Gate!RunRecords /\ proofRun.meta \in Gate!Metadata
        /\ proofDraft \in Gate!Drafts
    BY GateTypes, GateConstants DEF GateInv, Gate!AssessmentComplete, Gate!ResearchComplete, Gate!Escalate,
       Gate!ProofSubmitted, Gate!RepairSubmitted, Gate!Commit, Gate!Acting, Gate!Tasks
  <1>2. ASSUME NEW s \in {"explore", "assemble", "latex_validate"}, NEW x \in Gate!Metadata,
               proofRun' = [proofRun EXCEPT !.state = s, !.meta = x],
               s = "latex_validate" => proofDraft # NoProof,
               x.mode = "compact" => x.failures < Gate!CompactFailures
        PROVE  GateInv' /\ proofRun'.state = s
    <2>1. proofRun' \in Gate!RunRecords /\ proofRun'.state = s /\ proofRun'.meta = x
      <3>1. proofRun' = [state |-> s, latexPassed |-> proofRun.latexPassed, verdict |-> proofRun.verdict, meta |-> x]
        BY <1>1, <1>2 DEF Gate!RunRecords
      <3>. QED
        BY <1>1, <3>1 DEF Gate!RunRecords, Gate!States
    <2>. QED
      BY <1>1, <1>2, <2>1, GateCommits
  <1>3. proofRun.meta.mode = "compact" => proofRun.meta.failures < Gate!CompactFailures
    BY DEF GateInv, GateFiles
  <1>4. CASE Gate!AssessmentComplete(m)
    <2>1. PICK x : x = [proofRun.meta EXCEPT !.mode = m]
      OBVIOUS
    <2>2. x \in Gate!Metadata /\ x.failures = proofRun.meta.failures
      BY <1>1, <2>1 DEF Gate!Metadata
    <2>3. x.failures < Gate!CompactFailures
      BY <1>4, <2>2 DEF Gate!AssessmentComplete, Gate!Acting, GateInv, GateFiles, Gate!CompactFailures
    <2>4. PICK s \in {"assemble", "explore"} : proofRun' = [proofRun EXCEPT !.state = s, !.meta = x]
      BY <1>4, <2>1 DEF Gate!AssessmentComplete, Gate!Commit
    <2>. QED
      BY <1>2, <2>2, <2>3, <2>4
  <1>5. CASE Gate!ResearchComplete
    <2>1. proofRun' = [proofRun EXCEPT !.state = "assemble", !.meta = proofRun.meta]
      BY <1>1, <1>5 DEF Gate!ResearchComplete, Gate!Commit, Gate!RunRecords
    <2>. QED
      BY <1>1, <1>2, <1>3, <2>1
  <1>6. CASE Gate!Escalate
    <2>1. PICK x : x = [proofRun.meta EXCEPT !.mode = "full"]
      OBVIOUS
    <2>2. x \in Gate!Metadata /\ x.mode = "full"
      BY <1>1, <2>1 DEF Gate!Metadata
    <2>3. proofRun' = [proofRun EXCEPT !.state = "explore", !.meta = x]
      BY <1>6, <2>1 DEF Gate!Escalate, Gate!Commit
    <2>. QED
      BY <1>2, <2>2, <2>3
  <1>7. CASE Gate!ProofSubmitted \/ Gate!RepairSubmitted
    <2>1. PICK x : x = [proofRun.meta EXCEPT !.submitted = proofDraft]
      OBVIOUS
    <2>2. x \in Gate!Metadata /\ x.mode = proofRun.meta.mode /\ x.failures = proofRun.meta.failures
      BY <1>1, <2>1 DEF Gate!Metadata
    <2>3. proofRun' = [proofRun EXCEPT !.state = "latex_validate", !.meta = x]
      BY <1>7, <2>1 DEF Gate!ProofSubmitted, Gate!RepairSubmitted, Gate!Commit
    <2>4. proofDraft # NoProof
      BY <1>7 DEF Gate!ProofSubmitted, Gate!RepairSubmitted, Gate!Acting, GateInv, GateFiles
    <2>. QED
      BY <1>2, <1>3, <2>2, <2>3, <2>4
  <1>. QED
    BY <1>4, <1>5, <1>6, <1>7

LEMMA GateJudging ==
    ASSUME GateInv, Gate!VerificationSubmitted
    PROVE  /\ GateInv' /\ proofRun.state = "verify" /\ proofRun'.state \in {"finalize", "explore", "repair"}
           /\ UNCHANGED <<proofDraft, proofReport, final, proofRf>>
  <1>1. /\ proofSub.pc = "judged" /\ proofSub.live /\ proofRun' = Gate!Judged(proofSub.verdict, proofSub.proof)
        /\ UNCHANGED <<proofDraft, proofReport, final, proofRf>> /\ proofSub' = Gate!NoSubmission
    BY DEF Gate!VerificationSubmitted, Gate!Commit
  <1>2. /\ proofRun.state = "verify" /\ proofReport = proofSub.verdict /\ proofDraft = proofSub.proof
        /\ proofSub.verdict = "correct" => proofRun.latexPassed
        /\ proofRun \in Gate!RunRecords /\ proofRun.meta \in Gate!Metadata
        /\ proofDraft \in Gate!Drafts /\ proofReport \in Gate!Verdicts /\ proofDraft # NoProof
    BY <1>1, GateTypes, GateConstants DEF GateInv, GateSubmission, GateFiles
  <1> DEFINE compact == proofRun.meta.mode = "compact"
             failures == proofRun.meta.failures + (IF proofReport = "wrong" /\ compact THEN 1 ELSE 0)
             givenUp == proofReport = "wrong" /\ compact /\ failures >= Gate!CompactFailures
             s == IF proofReport = "correct" THEN "finalize" ELSE IF givenUp THEN "explore" ELSE "repair"
             mode == IF givenUp THEN "full" ELSE proofRun.meta.mode
  <1>3. proofRun' = [proofRun EXCEPT !.state = s, !.verdict = proofReport,
                        !.meta = [[[proofRun.meta EXCEPT !.verified = proofDraft] EXCEPT !.failures = failures] EXCEPT !.mode = mode]]
    BY <1>1, <1>2 DEF Gate!Judged
  <1>4. PICK x : x = [mode |-> mode, failures |-> failures, submitted |-> proofRun.meta.submitted,
                      latex |-> proofRun.meta.latex, verified |-> proofDraft]
    OBVIOUS
  <1>5. failures \in 0..Gate!CompactFailures /\ mode \in {"unset", "compact", "full"}
        /\ (mode = "compact" => failures < Gate!CompactFailures)
    BY <1>2 DEF GateInv, GateFiles, Gate!CompactFailures, Gate!Metadata
  <1>6. s \in {"finalize", "explore", "repair"} /\ (s = "finalize" => proofReport = "correct")
    OBVIOUS
  <1>. HIDE DEF mode, failures, s
  <1>7. [[[proofRun.meta EXCEPT !.verified = proofDraft] EXCEPT !.failures = failures] EXCEPT !.mode = mode] = x
    <2>1. PICK a : a = [proofRun.meta EXCEPT !.verified = proofDraft]
      OBVIOUS
    <2>2. PICK b : b = [a EXCEPT !.failures = failures]
      OBVIOUS
    <2>3. a = [mode |-> proofRun.meta.mode, failures |-> proofRun.meta.failures, submitted |-> proofRun.meta.submitted,
               latex |-> proofRun.meta.latex, verified |-> proofDraft]
      BY <1>2, <2>1 DEF Gate!Metadata
    <2>4. b = [mode |-> proofRun.meta.mode, failures |-> failures, submitted |-> proofRun.meta.submitted,
               latex |-> proofRun.meta.latex, verified |-> proofDraft]
      BY <2>2, <2>3
    <2>5. [b EXCEPT !.mode = mode] = x
      BY <1>4, <2>4
    <2>. QED
      BY <2>1, <2>2, <2>5
  <1>8. proofRun' = [state |-> s, latexPassed |-> proofRun.latexPassed, verdict |-> proofReport, meta |-> x]
    BY <1>2, <1>3, <1>7 DEF Gate!RunRecords
  <1>9. x \in Gate!Metadata
    BY <1>2, <1>4, <1>5 DEF Gate!Metadata
  <1>10. proofRun' \in Gate!RunRecords
    BY <1>2, <1>6, <1>8, <1>9 DEF Gate!RunRecords, Gate!States
  <1>11. s = "finalize" => Gate!Permitted(proofRun)'
    BY <1>1, <1>2, <1>4, <1>6, <1>8 DEF Gate!Permitted
  <1>12. proofRun'.meta.mode = "compact" => proofRun'.meta.failures < Gate!CompactFailures
    BY <1>4, <1>5, <1>8
  <1>13. GateInv'
    BY <1>1, <1>2, <1>6, <1>8, <1>10, <1>11, <1>12, GateCommits DEF Gate!Tasks
  <1>. QED
    BY <1>1, <1>2, <1>6, <1>8, <1>13

LEMMA GateEnvironment == ASSUME GateInv, Gate!Cancel \/ Gate!Crash PROVE GateInv'
  <1>1. CASE Gate!Cancel
    <2>1. /\ proofRun' = [proofRun EXCEPT !.state = "cancelled"] /\ proofSub' = [proofSub EXCEPT !.live = FALSE]
          /\ UNCHANGED <<proofDraft, proofReport, final, proofRf>> /\ proofRun \in Gate!RunRecords
      BY <1>1, GateTypes DEF Gate!Cancel, GateInv
    <2>2. proofRun' \in Gate!RunRecords /\ proofRun'.state = "cancelled" /\ proofRun'.meta = proofRun.meta
      BY <2>1, GateRows DEF Gate!States
    <2>3. /\ proofSub' \in [pc : {"none", "open", "judged"}, live : BOOLEAN, verdict : Gate!Verdicts, proof : Gate!Drafts]
          /\ proofSub'.live = FALSE
      BY <2>1, GateTypes DEF GateInv
    <2>4. Gate!TypeOK'
      BY <2>1, <2>2, <2>3, GateTypes DEF GateInv, Gate!TypeOK, GateThreads, GatePcs
    <2>5. GateSubmission' /\ GateFiles'
      BY <2>1, <2>2, <2>3 DEF GateInv, GateSubmission, GateFiles, Closing
    <2>. QED
      BY <2>1, <2>2, <2>4, <2>5, GateSteps DEF Closing
  <1>2. CASE Gate!Crash
    <2>1. proofRf' = [t \in Refreshers |-> Gate!Resting] /\ UNCHANGED <<proofRun, proofDraft, proofReport, final, proofSub>>
      BY <1>2 DEF Gate!Crash
    <2>2. Gate!TypeOK'
      BY <2>1, GateTypes, GateConstants DEF GateInv, Gate!TypeOK, GateThreads, GatePcs
    <2>3. GateSubmission' /\ GateFiles'
      BY <2>1 DEF GateInv, GateSubmission, GateFiles, Gate!Permitted
    <2>4. \A t \in Refreshers : GateThread(proofRf[t])'
      BY <2>1, GateConstants DEF GateThread
    <2>. QED
      BY <2>2, <2>3, <2>4 DEF GateInv
  <1>. QED
    BY <1>1, <1>2

LEMMA GateNext == ASSUME GateInv, [Gate!Next]_Gate!vars PROVE GateInv'
  <1>1. ASSUME NEW t \in Refreshers, Gate!Refresh(t) PROVE GateInv'
    BY <1>1, GateReading, GateCompleting, GatePublishing, GateClosing DEF Gate!Refresh
  <1>2. CASE \/ Gate!Submit \/ Gate!Settle \/ \E p \in Proofs : Gate!WriteProof(p)
             \/ \E v \in {"correct", "wrong"} : Gate!WriteReport(v) \/ Gate!Judge(v)
    BY <1>2, GateWriting
  <1>3. ASSUME NEW m \in {"compact", "full"},
               \/ Gate!AssessmentComplete(m) \/ Gate!ResearchComplete \/ Gate!Escalate
               \/ Gate!ProofSubmitted \/ Gate!RepairSubmitted
        PROVE  GateInv'
    BY <1>3, GateTransitions
  <1>4. CASE Gate!VerificationSubmitted
    BY <1>4, GateJudging
  <1>5. CASE Gate!Cancel \/ Gate!Crash
    BY <1>5, GateEnvironment
  <1>6. CASE UNCHANGED Gate!vars
    <2>1. Gate!TypeOK' /\ GateSubmission' /\ GateFiles'
      BY <1>6 DEF Gate!vars, GateInv, Gate!TypeOK, GateSubmission, GateFiles, Gate!Permitted
    <2>. QED
      BY <1>6, <2>1, GateSteps DEF Gate!vars
  <1>. QED
    BY <1>1, <1>2, <1>3, <1>4, <1>5, <1>6 DEF Gate!Next

LEMMA GateHolds == Gate!Spec => []GateInv
  <1>1. Gate!Init => GateInv
    BY GateInitial
  <1>2. GateInv /\ [Gate!Next]_Gate!vars => GateInv'
    BY GateNext
  <1>. QED
    BY <1>1, <1>2, PTL DEF Gate!Spec

(* An approved run can always be finalized, however many refreshes compile *)
(* and publish at a time, are cut off or come late (finalize).             *)
THEOREM ApprovedNeverDenied == Gate!Spec => []NeverDenied
  <1>1. GateInv => NeverDenied
    BY DEF GateInv, GateFiles, NeverDenied, Gate!NeverDenied
  <1>. QED
    BY <1>1, GateHolds, PTL

-----------------------------------------------------------------------------
(* What is published compiles, when no refresh overtakes the compiler.     *)

LEMMA CompilingKeeps ==
    ASSUME GateAlone, GateInv, Compiled, NEW t \in Refreshers, NEW passed \in BOOLEAN, Gate!CompleteGate(t, passed)
    PROVE  /\ Compiled'
           /\ \/ /\ proofRun.state = "latex_validate" /\ proofDraft' = proofDraft
                 /\ \/ proofRun'.state = "verify" /\ proofDraft \in Compiles
                    \/ proofRun'.state = "repair"
              \/ UNCHANGED <<proofRun, proofDraft, final>>
  <1>1. /\ GateThread(proofRf[t]) /\ proofRf[t].pc = "compile" /\ proofRun \in Gate!RunRecords
        /\ UNCHANGED <<proofDraft, proofReport, final, proofSub>> /\ Gate!Rest(t)
        /\ passed => proofRf[t].proof \in Compiles
    BY GateTypes DEF GateInv, Gate!CompleteGate, Gate!At
  <1>2. /\ proofRf'[t] = Gate!Resting /\ Gate!Resting.run.state = "assess"
        /\ \A u \in Refreshers \ {t} : proofRf'[u] = proofRf[u]
    BY <1>1, GateRests, GateConstants, GateTypes DEF Gate!Rest, GateInv
  <1>3. Compiles # Proofs => \A u \in Refreshers : proofRf'[u].run.state # "latex_validate"
    BY <1>2 DEF GateAlone
  <1>4. CASE proofRun' = proofRun
    BY <1>1, <1>3, <1>4 DEF Compiled
  <1>5. CASE proofRun.state = "latex_validate" /\ proofRun' # proofRun
    <2>1. PICK m : m = [proofRun.meta EXCEPT !.latex = IF passed THEN "passed" ELSE "failed"]
      OBVIOUS
    <2>2. proofRun' = [proofRun EXCEPT !.state = IF passed THEN "verify" ELSE "repair", !.latexPassed = passed, !.meta = m]
      BY <1>1, <1>5, <2>1 DEF Gate!CompleteGate
    <2>3. proofRun'.state = IF passed THEN "verify" ELSE "repair"
      BY <1>1, <2>2 DEF Gate!RunRecords
    <2>4. passed => proofDraft \in Compiles
      <3>1. CASE Compiles = Proofs
        BY <1>5, <3>1, GateTypes, GateConstants DEF GateInv, GateFiles
      <3>2. CASE Compiles # Proofs
        BY <1>1, <1>5, <3>2 DEF Compiled, GateThread
      <3>. QED
        BY <3>1, <3>2
    <2>. QED
      BY <1>1, <1>3, <1>5, <2>3, <2>4 DEF Compiled
  <1>. QED
    BY <1>4, <1>5 DEF Gate!CompleteGate

LEMMA RefreshingKeeps ==
    ASSUME GateInv, Compiled, NEW t \in Refreshers,
           \/ Gate!ReadRun(t) \/ Gate!CheckPending(t) \/ Gate!Dispatch(t) \/ Gate!ReadProof(t)
           \/ Gate!IssuePermit(t) \/ Gate!PublishFinal(t)
    PROVE  Compiled'
  <1>1. UNCHANGED <<proofRun, proofDraft>> /\ proofRf \in [Refreshers -> GateThreads]
    BY GateTypes DEF GateInv, Gate!ReadRun, Gate!CheckPending, Gate!Dispatch, Gate!ReadProof, Gate!IssuePermit,
       Gate!PublishFinal
  <1>2. /\ \A u \in Refreshers \ {t} : proofRf'[u] = proofRf[u]
        /\ \/ proofRf'[t].run = proofRun /\ proofRf'[t].pc = "refresh"
           \/ proofRf'[t].run = proofRf[t].run /\ proofRf'[t].pc # "compile"
           \/ proofRf'[t].run = proofRf[t].run /\ proofRf'[t].proof = proofDraft
           \/ proofRf'[t] = Gate!Resting
    BY <1>1 DEF Gate!ReadRun, Gate!CheckPending, Gate!Dispatch, Gate!ReadProof, Gate!IssuePermit,
       Gate!PublishFinal, Gate!Goto, Gate!Rest, GateThreads
  <1>3. Gate!Resting.run.state = "assess"
    BY GateConstants
  <1>. QED
    BY <1>1, <1>2, <1>3 DEF Compiled

LEMMA CompiledStays ==
    ASSUME GateAlone, GateInv, Compiled, [Gate!Next]_Gate!vars
    PROVE  Compiled'
  <1>1. ASSUME NEW t \in Refreshers, Gate!Refresh(t) PROVE Compiled'
    <2>1. CASE Gate!CompleteFinalize(t)
      <3>1. /\ proofRun \in Gate!RunRecords /\ proofRf'[t] = Gate!Resting /\ Gate!Resting.run.state = "assess"
            /\ UNCHANGED proofDraft /\ \A u \in Refreshers \ {t} : proofRf'[u] = proofRf[u]
        BY <2>1, GateConstants, GateTypes DEF GateInv, Gate!CompleteFinalize, Gate!Rest
      <3>2. \/ proofRun' = proofRun
            \/ proofRun.state = "finalize" /\ proofRun'.state = "done"
        BY <2>1, <3>1, GateRows DEF Gate!CompleteFinalize, Gate!States
      <3>. QED
        BY <3>1, <3>2 DEF Compiled
    <2>2. CASE \E passed \in BOOLEAN : Gate!CompleteGate(t, passed)
      BY <2>2, CompilingKeeps
    <2>. QED
      BY <1>1, <2>1, <2>2, RefreshingKeeps DEF Gate!Refresh
  <1>2. CASE \/ Gate!Submit \/ Gate!Settle \/ \E v \in {"correct", "wrong"} : Gate!WriteReport(v) \/ Gate!Judge(v)
    <2>1. UNCHANGED <<proofRun, proofDraft, proofRf>>
      BY <1>2 DEF Gate!Submit, Gate!Settle, Gate!WriteReport, Gate!Judge
    <2>. QED
      BY <2>1 DEF Compiled
  <1>3. ASSUME NEW p \in Proofs, Gate!WriteProof(p) PROVE Compiled'
    <2>1. UNCHANGED <<proofRun, proofRf>> /\ proofRun.state \in {"assemble", "repair"}
      BY <1>3 DEF Gate!WriteProof, Gate!MayWriteProof
    <2>. QED
      BY <2>1 DEF Compiled
  <1>4. ASSUME NEW m \in {"compact", "full"},
               \/ Gate!AssessmentComplete(m) \/ Gate!ResearchComplete \/ Gate!Escalate
               \/ Gate!ProofSubmitted \/ Gate!RepairSubmitted
        PROVE  Compiled'
    <2>1. /\ proofRun.state \in Gate!Tasks /\ UNCHANGED proofRf
          /\ proofRun'.state \in {"explore", "assemble", "latex_validate"}
      BY <1>4, GateTransitions DEF Gate!AssessmentComplete, Gate!ResearchComplete, Gate!Escalate,
         Gate!ProofSubmitted, Gate!RepairSubmitted, Gate!Commit, Gate!Acting, Gate!Tasks
    <2>. QED
      BY <2>1 DEF Compiled, Gate!Tasks
  <1>5. CASE Gate!VerificationSubmitted
    BY <1>5, GateJudging DEF Compiled
  <1>6. CASE Gate!Cancel
    <2>1. proofRun' = [proofRun EXCEPT !.state = "cancelled"] /\ UNCHANGED proofRf /\ proofRun \in Gate!RunRecords
      BY <1>6, GateTypes DEF Gate!Cancel, GateInv
    <2>2. proofRun'.state = "cancelled"
      BY <2>1, GateRows DEF Gate!States
    <2>. QED
      BY <2>1, <2>2 DEF Compiled
  <1>7. CASE Gate!Crash
    <2>1. proofRf' = [t \in Refreshers |-> Gate!Resting] /\ UNCHANGED <<proofRun, proofDraft>>
      BY <1>7 DEF Gate!Crash
    <2>. QED
      BY <2>1, GateConstants DEF Compiled
  <1>8. CASE UNCHANGED Gate!vars
    BY <1>8 DEF Gate!vars, Compiled
  <1>. QED
    BY <1>1, <1>2, <1>3, <1>4, <1>5, <1>6, <1>7, <1>8 DEF Gate!Next

(* One exact proof passed the compiler and the verifier and is published,  *)
(* when one refresh at a time is in the gate, or the compiler does not     *)
(* tell proofs apart: the run proof_aba shows what happens otherwise       *)
(* (complete_latex_gate, finalize).                                        *)
THEOREM PublishedAlwaysCompiles == ASSUME GateAlone PROVE Gate!Spec => []PublishedCompiles
  <1>1. Gate!Init => GateInv /\ Compiled
    BY GateInitial
  <1>2. GateInv /\ Compiled /\ [Gate!Next]_Gate!vars => (GateInv /\ Compiled)'
    BY GateNext, CompiledStays
  <1>3. GateInv /\ Compiled => PublishedCompiles
    BY DEF GateInv, GateFiles, Compiled, PublishedCompiles, Gate!PublishedCompiles
  <1>. QED
    BY <1>1, <1>2, <1>3, PTL DEF Gate!Spec

(* Steps of the gate as the pipeline sees them.                            *)
LEMMA PipelineSteps ==
    ASSUME GateAlone, GateInv, Compiled, [Gate!Next]_Gate!vars
    PROVE  [Gate!Pipeline!Next]_Gate!Pipeline!vars
  <1>0. proofRun \in Gate!RunRecords /\ proofDraft \in Gate!Drafts /\ Compiles \subseteq Proofs
    BY GateTypes, GateConstants DEF GateInv
  <1>1. ASSUME UNCHANGED <<proofRun, proofDraft>>, proofRun.state = "done" => final' = final
        PROVE  UNCHANGED Gate!Pipeline!vars
    BY <1>1 DEF Gate!Pipeline!vars, Gate!Phase, Gate!Paper
  <1>2. ASSUME NEW t \in Refreshers, NEW passed \in BOOLEAN, Gate!CompleteGate(t, passed)
        PROVE  [Gate!Pipeline!Next]_Gate!Pipeline!vars
    <2>1. CASE UNCHANGED <<proofRun, proofDraft, final>>
      BY <1>1, <2>1
    <2>2. CASE proofRun.state = "latex_validate" /\ proofRun'.state = "verify" /\ proofDraft \in Compiles /\ proofDraft' = proofDraft
      BY <1>0, <2>2 DEF Gate!Phase, Gate!Paper, Gate!Pipeline!Next, Gate!Pipeline!Check
    <2>3. CASE proofRun.state = "latex_validate" /\ proofRun'.state = "repair"
      BY <2>3 DEF Gate!Phase, Gate!Paper, Gate!Pipeline!vars
    <2>. QED
      BY <1>2, <2>1, <2>2, <2>3, CompilingKeeps
  <1>3. ASSUME NEW t \in Refreshers, Gate!CompleteFinalize(t) PROVE [Gate!Pipeline!Next]_Gate!Pipeline!vars
    <2>1. UNCHANGED <<proofDraft, final>> /\ final # NoProof /\ final = proofDraft
      BY <1>3 DEF Gate!CompleteFinalize, Gate!At, GateInv, GateThread, GateFiles
    <2>2. \/ proofRun' = proofRun
          \/ proofRun.state = "finalize" /\ proofRun'.state = "done"
      BY <1>0, <1>3, GateRows DEF Gate!CompleteFinalize, Gate!States
    <2>3. CASE proofRun' = proofRun
      BY <1>1, <2>1, <2>3
    <2>4. CASE proofRun.state = "finalize" /\ proofRun'.state = "done"
      BY <2>1, <2>4 DEF Gate!Phase, Gate!Paper, Gate!Pipeline!Next, Gate!Pipeline!Publish
    <2>. QED
      BY <2>2, <2>3, <2>4
  <1>4. ASSUME NEW t \in Refreshers, Gate!PublishFinal(t) PROVE UNCHANGED Gate!Pipeline!vars
    <2>1. UNCHANGED <<proofRun, proofDraft>> /\ (final' = final \/ final' = proofDraft)
      BY <1>4 DEF Gate!PublishFinal
    <2>2. proofRun.state = "done" => final = proofDraft
      BY DEF GateInv, GateFiles
    <2>. QED
      BY <1>1, <2>1, <2>2
  <1>5. ASSUME NEW p \in Proofs, Gate!WriteProof(p) PROVE UNCHANGED Gate!Pipeline!vars
    BY <1>5 DEF Gate!WriteProof, Gate!MayWriteProof, Gate!Phase, Gate!Paper, Gate!Pipeline!vars
  <1>6. ASSUME NEW m \in {"compact", "full"},
               \/ Gate!AssessmentComplete(m) \/ Gate!ResearchComplete \/ Gate!Escalate
               \/ Gate!ProofSubmitted \/ Gate!RepairSubmitted
        PROVE  UNCHANGED Gate!Pipeline!vars
    <2>1. /\ proofRun'.state \in {"explore", "assemble", "latex_validate"}
          /\ proofRun.state \in {"assess", "explore", "assemble", "repair"}
      BY <1>6, GateTransitions DEF Gate!AssessmentComplete, Gate!ResearchComplete, Gate!Escalate,
         Gate!ProofSubmitted, Gate!RepairSubmitted, Gate!Acting
    <2>. QED
      BY <2>1 DEF Gate!Phase, Gate!Paper, Gate!Pipeline!vars
  <1>7. CASE Gate!VerificationSubmitted
    <2>1. /\ proofRun.state = "verify" /\ proofRun'.state \in {"finalize", "explore", "repair"}
          /\ UNCHANGED <<proofDraft, final>>
      BY <1>7, GateJudging
    <2>. QED
      BY <2>1 DEF Gate!Phase, Gate!Paper, Gate!Pipeline!Next, Gate!Pipeline!Approve, Gate!Pipeline!Reject
  <1>8. CASE Gate!Cancel
    <2>1. proofRun' = [proofRun EXCEPT !.state = "cancelled"] /\ proofRun.state \notin {"done", "cancelled"}
      BY <1>8 DEF Gate!Cancel
    <2>2. proofRun'.state = "cancelled"
      BY <1>0, <2>1, GateRows DEF Gate!States
    <2>3. Gate!Phase \notin {"published", "dropped"} /\ Gate!Phase' = "dropped" /\ Gate!Paper' = NoProof
      BY <1>0, <2>1, <2>2 DEF Gate!Phase, Gate!Paper
    <2>. QED
      BY <2>3 DEF Gate!Pipeline!Next, Gate!Pipeline!Drop
  <1>9. CASE UNCHANGED <<proofRun, proofDraft, final>>
    BY <1>1, <1>9
  <1>. QED
    BY <1>2, <1>3, <1>4, <1>5, <1>6, <1>7, <1>8, <1>9
    DEF Gate!Next, Gate!Refresh, Gate!vars, Gate!ReadRun, Gate!CheckPending, Gate!Dispatch, Gate!ReadProof,
        Gate!IssuePermit, Gate!Submit, Gate!Settle, Gate!WriteReport, Gate!Judge, Gate!Crash

(* The paper that passed the compiler is the one that is judged, and the   *)
(* one that was approved is the one that is published (advance_mechanical, *)
(* commit_verification_submitted, finalize).                               *)
THEOREM GateIsPipeline == ASSUME GateAlone PROVE Gate!Spec => ImplementsPipeline
  <1>1. Gate!Init => GateInv /\ Compiled
    BY GateInitial
  <1>2. Gate!Init => Gate!Pipeline!Init
    BY GateConstants DEF Gate!Init, Gate!Pipeline!Init, Gate!Phase, Gate!Paper
  <1>3. GateInv /\ Compiled /\ [Gate!Next]_Gate!vars => (GateInv /\ Compiled)'
    BY GateNext, CompiledStays
  <1>4. GateInv /\ Compiled /\ [Gate!Next]_Gate!vars => [Gate!Pipeline!Next]_Gate!Pipeline!vars
    BY PipelineSteps
  <1>. QED
    BY <1>1, <1>2, <1>3, <1>4, PTL DEF Gate!Spec, ImplementsPipeline, Gate!ImplementsPipeline, Gate!Pipeline!Spec

-----------------------------------------------------------------------------
(* The parts side by side: a behaviour of all is one of each.              *)

LEMMA PartsApart == RoundsSpec => Spec /\ Gate!Spec /\ EvidenceSpec /\ AccessSpec /\ RegistrySpec
  <1> DEFINE Step == [RoundsNext]_<<focus, vars, gateVars, registryVars, evidenceVars, accessVars>>
  <1>1. RoundsInit => Init /\ Gate!Init /\ EvidenceInit /\ AccessInit /\ RegistryInit
    BY DEF RoundsInit
  <1>2. ASSUME UNCHANGED gateVars PROVE UNCHANGED Gate!vars
    BY <1>2 DEF gateVars, Gate!vars
  <1>3. Step => [Next]_vars
    BY DEF RoundsNext
  <1>4. Step => [Gate!Next]_Gate!vars
    BY <1>2 DEF RoundsNext
  <1>5. Step => [EvidenceNext]_evidenceVars
    BY DEF RoundsNext
  <1>6. Step => [AccessNext]_accessVars
    BY DEF RoundsNext
  <1>7. Step => [RegistryNext]_registryVars
    BY DEF RoundsNext
  <1>. QED
    BY <1>1, <1>3, <1>4, <1>5, <1>6, <1>7, PTL
    DEF RoundsSpec, Spec, Gate!Spec, EvidenceSpec, AccessSpec, RegistrySpec

(* With one refresh at a time the rounds never wedge, a solved branch is   *)
(* never lost and the join sees every branch, in any number of rounds of   *)
(* any number of plans; a preparation can always be repeated               *)
(* (advance_mechanical, ensure_domain, prepare_branch_round).              *)
THEOREM RoundsAlwaysSound ==
    ASSUME RoundAssumption, AccessAssumption, SourceAssumption, OneAtATime
    PROVE  RoundsSpec => []RoundsSound
  <1>1. Spec => [](TypeOK /\ NeverWedged /\ SolvedRoundKept /\ JoinCoversRound)
    <2>1. RoundInv /\ SoloInv => TypeOK /\ NeverWedged /\ SolvedRoundKept /\ JoinCoversRound
      <3>1. RoundInv => TypeOK
        BY DEF RoundInv, StoreOK, StoreType, SubmissionOK, TokenOK, TypeOK
      <3>. QED
        BY <3>1, SomeBranch DEF SoloInv
    <2>. QED
      BY <2>1, SoloHolds, PTL
  <1>2. Gate!Spec => []Gate!TypeOK
    <2>1. GateInv => Gate!TypeOK
      BY DEF GateInv
    <2>. QED
      BY <2>1, GateHolds, PTL
  <1>3. EvidenceSpec => []EvidenceTypeOK
    BY EvidenceTyped
  <1>4. AccessSpec => [](AccessTypeOK /\ PreparationRepeats)
    BY AccessTyped, PreparationAlwaysRepeats, PTL
  <1>5. /\ TypeOK /\ NeverWedged /\ SolvedRoundKept /\ JoinCoversRound
        /\ Gate!TypeOK /\ EvidenceTypeOK /\ AccessTypeOK /\ PreparationRepeats
        => RoundsSound
    BY DEF RoundsSound
  <1>. QED
    BY <1>1, <1>2, <1>3, <1>4, <1>5, PartsApart, PTL

(* No revocation falls between a proof's preparation and its promotion and *)
(* no revision made while a run worked is lost, for any number of runs,    *)
(* claims and revocations; a source is registered once                     *)
(* (insert_promoted_facts, promote_run_inner, register_reference).         *)
THEOREM RegistrySoundAlways == ASSUME IsFiniteSet(Given) PROVE RoundsSpec => []RegistrySound
  <1>1. RestsOnStanding /\ LineOfRevisions /\ SourcesOnce => RegistrySound
    BY DEF RegistrySound
  <1>. QED
    BY <1>1, RegistryAlwaysSound, SourcesAlwaysOnce, PartsApart, PTL

(* Hypotheses, findings and views stay true to the facts, for any number   *)
(* of runs, findings, revocations and views and any budget                 *)
(* (effective_conditions, revoke_project_fact, project_memory_view).       *)
THEOREM FindingsSoundAlways == RoundsSpec => []FindingsSound
  <1>1. HypothesesKept /\ VerifiedStands /\ ViewComplete => FindingsSound
    BY DEF FindingsSound
  <1>. QED
    BY <1>1, FindingsAlwaysStand, PartsApart, PTL
=============================================================================
