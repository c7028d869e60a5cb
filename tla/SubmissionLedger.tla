-------------------------- MODULE SubmissionLedger --------------------------
(***************************************************************************)
(* What the receipts of one run promise a client, with no threads, files   *)
(* or transactions: a ledger in which every submission is opened at most   *)
(* once, only one is open at a time, and the entry that closes it states   *)
(* exactly how many of its caller writes took effect and whether the run   *)
(* moved on.  A closed entry never changes.                                *)
(***************************************************************************)
EXTENDS Naturals

CONSTANT Submissions

VARIABLE ledger

Dispositions == {"applied", "correction"}

(* An entry: its status, the caller writes that took effect and the        *)
(* transitions the run made for it so far, and the reported outcome.       *)
Outcome(d, n, whole) == [disposition |-> d, writes |-> n, complete |-> whole]
NoOutcome == Outcome("none", 0, FALSE)

Entry(status, landed, moved, outcome) ==
    [status |-> status, landed |-> landed, moved |-> moved, outcome |-> outcome]
Absent == Entry("absent", 0, 0, NoOutcome)

Init == ledger = [s \in Submissions |-> Absent]

OpenEntry(s) ==
    /\ ledger[s] = Absent
    /\ \A t \in Submissions : ledger[t].status # "pending"
    /\ ledger' = [ledger EXCEPT ![s] = Entry("pending", 0, 0, NoOutcome)]

(* A caller write takes effect.                                            *)
Land(s) ==
    /\ ledger[s].status = "pending"
    /\ ledger' = [ledger EXCEPT ![s] = Entry("pending", @.landed + 1, 0, NoOutcome)]

(* The run moves on and the entry is closed, in one step.                  *)
Commit(s) ==
    /\ ledger[s].status = "pending"
    /\ ledger' = [ledger EXCEPT ![s] =
                     Entry("completed", @.landed, 1, Outcome("applied", @.landed, TRUE))]

(* The entry is closed and the run has not moved for it.                   *)
Close(s, d) ==
    /\ ledger[s].status = "pending"
    /\ ledger' = [ledger EXCEPT ![s] =
                     Entry("completed", @.landed, 0, Outcome(d, @.landed, FALSE))]

Next == \E s \in Submissions : \/ OpenEntry(s) \/ Land(s) \/ Commit(s)
                               \/ \E d \in Dispositions : Close(s, d)

Spec == Init /\ [][Next]_ledger
=============================================================================
