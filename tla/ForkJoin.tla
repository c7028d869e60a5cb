------------------------------ MODULE ForkJoin ------------------------------
(***************************************************************************)
(* What a branch round promises, with no refreshes, tokens, domains or     *)
(* files: a round forks one branch per plan, every branch finishes at most *)
(* once with a result that never changes, and the join is reached only     *)
(* when every branch of the round has finished.                            *)
(***************************************************************************)
EXTENDS Naturals

CONSTANT Plans

VARIABLES phase, round, finished

vars == <<phase, round, finished>>

Results == {"solved", "failed"}
Unfinished == [p \in Plans |-> "none"]

Init == phase = "idle" /\ round = 0 /\ finished = Unfinished

Fork ==
    /\ phase = "idle" /\ phase' = "forked"
    /\ round' = round + 1
    /\ finished' = Unfinished

Finish(p, r) ==
    /\ phase = "forked" /\ finished[p] = "none"
    /\ finished' = [finished EXCEPT ![p] = r]
    /\ \/ phase' = "forked"
       \/ phase' = "joined" /\ \A q \in Plans : finished'[q] # "none"
    /\ UNCHANGED round

(* The join is evaluated and the round is over.                            *)
Leave ==
    /\ phase = "joined" /\ phase' = "idle"
    /\ UNCHANGED <<round, finished>>

Drop ==
    /\ phase # "over" /\ phase' = "over"
    /\ UNCHANGED <<round, finished>>

Next == Fork \/ (\E p \in Plans, r \in Results : Finish(p, r)) \/ Leave \/ Drop

Spec == Init /\ [][Next]_vars
=============================================================================
