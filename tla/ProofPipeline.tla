---------------------------- MODULE ProofPipeline ---------------------------
(***************************************************************************)
(* What the two gates of a run promise, with no threads, files, metadata   *)
(* or tokens: one exact paper passes the compiler, then the verifier, and  *)
(* that same paper is published; a rejected one starts over.               *)
(***************************************************************************)
CONSTANTS Proofs, Compiles, NoProof

VARIABLES phase, paper

vars == <<phase, paper>>

Init == phase = "draft" /\ paper = NoProof

Check(p) ==
    /\ phase = "draft" /\ phase' = "checked"
    /\ p \in Compiles /\ paper' = p

Reject ==
    /\ phase = "checked" /\ phase' = "draft"
    /\ paper' = NoProof

Approve ==
    /\ phase = "checked" /\ phase' = "approved"
    /\ UNCHANGED paper

Publish ==
    /\ phase = "approved" /\ phase' = "published"
    /\ UNCHANGED paper

Drop ==
    /\ phase \notin {"published", "dropped"} /\ phase' = "dropped"
    /\ paper' = NoProof

Next == (\E p \in Proofs : Check(p)) \/ Reject \/ Approve \/ Publish \/ Drop

Spec == Init /\ [][Next]_vars
=============================================================================
