-------------------------- MODULE MCStepSubmission --------------------------
(***************************************************************************)
(* Instances of StepSubmission.  One logical file and one content are      *)
(* enough: an append always changes the file, a second overwrite leaves    *)
(* its bytes equal.                                                        *)
(***************************************************************************)
EXTENDS StepSubmission, TLC

CONSTANTS c1, c2, w1, w2, w3, f1, b1

AppendRecord == [kind |-> "file", path |-> f1, append |-> TRUE, bytes |-> b1]
Overwrite    == [kind |-> "file", path |-> f1, append |-> FALSE, bytes |-> b1]
Database     == [kind |-> "database"]
Opaque       == [kind |-> "opaque"]

Request(writes, action) == [writes |-> writes, action |-> action]

CrashRequests  == {Request(<<Overwrite>>, "restartable")}
RaceRequests   == {Request(<<AppendRecord>>, "atomic"),
                   Request(<<Database>>, "partial"),
                   Request(<<Opaque>>, "partial")}

ThreadSymmetry == Permutations(Workers)
Symmetry == ThreadSymmetry \cup Permutations(Caps)
=============================================================================
