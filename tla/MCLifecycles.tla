---------------------------- MODULE MCLifecycles ----------------------------
(***************************************************************************)
(* The components with something that must eventually happen, checked side *)
(* by side: a behaviour chooses at the start the one that runs, and only   *)
(* that one's steps are fair.                                              *)
(***************************************************************************)
EXTENDS Creation, CommandManager

CONSTANTS
    Caps, Workers, Requests, Files, Bytes, Hazards, NoCap, NoRequest, NoFile, NoWorker

VARIABLES
    focus,
    run, caps, stepReceipt, ckpt, file, lock, wk, effects, moved

Steps == INSTANCE StepSubmission WITH receipt <- stepReceipt

stepVars == <<run, caps, stepReceipt, ckpt, file, lock, wk, effects, moved>>

vars == <<focus, creationVars, managerVars, stepVars>>

(* A submission without writes whose action may stop half-way.             *)
Submissions == {[writes |-> <<>>, action |-> "partial"]}

Init ==
    /\ focus \in {"creation", "commands", "steps"}
    /\ CreationInit /\ ManagerInit /\ Steps!Init
    /\ focus # "creation" => receipt = [k \in CreationKeys |-> NoReceipt]

Next ==
    /\ UNCHANGED focus
    /\ \/ focus = "creation" /\ CreationNext /\ UNCHANGED <<managerVars, stepVars>>
       \/ focus = "commands" /\ ManagerNext /\ UNCHANGED <<creationVars, stepVars>>
       \/ focus = "steps" /\ Steps!Next /\ UNCHANGED <<creationVars, managerVars>>

Fairness ==
    /\ \A t \in Starters :
        WF_vars(focus = "creation" /\ CreationStep(t) /\ UNCHANGED <<focus, managerVars, stepVars>>)
    /\ \A k \in CreationKeys : \A q \in CreationInputs :
        SF_vars(focus = "creation" /\ RetryOf(k, q) /\ UNCHANGED <<focus, managerVars, stepVars>>)
    /\ \A i \in CommandIds :
        /\ WF_vars(focus = "commands" /\ Watchdog(i) /\ UNCHANGED <<focus, creationVars, stepVars>>)
        /\ WF_vars(focus = "commands" /\ ChildDies(i) /\ UNCHANGED <<focus, creationVars, stepVars>>)
    /\ \A w \in Workers :
        WF_vars(focus = "steps" /\ Steps!Step(w) /\ UNCHANGED <<focus, creationVars, managerVars>>)

Spec == Init /\ [][Next]_vars /\ Fairness

(* Every call of rethlas_step is answered, whatever the others do (step).  *)
EveryCallReturns == Steps!EveryCallReturns
=============================================================================
