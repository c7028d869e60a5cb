--------------------------- MODULE ReleaseSwitch ---------------------------
(***************************************************************************)
(* What the deployment commands promise of the selectors, the paths a user *)
(* starts the program by: they change together, in one step, to a release  *)
(* or back to what they were before it.                                    *)
(***************************************************************************)
CONSTANTS Selectors, Releases, Originals

VARIABLES chosen, record     \* what each selector is; what the installation says of it

NoRecord == [state |-> "none"]

Active(v, before) == [state |-> "active", version |-> v, previous |-> before]

Holds ==
    \/ record.state = "none"
    \/ record.state = "active" /\ \A s \in Selectors : chosen[s] = record.version
    \/ record.state = "previous_active" /\ chosen = record.previous

SwitchInit == chosen \in [Selectors -> Originals] /\ record = NoRecord

Install(v) ==
    /\ Holds
    /\ chosen' = [s \in Selectors |-> v]
    /\ record' = Active(v, chosen)

Rollback ==
    /\ record.state = "active" /\ Holds
    /\ chosen' = record.previous
    /\ record' = [record EXCEPT !.state = "previous_active"]

(* The user replaces a selector.                                           *)
Replace ==
    /\ \E s \in Selectors : \E c \in Originals : chosen' = [chosen EXCEPT ![s] = c]
    /\ UNCHANGED record

SwitchNext == (\E v \in Releases : Install(v)) \/ Rollback \/ Replace

SwitchSpec == SwitchInit /\ [][SwitchNext]_<<chosen, record>>
=============================================================================
