------------------------------ MODULE MCRounds ------------------------------
(***************************************************************************)
(* The research rounds of a run, its proof gates, the evidence its proof   *)
(* is approved on, what its tasks are shown and the registry its result    *)
(* goes to, checked side by side: a behaviour chooses at the start which   *)
(* part it is about.  The parts share constants, no state.                 *)
(***************************************************************************)
EXTENDS BranchRound, TaskAccess, SourceAudits, FactRegistry, TLC

CONSTANTS
    Proofs, Compiles, NoProof,
    Parts    \* the parts an instance is about

VARIABLES
    focus,
    proofRun, proofDraft, proofReport, final, proofSub, proofRf

Gate == INSTANCE ProofGate WITH
    run <- proofRun, sub <- proofSub, rf <- proofRf, draft <- proofDraft, report <- proofReport

ASSUME GateAssumption == Gate!ProofAssumption
ASSUME EvidenceHolds == SourceAssumption
ASSUME AccessHolds == AccessAssumption

gateVars == <<proofRun, proofDraft, proofReport, final, proofSub, proofRf>>

RoundsInit ==
    /\ focus \in Parts
    /\ Init /\ Gate!Init /\ RegistryInit /\ EvidenceInit /\ AccessInit

RoundsNext ==
    /\ UNCHANGED focus
    /\ \/ focus = "rounds" /\ Next /\ UNCHANGED <<gateVars, registryVars, evidenceVars, accessVars>>
       \/ focus = "gate" /\ Gate!Next /\ UNCHANGED <<vars, registryVars, evidenceVars, accessVars>>
       \/ /\ focus = "registry" /\ RegistryNext
          /\ UNCHANGED <<vars, gateVars, evidenceVars, accessVars>>
       \/ /\ focus = "evidence" /\ EvidenceNext
          /\ UNCHANGED <<vars, gateVars, registryVars, accessVars>>
       \/ /\ focus = "access" /\ AccessNext
          /\ UNCHANGED <<vars, gateVars, registryVars, evidenceVars>>

RoundsSpec ==
    RoundsInit /\ [][RoundsNext]_<<focus, vars, gateVars, registryVars, evidenceVars, accessVars>>

(* The runs of a project are alike.                                        *)
RunSymmetry == Permutations(Provers)

(* The rounds never wedge, also not on a preparation that must be          *)
(* repeated; a solved round is kept and the join sees every branch         *)
(* (advance_mechanical, ensure_domain, prepare_branch_round).              *)
RoundsSound ==
    /\ TypeOK /\ Gate!TypeOK /\ EvidenceTypeOK /\ AccessTypeOK
    /\ NeverWedged /\ PreparationRepeats
    /\ SolvedRoundKept /\ JoinCoversRound

(* What is published as verified was accepted by the compiler (finalize).  *)
PublishedCompiles == Gate!PublishedCompiles

(* An approved run can always be finalized (finalize).                     *)
NeverDenied == Gate!NeverDenied

(* The paper that passed the compiler is the one that is judged, and the   *)
(* one that was approved is the one that is published (ProofPipeline).     *)
ImplementsPipeline == Gate!ImplementsPipeline

(* Facts that stand rest on facts that stand, no revision made while a run *)
(* worked is lost, and a source is registered once however many retrievals *)
(* find it (insert_promoted_facts, promote_run_inner, register_reference). *)
RegistrySound ==
    /\ focus = "registry" => RestsOnStanding /\ LineOfRevisions
    /\ SourcesOnce

(* A result carries the hypotheses of what it depends on, a finding stays  *)
(* verified as long as its fact stands, and a task is shown facts with all *)
(* they rest on (effective_conditions, revoke_project_fact,                *)
(* project_memory_view).                                                   *)
FindingsSound == focus = "registry" =>
    /\ HypothesesKept
    /\ VerifiedStands
    /\ ViewComplete
=============================================================================
