---------------------------- MODULE FactRegistry ----------------------------
(***************************************************************************)
(* The claims of a project, their revisions, the facts of verified proofs  *)
(* and the findings of runs (store.rs, fact_memory.rs, memory.rs and the   *)
(* promotion of a finished run in engine.rs).                              *)
(*                                                                         *)
(* A fact's identity is a digest of its statement and predecessors, so a   *)
(* fact here is that content.  Every run registers its result for a claim  *)
(* whose statement is the claim itself, and its proof may state one lemma  *)
(* first.  Texts, hashes, owners, snapshots' digests and the note of the   *)
(* promotion in the run's metadata are left out.  An immediate transaction *)
(* is one step; what is read outside of it is a step of its own.           *)
(***************************************************************************)
EXTENDS Integers, FiniteSets, SequencesExt

CONSTANTS
    Claims, Lemmas, Hypotheses,
    Provers,               \* the runs
    Promoters, NoRun,      \* callers of next_task that retry a promotion
    NodeBudget, NewestFacts,   \* eight facts of a view, 512 candidates
    MaxOwnerRevisions, MaxRevocations, MaxViews  \* bounds

ASSUME RegistryAssumption == NodeBudget \in Nat \ {0} /\ NewestFacts \in Nat \ {0}

VARIABLES
    facts,         \* the facts, oldest first
    revoked,       \* fact_revocations
    revisions,     \* claim_revisions
    proofs,        \* project_runs with the manifest: one per run
    findings,      \* the last status of each finding
    promotions,    \* what each caller is doing
    view,          \* the memory view being assembled, or the last one
    revocations, views, moment   \* bounds; the revoked facts when the view read its candidates

registryVars == <<facts, revoked, revisions, proofs, findings, promotions, view, revocations, views, moment>>

Fact(s, on) == [states |-> s, on |-> on]
Known == Range(facts)
Standing == Known \ revoked
NoFact == Fact("none", {})

Newest(rows) == CHOOSE v \in rows : \A w \in rows : w.number <= v.number
NoRevision == [claim |-> "none", number |-> 0]
NoManifest == [lemma |-> "none", lemmaCites |-> {}, cites |-> {}, deps |-> {}, hypotheses |-> {}]
Id(v) == [claim |-> v.claim, number |-> v.number]
RowOf(id) == CHOOSE v \in revisions : Id(v) = id
ActiveRows(c) == {v \in revisions : v.claim = c /\ v.active}
CurrentId(c) == IF ActiveRows(c) = {} THEN NoRevision ELSE Id(Newest(ActiveRows(c)))

(* evidence_status: OPEN, VERIFIED or CONDITIONAL.                         *)
Proved(v) == v.run # NoRun

Planned(r) == proofs[r].stage

RegistryInit ==
    /\ facts = <<>> /\ revoked = {} /\ revisions = {}
    /\ proofs = [r \in Provers |-> [stage |-> "none"]]
    /\ findings = [f \in Provers \X Lemmas |-> [status |-> "none", fact |-> NoFact]]
    /\ promotions = [p \in Promoters |-> [at |-> "idle"]]
    /\ view = [at |-> "none"] /\ moment = {}
    /\ revocations = 0 /\ views = 0

(* A new active revision takes the place of the one it was made from.      *)
Replace(c, row) ==
    LET n == CurrentId(c).number + 1 IN
    {IF v.claim = c /\ v.active /\ Id(v) = CurrentId(c) THEN [v EXCEPT !.active = FALSE] ELSE v : v \in revisions}
        \cup {[row EXCEPT !.number = n]}

Row(c, hypotheses, fact, r, deps) ==
    [claim |-> c, number |-> 0, active |-> TRUE, hypotheses |-> hypotheses, fact |-> fact, run |-> r, deps |-> deps]

(* create_open_claim_revision, by the owner.                               *)
ReviseClaim(c) ==
    /\ Cardinality({v \in revisions : ~Proved(v)}) < MaxOwnerRevisions
    /\ revisions' = Replace(c, Row(c, {}, NoFact, NoRun, {}))
    /\ UNCHANGED <<facts, revoked, proofs, findings, promotions, view, revocations, views, moment>>

(* A run starts: the snapshot of the project, then the revision it is to   *)
(* replace, which another call may have made in between.                   *)
TakeSnapshot(r, c) ==
    /\ Planned(r) = "none"
    /\ proofs' = [proofs EXCEPT ![r] =
         [stage |-> "snapshot", claim |-> c, snapshot |-> {Id(v) : v \in {w \in revisions : Proved(w)}}]]
    /\ UNCHANGED <<facts, revoked, revisions, findings, promotions, view, revocations, views, moment>>

Link(r) ==
    /\ Planned(r) = "snapshot"
    /\ proofs' = [proofs EXCEPT ![r] =
         [stage |-> "linked", claim |-> @.claim, snapshot |-> @.snapshot, base |-> CurrentId(@.claim),
          outcome |-> "none", revision |-> NoRevision, manifest |-> NoManifest]]
    /\ UNCHANGED <<facts, revoked, revisions, findings, promotions, view, revocations, views, moment>>

(* persist_project_findings, after a transition or before a task's view.   *)
Find(r, l) ==
    /\ Planned(r) \in {"linked", "done"}
    /\ findings[<<r, l>>].status = "none"
    /\ findings' = [findings EXCEPT ![<<r, l>>].status = "active"]
    /\ UNCHANGED <<facts, revoked, revisions, proofs, promotions, view, revocations, views, moment>>

(* prepare_verified_facts: the lemma, which rests on facts cited by their  *)
(* identifiers, then the target, which rests on the lemma, on such facts   *)
(* and on the facts of the revisions the proof depends on.                 *)
Lemma(m) == Fact(m.lemma, m.lemmaCites)
Batch(m, claim) ==
    LET on == {RowOf(d).fact : d \in m.deps} \cup m.cites IN
    IF m.lemma = "none" THEN <<Fact(claim, on)>>
    ELSE <<Lemma(m), Fact(claim, on \cup {Lemma(m)})>>

Preparable(m, known) ==
    /\ \A d \in m.deps : RowOf(d).fact \in known
    /\ m.cites \subseteq known /\ m.lemmaCites \subseteq known

(* The proof is submitted, its manifest prepared once, and it is verified. *)
Prove(r, m) ==
    /\ Planned(r) = "linked"
    /\ m.deps \subseteq proofs[r].snapshot
    /\ Preparable(m, Standing)
    /\ proofs' = [proofs EXCEPT ![r].stage = "done", ![r].manifest = m]
    /\ UNCHANGED <<facts, revoked, revisions, findings, promotions, view, revocations, views, moment>>

(* The hypotheses of the proof and of the revisions it depends on.         *)
EffectiveConditions(m) == m.hypotheses \cup UNION {RowOf(d).hypotheses : d \in m.deps}

Leave(p) == promotions' = [promotions EXCEPT ![p] = [at |-> "idle"]]

(* retry_pending_registry_promotion up to the call of the store; a         *)
(* manifest that cannot be prepared leaves the promotion for a later call. *)
Prepare(p, r) ==
    /\ promotions[p].at = "idle"
    /\ Planned(r) = "done"
    /\ proofs[r].outcome = "none"
    /\ Preparable(proofs[r].manifest, Standing)
    /\ promotions' = [promotions EXCEPT ![p] =
         [at |-> "prepared", run |-> r, batch |-> Batch(proofs[r].manifest, proofs[r].claim)]]
    /\ UNCHANGED <<facts, revoked, revisions, proofs, findings, view, revocations, views, moment>>

(* promote_run_inner before its transaction.                               *)
Inspect(p) ==
    /\ promotions[p].at = "prepared"
    /\ LET run == proofs[promotions[p].run] IN
       \/ run.revision # NoRevision /\ Leave(p)
       \/ /\ run.revision = NoRevision
          /\ promotions' = [promotions EXCEPT ![p].at =
                IF CurrentId(run.claim) = run.base THEN "agreed" ELSE "differs"]
    /\ UNCHANGED <<facts, revoked, revisions, proofs, findings, view, revocations, views, moment>>

WriteConflict(p) ==
    /\ promotions[p].at = "differs"
    /\ proofs' = [proofs EXCEPT ![promotions[p].run].outcome = "conflict"]
    /\ Leave(p)
    /\ UNCHANGED <<facts, revoked, revisions, findings, view, revocations, views, moment>>

(* insert_promoted_facts, one after another: predecessors that stand, an   *)
(* existing fact that is not revoked.                                      *)
Insertable(f, before) ==
    /\ f.on \subseteq (Standing \cup before)
    /\ f \notin revoked

Insertables(batch) ==
    \A i \in DOMAIN batch : Insertable(batch[i], {batch[j] : j \in 1..(i - 1)})

Fresh(f) == IF f \in Known THEN <<>> ELSE <<f>>
NewFacts(batch) == IF Len(batch) = 1 THEN Fresh(batch[1]) ELSE Fresh(batch[1]) \o Fresh(batch[2])

(* verify_matching_findings: the run's findings that a fact states.        *)
Matched(r, batch) ==
    [f \in DOMAIN findings |->
        IF f[1] = r /\ findings[f].status \notin {"none", "verified"} /\ \E i \in DOMAIN batch : batch[i].states = f[2]
        THEN [status |-> "verified", fact |-> batch[CHOOSE i \in DOMAIN batch : batch[i].states = f[2]]]
        ELSE findings[f]]

(* Mutant of Agrees: the revision was compared before the transaction.     *)
AgreedBefore(r) == TRUE

(* The transaction: it looks at the active revision again, and takes back  *)
(* everything when a fact cannot be inserted.                              *)
Agrees(r) == CurrentId(proofs[r].claim) = proofs[r].base

Promote(p) ==
    LET r == promotions[p].run
        batch == promotions[p].batch
        m == proofs[r].manifest
        row == Row(proofs[r].claim, EffectiveConditions(m), batch[Len(batch)], r, m.deps)
    IN
    /\ promotions[p].at = "agreed"
    /\ Leave(p)
    /\ \/ /\ ~Agrees(r)
          /\ proofs' = [proofs EXCEPT ![r].outcome = "conflict"]
          /\ UNCHANGED <<facts, revisions, findings>>
       \/ /\ Agrees(r) /\ ~Insertables(batch)
          /\ UNCHANGED <<facts, revisions, findings, proofs>>
       \/ /\ Agrees(r) /\ Insertables(batch)
          /\ facts' = facts \o NewFacts(batch)
          /\ findings' = Matched(r, batch)
          /\ revisions' = Replace(proofs[r].claim, row)
          /\ proofs' = [proofs EXCEPT ![r].outcome = "promoted",
                 ![r].revision = [claim |-> proofs[r].claim, number |-> CurrentId(proofs[r].claim).number + 1]]
    /\ UNCHANGED <<revoked, view, revocations, views, moment>>

(* The process dies between two steps of a promotion.                      *)
Forget(p) ==
    /\ promotions[p].at # "idle"
    /\ Leave(p)
    /\ UNCHANGED <<facts, revoked, revisions, proofs, findings, view, revocations, views, moment>>

(* Everything that rests on a fact, it included: the recursive query, a    *)
(* least fixed point reached within as many rounds as there are facts.     *)
Grown(s) == s \cup {f \in Known : f.on \cap s # {}}
Descendants(f) ==
    LET rounds[n \in 0..Len(facts)] == IF n = 0 THEN {f} ELSE Grown(rounds[n - 1])
    IN rounds[Len(facts)]

(* Mutant of Superseded: the findings of revoked facts are left.           *)
LeftFindings(gone) == findings

Superseded(gone) ==
    [x \in DOMAIN findings |->
        IF findings[x].status = "verified" /\ findings[x].fact \in gone
        THEN [status |-> "superseded", fact |-> NoFact] ELSE findings[x]]

(* revoke_project_fact, by the operator's own process.                     *)
Revoke(f) ==
    /\ revocations < MaxRevocations
    /\ revocations' = revocations + 1
    /\ revoked' = revoked \cup Descendants(f)
    /\ findings' = Superseded(Descendants(f) \ revoked)
    /\ UNCHANGED <<facts, revisions, proofs, promotions, view, views, moment>>

(* project_memory_view: the newest facts that stand, then, at a later      *)
(* moment, what they rest on.                                              *)
Candidates ==
    LET standing == {i \in DOMAIN facts : facts[i] \notin revoked}
        newest == {i \in standing : Cardinality({j \in standing : i < j}) < NewestFacts}
    IN  {facts[i] : i \in newest}

ReadCandidates ==
    /\ view.at = "none" /\ views < MaxViews /\ facts # <<>>
    /\ views' = views + 1
    /\ view' = [at |-> "reading", candidates |-> Candidates]
    /\ moment' = revoked
    /\ UNCHANGED <<facts, revoked, revisions, proofs, findings, promotions, revocations>>

Below(f) ==
    LET rounds[n \in 0..Len(facts)] ==
            IF n = 0 THEN {f} ELSE rounds[n - 1] \cup UNION {g.on : g \in rounds[n - 1]}
    IN rounds[Len(facts)]

(* The candidates in the order of their rank, each with all it rests on if *)
(* that still fits.                                                        *)
SelectedNodes(rank) ==
    LET chosen[n \in 0..Len(rank)] ==
            IF n = 0 THEN {}
            ELSE IF Cardinality(chosen[n - 1] \cup Below(rank[n])) <= NodeBudget
            THEN chosen[n - 1] \cup Below(rank[n])
            ELSE chosen[n - 1]
    IN chosen[Len(rank)]

(* A predecessor that is no candidate is read on its own; if it has been   *)
(* revoked meanwhile the view fails, and so does the call.                 *)
AssembleView(rank) ==
    /\ view.at = "reading"
    /\ IF \E f \in view.candidates : (Below(f) \ view.candidates) \cap revoked # {}
       THEN view' = [at |-> "failed"]
       ELSE view' = [at |-> "shown", candidates |-> view.candidates, nodes |-> SelectedNodes(rank)]
    /\ UNCHANGED <<facts, revoked, revisions, proofs, findings, promotions, revocations, views, moment>>

AnswerView ==
    /\ view.at \in {"shown", "failed"}
    /\ view' = [at |-> "none"] /\ moment' = {}
    /\ UNCHANGED <<facts, revoked, revisions, proofs, findings, promotions, revocations, views>>

(* The manifests whose cases differ.                                       *)
Manifests ==
    LET cited == {s \in SUBSET Standing : Cardinality(s) <= 1} IN
    [lemma : {"none"}, lemmaCites : {{}}, cites : cited, deps : SUBSET {Id(v) : v \in revisions}, hypotheses : SUBSET Hypotheses]
    \cup [lemma : Lemmas, lemmaCites : cited, cites : {{}}, deps : SUBSET {Id(v) : v \in revisions}, hypotheses : {{}}]

RegistryNext ==
    \/ \E c \in Claims : ReviseClaim(c)
    \/ \E r \in Provers : \/ \E c \in Claims : TakeSnapshot(r, c)
                          \/ Link(r)
                          \/ \E l \in Lemmas : Find(r, l)
                          \/ /\ Planned(r) = "linked"
                             /\ \E m \in Manifests : Prove(r, m)
    \/ \E p \in Promoters : \/ \E r \in Provers : Prepare(p, r)
                            \/ Inspect(p) \/ WriteConflict(p) \/ Promote(p) \/ Forget(p)
    \/ \E f \in Known : Revoke(f)
    \/ ReadCandidates
    \/ AnswerView
    \/ view.at = "reading" /\ \E rank \in SetToSeqs(view.candidates) : AssembleView(rank)

RegistrySpec == RegistryInit /\ [][RegistryNext]_registryVars

-----------------------------------------------------------------------------
(* A fact that stands rests on facts that stand, all the way down, and a   *)
(* proved claim's fact rests on those of the revisions it depends on: no   *)
(* revocation can fall between the preparation and the promotion of a      *)
(* proof (fact_memory.rs: insert_promoted_facts).                          *)
RestsOnStanding ==
    /\ \A f \in Standing : Below(f) \subseteq Standing
    /\ \A v \in revisions : v.fact \in Standing => \A d \in v.deps : RowOf(d).fact \in Standing

(* The revisions of a claim follow each other, the last one active, and a  *)
(* run that is promoted replaced exactly the revision it started from, so  *)
(* no revision made while it ran is lost (store.rs: promote_run_inner).    *)
LineOfRevisions ==
    /\ \A c \in Claims :
         LET rows == {v \in revisions : v.claim = c} IN
         /\ {v.number : v \in rows} = 1..Cardinality(rows)
         /\ \A v \in rows : v.active <=> v.number = Cardinality(rows)
    /\ \A v \in revisions : Proved(v) =>
         /\ v.number = proofs[v.run].base.number + 1
         /\ \A w \in revisions : w.run = v.run => w = v

(* A promoted revision carries every hypothesis of what its proof depends  *)
(* on through the manifest, directly or not (engine.rs: effective_conditions). *)
HypothesesKept ==
    \A v \in revisions : Proved(v) => \A d \in v.deps : RowOf(d).hypotheses \subseteq v.hypotheses

(* A finding that reads verified names a fact that states it and stands:   *)
(* a revocation of what the fact rests on reaches the finding too          *)
(* (fact_memory.rs: revoke_project_fact).                                  *)
VerifiedStands ==
    \A x \in DOMAIN findings : findings[x].status = "verified" =>
        findings[x].fact \in Standing /\ findings[x].fact.states = x[2]

(* What a task is shown of the facts is within the budget, never a part of *)
(* what a fact rests on, nothing that had been revoked when the facts were *)
(* read, and nothing that would still fit is left out                      *)
(* (engine.rs: project_memory_view).                                       *)
ViewComplete ==
    view.at = "shown" =>
        /\ Cardinality(view.nodes) <= NodeBudget
        /\ \A f \in view.nodes : f.on \subseteq view.nodes
        /\ view.nodes \cap moment = {}
        /\ \A f \in view.candidates \ view.nodes : Cardinality(view.nodes \cup Below(f)) > NodeBudget
=============================================================================
