---------------------------- MODULE SourceAudits ----------------------------
(***************************************************************************)
(* The sources a proof cites and the evidence it is approved on: the       *)
(* references a run registers, the retrievals that add to them, the        *)
(* verifier's audit of each, and the verdict.                              *)
(*                                                                         *)
(* Code: mtm-workflow engine.rs (retrieve, register_inline_references,     *)
(* normalize_proof_manifest, write_reference_audit,                        *)
(* commit_verification_submitted, commit_repair_submitted), mtm-storage    *)
(* store.rs and research_writes.rs (references_registry, source_snapshots, *)
(* proof_manifests, reference_audits).                                     *)
(*                                                                         *)
(* A retrieval holds no lock: its capability is checked before the         *)
(* provider is asked, what it found is registered item by item afterwards, *)
(* each item in three statements, and the record of the retrieval is       *)
(* appended last, to the memory of the role it was asked for.  The writes  *)
(* and the commit of a task belong to a submission and are fenced          *)
(* (StepSubmission).  The LaTeX gate is ProofGate's and passes here.       *)
(***************************************************************************)
EXTENDS Naturals, Sequences, FiniteSets

CONSTANTS
    Given,        \* identity keys of the references the owner supplied
    Papers,       \* identity keys of what a provider may return
    PaperProofs,  \* contents of draft/proof.tex
    NoDraft,
    Searchers,    \* threads that serve rethlas_retrieve
    Bases,        \* evidence_basis values an instance uses
    MaxSearches,  \* retrievals
    MaxSnapshots, \* stored sources
    MaxRejections \* rejected verifications

SourceAssumption ==
    /\ Bases \subseteq {"stored", "inspection", "derivation", "not_material", "unresolved"}
    /\ Given \cap Papers = {} /\ NoDraft \notin PaperProofs
    /\ {MaxSearches, MaxSnapshots, MaxRejections} \subseteq Nat
    /\ IsFiniteSet(Given) /\ Cardinality(Given) <= MaxSnapshots

Roles == [explore |-> "generator", repair |-> "repair", verify |-> "verifier"]
Accepting == {"SOURCE_VERIFIED", "INDEPENDENTLY_REDERIVED", "NOT_MATERIAL"}

VARIABLES
    stage,      \* the run's state
    rejections, \* verifications that ended "wrong"
    registry,   \* references_registry: the identity key of each row
    stored,     \* source_snapshots: [source, provider] of each row
    draft,      \* vault: draft/proof.tex
    manifest,   \* proof_manifests: the cited rows
    audits,     \* reference_audits: one row per source at most
    report,     \* vault: verification/verification.json, and the round it is of
    checked,    \* memory:verifier:statement_checks and :events are not empty
    rejected,   \* metadata last_verified_proof_sha256
    found,      \* the rows the retrieval records of a role name
    search,     \* the retrievals in flight
    searches

evidenceVars == <<stage, rejections, registry, stored, draft, manifest, audits, report, checked,
                  rejected, found, search, searches>>

paper == <<draft, manifest, report, checked, rejected>>

Sources == 1..Len(registry)
NoReport == [verdict |-> "none", round |-> 0]
NoAudit == [disposition |-> "none"]
NotSearching == [at |-> "idle"]

(* register_inline_references: the owner's references, each with its text  *)
(* stored.                                                                 *)
EvidenceInit ==
    /\ stage = "explore" /\ rejections = 0
    /\ registry \in {s \in [1..Cardinality(Given) -> Given] : \A k \in Given : \E i \in DOMAIN s : s[i] = k}
    /\ stored = [i \in 1..Len(registry) |-> [source |-> i, provider |-> "inline"]]
    /\ draft = NoDraft /\ manifest = {} /\ rejected = NoDraft
    /\ audits = [i \in 1..Cardinality(Given \cup Papers) |-> NoAudit]
    /\ report = NoReport /\ checked = FALSE
    /\ found = [r \in {Roles[s] : s \in DOMAIN Roles} |-> {}]
    /\ search = [s \in Searchers |-> NotSearching] /\ searches = 0

-----------------------------------------------------------------------------
(* Retrievals.                                                             *)

(* What a provider may answer: at most two of the papers it knows.         *)
Answers == {<<>>} \cup {<<p>> : p \in Papers} \cup {<<p, q>> : p \in Papers, q \in Papers}

(* retrieve: the capability is validated and the provider asked.           *)
AskProvider(s) ==
    /\ search[s] = NotSearching /\ stage \in DOMAIN Roles /\ searches < MaxSearches
    /\ searches' = searches + 1
    /\ \E items \in Answers :
        search' = [search EXCEPT ![s] =
            [at |-> "item", role |-> Roles[stage], items |-> items, row |-> 0, done |-> {}]]
    /\ UNCHANGED <<stage, rejections, registry, stored, audits, found, paper>>

(* register_reference: is the item known already?                          *)
LookUp(s) ==
    /\ search[s].at = "item" /\ search[s].items # <<>>
    /\ LET known == {i \in Sources : registry[i] = Head(search[s].items)}
       IN search' = [search EXCEPT ![s] =
            IF known = {} THEN [@ EXCEPT !.at = "insert"]
            ELSE [@ EXCEPT !.at = "store", !.row = CHOOSE i \in known : TRUE]]
    /\ UNCHANGED <<stage, rejections, registry, stored, audits, found, searches, paper>>

(* register_reference: the row is new, unless UNIQUE(run_id, identity_key) *)
(* refuses it; then the whole retrieval fails.                             *)
Register(s) ==
    /\ search[s].at = "insert"
    /\ LET key == Head(search[s].items)
       IN IF \E i \in Sources : registry[i] = key
            THEN search' = [search EXCEPT ![s] = NotSearching] /\ registry' = registry
            ELSE /\ registry' = Append(registry, key)
                 /\ search' = [search EXCEPT ![s] = [@ EXCEPT !.at = "store", !.row = Len(registry) + 1]]
    /\ UNCHANGED <<stage, rejections, stored, audits, found, searches, paper>>

(* create_source_snapshot: what the provider said of it.                   *)
Store(s) ==
    /\ search[s].at = "store" /\ Len(stored) < MaxSnapshots
    /\ stored' = Append(stored, [source |-> search[s].row, provider |-> "search"])
    /\ search' = [search EXCEPT ![s] =
            [at |-> "item", role |-> @.role, items |-> Tail(@.items), row |-> 0, done |-> @.done \cup {@.row}]]
    /\ UNCHANGED <<stage, rejections, registry, audits, found, searches, paper>>

(* retrieve: the record goes to the events of the role that asked, in      *)
(* whatever state the run is by now.                                       *)
AnswerSearch(s) ==
    /\ search[s].at = "item" /\ search[s].items = <<>>
    /\ found' = [found EXCEPT ![search[s].role] = @ \cup search[s].done]
    /\ search' = [search EXCEPT ![s] = NotSearching]
    /\ UNCHANGED <<stage, rejections, registry, stored, audits, searches, paper>>

(* The process dies with every retrieval in flight.                        *)
EvidenceCrash ==
    /\ search # [s \in Searchers |-> NotSearching]
    /\ search' = [s \in Searchers |-> NotSearching]
    /\ UNCHANGED <<stage, rejections, registry, stored, audits, found, searches, paper>>

Retrieval == \E s \in Searchers : AskProvider(s) \/ LookUp(s) \/ Register(s) \/ Store(s) \/ AnswerSearch(s)

-----------------------------------------------------------------------------
(* The writer's tasks.                                                     *)

still == <<rejections, registry, stored, audits, found, search, searches>>

(* The research ends and the paper is assembled.                           *)
Assemble ==
    /\ stage = "explore" /\ stage' = "assemble"
    /\ UNCHANGED <<still, paper>>

Writing == stage \in {"assemble", "repair"}

WriteProof ==
    /\ Writing
    /\ draft' \in PaperProofs \ {draft}
    /\ UNCHANGED <<stage, still, manifest, report, checked, rejected>>

(* normalize_proof_manifest: only registered sources are cited.            *)
WriteManifest ==
    /\ Writing
    /\ manifest' \in SUBSET Sources \ {manifest}
    /\ UNCHANGED <<stage, still, draft, report, checked, rejected>>

(* proof_submitted and repair_submitted; the LaTeX gate passes.  A proof   *)
(* that was just rejected is not submitted unchanged.                      *)
SubmitProof ==
    /\ Writing /\ draft # NoDraft
    /\ stage = "repair" => draft # rejected
    /\ stage' = "verify"
    /\ UNCHANGED <<still, paper>>

-----------------------------------------------------------------------------
(* The verifier's task.                                                    *)

(* write_reference_audit: what each basis of an audit must show, and the   *)
(* disposition it can carry; an audit without it is refused and changes    *)
(* nothing.  A stored source counts only if it is the owner's own text, a  *)
(* search result is no evidence of what the source says.                   *)
Shown(i, basis) ==
    CASE basis = "stored" -> \E n \in DOMAIN stored : stored[n] = [source |-> i, provider |-> "inline"]
      [] OTHER -> TRUE

Disposition(basis) ==
    CASE basis \in {"stored", "inspection"} -> "SOURCE_VERIFIED"
      [] basis = "derivation" -> "INDEPENDENTLY_REDERIVED"
      [] basis = "not_material" -> "NOT_MATERIAL"
      [] OTHER -> "UNRESOLVED"

(* audit_on: the row of the source is replaced; it names the proof it was  *)
(* made for.                                                               *)
WriteAudit ==
    /\ stage = "verify"
    /\ \E i \in Sources, basis \in Bases :
        /\ Shown(i, basis)
        /\ audits' = [audits EXCEPT ![i] =
                [disposition |-> Disposition(basis), basis |-> basis, proof |-> draft]]
    /\ UNCHANGED <<stage, rejections, registry, stored, found, search, searches, paper>>

(* memory:verifier:statement_checks and memory:verifier:events.            *)
WriteChecks ==
    /\ stage = "verify" /\ ~checked /\ checked' = TRUE
    /\ UNCHANGED <<stage, still, draft, manifest, report, rejected>>

WriteReport ==
    /\ stage = "verify"
    /\ report' \in [verdict : {"correct", "wrong"}, round : {rejections + 1}] \ {report}
    /\ UNCHANGED <<stage, still, draft, manifest, checked, rejected>>

Covered(i) == audits[i].disposition \in Accepting

Gaps == {i \in manifest : ~Covered(i)}

(* Mutant of Judge: a report found wrong is left as the verifier wrote it. *)
JudgeKeepsReport ==
    /\ stage = "verify" /\ checked /\ report # NoReport
    /\ rejected' = draft
    /\ IF report.verdict = "correct" /\ Gaps = {}
         THEN stage' = "finalize" /\ UNCHANGED rejections
         ELSE rejections < MaxRejections /\ rejections' = rejections + 1 /\ stage' \in {"repair", "explore"}
    /\ UNCHANGED <<registry, stored, audits, found, search, searches, draft, manifest, checked, report>>

(* commit_verification_submitted: the report of the vault, with a gap for  *)
(* every cited source that has no accepting audit; a report the server     *)
(* finds wrong is written back as such.                                    *)
Judge ==
    /\ stage = "verify" /\ checked /\ report # NoReport
    /\ rejected' = draft
    /\ IF report.verdict = "correct" /\ Gaps = {}
         THEN stage' = "finalize" /\ UNCHANGED <<rejections, report>>
         ELSE /\ rejections < MaxRejections /\ rejections' = rejections + 1
              /\ stage' \in {"repair", "explore"}  \* a compact run escalates
              /\ report' = [report EXCEPT !.verdict = "wrong"]
    /\ UNCHANGED <<registry, stored, audits, found, search, searches, draft, manifest, checked>>

Verification == WriteAudit \/ WriteChecks \/ WriteReport \/ Judge

EvidenceNext ==
    \/ Retrieval \/ EvidenceCrash
    \/ Assemble \/ WriteProof \/ WriteManifest \/ SubmitProof
    \/ Verification

EvidenceSpec == EvidenceInit /\ [][EvidenceNext]_evidenceVars

-----------------------------------------------------------------------------
(* Properties.                                                             *)

EvidenceTypeOK ==
    /\ stage \in {"explore", "assemble", "verify", "repair", "finalize"}
    /\ rejections \in 0..MaxRejections
    /\ registry \in Seq(Given \cup Papers) /\ Len(stored) <= MaxSnapshots
    /\ draft \in PaperProofs \cup {NoDraft} /\ rejected \in PaperProofs \cup {NoDraft}
    /\ manifest \subseteq Sources

(* A source is registered once however many retrievals find it at a time,  *)
(* and what a retrieval's record names is registered and stored, though    *)
(* retrievals fail and die half-way (retrieve, register_reference).        *)
SourcesOnce ==
    /\ \A i, j \in Sources : registry[i] = registry[j] => i = j
    /\ \A r \in DOMAIN found : \A i \in found[r] :
            i \in Sources /\ \E n \in DOMAIN stored : stored[n].source = i

(* An approved proof has been reported correct in the round that approved  *)
(* it, an older report never counts; every source it cites carries an      *)
(* accepting audit; and none was accepted on what a search said of it      *)
(* (commit_verification_submitted, write_reference_audit).                 *)
ApprovalEvidenced ==
    /\ stage = "finalize" =>
            /\ report = [verdict |-> "correct", round |-> rejections + 1]
            /\ \A i \in manifest : Covered(i)
    /\ \A i \in Sources : (audits[i].disposition = "SOURCE_VERIFIED" /\ audits[i].basis = "stored") =>
            registry[i] \in Given

(* The precheck of recorded runs says that each audit of a material source *)
(* is bound to the reviewed proof.  The code accepts the audit of an       *)
(* earlier proof (commit_verification_submitted).                          *)
AuditsOfApprovedProof ==
    stage = "finalize" =>
        \A i \in manifest : audits[i].proof = draft
=============================================================================
