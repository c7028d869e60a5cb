------------------------------ MODULE TaskProofs ------------------------------
(***************************************************************************)
(* Proofs about what the tasks of a research run are shown and what its    *)
(* proof may cite: a branch learns nothing of its siblings and the         *)
(* verifier nothing of the provers, for any number of rounds, branches and *)
(* calls; a source is registered once and a proof approved on evidence,    *)
(* for any number of sources, retrievals and rejections; the registry of   *)
(* claims and facts stays sound, for any number of runs, claims,           *)
(* promotions, revocations and views.                                      *)
(***************************************************************************)
EXTENDS TaskAccess, SourceAudits, FactRegistry, FiniteSetTheorems, SequenceTheorems, WellFoundedInduction, TLAPS

(***************************************************************************)
(* What a task is shown.                                                   *)
(***************************************************************************)

(* What a branch of round n may know of beside itself.                     *)
Before(n) == {Generation, Verifier} \cup {c \in RoundBranches : c[1] < n}

TaskRoles == {"generator", "branch", "join", "assembler", "verifier", "repair", "none"}
TaskTokens == {t \in [role : TaskRoles, branch : RoundBranches \cup {NoOne}, epoch : Nat] :
                  t.role = "branch" => t.branch \in RoundBranches}

(* The resources whose contents tell a task something of others.           *)
Offered(r) == MayRead[r] \cup MaySearch[r]

CallOK(k) ==
    /\ k.at \in {"idle", "read", "retrieve"}
    /\ k.at = "read" => k.token \in TaskTokens /\ k.resource \in Offered(k.token.role)
    /\ k.at = "retrieve" => k.token \in TaskTokens /\ k.token.role \in MayRetrieve

Channel(s) == s \in Seq(SUBSET Parties)
Within(s, S) == \A i \in DOMAIN s : s[i] \subseteq S

AccessType ==
    /\ task \in Stages /\ epoch \in Nat /\ round \in Nat
    /\ opened \in [RoundBranches -> {"absent", "pending", "running", "sealed"}]
    /\ issued \subseteq TaskTokens
    /\ Channel(records) /\ Channel(events)
    /\ notes \in [RoundBranches -> SUBSET Parties] /\ reviews \subseteq {Verifier}
    /\ snapshots \in [1..LastRound -> [taken : BOOLEAN, records : Seq(SUBSET Parties)]]
    /\ results \in [RoundBranches -> [written : BOOLEAN, holds : SUBSET Parties]]
    /\ joined \subseteq Parties
    /\ knows \in [Parties -> SUBSET Parties]
    /\ call = [c \in Callers |-> call[c]] /\ \A c \in Callers : CallOK(call[c])

(* A branch knows of itself and of what came before its round, and so do   *)
(* the files it writes; a snapshot is of before its round.                 *)
BranchesApart ==
    /\ \A b \in RoundBranches :
        /\ knows[b] \subseteq {b} \cup Before(b[1])
        /\ notes[b] \subseteq {b} \cup Before(b[1])
        /\ results[b].holds \subseteq {b} \cup Before(b[1])
    /\ \A n \in 1..LastRound : Within(snapshots[n].records, Before(n))
    /\ \A b \in RoundBranches : opened[b] # "absent" => b[1] <= round

(* What is handed on from task to task is of the rounds that were opened.  *)
HandedOn ==
    /\ knows[Generation] \subseteq Before(round + 1)
    /\ Within(records, Before(round + 1)) /\ Within(events, Before(round + 1))
    /\ joined \subseteq Before(round + 1)

VerifierApart == knows[Verifier] = {Verifier}

AccessInv == AccessType /\ BranchesApart /\ HandedOn /\ VerifierApart
-----------------------------------------------------------------------------
(* Facts about the operators.                                              *)

LEMMA PartiesApart ==
    /\ Generation \notin RoundBranches /\ Verifier \notin RoundBranches /\ NoOne \notin RoundBranches
    /\ Generation # Verifier
    /\ \A b \in RoundBranches : b[1] \in Nat /\ b[1] \in 1..LastRound
  BY DEF Generation, Verifier, NoOne, RoundBranches

LEMMA RolesOfStages == {RoleOf[s] : s \in Stages} = TaskRoles
  <1>1. \A s \in Stages : RoleOf[s] \in TaskRoles
    BY DEF RoleOf, Stages, TaskRoles
  <1>2. /\ RoleOf["explore"] = "generator" /\ RoleOf["branch_run"] = "branch" /\ RoleOf["branch_join"] = "join"
        /\ RoleOf["assemble"] = "assembler" /\ RoleOf["verify"] = "verifier" /\ RoleOf["repair"] = "repair"
        /\ RoleOf["finished"] = "none" /\ RoleOf["branch_prepare"] = "none"
    BY DEF RoleOf, Stages
  <1>3. \A r \in TaskRoles : \E s \in Stages : RoleOf[s] = r
    BY <1>2 DEF TaskRoles, Stages
  <1>. QED
    BY <1>1, <1>3

(* What the roles may ask for.                                             *)
LEMMA OfferedTo ==
    /\ Offered("branch") \cap {"memory:generation:others", "memory:generation:events", "memory:verifier",
                               "branch:sealed", "join_result", "verification_report"} = {}
    /\ Offered("verifier") \cap {"memory:generation:others", "memory:generation:events", "memory:branch",
                                 "branch:sealed", "join_result", "verification_report"} = {}
    /\ \A r \in TaskRoles \ {"branch"} : "memory:branch" \notin Offered(r)
  <1>1. DOMAIN MayRead = TaskRoles /\ DOMAIN MaySearch = TaskRoles
    BY RolesOfStages DEF MayRead, MaySearch
  <1>2. /\ MayRead["branch"] = Public \cup {"snapshot", "branch:self", "memory:branch"}
        /\ MaySearch["branch"] = {"memory:branch"}
    BY <1>1, RolesOfStages DEF MayRead, MaySearch, TaskRoles
  <1>3. /\ MayRead["verifier"] = {"problem", "proof", "proof_manifest", "project", "sources", "memory:verifier"}
        /\ MaySearch["verifier"] = {}
    BY <1>1, RolesOfStages DEF MayRead, MaySearch, TaskRoles
  <1>4. ASSUME NEW r \in TaskRoles \ {"branch"} PROVE "memory:branch" \notin Offered(r)
    <2>1. "memory:branch" \notin MayRead[r]
      BY <1>1, RolesOfStages DEF MayRead, TaskRoles, Public, GenerationMemory
    <2>2. "memory:branch" \notin MaySearch[r]
      BY <1>1, RolesOfStages DEF MaySearch, TaskRoles, GenerationMemory
    <2>. QED
      BY <2>1, <2>2 DEF Offered
  <1>5. Offered("branch") \cap {"memory:generation:others", "memory:generation:events", "memory:verifier",
                               "branch:sealed", "join_result", "verification_report"} = {}
    BY <1>2 DEF Offered, Public
  <1>6. Offered("verifier") \cap {"memory:generation:others", "memory:generation:events", "memory:branch",
                                 "branch:sealed", "join_result", "verification_report"} = {}
    BY <1>3 DEF Offered
  <1>. QED
    BY <1>4, <1>5, <1>6

LEMMA BeforeGrows ==
    /\ \A n \in Nat : Before(n) \subseteq Parties
    /\ \A n, m \in Nat : n <= m => Before(n) \subseteq Before(m)
    /\ \A b \in RoundBranches, n \in Nat : b[1] < n => {b} \cup Before(b[1]) \subseteq Before(n)
  BY PartiesApart DEF Before, Parties

LEMMA HeldWithin == ASSUME NEW s, NEW S, Within(s, S) PROVE Held(s) \subseteq S
  BY DEF Within, Held

LEMMA AppendWithin ==
    ASSUME NEW s, Channel(s), NEW S, Within(s, S), NEW r \in SUBSET Parties, r \subseteq S
    PROVE  Channel(Append(s, r)) /\ Within(Append(s, r), S)
  BY DEF Channel, Within

LEMMA WithinMore == ASSUME NEW s, NEW S, NEW T, Within(s, S), S \subseteq T PROVE Within(s, T)
  BY DEF Within

-----------------------------------------------------------------------------
LEMMA InitAccess == AccessInit => AccessInv
  <1>. SUFFICES ASSUME AccessInit PROVE AccessInv
    OBVIOUS
  <1>1. AccessType
    BY DEF AccessInit, AccessType, Stages, Channel, NoSnapshot, NoBranchResult, Parties, CallOK, NoCall
  <1>2. BranchesApart
    BY PartiesApart DEF AccessInit, BranchesApart, Within, NoSnapshot, NoBranchResult, Parties
  <1>3. HandedOn
    BY PartiesApart DEF AccessInit, HandedOn, Within, Before, Parties
  <1>4. VerifierApart
    BY DEF AccessInit, VerifierApart, Parties
  <1>. QED
    BY <1>1, <1>2, <1>3, <1>4 DEF AccessInv
-----------------------------------------------------------------------------
(* Tasks and calls.                                                        *)

(* What a party may be shown.                                              *)
MayKnow(p) ==
    IF p \in RoundBranches THEN {p} \cup Before(p[1])
    ELSE IF p = Verifier THEN {Verifier} ELSE Before(round + 1)

LEMMA Knowing ==
    ASSUME AccessInv, NEW p \in Parties
    PROVE  knows[p] \subseteq MayKnow(p) /\ MayKnow(p) \subseteq Parties
  BY PartiesApart, BeforeGrows
     DEF AccessInv, AccessType, BranchesApart, HandedOn, VerifierApart, MayKnow, Parties

LEMMA Learning ==
    ASSUME AccessInv, round' = round, NEW p \in Parties, NEW what, what \subseteq MayKnow(p), Learn(p, what)
    PROVE  /\ knows' \in [Parties -> SUBSET Parties]
           /\ \A b \in RoundBranches : knows'[b] \subseteq {b} \cup Before(b[1])
           /\ knows'[Generation] \subseteq Before(round + 1)
           /\ VerifierApart'
  <1>1. knows \in [Parties -> SUBSET Parties] /\ MayKnow(p) \subseteq Parties
    BY Knowing DEF AccessInv, AccessType
  <1>2. knows' \in [Parties -> SUBSET Parties]
    BY <1>1 DEF Learn
  <1>3. \A q \in Parties : knows'[q] \subseteq knows[q] \cup (IF q = p THEN what ELSE {})
    BY <1>1 DEF Learn
  <1>4. \A q \in Parties : knows'[q] \subseteq MayKnow(q)
    BY <1>3, Knowing
  <1>5. Verifier \in knows'[Verifier]
    BY <1>1 DEF Learn, AccessInv, VerifierApart, Parties
  <1>. QED
    BY <1>2, <1>4, <1>5, PartiesApart DEF MayKnow, Parties, VerifierApart

(* The party of a capability.                                              *)
LEMMA PartyOf ==
    ASSUME NEW t \in TaskTokens
    PROVE  /\ Party(t) \in Parties
           /\ t.role = "branch" => t.branch \in RoundBranches /\ Party(t) = t.branch
           /\ t.role = "verifier" => Party(t) = Verifier
           /\ t.role \notin {"branch", "verifier"} => Party(t) = Generation
  BY DEF TaskTokens, Party, Parties

(* The results of sealed branches are of the rounds that were opened.      *)
LEMMA ResultsBefore ==
    ASSUME AccessInv, NEW B, B \subseteq Started
    PROVE  UNION {results[b].holds : b \in B} \subseteq Before(round + 1)
  <1>1. \A b \in B : b \in RoundBranches /\ b[1] < round + 1
    BY PartiesApart DEF AccessInv, AccessType, BranchesApart, Started
  <1>2. \A b \in B : results[b].holds \subseteq Before(round + 1)
    BY <1>1, BeforeGrows DEF AccessInv, AccessType, BranchesApart
  <1>. QED
    BY <1>2

LEMMA ContextSafe ==
    ASSUME AccessInv, NEW t \in TaskTokens
    PROVE  Context(t.role) \subseteq MayKnow(Party(t))
  <1>1. CASE t.role \in {"generator", "repair"}
    <2>1. Held(records) \subseteq Before(round + 1) /\ Held(events) \subseteq Before(round + 1)
      BY HeldWithin DEF AccessInv, HandedOn
    <2>2. UNION {results[b].holds : b \in {b \in RoundBranches : opened[b] = "sealed"}} \subseteq Before(round + 1)
      BY ResultsBefore DEF Started
    <2>3. MayKnow(Party(t)) = Before(round + 1)
      BY <1>1, PartyOf, PartiesApart DEF MayKnow
    <2>. QED
      BY <2>1, <2>2, <2>3 DEF Context
  <1>2. CASE t.role \notin {"generator", "repair"}
    BY <1>2 DEF Context
  <1>. QED
    BY <1>1, <1>2

LEMMA NextTaskInv == ASSUME AccessInv, NextTask PROVE AccessInv'
  <1> DEFINE role == RoleOf[task]
  <1>1. PICK b : /\ role = "branch" => b \in RoundBranches /\ opened[b] \in {"running", "pending"}
                 /\ role # "branch" => b = NoOne
                 /\ opened' = IF role = "branch" THEN [opened EXCEPT ![b] = "running"] ELSE opened
                 /\ issued' = issued \cup {Capability(role, b)}
                 /\ Learn(Party(Capability(role, b)), Context(role))
    BY DEF NextTask
  <1> DEFINE t == Capability(role, b)
  <1>2. t \in TaskTokens /\ t.role = role
    BY <1>1, RolesOfStages DEF AccessInv, AccessType, Capability, TaskTokens
  <1>3. round' = round /\ Party(t) \in Parties /\ Context(role) \subseteq MayKnow(Party(t))
    BY <1>2, PartyOf, ContextSafe DEF NextTask
  <1>4. /\ knows' \in [Parties -> SUBSET Parties]
        /\ \A q \in RoundBranches : knows'[q] \subseteq {q} \cup Before(q[1])
        /\ knows'[Generation] \subseteq Before(round + 1)
        /\ VerifierApart'
    BY <1>1, <1>3, Learning
  <1>5. /\ opened' \in [RoundBranches -> {"absent", "pending", "running", "sealed"}]
        /\ \A q \in RoundBranches : opened'[q] # "absent" => q[1] <= round
    BY <1>1 DEF AccessInv, AccessType, BranchesApart
  <1>6. AccessType'
    BY <1>1, <1>2, <1>4, <1>5 DEF NextTask, AccessInv, AccessType, Channel, CallOK
  <1>7. BranchesApart' /\ HandedOn'
    BY <1>4, <1>5 DEF NextTask, AccessInv, BranchesApart, HandedOn, Within, Before
  <1>. QED
    BY <1>4, <1>6, <1>7 DEF AccessInv

(* Only the calls change.                                                  *)
LEMMA CallsOnly ==
    ASSUME AccessInv, UNCHANGED durable, call' = [c \in Callers |-> call'[c]], \A c \in Callers : CallOK(call'[c])
    PROVE  AccessInv'
  <1>1. AccessType'
    BY DEF AccessInv, AccessType, durable, Channel, CallOK
  <1>. QED
    BY <1>1 DEF AccessInv, BranchesApart, HandedOn, VerifierApart, durable, Within, Before

LEMMA AskInv == ASSUME AccessInv, NEW c \in Callers, Ask(c) PROVE AccessInv'
  <1>1. PICK k : call' = [call EXCEPT ![c] = k] /\ CallOK(k)
    BY DEF Ask, AccessInv, AccessType, CallOK, Offered
  <1>. QED
    BY <1>1, CallsOnly DEF Ask, AccessInv, AccessType

LEMMA CrashInv == ASSUME AccessInv, AccessCrash PROVE AccessInv'
  <1>1. CallOK(NoCall)
    BY DEF CallOK, NoCall
  <1>. QED
    BY <1>1, CallsOnly DEF AccessCrash

(* What a call is answered with.                                           *)
LEMMA AnswerSafe ==
    ASSUME AccessInv, NEW t \in TaskTokens, NEW resource \in Offered(t.role)
    PROVE  Recalled(t, resource) \cup Served(t, resource) \subseteq MayKnow(Party(t))
  <1>1. CASE t.role = "branch"
    <2>1. t.branch \in RoundBranches /\ t.branch[1] \in 1..LastRound /\ MayKnow(Party(t)) = {t.branch} \cup Before(t.branch[1])
      BY <1>1, PartyOf, PartiesApart DEF MayKnow
    <2>2. Recalled(t, resource) \subseteq notes[t.branch]
      BY <1>1, OfferedTo DEF Recalled, OwnBranch
    <2>3. Served(t, resource) \subseteq Held(snapshots[t.branch[1]].records)
      BY <1>1, OfferedTo DEF Served, OwnBranch
    <2>4. Held(snapshots[t.branch[1]].records) \subseteq Before(t.branch[1])
      BY <2>1, HeldWithin DEF AccessInv, BranchesApart
    <2>5. notes[t.branch] \subseteq {t.branch} \cup Before(t.branch[1])
      BY <2>1 DEF AccessInv, BranchesApart
    <2>. QED
      BY <2>1, <2>2, <2>3, <2>4, <2>5
  <1>2. CASE t.role = "verifier"
    <2>1. MayKnow(Party(t)) = {Verifier}
      BY <1>2, PartyOf, PartiesApart DEF MayKnow
    <2>2. Recalled(t, resource) \subseteq reviews
      BY <1>2, OfferedTo DEF Recalled
    <2>3. Served(t, resource) = {}
      BY <1>2, OfferedTo DEF Served
    <2>. QED
      BY <2>1, <2>2, <2>3 DEF AccessInv, AccessType
  <1>3. CASE t.role \notin {"branch", "verifier"}
    <2>1. MayKnow(Party(t)) = Before(round + 1)
      BY <1>3, PartyOf, PartiesApart DEF MayKnow
    <2>2. Recalled(t, resource) \subseteq Held(records) \cup Held(events) \cup reviews
      <3>1. resource # "memory:branch"
        BY <1>3, OfferedTo DEF TaskTokens
      <3>. QED
        BY <3>1 DEF Recalled
    <2>3. Served(t, resource) \in {UNION {results[b].holds : b \in Started}, joined, {Verifier}, {}}
      BY <1>3 DEF Served
    <2>4. Held(records) \subseteq Before(round + 1) /\ Held(events) \subseteq Before(round + 1)
      BY HeldWithin DEF AccessInv, HandedOn
    <2>5. UNION {results[b].holds : b \in Started} \subseteq Before(round + 1)
      BY ResultsBefore
    <2>6. joined \subseteq Before(round + 1) /\ reviews \subseteq Before(round + 1) /\ Verifier \in Before(round + 1)
      BY DEF AccessInv, AccessType, HandedOn, Before
    <2>7. Served(t, resource) \subseteq Before(round + 1)
      BY <2>3, <2>5, <2>6
    <2>. QED
      BY <2>1, <2>2, <2>4, <2>6, <2>7
  <1>. QED
    BY <1>1, <1>2, <1>3

LEMMA AnswerInv == ASSUME AccessInv, NEW c \in Callers, Answer(c) PROVE AccessInv'
  <1> DEFINE t == call[c].token
             what == Recalled(t, call[c].resource) \cup Served(t, call[c].resource)
  <1>1. t \in TaskTokens /\ call[c].resource \in Offered(t.role)
    BY DEF Answer, AccessInv, AccessType, CallOK
  <1>2. Party(t) \in Parties /\ what \subseteq MayKnow(Party(t)) /\ Learn(Party(t), what) /\ round' = round
    BY <1>1, PartyOf, AnswerSafe DEF Answer
  <1>3. /\ knows' \in [Parties -> SUBSET Parties]
        /\ \A b \in RoundBranches : knows'[b] \subseteq {b} \cup Before(b[1])
        /\ knows'[Generation] \subseteq Before(round + 1)
        /\ VerifierApart'
    BY <1>2, Learning
  <1>4. call' = [k \in Callers |-> call'[k]] /\ \A k \in Callers : CallOK(call'[k])
    BY DEF Answer, AccessInv, AccessType, CallOK, NoCall
  <1>5. AccessType'
    BY <1>3, <1>4 DEF Answer, AccessInv, AccessType, Channel, CallOK
  <1>6. BranchesApart' /\ HandedOn'
    BY <1>3 DEF Answer, AccessInv, BranchesApart, HandedOn, Within, Before
  <1>. QED
    BY <1>3, <1>5, <1>6 DEF AccessInv

-----------------------------------------------------------------------------
(* Records.                                                                *)

(* A step that only adds what a party knows to the memories that party     *)
(* writes to.                                                              *)
LEMMA Recording ==
    ASSUME AccessInv, NEW p \in Parties,
           UNCHANGED <<task, epoch, round, opened, issued, snapshots, results, joined, knows>>,
           call' = [k \in Callers |-> call'[k]], \A k \in Callers : CallOK(call'[k]),
           records' = records \/ (p = Generation /\ records' = Append(records, knows[p])),
           events' = events \/ (p = Generation /\ events' = Append(events, knows[p])),
           notes' = notes \/ (p \in RoundBranches /\ notes' = [notes EXCEPT ![p] = @ \cup knows[p]]),
           reviews' = reviews \/ (p = Verifier /\ reviews' = reviews \cup knows[p])
    PROVE  AccessInv'
  <1>1. knows[p] \in SUBSET Parties /\ (p = Generation => knows[p] \subseteq Before(round + 1))
    BY DEF AccessInv, AccessType, HandedOn
  <1>2. Channel(records') /\ Within(records', Before(round + 1))
    <2>1. Channel(records) /\ Within(records, Before(round + 1))
      BY DEF AccessInv, AccessType, HandedOn
    <2>2. CASE p = Generation /\ records' = Append(records, knows[p])
      BY <1>1, <2>1, <2>2, AppendWithin
    <2>. QED
      BY <2>1, <2>2
  <1>3. Channel(events') /\ Within(events', Before(round + 1))
    <2>1. Channel(events) /\ Within(events, Before(round + 1))
      BY DEF AccessInv, AccessType, HandedOn
    <2>2. CASE p = Generation /\ events' = Append(events, knows[p])
      BY <1>1, <2>1, <2>2, AppendWithin
    <2>. QED
      BY <2>1, <2>2
  <1>4. /\ notes' \in [RoundBranches -> SUBSET Parties]
        /\ \A b \in RoundBranches : notes'[b] \subseteq {b} \cup Before(b[1])
    BY <1>1 DEF AccessInv, AccessType, BranchesApart
  <1>5. reviews' \subseteq {Verifier}
    BY DEF AccessInv, AccessType, VerifierApart
  <1>6. AccessType'
    BY <1>2, <1>3, <1>4, <1>5 DEF AccessInv, AccessType, Channel, CallOK
  <1>7. BranchesApart' /\ HandedOn' /\ VerifierApart'
    BY <1>2, <1>3, <1>4 DEF AccessInv, BranchesApart, HandedOn, VerifierApart, Within, Before
  <1>. QED
    BY <1>6, <1>7 DEF AccessInv

LEMMA RetrievedInv == ASSUME AccessInv, NEW c \in Callers, Retrieved(c) PROVE AccessInv'
  <1> DEFINE t == call[c].token
  <1>1. t \in TaskTokens /\ t.role \in MayRetrieve
    BY DEF Retrieved, AccessInv, AccessType, CallOK
  <1>2. call' = [k \in Callers |-> call'[k]] /\ \A k \in Callers : CallOK(call'[k])
    BY DEF Retrieved, AccessInv, AccessType, CallOK, NoCall
  <1>3. CASE t.role \in {"generator", "repair"}
    <2>1. Party(t) = Generation /\ events' = Append(events, knows[Generation])
      BY <1>1, <1>3, PartyOf DEF Retrieved
    <2>. QED
      BY <1>2, <1>3, <2>1, Recording DEF Retrieved, Parties
  <1>4. CASE t.role = "branch"
    <2>1. /\ Party(t) = t.branch /\ t.branch \in RoundBranches
          /\ notes' = [notes EXCEPT ![t.branch] = @ \cup knows[t.branch]]
      BY <1>1, <1>4, PartyOf DEF Retrieved, OwnBranch
    <2>. QED
      BY <1>2, <1>4, <2>1, Recording DEF Retrieved, Parties
  <1>5. CASE t.role = "verifier"
    <2>1. Party(t) = Verifier /\ reviews' = reviews \cup knows[Verifier]
      BY <1>1, <1>5, PartyOf DEF Retrieved
    <2>. QED
      BY <1>2, <1>5, <2>1, Recording DEF Retrieved, Parties
  <1>. QED
    BY <1>1, <1>3, <1>4, <1>5 DEF MayRetrieve

LEMMA WriteInv == ASSUME AccessInv, Write PROVE AccessInv'
  <1>1. PICK t \in Current :
            LET record == knows[Party(t)] IN
            CASE t.role = "branch" ->
                    notes' = [notes EXCEPT ![OwnBranch(t)] = @ \cup record] /\ UNCHANGED <<records, reviews>>
              [] t.role = "verifier" ->
                    reviews' = reviews \cup record /\ UNCHANGED <<records, notes>>
              [] t.role \in {"generator", "join", "repair"} ->
                    /\ Len(records) < MaxRecords /\ records' = Append(records, record)
                    /\ UNCHANGED <<notes, reviews>>
              [] OTHER -> FALSE
    BY DEF Write
  <1>2. t \in TaskTokens
    BY <1>1 DEF Current, AccessInv, AccessType
  <1>3. UNCHANGED <<task, epoch, round, opened, issued, events, snapshots, preparing, results, joined, knows, call>>
    BY DEF Write
  <1>4. call' = [k \in Callers |-> call'[k]] /\ \A k \in Callers : CallOK(call'[k])
    BY <1>3 DEF AccessInv, AccessType
  <1>5. CASE t.role = "branch"
    <2>1. /\ Party(t) = t.branch /\ t.branch \in RoundBranches
          /\ notes' = [notes EXCEPT ![t.branch] = @ \cup knows[t.branch]] /\ UNCHANGED <<records, reviews>>
      BY <1>1, <1>2, <1>5, PartyOf DEF OwnBranch
    <2>. QED
      BY <1>3, <1>4, <2>1, Recording DEF Parties
  <1>6. CASE t.role = "verifier"
    <2>1. Party(t) = Verifier /\ reviews' = reviews \cup knows[Verifier] /\ UNCHANGED <<records, notes>>
      BY <1>1, <1>2, <1>6, PartyOf
    <2>. QED
      BY <1>3, <1>4, <2>1, Recording DEF Parties
  <1>7. CASE t.role \in {"generator", "join", "repair"}
    <2>1. Party(t) = Generation /\ records' = Append(records, knows[Generation]) /\ UNCHANGED <<notes, reviews>>
      BY <1>1, <1>2, <1>7, PartyOf
    <2>. QED
      BY <1>3, <1>4, <2>1, Recording DEF Parties
  <1>8. t.role \in {"branch", "verifier", "generator", "join", "repair"}
    BY <1>1
  <1>. QED
    BY <1>5, <1>6, <1>7, <1>8

-----------------------------------------------------------------------------
(* Commits and the preparation of a round.                                 *)

(* A step that moves the run, but opens no round, and keeps what everybody *)
(* knows.                                                                  *)
LEMMA MovesOn ==
    ASSUME AccessInv, task' \in Stages, epoch' \in Nat,
           UNCHANGED <<round, opened, issued, events, notes, reviews, snapshots, results, joined, knows, call>>,
           \/ records' = records
           \/ records' = Append(records, knows[Generation])
    PROVE  AccessInv'
  <1>1. knows[Generation] \in SUBSET Parties /\ knows[Generation] \subseteq Before(round + 1)
    BY DEF AccessInv, AccessType, HandedOn, Parties
  <1>2. Channel(records') /\ Within(records', Before(round + 1))
    <2>1. Channel(records) /\ Within(records, Before(round + 1))
      BY DEF AccessInv, AccessType, HandedOn
    <2>2. CASE records' = Append(records, knows[Generation])
      BY <1>1, <2>1, <2>2, AppendWithin
    <2>. QED
      BY <2>1, <2>2
  <1>3. AccessType'
    BY <1>2 DEF AccessInv, AccessType, Channel, CallOK
  <1>4. BranchesApart' /\ HandedOn' /\ VerifierApart'
    BY <1>2 DEF AccessInv, BranchesApart, HandedOn, VerifierApart, Within, Before
  <1>. QED
    BY <1>3, <1>4 DEF AccessInv

LEMMA BranchCompleteInv == ASSUME AccessInv, BranchComplete PROVE AccessInv'
  <1>1. PICK t \in Current :
            /\ results' = [results EXCEPT ![t.branch] = [written |-> TRUE, holds |-> knows[t.branch]]]
            /\ records' = Append(records, {t.branch})
            /\ opened' = [opened EXCEPT ![t.branch] = "sealed"]
    BY DEF BranchComplete
  <1> DEFINE b == t.branch
  <1>2. task = "branch_run" /\ task' \in Stages /\ epoch' \in Nat
    BY DEF BranchComplete, AccessMoves, Stages, AccessInv, AccessType
  <1>3. t.role = "branch" /\ opened[b] = "running" /\ t \in TaskTokens
    BY <1>1, <1>2 DEF Current, Valid, RoleOf, Stages, AccessInv, AccessType
  <1>4. b \in RoundBranches /\ b[1] < round + 1
    BY <1>3, PartiesApart DEF TaskTokens, AccessInv, AccessType, BranchesApart
  <1>5. {b} \in SUBSET Parties /\ {b} \subseteq Before(round + 1)
    BY <1>4 DEF Before, Parties
  <1>6. Channel(records') /\ Within(records', Before(round + 1))
    BY <1>1, <1>5, AppendWithin DEF AccessInv, AccessType, HandedOn
  <1>7. knows[b] \subseteq {b} \cup Before(b[1]) /\ knows[b] \in SUBSET Parties
    BY <1>4 DEF AccessInv, AccessType, BranchesApart, Parties
  <1>8. /\ results' \in [RoundBranches -> [written : BOOLEAN, holds : SUBSET Parties]]
        /\ \A q \in RoundBranches : results'[q].holds \subseteq {q} \cup Before(q[1])
    <2>1. results' \in [RoundBranches -> [written : BOOLEAN, holds : SUBSET Parties]]
      BY <1>1, <1>7 DEF AccessInv, AccessType
    <2>2. ASSUME NEW q \in RoundBranches PROVE results'[q].holds = IF q = b THEN knows[b] ELSE results[q].holds
      BY <1>1 DEF AccessInv, AccessType
    <2>3. \A q \in RoundBranches : results[q].holds \subseteq {q} \cup Before(q[1])
      BY DEF AccessInv, BranchesApart
    <2>. QED
      BY <1>7, <2>1, <2>2, <2>3
  <1>9. /\ opened' \in [RoundBranches -> {"absent", "pending", "running", "sealed"}]
        /\ \A q \in RoundBranches : opened'[q] # "absent" => q[1] <= round
    BY <1>1, <1>3, <1>4 DEF AccessInv, AccessType, BranchesApart
  <1>10. AccessType'
    BY <1>2, <1>6, <1>8, <1>9 DEF BranchComplete, AccessInv, AccessType, Channel, CallOK
  <1>11. BranchesApart' /\ HandedOn' /\ VerifierApart'
    BY <1>6, <1>8, <1>9 DEF BranchComplete, AccessInv, BranchesApart, HandedOn, VerifierApart, Within, Before
  <1>. QED
    BY <1>10, <1>11 DEF AccessInv

LEMMA JoinCompleteInv == ASSUME AccessInv, JoinComplete PROVE AccessInv'
  <1>1. task' \in Stages /\ epoch' \in Nat /\ round' = round
    BY DEF JoinComplete, AccessMoves, Stages, AccessInv, AccessType
  <1>2. joined' \subseteq Before(round + 1) /\ joined' \in SUBSET Parties
    <2>1. UNION {results[b].holds : b \in Started} \subseteq Before(round + 1)
      BY ResultsBefore
    <2>2. knows[Generation] \subseteq Before(round + 1) /\ Before(round + 1) \subseteq Parties
      BY BeforeGrows DEF AccessInv, AccessType, HandedOn
    <2>. QED
      BY <2>1, <2>2 DEF JoinComplete
  <1>3. Channel(records') /\ Within(records', Before(round + 1))
    BY <1>2, AppendWithin DEF JoinComplete, AccessInv, AccessType, HandedOn
  <1>4. MayKnow(Generation) = Before(round + 1) /\ Generation \in Parties
    BY PartiesApart DEF MayKnow, Parties
  <1>5. /\ knows' \in [Parties -> SUBSET Parties]
        /\ \A b \in RoundBranches : knows'[b] \subseteq {b} \cup Before(b[1])
        /\ knows'[Generation] \subseteq Before(round + 1)
        /\ VerifierApart'
    BY <1>1, <1>2, <1>4, Learning DEF JoinComplete
  <1>6. AccessType'
    BY <1>1, <1>2, <1>3, <1>5 DEF JoinComplete, AccessInv, AccessType, Channel, CallOK
  <1>7. BranchesApart' /\ HandedOn'
    BY <1>2, <1>3, <1>5 DEF JoinComplete, AccessInv, BranchesApart, HandedOn, Within, Before
  <1>. QED
    BY <1>5, <1>6, <1>7 DEF AccessInv

LEMMA FreezeInv == ASSUME AccessInv, Freeze PROVE AccessInv'
  <1>1. /\ snapshots' \in [1..LastRound -> [taken : BOOLEAN, records : Seq(SUBSET Parties)]]
        /\ \A n \in 1..LastRound : Within(snapshots'[n].records, Before(n))
    BY DEF Freeze, SnapshotNow, AccessInv, AccessType, Channel, BranchesApart, HandedOn
  <1>2. AccessType'
    BY <1>1 DEF Freeze, AccessInv, AccessType, Channel, CallOK
  <1>3. BranchesApart' /\ HandedOn' /\ VerifierApart'
    BY <1>1 DEF Freeze, AccessInv, BranchesApart, HandedOn, VerifierApart, Within, Before
  <1>. QED
    BY <1>2, <1>3 DEF AccessInv

LEMMA OpenRoundInv == ASSUME AccessInv, OpenRound PROVE AccessInv'
  <1>1. round \in Nat /\ round' = round + 1 /\ task' \in Stages /\ epoch' \in Nat
    BY DEF OpenRound, AccessMoves, Stages, AccessInv, AccessType
  <1>2. Before(round + 1) \subseteq Before(round' + 1)
    BY <1>1, BeforeGrows
  <1>3. /\ opened' \in [RoundBranches -> {"absent", "pending", "running", "sealed"}]
        /\ \A q \in RoundBranches : opened'[q] # "absent" => q[1] <= round'
    BY <1>1, PartiesApart DEF OpenRound, AccessInv, AccessType, BranchesApart
  <1>4. AccessType'
    BY <1>1, <1>3 DEF OpenRound, AccessInv, AccessType, Channel, CallOK
  <1>5. BranchesApart' /\ VerifierApart'
    BY <1>3 DEF OpenRound, AccessInv, BranchesApart, VerifierApart, Within, Before
  <1>6. HandedOn'
    <2>1. Within(records, Before(round' + 1)) /\ Within(events, Before(round' + 1))
      BY <1>2, WithinMore DEF AccessInv, HandedOn
    <2>2. knows[Generation] \subseteq Before(round' + 1) /\ joined \subseteq Before(round' + 1)
      BY <1>2 DEF AccessInv, HandedOn
    <2>. QED
      BY <2>1, <2>2 DEF OpenRound, HandedOn, Within, Before
  <1>. QED
    BY <1>4, <1>5, <1>6 DEF AccessInv

LEMMA NextAccess == AccessInv /\ [AccessNext]_accessVars => AccessInv'
  <1>. SUFFICES ASSUME AccessInv, [AccessNext]_accessVars PROVE AccessInv'
    OBVIOUS
  <1>1. CASE UNCHANGED accessVars
    BY <1>1, CallsOnly DEF accessVars, durable, AccessInv, AccessType
  <1>2. CASE NextTask
    BY <1>2, NextTaskInv
  <1>3. CASE Write
    BY <1>3, WriteInv
  <1>4. CASE ExploreDone \/ ProofSubmitted \/ VerificationSubmitted \/ AccessCancel
    <2>1. task' \in Stages /\ epoch' \in Nat
      BY <1>4 DEF ExploreDone, ProofSubmitted, VerificationSubmitted, AccessCancel, AccessMoves, Stages, AccessInv, AccessType
    <2>. QED
      BY <1>4, <2>1, MovesOn DEF ExploreDone, ProofSubmitted, VerificationSubmitted, AccessCancel
  <1>5. CASE BranchComplete
    BY <1>5, BranchCompleteInv
  <1>6. CASE JoinComplete
    BY <1>6, JoinCompleteInv
  <1>7. CASE \E c \in Callers : Ask(c) \/ Answer(c) \/ Retrieved(c)
    BY <1>7, AskInv, AnswerInv, RetrievedInv
  <1>8. CASE Freeze
    BY <1>8, FreezeInv
  <1>9. CASE OpenRound
    BY <1>9, OpenRoundInv
  <1>10. CASE AccessCrash
    BY <1>10, CrashInv
  <1>. QED
    BY <1>1, <1>2, <1>3, <1>4, <1>5, <1>6, <1>7, <1>8, <1>9, <1>10 DEF AccessNext, Commit

(* Whatever is asked, answered late or recorded late, in any number of     *)
(* rounds of any number of branches: a branch is shown nothing its         *)
(* siblings know, and the verifier nothing of those who made the proof.    *)
THEOREM BranchesFirewalled == AccessSpec => []Firewalled
  <1>1. AccessInv => Firewalled
    BY PartiesApart DEF AccessInv, BranchesApart, VerifierApart, Firewalled, Before, Siblings
  <1>. QED
    BY <1>1, InitAccess, NextAccess, PTL DEF AccessSpec

-----------------------------------------------------------------------------
(* Branch preparation.                                                     *)

(* Only the snapshot of the round to come may be taken, and while it is to *)
(* come nothing is recorded in what it froze.                              *)
Prepared ==
    /\ task = "branch_prepare" => round + 1 \in 1..LastRound
    /\ \A n \in 1..LastRound : n > round /\ snapshots[n].taken =>
            /\ n = round + 1 /\ task \in {"branch_prepare", "finished"}
            /\ task = "branch_prepare" => snapshots[n].records = records

LEMMA NobodyCurrent == task = "branch_prepare" => Current = {}
  BY DEF Current, Valid, RoleOf, Stages

LEMMA NextPrepared ==
    ASSUME AccessAssumption
    PROVE  AccessInv /\ Prepared /\ [AccessNext]_accessVars => Prepared'
  <1>. SUFFICES ASSUME AccessInv, Prepared, [AccessNext]_accessVars PROVE Prepared'
    OBVIOUS
  <1>1. CASE /\ UNCHANGED <<task, round, snapshots>>
             /\ records' = records \/ task # "branch_prepare"
    BY <1>1 DEF Prepared
  <1>2. CASE /\ task \notin {"branch_prepare", "finished"} /\ task' \notin {"branch_prepare", "finished"}
             /\ UNCHANGED <<round, snapshots>>
    BY <1>2 DEF Prepared
  <1>3. CASE UNCHANGED accessVars \/ (\E c \in Callers : Ask(c) \/ Answer(c) \/ Retrieved(c)) \/ AccessCrash
    BY <1>1, <1>3 DEF accessVars, durable, Ask, Answer, Retrieved, AccessCrash
  <1>4. CASE NextTask
    BY <1>1, <1>4 DEF NextTask
  <1>5. CASE Write
    <2>1. task # "branch_prepare"
      BY <1>5, NobodyCurrent DEF Write
    <2>. QED
      BY <1>1, <1>5, <2>1 DEF Write
  <1>6. CASE ExploreDone
    <2>1. task = "explore" /\ UNCHANGED <<round, snapshots>>
      BY <1>6 DEF ExploreDone
    <2>2. \A n \in 1..LastRound : n > round => ~snapshots[n].taken
      BY <2>1 DEF Prepared
    <2>3. task' = "branch_prepare" => round < LastRound
      BY <1>6 DEF ExploreDone, AccessMoves
    <2>. QED
      BY <2>1, <2>2, <2>3 DEF Prepared, AccessInv, AccessType, AccessAssumption
  <1>7. CASE BranchComplete \/ JoinComplete \/ ProofSubmitted
    <2>1. /\ task \in {"branch_run", "branch_join", "assemble", "repair"}
          /\ task' \in {"branch_run", "branch_join", "assemble", "explore", "verify"}
          /\ UNCHANGED <<round, snapshots>>
      BY <1>7 DEF BranchComplete, JoinComplete, ProofSubmitted, AccessMoves
    <2>. QED
      BY <1>2, <2>1
  <1>8. CASE VerificationSubmitted \/ AccessCancel
    <2>1. UNCHANGED <<round, snapshots, records>> /\ task' \in {"finished", "repair", "explore"}
      BY <1>8 DEF VerificationSubmitted, AccessCancel, AccessMoves
    <2>2. task' # "finished" => task = "verify"
      BY <1>8 DEF VerificationSubmitted, AccessCancel, AccessMoves
    <2>. QED
      BY <2>1, <2>2 DEF Prepared
  <1>9. CASE Freeze
    <2>1. task = "branch_prepare" /\ UNCHANGED <<task, round, records>> /\ round + 1 \in 1..LastRound
      BY <1>9 DEF Freeze, Prepared
    <2>2. snapshots' = [snapshots EXCEPT ![round + 1] = [taken |-> TRUE, records |-> records]]
      BY <1>9 DEF Freeze, SnapshotNow
    <2>3. \A n \in 1..LastRound : n # round + 1 => snapshots'[n] = snapshots[n]
      BY <2>2 DEF AccessInv, AccessType
    <2>4. snapshots'[round + 1].records = records
      BY <2>1, <2>2 DEF AccessInv, AccessType
    <2>. QED
      BY <2>1, <2>3, <2>4 DEF Prepared
  <1>10. CASE OpenRound
    <2>1. round' = round + 1 /\ task' = "branch_run" /\ snapshots' = snapshots /\ round \in Nat
      BY <1>10 DEF OpenRound, AccessMoves, AccessInv, AccessType
    <2>2. \A n \in 1..LastRound : n > round' => ~snapshots[n].taken
      BY <2>1 DEF Prepared
    <2>. QED
      BY <2>1, <2>2 DEF Prepared
  <1>. QED
    BY <1>3, <1>4, <1>5, <1>6, <1>7, <1>8, <1>9, <1>10 DEF AccessNext, Commit

(* A preparation that a crash or another refresh left half-way can always  *)
(* be repeated: what it froze is what a repetition would freeze.           *)
THEOREM PreparationAlwaysRepeats == ASSUME AccessAssumption PROVE AccessSpec => []PreparationRepeats
  <1>1. AccessInit => AccessInv /\ Prepared
    <2>1. AccessInit => Prepared
      BY DEF AccessInit, Prepared, NoSnapshot
    <2>. QED
      BY <2>1, InitAccess
  <1>2. AccessInv /\ Prepared /\ [AccessNext]_accessVars => AccessInv' /\ Prepared'
    BY NextAccess, NextPrepared
  <1>3. AccessInv /\ Prepared => PreparationRepeats
    BY DEF AccessInv, AccessType, Prepared, PreparationRepeats, SnapshotNow
  <1>. QED
    BY <1>1, <1>2, <1>3, PTL DEF AccessSpec

(* Epochs and rounds stay within the bounds of the instance.               *)
InBounds == epoch \in 1..LastEpoch /\ round \in 0..LastRound

LEMMA NextInBounds ==
    ASSUME AccessAssumption, AccessInv, Prepared, InBounds, [AccessNext]_accessVars
    PROVE  InBounds'
  <1>. USE DEF AccessAssumption, InBounds
  <1>1. epoch' = epoch \/ (epoch < LastEpoch /\ epoch' = epoch + 1)
    BY DEF AccessNext, accessVars, durable, NextTask, Write, Commit, ExploreDone, BranchComplete, JoinComplete,
           ProofSubmitted, VerificationSubmitted, Ask, Answer, Retrieved, Freeze, OpenRound, AccessCancel,
           AccessCrash, AccessMoves
  <1>2. round' = round \/ OpenRound
    BY DEF AccessNext, accessVars, durable, NextTask, Write, Commit, ExploreDone, BranchComplete, JoinComplete,
           ProofSubmitted, VerificationSubmitted, Ask, Answer, Retrieved, Freeze, AccessCancel, AccessCrash
  <1>3. CASE OpenRound
    <2>1. round' = round + 1 /\ round + 1 \in 1..LastRound
      BY <1>3 DEF OpenRound, Prepared
    <2>. QED
      BY <1>1, <2>1
  <1>. QED
    BY <1>1, <1>2, <1>3

(* The types of what the tasks keep, for any number of rounds and branches *)
(* (the run's row, its branches and the vault's memories).                 *)
LEMMA AccessTyped == ASSUME AccessAssumption PROVE AccessSpec => []AccessTypeOK
  <1>1. AccessInit => AccessInv /\ Prepared /\ InBounds
    <2>1. AccessInit => Prepared /\ InBounds
      BY DEF AccessInit, Prepared, NoSnapshot, InBounds, AccessAssumption
    <2>. QED
      BY <2>1, InitAccess
  <1>2. AccessInv /\ Prepared /\ InBounds /\ [AccessNext]_accessVars => AccessInv' /\ Prepared' /\ InBounds'
    BY NextAccess, NextPrepared, NextInBounds
  <1>3. AccessInv /\ Prepared /\ InBounds => AccessTypeOK
    BY DEF AccessInv, AccessType, InBounds, AccessTypeOK
  <1>. QED
    BY <1>1, <1>2, <1>3, PTL DEF AccessSpec

-----------------------------------------------------------------------------
(***************************************************************************)
(* The sources.                                                            *)
(***************************************************************************)

Keys == Given \cup Papers
Auditable == 1..Cardinality(Keys)
Stored == {i \in Sources : \E n \in DOMAIN stored : stored[n].source = i}
SearchRoles == {Roles[s] : s \in DOMAIN Roles}

SearchOK(k) ==
    \/ k = NotSearching
    \/ /\ k \in [at : {"item", "insert", "store"}, role : SearchRoles, items : Seq(Papers),
                 row : Nat, done : SUBSET Nat]
       /\ k.done \subseteq Stored
       /\ k.at = "store" => k.row \in Sources
       /\ k.at # "item" => k.items # <<>>

(* The rows of the registry have keys of their own.                        *)
KeysApart ==
    /\ registry \in Seq(Keys)
    /\ \A i, j \in Sources : registry[i] = registry[j] => i = j

(* What is stored is registered; the text of the owner is stored only of   *)
(* what the owner supplied.                                                *)
StoredOK ==
    /\ stored \in Seq([source : Nat, provider : {"inline", "search"}])
    /\ \A n \in DOMAIN stored :
        /\ stored[n].source \in Sources
        /\ stored[n].provider = "inline" => registry[stored[n].source] \in Given

FoundOK ==
    /\ found = [r \in SearchRoles |-> found[r]]
    /\ \A r \in SearchRoles : found[r] \subseteq Stored

SearchesOK ==
    /\ search = [s \in Searchers |-> search[s]]
    /\ \A s \in Searchers : SearchOK(search[s])

RetrievalOK == StoredOK /\ FoundOK /\ SearchesOK

Certified(i) == audits[i].disposition = "SOURCE_VERIFIED" /\ audits[i].basis = "stored"

AuditsOK ==
    /\ audits = [i \in Auditable |-> audits[i]]
    /\ \A i \in Auditable : Certified(i) => i \in Sources /\ registry[i] \in Given

(* A report that says "correct" is of this round: a judgement that leaves  *)
(* it in the past rewrites it.                                             *)
JudgedOK ==
    /\ rejections \in Nat
    /\ report \in [verdict : {"none", "correct", "wrong"}, round : Nat]
    /\ report.verdict = "correct" => report.round = rejections + 1
    /\ stage = "finalize" => report.verdict = "correct" /\ \A i \in manifest : Covered(i)

SourceInv == KeysApart /\ RetrievalOK /\ AuditsOK /\ JudgedOK

-----------------------------------------------------------------------------
LEMMA IntervalCard == ASSUME NEW n \in Nat PROVE Cardinality(1..n) = n
  BY FS_Interval

LEMMA MapIsSeq == ASSUME NEW S, NEW n \in Nat, NEW f \in [1..n -> S] PROVE f \in Seq(S) /\ Len(f) = n
  OBVIOUS

(* There are no more rows than keys.                                       *)
LEMMA RowsAuditable ==
    ASSUME KeysApart, IsFiniteSet(Keys)
    PROVE  Sources \subseteq Auditable
  <1>1. Len(registry) \in Nat /\ DOMAIN registry = 1..Len(registry)
    BY DEF KeysApart
  <1>2. registry \in Injection(1..Len(registry), Keys)
    BY <1>1 DEF KeysApart, Sources, Injection, IsInjective
  <1>3. Cardinality(1..Len(registry)) <= Cardinality(Keys) /\ Cardinality(Keys) \in Nat
    BY <1>2, FS_Injection, FS_CardinalityType
  <1>4. Cardinality(1..Len(registry)) = Len(registry)
    BY <1>1, IntervalCard
  <1>. QED
    BY <1>1, <1>3, <1>4 DEF Sources, Auditable

LEMMA InitSources == ASSUME IsFiniteSet(Given) PROVE EvidenceInit => SourceInv
  <1>. SUFFICES ASSUME EvidenceInit PROVE SourceInv
    OBVIOUS
  <1> DEFINE N == Cardinality(Given)
  <1>1. N \in Nat /\ IsFiniteSet(1..N) /\ Cardinality(1..N) = N
    BY FS_CardinalityType, FS_Interval
  <1>2. /\ registry \in [1..N -> Given] /\ \A k \in Given : \E i \in 1..N : registry[i] = k
    BY DEF EvidenceInit
  <1>3. registry \in Injection(1..N, Given)
    <2>1. registry \in Surjection(1..N, Given)
      BY <1>2 DEF Surjection
    <2>. QED
      BY <1>1, <2>1, FS_SurjSameCardinalityImpliesInj
  <1>4. registry \in Seq(Keys) /\ Len(registry) = N /\ Sources = 1..N
    BY <1>1, <1>2 DEF Keys, Sources
  <1>5. KeysApart
    BY <1>3, <1>4 DEF KeysApart, Injection, IsInjective
  <1>6. RetrievalOK
    <2>1. stored = [i \in 1..N |-> [source |-> i, provider |-> "inline"]]
      BY <1>4 DEF EvidenceInit
    <2>2. stored \in [1..N -> [source : Nat, provider : {"inline", "search"}]]
      BY <1>1, <2>1
    <2>4. stored \in Seq([source : Nat, provider : {"inline", "search"}])
      BY <1>1, <2>2, MapIsSeq
    <2>3. \A n \in DOMAIN stored : stored[n].source \in Sources /\ registry[stored[n].source] \in Given
      BY <1>2, <1>4, <2>1
    <2>. QED
      BY <2>4, <2>3 DEF EvidenceInit, RetrievalOK, StoredOK, FoundOK, SearchesOK, SearchRoles, SearchOK
  <1>7. AuditsOK
    BY DEF EvidenceInit, AuditsOK, NoAudit, Certified, Auditable, Keys
  <1>8. JudgedOK
    BY DEF EvidenceInit, JudgedOK, NoReport
  <1>. QED
    BY <1>5, <1>6, <1>7, <1>8 DEF SourceInv

-----------------------------------------------------------------------------
(* Registering and storing only adds: what was found stays registered.     *)

(* What an action that touches neither the registry nor the audits, the    *)
(* report and the stage leaves alone.                                      *)
Grows == Sources \subseteq Sources' /\ Stored \subseteq Stored'

LEMMA SearchKept ==
    ASSUME NEW k, SearchOK(k), Grows
    PROVE  SearchOK(k)'
  BY DEF SearchOK, Grows

LEMMA SearchStepTo ==
    ASSUME SearchesOK, Grows, NEW s \in Searchers, NEW k, SearchOK(k)',
           search' = [search EXCEPT ![s] = k]
    PROVE  SearchesOK'
  <1>1. search' = [x \in Searchers |-> search'[x]]
    BY DEF SearchesOK
  <1>2. ASSUME NEW x \in Searchers PROVE SearchOK(search[x])'
    <2>1. CASE x = s
      <3>1. search'[x] = k
        BY <2>1 DEF SearchesOK
      <3>. QED
        BY <3>1 DEF SearchOK
    <2>2. CASE x # s
      <3>1. search'[x] = search[x] /\ SearchOK(search[x])
        BY <2>2 DEF SearchesOK
      <3>2. PICK j : j = search[x]
        OBVIOUS
      <3>3. SearchOK(j)
        BY <3>1, <3>2 DEF SearchOK
      <3>4. SearchOK(j)'
        BY <3>3, SearchKept
      <3>. QED
        BY <3>1, <3>2, <3>4 DEF SearchOK
    <2>. QED
      BY <2>1, <2>2
  <1>. QED
    BY <1>1, <1>2 DEF SearchesOK

LEMMA SearchStep ==
    ASSUME SearchesOK, Grows, NEW s \in Searchers, NEW k, SearchOK(k),
           search' = [search EXCEPT ![s] = k]
    PROVE  SearchesOK'
  BY SearchKept, SearchStepTo

LEMMA SameRegistry == ASSUME KeysApart, UNCHANGED registry PROVE KeysApart'
  BY DEF KeysApart, Sources

LEMMA FoundKept ==
    ASSUME FoundOK, Grows, UNCHANGED found
    PROVE  FoundOK'
  BY DEF FoundOK, Grows

LEMMA SameRows ==
    ASSUME UNCHANGED <<registry, stored>>
    PROVE  /\ Grows /\ (KeysApart => KeysApart') /\ (StoredOK => StoredOK')
           /\ Sources' = Sources /\ Stored' = Stored
  BY DEF Grows, Sources, Stored, KeysApart, StoredOK

(* The paper and the verdict of an action of the retrievals.               *)
LEMMA SamePaper ==
    ASSUME JudgedOK, UNCHANGED <<stage, rejections, audits, paper>>
    PROVE  JudgedOK'
  BY DEF JudgedOK, paper, Covered

LEMMA SameAudits ==
    ASSUME AuditsOK, UNCHANGED <<registry, audits>>
    PROVE  AuditsOK'
  BY DEF AuditsOK, Certified, Sources, Auditable, Keys

-----------------------------------------------------------------------------
(* The retrievals.                                                         *)

LEMMA AnswersAreSequences == Answers \subseteq Seq(Papers)
  <1>. SUFFICES ASSUME NEW items \in Answers PROVE items \in Seq(Papers)
    OBVIOUS
  <1>1. CASE items = <<>>
    BY <1>1
  <1>2. ASSUME NEW p \in Papers, items = <<p>> PROVE items \in Seq(Papers)
    BY <1>2
  <1>3. ASSUME NEW p \in Papers, NEW q \in Papers, items = <<p, q>> PROVE items \in Seq(Papers)
    BY <1>3
  <1>. QED
    BY <1>1, <1>2, <1>3 DEF Answers

LEMMA AskStep ==
    ASSUME SourceInv, NEW s \in Searchers, AskProvider(s)
    PROVE  SourceInv'
  <1>. USE DEF SourceInv, RetrievalOK
  <1>1. UNCHANGED <<registry, stored, stage, rejections, audits, found, paper>> /\ stage \in DOMAIN Roles
    BY DEF AskProvider
  <1>2. PICK items \in Answers :
           search' = [search EXCEPT ![s] =
             [at |-> "item", role |-> Roles[stage], items |-> items, row |-> 0, done |-> {}]]
    BY DEF AskProvider
  <1>3. PICK k : k = [at |-> "item", role |-> Roles[stage], items |-> items, row |-> 0, done |-> {}]
    OBVIOUS
  <1>4. SearchOK(k)
    BY <1>1, <1>3, AnswersAreSequences DEF SearchOK, SearchRoles
  <1>5. SearchesOK'
    BY <1>1, <1>2, <1>3, <1>4, SameRows, SearchStep
  <1>. QED
    BY <1>1, <1>5, SameRows, FoundKept, SamePaper, SameAudits

LEMMA LookUpStep ==
    ASSUME SourceInv, NEW s \in Searchers, LookUp(s)
    PROVE  SourceInv'
  <1>. USE DEF SourceInv, RetrievalOK
  <1>1. UNCHANGED <<registry, stored, stage, rejections, audits, found, paper>>
    BY DEF LookUp
  <1>2. SearchOK(search[s]) /\ search[s].at = "item" /\ search[s].items # <<>> /\ search[s] # NotSearching
    BY DEF LookUp, SearchesOK, NotSearching, SearchOK
  <1> DEFINE known == {i \in Sources : registry[i] = Head(search[s].items)}
  <1>3. search' = [search EXCEPT ![s] =
            IF known = {} THEN [@ EXCEPT !.at = "insert"]
            ELSE [@ EXCEPT !.at = "store", !.row = CHOOSE i \in known : TRUE]]
    BY DEF LookUp
  <1>4. PICK k : k = IF known = {} THEN [search[s] EXCEPT !.at = "insert"]
                     ELSE [search[s] EXCEPT !.at = "store", !.row = CHOOSE i \in known : TRUE]
    OBVIOUS
  <1>5. SearchOK(k)
    <2>1. CASE known = {}
      BY <1>2, <1>4, <2>1 DEF SearchOK
    <2>2. CASE known # {}
      <3>1. PICK row : row = CHOOSE i \in known : TRUE
        OBVIOUS
      <3>2. row \in Sources /\ row \in Nat
        BY <2>2, <3>1 DEF Sources, KeysApart
      <3>. QED
        BY <1>2, <1>4, <2>2, <3>1, <3>2 DEF SearchOK
    <2>. QED
      BY <2>1, <2>2
  <1>6. search' = [search EXCEPT ![s] = k]
    BY <1>3, <1>4 DEF SearchesOK
  <1>. QED
    BY <1>1, <1>5, <1>6, SameRows, SearchStep, SearchKept, FoundKept, SamePaper, SameAudits

LEMMA RegisterStep ==
    ASSUME SourceInv, NEW s \in Searchers, Register(s)
    PROVE  SourceInv'
  <1>. USE DEF SourceInv, RetrievalOK
  <1>1. UNCHANGED <<stored, stage, rejections, audits, found, paper>>
    BY DEF Register
  <1>2. /\ SearchOK(search[s]) /\ search[s].at = "insert" /\ search[s] # NotSearching
        /\ search[s].items \in Seq(Papers) /\ search[s].items # <<>>
    BY DEF Register, SearchesOK, NotSearching, SearchOK
  <1>3. PICK key : key = Head(search[s].items)
    OBVIOUS
  <1>4. key \in Papers
    BY <1>2, <1>3
  <1>5. CASE \E i \in Sources : registry[i] = key
    <2>1. registry' = registry /\ search' = [search EXCEPT ![s] = NotSearching]
      BY <1>3, <1>5 DEF Register
    <2>2. SearchOK(NotSearching)
      BY DEF SearchOK
    <2>3. PICK k : k = NotSearching
      OBVIOUS
    <2>. QED
      BY <1>1, <2>1, <2>2, <2>3, SameRows, SearchStep, FoundKept, SamePaper, SameAudits
  <1>6. CASE ~ \E i \in Sources : registry[i] = key
    <2>1. registry' = Append(registry, key)
      BY <1>3, <1>6 DEF Register
    <2>2. /\ registry' \in Seq(Keys) /\ Len(registry') = Len(registry) + 1
          /\ Len(registry) \in Nat
          /\ registry'[Len(registry) + 1] = key
          /\ \A i \in 1..Len(registry) : registry'[i] = registry[i]
      BY <1>4, <2>1 DEF KeysApart, Keys
    <2>3. Sources' = Sources \cup {Len(registry) + 1} /\ Len(registry) + 1 \notin Sources
      BY <2>2 DEF Sources
    <2>4. KeysApart'
      <3>. SUFFICES ASSUME NEW i \in Sources', NEW j \in Sources', registry'[i] = registry'[j] PROVE i = j
        BY <2>2 DEF KeysApart
      <3>1. ASSUME NEW m \in Sources PROVE registry'[m] = registry[m] /\ registry[m] # key
        BY <1>6, <2>2 DEF Sources
      <3>. QED
        BY <2>2, <2>3, <3>1 DEF KeysApart
    <2>5. Grows
      BY <1>1, <2>3 DEF Grows, Stored
    <2>6. StoredOK'
      <3>1. ASSUME NEW m \in Sources PROVE registry'[m] = registry[m]
        BY <2>2 DEF Sources
      <3>. QED
        BY <1>1, <2>3, <3>1 DEF StoredOK
    <2>7. AuditsOK'
      <3>1. ASSUME NEW m \in Sources PROVE registry'[m] = registry[m]
        BY <2>2 DEF Sources
      <3>. QED
        BY <1>1, <2>3, <3>1 DEF AuditsOK, Certified, Auditable, Keys
    <2>8. PICK k : k = [search[s] EXCEPT !.at = "store", !.row = Len(registry) + 1]
      OBVIOUS
    <2>9. search' = [search EXCEPT ![s] = k]
      BY <1>3, <1>6, <2>8 DEF Register, SearchesOK
    <2>10. SearchOK(k)'
      <3>1. k \in [at : {"item", "insert", "store"}, role : SearchRoles, items : Seq(Papers),
                   row : Nat, done : SUBSET Nat]
        <4>1. PICK row : row = Len(registry) + 1
          OBVIOUS
        <4>2. row \in Nat /\ k = [search[s] EXCEPT !.at = "store", !.row = row]
          BY <2>2, <2>8, <4>1
        <4>. QED
          BY <1>2, <4>2 DEF SearchOK
      <3>2. k.done = search[s].done /\ k.row = Len(registry) + 1 /\ k.items = search[s].items
        BY <1>2, <2>8 DEF SearchOK
      <3>. QED
        BY <1>2, <2>3, <2>5, <3>1, <3>2 DEF SearchOK, Grows
    <2>11. SearchesOK'
      BY <2>5, <2>9, <2>10, SearchStepTo
    <2>. QED
      BY <1>1, <2>4, <2>5, <2>6, <2>7, <2>11, FoundKept, SamePaper
  <1>. QED
    BY <1>5, <1>6

LEMMA StoreStep ==
    ASSUME SourceInv, NEW s \in Searchers, Store(s)
    PROVE  SourceInv'
  <1>. USE DEF SourceInv, RetrievalOK
  <1>1. UNCHANGED <<registry, stage, rejections, audits, found, paper>>
    BY DEF Store
  <1>2. /\ SearchOK(search[s]) /\ search[s].at = "store" /\ search[s] # NotSearching
        /\ search[s].row \in Sources /\ search[s].row \in Nat
        /\ search[s].items \in Seq(Papers) /\ search[s].items # <<>>
    BY DEF Store, SearchesOK, NotSearching, SearchOK
  <1>3. PICK row : row = search[s].row
    OBVIOUS
  <1>4. stored' = Append(stored, [source |-> row, provider |-> "search"])
    BY <1>3 DEF Store
  <1>5. /\ stored' \in Seq([source : Nat, provider : {"inline", "search"}])
        /\ DOMAIN stored' = DOMAIN stored \cup {Len(stored) + 1}
        /\ stored'[Len(stored) + 1] = [source |-> row, provider |-> "search"]
        /\ \A n \in DOMAIN stored : stored'[n] = stored[n]
    BY <1>2, <1>3, <1>4 DEF StoredOK
  <1>6. Sources' = Sources
    BY <1>1 DEF Sources
  <1>7. StoredOK'
    BY <1>1, <1>2, <1>3, <1>5, <1>6 DEF StoredOK
  <1>8. Grows /\ row \in Stored'
    <2>1. Stored \subseteq Stored'
      BY <1>5, <1>6 DEF Stored
    <2>2. row \in Stored'
      BY <1>2, <1>3, <1>5, <1>6 DEF Stored
    <2>. QED
      BY <1>6, <2>1, <2>2 DEF Grows
  <1>9. PICK k : k = [at |-> "item", role |-> search[s].role, items |-> Tail(search[s].items), row |-> 0,
                      done |-> search[s].done \cup {search[s].row}]
    OBVIOUS
  <1>10. search' = [search EXCEPT ![s] = k]
    BY <1>9 DEF Store
  <1>11. SearchOK(k)'
    <2>1. Tail(search[s].items) \in Seq(Papers) /\ search[s].done \cup {row} \subseteq Nat
      BY <1>2, <1>3 DEF SearchOK
    <2>2. k \in [at : {"item", "insert", "store"}, role : SearchRoles, items : Seq(Papers),
                 row : Nat, done : SUBSET Nat]
      BY <1>2, <1>3, <1>9, <2>1 DEF SearchOK
    <2>3. k.done = search[s].done \cup {row} /\ k.at = "item"
      BY <1>2, <1>3, <1>9 DEF SearchOK
    <2>. QED
      BY <1>2, <1>8, <2>2, <2>3 DEF SearchOK, Grows
  <1>12. SearchesOK'
    BY <1>8, <1>10, <1>11, SearchStepTo
  <1>. QED
    BY <1>1, <1>7, <1>8, <1>12, FoundKept, SamePaper, SameAudits, SameRegistry

LEMMA AnswerStep ==
    ASSUME SourceInv, NEW s \in Searchers, AnswerSearch(s)
    PROVE  SourceInv'
  <1>. USE DEF SourceInv, RetrievalOK
  <1>1. UNCHANGED <<registry, stored, stage, rejections, audits, paper>>
    BY DEF AnswerSearch
  <1>2. SearchOK(search[s]) /\ search[s].at = "item" /\ search[s] # NotSearching
    BY DEF AnswerSearch, SearchesOK, NotSearching
  <1>3. search[s].role \in SearchRoles /\ search[s].done \subseteq Stored
    BY <1>2 DEF SearchOK
  <1>4. found' = [found EXCEPT ![search[s].role] = @ \cup search[s].done]
    BY DEF AnswerSearch
  <1>5. FoundOK'
    <2>1. Stored' = Stored
      BY <1>1, SameRows
    <2>2. found' = [r \in SearchRoles |-> found'[r]] /\ \A r \in SearchRoles : found'[r] \subseteq Stored
      BY <1>3, <1>4 DEF FoundOK
    <2>. QED
      BY <2>1, <2>2 DEF FoundOK, SearchRoles
  <1>6. search' = [search EXCEPT ![s] = NotSearching] /\ SearchOK(NotSearching)
    BY DEF AnswerSearch, SearchOK
  <1>7. PICK k : k = NotSearching
    OBVIOUS
  <1>. QED
    BY <1>1, <1>5, <1>6, <1>7, SameRows, SearchStep, SamePaper, SameAudits

LEMMA CrashStep == ASSUME SourceInv, EvidenceCrash PROVE SourceInv'
  <1>. USE DEF SourceInv, RetrievalOK
  <1>1. UNCHANGED <<registry, stored, stage, rejections, audits, found, paper>>
    BY DEF EvidenceCrash
  <1>2. search' = [s \in Searchers |-> NotSearching]
    BY DEF EvidenceCrash
  <1>3. SearchesOK'
    BY <1>2 DEF SearchesOK, SearchOK, NotSearching
  <1>. QED
    BY <1>1, <1>3, SameRows, FoundKept, SamePaper, SameAudits

-----------------------------------------------------------------------------
(* The tasks of the writer and of the verifier.  None of them touches what *)
(* is registered, stored or searched.                                      *)

LEMMA SameRetrieval ==
    ASSUME KeysApart, RetrievalOK, UNCHANGED <<registry, stored, found, search>>
    PROVE  KeysApart' /\ RetrievalOK'
  <1>1. SearchesOK'
    <2>1. ASSUME NEW x \in Searchers PROVE SearchOK(search[x])'
      <3>1. PICK j : j = search[x]
        OBVIOUS
      <3>2. SearchOK(j)
        BY <3>1 DEF RetrievalOK, SearchesOK, SearchOK
      <3>3. SearchOK(j)'
        BY <3>2, SameRows, SearchKept
      <3>. QED
        BY <3>1, <3>3 DEF SearchOK
    <2>2. search' = [x \in Searchers |-> search'[x]]
      BY DEF RetrievalOK, SearchesOK
    <2>. QED
      BY <2>1, <2>2 DEF SearchesOK
  <1>. QED
    BY <1>1, SameRows, FoundKept DEF RetrievalOK

(* Every task but the judgement leaves the round, and none but it may end  *)
(* in "finalize".                                                          *)
LEMMA TaskStep ==
    ASSUME SourceInv, Assemble \/ WriteProof \/ WriteManifest \/ SubmitProof \/ WriteChecks \/ WriteReport
    PROVE  SourceInv'
  <1>. USE DEF SourceInv
  <1>1. UNCHANGED <<registry, stored, found, search, audits, rejections>>
    BY DEF Assemble, WriteProof, WriteManifest, SubmitProof, WriteChecks, WriteReport, still
  <1>2. stage' # "finalize"
    BY DEF Assemble, WriteProof, WriteManifest, SubmitProof, WriteChecks, WriteReport, Writing
  <1>3. report' = report \/ report' \in [verdict : {"correct", "wrong"}, round : {rejections + 1}]
    BY DEF Assemble, WriteProof, WriteManifest, SubmitProof, WriteChecks, WriteReport, paper
  <1>4. JudgedOK'
    <2>1. report' \in [verdict : {"none", "correct", "wrong"}, round : Nat]
      BY <1>3 DEF JudgedOK
    <2>2. report'.verdict = "correct" => report'.round = rejections + 1
      BY <1>3 DEF JudgedOK
    <2>. QED
      BY <1>1, <1>2, <2>1, <2>2 DEF JudgedOK
  <1>. QED
    BY <1>1, <1>4, SameRetrieval, SameAudits

LEMMA WriteAuditStep == ASSUME SourceInv, WriteAudit PROVE SourceInv'
  <1>. USE DEF SourceInv
  <1>1. UNCHANGED <<stage, rejections, registry, stored, found, search, paper>> /\ stage = "verify"
    BY DEF WriteAudit
  <1>2. PICK i \in Sources, basis \in Bases :
          /\ Shown(i, basis)
          /\ audits' = [audits EXCEPT ![i] =
                  [disposition |-> Disposition(basis), basis |-> basis, proof |-> draft]]
    BY DEF WriteAudit
  <1>3. basis = "stored" => registry[i] \in Given
    BY <1>2 DEF Shown, RetrievalOK, StoredOK
  <1>4. AuditsOK'
    <2>1. audits' = [m \in Auditable |-> audits'[m]]
      BY <1>2 DEF AuditsOK
    <2>2. ASSUME NEW m \in Auditable, Certified(m)' PROVE m \in Sources /\ registry[m] \in Given
      <3>1. CASE m = i
        <4>1. audits'[m].basis = basis
          BY <1>2, <2>2, <3>1 DEF AuditsOK
        <4>. QED
          BY <1>3, <2>2, <3>1, <4>1 DEF Certified
      <3>2. CASE m # i
        BY <1>2, <2>2, <3>2 DEF AuditsOK, Certified
      <3>. QED
        BY <3>1, <3>2
    <2>. QED
      BY <1>1, <2>1, <2>2 DEF AuditsOK, Sources, Auditable, Keys
  <1>5. JudgedOK'
    BY <1>1 DEF JudgedOK, paper
  <1>. QED
    BY <1>1, <1>4, <1>5, SameRetrieval

LEMMA JudgeStep == ASSUME SourceInv, Judge PROVE SourceInv'
  <1>. USE DEF SourceInv
  <1>1. UNCHANGED <<registry, stored, audits, found, search, manifest>> /\ report # NoReport
    BY DEF Judge
  <1>2. JudgedOK'
    <2>1. CASE report.verdict = "correct" /\ Gaps = {}
      BY <1>1, <2>1 DEF Judge, JudgedOK, Gaps, Covered
    <2>2. CASE ~ (report.verdict = "correct" /\ Gaps = {})
      <3>1. /\ rejections' = rejections + 1 /\ stage' \in {"repair", "explore"}
            /\ report' = [report EXCEPT !.verdict = "wrong"]
        BY <2>2 DEF Judge
      <3>2. report' \in [verdict : {"none", "correct", "wrong"}, round : Nat] /\ report'.verdict = "wrong"
        BY <3>1 DEF JudgedOK
      <3>. QED
        BY <3>1, <3>2 DEF JudgedOK
    <2>. QED
      BY <2>1, <2>2
  <1>. QED
    BY <1>1, <1>2, SameRetrieval, SameAudits

-----------------------------------------------------------------------------
(* The theorems.                                                           *)

LEMMA NextSources == SourceInv /\ [EvidenceNext]_evidenceVars => SourceInv'
  <1>. SUFFICES ASSUME SourceInv, [EvidenceNext]_evidenceVars PROVE SourceInv'
    OBVIOUS
  <1>1. CASE Retrieval
    BY <1>1, AskStep, LookUpStep, RegisterStep, StoreStep, AnswerStep DEF Retrieval
  <1>2. CASE EvidenceCrash
    BY <1>2, CrashStep
  <1>3. CASE Assemble \/ WriteProof \/ WriteManifest \/ SubmitProof
    BY <1>3, TaskStep
  <1>4. CASE Verification
    BY <1>4, TaskStep, WriteAuditStep, JudgeStep DEF Verification
  <1>5. CASE UNCHANGED evidenceVars
    <2>1. UNCHANGED <<registry, stored, found, search, stage, rejections, audits, paper>>
      BY <1>5 DEF evidenceVars, paper
    <2>. QED
      BY <2>1, SameRetrieval, SamePaper, SameAudits DEF SourceInv
  <1>. QED
    BY <1>1, <1>2, <1>3, <1>4, <1>5 DEF EvidenceNext

LEMMA SourceInvariant == ASSUME IsFiniteSet(Given) PROVE EvidenceSpec => []SourceInv
  BY InitSources, NextSources, PTL DEF EvidenceSpec

(* What the paper and the counters range over.                             *)
PaperOK ==
    /\ stage \in {"explore", "assemble", "verify", "repair", "finalize"}
    /\ rejections \in 0..MaxRejections /\ Len(stored) <= MaxSnapshots
    /\ draft \in PaperProofs \cup {NoDraft} /\ rejected \in PaperProofs \cup {NoDraft}
    /\ manifest \subseteq Sources

LEMMA NextPaper ==
    ASSUME SourceAssumption, SourceInv, PaperOK, [EvidenceNext]_evidenceVars
    PROVE  PaperOK'
  <1>. USE DEF PaperOK
  <1>1. MaxRejections \in Nat /\ MaxSnapshots \in Nat
    BY DEF SourceAssumption
  <1>2. registry \in Seq(Keys) /\ stored \in Seq([source : Nat, provider : {"inline", "search"}])
    BY DEF SourceInv, KeysApart, RetrievalOK, StoredOK
  <1>3. CASE Retrieval \/ EvidenceCrash
    <2>1. UNCHANGED <<stage, rejections, paper>>
      BY <1>3 DEF Retrieval, EvidenceCrash, AskProvider, LookUp, Register, Store, AnswerSearch
    <2>2. registry' = registry \/ \E s \in Searchers : registry' = Append(registry, Head(search[s].items))
      BY <1>3 DEF Retrieval, EvidenceCrash, AskProvider, LookUp, Register, Store, AnswerSearch
    <2>3. Sources \subseteq Sources'
      BY <1>2, <2>2 DEF Sources
    <2>4. stored' = stored \/ \E e : Len(stored) < MaxSnapshots /\ stored' = Append(stored, e)
      BY <1>3 DEF Retrieval, EvidenceCrash, AskProvider, LookUp, Register, Store, AnswerSearch
    <2>5. Len(stored') <= MaxSnapshots
      BY <1>1, <1>2, <2>4
    <2>. QED
      BY <2>1, <2>3, <2>5 DEF paper
  <1>4. CASE Assemble \/ WriteProof \/ WriteManifest \/ SubmitProof
    <2>1. UNCHANGED <<registry, stored, rejections, rejected>>
      BY <1>4 DEF Assemble, WriteProof, WriteManifest, SubmitProof, still, paper
    <2>2. /\ stage' \in {stage, "assemble", "verify"} /\ draft' \in PaperProofs \cup {draft}
          /\ manifest' \in SUBSET Sources
      BY <1>4 DEF Assemble, WriteProof, WriteManifest, SubmitProof, still, paper
    <2>. QED
      BY <2>1, <2>2 DEF Sources
  <1>5. CASE Verification
    <2>1. /\ UNCHANGED <<registry, stored, draft, manifest>> /\ rejected' \in {rejected, draft}
          /\ stage' \in {stage, "finalize", "repair", "explore"}
      BY <1>5 DEF Verification, WriteAudit, WriteChecks, WriteReport, Judge, still, paper
    <2>2. rejections' = rejections \/ (rejections < MaxRejections /\ rejections' = rejections + 1)
      BY <1>5 DEF Verification, WriteAudit, WriteChecks, WriteReport, Judge, still, paper
    <2>. QED
      BY <1>1, <2>1, <2>2 DEF Sources
  <1>6. CASE UNCHANGED evidenceVars
    BY <1>6 DEF evidenceVars, Sources
  <1>. QED
    BY <1>3, <1>4, <1>5, <1>6 DEF EvidenceNext

(* The types of what is registered, stored and judged, for any number of   *)
(* sources (references_registry, source_snapshots, proof_manifests).       *)
LEMMA EvidenceTyped == ASSUME SourceAssumption PROVE EvidenceSpec => []EvidenceTypeOK
  <1>1. EvidenceInit => SourceInv /\ PaperOK
    <2>. SUFFICES ASSUME EvidenceInit PROVE SourceInv /\ PaperOK
      OBVIOUS
    <2>1. SourceInv
      BY InitSources DEF SourceAssumption
    <2>2. Len(registry) = Cardinality(Given)
      <3>1. Cardinality(Given) \in Nat
        BY FS_CardinalityType DEF SourceAssumption
      <3>2. registry \in [1..Cardinality(Given) -> Given]
        BY DEF EvidenceInit
      <3>. QED
        BY <3>1, <3>2, MapIsSeq
    <2>3. Len(stored) = Len(registry)
      <3>1. stored = [i \in 1..Len(registry) |-> [source |-> i, provider |-> "inline"]]
        BY DEF EvidenceInit
      <3>2. Len(registry) \in Nat
        BY <2>1 DEF SourceInv, KeysApart
      <3>3. stored \in [1..Len(registry) -> {stored[i] : i \in 1..Len(registry)}]
        BY <3>1
      <3>. QED
        BY <3>2, <3>3, MapIsSeq
    <2>4. MaxRejections \in Nat /\ Cardinality(Given) <= MaxSnapshots
      BY DEF SourceAssumption
    <2>5. PaperOK
      BY <2>2, <2>3, <2>4 DEF EvidenceInit, PaperOK, Sources
    <2>. QED
      BY <2>1, <2>5
  <1>2. SourceInv /\ PaperOK /\ [EvidenceNext]_evidenceVars => SourceInv' /\ PaperOK'
    BY NextSources, NextPaper
  <1>3. SourceInv /\ PaperOK => EvidenceTypeOK
    BY DEF SourceInv, KeysApart, Keys, PaperOK, EvidenceTypeOK
  <1>. QED
    BY <1>1, <1>2, <1>3, PTL DEF EvidenceSpec

(* A source is registered once, and what a retrieval's record names is     *)
(* registered and stored (retrieve, register_reference), for any number of *)
(* sources, threads and retrievals.                                        *)
THEOREM SourcesAlwaysOnce == ASSUME IsFiniteSet(Given) PROVE EvidenceSpec => []SourcesOnce
  <1>1. SourceInv => SourcesOnce
    <2>. SUFFICES ASSUME SourceInv PROVE SourcesOnce
      OBVIOUS
    <2>1. ASSUME NEW r \in DOMAIN found, NEW i \in found[r]
          PROVE  i \in Sources /\ \E n \in DOMAIN stored : stored[n].source = i
      BY DEF SourceInv, RetrievalOK, FoundOK, Stored
    <2>. QED
      BY <2>1 DEF SourcesOnce, SourceInv, KeysApart
  <1>. QED
    BY <1>1, SourceInvariant, PTL

(* A proof is approved by a report of its own round, with an accepting     *)
(* audit of every source it cites and none accepted on what a search said  *)
(* (commit_verification_submitted, write_reference_audit), for any number  *)
(* of sources, retrievals and rejections.                                  *)
THEOREM ApprovalAlwaysEvidenced ==
    ASSUME IsFiniteSet(Given), IsFiniteSet(Papers)
    PROVE  EvidenceSpec => []ApprovalEvidenced
  <1>1. SourceInv => ApprovalEvidenced
    <2>. SUFFICES ASSUME SourceInv PROVE ApprovalEvidenced
      OBVIOUS
    <2>1. Sources \subseteq Auditable
      BY RowsAuditable, FS_Union DEF SourceInv, Keys
    <2>2. stage = "finalize" => report = [verdict |-> "correct", round |-> rejections + 1]
      BY DEF SourceInv, JudgedOK
    <2>. QED
      BY <2>1, <2>2 DEF ApprovalEvidenced, SourceInv, JudgedOK, AuditsOK, Certified
  <1>. QED
    BY <1>1, SourceInvariant, PTL

(***************************************************************************)
(* The registry of claims and facts.                                       *)
(***************************************************************************)

(***************************************************************************)
(* Closures. The revocation and the views follow the citations of facts in *)
(* rounds, as many as there are facts.                                     *)
(***************************************************************************)

(* A set of numbers that some n is in has a least one.                     *)
LEMMA LeastIn ==
    ASSUME NEW N, N \subseteq Nat, NEW n \in N
    PROVE  \E k \in N : \A m \in N : k <= m
<1>1. PICK k \in N : \A m \in N : <<m, k>> \notin OpToRel(<, Nat)
    BY NatLessThanWellFounded, WFMin
<1>2. OpToRel(<, Nat) = {ss \in Nat \X Nat : ss[1] < ss[2]}  BY DEF OpToRel
<1>3. ASSUME NEW m \in N, m < k PROVE FALSE
  <2>1. <<m, k>> \in {ss \in Nat \X Nat : ss[1] < ss[2]}  BY <1>3
  <2> QED BY <1>1, <1>2, <2>1
<1> QED BY <1>3

(* The rounds of a step, and the sets it keeps.                            *)
IsRounds(r, step, start, L) == r[0] = start /\ \A n \in 1..L : r[n] = step[r[n - 1]]
RoundsIn(r, U, step, L) == \A n \in 1..L : r[n - 1] \in SUBSET U => r[n] = step[r[n - 1]]
KeepsAll(step, c) == \A s \in SUBSET c : step[s] \subseteq c
LeastKept(c, U, step, x) ==
    /\ c \in SUBSET U /\ x \in c /\ step[c] = c
    /\ \A k \in SUBSET U : (x \in k /\ KeepsAll(step, k)) => c \subseteq k

(* What is computed in steps, each from the one before, exists.            *)
IsSteps(r, step, start, L) == r[0] = start /\ \A n \in 1..L : r[n] = step[<<n, r[n - 1]>>]

LEMMA StepsExist ==
    ASSUME NEW T, NEW L \in Nat, NEW step \in [(1..L) \X T -> T], NEW start \in T
    PROVE  \E r \in [0..L -> T] : IsSteps(r, step, start, L)
<1> DEFINE Upto(m) == \E r \in [0..m -> T] : r[0] = start /\ \A n \in 1..m : r[n] = step[<<n, r[n - 1]>>]
           N == {m \in 0..L : ~Upto(m)}
<1>1. Upto(0)
  <2> DEFINE r == [n \in 0..0 |-> start]
  <2>1. r \in [0..0 -> T] /\ r[0] = start /\ \A n \in 1..0 : r[n] = step[<<n, r[n - 1]>>]  OBVIOUS
  <2> QED BY <2>1
<1>2. ASSUME NEW m \in 1..L, Upto(m - 1) PROVE Upto(m)
  <2>1. PICK r \in [0..(m - 1) -> T] : r[0] = start /\ \A n \in 1..(m - 1) : r[n] = step[<<n, r[n - 1]>>]
      BY <1>2
  <2> DEFINE s == [n \in 0..m |-> IF n = m THEN step[<<m, r[m - 1]>>] ELSE r[n]]
  <2>2. s \in [0..m -> T]  OBVIOUS
  <2>3. s[0] = start  BY <2>1
  <2>4. ASSUME NEW n \in 1..m PROVE s[n] = step[<<n, s[n - 1]>>]
    <3>1. CASE n = m
      <4>1. m \in 0..m /\ (m - 1) \in 0..m /\ m - 1 # m  OBVIOUS
      <4>2. s[m] = step[<<m, r[m - 1]>>] /\ s[m - 1] = r[m - 1]  BY <4>1
      <4> HIDE DEF s
      <4> QED BY <4>2, <3>1
    <3>2. CASE n # m
      <4>1. n \in 1..(m - 1) /\ n \in 0..m /\ (n - 1) \in 0..m /\ n - 1 # m  BY <3>2
      <4> QED BY <4>1, <3>2, <2>1
    <3> QED BY <3>1, <3>2
  <2> HIDE DEF s
  <2> QED BY <2>2, <2>3, <2>4
<1> HIDE DEF Upto
<1>3. N = {}
  <2> SUFFICES ASSUME N # {} PROVE FALSE  OBVIOUS
  <2>0. N \subseteq Nat /\ \E n \in N : TRUE  OBVIOUS
  <2>1. PICK k \in N : \A m \in N : k <= m
    <3> HIDE DEF N
    <3> QED BY <2>0, LeastIn
  <2>2. k # 0  BY <1>1
  <2>3. k \in 1..L /\ (k - 1) \in 0..L /\ k - 1 \notin N  BY <2>1, <2>2
  <2> QED BY <1>2, <2>3
<1>4. Upto(L)  BY <1>3
<1> QED BY <1>4 DEF Upto, IsSteps

(* Rounds of one and the same step.                                        *)
LEMMA RoundsExist ==
    ASSUME NEW U, NEW step \in [SUBSET U -> SUBSET U], NEW start \in SUBSET U, NEW L \in Nat
    PROVE  \E r \in [0..L -> SUBSET U] : IsRounds(r, step, start, L)
<1> DEFINE T == SUBSET U
           each == [x \in (1..L) \X T |-> step[x[2]]]
<1>1. each \in [(1..L) \X T -> T] /\ start \in T  OBVIOUS
<1>2. \A n \in 1..L, s \in T : each[<<n, s>>] = step[s]  OBVIOUS
<1> HIDE DEF T, each
<1>3. PICK r \in [0..L -> T] : IsSteps(r, each, start, L)  BY <1>1, StepsExist
<1>4. ASSUME NEW n \in 1..L PROVE r[n] = step[r[n - 1]]
  <2>1. r[n - 1] \in T  OBVIOUS
  <2> QED BY <1>2, <1>3, <2>1 DEF IsSteps
<1> QED BY <1>3, <1>4 DEF IsRounds, IsSteps, T

(* Within as many rounds as there are elements a growing step comes to its *)
(* end, and what it has reached is the least set it keeps.                 *)
LEMMA RoundsClose ==
    ASSUME NEW U, NEW step \in [SUBSET U -> SUBSET U], \A s \in SUBSET U : s \subseteq step[s],
           NEW x \in U, NEW L \in Nat, IsFiniteSet(U), Cardinality(U) <= L,
           NEW r, r[0] = {x}, RoundsIn(r, U, step, L)
    PROVE  LeastKept(r[L], U, step, x)
<1> USE DEF KeepsAll, RoundsIn
<1> DEFINE Ok(n) == /\ r[n] \in SUBSET U /\ x \in r[n]
                    /\ step[r[n]] = r[n] \/ Cardinality(r[n]) > n
                    /\ \A c \in SUBSET U : (x \in c /\ \A s \in SUBSET c : step[s] \subseteq c) => r[n] \subseteq c
           N == {m \in 0..L : ~Ok(m)}
<1>1. Ok(0)
  <2>1. r[0] \in SUBSET U /\ x \in r[0]  OBVIOUS
  <2>2. Cardinality(r[0]) > 0
    <3>1. Cardinality({x}) = 1  BY FS_Singleton
    <3> QED BY <3>1
  <2>3. ASSUME NEW c \in SUBSET U, x \in c PROVE r[0] \subseteq c  BY <2>3
  <2> QED BY <2>1, <2>2, <2>3
<1>2. ASSUME NEW n \in 1..L, Ok(n - 1) PROVE Ok(n)
  <2>1. r[n] = step[r[n - 1]] /\ r[n - 1] \in SUBSET U /\ r[n] \in SUBSET U  BY <1>2
  <2>2. x \in r[n]  BY <2>1, <1>2
  <2>3. step[r[n]] = r[n] \/ Cardinality(r[n]) > n
    <3>1. CASE step[r[n - 1]] = r[n - 1]  BY <3>1, <2>1
    <3>2. CASE step[r[n - 1]] # r[n - 1]
      <4>1. r[n - 1] \subseteq r[n] /\ r[n - 1] # r[n]  BY <3>2, <2>1
      <4>2. IsFiniteSet(r[n])  BY <2>1, FS_Subset
      <4>3. /\ IsFiniteSet(r[n - 1]) /\ Cardinality(r[n - 1]) <= Cardinality(r[n])
            /\ Cardinality(r[n - 1]) # Cardinality(r[n])
          BY <4>1, <4>2, FS_Subset
      <4>4. Cardinality(r[n - 1]) \in Nat /\ Cardinality(r[n]) \in Nat  BY <4>2, <4>3, FS_CardinalityType
      <4>5. Cardinality(r[n - 1]) > n - 1  BY <1>2, <3>2
      <4> QED BY <4>3, <4>4, <4>5
    <3> QED BY <3>1, <3>2
  <2>4. ASSUME NEW c \in SUBSET U, x \in c, \A s \in SUBSET c : step[s] \subseteq c PROVE r[n] \subseteq c
    <3>1. r[n - 1] \in SUBSET c  BY <2>4, <1>2
    <3>2. step[r[n - 1]] \subseteq c  BY <2>1, <2>4, <3>1
    <3> QED BY <2>1, <3>2
  <2> QED BY <2>1, <2>2, <2>3, <2>4
<1> HIDE DEF Ok
<1>3. N = {}
  <2> SUFFICES ASSUME N # {} PROVE FALSE  OBVIOUS
  <2>0. N \subseteq Nat /\ \E n \in N : TRUE  OBVIOUS
  <2>1. PICK k \in N : \A m \in N : k <= m
    <3> HIDE DEF N
    <3> QED BY <2>0, LeastIn
  <2>2. k # 0  BY <1>1
  <2>3. k \in 1..L /\ (k - 1) \in 0..L /\ k - 1 \notin N  BY <2>1, <2>2
  <2> QED BY <1>2, <2>3
<1>4. Ok(L)  BY <1>3
<1>5. step[r[L]] = r[L]
  <2>1. r[L] \in SUBSET U /\ (step[r[L]] = r[L] \/ Cardinality(r[L]) > L)  BY <1>4 DEF Ok
  <2>2. Cardinality(r[L]) <= Cardinality(U)  BY <2>1, FS_Subset
  <2>3. Cardinality(r[L]) \in Nat /\ Cardinality(U) \in Nat  BY <2>1, FS_Subset, FS_CardinalityType
  <2> QED BY <2>1, <2>2, <2>3
<1> QED BY <1>4, <1>5 DEF Ok, LeastKept

-----------------------------------------------------------------------------
(* What f rests on, all the way down.                                      *)
BelowStep == [s \in SUBSET Known |-> s \cup UNION {g.on : g \in s}]
GrownStep == [s \in SUBSET Known |-> Grown(s)]

KnownOK == facts \in Seq(Known) /\ \A f \in Known : f.on \subseteq Known

LEMMA KnownFinite == ASSUME KnownOK PROVE IsFiniteSet(Known) /\ Cardinality(Known) <= Len(facts) /\ Len(facts) \in Nat
<1>1. Len(facts) \in Nat /\ DOMAIN facts = 1..Len(facts) /\ Known = {facts[i] : i \in 1..Len(facts)}
    BY DEF KnownOK, Known, Range
<1>2. IsFiniteSet(1..Len(facts)) /\ Cardinality(1..Len(facts)) = Len(facts)
  <2>1. 1 \in Int /\ Len(facts) \in Int /\ ~(1 > Len(facts) /\ Len(facts) # 0)  BY <1>1
  <2>2. /\ IsFiniteSet(1..Len(facts))
        /\ Cardinality(1..Len(facts)) = IF 1 > Len(facts) THEN 0 ELSE Len(facts) - 1 + 1
      BY <2>1, FS_Interval
  <2> QED BY <1>1, <2>2
<1>3. facts \in Surjection(1..Len(facts), Known)  BY <1>1 DEF KnownOK, Surjection
<1> QED BY <1>1, <1>2, <1>3, FS_Surjection

BelowIsLeast(f) ==
    /\ Below(f) \in SUBSET Known /\ f \in Below(f)
    /\ \A g \in Below(f) : g.on \subseteq Below(f)
    /\ \A c \in SUBSET Known : (f \in c /\ \A g \in c : g.on \subseteq c) => Below(f) \subseteq c

LEMMA BelowLeast == KnownOK => \A f \in Known : BelowIsLeast(f)
<1> SUFFICES ASSUME KnownOK, NEW f \in Known PROVE BelowIsLeast(f)  OBVIOUS
<1> DEFINE L == Len(facts)
           Down(r) == [n \in 0..L |-> IF n = 0 THEN {f} ELSE r[n - 1] \cup UNION {g.on : g \in r[n - 1]}]
<1>1. BelowStep \in [SUBSET Known -> SUBSET Known] /\ \A s \in SUBSET Known : s \subseteq BelowStep[s]
    BY DEF BelowStep, KnownOK
<1>2. PICK q \in [0..L -> SUBSET Known] : q[0] = {f} /\ \A n \in 1..L : q[n] = BelowStep[q[n - 1]]
  <2> DEFINE U == Known  step == BelowStep  start == {f}
  <2>1. step \in [SUBSET U -> SUBSET U] /\ start \in SUBSET U /\ L \in Nat  BY <1>1, KnownFinite
  <2> HIDE DEF L, U, step, start
  <2>2. \E q \in [0..L -> SUBSET U] : IsRounds(q, step, start, L)
      BY <2>1, RoundsExist
  <2> QED BY <2>2 DEF U, step, start, L, IsRounds
<1>3. q = Down(q)
  <2>1. ASSUME NEW n \in 0..L, n # 0 PROVE q[n] = q[n - 1] \cup UNION {g.on : g \in q[n - 1]}
    <3>1. n \in 1..L /\ q[n - 1] \in SUBSET Known  BY <2>1, KnownFinite
    <3> QED BY <3>1, <1>2 DEF BelowStep
  <2> QED BY <1>2, <2>1
<1> DEFINE r == CHOOSE r : r = Down(r)
<1>4. r = Down(r)  BY <1>3
<1>5. Below(f) = r[L]  BY DEF Below
<1> HIDE DEF r
<1>6. r[0] = {f} /\ \A n \in 1..L : r[n] = r[n - 1] \cup UNION {g.on : g \in r[n - 1]}
  <2>1. L \in Nat  BY KnownFinite
  <2>2. r = [n \in 0..L |-> IF n = 0 THEN {f} ELSE r[n - 1] \cup UNION {g.on : g \in r[n - 1]}]  BY <1>4
  <2> HIDE DEF L
  <2>3. r[0] = {f}  BY <2>1, <2>2
  <2>4. ASSUME NEW n \in 1..L PROVE r[n] = r[n - 1] \cup UNION {g.on : g \in r[n - 1]}
    <3>1. n \in 0..L /\ n # 0  BY <2>1
    <3> QED BY <3>1, <2>2
  <2> QED BY <2>3, <2>4
<1>7. \A n \in 1..L : r[n - 1] \in SUBSET Known => r[n] = BelowStep[r[n - 1]]
    BY <1>6 DEF BelowStep
<1>8. /\ r[L] \in SUBSET Known /\ f \in r[L] /\ BelowStep[r[L]] = r[L]
      /\ \A c \in SUBSET Known : (f \in c /\ \A s \in SUBSET c : BelowStep[s] \subseteq c) => r[L] \subseteq c
  <2> DEFINE U == Known  step == BelowStep
  <2>1. L \in Nat /\ IsFiniteSet(U) /\ Cardinality(U) <= L  BY KnownFinite
  <2>2. r[0] = {f} /\ f \in U  BY <1>6
  <2>3. step \in [SUBSET U -> SUBSET U] /\ \A s \in SUBSET U : s \subseteq step[s]  BY <1>1
  <2>4. RoundsIn(r, U, step, L)  BY <1>7 DEF RoundsIn
  <2> HIDE DEF L, U, step
  <2>5. LeastKept(r[L], U, step, f)
      BY <2>1, <2>2, <2>3, <2>4, RoundsClose
  <2> QED BY <2>5 DEF U, step, LeastKept, KeepsAll
<1>9. \A g \in r[L] : g.on \subseteq r[L]  BY <1>8 DEF BelowStep
<1>10. ASSUME NEW c \in SUBSET Known, f \in c, \A g \in c : g.on \subseteq c PROVE r[L] \subseteq c
  <2>1. \A s \in SUBSET c : BelowStep[s] \subseteq c  BY <1>10 DEF BelowStep
  <2> QED BY <1>8, <1>10, <2>1
<1> QED BY <1>5, <1>8, <1>9, <1>10 DEF BelowIsLeast

(* All that rests on f: a fact that rests on one of them is one.           *)
LEMMA DescendantsClosed ==
    ASSUME KnownOK, NEW f \in Known
    PROVE  /\ Descendants(f) \in SUBSET Known /\ f \in Descendants(f)
           /\ \A g \in Known : g.on \cap Descendants(f) # {} => g \in Descendants(f)
<1> DEFINE L == Len(facts)
           Up(r) == [n \in 0..L |-> IF n = 0 THEN {f} ELSE Grown(r[n - 1])]
<1>1. GrownStep \in [SUBSET Known -> SUBSET Known] /\ \A s \in SUBSET Known : s \subseteq GrownStep[s]
    BY DEF GrownStep, Grown
<1>2. PICK q \in [0..L -> SUBSET Known] : q[0] = {f} /\ \A n \in 1..L : q[n] = GrownStep[q[n - 1]]
  <2> DEFINE U == Known  step == GrownStep  start == {f}
  <2>1. step \in [SUBSET U -> SUBSET U] /\ start \in SUBSET U /\ L \in Nat  BY <1>1, KnownFinite
  <2> HIDE DEF L, U, step, start
  <2>2. \E q \in [0..L -> SUBSET U] : IsRounds(q, step, start, L)
      BY <2>1, RoundsExist
  <2> QED BY <2>2 DEF U, step, start, L, IsRounds
<1>3. q = Up(q)
  <2>1. ASSUME NEW n \in 0..L, n # 0 PROVE q[n] = Grown(q[n - 1])
    <3>1. n \in 1..L /\ q[n - 1] \in SUBSET Known  BY <2>1, KnownFinite
    <3> QED BY <3>1, <1>2 DEF GrownStep
  <2> QED BY <1>2, <2>1
<1> DEFINE r == CHOOSE r : r = Up(r)
<1>4. r = Up(r)  BY <1>3
<1>5. Descendants(f) = r[L]  BY DEF Descendants
<1> HIDE DEF r
<1>6. r[0] = {f} /\ \A n \in 1..L : r[n] = Grown(r[n - 1])
  <2>1. L \in Nat  BY KnownFinite
  <2>2. r = [n \in 0..L |-> IF n = 0 THEN {f} ELSE Grown(r[n - 1])]  BY <1>4
  <2> HIDE DEF L
  <2>3. r[0] = {f}  BY <2>1, <2>2
  <2>4. ASSUME NEW n \in 1..L PROVE r[n] = Grown(r[n - 1])
    <3>1. n \in 0..L /\ n # 0  BY <2>1
    <3> QED BY <3>1, <2>2
  <2> QED BY <2>3, <2>4
<1>7. \A n \in 1..L : r[n - 1] \in SUBSET Known => r[n] = GrownStep[r[n - 1]]
    BY <1>6 DEF GrownStep
<1>8. /\ r[L] \in SUBSET Known /\ f \in r[L] /\ GrownStep[r[L]] = r[L]
      /\ \A c \in SUBSET Known : (f \in c /\ \A s \in SUBSET c : GrownStep[s] \subseteq c) => r[L] \subseteq c
  <2> DEFINE U == Known  step == GrownStep
  <2>1. L \in Nat /\ IsFiniteSet(U) /\ Cardinality(U) <= L  BY KnownFinite
  <2>2. r[0] = {f} /\ f \in U  BY <1>6
  <2>3. step \in [SUBSET U -> SUBSET U] /\ \A s \in SUBSET U : s \subseteq step[s]  BY <1>1
  <2>4. RoundsIn(r, U, step, L)  BY <1>7 DEF RoundsIn
  <2> HIDE DEF L, U, step
  <2>5. LeastKept(r[L], U, step, f)
      BY <2>1, <2>2, <2>3, <2>4, RoundsClose
  <2> QED BY <2>5 DEF U, step, LeastKept, KeepsAll
<1>9. \A g \in Known : g.on \cap r[L] # {} => g \in r[L]  BY <1>8 DEF GrownStep, Grown
<1> QED BY <1>5, <1>8, <1>9

LEMMA BelowLeastNext == (KnownOK => \A f \in Known : BelowIsLeast(f))'
BY BelowLeast, PTL

(* What a fact rests on stays what it is while facts are added.             *)
LEMMA BelowStays ==
    ASSUME KnownOK, KnownOK', Known \subseteq Known', NEW f \in Known
    PROVE  Below(f)' = Below(f)
<1>1. BelowIsLeast(f)  BY BelowLeast
<1>3. BelowIsLeast(f)'
  <2>1. \A g \in Known' : BelowIsLeast(g)'  BY BelowLeastNext
  <2> QED BY <2>1
<1>4. Below(f)' \subseteq Below(f)
  <2>1. Below(f) \in SUBSET Known' /\ f \in Below(f) /\ \A g \in Below(f) : g.on \subseteq Below(f)
      BY <1>1 DEF BelowIsLeast
  <2> HIDE DEF Below
  <2> QED BY <1>3, <2>1 DEF BelowIsLeast
<1>5. Below(f) \subseteq Below(f)'
  <2>1. Below(f) \cap Below(f)' \in SUBSET Known  BY <1>1 DEF BelowIsLeast
  <2>2. f \in Below(f) \cap Below(f)'  BY <1>1, <1>3 DEF BelowIsLeast
  <2>3. \A g \in Below(f) \cap Below(f)' : g.on \subseteq Below(f) \cap Below(f)'
      BY <1>1, <1>3 DEF BelowIsLeast
  <2>4. Below(f) \subseteq Below(f) \cap Below(f)'  BY <1>1, <2>1, <2>2, <2>3 DEF BelowIsLeast
  <2> QED BY <2>4
<1> QED BY <1>4, <1>5

(***************************************************************************)
(* The invariant.                                                          *)
(***************************************************************************)

Ids == {Id(v) : v \in revisions}
IdSpace == [claim : Claims, number : Nat]

RevisionRows ==
    [claim : Claims, number : Nat, active : BOOLEAN, hypotheses : SUBSET Hypotheses,
     fact : Known \cup {NoFact}, run : Provers \cup {NoRun}, deps : SUBSET IdSpace]

RowsOK ==
    /\ revisions \in SUBSET RevisionRows
    /\ \A v, w \in revisions : Id(v) = Id(w) => v = w

(* The revisions of c are numbered 1 .. n, and the last one is active.     *)
RowsOf(c) == {v \in revisions : v.claim = c}
LineTo(c, n) ==
    /\ {v.number : v \in RowsOf(c)} = 1..n
    /\ \A v \in RowsOf(c) : v.active <=> v.number = n
LineOK == \A c \in Claims : \E n \in Nat : LineTo(c, n)

(* What a revision depends on is there and is taken up by it.              *)
DepsOK ==
    \A v \in revisions : \A d \in v.deps :
        d \in Ids /\ RowOf(d).fact \in v.fact.on /\ RowOf(d).hypotheses \subseteq v.hypotheses

(* The proofs: what they may depend on is promoted.                        *)
Promoted == {v \in revisions : Proved(v)}
ManifestSpace ==
    [lemma : Lemmas \cup {"none"}, lemmaCites : SUBSET Known, cites : SUBSET Known, deps : SUBSET IdSpace,
     hypotheses : SUBSET Hypotheses]
ProofRows ==
    [stage : {"none"}]
        \cup [stage : {"snapshot"}, claim : Claims, snapshot : SUBSET IdSpace]
        \cup [stage : {"linked", "done"}, claim : Claims, snapshot : SUBSET IdSpace,
              base : IdSpace \cup {NoRevision}, outcome : {"none", "conflict", "promoted"},
              revision : IdSpace \cup {NoRevision}, manifest : ManifestSpace]
ProofsOK ==
    /\ proofs \in [Provers -> ProofRows]
    /\ \A r \in Provers : /\ Planned(r) # "none" => proofs[r].snapshot \subseteq {Id(v) : v \in Promoted}
                          /\ Planned(r) = "done" => proofs[r].manifest.deps \subseteq proofs[r].snapshot

(* A promoted revision is the next one after what its run started from.    *)
RunsOK ==
    \A v \in Promoted :
        /\ v.fact \in Known /\ v.run \in Provers /\ Planned(v.run) = "done"
        /\ v.claim = proofs[v.run].claim /\ v.number = proofs[v.run].base.number + 1

(* The batch of a promotion is what its manifest comes to at any time.     *)
BatchOf(r) == Batch(proofs[r].manifest, proofs[r].claim)
PromotionOK(p) ==
    \/ promotions[p] = [at |-> "idle"]
    \/ \E r \in Provers, a \in {"prepared", "agreed", "differs"} :
          Planned(r) = "done" /\ promotions[p] = [at |-> a, run |-> r, batch |-> BatchOf(r)]
PromotionsOK ==
    DOMAIN promotions = Promoters /\ promotions = [p \in Promoters |-> promotions[p]]
        /\ \A p \in Promoters : PromotionOK(p)

StandingClosed == revoked \subseteq Known /\ \A f \in Standing : f.on \subseteq Standing

FindingsOK ==
    /\ findings \in [Provers \X Lemmas ->
            [status : {"none", "active", "verified", "superseded"}, fact : Known \cup {NoFact}]]
    /\ VerifiedStands

(* A view knows its candidates, and nothing below them had been revoked    *)
(* when it read them.                                                      *)
ViewOK ==
    /\ view.at \in {"none", "reading", "shown", "failed"}
    /\ view.at \in {"reading", "shown"} =>
          view.candidates \in SUBSET Known /\ \A f \in view.candidates : Below(f) \cap moment = {}
    /\ ViewComplete

RegistryInv ==
    /\ KnownOK /\ StandingClosed
    /\ RowsOK /\ LineOK /\ DepsOK
    /\ ProofsOK /\ RunsOK /\ PromotionsOK
    /\ FindingsOK /\ ViewOK

-----------------------------------------------------------------------------
(* Revisions and the line they make.                                       *)

LEMMA RowOfId == RowsOK => \A d \in Ids : RowOf(d) \in revisions /\ Id(RowOf(d)) = d
<1> SUFFICES ASSUME RowsOK, NEW d \in Ids PROVE RowOf(d) \in revisions /\ Id(RowOf(d)) = d  OBVIOUS
<1>1. PICK v \in revisions : Id(v) = d  BY DEF Ids
<1> HIDE DEF Id
<1> QED BY <1>1 DEF RowOf

LEMMA RowOfRow == RowsOK => \A v \in revisions, d \in Ids : Id(v) = d => RowOf(d) = v
<1> SUFFICES ASSUME RowsOK, NEW v \in revisions, NEW d \in Ids, Id(v) = d PROVE RowOf(d) = v  OBVIOUS
<1> QED BY RowOfId DEF RowsOK

LEMMA RowOfRowNext == (RowsOK => \A v \in revisions, d \in Ids : Id(v) = d => RowOf(d) = v)'
BY RowOfRow, PTL

(* The revision that is active is the last one.                            *)
LEMMA CurrentIsLast ==
    ASSUME RowsOK, NEW c \in Claims, NEW n \in Nat, LineTo(c, n)
    PROVE  CurrentId(c) = IF n = 0 THEN NoRevision ELSE [claim |-> c, number |-> n]
<1>1. CASE n = 0
  <2>1. RowsOf(c) = {}  BY <1>1 DEF LineTo
  <2>2. ActiveRows(c) = {}  BY <2>1 DEF ActiveRows, RowsOf
  <2> QED BY <1>1, <2>2 DEF CurrentId
<1>2. CASE n # 0
  <2>1. n \in 1..n  BY <1>2
  <2>2. PICK v \in RowsOf(c) : v.number = n  BY <2>1 DEF LineTo
  <2>3. v \in ActiveRows(c)  BY <2>2 DEF LineTo, RowsOf, ActiveRows
  <2>4. ASSUME NEW w \in ActiveRows(c) PROVE w = v
    <3>1. w \in RowsOf(c) /\ w.active  BY <2>4 DEF ActiveRows, RowsOf
    <3>2. w.number = n  BY <3>1 DEF LineTo
    <3>3. Id(w) = Id(v)  BY <3>1, <3>2, <2>2 DEF Id, RowsOf
    <3> QED BY <3>1, <3>3, <2>2 DEF RowsOK, RowsOf
  <2>5. ActiveRows(c) = {v}  BY <2>3, <2>4
  <2>6. Newest({v}) = v  BY <2>2 DEF Newest
  <2> QED BY <1>2, <2>2, <2>5, <2>6 DEF CurrentId, Id, RowsOf
<1> QED BY <1>1, <1>2

(* What a revision keeps for good: everything but being active.            *)
Retired(v) == [v EXCEPT !.active = FALSE]
Alike(v, w) ==
    /\ v.claim = w.claim /\ v.number = w.number /\ v.hypotheses = w.hypotheses
    /\ v.fact = w.fact /\ v.run = w.run /\ v.deps = w.deps
RowsKept == Ids \subseteq Ids' /\ \A d \in Ids : Alike(RowOf(d)', RowOf(d))

LEMMA RetiredRow ==
    ASSUME NEW v \in RevisionRows
    PROVE  Retired(v) \in RevisionRows /\ ~Retired(v).active /\ Alike(Retired(v), v) /\ Id(Retired(v)) = Id(v)
BY DEF Retired, RevisionRows, Alike, Id

LEMMA RowsStay == ASSUME RowsOK, UNCHANGED revisions PROVE RowsKept
<1>1. Ids' = Ids  BY DEF Ids
<1>2. ASSUME NEW d \in Ids PROVE RowOf(d)' = RowOf(d)  BY DEF RowOf
<1> QED BY <1>1, <1>2 DEF RowsKept, Alike

(* The row a replacement adds.                                             *)
Added(row, n) == [row EXCEPT !.number = n]

LEMMA ReplaceIs ==
    ASSUME RowsOK, NEW c \in Claims, NEW n \in Nat, LineTo(c, n), NEW row
    PROVE  Replace(c, row) =
              {IF v.claim = c /\ v.number = n THEN Retired(v) ELSE v : v \in revisions} \cup {Added(row, n + 1)}
<1>1. CurrentId(c) = IF n = 0 THEN NoRevision ELSE [claim |-> c, number |-> n]  BY CurrentIsLast
<1>2. CurrentId(c).number = n  BY <1>1 DEF NoRevision
<1>3. ASSUME NEW v \in revisions
      PROVE  (v.claim = c /\ v.active /\ Id(v) = CurrentId(c)) <=> (v.claim = c /\ v.number = n)
  <2>1. CASE v.claim # c  BY <2>1
  <2>2. CASE v.claim = c
    <3>1. v \in RowsOf(c)  BY <2>2 DEF RowsOf
    <3>2. v.number \in 1..n /\ (v.active <=> v.number = n)  BY <3>1 DEF LineTo
    <3>3. n # 0  BY <3>2
    <3>4. Id(v) = [claim |-> c, number |-> v.number]  BY <2>2 DEF Id
    <3> QED BY <1>1, <2>2, <3>2, <3>3, <3>4
  <2> QED BY <2>1, <2>2
<1> DEFINE L(v) == IF v.claim = c /\ v.active /\ Id(v) = CurrentId(c) THEN [v EXCEPT !.active = FALSE] ELSE v
           R(v) == IF v.claim = c /\ v.number = n THEN Retired(v) ELSE v
<1>4. ASSUME NEW v \in revisions PROVE L(v) = R(v)  BY <1>3 DEF Retired
<1>5. Replace(c, row) = {L(v) : v \in revisions} \cup {Added(row, n + 1)}
    BY <1>2 DEF Replace, Added
<1>6. {L(v) : v \in revisions} = {R(v) : v \in revisions}
  <2> HIDE DEF L, R
  <2> QED BY <1>4
<1> QED BY <1>5, <1>6

(* A replacement keeps every revision but for its being active, and the    *)
(* line goes on with the new one.                                          *)
LEMMA ReplaceKeeps ==
    ASSUME RowsOK, NEW c \in Claims, NEW n \in Nat, LineTo(c, n), NEW row,
           row \in RevisionRows', row.claim = c, row.active, revisions' = Replace(c, row), Known \subseteq Known'
    PROVE  /\ RowsOK' /\ RowsKept
           /\ LineTo(c, n + 1)' /\ \A b \in Claims \ {c} : RowsOf(b)' = RowsOf(b)
           /\ Added(row, n + 1) \in revisions'
           /\ \A v \in revisions' : v = Added(row, n + 1) \/ \E w \in revisions : Alike(v, w) /\ Id(v) = Id(w)
<1> DEFINE new == Added(row, n + 1)
           R(v) == IF v.claim = c /\ v.number = n THEN Retired(v) ELSE v
<1>1. revisions' = {R(v) : v \in revisions} \cup {new}
  <2>1. Replace(c, row) = {R(v) : v \in revisions} \cup {new}  BY ReplaceIs
  <2> QED BY <2>1
<1>2. ASSUME NEW v \in revisions
      PROVE  /\ v \in RevisionRows /\ R(v) \in RevisionRows /\ Alike(R(v), v) /\ Id(R(v)) = Id(v)
             /\ R(v).active <=> (v.active /\ ~(v.claim = c /\ v.number = n))
  <2>1. v \in RevisionRows  BY DEF RowsOK
  <2>2. Alike(v, v)  BY DEF Alike
  <2> QED BY <2>1, <2>2, RetiredRow
<1>3. RevisionRows \subseteq RevisionRows'
  <2>1. SUFFICES ASSUME NEW v \in RevisionRows PROVE v \in RevisionRows'  OBVIOUS
  <2> QED BY DEF RevisionRows, NoFact
<1>4. /\ new \in RevisionRows' /\ new.claim = c /\ new.number = n + 1 /\ new.active
      /\ Id(new) = [claim |-> c, number |-> n + 1]
  BY DEF Added, RevisionRows, Id
<1>5. ASSUME NEW v \in revisions, v.claim = c PROVE v.number \in 1..n /\ (v.active <=> v.number = n)
  <2>1. v \in RowsOf(c)  BY <1>5 DEF RowsOf
  <2> QED BY <2>1 DEF LineTo
<1>6. ASSUME NEW v \in revisions PROVE Id(v) # Id(new)
  <2>1. CASE v.claim = c  BY <2>1, <1>4, <1>5 DEF Id
  <2>2. CASE v.claim # c  BY <2>2, <1>4 DEF Id
  <2> QED BY <2>1, <2>2
<1> HIDE DEF R, new
<1>7. RowsOK'
  <2>1. revisions' \in SUBSET RevisionRows'  BY <1>1, <1>2, <1>3, <1>4
  <2>2. ASSUME NEW v \in revisions', NEW w \in revisions', Id(v) = Id(w) PROVE v = w
    <3>1. CASE v = new  BY <3>1, <1>1, <1>2, <1>6, <2>2
    <3>2. CASE w = new  BY <3>2, <1>1, <1>2, <1>6, <2>2
    <3>3. CASE v # new /\ w # new
      <4>1. PICK a \in revisions, b \in revisions : v = R(a) /\ w = R(b)  BY <3>3, <1>1
      <4>2. Id(a) = Id(b)  BY <4>1, <1>2, <2>2
      <4> QED BY <4>1, <4>2 DEF RowsOK
    <3> QED BY <3>1, <3>2, <3>3
  <2>3. \A v \in revisions', w \in revisions' : Id(v) = Id(w) => v = w  BY <2>2
  <2> QED BY <2>1, <2>3 DEF RowsOK, Id
<1>8. Ids' = Ids \cup {Id(new)}
  <2>1. Ids' = {Id(v) : v \in revisions'}  BY DEF Ids, Id
  <2>2. Ids = {Id(v) : v \in revisions}  BY DEF Ids
  <2>3. \A v \in revisions : Id(R(v)) = Id(v)  BY <1>2
  <2> HIDE DEF Id
  <2> QED BY <1>1, <2>1, <2>2, <2>3
<1>9. ASSUME NEW d \in Ids PROVE Alike(RowOf(d)', RowOf(d))
  <2>1. RowOf(d) \in revisions /\ Id(RowOf(d)) = d  BY RowOfId
  <2>2. R(RowOf(d)) \in revisions'  BY <1>1, <2>1
  <2>3. \A v \in revisions', e \in Ids' : Id(v) = e => RowOf(e)' = v  BY <1>7, RowOfRowNext DEF Id
  <2>4. Id(R(RowOf(d))) = d /\ d \in Ids'  BY <1>2, <1>8, <2>1
  <2>5. RowOf(d)' = R(RowOf(d))  BY <2>2, <2>3, <2>4
  <2> QED BY <2>5, <2>1, <1>2
<1>10. RowsKept  BY <1>8, <1>9 DEF RowsKept
<1>11. RowsOf(c)' = {R(v) : v \in RowsOf(c)} \cup {new}
  BY <1>1, <1>2, <1>4 DEF RowsOf, Alike
<1>12. LineTo(c, n + 1)'
  <2>1. {v.number : v \in RowsOf(c)'} = 1..(n + 1)
    <3>1. \A v \in RowsOf(c) : R(v).number = v.number  BY <1>2 DEF Alike, RowsOf
    <3>2. {v.number : v \in RowsOf(c)'} = {v.number : v \in RowsOf(c)} \cup {n + 1}  BY <1>11, <1>4, <3>1
    <3>3. {v.number : v \in RowsOf(c)} = 1..n  BY DEF LineTo
    <3> QED BY <3>2, <3>3
  <2>2. ASSUME NEW v \in RowsOf(c)' PROVE v.active <=> v.number = n + 1
    <3>1. CASE v = new  BY <3>1, <1>4
    <3>2. CASE v # new
      <4>1. PICK w \in RowsOf(c) : v = R(w)  BY <3>2, <1>11
      <4>2. w \in revisions /\ w.claim = c  BY <4>1 DEF RowsOf
      <4>3. w.number \in 1..n /\ (w.active <=> w.number = n) /\ v.number = w.number  BY <4>1, <4>2, <1>2, <1>5 DEF Alike
      <4>4. ~v.active  BY <4>1, <4>2, <4>3, <1>2
      <4>5. v.number # n + 1  BY <4>3
      <4> QED BY <4>4, <4>5
    <3> QED BY <3>1, <3>2
  <2> QED BY <2>1, <2>2 DEF LineTo
<1>13. ASSUME NEW b \in Claims \ {c} PROVE RowsOf(b)' = RowsOf(b)
  <2>1. \A v \in revisions : v.claim # c => R(v) = v  BY DEF R
  <2>2. \A v \in revisions : R(v).claim = v.claim  BY <1>2 DEF Alike
  <2> QED BY <1>1, <1>4, <2>1, <2>2 DEF RowsOf
<1>14. ASSUME NEW v \in revisions', v # new PROVE \E w \in revisions : Alike(v, w) /\ Id(v) = Id(w)
  BY <1>1, <1>2, <1>14
<1> QED BY <1>1, <1>7, <1>10, <1>12, <1>13, <1>14 DEF new

LEMMA LineGoesOn ==
    ASSUME LineOK, NEW c \in Claims, NEW n \in Nat, LineTo(c, n + 1)',
           \A b \in Claims \ {c} : RowsOf(b)' = RowsOf(b)
    PROVE  LineOK'
<1>1. ASSUME NEW b \in Claims, b # c PROVE \E k \in Nat : LineTo(b, k)'
  <2>1. PICK k \in Nat : LineTo(b, k)  BY DEF LineOK
  <2>2. RowsOf(b)' = RowsOf(b)  BY <1>1
  <2>3. LineTo(b, k)'  BY <2>1, <2>2 DEF LineTo
  <2> QED BY <2>3
<1>2. n + 1 \in Nat  OBVIOUS
<1> QED BY <1>1, <1>2 DEF LineOK

LEMMA DepsGoOn ==
    ASSUME DepsOK, RowsKept, NEW x, \A v \in revisions' : v = x \/ \E w \in revisions : Alike(v, w),
           \A d \in x.deps : d \in Ids /\ RowOf(d).fact \in x.fact.on /\ RowOf(d).hypotheses \subseteq x.hypotheses
    PROVE  DepsOK'
<1>1. ASSUME NEW v \in revisions', NEW d \in v.deps
      PROVE  d \in Ids' /\ RowOf(d)'.fact \in v.fact.on /\ RowOf(d)'.hypotheses \subseteq v.hypotheses
  <2>1. d \in Ids /\ RowOf(d).fact \in v.fact.on /\ RowOf(d).hypotheses \subseteq v.hypotheses
    <3>1. CASE v = x  BY <3>1
    <3>2. CASE v # x
      <4>1. PICK w \in revisions : Alike(v, w)  BY <3>2
      <4>2. d \in w.deps /\ w.fact = v.fact /\ w.hypotheses = v.hypotheses  BY <4>1 DEF Alike
      <4> QED BY <4>2 DEF DepsOK
    <3> QED BY <3>1, <3>2
  <2>2. d \in Ids' /\ Alike(RowOf(d)', RowOf(d))  BY <2>1 DEF RowsKept
  <2> QED BY <2>1, <2>2 DEF Alike
<1> QED BY <1>1 DEF DepsOK

(* Promoted revisions stay promoted.                                       *)
PromotedIds == {Id(v) : v \in Promoted}

LEMMA RowOfIdNext == (RowsOK => \A d \in Ids : RowOf(d) \in revisions /\ Id(RowOf(d)) = d)'
BY RowOfId, PTL

LEMMA PromotedStay == ASSUME RowsOK, RowsOK', RowsKept PROVE PromotedIds \subseteq PromotedIds'
<1> SUFFICES ASSUME NEW d \in PromotedIds PROVE d \in PromotedIds'  OBVIOUS
<1>1. PICK v \in revisions : Proved(v) /\ Id(v) = d  BY DEF PromotedIds, Promoted
<1>2. d \in Ids /\ RowOf(d) = v
  <2>1. d \in Ids  BY <1>1 DEF Ids
  <2> QED BY <1>1, <2>1, RowOfRow
<1>3. d \in Ids' /\ Alike(RowOf(d)', v)  BY <1>2 DEF RowsKept
<1>4. \A e \in Ids' : RowOf(e)' \in revisions' /\ Id(RowOf(e)') = e  BY RowOfIdNext DEF Id
<1>5. RowOf(d)' \in revisions' /\ Id(RowOf(d)') = d  BY <1>3, <1>4
<1>6. Proved(RowOf(d)')  BY <1>1, <1>3 DEF Alike, Proved
<1> QED BY <1>5, <1>6 DEF PromotedIds, Promoted, Id, Proved

-----------------------------------------------------------------------------
(* What an action leaves alone keeps its part of the invariant.            *)

FactsKept == KnownOK' /\ Known \subseteq Known'
ProofKept(r) ==
    Planned(r) = "done" =>
        /\ Planned(r)' = "done" /\ proofs'[r].claim = proofs[r].claim /\ proofs'[r].base = proofs[r].base
        /\ proofs'[r].manifest = proofs[r].manifest

LEMMA FactsStay ==
    ASSUME KnownOK, StandingClosed, UNCHANGED <<facts, revoked>>
    PROVE  FactsKept /\ Known' = Known /\ StandingClosed'
<1>1. Known' = Known  BY DEF Known, Range
<1> QED BY <1>1 DEF FactsKept, KnownOK, StandingClosed, Standing

LEMMA RevisionsStay ==
    ASSUME RowsOK, LineOK, DepsOK, UNCHANGED revisions, Known \subseteq Known'
    PROVE  RowsOK' /\ LineOK' /\ DepsOK' /\ RowsKept
<1>1. RowsKept  BY RowsStay
<1>2. RowsOK'
  <2>1. RevisionRows \subseteq RevisionRows'
    <3> SUFFICES ASSUME NEW v \in RevisionRows PROVE v \in RevisionRows'  OBVIOUS
    <3> QED BY DEF RevisionRows, NoFact
  <2>2. revisions' \in SUBSET RevisionRows'  BY <2>1 DEF RowsOK
  <2> QED BY <2>2 DEF RowsOK, Id
<1>3. LineOK'
  <2>1. \A c \in Claims : RowsOf(c)' = RowsOf(c)  BY DEF RowsOf
  <2>2. ASSUME NEW c \in Claims PROVE \E k \in Nat : LineTo(c, k)'
    <3>1. PICK k \in Nat : LineTo(c, k)  BY DEF LineOK
    <3>2. LineTo(c, k)'  BY <3>1, <2>1 DEF LineTo
    <3> QED BY <3>2
  <2> QED BY <2>2 DEF LineOK
<1>4. DepsOK'
  <2>1. Ids' = Ids  BY DEF Ids
  <2>2. \A d \in Ids : RowOf(d)' = RowOf(d)  BY DEF RowOf
  <2>3. ASSUME NEW v \in revisions', NEW d \in v.deps
        PROVE  d \in Ids' /\ RowOf(d)'.fact \in v.fact.on /\ RowOf(d)'.hypotheses \subseteq v.hypotheses
    <3>1. v \in revisions  OBVIOUS
    <3>2. d \in Ids /\ RowOf(d).fact \in v.fact.on /\ RowOf(d).hypotheses \subseteq v.hypotheses  BY <3>1 DEF DepsOK
    <3>3. RowOf(d)' = RowOf(d)  BY <3>2, <2>2
    <3> QED BY <2>1, <3>2, <3>3
  <2> QED BY <2>3 DEF DepsOK
<1> QED BY <1>1, <1>2, <1>3, <1>4

LEMMA ProofRowsGrow == ASSUME Known \subseteq Known' PROVE ProofRows \subseteq ProofRows'
<1>1. ManifestSpace \subseteq ManifestSpace'
  <2> SUFFICES ASSUME NEW m \in ManifestSpace PROVE m \in ManifestSpace'  OBVIOUS
  <2> QED BY DEF ManifestSpace, IdSpace
<1> SUFFICES ASSUME NEW x \in ProofRows PROVE x \in ProofRows'  OBVIOUS
<1> QED BY <1>1 DEF ProofRows, IdSpace

LEMMA ProofsStay ==
    ASSUME ProofsOK, RowsOK, RowsOK', RowsKept, UNCHANGED proofs, Known \subseteq Known'
    PROVE  ProofsOK' /\ \A r \in Provers : ProofKept(r)
<1>1. ProofRows \subseteq ProofRows' /\ PromotedIds \subseteq PromotedIds'  BY ProofRowsGrow, PromotedStay
<1>2. proofs' \in [Provers -> ProofRows']  BY <1>1 DEF ProofsOK
<1>3. ASSUME NEW r \in Provers
      PROVE  /\ Planned(r)' # "none" => proofs'[r].snapshot \subseteq PromotedIds'
             /\ Planned(r)' = "done" => proofs'[r].manifest.deps \subseteq proofs'[r].snapshot
  BY <1>1 DEF ProofsOK, Planned, PromotedIds
<1>4. \A r \in Provers : ProofKept(r)  BY DEF ProofKept, Planned
<1> QED BY <1>2, <1>3, <1>4 DEF ProofsOK, PromotedIds

LEMMA RunsStay ==
    ASSUME RunsOK, \A r \in Provers : ProofKept(r), Known \subseteq Known',
           \A v \in revisions' : Proved(v) => \E w \in revisions : Alike(v, w)
    PROVE  RunsOK'
<1>1. ASSUME NEW v \in revisions', Proved(v)
      PROVE  /\ v.fact \in Known' /\ v.run \in Provers /\ Planned(v.run)' = "done"
             /\ v.claim = proofs'[v.run].claim /\ v.number = proofs'[v.run].base.number + 1
  <2>1. PICK w \in revisions : Alike(v, w)  BY <1>1
  <2>2. w \in Promoted  BY <1>1, <2>1 DEF Promoted, Proved, Alike
  <2>3. /\ w.fact \in Known /\ w.run \in Provers /\ Planned(w.run) = "done"
        /\ w.claim = proofs[w.run].claim /\ w.number = proofs[w.run].base.number + 1
      BY <2>2 DEF RunsOK
  <2>4. v.fact = w.fact /\ v.run = w.run /\ v.claim = w.claim /\ v.number = w.number  BY <2>1 DEF Alike
  <2>5. v.run \in Provers /\ ProofKept(v.run) /\ Planned(v.run) = "done"  BY <2>3, <2>4
  <2> QED BY <2>3, <2>4, <2>5 DEF ProofKept, Planned
<1> QED BY <1>1 DEF RunsOK, Promoted, Proved, Planned

LEMMA BatchStays ==
    ASSUME RowsKept, NEW m, NEW c, m.deps \subseteq Ids
    PROVE  Batch(m, c)' = Batch(m, c)
<1>1. \A d \in m.deps : RowOf(d)'.fact = RowOf(d).fact  BY DEF RowsKept, Alike
<1> DEFINE was == {RowOf(d).fact : d \in m.deps}
           is == {RowOf(d)'.fact : d \in m.deps}
<1>2. is = was  BY <1>1
<1>3. Batch(m, c) = IF m.lemma = "none" THEN <<Fact(c, was \cup m.cites)>>
                    ELSE <<Lemma(m), Fact(c, was \cup m.cites \cup {Lemma(m)})>>  BY DEF Batch
<1>4. Batch(m, c)' = IF m.lemma = "none" THEN <<Fact(c, is \cup m.cites)>>
                    ELSE <<Lemma(m), Fact(c, is \cup m.cites \cup {Lemma(m)})>>  BY DEF Batch, Fact, Lemma
<1> HIDE DEF was, is
<1> QED BY <1>2, <1>3, <1>4

LEMMA BatchOfStays ==
    ASSUME ProofsOK, RowsKept, NEW r \in Provers, Planned(r) = "done", ProofKept(r)
    PROVE  BatchOf(r)' = BatchOf(r)
<1>1. PICK m, c : m = proofs[r].manifest /\ c = proofs[r].claim  OBVIOUS
<1>2. m.deps \subseteq PromotedIds  BY <1>1 DEF ProofsOK, PromotedIds, Planned
<1>3. m.deps \subseteq Ids  BY <1>2 DEF PromotedIds, Promoted, Ids
<1>4. Batch(m, c)' = Batch(m, c)  BY <1>3, BatchStays
<1>5. BatchOf(r) = Batch(m, c)  BY <1>1 DEF BatchOf
<1>6. proofs'[r].manifest = m /\ proofs'[r].claim = c  BY <1>1 DEF ProofKept
<1>7. BatchOf(r)' = Batch(m, c)'  BY <1>6 DEF BatchOf, Batch, Lemma, RowOf, Id
<1> QED BY <1>4, <1>5, <1>7

LEMMA PromotionStays ==
    ASSUME ProofsOK, RowsKept, \A r \in Provers : ProofKept(r), NEW p \in Promoters, PromotionOK(p),
           promotions'[p] = promotions[p] \/ promotions'[p] = [at |-> "idle"]
              \/ \E a \in {"agreed", "differs"} :
                    promotions[p].at = "prepared" /\ promotions'[p] = [promotions[p] EXCEPT !.at = a]
    PROVE  PromotionOK(p)'
<1>1. CASE promotions'[p] = [at |-> "idle"]  BY <1>1 DEF PromotionOK
<1>2. CASE promotions[p] = [at |-> "idle"] /\ promotions'[p] # [at |-> "idle"]  BY <1>2
<1>3. CASE promotions[p] # [at |-> "idle"] /\ promotions'[p] # [at |-> "idle"]
  <2>1. PICK r \in Provers, a \in {"prepared", "agreed", "differs"} :
            Planned(r) = "done" /\ promotions[p] = [at |-> a, run |-> r, batch |-> BatchOf(r)]
      BY <1>3 DEF PromotionOK
  <2>2. BatchOf(r)' = BatchOf(r) /\ Planned(r)' = "done"  BY <2>1, BatchOfStays DEF ProofKept
  <2>3. PICK b \in {"prepared", "agreed", "differs"} : promotions'[p] = [at |-> b, run |-> r, batch |-> BatchOf(r)]
      BY <2>1, <1>3
  <2>4. promotions'[p] = [at |-> b, run |-> r, batch |-> BatchOf(r)']  BY <2>2, <2>3
  <2> QED BY <2>2, <2>4 DEF PromotionOK
<1> QED BY <1>1, <1>2, <1>3

LEMMA PromotionsStay ==
    ASSUME ProofsOK, RowsKept, \A r \in Provers : ProofKept(r), PromotionsOK, UNCHANGED promotions
    PROVE  PromotionsOK'
<1>1. \A p \in Promoters : PromotionOK(p)'  BY PromotionStays DEF PromotionsOK
<1> QED BY <1>1 DEF PromotionsOK

LEMMA FindingsStay ==
    ASSUME FindingsOK, Known \subseteq Known', UNCHANGED <<findings, revoked>>
    PROVE  FindingsOK'
<1>1. findings' \in [Provers \X Lemmas ->
            [status : {"none", "active", "verified", "superseded"}, fact : Known' \cup {NoFact}]]
  BY DEF FindingsOK
<1>2. Standing \subseteq Standing'  BY DEF Standing
<1>3. VerifiedStands'  BY <1>2 DEF FindingsOK, VerifiedStands
<1> QED BY <1>1, <1>3 DEF FindingsOK, NoFact, Fact

LEMMA ViewStays ==
    ASSUME ViewOK, KnownOK, FactsKept, UNCHANGED <<view, moment>>
    PROVE  ViewOK'
<1>1. \A f \in Known : Below(f)' = Below(f)  BY BelowStays DEF FactsKept
<1>2. CASE view.at \in {"reading", "shown"}
  <2>1. view.candidates \in SUBSET Known /\ \A f \in view.candidates : Below(f) \cap moment = {}
      BY <1>2 DEF ViewOK
  <2>2. \A f \in view.candidates : Below(f)' = Below(f)  BY <1>1, <2>1
  <2>3. view'.candidates \in SUBSET Known'  BY <2>1 DEF FactsKept
  <2>4. \A f \in view'.candidates : Below(f)' \cap moment' = {}  BY <2>1, <2>2
  <2>5. ViewComplete'  BY <2>2 DEF ViewOK, ViewComplete
  <2> QED BY <2>3, <2>4, <2>5 DEF ViewOK
<1>3. CASE view.at \notin {"reading", "shown"}
  BY <1>3 DEF ViewOK, ViewComplete
<1> QED BY <1>2, <1>3

-----------------------------------------------------------------------------
(* The initial state and every action.                                     *)

LEMMA RegistryInitInv == RegistryInit => RegistryInv
<1> SUFFICES ASSUME RegistryInit PROVE RegistryInv  OBVIOUS
<1> USE DEF RegistryInit
<1>1. Known = {}  BY DEF Known, Range
<1>2. KnownOK  BY <1>1 DEF KnownOK
<1>3. StandingClosed  BY <1>1 DEF StandingClosed, Standing
<1>4. RowsOK /\ DepsOK  BY DEF RowsOK, DepsOK
<1>5. LineOK
  <2>1. ASSUME NEW c \in Claims PROVE LineTo(c, 0)  BY DEF LineTo, RowsOf
  <2> QED BY <2>1 DEF LineOK
<1>6. ProofsOK  BY DEF ProofsOK, ProofRows, Planned
<1>7. RunsOK  BY DEF RunsOK, Promoted
<1>8. PromotionsOK  BY DEF PromotionsOK, PromotionOK
<1>9. FindingsOK  BY DEF FindingsOK, VerifiedStands
<1>10. ViewOK  BY DEF ViewOK, ViewComplete
<1> QED BY <1>2, <1>3, <1>4, <1>5, <1>6, <1>7, <1>8, <1>9, <1>10 DEF RegistryInv

LEMMA ReviseInv == ASSUME RegistryInv, NEW c \in Claims, ReviseClaim(c) PROVE RegistryInv'
<1> USE DEF RegistryInv
<1> DEFINE row == Row(c, {}, NoFact, NoRun, {})
<1>1. UNCHANGED <<facts, revoked, proofs, findings, promotions, view, moment>> /\ revisions' = Replace(c, row)
    BY DEF ReviseClaim
<1>2. FactsKept /\ Known' = Known /\ StandingClosed'  BY <1>1, FactsStay
<1>3. row \in RevisionRows' /\ row.claim = c /\ row.active /\ row.deps = {} /\ row.run = NoRun
    BY DEF Row, RevisionRows, NoFact
<1>4. PICK n \in Nat : LineTo(c, n)  BY DEF LineOK
<1> HIDE DEF row
<1>5. /\ RowsOK' /\ RowsKept
      /\ LineTo(c, n + 1)' /\ \A b \in Claims \ {c} : RowsOf(b)' = RowsOf(b)
      /\ \A v \in revisions' : v = Added(row, n + 1) \/ \E w \in revisions : Alike(v, w)
  BY <1>1, <1>2, <1>3, <1>4, ReplaceKeeps
<1>6. Added(row, n + 1).deps = {} /\ Added(row, n + 1).run = NoRun  BY <1>3 DEF Added, RevisionRows
<1>7. LineOK'  BY <1>4, <1>5, LineGoesOn
<1>8. DepsOK'  BY <1>5, <1>6, DepsGoOn
<1>9. ProofsOK' /\ \A r \in Provers : ProofKept(r)  BY <1>1, <1>2, <1>5, ProofsStay
<1>10. RunsOK'
  <2>1. \A v \in revisions' : Proved(v) => \E w \in revisions : Alike(v, w)  BY <1>5, <1>6 DEF Proved
  <2> QED BY <1>2, <1>9, <2>1, RunsStay
<1>11. PromotionsOK'  BY <1>1, <1>5, <1>9, PromotionsStay
<1>12. FindingsOK' /\ ViewOK'  BY <1>1, <1>2, FindingsStay, ViewStays
<1> QED BY <1>2, <1>5, <1>7, <1>8, <1>9, <1>10, <1>11, <1>12 DEF FactsKept

(* Proofs change, but none that is done changes what it rests on.          *)
LEMMA OneProof ==
    ASSUME RegistryInv, NEW r \in Provers, NEW x, x \in ProofRows, proofs' = [proofs EXCEPT ![r] = x],
           UNCHANGED <<facts, revoked, revisions, findings, view, moment>>,
           ProofKept(r), x.stage # "none" => x.snapshot \subseteq PromotedIds,
           x.stage = "done" => x.manifest.deps \subseteq x.snapshot,
           \A p \in Promoters : promotions'[p] = promotions[p] \/ promotions'[p] = [at |-> "idle"],
           DOMAIN promotions' = Promoters, promotions' = [p \in Promoters |-> promotions'[p]]
    PROVE  RegistryInv'
<1> USE DEF RegistryInv
<1>1. FactsKept /\ Known' = Known /\ StandingClosed'  BY FactsStay
<1>2. RowsOK' /\ LineOK' /\ DepsOK' /\ RowsKept  BY <1>1, RevisionsStay
<1>3. ProofRows' = ProofRows  BY <1>1 DEF ProofRows, ManifestSpace
<1>4. PromotedIds' = PromotedIds  BY DEF PromotedIds, Promoted, Id, Proved
<1>5. proofs' \in [Provers -> ProofRows'] /\ proofs'[r] = x /\ \A q \in Provers : q # r => proofs'[q] = proofs[q]
    BY <1>3 DEF ProofsOK
<1>6. \A q \in Provers : ProofKept(q)
  <2>1. ASSUME NEW q \in Provers, q # r PROVE ProofKept(q)  BY <2>1, <1>5 DEF ProofKept, Planned
  <2> QED BY <2>1
<1>7. ASSUME NEW q \in Provers
      PROVE  /\ Planned(q)' # "none" => proofs'[q].snapshot \subseteq PromotedIds'
             /\ Planned(q)' = "done" => proofs'[q].manifest.deps \subseteq proofs'[q].snapshot
  <2>1. CASE q = r  BY <2>1, <1>4, <1>5 DEF Planned
  <2>2. CASE q # r  BY <2>2, <1>4, <1>5 DEF Planned, ProofsOK, PromotedIds
  <2> QED BY <2>1, <2>2
<1>8. ProofsOK'  BY <1>5, <1>7 DEF ProofsOK, PromotedIds
<1>9. RunsOK'
  <2>1. \A v \in revisions' : Proved(v) => \E w \in revisions : Alike(v, w)  BY DEF Alike
  <2> QED BY <1>1, <1>6, <2>1, RunsStay
<1>10. PromotionsOK'
  <2>1. \A p \in Promoters : PromotionOK(p)'  BY <1>2, <1>6, PromotionStays DEF PromotionsOK
  <2> QED BY <2>1 DEF PromotionsOK
<1>11. FindingsOK' /\ ViewOK'  BY <1>1, FindingsStay, ViewStays
<1> QED BY <1>1, <1>2, <1>8, <1>9, <1>10, <1>11 DEF FactsKept

LEMMA TakeSnapshotInv == ASSUME RegistryInv, NEW r \in Provers, NEW c \in Claims, TakeSnapshot(r, c) PROVE RegistryInv'
<1> DEFINE x == [stage |-> "snapshot", claim |-> c, snapshot |-> {Id(v) : v \in {w \in revisions : Proved(w)}}]
<1>1. {Id(v) : v \in {w \in revisions : Proved(w)}} = PromotedIds  BY DEF PromotedIds, Promoted
<1>2. PromotedIds \subseteq IdSpace
    BY DEF RegistryInv, RowsOK, RevisionRows, PromotedIds, Promoted, Id, IdSpace
<1>3. x \in ProofRows /\ x.stage = "snapshot" /\ x.snapshot = PromotedIds  BY <1>1, <1>2 DEF ProofRows
<1>4. /\ proofs' = [proofs EXCEPT ![r] = x] /\ Planned(r) = "none"
      /\ UNCHANGED <<facts, revoked, revisions, findings, promotions, view, moment>>
    BY DEF TakeSnapshot
<1>5. ProofKept(r)  BY <1>4 DEF ProofKept
<1>6. DOMAIN promotions' = Promoters /\ promotions' = [p \in Promoters |-> promotions'[p]]
    BY <1>4 DEF RegistryInv, PromotionsOK
<1> HIDE DEF x
<1> QED BY <1>3, <1>4, <1>5, <1>6, OneProof

LEMMA LinkInv == ASSUME RegistryInv, NEW r \in Provers, Link(r) PROVE RegistryInv'
<1> DEFINE x == [stage |-> "linked", claim |-> proofs[r].claim, snapshot |-> proofs[r].snapshot,
                 base |-> CurrentId(proofs[r].claim),
                 outcome |-> "none", revision |-> NoRevision, manifest |-> NoManifest]
<1>1. /\ proofs' = [proofs EXCEPT ![r] = x] /\ Planned(r) = "snapshot"
      /\ UNCHANGED <<facts, revoked, revisions, findings, promotions, view, moment>>
    BY DEF Link, RegistryInv, ProofsOK
<1>2. proofs[r].claim \in Claims /\ proofs[r].snapshot \in SUBSET IdSpace /\ proofs[r].snapshot \subseteq PromotedIds
    BY <1>1 DEF RegistryInv, ProofsOK, ProofRows, Planned, PromotedIds
<1>3. CurrentId(proofs[r].claim) \in IdSpace \cup {NoRevision}
  <2>1. PICK n \in Nat : LineTo(proofs[r].claim, n)  BY <1>2 DEF RegistryInv, LineOK
  <2>2. CurrentId(proofs[r].claim) = IF n = 0 THEN NoRevision ELSE [claim |-> proofs[r].claim, number |-> n]
      BY <1>2, <2>1, CurrentIsLast DEF RegistryInv
  <2> QED BY <1>2, <2>2 DEF IdSpace
<1>4. NoManifest \in ManifestSpace  BY DEF NoManifest, ManifestSpace
<1>5. x \in ProofRows  BY <1>2, <1>3, <1>4 DEF ProofRows
<1>6. ProofKept(r)  BY <1>1 DEF ProofKept
<1>7. DOMAIN promotions' = Promoters /\ promotions' = [p \in Promoters |-> promotions'[p]]
    BY <1>1 DEF RegistryInv, PromotionsOK
<1>8. x.stage = "linked" /\ x.snapshot \subseteq PromotedIds  BY <1>2
<1> HIDE DEF x
<1> QED BY <1>1, <1>5, <1>6, <1>7, <1>8, OneProof

LEMMA ProveInv == ASSUME RegistryInv, NEW r \in Provers, NEW m \in Manifests, Prove(r, m) PROVE RegistryInv'
<1> DEFINE x == [proofs[r] EXCEPT !.stage = "done", !.manifest = m]
<1>1. m \in ManifestSpace
  <2>1. {Id(v) : v \in revisions} \subseteq IdSpace  BY DEF RegistryInv, RowsOK, RevisionRows, Id, IdSpace
  <2>2. Standing \subseteq Known  BY DEF Standing
  <2> QED BY <2>1, <2>2 DEF Manifests, ManifestSpace
<1>2. /\ Planned(r) = "linked" /\ m.deps \subseteq proofs[r].snapshot
      /\ proofs' = [proofs EXCEPT ![r].stage = "done", ![r].manifest = m]
      /\ UNCHANGED <<facts, revoked, revisions, findings, promotions, view, moment>>
    BY DEF Prove
<1>3. /\ proofs[r].claim \in Claims /\ proofs[r].snapshot \in SUBSET IdSpace /\ proofs[r].snapshot \subseteq PromotedIds
      /\ proofs[r].base \in IdSpace \cup {NoRevision} /\ proofs[r].outcome \in {"none", "conflict", "promoted"}
      /\ proofs[r].revision \in IdSpace \cup {NoRevision}
    BY <1>2 DEF RegistryInv, ProofsOK, ProofRows, Planned, PromotedIds
<1>4. proofs[r] \in [stage : {"linked", "done"}, claim : Claims, snapshot : SUBSET IdSpace,
              base : IdSpace \cup {NoRevision}, outcome : {"none", "conflict", "promoted"},
              revision : IdSpace \cup {NoRevision}, manifest : ManifestSpace]
    BY <1>2 DEF RegistryInv, ProofsOK, ProofRows, Planned
<1>5. proofs' = [proofs EXCEPT ![r] = x]
    BY <1>2 DEF RegistryInv, ProofsOK
<1>6. x.stage = "done" /\ x.snapshot = proofs[r].snapshot /\ x.manifest = m  BY <1>4
<1>7. x \in ProofRows  BY <1>1, <1>4 DEF ProofRows
<1>8. x.snapshot \subseteq PromotedIds /\ x.manifest.deps \subseteq x.snapshot  BY <1>2, <1>3, <1>6
<1>9. ProofKept(r)  BY <1>2 DEF ProofKept
<1>10. DOMAIN promotions' = Promoters /\ promotions' = [p \in Promoters |-> promotions'[p]]
    BY <1>2 DEF RegistryInv, PromotionsOK
<1> HIDE DEF x
<1> QED BY <1>2, <1>5, <1>6, <1>7, <1>8, <1>9, <1>10, OneProof

(* A run that is done, promoted or in conflict.                            *)
LEMMA OutcomeOf ==
    ASSUME RegistryInv, NEW r \in Provers, Planned(r) = "done", NEW o \in {"conflict", "promoted"}, NEW v \in IdSpace \cup {NoRevision}
    PROVE  LET x == [proofs[r] EXCEPT !.outcome = o, !.revision = v]
           IN  /\ x \in ProofRows /\ x.stage = "done" /\ x.snapshot = proofs[r].snapshot
               /\ x.claim = proofs[r].claim /\ x.base = proofs[r].base /\ x.manifest = proofs[r].manifest
               /\ [proofs[r] EXCEPT !.outcome = o] \in ProofRows
               /\ proofs[r].snapshot \subseteq PromotedIds /\ proofs[r].manifest.deps \subseteq proofs[r].snapshot
<1>1. proofs[r] \in [stage : {"linked", "done"}, claim : Claims, snapshot : SUBSET IdSpace,
              base : IdSpace \cup {NoRevision}, outcome : {"none", "conflict", "promoted"},
              revision : IdSpace \cup {NoRevision}, manifest : ManifestSpace]
    BY DEF RegistryInv, ProofsOK, ProofRows, Planned
<1>2. proofs[r].stage = "done"  BY DEF Planned
<1>3. proofs[r].snapshot \subseteq PromotedIds /\ proofs[r].manifest.deps \subseteq proofs[r].snapshot
    BY DEF RegistryInv, ProofsOK, PromotedIds, Planned
<1> QED BY <1>1, <1>2, <1>3 DEF ProofRows

(* What a promotion that is under way is about.                            *)
LEMMA PromotionIs ==
    ASSUME RegistryInv, NEW p \in Promoters, promotions[p].at # "idle"
    PROVE  /\ promotions[p].run \in Provers /\ Planned(promotions[p].run) = "done"
           /\ promotions[p].batch = BatchOf(promotions[p].run)
           /\ promotions[p] = [at |-> promotions[p].at, run |-> promotions[p].run, batch |-> promotions[p].batch]
BY DEF RegistryInv, PromotionsOK, PromotionOK

LEMMA WriteConflictInv == ASSUME RegistryInv, NEW p \in Promoters, WriteConflict(p) PROVE RegistryInv'
<1>1. /\ promotions[p].at # "idle" /\ promotions' = [promotions EXCEPT ![p] = [at |-> "idle"]]
      /\ proofs' = [proofs EXCEPT ![promotions[p].run].outcome = "conflict"]
      /\ UNCHANGED <<facts, revoked, revisions, findings, view, moment>>
    BY DEF WriteConflict, Leave
<1>2. PICK r \in Provers : r = promotions[p].run /\ Planned(r) = "done"  BY <1>1, PromotionIs
<1> DEFINE x == [proofs[r] EXCEPT !.outcome = "conflict"]
<1>3. x \in ProofRows /\ proofs[r].snapshot \subseteq PromotedIds /\ proofs[r].manifest.deps \subseteq proofs[r].snapshot
    BY <1>2, OutcomeOf
<1>4. proofs[r] \in [stage : {"linked", "done"}, claim : Claims, snapshot : SUBSET IdSpace,
              base : IdSpace \cup {NoRevision}, outcome : {"none", "conflict", "promoted"},
              revision : IdSpace \cup {NoRevision}, manifest : ManifestSpace]
    BY <1>2 DEF RegistryInv, ProofsOK, ProofRows, Planned
<1>5. /\ x.stage = "done" /\ x.snapshot = proofs[r].snapshot /\ x.manifest = proofs[r].manifest
      /\ x.claim = proofs[r].claim /\ x.base = proofs[r].base
    BY <1>2, <1>4 DEF Planned
<1>6. proofs' = [proofs EXCEPT ![r] = x]  BY <1>1, <1>2
<1>7. ProofKept(r)
  <2>1. proofs'[r] = x  BY <1>2, <1>6 DEF RegistryInv, ProofsOK
  <2> QED BY <1>2, <1>5, <2>1 DEF ProofKept, Planned
<1>8. /\ DOMAIN promotions' = Promoters /\ promotions' = [q \in Promoters |-> promotions'[q]]
      /\ \A q \in Promoters : promotions'[q] = promotions[q] \/ promotions'[q] = [at |-> "idle"]
    BY <1>1 DEF RegistryInv, PromotionsOK
<1>9. x.snapshot \subseteq PromotedIds /\ x.manifest.deps \subseteq x.snapshot  BY <1>3, <1>5
<1> HIDE DEF x
<1> QED BY <1>1, <1>2, <1>3, <1>6, <1>7, <1>8, <1>9, OneProof

(* The part that only moves on with the revisions, proofs and facts.       *)
LEMMA RestStays ==
    ASSUME RegistryInv, UNCHANGED <<facts, revisions, proofs>>
    PROVE  /\ KnownOK' /\ FactsKept /\ Known' = Known /\ RowsOK' /\ LineOK' /\ DepsOK' /\ RowsKept
           /\ ProofsOK' /\ RunsOK' /\ \A r \in Provers : ProofKept(r)
<1> USE DEF RegistryInv
<1>1. FactsKept /\ Known' = Known /\ KnownOK'
  <2>1. Known' = Known  BY DEF Known, Range
  <2> QED BY <2>1 DEF FactsKept, KnownOK
<1>2. RowsOK' /\ LineOK' /\ DepsOK' /\ RowsKept  BY <1>1, RevisionsStay
<1>3. ProofsOK' /\ \A r \in Provers : ProofKept(r)  BY <1>1, <1>2, ProofsStay
<1>4. RunsOK'
  <2>1. \A v \in revisions' : Proved(v) => \E w \in revisions : Alike(v, w)  BY DEF Alike
  <2> QED BY <1>1, <1>3, <2>1, RunsStay
<1> QED BY <1>1, <1>2, <1>3, <1>4

LEMMA FindInv == ASSUME RegistryInv, NEW r \in Provers, NEW l \in Lemmas, Find(r, l) PROVE RegistryInv'
<1> USE DEF RegistryInv
<1>1. /\ UNCHANGED <<facts, revoked, revisions, proofs, promotions, view, moment>>
      /\ findings' = [findings EXCEPT ![<<r, l>>].status = "active"]
    BY DEF Find
<1>2. /\ KnownOK' /\ FactsKept /\ Known' = Known /\ RowsOK' /\ LineOK' /\ DepsOK' /\ RowsKept
      /\ ProofsOK' /\ RunsOK' /\ \A q \in Provers : ProofKept(q)
    BY <1>1, RestStays
<1>3. StandingClosed'  BY <1>1, FactsStay
<1>4. PromotionsOK' /\ ViewOK'  BY <1>1, <1>2, PromotionsStay, ViewStays
<1>5. FindingsOK'
  <2>1. findings' \in [Provers \X Lemmas ->
            [status : {"none", "active", "verified", "superseded"}, fact : Known' \cup {NoFact}]]
      BY <1>1, <1>2 DEF FindingsOK
  <2>2. VerifiedStands'
    <3>1. DOMAIN findings' = DOMAIN findings  BY <1>1
    <3>2. ASSUME NEW x \in DOMAIN findings, findings'[x].status = "verified"
          PROVE  findings'[x].fact \in Standing' /\ findings'[x].fact.states = x[2]
      <4>1. x # <<r, l>> /\ findings'[x] = findings[x]  BY <1>1, <3>2 DEF FindingsOK
      <4>2. Standing' = Standing  BY <1>1, <1>2 DEF Standing
      <4> QED BY <3>2, <4>1, <4>2 DEF FindingsOK, VerifiedStands
    <3> QED BY <3>1, <3>2 DEF VerifiedStands
  <2> QED BY <2>1, <2>2 DEF FindingsOK, NoFact, Fact
<1> QED BY <1>2, <1>3, <1>4, <1>5

LEMMA PromotersOnly ==
    ASSUME RegistryInv, UNCHANGED <<facts, revoked, revisions, proofs, findings, view, moment>>,
           NEW p \in Promoters, NEW x, promotions' = [promotions EXCEPT ![p] = x],
           PromotionOK(p)'
    PROVE  RegistryInv'
<1> USE DEF RegistryInv
<1>1. /\ KnownOK' /\ FactsKept /\ Known' = Known /\ RowsOK' /\ LineOK' /\ DepsOK' /\ RowsKept
      /\ ProofsOK' /\ RunsOK' /\ \A q \in Provers : ProofKept(q)
    BY RestStays
<1>2. StandingClosed'  BY FactsStay
<1>3. FindingsOK' /\ ViewOK'  BY <1>1, FindingsStay, ViewStays
<1>4. PromotionsOK'
  <2>1. ASSUME NEW q \in Promoters, q # p PROVE PromotionOK(q)'
    <3>1. promotions'[q] = promotions[q]  BY <2>1 DEF PromotionsOK
    <3>2. PromotionOK(q)  BY DEF PromotionsOK
    <3> QED BY <1>1, <3>1, <3>2, PromotionStays
  <2>2. DOMAIN promotions' = Promoters /\ promotions' = [q \in Promoters |-> promotions'[q]]
      BY DEF PromotionsOK
  <2> QED BY <2>1, <2>2 DEF PromotionsOK
<1> QED BY <1>1, <1>2, <1>3, <1>4

LEMMA PrepareInv == ASSUME RegistryInv, NEW p \in Promoters, NEW r \in Provers, Prepare(p, r) PROVE RegistryInv'
<1> DEFINE x == [at |-> "prepared", run |-> r, batch |-> BatchOf(r)]
<1>1. /\ UNCHANGED <<facts, revoked, revisions, proofs, findings, view, moment>>
      /\ promotions' = [promotions EXCEPT ![p] = x] /\ Planned(r) = "done"
    BY DEF Prepare, BatchOf
<1>2. RowsKept /\ ProofKept(r)  BY <1>1, RestStays
<1>3. BatchOf(r)' = BatchOf(r)  BY <1>1, <1>2, BatchOfStays DEF RegistryInv
<1>4. promotions'[p] = [at |-> "prepared", run |-> r, batch |-> BatchOf(r)']
    BY <1>1, <1>3 DEF RegistryInv, PromotionsOK
<1>5. PromotionOK(p)'  BY <1>1, <1>4 DEF PromotionOK, Planned
<1> HIDE DEF x
<1> QED BY <1>1, <1>5, PromotersOnly

LEMMA LeaveInv ==
    ASSUME RegistryInv, NEW p \in Promoters, Leave(p),
           UNCHANGED <<facts, revoked, revisions, proofs, findings, view, moment>>
    PROVE  RegistryInv'
<1>1. promotions' = [promotions EXCEPT ![p] = [at |-> "idle"]]  BY DEF Leave
<1>2. promotions'[p] = [at |-> "idle"]  BY <1>1 DEF RegistryInv, PromotionsOK
<1>3. PromotionOK(p)'  BY <1>2 DEF PromotionOK
<1> QED BY <1>1, <1>3, PromotersOnly

LEMMA InspectInv == ASSUME RegistryInv, NEW p \in Promoters, Inspect(p) PROVE RegistryInv'
<1>1. UNCHANGED <<facts, revoked, revisions, proofs, findings, view, moment>> /\ promotions[p].at = "prepared"
    BY DEF Inspect
<1>2. CASE Leave(p)  BY <1>1, <1>2, LeaveInv
<1>3. CASE \E a \in {"agreed", "differs"} : promotions' = [promotions EXCEPT ![p].at = a]
  <2>1. PICK a \in {"agreed", "differs"} : promotions' = [promotions EXCEPT ![p].at = a]  BY <1>3
  <2>2. /\ promotions' = [promotions EXCEPT ![p] = [promotions[p] EXCEPT !.at = a]]
        /\ promotions'[p] = [promotions[p] EXCEPT !.at = a]
      BY <2>1 DEF RegistryInv, PromotionsOK
  <2>3. RowsKept /\ \A r \in Provers : ProofKept(r)  BY <1>1, RestStays
  <2>4. PromotionOK(p)'  BY <1>1, <2>2, <2>3, PromotionStays DEF RegistryInv, PromotionsOK
  <2> QED BY <1>1, <2>2, <2>4, PromotersOnly
<1> QED BY <1>2, <1>3 DEF Inspect

LEMMA RevokeInv == ASSUME RegistryInv, NEW f \in Known, Revoke(f) PROVE RegistryInv'
<1> USE DEF RegistryInv
<1> DEFINE gone == Descendants(f)
<1>1. /\ UNCHANGED <<facts, revisions, proofs, promotions, view, moment>>
      /\ revoked' = revoked \cup gone /\ findings' = Superseded(gone \ revoked)
    BY DEF Revoke
<1>2. gone \in SUBSET Known /\ \A g \in Known : g.on \cap gone # {} => g \in gone  BY DescendantsClosed
<1> HIDE DEF gone
<1>3. /\ KnownOK' /\ FactsKept /\ Known' = Known /\ RowsOK' /\ LineOK' /\ DepsOK' /\ RowsKept
      /\ ProofsOK' /\ RunsOK' /\ \A r \in Provers : ProofKept(r)
    BY <1>1, RestStays
<1>4. Standing' = Standing \ gone  BY <1>1, <1>3 DEF Standing
<1>5. StandingClosed'
  <2>1. revoked' \subseteq Known'  BY <1>1, <1>2, <1>3 DEF StandingClosed
  <2>2. ASSUME NEW g \in Standing' PROVE g.on \subseteq Standing'
    <3>1. g \in Standing /\ g \in Known /\ g \notin gone  BY <1>4, <2>2 DEF Standing
    <3>2. g.on \subseteq Standing /\ g.on \cap gone = {}  BY <1>2, <3>1 DEF StandingClosed
    <3> QED BY <1>4, <3>2
  <2> QED BY <2>1, <2>2 DEF StandingClosed
<1>6. PromotionsOK' /\ ViewOK'  BY <1>1, <1>3, PromotionsStay, ViewStays
<1>7. FindingsOK'
  <2>1. findings' = [x \in DOMAIN findings |->
            IF findings[x].status = "verified" /\ findings[x].fact \in gone \ revoked
            THEN [status |-> "superseded", fact |-> NoFact] ELSE findings[x]]
      BY <1>1 DEF Superseded
  <2>2. findings' \in [Provers \X Lemmas ->
            [status : {"none", "active", "verified", "superseded"}, fact : Known' \cup {NoFact}]]
      BY <1>3, <2>1 DEF FindingsOK
  <2>3. ASSUME NEW x \in DOMAIN findings', findings'[x].status = "verified"
        PROVE  findings'[x].fact \in Standing' /\ findings'[x].fact.states = x[2]
    <3>1. x \in DOMAIN findings /\ findings'[x] = findings[x]  BY <2>1, <2>3
    <3>2. findings[x].status = "verified" /\ findings[x].fact \notin gone \ revoked  BY <2>1, <2>3, <3>1
    <3>3. findings[x].fact \in Standing /\ findings[x].fact.states = x[2]
        BY <3>1, <3>2 DEF FindingsOK, VerifiedStands
    <3>4. findings[x].fact \notin gone  BY <3>2, <3>3 DEF Standing
    <3> QED BY <1>4, <3>1, <3>3, <3>4
  <2>4. VerifiedStands'  BY <2>3 DEF VerifiedStands
  <2> QED BY <2>2, <2>4 DEF FindingsOK, NoFact, Fact
<1> QED BY <1>3, <1>5, <1>6, <1>7

(* What a batch is: the target last, resting on what the proof depends on. *)
LEMMA BatchShape ==
    ASSUME NEW m, NEW c
    PROVE  LET b == Batch(m, c)
           IN  /\ \/ b = <<b[1]>> /\ Len(b) = 1 /\ DOMAIN b = {1}
                  \/ b = <<b[1], b[2]>> /\ Len(b) = 2 /\ DOMAIN b = {1, 2} /\ b[1] \in b[2].on
               /\ \A d \in m.deps : RowOf(d).fact \in b[Len(b)].on
<1> DEFINE on == {RowOf(d).fact : d \in m.deps} \cup m.cites
<1>1. \A d \in m.deps : RowOf(d).fact \in on  OBVIOUS
<1>2. Batch(m, c) = IF m.lemma = "none" THEN <<Fact(c, on)>> ELSE <<Lemma(m), Fact(c, on \cup {Lemma(m)})>>
    BY DEF Batch
<1> HIDE DEF on
<1>3. Fact(c, on).on = on /\ Fact(c, on \cup {Lemma(m)}).on = on \cup {Lemma(m)}  BY DEF Fact
<1>4. CASE m.lemma = "none"
  <2>1. Batch(m, c) = <<Fact(c, on)>>  BY <1>2, <1>4
  <2>2. \A x : <<x>>[1] = x /\ Len(<<x>>) = 1 /\ DOMAIN <<x>> = {1}
    <3>1. \A x : DOMAIN <<x>> = 1..1  OBVIOUS
    <3> QED BY <3>1
  <2> QED BY <1>1, <1>3, <2>1, <2>2
<1>5. CASE m.lemma # "none"
  <2>1. Batch(m, c) = <<Lemma(m), Fact(c, on \cup {Lemma(m)})>>  BY <1>2, <1>5
  <2>2. \A x, y : <<x, y>>[1] = x /\ <<x, y>>[2] = y /\ Len(<<x, y>>) = 2 /\ DOMAIN <<x, y>> = {1, 2}
    <3>1. \A x, y : DOMAIN <<x, y>> = 1..2  OBVIOUS
    <3>2. 1..2 = {1, 2}  OBVIOUS
    <3> QED BY <3>1, <3>2
  <2> QED BY <1>1, <1>3, <2>1, <2>2
<1> QED BY <1>4, <1>5

LEMMA RangeOfBoth ==
    ASSUME NEW S, NEW s \in Seq(S), NEW t \in Seq(S)
    PROVE  Range(s \o t) = Range(s) \cup Range(t) /\ s \o t \in Seq(S)
<1>1. /\ s \o t \in Seq(S) /\ Len(s \o t) = Len(s) + Len(t) /\ Len(s) \in Nat /\ Len(t) \in Nat
      /\ DOMAIN s = 1..Len(s) /\ DOMAIN t = 1..Len(t) /\ DOMAIN (s \o t) = 1..(Len(s) + Len(t))
    OBVIOUS
<1>2. \A i \in 1..Len(s) : (s \o t)[i] = s[i]  BY <1>1
<1>3. \A i \in 1..Len(t) : (s \o t)[Len(s) + i] = t[i]  BY <1>1
<1>4. ASSUME NEW x \in Range(s \o t) PROVE x \in Range(s) \cup Range(t)
  <2>1. PICK i \in 1..(Len(s) + Len(t)) : (s \o t)[i] = x  BY <1>1 DEF Range
  <2>2. CASE i \in 1..Len(s)  BY <2>1, <2>2, <1>1, <1>2 DEF Range
  <2>3. CASE i \notin 1..Len(s)
    <3>1. (i - Len(s)) \in 1..Len(t) /\ Len(s) + (i - Len(s)) = i  BY <2>1, <2>3, <1>1
    <3>2. (s \o t)[i] = t[i - Len(s)]  BY <3>1, <1>3
    <3> QED BY <3>1, <3>2, <2>1, <1>1 DEF Range
  <2> QED BY <2>2, <2>3
<1>5. ASSUME NEW x \in Range(s) PROVE x \in Range(s \o t)
  <2>1. PICK i \in 1..Len(s) : s[i] = x  BY <1>1 DEF Range
  <2>2. i \in 1..(Len(s) + Len(t))  BY <1>1
  <2> QED BY <2>1, <2>2, <1>1, <1>2 DEF Range
<1>6. ASSUME NEW x \in Range(t) PROVE x \in Range(s \o t)
  <2>1. PICK i \in 1..Len(t) : t[i] = x  BY <1>1 DEF Range
  <2>2. Len(s) + i \in 1..(Len(s) + Len(t))  BY <1>1
  <2> QED BY <2>1, <2>2, <1>1, <1>3 DEF Range
<1> QED BY <1>1, <1>4, <1>5, <1>6

(* The facts of a promotion that could be inserted are known and stand.     *)
LEMMA InsertedStand ==
    ASSUME KnownOK, StandingClosed, NEW b,
           \/ b = <<b[1]>> /\ Len(b) = 1 /\ DOMAIN b = {1}
           \/ b = <<b[1], b[2]>> /\ Len(b) = 2 /\ DOMAIN b = {1, 2},
           Insertables(b), facts' = facts \o NewFacts(b), UNCHANGED revoked
    PROVE  FactsKept /\ StandingClosed' /\ \A i \in DOMAIN b : b[i] \in Standing' /\ b[i] \in Known'
<1> DEFINE new == {b[i] : i \in DOMAIN b}
           all == Known \cup new
<1>1. \A f \in new : f \notin revoked /\ f.on \subseteq Standing \cup new
  <2>1. \A i \in DOMAIN b : b[i] \notin revoked /\ b[i].on \subseteq Standing \cup {b[j] : j \in 1..(i - 1)}
      BY DEF Insertables, Insertable
  <2>2. \A i \in DOMAIN b : 1..(i - 1) \subseteq DOMAIN b
    <3>1. \A i \in {1, 2} : 1..(i - 1) \subseteq {1} /\ (i = 1 => 1..(i - 1) = {})  OBVIOUS
    <3> QED BY <3>1
  <2> QED BY <2>1, <2>2
<1>2. NewFacts(b) \in Seq(all) /\ Range(NewFacts(b)) \subseteq new /\ new \subseteq Known \cup Range(NewFacts(b))
  <2>1. \A f \in new : Fresh(f) \in Seq(all) /\ Range(Fresh(f)) = IF f \in Known THEN {} ELSE {f}
    <3> SUFFICES ASSUME NEW f \in new PROVE Fresh(f) \in Seq(all) /\ Range(Fresh(f)) = IF f \in Known THEN {} ELSE {f}
        OBVIOUS
    <3>1. f \in all  OBVIOUS
    <3> HIDE DEF all, new
    <3>2. CASE f \in Known
      <4>1. Fresh(f) = <<>>  BY <3>2 DEF Fresh
      <4>2. Range(<<>>) = {}  BY DEF Range
      <4> QED BY <3>2, <4>1, <4>2
    <3>3. CASE f \notin Known
      <4>1. Fresh(f) = <<f>>  BY <3>3 DEF Fresh
      <4>2. DOMAIN <<f>> = 1..1 /\ <<f>>[1] = f  OBVIOUS
      <4>3. Range(<<f>>) = {f}  BY <4>2 DEF Range
      <4>4. <<f>> \in Seq(all)  BY <3>1
      <4> QED BY <3>3, <4>1, <4>3, <4>4
    <3> QED BY <3>2, <3>3
  <2>2. CASE Len(b) = 1
    <3>1. NewFacts(b) = Fresh(b[1]) /\ new = {b[1]}  BY <2>2 DEF NewFacts
    <3> HIDE DEF all, new
    <3> QED BY <2>1, <3>1
  <2>3. CASE Len(b) = 2
    <3>1. NewFacts(b) = Fresh(b[1]) \o Fresh(b[2]) /\ new = {b[1], b[2]}  BY <2>3 DEF NewFacts
    <3> HIDE DEF all, new
    <3>2. Fresh(b[1]) \in Seq(all) /\ Fresh(b[2]) \in Seq(all)  BY <2>1, <3>1
    <3>3. Range(NewFacts(b)) = Range(Fresh(b[1])) \cup Range(Fresh(b[2])) /\ NewFacts(b) \in Seq(all)
        BY <3>1, <3>2, RangeOfBoth
    <3> QED BY <2>1, <3>1, <3>3
  <2> QED BY <2>2, <2>3
<1> HIDE DEF new
<1>3. facts \in Seq(all)  BY DEF KnownOK
<1> HIDE DEF all
<1>4. facts' \in Seq(all) /\ Known' = all
  <2>1. Range(facts \o NewFacts(b)) = Range(facts) \cup Range(NewFacts(b)) /\ facts \o NewFacts(b) \in Seq(all)
      BY <1>2, <1>3, RangeOfBoth
  <2>2. Known' = Range(facts \o NewFacts(b))  BY DEF Known
  <2>3. Known = Range(facts)  BY DEF Known
  <2> QED BY <1>2, <2>1, <2>2, <2>3 DEF all
<1>5. Standing' = Standing \cup new
  <2>1. Standing' = (Known \cup new) \ revoked  BY <1>4 DEF Standing, all
  <2> QED BY <1>1, <2>1 DEF Standing
<1>6. KnownOK'
  <2>1. \A f \in Known' : f.on \subseteq Known'
    <3>1. Known' = Known \cup new /\ Standing \subseteq Known  BY <1>4 DEF all, Standing
    <3> QED BY <1>1, <3>1 DEF KnownOK
  <2> QED BY <1>4, <2>1 DEF KnownOK
<1>7. FactsKept  BY <1>4, <1>6 DEF FactsKept, all
<1>8. StandingClosed'
  <2>1. revoked' \subseteq Known'  BY <1>4 DEF StandingClosed, all
  <2>2. \A f \in Standing' : f.on \subseteq Standing'  BY <1>1, <1>5 DEF StandingClosed
  <2> QED BY <2>1, <2>2 DEF StandingClosed
<1>9. ASSUME NEW i \in DOMAIN b PROVE b[i] \in Standing' /\ b[i] \in Known'
  <2>1. b[i] \in new  BY DEF new
  <2> QED BY <1>4, <1>5, <2>1 DEF all
<1> QED BY <1>7, <1>8, <1>9

LEMMA PromoteInv == ASSUME RegistryInv, NEW p \in Promoters, Promote(p) PROVE RegistryInv'
<1> USE DEF RegistryInv
<1>1. promotions[p].at = "agreed" /\ Leave(p) /\ UNCHANGED <<revoked, view, moment>>  BY DEF Promote
<1>2. PICK r \in Provers : r = promotions[p].run /\ Planned(r) = "done" /\ promotions[p].batch = BatchOf(r)
    BY <1>1, PromotionIs
<1>3. PICK m, c, b : m = proofs[r].manifest /\ c = proofs[r].claim /\ b = promotions[p].batch  OBVIOUS
<1>4. b = Batch(m, c)  BY <1>2, <1>3 DEF BatchOf
<1>5. /\ \/ b = <<b[1]>> /\ Len(b) = 1 /\ DOMAIN b = {1}
         \/ b = <<b[1], b[2]>> /\ Len(b) = 2 /\ DOMAIN b = {1, 2} /\ b[1] \in b[2].on
      /\ \A d \in m.deps : RowOf(d).fact \in b[Len(b)].on
    BY <1>4, BatchShape
<1>6. proofs[r] \in [stage : {"linked", "done"}, claim : Claims, snapshot : SUBSET IdSpace,
              base : IdSpace \cup {NoRevision}, outcome : {"none", "conflict", "promoted"},
              revision : IdSpace \cup {NoRevision}, manifest : ManifestSpace]
    BY <1>2 DEF ProofsOK, ProofRows, Planned
<1>7. /\ c \in Claims /\ m \in ManifestSpace /\ m.deps \subseteq PromotedIds /\ m.deps \subseteq IdSpace
      /\ proofs[r].snapshot \subseteq PromotedIds /\ m.deps \subseteq proofs[r].snapshot
  <2>1. proofs[r].snapshot \subseteq PromotedIds /\ m.deps \subseteq proofs[r].snapshot
      BY <1>2, <1>3 DEF ProofsOK, Planned, PromotedIds
  <2>2. c \in Claims /\ m \in ManifestSpace  BY <1>3, <1>6
  <2> QED BY <2>1, <2>2 DEF ManifestSpace
<1>8. DOMAIN promotions' = Promoters /\ promotions' = [q \in Promoters |-> promotions'[q]]
      /\ \A q \in Promoters : promotions'[q] = promotions[q] \/ promotions'[q] = [at |-> "idle"]
    BY <1>1 DEF Leave, PromotionsOK
<1>9. CASE proofs' = [proofs EXCEPT ![r].outcome = "conflict"] /\ UNCHANGED <<facts, revisions, findings>>
  <2> DEFINE x == [proofs[r] EXCEPT !.outcome = "conflict"]
  <2>1. x \in ProofRows  BY <1>2, OutcomeOf
  <2>2. /\ x.stage = "done" /\ x.snapshot = proofs[r].snapshot /\ x.manifest = m
        /\ x.claim = proofs[r].claim /\ x.base = proofs[r].base
      BY <1>2, <1>3, <1>6 DEF Planned
  <2>3. proofs' = [proofs EXCEPT ![r] = x]  BY <1>9
  <2> HIDE DEF x
  <2>4. proofs'[r] = x  BY <2>3 DEF ProofsOK
  <2>5. ProofKept(r)  BY <1>3, <2>2, <2>4 DEF ProofKept, Planned
  <2>6. x.snapshot \subseteq PromotedIds /\ x.manifest.deps \subseteq x.snapshot  BY <1>7, <2>2
  <2> QED BY <1>1, <1>8, <1>9, <2>1, <2>3, <2>5, <2>6, OneProof
<1>10. CASE UNCHANGED <<facts, revisions, findings, proofs>>  BY <1>1, <1>10, LeaveInv
<1>11. CASE /\ Agrees(r) /\ Insertables(b) /\ facts' = facts \o NewFacts(b) /\ findings' = Matched(r, b)
            /\ revisions' = Replace(c, Row(c, EffectiveConditions(m), b[Len(b)], r, m.deps))
            /\ proofs' = [proofs EXCEPT ![r].outcome = "promoted",
                 ![r].revision = [claim |-> c, number |-> CurrentId(c).number + 1]]
  <2> DEFINE target == b[Len(b)]
             row == Row(c, EffectiveConditions(m), target, r, m.deps)
             x == [proofs[r] EXCEPT !.outcome = "promoted", !.revision = [claim |-> c, number |-> CurrentId(c).number + 1]]
  <2>1. FactsKept /\ StandingClosed' /\ \A i \in DOMAIN b : b[i] \in Standing' /\ b[i] \in Known'
      BY <1>1, <1>5, <1>11, InsertedStand
  <2>2. target \in Known'
    <3>1. Len(b) \in DOMAIN b  BY <1>5
    <3> QED BY <2>1, <3>1
  <2>3. PICK n \in Nat : LineTo(c, n)  BY <1>7 DEF LineOK
  <2>4. CurrentId(c) = (IF n = 0 THEN NoRevision ELSE [claim |-> c, number |-> n]) /\ CurrentId(c).number = n
    <3>1. CurrentId(c) = IF n = 0 THEN NoRevision ELSE [claim |-> c, number |-> n]  BY <1>7, <2>3, CurrentIsLast
    <3> QED BY <3>1 DEF NoRevision
  <2>5. m.deps \subseteq Ids  BY <1>7 DEF PromotedIds, Promoted, Ids
  <2>6. EffectiveConditions(m) \in SUBSET Hypotheses
    <3>1. ASSUME NEW d \in m.deps PROVE RowOf(d).hypotheses \in SUBSET Hypotheses
      <4>1. RowOf(d) \in RevisionRows  BY <2>5, <3>1, RowOfId DEF RowsOK
      <4> QED BY <4>1 DEF RevisionRows
    <3> QED BY <3>1, <1>7 DEF EffectiveConditions, ManifestSpace
  <2> HIDE DEF target
  <2>7. /\ row \in RevisionRows' /\ row.claim = c /\ row.active /\ row.deps = m.deps /\ row.run = r
        /\ row.fact = target /\ row.hypotheses = EffectiveConditions(m)
    <3>1. 0 \in Nat /\ TRUE \in BOOLEAN  OBVIOUS
    <3>2. EffectiveConditions(m) \in SUBSET Hypotheses /\ m.deps \in SUBSET IdSpace  BY <1>7, <2>6
    <3> HIDE DEF EffectiveConditions
    <3> QED BY <1>7, <2>2, <3>1, <3>2 DEF Row, RevisionRows, IdSpace
  <2>8. revisions' = Replace(c, row)  BY <1>11 DEF target
  <2> HIDE DEF row
  <2> DEFINE new == Added(row, n + 1)
  <2>9. /\ RowsOK' /\ RowsKept
        /\ LineTo(c, n + 1)' /\ \A e \in Claims \ {c} : RowsOf(e)' = RowsOf(e)
        /\ \A v \in revisions' : v = new \/ \E w \in revisions : Alike(v, w)
    BY <1>7, <2>1, <2>3, <2>7, <2>8, ReplaceKeeps DEF FactsKept
  <2>10. /\ new.deps = m.deps /\ new.run = r /\ new.fact = target /\ new.hypotheses = EffectiveConditions(m)
         /\ new.claim = c /\ new.number = n + 1
    BY <2>7 DEF Added, RevisionRows
  <2> HIDE DEF new
  <2>11. LineOK'  BY <1>7, <2>3, <2>9, LineGoesOn
  <2>12. DepsOK'
    <3>1. \A d \in new.deps : d \in Ids /\ RowOf(d).fact \in new.fact.on /\ RowOf(d).hypotheses \subseteq new.hypotheses
      <4>1. \A d \in m.deps : RowOf(d).hypotheses \subseteq EffectiveConditions(m)  BY DEF EffectiveConditions
      <4> QED BY <1>5, <2>5, <2>10, <4>1 DEF target
    <3> QED BY <2>9, <3>1, DepsGoOn
  <2>13. /\ x \in ProofRows /\ x.stage = "done" /\ x.snapshot = proofs[r].snapshot /\ x.manifest = m
         /\ x.claim = c /\ x.base = proofs[r].base
    <3>1. [claim |-> c, number |-> CurrentId(c).number + 1] \in IdSpace  BY <1>7, <2>4 DEF IdSpace
    <3>2. x \in ProofRows  BY <1>2, <3>1, OutcomeOf
    <3> HIDE DEF CurrentId
    <3>3. /\ x.stage = proofs[r].stage /\ x.snapshot = proofs[r].snapshot /\ x.manifest = proofs[r].manifest
          /\ x.claim = proofs[r].claim /\ x.base = proofs[r].base
        BY <1>6
    <3> QED BY <1>2, <1>3, <3>2, <3>3 DEF Planned
  <2>14. proofs' = [proofs EXCEPT ![r] = x]  BY <1>11 DEF ProofsOK
  <2> HIDE DEF x
  <2>15. proofs'[r] = x /\ \A q \in Provers : q # r => proofs'[q] = proofs[q]  BY <2>14 DEF ProofsOK
  <2>16. \A q \in Provers : ProofKept(q)
    <3>1. ProofKept(r)  BY <1>3, <2>13, <2>15 DEF ProofKept, Planned
    <3>2. ASSUME NEW q \in Provers, q # r PROVE ProofKept(q)  BY <2>15, <3>2 DEF ProofKept, Planned
    <3> QED BY <3>1, <3>2
  <2>17. ProofsOK'
    <3>1. ProofRows \subseteq ProofRows' /\ PromotedIds \subseteq PromotedIds'
        BY <2>1, <2>9, ProofRowsGrow, PromotedStay DEF FactsKept
    <3>2. proofs' \in [Provers -> ProofRows']  BY <2>13, <2>14, <3>1 DEF ProofsOK
    <3>3. ASSUME NEW q \in Provers
          PROVE  /\ Planned(q)' # "none" => proofs'[q].snapshot \subseteq PromotedIds'
                 /\ Planned(q)' = "done" => proofs'[q].manifest.deps \subseteq proofs'[q].snapshot
      <4>1. CASE q = r  BY <4>1, <1>7, <2>13, <2>15, <3>1
      <4>2. CASE q # r  BY <4>2, <2>15, <3>1 DEF Planned, ProofsOK, PromotedIds
      <4> QED BY <4>1, <4>2
    <3> QED BY <3>2, <3>3 DEF ProofsOK, PromotedIds
  <2>18. RunsOK'
    <3>1. ASSUME NEW v \in revisions', Proved(v)
          PROVE  /\ v.fact \in Known' /\ v.run \in Provers /\ Planned(v.run)' = "done"
                 /\ v.claim = proofs'[v.run].claim /\ v.number = proofs'[v.run].base.number + 1
      <4>1. CASE v = new
        <5>1. v.fact \in Known' /\ v.run = r /\ v.claim = c /\ v.number = n + 1  BY <4>1, <2>2, <2>10
        <5>2. proofs[r].base.number = n  BY <1>3, <1>11, <2>4 DEF Agrees
        <5>3. proofs'[r].stage = "done" /\ proofs'[r].claim = c /\ proofs'[r].base = proofs[r].base  BY <2>13, <2>15
        <5>4. Planned(v.run)' = "done"  BY <5>1, <5>3 DEF Planned
        <5> QED BY <5>1, <5>2, <5>3, <5>4
      <4>2. CASE v # new
        <5>1. PICK w \in revisions : Alike(v, w)  BY <4>2, <2>9
        <5>2. w \in Promoted  BY <3>1, <5>1 DEF Promoted, Proved, Alike
        <5>3. /\ w.fact \in Known /\ w.run \in Provers /\ Planned(w.run) = "done"
              /\ w.claim = proofs[w.run].claim /\ w.number = proofs[w.run].base.number + 1
            BY <5>2 DEF RunsOK
        <5>4. v.fact = w.fact /\ v.run = w.run /\ v.claim = w.claim /\ v.number = w.number  BY <5>1 DEF Alike
        <5>5. v.run \in Provers /\ ProofKept(v.run) /\ Planned(v.run) = "done"  BY <5>3, <5>4, <2>16
        <5> QED BY <5>3, <5>4, <5>5, <2>1 DEF ProofKept, Planned, FactsKept
      <4> QED BY <4>1, <4>2
    <3> QED BY <3>1 DEF RunsOK, Promoted, Proved, Planned
  <2>19. PromotionsOK'
    <3>1. \A q \in Promoters : PromotionOK(q)'  BY <1>8, <2>9, <2>16, PromotionStays DEF PromotionsOK
    <3> QED BY <1>8, <3>1 DEF PromotionsOK
  <2>20. FindingsOK'
    <3> DEFINE Hit(f) == f[1] = r /\ findings[f].status \notin {"none", "verified"} /\ \E i \in DOMAIN b : b[i].states = f[2]
               At(f) == CHOOSE i \in DOMAIN b : b[i].states = f[2]
    <3>1. findings' = [f \in DOMAIN findings |->
              IF Hit(f) THEN [status |-> "verified", fact |-> b[At(f)]] ELSE findings[f]]
        BY <1>11 DEF Matched
    <3>2. \A f \in DOMAIN findings : Hit(f) => At(f) \in DOMAIN b /\ b[At(f)].states = f[2]  OBVIOUS
    <3> HIDE DEF Hit, At
    <3>3. \A f \in DOMAIN findings : Hit(f) => b[At(f)] \in Standing' /\ b[At(f)] \in Known'  BY <2>1, <3>2
    <3>4. findings' \in [Provers \X Lemmas ->
            [status : {"none", "active", "verified", "superseded"}, fact : Known' \cup {NoFact}]]
        BY <3>1, <3>3, <2>1 DEF FindingsOK, FactsKept
    <3>5. VerifiedStands'
      <4>1. ASSUME NEW f \in DOMAIN findings', findings'[f].status = "verified"
            PROVE  findings'[f].fact \in Standing' /\ findings'[f].fact.states = f[2]
        <5>1. CASE Hit(f)  BY <3>1, <3>2, <3>3, <5>1
        <5>2. CASE ~Hit(f)
          <6>1. f \in DOMAIN findings /\ findings'[f] = findings[f]  BY <3>1, <5>2
          <6>2. findings[f].fact \in Standing /\ findings[f].fact.states = f[2]
              BY <4>1, <6>1 DEF FindingsOK, VerifiedStands
          <6>3. Standing \subseteq Standing'  BY <1>1, <2>1 DEF Standing, FactsKept
          <6> QED BY <6>1, <6>2, <6>3
        <5> QED BY <5>1, <5>2
      <4> QED BY <4>1 DEF VerifiedStands
    <3> QED BY <3>4, <3>5 DEF FindingsOK, NoFact, Fact
  <2>21. ViewOK'  BY <1>1, <2>1, ViewStays
  <2> QED BY <2>1, <2>9, <2>11, <2>12, <2>17, <2>18, <2>19, <2>20, <2>21 DEF FactsKept
<1>12. \/ proofs' = [proofs EXCEPT ![r].outcome = "conflict"] /\ UNCHANGED <<facts, revisions, findings>>
       \/ UNCHANGED <<facts, revisions, findings, proofs>>
       \/ /\ Agrees(r) /\ Insertables(b) /\ facts' = facts \o NewFacts(b) /\ findings' = Matched(r, b)
          /\ revisions' = Replace(c, Row(c, EffectiveConditions(m), b[Len(b)], r, m.deps))
          /\ proofs' = [proofs EXCEPT ![r].outcome = "promoted",
               ![r].revision = [claim |-> c, number |-> CurrentId(c).number + 1]]
    BY <1>2, <1>3 DEF Promote
<1> QED BY <1>9, <1>10, <1>11, <1>12

-----------------------------------------------------------------------------
(* The views.                                                              *)

LEMMA ReadCandidatesInv == ASSUME RegistryInv, ReadCandidates PROVE RegistryInv'
<1> USE DEF RegistryInv
<1>1. /\ UNCHANGED <<facts, revoked, revisions, proofs, findings, promotions>>
      /\ view' = [at |-> "reading", candidates |-> Candidates] /\ moment' = revoked
    BY DEF ReadCandidates
<1>2. /\ KnownOK' /\ FactsKept /\ Known' = Known /\ RowsOK' /\ LineOK' /\ DepsOK' /\ RowsKept
      /\ ProofsOK' /\ RunsOK' /\ \A r \in Provers : ProofKept(r)
    BY <1>1, RestStays
<1>3. StandingClosed'  BY <1>1, FactsStay
<1>4. PromotionsOK' /\ FindingsOK'  BY <1>1, <1>2, PromotionsStay, FindingsStay
<1>5. Candidates \subseteq Standing  BY DEF Candidates, Standing, Known, Range
<1>6. \A f \in Known : Below(f)' = Below(f)  BY <1>2, BelowStays
<1>7. ASSUME NEW f \in Standing PROVE Below(f) \subseteq Standing
  <2>1. Standing \in SUBSET Known /\ f \in Known  BY DEF Standing
  <2>2. \A g \in Standing : g.on \subseteq Standing  BY DEF StandingClosed
  <2>3. BelowIsLeast(f)  BY <2>1, BelowLeast
  <2> QED BY <2>1, <2>2, <2>3 DEF BelowIsLeast
<1>8. \A f \in view'.candidates : f \in Known' /\ Below(f)' \cap moment' = {}
  <2>1. ASSUME NEW f \in Candidates PROVE f \in Known' /\ Below(f)' \cap revoked = {}
    <3>1. f \in Standing /\ f \in Known  BY <1>5 DEF Standing
    <3>2. Below(f)' = Below(f) /\ Below(f) \subseteq Standing  BY <1>6, <1>7, <3>1
    <3> QED BY <1>2, <3>1, <3>2 DEF Standing
  <2> QED BY <1>1, <2>1
<1>9. ViewOK'  BY <1>1, <1>8 DEF ViewOK, ViewComplete
<1> QED BY <1>2, <1>3, <1>4, <1>9

(* What is chosen of the first n candidates of a rank.                     *)
Fits(s) == Cardinality(s) <= NodeBudget
ChosenOK(s, rank, n) ==
    /\ s \in SUBSET Known /\ Fits(s)
    /\ \A f \in s : f.on \subseteq s /\ \E i \in 1..n : f \in Below(rank[i])
    /\ \A i \in 1..n : Below(rank[i]) \subseteq s \/ ~Fits(s \cup Below(rank[i]))

LEMMA ChoiceKeeps ==
    ASSUME KnownOK, NEW rank, NEW n \in Nat, \A i \in 1..(n + 1) : rank[i] \in Known,
           NEW s, ChosenOK(s, rank, n), NEW t,
           t = IF Fits(s \cup Below(rank[n + 1])) THEN s \cup Below(rank[n + 1]) ELSE s
    PROVE  ChosenOK(t, rank, n + 1)
<1>1. (n + 1) \in 1..(n + 1) /\ \A i \in 1..(n + 1) : i = n + 1 \/ i \in 1..n  OBVIOUS
<1>2. BelowIsLeast(rank[n + 1])  BY <1>1, BelowLeast
<1>3. \A i \in 1..(n + 1) : Below(rank[i]) \in SUBSET Known
  <2> SUFFICES ASSUME NEW i \in 1..(n + 1) PROVE Below(rank[i]) \in SUBSET Known  OBVIOUS
  <2>1. rank[i] \in Known  OBVIOUS
  <2>2. BelowIsLeast(rank[i])  BY <2>1, BelowLeast
  <2> QED BY <2>2 DEF BelowIsLeast
<1>4. s \subseteq t /\ t \in SUBSET Known /\ Fits(t)  BY <1>1, <1>3 DEF ChosenOK
<1>5. ASSUME NEW f \in t PROVE f.on \subseteq t /\ \E i \in 1..(n + 1) : f \in Below(rank[i])
  <2>1. CASE f \in s  BY <2>1, <1>4 DEF ChosenOK
  <2>2. CASE f \notin s  BY <2>2, <1>1, <1>2, <1>5 DEF BelowIsLeast
  <2> QED BY <2>1, <2>2
<1>6. ASSUME NEW i \in 1..(n + 1) PROVE Below(rank[i]) \subseteq t \/ ~Fits(t \cup Below(rank[i]))
  <2>1. CASE i = n + 1  BY <2>1
  <2>2. CASE i \in 1..n
    <3>1. CASE Below(rank[i]) \subseteq s  BY <3>1, <1>4
    <3>2. CASE ~Fits(s \cup Below(rank[i]))
      <4> DEFINE a == s \cup Below(rank[i])
                 b == t \cup Below(rank[i])
      <4>1. a \subseteq b /\ b \in SUBSET Known  BY <1>3, <1>4
      <4> HIDE DEF a, b
      <4>2. IsFiniteSet(b)  BY <4>1, KnownFinite, FS_Subset
      <4>3. IsFiniteSet(a) /\ Cardinality(a) <= Cardinality(b)  BY <4>1, <4>2, FS_Subset
      <4>4. Cardinality(a) \in Nat /\ Cardinality(b) \in Nat  BY <4>2, <4>3, FS_CardinalityType
      <4>5. ~(Cardinality(a) <= NodeBudget)  BY <3>2 DEF Fits, a
      <4>6. ~(Cardinality(b) <= NodeBudget)  BY <4>3, <4>4, <4>5, RegistryAssumption
      <4> QED BY <4>6 DEF Fits, b
    <3> QED BY <2>2, <3>1, <3>2 DEF ChosenOK
  <2> QED BY <1>1, <2>1, <2>2
<1> QED BY <1>4, <1>5, <1>6 DEF ChosenOK

LEMMA SelectedOK ==
    ASSUME KnownOK, NEW rank, NEW C \in SUBSET Known, rank \in SetToSeqs(C)
    PROVE  ChosenOK(SelectedNodes(rank), rank, Len(rank)) /\ \A f \in C : \E i \in 1..Len(rank) : rank[i] = f
<1>0. IsFiniteSet(C) /\ Cardinality(C) \in Nat  BY KnownFinite, FS_Subset, FS_CardinalityType
<1> DEFINE L == Cardinality(C)
<1>1. rank \in [1..L -> C] /\ Len(rank) = L /\ \A i, j \in 1..L : i # j => rank[i] # rank[j]
  <2>1. rank \in [1..L -> C] /\ \A i, j \in 1..L : i # j => rank[i] # rank[j]  BY DEF SetToSeqs
  <2>2. DOMAIN rank = 1..L  BY <2>1
  <2>3. rank \in Seq(C)  BY <1>0, <2>1
  <2>4. DOMAIN rank = 1..Len(rank) /\ Len(rank) \in Nat  BY <2>3
  <2> HIDE DEF L
  <2>5. L \in Nat  BY <1>0 DEF L
  <2> QED BY <2>1, <2>2, <2>4, <2>5
<1>2. \A f \in C : \E i \in 1..L : rank[i] = f
  <2>1. rank \in Injection(1..L, C)  BY <1>1 DEF Injection, IsInjective
  <2>2. Cardinality(1..L) = L
    <3> HIDE DEF L
    <3>1. L \in Nat  BY <1>0 DEF L
    <3>2. 1 \in Int /\ L \in Int /\ ~(1 > L /\ L # 0)  BY <3>1
    <3>3. Cardinality(1..L) = IF 1 > L THEN 0 ELSE L - 1 + 1  BY <3>2, FS_Interval
    <3> QED BY <3>1, <3>3
  <2>3. rank \in Surjection(1..L, C)  BY <1>0, <2>1, <2>2, FS_Injection
  <2> QED BY <2>3 DEF Surjection
<1>3. \A i \in 1..L : rank[i] \in Known  BY <1>1
<1> DEFINE T == SUBSET Known
           Take(i, s) == IF Cardinality(s \cup Below(rank[i])) <= NodeBudget THEN s \cup Below(rank[i]) ELSE s
           step == [x \in (1..L) \X T |-> Take(x[1], x[2])]
           Choice(c) == [n \in 0..L |->
                IF n = 0 THEN {}
                ELSE IF Cardinality(c[n - 1] \cup Below(rank[n])) <= NodeBudget
                THEN c[n - 1] \cup Below(rank[n])
                ELSE c[n - 1]]
<1>4. ASSUME NEW i \in 1..L, NEW s \in T PROVE Take(i, s) \in T
  <2>1. Below(rank[i]) \in T  BY <1>3, BelowLeast DEF BelowIsLeast
  <2> HIDE DEF Below
  <2> QED BY <2>1
<1>5. PICK q \in [0..L -> T] : q[0] = {} /\ \A n \in 1..L : q[n] = Take(n, q[n - 1])
  <2>1. step \in [(1..L) \X T -> T] /\ {} \in T
    <3> HIDE DEF Take
    <3> QED BY <1>4
  <2>2. \A n \in 1..L, s \in T : step[<<n, s>>] = Take(n, s)
    <3> HIDE DEF Take
    <3> QED OBVIOUS
  <2>3. L \in Nat  BY <1>0
  <2> DEFINE start == {}
  <2>4. start \in T  OBVIOUS
  <2> HIDE DEF T, step, L, start
  <2>5. \E q \in [0..L -> T] : IsSteps(q, step, start, L)  BY <2>1, <2>3, <2>4, StepsExist
  <2>6. PICK q \in [0..L -> T] : q[0] = {} /\ \A n \in 1..L : q[n] = step[<<n, q[n - 1]>>]
      BY <2>5 DEF IsSteps, start
  <2>7. \A n \in 1..L : (n - 1) \in 0..L  BY <2>3
  <2>8. \A n \in 1..L : q[n] = Take(n, q[n - 1])  BY <2>2, <2>6, <2>7
  <2> QED BY <2>6, <2>8
<1>6. q = Choice(q)
  <2>1. ASSUME NEW n \in 0..L, n # 0 PROVE n \in 1..L  BY <2>1, <1>0
  <2> QED BY <1>5, <2>1
<1> DEFINE c == CHOOSE c : c = Choice(c)
<1>7. c = Choice(c)
  <2> HIDE DEF Choice
  <2> QED BY <1>6
<1>8. SelectedNodes(rank) = c[L]  BY <1>1 DEF SelectedNodes
<1> HIDE DEF c
<1>9. c[0] = {} /\ \A n \in 1..L : c[n] = Take(n, c[n - 1])
  <2>1. L \in Nat  BY <1>0
  <2>2. c = [n \in 0..L |-> IF n = 0 THEN {} ELSE Take(n, c[n - 1])]  BY <1>7
  <2> HIDE DEF L, Take
  <2>3. c[0] = {}  BY <2>1, <2>2
  <2>4. ASSUME NEW n \in 1..L PROVE c[n] = Take(n, c[n - 1])
    <3>1. n \in 0..L /\ n # 0  BY <2>1
    <3> QED BY <3>1, <2>2
  <2> QED BY <2>3, <2>4
<1> DEFINE N == {n \in 0..L : ~ChosenOK(c[n], rank, n)}
<1>10. ChosenOK(c[0], rank, 0)
  <2>1. Cardinality({}) = 0  BY FS_EmptySet
  <2> QED BY <1>9, <2>1, RegistryAssumption DEF ChosenOK, Fits
<1>11. ASSUME NEW n \in 1..L, ChosenOK(c[n - 1], rank, n - 1) PROVE ChosenOK(c[n], rank, n)
  <2>1. (n - 1) \in Nat /\ (n - 1) + 1 = n /\ \A i \in 1..n : rank[i] \in Known  BY <1>0, <1>3
  <2>2. c[n] = IF Fits(c[n - 1] \cup Below(rank[n])) THEN c[n - 1] \cup Below(rank[n]) ELSE c[n - 1]
      BY <1>9 DEF Fits
  <2> DEFINE k == n - 1
  <2>3. k \in Nat /\ k + 1 = n  BY <2>1
  <2>4. ChosenOK(c[k], rank, k) /\ \A i \in 1..(k + 1) : rank[i] \in Known  BY <1>11, <2>1
  <2>5. c[n] = IF Fits(c[k] \cup Below(rank[k + 1])) THEN c[k] \cup Below(rank[k + 1]) ELSE c[k]
      BY <2>2, <2>3
  <2> HIDE DEF k
  <2>6. ChosenOK(c[n], rank, k + 1)  BY <2>3, <2>4, <2>5, ChoiceKeeps
  <2> QED BY <2>3, <2>6
<1>12. N = {}
  <2> SUFFICES ASSUME N # {} PROVE FALSE  OBVIOUS
  <2>0. N \subseteq Nat /\ \E n \in N : TRUE  BY <1>0
  <2>1. PICK k \in N : \A m \in N : k <= m
    <3> HIDE DEF N
    <3> QED BY <2>0, LeastIn
  <2>2. k # 0  BY <1>10
  <2>3. k \in 1..L /\ (k - 1) \in 0..L /\ k - 1 \notin N  BY <1>0, <2>1, <2>2
  <2> QED BY <1>11, <2>3
<1>13. ChosenOK(c[L], rank, L)  BY <1>0, <1>12
<1> QED BY <1>1, <1>2, <1>8, <1>13

LEMMA AssembleViewInv ==
    ASSUME RegistryInv, NEW rank \in SetToSeqs(view.candidates), AssembleView(rank)
    PROVE  RegistryInv'
<1> USE DEF RegistryInv
<1>1. /\ UNCHANGED <<facts, revoked, revisions, proofs, findings, promotions, moment>> /\ view.at = "reading"
      /\ \/ view' = [at |-> "failed"]
         \/ view' = [at |-> "shown", candidates |-> view.candidates, nodes |-> SelectedNodes(rank)]
    BY DEF AssembleView
<1>2. /\ KnownOK' /\ FactsKept /\ Known' = Known /\ RowsOK' /\ LineOK' /\ DepsOK' /\ RowsKept
      /\ ProofsOK' /\ RunsOK' /\ \A r \in Provers : ProofKept(r)
    BY <1>1, RestStays
<1>3. StandingClosed'  BY <1>1, FactsStay
<1>4. PromotionsOK' /\ FindingsOK'  BY <1>1, <1>2, PromotionsStay, FindingsStay
<1>5. view.candidates \in SUBSET Known /\ \A f \in view.candidates : Below(f) \cap moment = {}
    BY <1>1 DEF ViewOK
<1>6. \A f \in Known : Below(f)' = Below(f)  BY <1>2, BelowStays
<1>7. CASE view' = [at |-> "failed"]
  <2>1. ViewOK'  BY <1>7 DEF ViewOK, ViewComplete
  <2> QED BY <1>2, <1>3, <1>4, <2>1
<1>8. CASE view' = [at |-> "shown", candidates |-> view.candidates, nodes |-> SelectedNodes(rank)]
  <2>1. PICK C, s : C = view.candidates /\ s = SelectedNodes(rank)  OBVIOUS
  <2>2. ChosenOK(s, rank, Len(rank)) /\ \A f \in C : \E i \in 1..Len(rank) : rank[i] = f
      BY <1>5, <2>1, SelectedOK
  <2>3. \A i \in 1..Len(rank) : rank[i] \in C
    <3>1. rank \in [1..Cardinality(C) -> C]  BY <2>1 DEF SetToSeqs
    <3>2. Cardinality(C) \in Nat  BY <1>5, <2>1, KnownFinite, FS_Subset, FS_CardinalityType
    <3>3. rank \in Seq(C)  BY <3>1, <3>2
    <3> QED BY <3>3
  <2>4. s \cap moment = {}
    <3>1. ASSUME NEW f \in s PROVE f \notin moment
      <4>1. PICK i \in 1..Len(rank) : f \in Below(rank[i])  BY <2>2 DEF ChosenOK
      <4>2. rank[i] \in C /\ Below(rank[i]) \cap moment = {}  BY <1>5, <2>1, <2>3
      <4> QED BY <4>1, <4>2
    <3> QED BY <3>1
  <2>5. ASSUME NEW f \in C \ s PROVE Cardinality(s \cup Below(f)) > NodeBudget
    <3>1. PICK i \in 1..Len(rank) : rank[i] = f  BY <2>2
    <3>2. f \in Known  BY <1>5, <2>1
    <3>3. BelowIsLeast(f)  BY <3>2, BelowLeast
    <3>4. ~Fits(s \cup Below(f))  BY <2>2, <3>1, <3>3, <2>5 DEF ChosenOK, BelowIsLeast
    <3>5. s \cup Below(f) \in SUBSET Known  BY <2>2, <3>3 DEF ChosenOK, BelowIsLeast
    <3> DEFINE b == s \cup Below(f)
    <3>6. b \in SUBSET Known /\ ~(Cardinality(b) <= NodeBudget)  BY <3>4, <3>5 DEF Fits
    <3> HIDE DEF b
    <3>7. Cardinality(b) \in Nat  BY <3>6, KnownFinite, FS_Subset, FS_CardinalityType
    <3>8. Cardinality(b) > NodeBudget  BY <3>6, <3>7, RegistryAssumption
    <3> QED BY <3>8 DEF b
  <2>6. view'.at = "shown" /\ view'.candidates = C /\ view'.nodes = s  BY <1>8, <2>1
  <2>7. \A f \in C : Below(f)' = Below(f)  BY <1>5, <1>6, <2>1
  <2>8. ViewComplete'
    <3>1. Cardinality(s) <= NodeBudget /\ \A f \in s : f.on \subseteq s  BY <2>2 DEF ChosenOK, Fits
    <3>2. \A f \in C \ s : Cardinality(s \cup Below(f)') > NodeBudget  BY <2>5, <2>7
    <3> HIDE DEF Below
    <3> QED BY <1>1, <2>4, <2>6, <3>1, <3>2 DEF ViewComplete
  <2>9. view'.candidates \in SUBSET Known' /\ \A f \in view'.candidates : Below(f)' \cap moment' = {}
      BY <1>1, <1>2, <1>5, <2>1, <2>6, <2>7
  <2>10. ViewOK'  BY <2>6, <2>8, <2>9 DEF ViewOK
  <2> QED BY <1>2, <1>3, <1>4, <2>10
<1> QED BY <1>1, <1>7, <1>8

LEMMA AnswerViewInv == ASSUME RegistryInv, AnswerView PROVE RegistryInv'
<1>1. /\ UNCHANGED <<facts, revoked, revisions, proofs, findings, promotions>>
      /\ view' = [at |-> "none"] /\ moment' = {}
    BY DEF AnswerView
<1>2. /\ KnownOK' /\ FactsKept /\ Known' = Known /\ RowsOK' /\ LineOK' /\ DepsOK' /\ RowsKept
      /\ ProofsOK' /\ RunsOK' /\ \A r \in Provers : ProofKept(r)
    BY <1>1, RestStays
<1>3. StandingClosed'  BY <1>1, FactsStay DEF RegistryInv
<1>4. PromotionsOK' /\ FindingsOK'  BY <1>1, <1>2, PromotionsStay, FindingsStay DEF RegistryInv
<1>5. ViewOK'  BY <1>1 DEF ViewOK, ViewComplete
<1> QED BY <1>2, <1>3, <1>4, <1>5 DEF RegistryInv

LEMMA ForgetInv == ASSUME RegistryInv, NEW p \in Promoters, Forget(p) PROVE RegistryInv'
BY LeaveInv DEF Forget

LEMMA RegistryNextInv == RegistryInv /\ [RegistryNext]_registryVars => RegistryInv'
<1> SUFFICES ASSUME RegistryInv, [RegistryNext]_registryVars PROVE RegistryInv'  OBVIOUS
<1>1. ASSUME NEW c \in Claims, ReviseClaim(c) PROVE RegistryInv'  BY <1>1, ReviseInv
<1>2. ASSUME NEW r \in Provers, NEW c \in Claims, TakeSnapshot(r, c) PROVE RegistryInv'  BY <1>2, TakeSnapshotInv
<1>3. ASSUME NEW r \in Provers, Link(r) PROVE RegistryInv'  BY <1>3, LinkInv
<1>4. ASSUME NEW r \in Provers, NEW l \in Lemmas, Find(r, l) PROVE RegistryInv'  BY <1>4, FindInv
<1>5. ASSUME NEW r \in Provers, NEW m \in Manifests, Prove(r, m) PROVE RegistryInv'  BY <1>5, ProveInv
<1>6. ASSUME NEW p \in Promoters, NEW r \in Provers, Prepare(p, r) PROVE RegistryInv'  BY <1>6, PrepareInv
<1>7. ASSUME NEW p \in Promoters, Inspect(p) \/ WriteConflict(p) \/ Promote(p) \/ Forget(p) PROVE RegistryInv'
    BY <1>7, InspectInv, WriteConflictInv, PromoteInv, ForgetInv
<1>8. ASSUME NEW f \in Known, Revoke(f) PROVE RegistryInv'  BY <1>8, RevokeInv
<1>9. CASE ReadCandidates  BY <1>9, ReadCandidatesInv
<1>10. CASE AnswerView  BY <1>10, AnswerViewInv
<1>11. ASSUME NEW rank \in SetToSeqs(view.candidates), AssembleView(rank) PROVE RegistryInv'
    BY <1>11, AssembleViewInv
<1>12. CASE UNCHANGED registryVars
  <2>1. UNCHANGED <<facts, revoked, revisions, proofs, findings, promotions, view, moment>>
      BY <1>12 DEF registryVars
  <2>2. /\ KnownOK' /\ FactsKept /\ Known' = Known /\ RowsOK' /\ LineOK' /\ DepsOK' /\ RowsKept
        /\ ProofsOK' /\ RunsOK' /\ \A r \in Provers : ProofKept(r)
      BY <2>1, RestStays
  <2>3. StandingClosed'  BY <2>1, FactsStay DEF RegistryInv
  <2>4. PromotionsOK' /\ FindingsOK' /\ ViewOK'  BY <2>1, <2>2, PromotionsStay, FindingsStay, ViewStays DEF RegistryInv
  <2> QED BY <2>2, <2>3, <2>4 DEF RegistryInv
<1> QED BY <1>1, <1>2, <1>3, <1>4, <1>5, <1>6, <1>7, <1>8, <1>9, <1>10, <1>11, <1>12 DEF RegistryNext

-----------------------------------------------------------------------------
(* What the invariant says.                                                *)

LEMMA InvRests == RegistryInv => RestsOnStanding
<1> SUFFICES ASSUME RegistryInv PROVE RestsOnStanding  OBVIOUS
<1>1. ASSUME NEW f \in Standing PROVE Below(f) \subseteq Standing
  <2>1. Standing \in SUBSET Known /\ f \in Known  BY DEF Standing
  <2>2. \A g \in Standing : g.on \subseteq Standing  BY DEF RegistryInv, StandingClosed
  <2>3. BelowIsLeast(f)  BY <2>1, BelowLeast DEF RegistryInv
  <2> QED BY <2>1, <2>2, <2>3 DEF BelowIsLeast
<1>2. ASSUME NEW v \in revisions, v.fact \in Standing, NEW d \in v.deps PROVE RowOf(d).fact \in Standing
    BY <1>2 DEF RegistryInv, DepsOK, StandingClosed
<1> QED BY <1>1, <1>2 DEF RestsOnStanding

LEMMA InvLine == RegistryInv => LineOfRevisions
<1> SUFFICES ASSUME RegistryInv PROVE LineOfRevisions  OBVIOUS
<1>1. ASSUME NEW c \in Claims
      PROVE  LET rows == {v \in revisions : v.claim = c} IN
             /\ {v.number : v \in rows} = 1..Cardinality(rows)
             /\ \A v \in rows : v.active <=> v.number = Cardinality(rows)
  <2> DEFINE rows == {v \in revisions : v.claim = c}
  <2>1. PICK n \in Nat : LineTo(c, n)  BY DEF RegistryInv, LineOK
  <2>2. {v.number : v \in rows} = 1..n /\ \A v \in rows : v.active <=> v.number = n
      BY <2>1 DEF LineTo, RowsOf
  <2>3. \A v, w \in rows : v.number = w.number => v = w  BY DEF RegistryInv, RowsOK, Id
  <2> HIDE DEF rows
  <2> DEFINE f == [v \in rows |-> v.number]
  <2>4. f \in Injection(rows, 1..n) /\ f \in Surjection(rows, 1..n)
    <3>1. f \in [rows -> 1..n]  BY <2>2
    <3>2. \A v, w \in rows : f[v] = f[w] => v = w  BY <2>3
    <3>3. \A k \in 1..n : \E v \in rows : f[v] = k  BY <2>2
    <3>4. DOMAIN f = rows  OBVIOUS
    <3> HIDE DEF f
    <3> QED BY <3>1, <3>2, <3>3, <3>4 DEF Injection, IsInjective, Surjection
  <2>5. IsFiniteSet(1..n) /\ Cardinality(1..n) = n
    <3>1. 1 \in Int /\ n \in Int /\ ~(1 > n /\ n # 0)  OBVIOUS
    <3>2. IsFiniteSet(1..n) /\ Cardinality(1..n) = IF 1 > n THEN 0 ELSE n - 1 + 1  BY <3>1, FS_Interval
    <3> QED BY <3>2
  <2>6. Cardinality(rows) = n
    <3> HIDE DEF f
    <3>1. IsFiniteSet(rows)  BY <2>4, <2>5, FS_Injection
    <3> QED BY <2>4, <2>5, FS_Injection
  <2> QED BY <2>2, <2>6 DEF rows
<1>2. ASSUME NEW v \in revisions, Proved(v)
      PROVE  /\ v.number = proofs[v.run].base.number + 1
             /\ \A w \in revisions : w.run = v.run => w = v
  <2>1. v.claim = proofs[v.run].claim /\ v.number = proofs[v.run].base.number + 1
      BY <1>2 DEF RegistryInv, RunsOK, Promoted
  <2>2. ASSUME NEW w \in revisions, w.run = v.run PROVE w = v
    <3>1. w \in Promoted  BY <1>2, <2>2 DEF Promoted, Proved
    <3>2. w.claim = proofs[w.run].claim /\ w.number = proofs[w.run].base.number + 1
        BY <3>1 DEF RegistryInv, RunsOK
    <3>3. Id(w) = Id(v)  BY <2>1, <2>2, <3>2 DEF Id
    <3> QED BY <3>3 DEF RegistryInv, RowsOK
  <2> QED BY <2>1, <2>2
<1> QED BY <1>1, <1>2 DEF LineOfRevisions

LEMMA InvHypotheses == RegistryInv => HypothesesKept
BY DEF RegistryInv, DepsOK, HypothesesKept

-----------------------------------------------------------------------------
LEMMA RegistryAlwaysInv == RegistrySpec => []RegistryInv
BY RegistryInitInv, RegistryNextInv, PTL DEF RegistrySpec

(* Whatever is revoked, promoted or revised at whatever moment, a fact     *)
(* that stands rests on facts that stand, and no revision is lost to a     *)
(* promotion (insert_promoted_facts, revoke_project_fact,                  *)
(* promote_run_inner).                                                     *)
THEOREM RegistryAlwaysSound == RegistrySpec => [](RestsOnStanding /\ LineOfRevisions)
BY RegistryAlwaysInv, InvRests, InvLine, PTL

(* A result carries the hypotheses of all it depends on, a finding that    *)
(* reads verified stands, and a view is closed, current and within its     *)
(* budget (effective_conditions, verify_matching_findings,                 *)
(* project_memory_view).                                                   *)
THEOREM FindingsAlwaysStand == RegistrySpec => [](HypothesesKept /\ VerifiedStands /\ ViewComplete)
<1>1. RegistryInv => VerifiedStands /\ ViewComplete  BY DEF RegistryInv, FindingsOK, ViewOK
<1> QED BY <1>1, RegistryAlwaysInv, InvHypotheses, PTL
=============================================================================
