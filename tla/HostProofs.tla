------------------------------ MODULE HostProofs ------------------------------
(***************************************************************************)
(* Proofs about the native tools of the host: what a started command runs  *)
(* was inspected, for any PATH, any commands and any changes of the files; *)
(* a patch loses nothing it did not look at, whatever others write and     *)
(* wherever it fails; a command in a sandbox sees its tools and none of    *)
(* the program's data, however the tool directories are configured and     *)
(* changed; and what a permission knows of ignored paths is of one moment. *)
(***************************************************************************)
EXTENDS NativeExec, PatchCommit, SandboxPlan, FiniteSetTheorems, SequenceTheorems, WellFoundedInduction, TLAPS

(***************************************************************************)
(* The commands.                                                           *)
(***************************************************************************)

Entry == 1..PathEntries
Stored == [kind : FileKinds, version : Nat]
Findings == [entry : Nat, file : [kind : FileKinds \cup {"refused"}, version : Nat]]

ExecCalls ==
    [pc : {"idle", "collect", "revalidate", "running"}, command : Seq(Programs), direct : BOOLEAN,
     facts : Seq(Findings), again : Seq(Findings), required : SUBSET {"long_timeout", "privileged_executable"},
     late : SUBSET Programs, ran : Seq(Findings)]

ExecType ==
    /\ changes \in Nat
    /\ disk \in [Entry -> [Programs -> Stored]]
    /\ exec \in [ExecCallers -> ExecCalls]

(* What was collected is of the command, and no refusal is among it.       *)
Collected(e) ==
    /\ Len(e.facts) <= Len(e.command) /\ Len(e.again) <= Len(e.command)
    /\ \A i \in DOMAIN e.facts : e.facts[i] # Refusal
    /\ e.pc \in {"idle", "collect"} => e.again = <<>>

(* What was authorized was found, and its risks were named.                *)
Authorized(e) == e.pc \in {"revalidate", "running"} =>
    /\ Len(e.facts) = Len(e.command)
    /\ \A i \in DOMAIN e.facts : e.facts[i] # Unresolved
    /\ e.required = Required(e.command, e.facts)

(* What was inspected for the last time is still so, or has been changed   *)
(* since.                                                                  *)
AsFound(e) == e.pc = "revalidate" =>
    \A i \in DOMAIN e.again : e.command[i] \in e.late \/ e.again[i] = Resolve(e.command[i], e.direct)

Ran(e) == e.pc = "running" =>
    \A i \in DOMAIN e.command : e.ran[i] = e.facts[i] \/ e.command[i] \in e.late

CallInv(e) == Collected(e) /\ Authorized(e) /\ AsFound(e) /\ Ran(e)
ExecInv == ExecType /\ \A c \in ExecCallers : CallInv(exec[c])

-----------------------------------------------------------------------------
LEMMA FirstExists ==
    ASSUME NEW I, I \subseteq Nat, I # {}
    PROVE  FirstEntry(I) \in I /\ \A j \in I : FirstEntry(I) <= j
  <1>1. PICK n \in I : \A m \in I : <<m, n>> \notin OpToRel(<, Nat)
    BY NatLessThanWellFounded, WFMin
  <1>2. OpToRel(<, Nat) = {ss \in Nat \X Nat : ss[1] < ss[2]}
    BY DEF OpToRel
  <1>3. \A m \in I : n <= m
    <2>1. ASSUME NEW m \in I, m < n PROVE FALSE
      <3>1. <<m, n>> \in {ss \in Nat \X Nat : ss[1] < ss[2]}
        BY <2>1
      <3>. QED
        BY <1>1, <1>2, <3>1
    <2>. QED
      BY <2>1
  <1>. QED
    BY <1>3 DEF FirstEntry

(* A search that is not refused finds what the kernel finds.               *)
LEMMA Resolving ==
    ASSUME ExecType, NEW p \in Programs, NEW direct \in BOOLEAN
    PROVE  /\ Resolve(p, direct) \in Findings /\ KernelFinds(p, direct) \in Findings
           /\ Resolve(p, direct) \notin {Refusal, Unresolved} => KernelFinds(p, direct) = Resolve(p, direct)
  <1>. DEFINE C == Candidate(p, direct)
              I == {i \in Entries(direct) : Runnable(disk[i][p])}
  <1>1. Entries(direct) \subseteq Entry /\ Entry \subseteq Nat /\ 0 \notin Entry
    BY ExecBounds DEF ExecBounds, Entries, Entry
  <1>2. \A i \in Entry : disk[i][p] \in Stored
    BY DEF ExecType
  <1>3. I \subseteq C /\ C \subseteq Entries(direct)
    BY DEF Candidate, Stops, Runnable
  <1>4. Refusal \in Findings /\ Unresolved \in Findings
    BY DEF Refusal, Unresolved, File, Findings, FileKinds
  <1>5. \A i \in Entry : [entry |-> i, file |-> disk[i][p]] \in Findings
    BY <1>1, <1>2 DEF Findings, Stored
  <1>6. KernelFinds(p, direct) = IF I = {} THEN Unresolved ELSE [entry |-> FirstEntry(I), file |-> disk[FirstEntry(I)][p]]
    BY DEF KernelFinds
  <1>7. Resolve(p, direct) = IF C = {} THEN Unresolved
                             ELSE IF Runnable(disk[FirstEntry(C)][p])
                                  THEN [entry |-> FirstEntry(C), file |-> disk[FirstEntry(C)][p]] ELSE Refusal
    BY DEF Resolve
  <1>. HIDE DEF C, I
  <1>8. C # {} => FirstEntry(C) \in C /\ \A j \in C : FirstEntry(C) <= j
    BY <1>1, <1>3, FirstExists
  <1>9. I # {} => FirstEntry(I) \in I /\ \A j \in I : FirstEntry(I) <= j
    BY <1>1, <1>3, FirstExists
  <1>10. Resolve(p, direct) \in Findings /\ KernelFinds(p, direct) \in Findings
    BY <1>1, <1>3, <1>4, <1>5, <1>6, <1>7, <1>8, <1>9
  <1>11. ASSUME Resolve(p, direct) \notin {Refusal, Unresolved} PROVE KernelFinds(p, direct) = Resolve(p, direct)
    <2>1. C # {} /\ Runnable(disk[FirstEntry(C)][p])
      BY <1>7, <1>11
    <2>2. FirstEntry(C) \in I
      <3>1. PICK k \in Entries(direct) : k = FirstEntry(C) /\ Runnable(disk[k][p])
        BY <1>3, <1>8, <2>1
      <3>2. k \in I
        BY <3>1, Zenon DEF I
      <3>. QED
        BY <3>1, <3>2
    <2>3. FirstEntry(I) = FirstEntry(C)
      <3>1. PICK k \in Nat : k = FirstEntry(C) /\ k \in I /\ \A j \in C : k <= j
        BY <1>1, <1>3, <1>8, <2>1, <2>2
      <3>2. PICK m \in Nat : m = FirstEntry(I) /\ m \in C /\ \A j \in I : m <= j
        BY <1>1, <1>3, <1>9, <3>1
      <3>3. k <= m /\ m <= k
        BY <3>1, <3>2
      <3>. QED
        BY <3>1, <3>2, <3>3
    <2>. QED
      BY <1>6, <1>7, <2>1, <2>2, <2>3
  <1>. QED
    BY <1>10, <1>11

(* A call moves on, and the files stay.                                    *)
LEMMA StepMoves ==
    ASSUME ExecInv, NEW c \in ExecCallers, NEW r \in ExecCalls, CallInv(r), SetExec(c, r), UNCHANGED <<disk, changes>>
    PROVE  ExecInv'
  <1>1. /\ exec' = [exec EXCEPT ![c] = r] /\ exec \in [ExecCallers -> ExecCalls]
        /\ \A d \in ExecCallers : CallInv(exec[d])
    BY DEF ExecInv, ExecType, SetExec
  <1>2. \A p, direct : Resolve(p, direct)' = Resolve(p, direct)
    BY DEF Resolve, Candidate, Stops, Runnable
  <1>3. \A e : CallInv(e) => /\ Collected(e) /\ Authorized(e) /\ Ran(e)
                             /\ e.pc = "revalidate" => \A i \in DOMAIN e.again :
                                  e.command[i] \in e.late \/ e.again[i] = Resolve(e.command[i], e.direct)'
    BY <1>2 DEF CallInv, AsFound
  <1>4. \A d \in ExecCallers : CallInv(exec[d])'
    BY <1>1, <1>3 DEF CallInv, AsFound, Collected, Authorized, Ran
  <1>. QED
    BY <1>1, <1>4 DEF ExecInv, ExecType

LEMMA InitExec == ExecInit => ExecInv
  <1>. SUFFICES ASSUME ExecInit PROVE ExecInv
    OBVIOUS
  <1>1. NoExec \in ExecCalls
    BY DEF NoExec, ExecCalls
  <1>2. CallInv(NoExec)
    BY DEF CallInv, Collected, Authorized, AsFound, Ran, NoExec
  <1>3. disk \in [Entry -> [Programs -> Stored]]
    BY DEF ExecInit, Stock, File, Stored, FileKinds, Entry
  <1>. QED
    BY <1>1, <1>2, <1>3 DEF ExecInit, ExecInv, ExecType

(* A call that ends leaves nothing behind.                                 *)
LEMMA Ends ==
    ASSUME ExecInv, NEW c \in ExecCallers, SetExec(c, NoExec), UNCHANGED <<disk, changes>>
    PROVE  ExecInv'
  <1>1. NoExec \in ExecCalls
    BY DEF NoExec, ExecCalls
  <1>2. CallInv(NoExec)
    BY DEF CallInv, Collected, Authorized, AsFound, Ran, NoExec
  <1>. QED
    BY <1>1, <1>2, StepMoves

LEMMA ParseInv ==
    ASSUME ExecInv, NEW c \in ExecCallers, NEW command \in Commands, NEW direct \in BOOLEAN, ParseExec(c, command, direct)
    PROVE  ExecInv'
  <1>. DEFINE r == [NoExec EXCEPT !.pc = "collect", !.command = command, !.direct = direct]
  <1>1. command \in Seq(Programs) /\ Len(command) \in Nat
    BY ExecBounds DEF ExecBounds
  <1>2. r \in ExecCalls
    <2>0. NoExec \in ExecCalls
      BY DEF NoExec, ExecCalls
    <2>1. PICK q \in ExecCalls : q = NoExec
      BY <2>0
    <2>2. [q EXCEPT !.pc = "collect", !.command = command, !.direct = direct] \in ExecCalls
      BY <1>1 DEF ExecCalls
    <2>. QED
      BY <2>1, <2>2
  <1>3. CallInv(r)
    BY <1>1 DEF CallInv, Collected, Authorized, AsFound, Ran, NoExec
  <1>. HIDE DEF r
  <1>. QED
    BY <1>2, <1>3, StepMoves DEF ParseExec, r

(* One more finding that is no refusal.                                    *)
LEMMA FindingAdded ==
    ASSUME NEW s \in Seq(Findings), NEW f \in Findings
    PROVE  /\ Append(s, f) \in Seq(Findings) /\ Len(Append(s, f)) = Len(s) + 1
           /\ \A i \in DOMAIN Append(s, f) : Append(s, f)[i] = IF i <= Len(s) THEN s[i] ELSE f
           /\ \A i \in DOMAIN Append(s, f) : i \in DOMAIN s \/ i = Len(s) + 1
           /\ DOMAIN Append(s, f) = 1..(Len(s) + 1) /\ DOMAIN s = 1..Len(s)
  BY AppendProperties, LenProperties

LEMMA CollectInv == ASSUME ExecInv, NEW c \in ExecCallers, Collect(c) PROVE ExecInv'
  <1>1. PICK e \in ExecCalls : e = exec[c] /\ CallInv(e)
    BY DEF ExecInv, ExecType
  <1>2. /\ e.pc = "collect" /\ Len(e.facts) < Len(e.command)
        /\ e.command \in Seq(Programs) /\ e.facts \in Seq(Findings) /\ Len(e.facts) \in Nat /\ Len(e.command) \in Nat
        /\ e.direct \in BOOLEAN
    BY <1>1 DEF Collect, ExecCalls
  <1>3. PICK f : f = Resolve(e.command[Len(e.facts) + 1], e.direct)
    OBVIOUS
  <1>4. f \in Findings
    <2>1. e.command[Len(e.facts) + 1] \in Programs
      BY <1>2
    <2>. QED
      BY <1>2, <1>3, <2>1, Resolving DEF ExecInv
  <1>5. SetExec(c, IF f = Refusal THEN NoExec ELSE [e EXCEPT !.facts = Append(@, f)]) /\ UNCHANGED <<disk, changes>>
    BY <1>1, <1>3 DEF Collect
  <1>6. CASE f = Refusal
    BY <1>5, <1>6, Ends
  <1>7. CASE f # Refusal
    <2>1. PICK facts \in Seq(Findings) : /\ facts = Append(e.facts, f) /\ Len(facts) = Len(e.facts) + 1
                                         /\ \A i \in DOMAIN facts : facts[i] # Refusal
      <3>1. PICK s \in Seq(Findings) : s = e.facts /\ \A i \in DOMAIN s : s[i] # Refusal
        BY <1>1, <1>2 DEF CallInv, Collected
      <3>2. /\ Append(s, f) \in Seq(Findings) /\ Len(Append(s, f)) = Len(s) + 1
            /\ \A i \in DOMAIN Append(s, f) : Append(s, f)[i] = IF i <= Len(s) THEN s[i] ELSE f
            /\ DOMAIN Append(s, f) = 1..(Len(s) + 1) /\ DOMAIN s = 1..Len(s)
        BY <1>4, <3>1, FindingAdded
      <3>3. \A i \in DOMAIN Append(s, f) : Append(s, f)[i] # Refusal
        BY <1>7, <3>1, <3>2
      <3>. QED
        BY <3>1, <3>2, <3>3
    <2>2. PICK r : r = [e EXCEPT !.facts = facts]
      OBVIOUS
    <2>3. r \in ExecCalls
      BY <2>1, <2>2 DEF ExecCalls
    <2>4. /\ r.pc = "collect" /\ r.facts = facts /\ r.command = e.command /\ r.again = e.again
      BY <1>2, <2>2 DEF ExecCalls
    <2>5. CallInv(r)
      BY <1>1, <1>2, <2>1, <2>4 DEF CallInv, Collected, Authorized, AsFound, Ran
    <2>6. SetExec(c, r)
      BY <1>5, <1>7, <2>1, <2>2
    <2>. QED
      BY <1>5, <2>3, <2>5, <2>6, StepMoves
  <1>. QED
    BY <1>6, <1>7

LEMMA AuthorizeInv == ASSUME ExecInv, NEW c \in ExecCallers, Authorize(c) PROVE ExecInv'
  <1>1. PICK e \in ExecCalls : e = exec[c] /\ CallInv(e)
    BY DEF ExecInv, ExecType
  <1>2. /\ e.pc = "collect" /\ Len(e.facts) = Len(e.command) /\ e.again = <<>>
        /\ SetExec(c, IF Unresolved \in ToSet(e.facts) THEN NoExec
                      ELSE [e EXCEPT !.pc = "revalidate", !.required = Required(e.command, e.facts)])
        /\ UNCHANGED <<disk, changes>>
    BY <1>1 DEF Authorize, CallInv, Collected
  <1>3. CASE Unresolved \in ToSet(e.facts)
    BY <1>2, <1>3, Ends
  <1>4. CASE Unresolved \notin ToSet(e.facts)
    <2>1. PICK q : q = Required(e.command, e.facts)
      OBVIOUS
    <2>2. q \in SUBSET {"long_timeout", "privileged_executable"}
      BY <2>1 DEF Required
    <2>3. PICK r : r = [e EXCEPT !.pc = "revalidate", !.required = q]
      OBVIOUS
    <2>4. r \in ExecCalls
      BY <2>2, <2>3 DEF ExecCalls
    <2>5. /\ r.pc = "revalidate" /\ r.facts = e.facts /\ r.command = e.command /\ r.again = e.again /\ r.required = q
      BY <2>3 DEF ExecCalls
    <2>6. \A i \in DOMAIN e.facts : e.facts[i] # Unresolved
      BY <1>4 DEF ToSet
    <2>7. CallInv(r)
      BY <1>1, <1>2, <2>1, <2>5, <2>6 DEF CallInv, Collected, Authorized, AsFound, Ran
    <2>. QED
      BY <1>2, <1>4, <2>1, <2>3, <2>4, <2>7, StepMoves
  <1>. QED
    BY <1>3, <1>4

LEMMA RevalidateInv == ASSUME ExecInv, NEW c \in ExecCallers, Revalidate(c) PROVE ExecInv'
  <1>1. PICK e \in ExecCalls : e = exec[c] /\ CallInv(e)
    BY DEF ExecInv, ExecType
  <1>2. /\ e.pc = "revalidate" /\ Len(e.again) < Len(e.command)
        /\ e.command \in Seq(Programs) /\ e.again \in Seq(Findings) /\ Len(e.again) \in Nat /\ Len(e.command) \in Nat
        /\ e.direct \in BOOLEAN
    BY <1>1 DEF Revalidate, ExecCalls
  <1>3. PICK f : f = Resolve(e.command[Len(e.again) + 1], e.direct)
    OBVIOUS
  <1>4. f \in Findings
    <2>1. e.command[Len(e.again) + 1] \in Programs
      BY <1>2
    <2>. QED
      BY <1>2, <1>3, <2>1, Resolving DEF ExecInv
  <1>5. SetExec(c, IF f = Refusal THEN NoExec ELSE [e EXCEPT !.again = Append(@, f)]) /\ UNCHANGED <<disk, changes>>
    BY <1>1, <1>3 DEF Revalidate
  <1>6. CASE f = Refusal
    BY <1>5, <1>6, Ends
  <1>7. CASE f # Refusal
    <2>1. PICK again \in Seq(Findings) :
            /\ again = Append(e.again, f) /\ Len(again) = Len(e.again) + 1
            /\ \A i \in DOMAIN again : again[i] = IF i <= Len(e.again) THEN e.again[i] ELSE f
            /\ \A i \in DOMAIN again : i \in DOMAIN e.again \/ i = Len(e.again) + 1
            /\ DOMAIN e.again = 1..Len(e.again)
      <3>1. PICK s \in Seq(Findings) : s = e.again
        BY <1>2
      <3>2. /\ Append(s, f) \in Seq(Findings) /\ Len(Append(s, f)) = Len(s) + 1
            /\ \A i \in DOMAIN Append(s, f) : Append(s, f)[i] = IF i <= Len(s) THEN s[i] ELSE f
            /\ \A i \in DOMAIN Append(s, f) : i \in DOMAIN s \/ i = Len(s) + 1
            /\ DOMAIN s = 1..Len(s)
        BY <1>4, <3>1, FindingAdded
      <3>. QED
        BY <3>1, <3>2
    <2>2. PICK r : r = [e EXCEPT !.again = again]
      OBVIOUS
    <2>3. r \in ExecCalls
      BY <2>1, <2>2 DEF ExecCalls
    <2>4. /\ r.pc = "revalidate" /\ r.facts = e.facts /\ r.command = e.command /\ r.again = again
          /\ r.late = e.late /\ r.direct = e.direct /\ r.required = e.required
      BY <1>2, <2>2 DEF ExecCalls
    <2>5. \A i \in DOMAIN again : e.command[i] \in e.late \/ again[i] = Resolve(e.command[i], e.direct)
      <3>. SUFFICES ASSUME NEW i \in DOMAIN again
                    PROVE  e.command[i] \in e.late \/ again[i] = Resolve(e.command[i], e.direct)
        OBVIOUS
      <3>1. CASE i \in DOMAIN e.again
        <4>1. again[i] = e.again[i]
          BY <2>1, <3>1
        <4>. QED
          BY <1>1, <1>2, <3>1, <4>1 DEF CallInv, AsFound
      <3>2. CASE i = Len(e.again) + 1
        <4>1. again[i] = f
          BY <1>2, <2>1, <3>2
        <4>. QED
          BY <1>3, <3>2, <4>1
      <3>. QED
        BY <2>1, <3>1, <3>2
    <2>6. CallInv(r)
      BY <1>1, <1>2, <2>1, <2>4, <2>5 DEF CallInv, Collected, Authorized, AsFound, Ran
    <2>7. SetExec(c, r)
      BY <1>5, <1>7, <2>1, <2>2
    <2>. QED
      BY <1>5, <2>3, <2>6, <2>7, StepMoves
  <1>. QED
    BY <1>6, <1>7

(* What starts was found twice, so it is what the kernel finds.            *)
LEMMA StartInv == ASSUME ExecInv, NEW c \in ExecCallers, StartExec(c) PROVE ExecInv'
  <1>1. PICK e \in ExecCalls : e = exec[c] /\ CallInv(e)
    BY DEF ExecInv, ExecType
  <1>2. /\ e.pc = "revalidate" /\ Len(e.again) = Len(e.command) /\ e.again = e.facts
        /\ e.command \in Seq(Programs) /\ e.facts \in Seq(Findings) /\ Len(e.command) \in Nat
        /\ DOMAIN e.command = 1..Len(e.command) /\ DOMAIN e.facts = 1..Len(e.facts)
        /\ e.direct \in BOOLEAN
    BY <1>1 DEF StartExec, ExecCalls
  <1>3. PICK ran : ran = [i \in DOMAIN e.command |-> KernelFinds(e.command[i], e.direct)]
    OBVIOUS
  <1>4. SetExec(c, [e EXCEPT !.pc = "running", !.ran = ran]) /\ UNCHANGED <<disk, changes>>
    BY <1>1, <1>3 DEF StartExec
  <1>5. ASSUME NEW i \in DOMAIN e.command
        PROVE  /\ e.command[i] \in Programs /\ ran[i] \in Findings
               /\ ran[i] = e.facts[i] \/ e.command[i] \in e.late
    <2>1. e.command[i] \in Programs
      BY <1>2
    <2>2. ran[i] = KernelFinds(e.command[i], e.direct)
      BY <1>3
    <2>3. /\ ran[i] \in Findings
          /\ Resolve(e.command[i], e.direct) \notin {Refusal, Unresolved} => ran[i] = Resolve(e.command[i], e.direct)
      BY <1>2, <2>1, <2>2, Resolving DEF ExecInv
    <2>4. e.facts[i] # Refusal /\ e.facts[i] # Unresolved
      BY <1>1, <1>2 DEF CallInv, Collected, Authorized
    <2>5. e.command[i] \in e.late \/ e.facts[i] = Resolve(e.command[i], e.direct)
      BY <1>1, <1>2 DEF CallInv, AsFound
    <2>. QED
      BY <2>1, <2>3, <2>4, <2>5
  <1>6. PICK r : r = [e EXCEPT !.pc = "running", !.ran = ran]
    OBVIOUS
  <1>7. r \in ExecCalls
    <2>1. ran \in Seq(Findings)
      <3>1. PICK n \in Nat : n = Len(e.command)
        BY <1>2
      <3>2. ran = [i \in 1..n |-> ran[i]] /\ \A i \in 1..n : ran[i] \in Findings
        BY <1>2, <1>3, <1>5, <3>1
      <3>3. ran \in [1..n -> Findings]
        BY <3>2
      <3>. QED
        BY <3>3, SeqDef
    <2>. QED
      BY <1>6, <2>1 DEF ExecCalls
  <1>8. /\ r.pc = "running" /\ r.facts = e.facts /\ r.command = e.command /\ r.again = e.again
        /\ r.late = e.late /\ r.required = e.required /\ r.ran = ran
    BY <1>6 DEF ExecCalls
  <1>9. CallInv(r)
    BY <1>1, <1>2, <1>5, <1>8 DEF CallInv, Collected, Authorized, AsFound, Ran
  <1>. QED
    BY <1>4, <1>6, <1>7, <1>9, StepMoves

(* A file that changes is no longer what it was under its name alone.      *)
LEMMA ChangeInv ==
    ASSUME ExecInv, NEW i \in Entry, NEW p \in Programs, NEW kind \in FileKinds, ChangeFile(i, p, kind)
    PROVE  ExecInv'
  <1>1. /\ changes \in Nat /\ changes' = changes + 1
        /\ disk \in [Entry -> [Programs -> Stored]] /\ disk' = [disk EXCEPT ![i][p] = File(kind, changes')]
        /\ exec \in [ExecCallers -> ExecCalls]
        /\ \A c \in ExecCallers : CallInv(exec[c])
    BY DEF ExecInv, ExecType, ChangeFile
  <1>2. File(kind, changes') \in Stored
    BY <1>1 DEF File, Stored
  <1>3. disk' \in [Entry -> [Programs -> Stored]]
    BY <1>1, <1>2
  <1>4. ASSUME NEW q \in Programs, q # p, NEW direct \in BOOLEAN PROVE Resolve(q, direct)' = Resolve(q, direct)
    <2>1. Entries(direct) \subseteq Entry
      BY ExecBounds DEF ExecBounds, Entries, Entry
    <2>2. \A j \in Entry : disk'[j][q] = disk[j][q]
      BY <1>1, <1>4
    <2>3. Candidate(q, direct)' = Candidate(q, direct)
      BY <2>1, <2>2 DEF Candidate, Stops
    <2>4. CASE Candidate(q, direct) = {}
      BY <2>3, <2>4 DEF Resolve
    <2>5. CASE Candidate(q, direct) # {}
      <3>1. Candidate(q, direct) \subseteq Entry /\ Entry \subseteq Nat
        BY <2>1 DEF Candidate, Entry
      <3>2. FirstEntry(Candidate(q, direct)) \in Entry
        BY <2>5, <3>1, FirstExists
      <3>. QED
        BY <2>2, <2>3, <3>2 DEF Resolve
    <2>. QED
      BY <2>4, <2>5
  <1>5. ASSUME NEW c \in ExecCallers PROVE exec'[c] \in ExecCalls /\ CallInv(exec[c])'
    <2>1. PICK e \in ExecCalls : e = exec[c] /\ CallInv(e)
      BY <1>1
    <2>2. PICK late : late = IF \E k \in DOMAIN e.again : e.command[k] = p THEN e.late \cup {p} ELSE e.late
      OBVIOUS
    <2>3. PICK r : r = [e EXCEPT !.late = late]
      OBVIOUS
    <2>4. exec'[c] = r
      BY <2>1, <2>2, <2>3 DEF ChangeFile
    <2>5. late \in SUBSET Programs /\ e.late \subseteq late
      BY <2>2 DEF ExecCalls
    <2>6. r \in ExecCalls
      BY <2>3, <2>5 DEF ExecCalls
    <2>7. /\ r.pc = e.pc /\ r.facts = e.facts /\ r.command = e.command /\ r.again = e.again
          /\ r.late = late /\ r.required = e.required /\ r.ran = e.ran /\ r.direct = e.direct
      BY <2>3 DEF ExecCalls
    <2>8. Collected(r) /\ Authorized(r) /\ Ran(r)
      BY <2>1, <2>5, <2>7 DEF CallInv, Collected, Authorized, Ran
    <2>9. ASSUME r.pc = "revalidate", NEW j \in DOMAIN r.again
          PROVE  r.command[j] \in r.late \/ r.again[j] = Resolve(r.command[j], r.direct)'
      <3>1. e.command[j] \in Programs /\ e.direct \in BOOLEAN
        <4>1. e.again \in Seq(Findings) /\ e.command \in Seq(Programs) /\ Len(e.again) <= Len(e.command) /\ e.direct \in BOOLEAN
          BY <2>1 DEF ExecCalls, CallInv, Collected
        <4>2. j \in 1..Len(e.again) /\ Len(e.again) \in Nat /\ Len(e.command) \in Nat
          BY <2>7, <2>9, <4>1
        <4>. QED
          BY <4>1, <4>2
      <3>2. CASE e.command[j] = p
        BY <2>2, <2>7, <2>9, <3>2
      <3>3. CASE e.command[j] # p
        <4>1. PICK q \in Programs : q = e.command[j] /\ q # p
          BY <3>1, <3>3
        <4>2. Resolve(q, e.direct)' = Resolve(q, e.direct)
          BY <1>4, <3>1, <4>1
        <4>3. e.command[j] \in e.late \/ e.again[j] = Resolve(e.command[j], e.direct)
          BY <2>1, <2>7, <2>9 DEF CallInv, AsFound
        <4>. QED
          BY <2>5, <2>7, <4>1, <4>2, <4>3
      <3>. QED
        BY <3>2, <3>3
    <2>10. CallInv(exec[c])'
      BY <2>4, <2>8, <2>9 DEF CallInv, AsFound, Collected, Authorized, Ran
    <2>. QED
      BY <2>4, <2>6, <2>10
  <1>6. exec' \in [ExecCallers -> ExecCalls]
    <2>1. DOMAIN exec' = ExecCallers /\ exec' = [c \in ExecCallers |-> exec'[c]]
      BY DEF ChangeFile
    <2>. QED
      BY <1>5, <2>1
  <1>. QED
    BY <1>1, <1>3, <1>5, <1>6 DEF ExecInv, ExecType

LEMMA NextExec == ExecInv /\ [ExecNext]_execVars => ExecInv'
  <1>. SUFFICES ASSUME ExecInv, [ExecNext]_execVars PROVE ExecInv'
    OBVIOUS
  <1>1. ASSUME NEW c \in ExecCallers, Changed(c) PROVE ExecInv'
    BY <1>1, Ends DEF Changed
  <1>2. CASE UNCHANGED execVars
    <2>1. \A p, direct : Resolve(p, direct)' = Resolve(p, direct)
      BY <1>2 DEF execVars, Resolve, Candidate, Stops, Runnable
    <2>2. \A c \in ExecCallers : CallInv(exec[c])'
      BY <1>2, <2>1 DEF execVars, ExecInv, CallInv, AsFound, Collected, Authorized, Ran
    <2>. QED
      BY <1>2, <2>2 DEF execVars, ExecInv, ExecType
  <1>. QED
    BY <1>1, <1>2, ParseInv, CollectInv, AuthorizeInv, RevalidateInv, StartInv, ChangeInv DEF ExecNext, Entry

(* For any PATH, any commands and any changes: what a command runs was     *)
(* inspected and its privilege asked for, unless it was put there after    *)
(* the last inspection (resolve_sandbox_executable, execute, revalidate).  *)
THEOREM ExecutionAlwaysInspected == ExecSpec => []ExecutionInspected
  <1>1. ExecInv => ExecutionInspected
    <2>. SUFFICES ASSUME ExecInv, NEW c \in ExecCallers, exec[c].pc = "running", NEW i \in DOMAIN exec[c].command
                  PROVE  /\ exec[c].ran[i] = exec[c].facts[i] \/ exec[c].command[i] \in exec[c].late
                         /\ exec[c].ran[i].file.kind = "setuid" /\ exec[c].command[i] \notin exec[c].late =>
                                "privileged_executable" \in exec[c].required
      BY DEF ExecutionInspected, RunsWhatWasInspected, PrivilegeNamed
    <2>1. PICK e \in ExecCalls : e = exec[c] /\ Authorized(e) /\ Ran(e)
      BY DEF ExecInv, ExecType, CallInv
    <2>2. e.ran[i] = e.facts[i] \/ e.command[i] \in e.late
      BY <2>1 DEF Ran
    <2>3. i \in DOMAIN e.facts
      BY <2>1 DEF Authorized, ExecCalls
    <2>4. e.facts[i].file.kind = "setuid" => "privileged_executable" \in e.required
      BY <2>1, <2>3 DEF Authorized, Required
    <2>. QED
      BY <2>1, <2>2, <2>4
  <1>. QED
    BY <1>1, InitExec, NextExec, PTL DEF ExecSpec

-----------------------------------------------------------------------------
(***************************************************************************)
(* The patches.                                                            *)
(***************************************************************************)

Writes == [by : PatchCalls \cup {NoCall}, version : Nat]
Prints == [inode : Nat, version : Nat]
Moving == {"check", "act", "rollback"}
Locked == {"revalidate", "stage", "recheck"} \cup Moving
JobStates == {"idle", "prepare", "refused", "committed", "failed"} \cup Locked

Jobs ==
    [pc : JobStates, patch : Seq([name : Names, kind : ChangeKinds]), base : Seq(Prints), next : Nat \ {0},
     stage : Seq(Nat), backup : Seq(Nat), done : Seq(Nat), kept : SUBSET Nat, others : SUBSET Names]

ChangesOf(p) == {k \in DOMAIN p : p[k].kind # "check"}
InPlace(e) == ToSet(e.done)
IdOf(i, is) == [inode |-> i, version |-> is[i].version]

(* How much of a patch has been fingerprinted, staged and linked.          *)
Shape(e) ==
    /\ \A j, k \in ChangesOf(e.patch) : e.patch[j].name = e.patch[k].name => j = k
    /\ Len(e.base) <= Len(e.patch) /\ Len(e.stage) <= Len(e.patch) /\ Len(e.backup) <= Len(e.stage)
    /\ e.pc \notin {"idle", "prepare", "refused"} => Len(e.base) = Len(e.patch)
    /\ e.pc \in {"recheck", "committed", "failed"} \cup Moving => Len(e.backup) = Len(e.patch)
    /\ \A k \in DOMAIN e.base : e.base[k].inode = 0 => e.base[k] = Missing
    /\ \A k \in DOMAIN e.backup : e.backup[k] = IF k \in ChangesOf(e.patch) THEN e.base[k].inode ELSE 0

(* Which of its changes are in place.                                      *)
Rising(s) == \A i, j \in DOMAIN s : i < j => s[i] < s[j]
Progress(e) ==
    /\ e.pc = "idle" => e.patch = <<>>
    /\ e.pc \in {"idle", "prepare", "revalidate"} => e.stage = <<>> /\ e.backup = <<>>
    /\ e.pc \notin {"rollback", "failed"} => e.kept = {}
    /\ e.pc \notin {"committed"} \cup Moving => e.done = <<>>
    /\ e.pc \in {"check", "act"} => InPlace(e) = {k \in ChangesOf(e.patch) : k < e.next}
    /\ e.pc = "act" => e.next \in ChangesOf(e.patch)
    /\ e.pc = "rollback" => \A k \in InPlace(e) : k \in ChangesOf(e.patch) /\ k < e.next
    /\ e.pc = "committed" => InPlace(e) = ChangesOf(e.patch)
    /\ Rising(e.done)

(* A name nobody else touched holds the change that is in place, or what   *)
(* was there before, or its original is kept.                              *)
Spare(e, k) == IF e.backup[k] = 0 THEN e.stage[k] ELSE e.backup[k]
Placed(e, fs) ==
    \A k \in ChangesOf(e.patch) \cap DOMAIN e.base : e.patch[k].name \notin e.others =>
        IF k \in InPlace(e) THEN fs[e.patch[k].name] = e.stage[k]
        ELSE \/ fs[e.patch[k].name] = e.base[k].inode
             \/ k \in DOMAIN e.backup /\ Spare(e, k) \in e.kept

(* What a call is about to put a file over was looked at, or came too late.*)
Looked(e, fs, is, late) == e.pc = "act" =>
    LET i == fs[e.patch[e.next].name] IN i \in {0} \cup late \/ IdOf(i, is) = e.base[e.next]

(* What it may have to take back is its own, or came too late.             *)
Own(e, fs, late) == e.pc \in Moving =>
    \A k \in InPlace(e) : fs[e.patch[k].name] \in {0, e.stage[k]} \cup late

JobInv(e, fs, is, late) ==
    Shape(e) /\ Progress(e) /\ Placed(e, fs) /\ Looked(e, fs, is, late) /\ Own(e, fs, late)

(* An inode is never found under two names, or meant for two.              *)
Lives(e, n, i) ==
    \E k \in DOMAIN e.patch : e.patch[k].name = n /\
        ((k \in DOMAIN e.stage /\ i = e.stage[k]) \/ (k \in DOMAIN e.backup /\ i = e.backup[k]))
At(i, n, fs, js) == i = fs[n] \/ \E c \in PatchCalls : Lives(js[c], n, i)
Homes(fs, is, js) ==
    \A i : \A n \in Names : At(i, n, fs, js) =>
        i \in 0..Len(is) /\ \A m \in Names : i # 0 /\ At(i, m, fs, js) => m = n

CommitType ==
    /\ files \in [Names -> Nat] /\ inodes \in Seq(Writes) /\ calls \in [PatchCalls -> Jobs]
    /\ outside \in [writes : Nat, late : SUBSET Nat]

CommitInv ==
    /\ CommitType
    /\ Homes(files, inodes, calls)
    /\ \A c \in PatchCalls : calls[c].pc \in Locked => lock = c
    /\ \A c \in PatchCalls : JobInv(calls[c], files, inodes, outside.late)
    /\ ~lost

-----------------------------------------------------------------------------
LEMMA JobFields ==
    ASSUME NEW e \in Jobs
    PROVE  /\ e.pc \in JobStates /\ e.patch \in Seq([name : Names, kind : ChangeKinds]) /\ e.base \in Seq(Prints)
           /\ e.next \in Nat \ {0} /\ e.stage \in Seq(Nat) /\ e.backup \in Seq(Nat) /\ e.done \in Seq(Nat)
           /\ e.kept \subseteq Nat /\ e.others \subseteq Names
           /\ Len(e.patch) \in Nat /\ Len(e.base) \in Nat /\ Len(e.stage) \in Nat /\ Len(e.backup) \in Nat
           /\ DOMAIN e.patch = 1..Len(e.patch) /\ DOMAIN e.base = 1..Len(e.base)
           /\ DOMAIN e.stage = 1..Len(e.stage) /\ DOMAIN e.backup = 1..Len(e.backup)
           /\ \A k \in DOMAIN e.patch : e.patch[k].name \in Names /\ e.patch[k].kind \in ChangeKinds
           /\ \A k \in DOMAIN e.base : e.base[k] \in Prints
           /\ \A k \in DOMAIN e.stage : e.stage[k] \in Nat
           /\ \A k \in DOMAIN e.backup : e.backup[k] \in Nat
  <1>1. /\ e.pc \in JobStates /\ e.patch \in Seq([name : Names, kind : ChangeKinds]) /\ e.base \in Seq(Prints)
        /\ e.next \in Nat \ {0} /\ e.stage \in Seq(Nat) /\ e.backup \in Seq(Nat) /\ e.done \in Seq(Nat)
        /\ e.kept \subseteq Nat /\ e.others \subseteq Names
    BY DEF Jobs
  <1>2. \A k \in DOMAIN e.patch : e.patch[k] \in [name : Names, kind : ChangeKinds]
    <2>1. PICK S : S = [name : Names, kind : ChangeKinds]
      OBVIOUS
    <2>2. e.patch \in Seq(S)
      BY <1>1, <2>1
    <2>3. \A k \in DOMAIN e.patch : e.patch[k] \in S
      BY <2>2
    <2>. QED
      BY <2>1, <2>3
  <1>3. ASSUME NEW k \in DOMAIN e.patch PROVE e.patch[k].name \in Names /\ e.patch[k].kind \in ChangeKinds
    <2>1. PICK change \in [name : Names, kind : ChangeKinds] : change = e.patch[k]
      BY <1>2
    <2>. QED
      BY <2>1
  <1>. QED
    BY <1>1, <1>3

(* An inode keeps its home, and a new one gets one.                        *)
Settles(fs, js, fs2, js2, n0, len, len2) ==
    \A i : \A n \in Names : At(i, n, fs2, js2) =>
        At(i, n, fs, js) \/ i = 0 \/ (i = len + 1 /\ n = n0 /\ len2 = len + 1)

LEMMA HomesKept ==
    ASSUME NEW fs, NEW is, NEW js, NEW fs2, NEW is2, NEW js2, NEW n0, Homes(fs, is, js), Len(is) \in Nat,
           Len(is2) \in {Len(is), Len(is) + 1},
           Settles(fs, js, fs2, js2, n0, Len(is), Len(is2))
    PROVE  Homes(fs2, is2, js2)
  <1>. SUFFICES ASSUME NEW i, NEW n \in Names, At(i, n, fs2, js2)
                PROVE  i \in 0..Len(is2) /\ \A m \in Names : i # 0 /\ At(i, m, fs2, js2) => m = n
    BY DEF Homes
  <1>1. \A j : \A m \in Names : At(j, m, fs, js) => j \in 0..Len(is)
    BY DEF Homes
  <1>2. \A m \in Names : At(i, m, fs, js) /\ At(i, n, fs, js) /\ i # 0 => m = n
    BY DEF Homes
  <1>3. i \in 0..Len(is2)
    BY <1>1 DEF Settles
  <1>4. ASSUME NEW m \in Names, i # 0, At(i, m, fs2, js2) PROVE m = n
    <2>1. At(i, m, fs, js) \/ (i = Len(is) + 1 /\ m = n0)
      BY <1>4 DEF Settles
    <2>2. At(i, n, fs, js) \/ (i = Len(is) + 1 /\ n = n0)
      BY <1>4 DEF Settles
    <2>3. At(i, m, fs, js) => i # Len(is) + 1
      BY <1>1
    <2>4. At(i, n, fs, js) => i # Len(is) + 1
      BY <1>1
    <2>. QED
      BY <1>2, <1>4, <2>1, <2>2, <2>3, <2>4
  <1>. QED
    BY <1>3, <1>4

SameIds(is, is2) == \A i \in 1..Len(is) : IdOf(i, is2) = IdOf(i, is)

(* A call whose files stay.                                                *)
LEMMA KeepsJob ==
    ASSUME NEW e \in Jobs, NEW fs \in [Names -> Nat], NEW is, NEW is2, NEW late, Len(is) \in Nat,
           JobInv(e, fs, is, late), \A n \in Names : fs[n] <= Len(is),
           SameIds(is, is2)
    PROVE  JobInv(e, fs, is2, late)
  <1>1. Looked(e, fs, is2, late)
    <2>. SUFFICES ASSUME e.pc = "act"
                  PROVE  fs[e.patch[e.next].name] \in {0} \cup late
                         \/ IdOf(fs[e.patch[e.next].name], is2) = e.base[e.next]
      BY DEF Looked
    <2>1. e.patch[e.next].name \in Names
      BY JobFields DEF JobInv, Progress, ChangesOf
    <2>2. PICK i \in Nat : i = fs[e.patch[e.next].name] /\ i <= Len(is)
      BY <2>1
    <2>3. i \in {0} \cup late \/ IdOf(i, is) = e.base[e.next]
      BY <2>2 DEF JobInv, Looked
    <2>4. i # 0 => IdOf(i, is2) = IdOf(i, is)
      BY <2>2 DEF SameIds
    <2>. QED
      BY <2>2, <2>3, <2>4
  <1>. QED
    BY <1>1 DEF JobInv

(* A call that sees others touch a name. What it is about to do to that    *)
(* name, or has done, came first.                                          *)
Noted(e, n) == IF e.pc = "idle" THEN e ELSE [e EXCEPT !.others = @ \cup {n}]
Past(e, n, v, late) ==
    \/ e.pc \notin Moving \/ v \in {0} \cup late
    \/ \A k \in ChangesOf(e.patch) : k < e.next \/ (k = e.next /\ e.pc # "check") => e.patch[k].name # n

LEMMA TouchedJob ==
    ASSUME NEW e \in Jobs, NEW fs \in [Names -> Nat], NEW is, NEW is2, NEW late, NEW late2, Len(is) \in Nat,
           JobInv(e, fs, is, late), \A n \in Names : fs[n] <= Len(is),
           SameIds(is, is2), late \subseteq late2, NEW n \in Names, NEW v \in Nat, Past(e, n, v, late2)
    PROVE  /\ Noted(e, n) \in Jobs /\ Noted(e, n).pc = e.pc
           /\ JobInv(Noted(e, n), [fs EXCEPT ![n] = v], is2, late2)
           /\ \A m, i : Lives(Noted(e, n), m, i) <=> Lives(e, m, i)
  <1>. DEFINE g == Noted(e, n)
  <1>1. /\ g \in Jobs /\ g.pc = e.pc /\ g.patch = e.patch /\ g.base = e.base /\ g.next = e.next
        /\ g.stage = e.stage /\ g.backup = e.backup /\ g.done = e.done /\ g.kept = e.kept
        /\ g.pc # "idle" => g.others = e.others \cup {n}
    BY DEF Jobs, Noted
  <1>. HIDE DEF g
  <1>2. Shape(g) /\ Progress(g)
    BY <1>1 DEF JobInv, Shape, Progress, InPlace
  <1>3. \A m \in Names : m # n => [fs EXCEPT ![n] = v][m] = fs[m]
    OBVIOUS
  <1>4. \A k \in DOMAIN e.patch : e.patch[k].name \in Names
    BY JobFields
  <1>5. Placed(g, [fs EXCEPT ![n] = v])
    <2>1. CASE e.pc = "idle"
      BY <1>1, <1>2, <2>1 DEF Progress, Placed, ChangesOf
    <2>2. CASE e.pc # "idle"
      <3>. SUFFICES ASSUME NEW k \in ChangesOf(e.patch) \cap DOMAIN e.base, e.patch[k].name \notin e.others \cup {n}
                    PROVE  IF k \in InPlace(e) THEN [fs EXCEPT ![n] = v][e.patch[k].name] = e.stage[k]
                           ELSE \/ [fs EXCEPT ![n] = v][e.patch[k].name] = e.base[k].inode
                                \/ k \in DOMAIN e.backup /\ Spare(e, k) \in e.kept
        BY <1>1, <2>2 DEF Placed, InPlace, Spare
      <3>1. [fs EXCEPT ![n] = v][e.patch[k].name] = fs[e.patch[k].name]
        BY <1>3, <1>4 DEF ChangesOf
      <3>. QED
        BY <3>1 DEF JobInv, Placed
    <2>. QED
      BY <2>1, <2>2
  <1>6. ASSUME e.pc \in Moving, NEW k \in ChangesOf(e.patch), k < e.next \/ (k = e.next /\ e.pc # "check")
        PROVE  [fs EXCEPT ![n] = v][e.patch[k].name] \in {0, fs[e.patch[k].name]} \cup late2
    BY <1>3, <1>4, <1>6 DEF ChangesOf, Past
  <1>7. Looked(g, [fs EXCEPT ![n] = v], is2, late2)
    <2>. SUFFICES ASSUME e.pc = "act"
                  PROVE  [fs EXCEPT ![n] = v][e.patch[e.next].name] \in {0} \cup late2
                         \/ IdOf([fs EXCEPT ![n] = v][e.patch[e.next].name], is2) = e.base[e.next]
      BY <1>1 DEF Looked
    <2>1. e.next \in ChangesOf(e.patch) /\ e.patch[e.next].name \in Names
      BY <1>4 DEF JobInv, Progress, ChangesOf
    <2>2. PICK i \in Nat : i = fs[e.patch[e.next].name] /\ i <= Len(is)
      BY <2>1
    <2>3. i \in {0} \cup late \/ IdOf(i, is) = e.base[e.next]
      BY <2>2 DEF JobInv, Looked
    <2>4. i # 0 => IdOf(i, is2) = IdOf(i, is)
      BY <2>2 DEF SameIds
    <2>5. [fs EXCEPT ![n] = v][e.patch[e.next].name] \in {0, i} \cup late2
      BY <1>6, <2>1, <2>2 DEF Moving
    <2>. QED
      BY <2>3, <2>4, <2>5
  <1>8. Own(g, [fs EXCEPT ![n] = v], late2)
    <2>. SUFFICES ASSUME e.pc \in Moving, NEW k \in InPlace(e)
                  PROVE  [fs EXCEPT ![n] = v][e.patch[k].name] \in {0, e.stage[k]} \cup late2
      BY <1>1 DEF Own, InPlace
    <2>1. k \in ChangesOf(e.patch) /\ k < e.next
      BY DEF JobInv, Progress, Moving
    <2>2. fs[e.patch[k].name] \in {0, e.stage[k]} \cup late
      BY DEF JobInv, Own
    <2>. QED
      BY <1>6, <2>1, <2>2
  <1>9. \A m, i : Lives(g, m, i) <=> Lives(e, m, i)
    BY <1>1 DEF Lives
  <1>. QED
    BY <1>1, <1>2, <1>5, <1>7, <1>8, <1>9 DEF JobInv, g

-----------------------------------------------------------------------------
(* What a move of a call may do to the lock, and to the homes of inodes.   *)
LockKept(c, pc, l, l2) == (\A d \in PatchCalls : d # c /\ l = d => l2 = d) /\ (pc \in Locked => l2 = c)
Stays(r, e, n0, fs, len, len2) ==
    \A i : \A n \in Names : Lives(r, n, i) =>
        Lives(e, n, i) \/ i = fs[n] \/ i = 0 \/ (i = len + 1 /\ n = n0 /\ len2 = len + 1)

LEMMA FilesKnown == CommitInv => /\ Len(inodes) \in Nat
                                 /\ \A n \in Names : files[n] \in Nat /\ files[n] <= Len(inodes)
  <1>. SUFFICES ASSUME CommitInv PROVE Len(inodes) \in Nat /\ \A n \in Names : files[n] \in Nat /\ files[n] <= Len(inodes)
    OBVIOUS
  <1>1. Len(inodes) \in Nat /\ files \in [Names -> Nat] /\ Homes(files, inodes, calls)
    BY DEF CommitInv, CommitType
  <1>2. \A n \in Names : At(files[n], n, files, calls)
    BY DEF At
  <1>. QED
    BY <1>1, <1>2 DEF Homes

LEMMA Written1 ==
    ASSUME CommitInv, inodes' = inodes \/ \E w \in Writes : inodes' = Append(inodes, w)
    PROVE  /\ inodes' \in Seq(Writes) /\ Len(inodes') \in {Len(inodes), Len(inodes) + 1}
           /\ SameIds(inodes, inodes')
  <1>1. inodes \in Seq(Writes)
    BY DEF CommitInv, CommitType
  <1>2. CASE inodes' = inodes
    BY <1>1, <1>2 DEF SameIds
  <1>3. ASSUME NEW w \in Writes, inodes' = Append(inodes, w)
        PROVE  /\ inodes' \in Seq(Writes) /\ Len(inodes') = Len(inodes) + 1
               /\ SameIds(inodes, inodes')
    <2>1. PICK s \in Seq(Writes) : s = inodes
      BY <1>1
    <2>2. /\ Append(s, w) \in Seq(Writes) /\ Len(Append(s, w)) = Len(s) + 1
          /\ \A i \in 1..Len(s) : Append(s, w)[i] = s[i]
      BY AppendProperties
    <2>. QED
      BY <1>3, <2>1, <2>2 DEF IdOf, SameIds
  <1>. QED
    BY <1>2, <1>3

(* A call moves on, and the files stay.                                    *)
LEMMA CallMoves ==
    ASSUME CommitInv, NEW c \in PatchCalls, NEW r \in Jobs, NEW n0, Becomes(c, r),
           UNCHANGED <<files, outside, lost>>, inodes' = inodes \/ \E w \in Writes : inodes' = Append(inodes, w),
           JobInv(r, files, inodes, outside.late), Stays(r, calls[c], n0, files, Len(inodes), Len(inodes')),
           LockKept(c, r.pc, lock, lock')
    PROVE  CommitInv'
  <1>1. /\ calls' = [calls EXCEPT ![c] = r] /\ calls \in [PatchCalls -> Jobs] /\ files \in [Names -> Nat]
        /\ outside \in [writes : Nat, late : SUBSET Nat]
        /\ \A d \in PatchCalls : JobInv(calls[d], files, inodes, outside.late)
        /\ \A d \in PatchCalls : calls[d].pc \in Locked => lock = d
        /\ Homes(files, inodes, calls) /\ ~lost
    BY DEF CommitInv, CommitType, Becomes
  <1>2. Len(inodes) \in Nat /\ \A n \in Names : files[n] <= Len(inodes)
    BY FilesKnown
  <1>3. /\ inodes' \in Seq(Writes) /\ Len(inodes') \in {Len(inodes), Len(inodes) + 1}
        /\ SameIds(inodes, inodes')
    BY Written1
  <1>4. calls' \in [PatchCalls -> Jobs] /\ \A d \in PatchCalls : calls'[d] = IF d = c THEN r ELSE calls[d]
    BY <1>1
  <1>5. \A d \in PatchCalls : calls'[d] \in Jobs /\ JobInv(calls'[d], files, inodes, outside.late)
    BY <1>1, <1>4
  <1>6. ASSUME NEW d \in PatchCalls PROVE JobInv(calls'[d], files', inodes', outside'.late)
    <2>1. PICK e \in Jobs : e = calls'[d] /\ JobInv(e, files, inodes, outside.late)
      BY <1>5
    <2>2. JobInv(e, files, inodes', outside.late)
      BY <1>1, <1>2, <1>3, <2>1, KeepsJob
    <2>. QED
      BY <2>1, <2>2
  <1>7. \A d \in PatchCalls : calls'[d].pc \in Locked => lock' = d
    BY <1>1, <1>4 DEF LockKept
  <1>8. ASSUME NEW i, NEW n \in Names, At(i, n, files', calls')
        PROVE  At(i, n, files, calls) \/ i = 0 \/ (i = Len(inodes) + 1 /\ n = n0 /\ Len(inodes') = Len(inodes) + 1)
    <2>1. CASE i = files'[n]
      BY <2>1 DEF At
    <2>2. ASSUME NEW d \in PatchCalls, Lives(calls'[d], n, i)
          PROVE  At(i, n, files, calls) \/ i = 0 \/ (i = Len(inodes) + 1 /\ n = n0 /\ Len(inodes') = Len(inodes) + 1)
      <3>1. CASE d = c
        <4>1. Lives(r, n, i)
          BY <1>4, <2>2, <3>1
        <4>. QED
          BY <4>1 DEF Stays, At
      <3>2. CASE d # c
        BY <1>4, <2>2, <3>2 DEF At
      <3>. QED
        BY <3>1, <3>2
    <2>. QED
      BY <1>8, <2>1, <2>2 DEF At
  <1>9. Homes(files', inodes', calls')
    <2>1. Settles(files, calls, files', calls', n0, Len(inodes), Len(inodes'))
      BY <1>8 DEF Settles
    <2>. QED
      BY <1>1, <1>2, <1>3, <2>1, HomesKept
  <1>. QED
    BY <1>1, <1>3, <1>4, <1>6, <1>7, <1>9 DEF CommitInv, CommitType

(* The holder of the lock puts a file where it belongs.                    *)
LEMMA FileMoves ==
    ASSUME CommitInv, NEW c \in PatchCalls, NEW n \in Names, NEW v \in Nat, NEW r \in Jobs, lock = c,
           UNCHANGED <<inodes, lock, outside>>, ~lost',
           files' = [files EXCEPT ![n] = v], calls' = [TouchedByOthers(n, c) EXCEPT ![c] = r],
           JobInv(r, [files EXCEPT ![n] = v], inodes, outside.late),
           \A m, i : Lives(r, m, i) => Lives(calls[c], m, i), v = 0 \/ At(v, n, files, calls)
    PROVE  CommitInv'
  <1>1. /\ calls \in [PatchCalls -> Jobs] /\ files \in [Names -> Nat] /\ inodes \in Seq(Writes)
        /\ outside \in [writes : Nat, late : SUBSET Nat]
        /\ \A d \in PatchCalls : JobInv(calls[d], files, inodes, outside.late)
        /\ \A d \in PatchCalls : calls[d].pc \in Locked => lock = d
        /\ Homes(files, inodes, calls)
    BY DEF CommitInv, CommitType
  <1>2. Len(inodes) \in Nat /\ \A m \in Names : files[m] <= Len(inodes)
    BY FilesKnown
  <1>3. ASSUME NEW d \in PatchCalls, d # c
        PROVE  /\ calls'[d] \in Jobs /\ calls'[d].pc = calls[d].pc
               /\ JobInv(calls'[d], [files EXCEPT ![n] = v], inodes, outside.late)
               /\ \A m, i : Lives(calls'[d], m, i) <=> Lives(calls[d], m, i)
    <2>1. PICK e \in Jobs : e = calls[d] /\ JobInv(e, files, inodes, outside.late) /\ e.pc \notin Locked
      BY <1>1, <1>3
    <2>3. calls'[d] = Noted(e, n)
      BY <1>3, <2>1 DEF TouchedByOthers, Job, Noted
    <2>4. Past(e, n, v, outside.late) /\ SameIds(inodes, inodes)
      BY <2>1 DEF Locked, Past, SameIds
    <2>5. /\ Noted(e, n) \in Jobs /\ Noted(e, n).pc = e.pc
          /\ JobInv(Noted(e, n), [files EXCEPT ![n] = v], inodes, outside.late)
          /\ \A m, i : Lives(Noted(e, n), m, i) <=> Lives(e, m, i)
      BY <1>1, <1>2, <2>1, <2>4, TouchedJob
    <2>. QED
      BY <2>1, <2>3, <2>5
  <1>4. calls'[c] = r /\ DOMAIN calls' = PatchCalls /\ calls' = [d \in PatchCalls |-> calls'[d]]
    BY DEF TouchedByOthers
  <1>5. calls' \in [PatchCalls -> Jobs]
    BY <1>3, <1>4
  <1>6. \A d \in PatchCalls : JobInv(calls'[d], files', inodes', outside'.late)
    BY <1>3, <1>4
  <1>7. \A d \in PatchCalls : calls'[d].pc \in Locked => lock' = d
    BY <1>1, <1>3, <1>4
  <1>8. ASSUME NEW i, NEW m \in Names, At(i, m, files', calls') PROVE At(i, m, files, calls) \/ i = 0
    <2>1. CASE i = files'[m]
      <3>1. CASE m = n
        BY <1>1, <2>1, <3>1
      <3>2. CASE m # n
        BY <1>1, <2>1, <3>2 DEF At
      <3>. QED
        BY <3>1, <3>2
    <2>2. ASSUME NEW d \in PatchCalls, Lives(calls'[d], m, i) PROVE At(i, m, files, calls)
      <3>1. Lives(calls[d], m, i)
        BY <1>3, <1>4, <2>2
      <3>. QED
        BY <3>1 DEF At
    <2>. QED
      BY <1>8, <2>1, <2>2 DEF At
  <1>9. Homes(files', inodes', calls')
    <2>1. Len(inodes) \in Nat /\ Len(inodes') \in {Len(inodes), Len(inodes) + 1}
      BY <1>2
    <2>2. Settles(files, calls, files', calls', n, Len(inodes), Len(inodes'))
      BY <1>8 DEF Settles
    <2>. QED
      BY <1>1, <2>1, <2>2, HomesKept
  <1>10. files' \in [Names -> Nat]
    BY <1>1
  <1>. QED
    BY <1>1, <1>5, <1>6, <1>7, <1>9, <1>10 DEF CommitInv, CommitType

-----------------------------------------------------------------------------
LEMMA CallAt ==
    ASSUME CommitInv, NEW c \in PatchCalls
    PROVE  \E e \in Jobs : /\ e = calls[c] /\ JobInv(e, files, inodes, outside.late) /\ Shape(e) /\ Progress(e)
                           /\ e.pc \in Locked => lock = c
  BY DEF CommitInv, CommitType, JobInv

(* A sequence with one more element.                                       *)
Longer(s, x, t) ==
    /\ Len(t) = Len(s) + 1 /\ t[Len(s) + 1] = x /\ DOMAIN t = 1..(Len(s) + 1)
    /\ \A j \in DOMAIN t : j = Len(s) + 1 \/ (j \in DOMAIN s /\ t[j] = s[j])

LEMMA AppendLonger ==
    ASSUME NEW S, NEW s \in Seq(S), NEW x \in S
    PROVE  \E t \in Seq(S) : t = Append(s, x) /\ Longer(s, x, t)
  <1>1. /\ Append(s, x) \in Seq(S) /\ Len(Append(s, x)) = Len(s) + 1 /\ Append(s, x)[Len(s) + 1] = x
        /\ \A j \in 1..Len(s) : Append(s, x)[j] = s[j]
    BY AppendProperties
  <1>2. PICK t \in Seq(S) : /\ t = Append(s, x) /\ Len(t) = Len(s) + 1 /\ t[Len(s) + 1] = x
                             /\ \A j \in 1..Len(s) : t[j] = s[j]
    BY <1>1
  <1>3. DOMAIN t = 1..Len(t) /\ DOMAIN s = 1..Len(s) /\ Len(s) \in Nat
    OBVIOUS
  <1>4. \A j \in 1..(Len(s) + 1) : j = Len(s) + 1 \/ j \in 1..Len(s)
    BY <1>3
  <1>5. Longer(s, x, t)
    <2>1. DOMAIN t = 1..(Len(s) + 1)
      BY <1>2, <1>3
    <2>2. ASSUME NEW j \in DOMAIN t, j # Len(s) + 1 PROVE j \in DOMAIN s /\ t[j] = s[j]
      <3>1. j \in 1..Len(s)
        BY <1>4, <2>1, <2>2
      <3>. QED
        BY <1>2, <1>3, <3>1
    <2>. QED
      BY <1>2, <2>1, <2>2 DEF Longer
  <1>. QED
    BY <1>2, <1>5

LEMMA SameHomes ==
    ASSUME NEW e, NEW r, r.patch = e.patch, r.stage = e.stage, r.backup = e.backup, NEW fs, NEW len, NEW len2
    PROVE  Stays(r, e, 0, fs, len, len2)
  BY DEF Stays, Lives

(* A call that gives up before anything is in place leaves nothing behind. *)
LEMMA RefuseInv ==
    ASSUME CommitInv, NEW c \in PatchCalls, calls[c].pc \in {"prepare", "revalidate", "stage", "recheck"}, Refuse(c),
           UNCHANGED <<files, inodes, outside, lost>>, LockKept(c, "refused", lock, lock')
    PROVE  CommitInv'
  <1>1. PICK e \in Jobs : /\ e = calls[c] /\ JobInv(e, files, inodes, outside.late) /\ Shape(e) /\ Progress(e)
    BY CallAt
  <1>2. PICK r : r = [e EXCEPT !.pc = "refused"]
    OBVIOUS
  <1>3. /\ r \in Jobs /\ r.pc = "refused" /\ r.patch = e.patch /\ r.base = e.base /\ r.next = e.next
        /\ r.stage = e.stage /\ r.backup = e.backup /\ r.done = e.done /\ r.kept = e.kept /\ r.others = e.others
    BY <1>2 DEF Jobs, JobStates
  <1>4. Shape(r) /\ Progress(r)
    BY <1>1, <1>3 DEF Shape, Progress, Moving
  <1>5. Placed(r, files)
    BY <1>1, <1>3 DEF JobInv, Placed, InPlace, Spare
  <1>6. JobInv(r, files, inodes, outside.late)
    BY <1>3, <1>4, <1>5 DEF JobInv, Looked, Own, Moving
  <1>7. Stays(r, calls[c], 0, files, Len(inodes), Len(inodes'))
    BY <1>1, <1>3, SameHomes
  <1>8. Becomes(c, r)
    BY <1>1, <1>2 DEF Refuse, Job
  <1>. QED
    BY <1>3, <1>6, <1>7, <1>8, CallMoves

LEMMA AskInv == ASSUME CommitInv, NEW c \in PatchCalls, NEW patch \in Patches, AskPatch(c, patch) PROVE CommitInv'
  <1>1. PICK e \in Jobs : e = calls[c] /\ e.pc = "idle"
    BY CallAt DEF AskPatch, Job
  <1>2. PICK r : r = [Idle EXCEPT !.pc = "prepare", !.patch = patch]
    OBVIOUS
  <1>3. Idle \in Jobs
    BY DEF Idle, Jobs, JobStates
  <1>4. /\ patch \in Seq([name : Names, kind : ChangeKinds])
        /\ \A j, k \in ChangesOf(patch) : patch[j].name = patch[k].name => j = k
    BY PatchShapes DEF PatchShapes, ChangesOf
  <1>5. r \in Jobs
    <2>1. PICK q \in Jobs : q = Idle
      BY <1>3
    <2>2. [q EXCEPT !.pc = "prepare", !.patch = patch] \in Jobs
      BY <1>4 DEF Jobs, JobStates
    <2>. QED
      BY <1>2, <2>1, <2>2
  <1>6. /\ r.pc = "prepare" /\ r.patch = patch /\ r.base = <<>> /\ r.stage = <<>> /\ r.backup = <<>>
        /\ r.done = <<>> /\ r.kept = {} /\ r.others = {}
    BY <1>2 DEF Idle
  <1>7. Len(r.patch) \in Nat
    BY <1>5, JobFields
  <1>8. JobInv(r, files, inodes, outside.late)
    BY <1>4, <1>6, <1>7 DEF JobInv, Shape, Progress, Placed, Looked, Own, Moving, Rising
  <1>9. Stays(r, calls[c], 0, files, Len(inodes), Len(inodes'))
    BY <1>6 DEF Stays, Lives
  <1>10. Becomes(c, r) /\ UNCHANGED <<files, inodes, outside, lost>> /\ LockKept(c, r.pc, lock, lock')
    BY <1>2, <1>6 DEF AskPatch, Quiet, LockKept, Locked, Moving
  <1>. QED
    BY <1>5, <1>8, <1>9, <1>10, CallMoves

LEMMA Prints1 == ASSUME CommitInv, NEW n \in Names
                 PROVE  Current(n) \in Prints /\ Current(n).inode = files[n] /\ (files[n] = 0 => Current(n) = Missing)
  <1>1. PICK i \in Nat : i = files[n] /\ i <= Len(inodes)
    BY FilesKnown
  <1>2. CASE i = 0
    BY <1>1, <1>2 DEF Current, Missing, Prints
  <1>3. CASE i # 0
    <2>1. inodes \in Seq(Writes) /\ i \in 1..Len(inodes)
      BY <1>1, <1>3, FilesKnown DEF CommitInv, CommitType
    <2>2. PICK w \in Writes : w = inodes[i]
      BY <2>1
    <2>3. Identity(i) \in Prints /\ Identity(i).inode = i
      BY <2>2 DEF Identity, Prints, Writes
    <2>. QED
      BY <1>1, <1>3, <2>3 DEF Current
  <1>. QED
    BY <1>2, <1>3

(* The print of a path is that of the file of the moment.                  *)
LEMMA PrepareInv == ASSUME CommitInv, NEW c \in PatchCalls, PrepareChange(c) PROVE CommitInv'
  <1>1. PICK e \in Jobs : /\ e = calls[c] /\ JobInv(e, files, inodes, outside.late) /\ Shape(e) /\ Progress(e)
    BY CallAt
  <1>2. PICK k : k = Len(e.base) + 1
    OBVIOUS
  <1>3. /\ e.pc = "prepare" /\ k \in DOMAIN e.patch
        /\ \/ Becomes(c, [e EXCEPT !.base = Append(@, Current(e.patch[k].name))]) \/ Refuse(c)
        /\ UNCHANGED <<files, lock, inodes, outside, lost>>
    BY <1>1, <1>2, JobFields DEF PrepareChange, Job, Target, Quiet
  <1>4. CASE Refuse(c)
    BY <1>1, <1>3, <1>4, RefuseInv DEF LockKept, Locked, Moving
  <1>5. CASE Becomes(c, [e EXCEPT !.base = Append(@, Current(e.patch[k].name))])
    <2>1. PICK p \in Prints : /\ p = Current(e.patch[k].name) /\ p.inode = files[e.patch[k].name]
                              /\ p.inode = 0 => p = Missing
      BY <1>3, Prints1, JobFields
    <2>2. PICK base \in Seq(Prints) :
            /\ base = Append(e.base, p) /\ Len(base) = k /\ base[k] = p /\ DOMAIN base = 1..k
            /\ \A j \in DOMAIN base : j = k \/ (j \in DOMAIN e.base /\ base[j] = e.base[j])
      <3>1. PICK s \in Seq(Prints) : s = e.base
        BY JobFields
      <3>2. PICK t \in Seq(Prints) : t = Append(s, p) /\ Longer(s, p, t)
        BY AppendLonger
      <3>3. /\ Len(t) = k /\ t[k] = p /\ DOMAIN t = 1..k
            /\ \A j \in DOMAIN t : j = k \/ (j \in DOMAIN e.base /\ t[j] = e.base[j])
        BY <1>2, <3>1, <3>2 DEF Longer
      <3>. QED
        BY <3>1, <3>2, <3>3
    <2>3. PICK r : r = [e EXCEPT !.base = base]
      OBVIOUS
    <2>4. /\ r \in Jobs /\ r.pc = e.pc /\ r.patch = e.patch /\ r.base = base /\ r.next = e.next
          /\ r.stage = e.stage /\ r.backup = e.backup /\ r.done = e.done /\ r.kept = e.kept /\ r.others = e.others
      BY <2>2, <2>3 DEF Jobs
    <2>6. Shape(r)
      <3>1. Len(base) <= Len(e.patch)
        BY <1>3, <2>2, JobFields
      <3>2. \A j \in DOMAIN base : base[j].inode = 0 => base[j] = Missing
        BY <1>1, <2>1, <2>2 DEF Shape
      <3>3. e.backup = <<>>
        BY <1>1, <1>3 DEF Progress
      <3>. QED
        BY <1>1, <1>3, <2>4, <3>1, <3>2, <3>3 DEF Shape, Moving
    <2>7. Progress(r)
      BY <1>1, <2>4 DEF Progress, InPlace
    <2>8. Placed(r, files)
      <3>1. e.done = <<>> /\ e.kept = {} /\ InPlace(r) = {} /\ InPlace(e) = {}
        BY <1>1, <1>3, <2>4 DEF Progress, Moving, InPlace, ToSet
      <3>. QED
        BY <1>1, <2>1, <2>2, <2>4, <3>1 DEF JobInv, Placed
    <2>9. JobInv(r, files, inodes, outside.late)
      BY <1>3, <2>4, <2>6, <2>7, <2>8 DEF JobInv, Looked, Own, Moving
    <2>10. Stays(r, calls[c], 0, files, Len(inodes), Len(inodes'))
      BY <1>1, <2>4, SameHomes
    <2>11. Becomes(c, r) /\ LockKept(c, r.pc, lock, lock')
      BY <1>3, <1>5, <2>1, <2>2, <2>3, <2>4 DEF LockKept, Locked, Moving
    <2>. QED
      BY <1>3, <2>4, <2>9, <2>10, <2>11, CallMoves
  <1>. QED
    BY <1>3, <1>4, <1>5

LEMMA TakeInv == ASSUME CommitInv, NEW c \in PatchCalls, TakeLock(c) PROVE CommitInv'
  <1>1. PICK e \in Jobs : /\ e = calls[c] /\ JobInv(e, files, inodes, outside.late) /\ Shape(e) /\ Progress(e)
    BY CallAt
  <1>2. /\ e.pc = "prepare" /\ Len(e.base) = Len(e.patch) /\ lock = NoCall /\ lock' = c
        /\ Becomes(c, [e EXCEPT !.pc = "revalidate"]) /\ UNCHANGED <<files, inodes, outside, lost>>
    BY <1>1 DEF TakeLock, Job, Quiet
  <1>3. PICK r : r = [e EXCEPT !.pc = "revalidate"]
    OBVIOUS
  <1>4. /\ r \in Jobs /\ r.pc = "revalidate" /\ r.patch = e.patch /\ r.base = e.base /\ r.next = e.next
        /\ r.stage = e.stage /\ r.backup = e.backup /\ r.done = e.done /\ r.kept = e.kept /\ r.others = e.others
    BY <1>3 DEF Jobs, JobStates, Locked
  <1>5. Shape(r) /\ Progress(r)
    BY <1>1, <1>2, <1>4 DEF Shape, Progress, Moving
  <1>6. Placed(r, files)
    BY <1>1, <1>4 DEF JobInv, Placed, InPlace, Spare
  <1>7. JobInv(r, files, inodes, outside.late)
    BY <1>4, <1>5, <1>6 DEF JobInv, Looked, Own, Moving
  <1>8. Stays(r, calls[c], 0, files, Len(inodes), Len(inodes'))
    BY <1>1, <1>4, SameHomes
  <1>9. LockKept(c, r.pc, lock, lock') /\ Becomes(c, r)
    BY <1>2, <1>3, PatchShapes DEF LockKept, PatchShapes
  <1>. QED
    BY <1>2, <1>4, <1>7, <1>8, <1>9, CallMoves

(* The passes over the paths: a changed one ends the call.                 *)
LEMMA PassInv ==
    ASSUME CommitInv, NEW c \in PatchCalls, NEW changed,
           \/ PassOver(c, "revalidate", "stage", changed)
           \/ PassOver(c, "recheck", "check", changed)
    PROVE  CommitInv'
  <1>1. PICK e \in Jobs : /\ e = calls[c] /\ JobInv(e, files, inodes, outside.late) /\ Shape(e) /\ Progress(e)
                          /\ e.pc \in Locked => lock = c
    BY CallAt
  <1>2. PICK then : /\ (e.pc = "revalidate" /\ then = "stage") \/ (e.pc = "recheck" /\ then = "check")
                    /\ PassOver(c, e.pc, then, changed)
    <2>1. CASE PassOver(c, "revalidate", "stage", changed)
      <3>1. e.pc = "revalidate"
        BY <1>1, <2>1 DEF PassOver, Job
      <3>. QED
        BY <2>1, <3>1
    <2>2. CASE PassOver(c, "recheck", "check", changed)
      <3>1. e.pc = "recheck"
        BY <1>1, <2>2 DEF PassOver, Job
      <3>. QED
        BY <2>2, <3>1
    <2>. QED
      BY <2>1, <2>2
  <1>3. UNCHANGED <<files, inodes, outside, lost>>
    BY <1>2 DEF PassOver, Quiet
  <1>4. CASE Refuse(c) /\ Unlock(c)
    <2>1. LockKept(c, "refused", lock, lock')
      BY <1>1, <1>2, <1>4 DEF LockKept, Unlock, Locked, Moving
    <2>. QED
      BY <1>1, <1>2, <1>3, <1>4, <2>1, RefuseInv
  <1>5. ASSUME NEW pc \in {e.pc, then}, NEW next \in Nat \ {0}, pc = "check" => next = 1,
               Becomes(c, [e EXCEPT !.pc = pc, !.next = next]), UNCHANGED lock
        PROVE  CommitInv'
    <2>1. PICK r : r = [e EXCEPT !.pc = pc, !.next = next]
      OBVIOUS
    <2>2. pc \in {"revalidate", "stage", "recheck", "check"}
      BY <1>2, <1>5
    <2>3. /\ r \in Jobs /\ r.pc = pc /\ r.patch = e.patch /\ r.base = e.base /\ r.next = next
          /\ r.stage = e.stage /\ r.backup = e.backup /\ r.done = e.done /\ r.kept = e.kept /\ r.others = e.others
      BY <1>5, <2>1, <2>2 DEF Jobs, JobStates, Locked, Moving
    <2>4. Shape(r)
      BY <1>1, <1>2, <1>5, <2>3 DEF Shape, Moving
    <2>5. e.done = <<>> /\ InPlace(e) = {} /\ InPlace(r) = {}
      BY <1>1, <1>2, <2>3 DEF Progress, InPlace, ToSet, Moving
    <2>6. pc = "check" => {k \in ChangesOf(e.patch) : k < next} = {}
      BY <1>5, JobFields DEF ChangesOf
    <2>7. Progress(r)
      BY <1>1, <1>2, <1>5, <2>2, <2>3, <2>5, <2>6 DEF Progress, Moving
    <2>8. Placed(r, files)
      BY <1>1, <2>3 DEF JobInv, Placed, InPlace, Spare
    <2>9. JobInv(r, files, inodes, outside.late)
      BY <2>2, <2>3, <2>4, <2>5, <2>7, <2>8 DEF JobInv, Looked, Own
    <2>10. Stays(r, calls[c], 0, files, Len(inodes), Len(inodes'))
      BY <1>1, <2>3, SameHomes
    <2>11. LockKept(c, r.pc, lock, lock') /\ Becomes(c, r)
      BY <1>1, <1>2, <1>5, <2>1 DEF LockKept, Locked, Moving
    <2>. QED
      BY <1>3, <2>3, <2>9, <2>10, <2>11, CallMoves
  <1>6. CASE Becomes(c, [e EXCEPT !.pc = then, !.next = 1]) /\ UNCHANGED lock
    <2>1. PICK next \in Nat \ {0} : next = 1
      OBVIOUS
    <2>2. PICK pc \in {e.pc, then} : pc = then
      OBVIOUS
    <2>. QED
      BY <1>5, <1>6, <2>1, <2>2
  <1>7. CASE Becomes(c, [e EXCEPT !.next = @ + 1]) /\ UNCHANGED lock
    <2>1. PICK next \in Nat \ {0} : next = e.next + 1
      BY JobFields
    <2>2. [e EXCEPT !.next = @ + 1] = [e EXCEPT !.pc = e.pc, !.next = next]
      BY <2>1 DEF Jobs
    <2>3. e.pc # "check"
      BY <1>2
    <2>. QED
      BY <1>5, <1>7, <2>1, <2>2, <2>3
  <1>8. \/ Becomes(c, [e EXCEPT !.pc = then, !.next = 1]) /\ UNCHANGED lock
        \/ Refuse(c) /\ Unlock(c)
        \/ Becomes(c, [e EXCEPT !.next = @ + 1]) /\ UNCHANGED lock
    BY <1>1, <1>2 DEF PassOver, Job
  <1>. QED
    BY <1>4, <1>6, <1>7, <1>8

(* A new content is written to a file of its own.                          *)
LEMMA StageInv == ASSUME CommitInv, NEW c \in PatchCalls, StageChange(c) PROVE CommitInv'
  <1>1. PICK e \in Jobs : /\ e = calls[c] /\ JobInv(e, files, inodes, outside.late) /\ Shape(e) /\ Progress(e)
                          /\ e.pc \in Locked => lock = c
    BY CallAt
  <1>2. PICK k : k = Len(e.stage) + 1
    OBVIOUS
  <1>3. /\ e.pc = "stage" /\ k \in DOMAIN e.patch /\ Len(e.backup) = k - 1
        /\ UNCHANGED <<files, outside, lost>>
    BY <1>1, <1>2, JobFields DEF StageChange, Job
  <1>4. lock = c
    BY <1>1, <1>3 DEF Locked
  <1>5. CASE Refuse(c) /\ Unlock(c) /\ UNCHANGED inodes
    BY <1>1, <1>3, <1>5, RefuseInv DEF LockKept, Unlock, Locked, Moving
  <1>6. ASSUME NEW v \in Nat, Becomes(c, [e EXCEPT !.stage = Append(@, v)]), UNCHANGED lock,
               \/ v = 0 /\ inodes' = inodes
               \/ v = Len(inodes) + 1 /\ \E w \in Writes : inodes' = Append(inodes, w)
        PROVE  CommitInv'
    <2>1. PICK s \in Seq(Nat) : s = e.stage
      BY JobFields
    <2>2. PICK t \in Seq(Nat) : t = Append(s, v) /\ Longer(s, v, t)
      BY AppendLonger
    <2>3. PICK r : r = [e EXCEPT !.stage = t]
      OBVIOUS
    <2>4. /\ r \in Jobs /\ r.pc = e.pc /\ r.patch = e.patch /\ r.base = e.base /\ r.next = e.next
          /\ r.stage = t /\ r.backup = e.backup /\ r.done = e.done /\ r.kept = e.kept /\ r.others = e.others
      BY <2>2, <2>3 DEF Jobs
    <2>5. Len(t) = k /\ Len(t) <= Len(e.patch) /\ Len(e.backup) <= Len(t)
      BY <1>2, <1>3, <2>1, <2>2, JobFields DEF Longer
    <2>6. Shape(r) /\ Progress(r)
      BY <1>1, <1>3, <2>4, <2>5 DEF Shape, Progress, InPlace, Moving
    <2>7. e.done = <<>> /\ e.kept = {} /\ InPlace(e) = {} /\ InPlace(r) = {}
      BY <1>1, <1>3, <2>4 DEF Progress, InPlace, ToSet, Moving
    <2>8. Placed(r, files)
      BY <1>1, <2>4, <2>7 DEF JobInv, Placed
    <2>9. JobInv(r, files, inodes, outside.late)
      BY <1>3, <2>4, <2>6, <2>8 DEF JobInv, Looked, Own, Moving
    <2>10. inodes' = inodes \/ \E w \in Writes : inodes' = Append(inodes, w)
      BY <1>6
    <2>11. v = 0 \/ (v = Len(inodes) + 1 /\ Len(inodes') = Len(inodes) + 1)
      <3>1. inodes \in Seq(Writes)
        BY DEF CommitInv, CommitType
      <3>2. ASSUME NEW w \in Writes, inodes' = Append(inodes, w) PROVE Len(inodes') = Len(inodes) + 1
        BY <3>1, <3>2, AppendProperties
      <3>. QED
        BY <1>6, <3>2
    <2>12. Stays(r, calls[c], e.patch[k].name, files, Len(inodes), Len(inodes'))
      <3>. SUFFICES ASSUME NEW i, NEW n \in Names, Lives(r, n, i)
                    PROVE  Lives(e, n, i) \/ i = 0
                           \/ (i = Len(inodes) + 1 /\ n = e.patch[k].name /\ Len(inodes') = Len(inodes) + 1)
        BY <1>1 DEF Stays
      <3>0. PICK j \in DOMAIN e.patch : /\ e.patch[j].name = n
                                        /\ (j \in DOMAIN t /\ i = t[j]) \/ (j \in DOMAIN e.backup /\ i = e.backup[j])
        BY <2>4 DEF Lives
      <3>1. CASE j \in DOMAIN e.backup /\ i = e.backup[j]
        BY <3>0, <3>1 DEF Lives
      <3>2. CASE j \in DOMAIN e.stage /\ i = e.stage[j]
        BY <3>0, <3>2 DEF Lives
      <3>3. CASE j = k /\ i = v
        BY <2>11, <3>0, <3>3
      <3>4. j \in DOMAIN t /\ i = t[j] => (j = k /\ i = v) \/ (j \in DOMAIN e.stage /\ i = e.stage[j])
        BY <1>2, <2>1, <2>2 DEF Longer
      <3>. QED
        BY <3>0, <3>1, <3>2, <3>3, <3>4
    <2>13. LockKept(c, r.pc, lock, lock') /\ Becomes(c, r)
      BY <1>4, <1>6, <2>1, <2>2, <2>3 DEF LockKept
    <2>. QED
      BY <1>3, <2>4, <2>9, <2>10, <2>12, <2>13, CallMoves
  <1>7. Written(c, 0) \in Writes /\ Len(inodes) + 1 \in Nat
    BY FilesKnown DEF Written, Writes
  <1>8. CASE NoChange(c, k)
    <2>1. Becomes(c, [e EXCEPT !.stage = Append(@, 0)]) /\ UNCHANGED <<inodes, lock>>
      BY <1>1, <1>2, <1>8 DEF StageChange, Job
    <2>. QED
      BY <1>6, <2>1
  <1>9. CASE ~NoChange(c, k) /\ Same(c, k)
    <2>1. PICK writes : writes = (Asks(c, k) \in {"write", "create"})
      OBVIOUS
    <2>2. /\ inodes' = IF writes THEN Append(inodes, Written(c, 0)) ELSE inodes
          /\ Becomes(c, [e EXCEPT !.stage = Append(@, IF writes THEN Len(inodes) + 1 ELSE 0)])
          /\ UNCHANGED lock
      BY <1>1, <1>2, <1>9, <2>1 DEF StageChange, Job
    <2>3. CASE writes
      BY <1>6, <1>7, <2>2, <2>3
    <2>4. CASE ~writes
      BY <1>6, <2>2, <2>4
    <2>. QED
      BY <2>3, <2>4
  <1>10. CASE ~NoChange(c, k) /\ ~Same(c, k)
    <2>1. Refuse(c) /\ Unlock(c) /\ UNCHANGED inodes
      BY <1>1, <1>2, <1>10 DEF StageChange, Job
    <2>. QED
      BY <1>5, <2>1
  <1>. QED
    BY <1>8, <1>9, <1>10

(* The backup of a file is the very inode that was fingerprinted.          *)
LEMMA LinkInv == ASSUME CommitInv, NEW c \in PatchCalls, LinkBackup(c) PROVE CommitInv'
  <1>1. PICK e \in Jobs : /\ e = calls[c] /\ JobInv(e, files, inodes, outside.late) /\ Shape(e) /\ Progress(e)
                          /\ e.pc \in Locked => lock = c
    BY CallAt
  <1>2. PICK k : k = Len(e.backup) + 1
    OBVIOUS
  <1>3. /\ e.pc = "stage" /\ k \in DOMAIN e.stage /\ k \in DOMAIN e.patch /\ k \in DOMAIN e.base
        /\ Len(e.stage) \in Nat /\ Len(e.patch) \in Nat /\ Len(e.stage) <= Len(e.patch) /\ Len(e.base) = Len(e.patch)
        /\ UNCHANGED <<files, outside, lost, inodes>>
    <2>1. e.pc = "stage" /\ k <= Len(e.stage) /\ UNCHANGED <<files, outside, lost, inodes>>
      BY <1>1, <1>2 DEF LinkBackup, Quiet, Job
    <2>2. Len(e.stage) <= Len(e.patch) /\ Len(e.base) = Len(e.patch)
      BY <1>1, <2>1 DEF Shape
    <2>3. /\ Len(e.stage) \in Nat /\ Len(e.patch) \in Nat /\ Len(e.base) \in Nat /\ Len(e.backup) \in Nat
          /\ DOMAIN e.stage = 1..Len(e.stage) /\ DOMAIN e.patch = 1..Len(e.patch) /\ DOMAIN e.base = 1..Len(e.base)
      BY JobFields
    <2>4. k \in Nat \ {0}
      BY <1>2, <2>3
    <2>. QED
      BY <2>1, <2>2, <2>3, <2>4
  <1>4. lock = c
    BY <1>1, <1>3 DEF Locked
  <1>5. CASE Refuse(c) /\ Unlock(c)
    BY <1>1, <1>3, <1>5, RefuseInv DEF LockKept, Unlock, Locked, Moving
  <1>6. PICK v : v = IF NoChange(c, k) \/ e.base[k] = Missing THEN 0 ELSE files[Target(c, k)]
    OBVIOUS
  <1>7. e.patch[k].name \in Names /\ (NoChange(c, k) <=> k \notin ChangesOf(e.patch)) /\ Target(c, k) = e.patch[k].name
    BY <1>1, <1>3, JobFields DEF NoChange, Changes, ChangesOf, Target, Job
  <1>8. v \in Nat
    BY <1>6, <1>7, FilesKnown
  <1>9. CASE ~(~NoChange(c, k) /\ e.base[k] # Missing /\ (v = 0 \/ Identity(v) # e.base[k]))
    <2>1. v = IF k \in ChangesOf(e.patch) THEN e.base[k].inode ELSE 0
      BY <1>6, <1>7, <1>9 DEF Identity, Missing
    <2>2. v = 0 \/ v = files[e.patch[k].name]
      BY <1>6, <1>7
    <2>3. PICK pc : pc = IF k = Len(e.patch) THEN "recheck" ELSE e.pc
      OBVIOUS
    <2>4. PICK s \in Seq(Nat) : s = e.backup
      BY JobFields
    <2>5. PICK t \in Seq(Nat) : t = Append(s, v) /\ Longer(s, v, t)
      BY <1>8, AppendLonger
    <2>6. PICK r : r = [e EXCEPT !.backup = t, !.pc = pc]
      OBVIOUS
    <2>7. Becomes(c, r) /\ UNCHANGED lock
      BY <1>1, <1>2, <1>6, <1>9, <2>3, <2>4, <2>5, <2>6 DEF LinkBackup, Job
    <2>8. /\ r \in Jobs /\ r.pc = pc /\ r.patch = e.patch /\ r.base = e.base /\ r.next = e.next
          /\ r.stage = e.stage /\ r.backup = t /\ r.done = e.done /\ r.kept = e.kept /\ r.others = e.others
      BY <1>3, <2>3, <2>5, <2>6 DEF Jobs, JobStates, Locked
    <2>9. /\ Len(t) = k /\ DOMAIN t = 1..k
          /\ \A j \in DOMAIN t : t[j] = IF j \in ChangesOf(e.patch) THEN e.base[j].inode ELSE 0
      BY <1>1, <1>2, <2>1, <2>4, <2>5 DEF Longer, Shape
    <2>10. k <= Len(e.stage) /\ (k = Len(e.patch) => Len(t) = Len(e.patch))
      BY <1>3, <2>9, JobFields
    <2>11. pc \in {"stage", "recheck"} /\ (pc = "recheck" => k = Len(e.patch))
      BY <1>3, <2>3
    <2>12. Shape(r)
      BY <1>1, <1>3, <2>8, <2>9, <2>10, <2>11 DEF Shape, Moving
    <2>13. Progress(r)
      BY <1>1, <1>3, <2>8, <2>11 DEF Progress, InPlace, Moving
    <2>14. e.done = <<>> /\ e.kept = {} /\ InPlace(e) = {} /\ InPlace(r) = {}
      BY <1>1, <1>3, <2>8 DEF Progress, InPlace, ToSet, Moving
    <2>15. Placed(r, files)
      BY <1>1, <2>8, <2>14 DEF JobInv, Placed
    <2>16. JobInv(r, files, inodes, outside.late)
      BY <2>8, <2>11, <2>12, <2>13, <2>15 DEF JobInv, Looked, Own, Moving
    <2>17. Stays(r, calls[c], 0, files, Len(inodes), Len(inodes'))
      <3>. SUFFICES ASSUME NEW i, NEW n \in Names, Lives(r, n, i)
                    PROVE  Lives(e, n, i) \/ i = files[n] \/ i = 0
        BY <1>1 DEF Stays
      <3>0. PICK j \in DOMAIN e.patch : /\ e.patch[j].name = n
                                        /\ (j \in DOMAIN e.stage /\ i = e.stage[j]) \/ (j \in DOMAIN t /\ i = t[j])
        BY <2>8 DEF Lives
      <3>1. j \in DOMAIN t /\ i = t[j] => (j = k /\ i = v) \/ (j \in DOMAIN e.backup /\ i = e.backup[j])
        BY <1>2, <2>4, <2>5 DEF Longer
      <3>2. CASE j = k /\ i = v
        BY <2>2, <3>0, <3>2
      <3>3. CASE (j \in DOMAIN e.stage /\ i = e.stage[j]) \/ (j \in DOMAIN e.backup /\ i = e.backup[j])
        BY <3>0, <3>3 DEF Lives
      <3>. QED
        BY <3>0, <3>1, <3>2, <3>3
    <2>18. LockKept(c, r.pc, lock, lock')
      BY <1>4, <2>7 DEF LockKept
    <2>. QED
      BY <1>3, <2>7, <2>8, <2>16, <2>17, <2>18, CallMoves
  <1>10. CASE ~NoChange(c, k) /\ e.base[k] # Missing /\ (v = 0 \/ Identity(v) # e.base[k])
    <2>1. Refuse(c) /\ Unlock(c)
      BY <1>1, <1>2, <1>6, <1>10 DEF LinkBackup, Job
    <2>. QED
      BY <1>5, <2>1
  <1>. QED
    BY <1>9, <1>10

-----------------------------------------------------------------------------
(* The last look at a target.                                              *)
LEMMA LookInv == ASSUME CommitInv, NEW c \in PatchCalls, LastCheck(c) PROVE CommitInv'
  <1>1. PICK e \in Jobs : /\ e = calls[c] /\ JobInv(e, files, inodes, outside.late) /\ Shape(e) /\ Progress(e)
                          /\ e.pc \in Locked => lock = c
    BY CallAt
  <1>2. PICK k : k = e.next
    OBVIOUS
  <1>3. /\ e.pc = "check" /\ k \in DOMAIN e.patch /\ e.patch[k].name \in Names
        /\ (NoChange(c, k) <=> k \notin ChangesOf(e.patch)) /\ (Same(c, k) <=> Current(e.patch[k].name) = e.base[k])
        /\ UNCHANGED <<files, lock, inodes, outside, lost>> /\ lock = c
    <2>1. e.pc = "check" /\ k <= Len(e.patch) /\ UNCHANGED <<files, lock, inodes, outside, lost>>
      BY <1>1, <1>2 DEF LastCheck, Job, Quiet
    <2>2. k \in DOMAIN e.patch /\ e.patch[k].name \in Names
      BY <1>2, <2>1, JobFields
    <2>. QED
      BY <1>1, <2>1, <2>2 DEF NoChange, Changes, ChangesOf, Same, Target, Job, Locked, Moving
  <1>4. ASSUME NEW pc \in {"check", "act", "rollback"}, NEW next \in Nat \ {0}, Becomes(c, [e EXCEPT !.pc = pc, !.next = next]),
               (next = k + 1 /\ pc = "check" /\ k \notin ChangesOf(e.patch)) \/ (next = k /\ pc # "check"),
               pc = "act" => k \in ChangesOf(e.patch) /\ Current(e.patch[k].name) = e.base[k]
        PROVE  CommitInv'
    <2>1. PICK r : r = [e EXCEPT !.pc = pc, !.next = next]
      OBVIOUS
    <2>2. /\ r \in Jobs /\ r.pc = pc /\ r.patch = e.patch /\ r.base = e.base /\ r.next = next
          /\ r.stage = e.stage /\ r.backup = e.backup /\ r.done = e.done /\ r.kept = e.kept /\ r.others = e.others
      BY <1>4, <2>1 DEF Jobs, JobStates, Locked, Moving
    <2>3. Shape(r)
      BY <1>1, <1>3, <2>2 DEF Shape, Moving
    <2>4. InPlace(e) = {j \in ChangesOf(e.patch) : j < k} /\ InPlace(r) = InPlace(e)
      BY <1>1, <1>2, <1>3, <2>2 DEF Progress, InPlace
    <2>5. {j \in ChangesOf(e.patch) : j < next} = {j \in ChangesOf(e.patch) : j < k}
      <3>1. ChangesOf(e.patch) \subseteq Nat /\ k \in Nat
        BY <1>2, JobFields DEF ChangesOf
      <3>2. \A j \in ChangesOf(e.patch) : j < next <=> j < k
        BY <1>4, <3>1
      <3>. QED
        BY <3>2
    <2>6. Progress(r)
      <3>1. \A j \in InPlace(r) : j \in ChangesOf(e.patch) /\ j < next
        BY <2>4, <2>5
      <3>2. e.kept = {} /\ Rising(e.done)
        BY <1>1, <1>3 DEF Progress
      <3>. QED
        BY <1>4, <2>2, <2>4, <2>5, <3>1, <3>2 DEF Progress, Moving
    <2>7. Placed(r, files)
      BY <1>1, <2>2 DEF JobInv, Placed, InPlace, Spare
    <2>8. Own(r, files, outside.late)
      BY <1>1, <1>3, <2>2, <2>4 DEF JobInv, Own, Moving
    <2>9. Looked(r, files, inodes, outside.late)
      BY <1>2, <1>3, <1>4, <2>2 DEF Looked, Current, Identity, IdOf
    <2>10. JobInv(r, files, inodes, outside.late)
      BY <2>3, <2>6, <2>7, <2>8, <2>9 DEF JobInv
    <2>11. Stays(r, calls[c], 0, files, Len(inodes), Len(inodes'))
      BY <1>1, <2>2, SameHomes
    <2>12. LockKept(c, r.pc, lock, lock') /\ Becomes(c, r)
      BY <1>3, <1>4, <2>1 DEF LockKept
    <2>. QED
      BY <1>3, <2>2, <2>10, <2>11, <2>12, CallMoves
  <1>5. k \in Nat \ {0} /\ k + 1 \in Nat \ {0}
    BY <1>2, JobFields
  <1>6. CASE NoChange(c, k)
    <2>1. Becomes(c, [e EXCEPT !.next = k + 1])
      BY <1>1, <1>2, <1>6 DEF LastCheck, Job
    <2>2. PICK next \in Nat \ {0} : next = k + 1
      BY <1>5
    <2>3. [e EXCEPT !.next = k + 1] = [e EXCEPT !.pc = "check", !.next = next]
      BY <1>3, <2>2 DEF Jobs
    <2>4. PICK pc \in {"check", "act", "rollback"} : pc = "check"
      OBVIOUS
    <2>. QED
      BY <1>3, <1>4, <1>6, <2>1, <2>2, <2>3, <2>4
  <1>7. ASSUME NEW pc \in {"act", "rollback"}, Becomes(c, [e EXCEPT !.pc = pc]), ~NoChange(c, k), pc = "act" => Same(c, k)
        PROVE  CommitInv'
    <2>1. [e EXCEPT !.pc = pc] = [e EXCEPT !.pc = pc, !.next = k]
      BY <1>2 DEF Jobs
    <2>2. PICK q \in {"check", "act", "rollback"} : q = pc
      BY <1>7
    <2>. QED
      BY <1>3, <1>4, <1>5, <1>7, <2>1, <2>2
  <1>8. ASSUME ~NoChange(c, k)
        PROVE  \E pc \in {"act", "rollback"} : Becomes(c, [e EXCEPT !.pc = pc]) /\ (pc = "act" => Same(c, k))
    <2>1. Becomes(c, IF Same(c, k) /\ \A d \in Checks(c) : Same(c, d)
                     THEN [e EXCEPT !.pc = "act"] ELSE [e EXCEPT !.pc = "rollback"])
      BY <1>1, <1>2, <1>8 DEF LastCheck, Job
    <2>2. CASE Same(c, k) /\ \A d \in Checks(c) : Same(c, d)
      <3>1. Becomes(c, [e EXCEPT !.pc = "act"])
        BY <2>1, <2>2
      <3>. QED
        BY <2>2, <3>1
    <2>3. CASE ~(Same(c, k) /\ \A d \in Checks(c) : Same(c, d))
      <3>1. Becomes(c, [e EXCEPT !.pc = "rollback"])
        BY <2>1, <2>3, Zenon
      <3>. QED
        BY <3>1
    <2>. QED
      BY <2>2, <2>3
  <1>. QED
    BY <1>6, <1>7, <1>8

(* The changes of a sequence that rises, with one more and with one less.  *)
LEMMA OneMore ==
    ASSUME NEW s \in Seq(Nat), NEW k \in Nat, Rising(s), \A j \in ToSet(s) : j < k
    PROVE  \E t \in Seq(Nat) : t = Append(s, k) /\ ToSet(t) = ToSet(s) \cup {k} /\ Rising(t)
  <1>1. PICK t \in Seq(Nat) : t = Append(s, k) /\ Longer(s, k, t)
    BY AppendLonger
  <1>2. /\ Len(s) \in Nat /\ DOMAIN s = 1..Len(s) /\ DOMAIN t = 1..(Len(s) + 1) /\ t[Len(s) + 1] = k
        /\ \A j \in DOMAIN s : j \in DOMAIN t /\ t[j] = s[j] /\ s[j] \in Nat
        /\ \A j \in DOMAIN t : j = Len(s) + 1 \/ (j \in DOMAIN s /\ t[j] = s[j])
    <2>1. Len(s) \in Nat /\ DOMAIN s = 1..Len(s) /\ DOMAIN t = 1..(Len(s) + 1) /\ t[Len(s) + 1] = k
      BY <1>1 DEF Longer
    <2>2. \A j \in DOMAIN t : j = Len(s) + 1 \/ (j \in DOMAIN s /\ t[j] = s[j])
      BY <1>1 DEF Longer
    <2>3. \A j \in DOMAIN s : j \in DOMAIN t /\ j # Len(s) + 1 /\ s[j] \in Nat
      BY <2>1
    <2>. QED
      BY <2>1, <2>2, <2>3
  <1>3. ToSet(t) = ToSet(s) \cup {k}
    <2>1. Len(s) + 1 \in DOMAIN t
      BY <1>2
    <2>2. ASSUME NEW x \in ToSet(t) PROVE x \in ToSet(s) \cup {k}
      BY <1>2 DEF ToSet
    <2>3. ASSUME NEW x \in ToSet(s) PROVE x \in ToSet(t)
      BY <1>2 DEF ToSet
    <2>4. k \in ToSet(t)
      BY <1>2, <2>1 DEF ToSet
    <2>. QED
      BY <2>2, <2>3, <2>4
  <1>4. Rising(t)
    <2>. SUFFICES ASSUME NEW i \in DOMAIN t, NEW j \in DOMAIN t, i < j PROVE t[i] < t[j]
      BY DEF Rising
    <2>1. i \in DOMAIN s /\ t[i] = s[i]
      <3>1. i # Len(s) + 1
        BY <1>2
      <3>. QED
        BY <1>2, <3>1
    <2>2. CASE j = Len(s) + 1
      BY <1>2, <2>1, <2>2 DEF ToSet
    <2>3. CASE j \in DOMAIN s /\ t[j] = s[j]
      BY <2>1, <2>3 DEF Rising
    <2>. QED
      BY <1>2, <2>2, <2>3
  <1>. QED
    BY <1>1, <1>3, <1>4

LEMMA OneLess ==
    ASSUME NEW s \in Seq(Nat), Rising(s), s # <<>>
    PROVE  /\ Last(s) \in ToSet(s)
           /\ \E t \in Seq(Nat) : t = Front(s) /\ ToSet(t) = ToSet(s) \ {Last(s)} /\ Rising(t)
  <1>1. PICK n \in Nat : n = Len(s) /\ n # 0 /\ DOMAIN s = 1..n /\ \A i \in DOMAIN s : s[i] \in Nat
    BY EmptySeq
  <1>2. PICK t : t = Front(s)
    OBVIOUS
  <1>3. /\ t \in Seq(Nat) /\ DOMAIN t = 1..(n - 1) /\ \A i \in DOMAIN t : t[i] = s[i]
    BY <1>1, <1>2 DEF Front
  <1>4. Last(s) = s[n] /\ n \in DOMAIN s
    BY <1>1 DEF Last
  <1>5. ASSUME NEW i \in 1..(n - 1) PROVE i \in DOMAIN s /\ s[i] # s[n]
    <2>1. i \in DOMAIN s /\ i < n
      BY <1>1
    <2>2. s[i] < s[n]
      BY <1>4, <2>1 DEF Rising
    <2>3. s[i] \in Nat /\ s[n] \in Nat
      BY <1>1, <1>4, <2>1
    <2>. QED
      BY <2>1, <2>2, <2>3
  <1>6. \A i \in DOMAIN s : i = n \/ i \in 1..(n - 1)
    BY <1>1
  <1>7. ToSet(t) = ToSet(s) \ {Last(s)}
    <2>1. ASSUME NEW x \in ToSet(t) PROVE x \in ToSet(s) \ {Last(s)}
      BY <1>3, <1>4, <1>5 DEF ToSet
    <2>2. ASSUME NEW x \in ToSet(s) \ {Last(s)} PROVE x \in ToSet(t)
      BY <1>3, <1>4, <1>6 DEF ToSet
    <2>. QED
      BY <2>1, <2>2
  <1>8. Rising(t)
    BY <1>3, <1>5 DEF Rising
  <1>. QED
    BY <1>2, <1>3, <1>4, <1>7, <1>8 DEF ToSet

-----------------------------------------------------------------------------
(* What is put in place replaces what was looked at.                       *)
LEMMA PutInv == ASSUME CommitInv, NEW c \in PatchCalls, PutInPlace(c) PROVE CommitInv'
  <1>1. PICK e \in Jobs : /\ e = calls[c] /\ JobInv(e, files, inodes, outside.late) /\ Shape(e) /\ Progress(e)
                          /\ e.pc \in Locked => lock = c
    BY CallAt
  <1>2. PICK k : k = e.next
    OBVIOUS
  <1>3. /\ e.pc = "act" /\ UNCHANGED <<inodes, lock, outside>> /\ lock = c
        /\ k \in ChangesOf(e.patch) /\ k \in DOMAIN e.patch /\ k \in Nat \ {0} /\ e.patch[k].name \in Names
    <2>1. e.pc = "act" /\ UNCHANGED <<inodes, lock, outside>>
      BY <1>1 DEF PutInPlace, Job
    <2>2. k \in ChangesOf(e.patch)
      BY <1>1, <1>2, <2>1 DEF Progress
    <2>. QED
      BY <1>1, <1>2, <2>1, <2>2, JobFields DEF ChangesOf, Locked, Moving
  <1>4. PICK n \in Names : n = e.patch[k].name
    BY <1>3
  <1>5. /\ InPlace(e) = {j \in ChangesOf(e.patch) : j < k} /\ e.kept = {} /\ Rising(e.done)
        /\ k \in DOMAIN e.stage /\ k \in DOMAIN e.backup /\ k \in DOMAIN e.base /\ e.done \in Seq(Nat) /\ e.stage[k] \in Nat
    <2>1. InPlace(e) = {j \in ChangesOf(e.patch) : j < k} /\ e.kept = {} /\ Rising(e.done)
      BY <1>1, <1>2, <1>3 DEF Progress
    <2>2. Len(e.base) = Len(e.patch) /\ Len(e.backup) = Len(e.patch) /\ Len(e.stage) = Len(e.patch)
      BY <1>1, <1>3, JobFields DEF Shape, Moving
    <2>. QED
      BY <1>3, <2>1, <2>2, JobFields
  <1>6. CASE Becomes(c, [e EXCEPT !.pc = "rollback"]) /\ UNCHANGED <<files, lost>>
    <2>1. PICK r : r = [e EXCEPT !.pc = "rollback"]
      OBVIOUS
    <2>2. /\ r \in Jobs /\ r.pc = "rollback" /\ r.patch = e.patch /\ r.base = e.base /\ r.next = e.next
          /\ r.stage = e.stage /\ r.backup = e.backup /\ r.done = e.done /\ r.kept = e.kept /\ r.others = e.others
      BY <2>1 DEF Jobs, JobStates, Locked, Moving
    <2>3. InPlace(r) = InPlace(e)
      BY <2>2 DEF InPlace
    <2>4. Shape(r) /\ Progress(r)
      BY <1>1, <1>2, <1>3, <1>5, <2>2, <2>3 DEF Shape, Progress, Moving
    <2>5. Placed(r, files)
      BY <1>1, <2>2 DEF JobInv, Placed, InPlace, Spare
    <2>6. Own(r, files, outside.late)
      BY <1>1, <1>3, <2>2, <2>3 DEF JobInv, Own, Moving
    <2>7. JobInv(r, files, inodes, outside.late)
      BY <2>2, <2>4, <2>5, <2>6 DEF JobInv, Looked
    <2>8. Stays(r, calls[c], 0, files, Len(inodes), Len(inodes'))
      BY <1>1, <2>2, SameHomes
    <2>9. LockKept(c, r.pc, lock, lock') /\ Becomes(c, r)
      BY <1>3, <1>6, <2>1 DEF LockKept
    <2>. QED
      BY <1>3, <1>6, <2>2, <2>7, <2>8, <2>9, CallMoves
  <1>7. CASE /\ files' = [files EXCEPT ![n] = e.stage[k]] /\ lost' = (lost \/ ~Seen(c, k, files[n]))
             /\ calls' = [TouchedByOthers(n, c) EXCEPT ![c] =
                            [e EXCEPT !.pc = "check", !.next = k + 1, !.done = Append(@, k)]]
    <2>1. PICK t \in Seq(Nat) : t = Append(e.done, k) /\ ToSet(t) = ToSet(e.done) \cup {k} /\ Rising(t)
      BY <1>3, <1>5, OneMore DEF InPlace
    <2>0. PICK next \in Nat \ {0} : next = k + 1
      BY <1>3
    <2>2. PICK r : r = [e EXCEPT !.pc = "check", !.next = next, !.done = t]
      OBVIOUS
    <2>3. /\ r \in Jobs /\ r.pc = "check" /\ r.patch = e.patch /\ r.base = e.base /\ r.next = k + 1
          /\ r.stage = e.stage /\ r.backup = e.backup /\ r.done = t /\ r.kept = e.kept /\ r.others = e.others
      BY <2>0, <2>1, <2>2 DEF Jobs, JobStates, Locked, Moving
    <2>4. PICK fs : fs = [files EXCEPT ![n] = e.stage[k]]
      OBVIOUS
    <2>5. fs[n] = e.stage[k] /\ \A m \in Names : m # n => fs[m] = files[m]
      BY <2>4 DEF CommitInv, CommitType
    <2>6. \A j \in ChangesOf(e.patch) : j # k => fs[e.patch[j].name] = files[e.patch[j].name]
      <3>1. \A j \in ChangesOf(e.patch) : j # k => e.patch[j].name \in Names /\ e.patch[j].name # n
        BY <1>1, <1>3, <1>4, JobFields DEF Shape, ChangesOf
      <3>. QED
        BY <2>5, <3>1
    <2>7. InPlace(r) = InPlace(e) \cup {k}
      BY <2>1, <2>3 DEF InPlace
    <2>8. InPlace(r) = {j \in ChangesOf(e.patch) : j < k + 1}
      <3>1. ChangesOf(e.patch) \subseteq Nat
        BY JobFields DEF ChangesOf
      <3>2. \A j \in ChangesOf(e.patch) : j < k + 1 <=> (j < k \/ j = k)
        BY <1>3, <3>1
      <3>. QED
        BY <1>3, <1>5, <2>7, <3>2
    <2>9. Shape(r)
      BY <1>1, <1>3, <2>3 DEF Shape, Moving
    <2>10. Progress(r)
      BY <1>5, <2>1, <2>3, <2>8 DEF Progress, Moving
    <2>11. Placed(r, fs)
      <3>. SUFFICES ASSUME NEW j \in ChangesOf(e.patch) \cap DOMAIN e.base, e.patch[j].name \notin e.others
                    PROVE  IF j \in InPlace(r) THEN fs[e.patch[j].name] = e.stage[j]
                           ELSE fs[e.patch[j].name] = e.base[j].inode
        BY <2>3 DEF Placed
      <3>1. CASE j = k
        BY <1>4, <2>5, <2>7, <3>1
      <3>2. CASE j # k
        <4>1. IF j \in InPlace(e) THEN files[e.patch[j].name] = e.stage[j]
              ELSE files[e.patch[j].name] = e.base[j].inode
          BY <1>1, <1>5 DEF JobInv, Placed
        <4>. QED
          BY <2>6, <2>7, <3>2, <4>1
      <3>. QED
        BY <3>1, <3>2
    <2>12. Own(r, fs, outside.late)
      <3>. SUFFICES ASSUME NEW j \in InPlace(r) PROVE fs[e.patch[j].name] \in {0, e.stage[j]} \cup outside.late
        BY <2>3 DEF Own
      <3>1. CASE j = k
        BY <1>4, <2>5, <3>1
      <3>2. CASE j # k
        <4>1. j \in InPlace(e) /\ j \in ChangesOf(e.patch)
          BY <1>5, <2>7, <3>2
        <4>2. files[e.patch[j].name] \in {0, e.stage[j]} \cup outside.late
          BY <1>1, <1>3, <4>1 DEF JobInv, Own, Moving
        <4>. QED
          BY <2>6, <3>2, <4>1, <4>2
      <3>. QED
        BY <3>1, <3>2
    <2>13. JobInv(r, fs, inodes, outside.late)
      BY <2>3, <2>9, <2>10, <2>11, <2>12 DEF JobInv, Looked
    <2>14. \A m, i : Lives(r, m, i) => Lives(calls[c], m, i)
      BY <1>1, <2>3 DEF Lives
    <2>15. At(e.stage[k], n, files, calls)
      BY <1>1, <1>3, <1>4, <1>5 DEF At, Lives
    <2>16. ~lost'
      <3>1. files[n] \in {0} \cup outside.late \/ IdOf(files[n], inodes) = e.base[k]
        BY <1>1, <1>2, <1>3, <1>4 DEF JobInv, Looked
      <3>2. Seen(c, k, files[n])
        BY <1>1, <3>1 DEF Seen, Identity, IdOf, Job
      <3>. QED
        BY <1>7, <3>2 DEF CommitInv
    <2>17. calls' = [TouchedByOthers(n, c) EXCEPT ![c] = r] /\ files' = fs
      BY <1>7, <2>0, <2>1, <2>2, <2>4
    <2>. QED
      BY <1>3, <1>5, <2>3, <2>4, <2>13, <2>14, <2>15, <2>16, <2>17, FileMoves
  <1>8. \/ Becomes(c, [e EXCEPT !.pc = "rollback"]) /\ UNCHANGED <<files, lost>>
        \/ /\ files' = [files EXCEPT ![n] = e.stage[k]] /\ lost' = (lost \/ ~Seen(c, k, files[n]))
           /\ calls' = [TouchedByOthers(n, c) EXCEPT ![c] =
                            [e EXCEPT !.pc = "check", !.next = k + 1, !.done = Append(@, k)]]
    BY <1>1, <1>2, <1>4 DEF PutInPlace, Job, Target
  <1>. QED
    BY <1>6, <1>7, <1>8

(* A change is taken back: what goes is its own, and what comes is what    *)
(* was there; or its original is kept.                                     *)
LEMMA RestoreInv == ASSUME CommitInv, NEW c \in PatchCalls, Restore(c) PROVE CommitInv'
  <1>1. PICK e \in Jobs : /\ e = calls[c] /\ JobInv(e, files, inodes, outside.late) /\ Shape(e) /\ Progress(e)
                          /\ e.pc \in Locked => lock = c
    BY CallAt
  <1>2. PICK k : k = Last(e.done)
    OBVIOUS
  <1>3. /\ e.pc = "rollback" /\ e.done # <<>> /\ UNCHANGED <<inodes, lock, outside>> /\ lock = c
        /\ Rising(e.done) /\ e.done \in Seq(Nat) /\ \A j \in InPlace(e) : j \in ChangesOf(e.patch) /\ j < e.next
    <2>1. e.pc = "rollback" /\ e.done # <<>> /\ UNCHANGED <<inodes, lock, outside>>
      BY <1>1 DEF Restore, Job
    <2>. QED
      BY <1>1, <2>1, JobFields DEF Progress, Locked, Moving
  <1>4. PICK t \in Seq(Nat) : t = Front(e.done) /\ ToSet(t) = InPlace(e) \ {k} /\ Rising(t) /\ k \in InPlace(e)
    BY <1>2, <1>3, OneLess DEF InPlace
  <1>5. k \in ChangesOf(e.patch) /\ k \in DOMAIN e.patch /\ e.patch[k].name \in Names
    BY <1>3, <1>4, JobFields DEF ChangesOf
  <1>6. PICK n \in Names : n = e.patch[k].name
    BY <1>5
  <1>7. /\ k \in DOMAIN e.stage /\ k \in DOMAIN e.backup /\ k \in DOMAIN e.base
        /\ e.backup[k] = e.base[k].inode /\ e.backup[k] \in Nat /\ e.stage[k] \in Nat
    <2>1. Len(e.base) = Len(e.patch) /\ Len(e.backup) = Len(e.patch) /\ Len(e.stage) = Len(e.patch)
      BY <1>1, <1>3, JobFields DEF Shape, Moving
    <2>2. k \in DOMAIN e.stage /\ k \in DOMAIN e.backup /\ k \in DOMAIN e.base
      BY <1>5, <2>1, JobFields
    <2>. QED
      BY <1>1, <1>5, <2>2, JobFields DEF Shape
  <1>8. PICK spare \in Nat : spare = IF e.backup[k] = 0 THEN e.stage[k] ELSE e.backup[k]
    BY <1>7
  <1>9. ASSUME NEW kept \in SUBSET Nat
        PROVE  \E r \in Jobs :
               /\ r = [e EXCEPT !.done = t, !.kept = kept]
               /\ r.pc = "rollback" /\ r.patch = e.patch /\ r.base = e.base /\ r.next = e.next
               /\ r.stage = e.stage /\ r.backup = e.backup /\ r.done = t /\ r.kept = kept /\ r.others = e.others
               /\ InPlace(r) = InPlace(e) \ {k} /\ Shape(r) /\ Progress(r)
    <2>0. PICK r : r = [e EXCEPT !.done = t, !.kept = kept]
      OBVIOUS
    <2>1. /\ r \in Jobs /\ r.pc = "rollback" /\ r.patch = e.patch /\ r.base = e.base /\ r.next = e.next
          /\ r.stage = e.stage /\ r.backup = e.backup /\ r.done = t /\ r.kept = kept /\ r.others = e.others
      BY <1>3, <1>4, <2>0 DEF Jobs
    <2>2. InPlace(r) = InPlace(e) \ {k}
      BY <1>4, <2>1 DEF InPlace
    <2>3. Shape(r)
      BY <1>1, <1>3, <2>1 DEF Shape
    <2>4. Progress(r)
      BY <1>3, <1>4, <2>1, <2>2 DEF Progress, Moving
    <2>. QED
      BY <2>0, <2>1, <2>2, <2>3, <2>4
  <1>10. CASE Becomes(c, [e EXCEPT !.done = t, !.kept = @ \cup {spare}]) /\ UNCHANGED <<files, lost>>
    <2>1. PICK kept \in SUBSET Nat : kept = e.kept \cup {spare}
      BY JobFields
    <2>3. PICK r \in Jobs :
          /\ r = [e EXCEPT !.done = t, !.kept = kept]
          /\ r.pc = "rollback" /\ r.patch = e.patch /\ r.base = e.base /\ r.next = e.next
          /\ r.stage = e.stage /\ r.backup = e.backup /\ r.done = t /\ r.kept = kept /\ r.others = e.others
          /\ InPlace(r) = InPlace(e) \ {k} /\ Shape(r) /\ Progress(r)
      BY <1>9
    <2>4. Placed(r, files)
      <3>. SUFFICES ASSUME NEW j \in ChangesOf(e.patch) \cap DOMAIN e.base, e.patch[j].name \notin e.others
                    PROVE  IF j \in InPlace(r) THEN files[e.patch[j].name] = e.stage[j]
                           ELSE \/ files[e.patch[j].name] = e.base[j].inode
                                \/ j \in DOMAIN e.backup /\ Spare(e, j) \in kept
        BY <2>3 DEF Placed, Spare
      <3>1. CASE j = k
        BY <1>7, <1>8, <2>1, <2>3, <3>1 DEF Spare
      <3>2. CASE j # k
        BY <1>1, <2>1, <2>3, <3>2 DEF JobInv, Placed
      <3>. QED
        BY <3>1, <3>2
    <2>5. Own(r, files, outside.late)
      BY <1>1, <1>3, <2>3 DEF JobInv, Own, Moving
    <2>6. JobInv(r, files, inodes, outside.late)
      BY <2>3, <2>4, <2>5 DEF JobInv, Looked
    <2>7. Stays(r, calls[c], 0, files, Len(inodes), Len(inodes'))
      BY <1>1, <2>3, SameHomes
    <2>8. LockKept(c, r.pc, lock, lock') /\ Becomes(c, r)
      BY <1>3, <1>10, <2>1, <2>3 DEF LockKept
    <2>. QED
      BY <1>3, <1>10, <2>3, <2>6, <2>7, <2>8, CallMoves
  <1>11. CASE /\ files' = [files EXCEPT ![n] = e.backup[k]] /\ lost' = (lost \/ ~Seen(c, k, files[n]))
              /\ calls' = [TouchedByOthers(n, c) EXCEPT ![c] = [e EXCEPT !.done = t]]
    <2>1. PICK kept \in SUBSET Nat : kept = e.kept
      BY JobFields
    <2>2. PICK r \in Jobs :
          /\ r = [e EXCEPT !.done = t, !.kept = kept]
          /\ r.pc = "rollback" /\ r.patch = e.patch /\ r.base = e.base /\ r.next = e.next
          /\ r.stage = e.stage /\ r.backup = e.backup /\ r.done = t /\ r.kept = kept /\ r.others = e.others
          /\ InPlace(r) = InPlace(e) \ {k} /\ Shape(r) /\ Progress(r)
      BY <1>9
    <2>3. PICK fs : fs = [files EXCEPT ![n] = e.backup[k]]
      OBVIOUS
    <2>4. fs[n] = e.backup[k] /\ \A m \in Names : m # n => fs[m] = files[m]
      BY <2>3 DEF CommitInv, CommitType
    <2>5. \A j \in ChangesOf(e.patch) : j # k => fs[e.patch[j].name] = files[e.patch[j].name]
      <3>1. \A j \in ChangesOf(e.patch) : j # k => e.patch[j].name \in Names /\ e.patch[j].name # n
        BY <1>1, <1>5, <1>6, JobFields DEF Shape, ChangesOf
      <3>. QED
        BY <2>4, <3>1
    <2>6. Placed(r, fs)
      <3>. SUFFICES ASSUME NEW j \in ChangesOf(e.patch) \cap DOMAIN e.base, e.patch[j].name \notin e.others
                    PROVE  IF j \in InPlace(r) THEN fs[e.patch[j].name] = e.stage[j]
                           ELSE \/ fs[e.patch[j].name] = e.base[j].inode
                                \/ j \in DOMAIN e.backup /\ Spare(e, j) \in e.kept
        BY <2>1, <2>2 DEF Placed, Spare
      <3>1. CASE j = k
        BY <1>6, <1>7, <2>2, <2>4, <3>1
      <3>2. CASE j # k
        <4>1. IF j \in InPlace(e) THEN files[e.patch[j].name] = e.stage[j]
              ELSE \/ files[e.patch[j].name] = e.base[j].inode
                   \/ j \in DOMAIN e.backup /\ Spare(e, j) \in e.kept
          BY <1>1 DEF JobInv, Placed
        <4>. QED
          BY <2>2, <2>5, <3>2, <4>1
      <3>. QED
        BY <3>1, <3>2
    <2>7. Own(r, fs, outside.late)
      <3>. SUFFICES ASSUME NEW j \in InPlace(e), j # k PROVE fs[e.patch[j].name] \in {0, e.stage[j]} \cup outside.late
        BY <2>2 DEF Own
      <3>1. files[e.patch[j].name] \in {0, e.stage[j]} \cup outside.late
        BY <1>1, <1>3 DEF JobInv, Own, Moving
      <3>. QED
        BY <1>3, <2>5, <3>1
    <2>8. JobInv(r, fs, inodes, outside.late)
      BY <2>2, <2>6, <2>7 DEF JobInv, Looked
    <2>9. \A m, i : Lives(r, m, i) => Lives(calls[c], m, i)
      BY <1>1, <2>2 DEF Lives
    <2>10. At(e.backup[k], n, files, calls)
      BY <1>1, <1>5, <1>6, <1>7 DEF At, Lives
    <2>11. ~lost'
      <3>1. files[n] \in {0, e.stage[k]} \cup outside.late
        BY <1>1, <1>3, <1>4, <1>6 DEF JobInv, Own, Moving
      <3>2. Seen(c, k, files[n])
        BY <1>1, <3>1 DEF Seen, Job
      <3>. QED
        BY <1>11, <3>2 DEF CommitInv
    <2>12. calls' = [TouchedByOthers(n, c) EXCEPT ![c] = r] /\ files' = fs
      <3>1. [e EXCEPT !.done = t] = r
        BY <2>1, <2>2 DEF Jobs
      <3>. QED
        BY <1>11, <2>3, <3>1
    <2>. QED
      BY <1>3, <1>7, <2>2, <2>3, <2>8, <2>9, <2>10, <2>11, <2>12, FileMoves
  <1>12. \/ Becomes(c, [e EXCEPT !.done = t, !.kept = @ \cup {spare}]) /\ UNCHANGED <<files, lost>>
         \/ /\ files' = [files EXCEPT ![n] = e.backup[k]] /\ lost' = (lost \/ ~Seen(c, k, files[n]))
            /\ calls' = [TouchedByOthers(n, c) EXCEPT ![c] = [e EXCEPT !.done = t]]
    <2>1. [[e EXCEPT !.done = t] EXCEPT !.kept = @ \cup {spare}] = [e EXCEPT !.done = t, !.kept = @ \cup {spare}]
      BY DEF Jobs
    <2>. QED
      BY <1>1, <1>2, <1>4, <1>6, <1>8, <2>1 DEF Restore, Job, Target
  <1>. QED
    BY <1>10, <1>11, <1>12

LEMMA FinishInv == ASSUME CommitInv, NEW c \in PatchCalls, Finish(c) PROVE CommitInv'
  <1>1. PICK e \in Jobs : /\ e = calls[c] /\ JobInv(e, files, inodes, outside.late) /\ Shape(e) /\ Progress(e)
                          /\ e.pc \in Locked => lock = c
    BY CallAt
  <1>2. PICK pc : \/ e.pc = "rollback" /\ e.done = <<>> /\ e.kept = {} /\ pc = "refused"
                  \/ e.pc = "rollback" /\ e.done = <<>> /\ e.kept # {} /\ pc = "failed"
                  \/ e.pc = "check" /\ e.next > Len(e.patch) /\ pc = "committed"
    BY <1>1 DEF Finish, Job
  <1>3. Becomes(c, [e EXCEPT !.pc = pc]) /\ Unlock(c) /\ UNCHANGED <<files, inodes, outside, lost>>
    BY <1>1, <1>2 DEF Finish, Job, Quiet
  <1>4. PICK r : r = [e EXCEPT !.pc = pc]
    OBVIOUS
  <1>5. /\ r \in Jobs /\ r.pc = pc /\ r.patch = e.patch /\ r.base = e.base /\ r.next = e.next
        /\ r.stage = e.stage /\ r.backup = e.backup /\ r.done = e.done /\ r.kept = e.kept /\ r.others = e.others
    BY <1>2, <1>4 DEF Jobs, JobStates
  <1>6. InPlace(r) = InPlace(e)
    BY <1>5 DEF InPlace
  <1>7. Shape(r)
    BY <1>1, <1>2, <1>5 DEF Shape, Moving
  <1>8. e.pc = "check" => InPlace(e) = ChangesOf(e.patch)
    <2>1. e.pc = "check" => \A k \in ChangesOf(e.patch) : k < e.next
      BY <1>2, JobFields DEF ChangesOf
    <2>. QED
      BY <1>1, <2>1 DEF Progress
  <1>9. Progress(r)
    BY <1>1, <1>2, <1>5, <1>6, <1>8 DEF Progress, Moving
  <1>10. Placed(r, files)
    BY <1>1, <1>5 DEF JobInv, Placed, InPlace, Spare
  <1>11. JobInv(r, files, inodes, outside.late)
    BY <1>2, <1>5, <1>7, <1>9, <1>10 DEF JobInv, Looked, Own, Moving
  <1>12. Stays(r, calls[c], 0, files, Len(inodes), Len(inodes'))
    BY <1>1, <1>5, SameHomes
  <1>13. LockKept(c, r.pc, lock, lock') /\ Becomes(c, r)
    BY <1>1, <1>2, <1>3, <1>4, <1>5 DEF LockKept, Unlock, Locked, Moving
  <1>. QED
    BY <1>3, <1>5, <1>11, <1>12, <1>13, CallMoves

-----------------------------------------------------------------------------
(* Others put a file under a name: who has looked at it for the last time  *)
(* is told that it came too late.                                          *)
LEMMA OthersInv ==
    ASSUME CommitInv, NEW n \in Names, NEW v \in Nat, files' = [files EXCEPT ![n] = v],
           calls' = TouchedByOthers(n, NoCall), OutsideWrites(v, n), UNCHANGED <<lock, lost>>,
           \/ v = 0 /\ inodes' = inodes
           \/ v = Len(inodes) + 1 /\ \E w \in Writes : inodes' = Append(inodes, w)
    PROVE  CommitInv'
  <1>1. /\ calls \in [PatchCalls -> Jobs] /\ files \in [Names -> Nat] /\ inodes \in Seq(Writes)
        /\ outside \in [writes : Nat, late : SUBSET Nat]
        /\ \A d \in PatchCalls : JobInv(calls[d], files, inodes, outside.late)
        /\ \A d \in PatchCalls : calls[d].pc \in Locked => lock = d
        /\ Homes(files, inodes, calls) /\ ~lost
    BY DEF CommitInv, CommitType
  <1>2. Len(inodes) \in Nat /\ \A m \in Names : files[m] <= Len(inodes)
    BY FilesKnown
  <1>3. /\ inodes' \in Seq(Writes) /\ Len(inodes') \in {Len(inodes), Len(inodes) + 1} /\ SameIds(inodes, inodes')
    BY Written1
  <1>4. v = 0 \/ (v = Len(inodes) + 1 /\ Len(inodes') = Len(inodes) + 1)
    <2>1. ASSUME NEW w \in Writes, inodes' = Append(inodes, w) PROVE Len(inodes') = Len(inodes) + 1
      BY <1>1, <2>1, AppendProperties
    <2>. QED
      BY <2>1
  <1>5. PICK late \in SUBSET Nat : /\ late = outside.late \cup (IF TooLate(n) THEN {v} ELSE {})
                                   /\ outside.late \subseteq late /\ (TooLate(n) => v \in late)
    BY <1>1
  <1>6. outside' \in [writes : Nat, late : SUBSET Nat] /\ outside'.late = late
    BY <1>1, <1>5 DEF OutsideWrites
  <1>7. ASSUME NEW d \in PatchCalls
        PROVE  /\ calls'[d] \in Jobs /\ calls'[d].pc = calls[d].pc
               /\ JobInv(calls'[d], files', inodes', outside'.late)
               /\ \A m, i : Lives(calls'[d], m, i) <=> Lives(calls[d], m, i)
    <2>1. PICK e \in Jobs : e = calls[d] /\ JobInv(e, files, inodes, outside.late)
      BY <1>1
    <2>2. calls'[d] = Noted(e, n)
      BY <2>1, PatchShapes DEF TouchedByOthers, Job, Noted, PatchShapes
    <2>3. Past(e, n, v, late)
      <3>1. ASSUME e.pc \in Moving, NEW k \in ChangesOf(e.patch), k < e.next \/ (k = e.next /\ e.pc # "check"),
                   e.patch[k].name = n
            PROVE  v \in late
        <4>1. d \in Working
          BY <2>1, <3>1 DEF Working, Job, Moving
        <4>2. k \in LastLook(d) /\ Target(d, k) = n
          BY <2>1, <3>1 DEF LastLook, Changes, ChangesOf, Job, Target
        <4>. QED
          BY <1>5, <4>1, <4>2 DEF TooLate
      <3>. QED
        BY <3>1 DEF Past
    <2>4. /\ Noted(e, n) \in Jobs /\ Noted(e, n).pc = e.pc
          /\ JobInv(Noted(e, n), [files EXCEPT ![n] = v], inodes', late)
          /\ \A m, i : Lives(Noted(e, n), m, i) <=> Lives(e, m, i)
      <3>1. PICK is2 : is2 = inodes'
        OBVIOUS
      <3>2. SameIds(inodes, is2) /\ outside.late \subseteq late /\ v \in Nat /\ files \in [Names -> Nat]
        BY <1>1, <1>3, <1>5, <3>1
      <3>3. /\ Noted(e, n) \in Jobs /\ Noted(e, n).pc = e.pc
            /\ JobInv(Noted(e, n), [files EXCEPT ![n] = v], is2, late)
            /\ \A m, i : Lives(Noted(e, n), m, i) <=> Lives(e, m, i)
        BY <1>2, <2>1, <2>3, <3>2, TouchedJob
      <3>. QED
        BY <3>1, <3>3
    <2>. QED
      BY <1>6, <2>1, <2>2, <2>4, <1>1
  <1>8. DOMAIN calls' = PatchCalls /\ calls' = [d \in PatchCalls |-> calls'[d]]
    BY DEF TouchedByOthers
  <1>9. calls' \in [PatchCalls -> Jobs] /\ files' \in [Names -> Nat]
    BY <1>1, <1>7, <1>8
  <1>10. \A d \in PatchCalls : calls'[d].pc \in Locked => lock' = d
    BY <1>1, <1>7
  <1>11. ASSUME NEW i, NEW m \in Names, At(i, m, files', calls')
         PROVE  At(i, m, files, calls) \/ i = 0 \/ (i = Len(inodes) + 1 /\ m = n /\ Len(inodes') = Len(inodes) + 1)
    <2>1. CASE i = files'[m]
      <3>1. CASE m = n
        BY <1>1, <1>4, <2>1, <3>1
      <3>2. CASE m # n
        BY <1>1, <2>1, <3>2 DEF At
      <3>. QED
        BY <3>1, <3>2
    <2>2. ASSUME NEW d \in PatchCalls, Lives(calls'[d], m, i) PROVE At(i, m, files, calls)
      <3>1. Lives(calls[d], m, i)
        BY <1>7, <2>2
      <3>. QED
        BY <3>1 DEF At
    <2>. QED
      BY <1>11, <2>1, <2>2 DEF At
  <1>12. Homes(files', inodes', calls')
    <2>1. Settles(files, calls, files', calls', n, Len(inodes), Len(inodes'))
      BY <1>11 DEF Settles
    <2>. QED
      BY <1>1, <1>2, <1>3, <2>1, HomesKept
  <1>. QED
    BY <1>1, <1>3, <1>6, <1>7, <1>9, <1>10, <1>12 DEF CommitInv, CommitType

LEMMA ReplaceInv == ASSUME CommitInv, NEW n \in Names, OutsideReplace(n) PROVE CommitInv'
  <1>1. Written(NoCall, 0) \in Writes
    BY DEF Written, Writes
  <1>2. PICK v \in Nat : v = Len(inodes) + 1
    BY FilesKnown
  <1>. QED
    BY <1>1, <1>2, OthersInv DEF OutsideReplace

LEMMA RemoveInv == ASSUME CommitInv, NEW n \in Names, OutsideRemove(n) PROVE CommitInv'
  BY OthersInv DEF OutsideRemove

(* A file that is written in place is written at its home.                 *)
LEMMA EditInv == ASSUME CommitInv, NEW n \in Names, NEW i \in DOMAIN inodes, OutsideEdit(n, i) PROVE CommitInv'
  <1>1. /\ calls \in [PatchCalls -> Jobs] /\ files \in [Names -> Nat] /\ inodes \in Seq(Writes)
        /\ outside \in [writes : Nat, late : SUBSET Nat]
        /\ \A d \in PatchCalls : JobInv(calls[d], files, inodes, outside.late)
        /\ \A d \in PatchCalls : calls[d].pc \in Locked => lock = d
        /\ Homes(files, inodes, calls) /\ ~lost
        /\ inodes' = [inodes EXCEPT ![i] = Written(NoCall, @.version + 1)] /\ OutsideWrites(i, n)
        /\ UNCHANGED <<files, calls, lock, lost>> /\ i # 0
    BY DEF CommitInv, CommitType, OutsideEdit
  <1>2. Len(inodes) \in Nat /\ (\A m \in Names : files[m] \in Nat /\ files[m] <= Len(inodes)) /\ i \in 1..Len(inodes)
    BY <1>1, FilesKnown
  <1>3. Written(NoCall, inodes[i].version + 1) \in Writes
    <2>1. PICK w \in Writes : w = inodes[i]
      BY <1>1
    <2>2. w.version \in Nat
      BY DEF Writes
    <2>. QED
      BY <2>1, <2>2 DEF Written, Writes
  <1>4. inodes' \in Seq(Writes) /\ Len(inodes') = Len(inodes) /\ \A j \in 1..Len(inodes) : j # i => inodes'[j] = inodes[j]
    <2>1. PICK s \in Seq(Writes) : s = inodes
      BY <1>1
    <2>2. PICK w \in Writes : w = Written(NoCall, inodes[i].version + 1)
      BY <1>3
    <2>3. inodes' = [s EXCEPT ![i] = w]
      BY <1>1, <2>1, <2>2
    <2>4. i \in 1..Len(s)
      BY <1>2, <2>1
    <2>5. [s EXCEPT ![i] = w] \in Seq(Writes) /\ Len([s EXCEPT ![i] = w]) = Len(s)
      BY <2>4, ExceptSeq
    <2>6. \A j \in 1..Len(s) : j # i => [s EXCEPT ![i] = w][j] = s[j]
      BY <2>4
    <2>. QED
      BY <2>1, <2>3, <2>5, <2>6
  <1>5. At(i, n, files, calls)
    <2>1. CASE i = files[n]
      BY <2>1 DEF At
    <2>2. ASSUME NEW c \in Working, NEW k \in DOMAIN Job(c).backup, Target(c, k) = n, i = Job(c).backup[k]
          PROVE  At(i, n, files, calls)
      <3>1. PICK e \in Jobs : c \in PatchCalls /\ e = calls[c] /\ Shape(e)
        BY <1>1 DEF Working, JobInv
      <3>2. k \in DOMAIN e.patch /\ k \in DOMAIN e.backup /\ e.patch[k].name = n /\ i = e.backup[k]
        BY <2>2, <3>1, JobFields DEF Job, Target, Shape
      <3>. QED
        BY <3>1, <3>2 DEF At, Lives
    <2>. QED
      BY <2>1, <2>2 DEF OutsideEdit
  <1>6. \A m \in Names : files[m] = i => m = n
    <2>1. \A m \in Names : files[m] = i => At(i, m, files, calls)
      BY DEF At
    <2>. QED
      BY <1>1, <1>5, <2>1 DEF Homes
  <1>7. PICK late \in SUBSET Nat : /\ late = outside.late \cup (IF TooLate(n) THEN {i} ELSE {})
                                   /\ outside.late \subseteq late /\ (TooLate(n) => i \in late)
    <2>1. PICK put \in SUBSET Nat : put = IF TooLate(n) THEN {i} ELSE {}
      <3>1. {i} \in SUBSET Nat /\ {} \in SUBSET Nat
        BY <1>2
      <3>. QED
        BY <3>1
    <2>2. PICK before \in SUBSET Nat : before = outside.late
      BY <1>1
    <2>3. TooLate(n) => i \in put
      BY <2>1
    <2>4. PICK late \in SUBSET Nat : late = before \cup put
      <3>1. before \cup put \in SUBSET Nat
        OBVIOUS
      <3>. QED
        BY <3>1
    <2>. QED
      BY <2>1, <2>2, <2>3, <2>4
  <1>8. outside' \in [writes : Nat, late : SUBSET Nat] /\ outside'.late = late
    BY <1>1, <1>7 DEF OutsideWrites
  <1>9. ASSUME NEW d \in PatchCalls PROVE JobInv(calls[d], files, inodes', late)
    <2>1. PICK e \in Jobs : e = calls[d] /\ JobInv(e, files, inodes, outside.late)
      BY <1>1
    <2>2. Own(e, files, late)
      BY <1>7, <2>1 DEF JobInv, Own
    <2>3. Looked(e, files, inodes', late)
      <3>. SUFFICES ASSUME e.pc = "act"
                    PROVE  files[e.patch[e.next].name] \in {0} \cup late
                           \/ IdOf(files[e.patch[e.next].name], inodes') = e.base[e.next]
        BY DEF Looked
      <3>1. e.next \in ChangesOf(e.patch) /\ e.patch[e.next].name \in Names
        BY <2>1, JobFields DEF JobInv, Progress, ChangesOf
      <3>2. PICK m \in Names : m = e.patch[e.next].name
        BY <3>1
      <3>3. files[m] \in {0} \cup outside.late \/ IdOf(files[m], inodes) = e.base[e.next]
        BY <2>1, <3>2 DEF JobInv, Looked
      <3>4. CASE files[m] = i
        <4>1. m = n
          BY <1>6, <3>4
        <4>2. d \in Working /\ e.next \in LastLook(d) /\ Target(d, e.next) = n
          BY <2>1, <3>1, <3>2, <4>1 DEF Working, LastLook, Changes, ChangesOf, Job, Target
        <4>3. TooLate(n)
          BY <4>2 DEF TooLate
        <4>. QED
          BY <1>7, <3>2, <3>4, <4>3
      <3>5. CASE files[m] # i
        <4>1. files[m] = 0 \/ files[m] \in 1..Len(inodes)
          BY <1>2
        <4>2. files[m] # 0 => IdOf(files[m], inodes') = IdOf(files[m], inodes)
          BY <1>4, <3>5, <4>1 DEF IdOf
        <4>. QED
          BY <1>7, <3>2, <3>3, <4>2
      <3>. QED
        BY <3>4, <3>5
    <2>. QED
      BY <2>1, <2>2, <2>3 DEF JobInv
  <1>10. Homes(files, inodes', calls)
    BY <1>1, <1>4 DEF Homes
  <1>. QED
    BY <1>1, <1>4, <1>8, <1>9, <1>10 DEF CommitInv, CommitType

-----------------------------------------------------------------------------
LEMMA InitCommit == CommitInit => CommitInv
  <1>. SUFFICES ASSUME CommitInit PROVE CommitInv
    OBVIOUS
  <1>1. Idle \in Jobs
    BY DEF Idle, Jobs, JobStates
  <1>2. PICK second \in {0, 2} : files = [n \in Names |-> IF n = "a" THEN 1 ELSE second]
    BY DEF CommitInit
  <1>3. inodes \in Seq(Writes) /\ Len(inodes) = 2
    BY DEF CommitInit, Written, Writes
  <1>4. /\ calls = [c \in PatchCalls |-> Idle] /\ outside = [writes |-> 0, late |-> {}] /\ ~lost
    BY DEF CommitInit
  <1>5. CommitType
    BY <1>1, <1>2, <1>3, <1>4 DEF CommitType
  <1>6. JobInv(Idle, files, inodes, outside.late)
    BY DEF JobInv, Shape, Progress, Placed, Looked, Own, Idle, ChangesOf, Moving, Rising
  <1>7. \A n, i : ~Lives(Idle, n, i)
    BY DEF Lives, Idle
  <1>8. \A i : \A n \in Names : At(i, n, files, calls) => i = files[n]
    BY <1>4, <1>7 DEF At
  <1>9. Homes(files, inodes, calls)
    <2>1. \A n \in Names : files[n] \in 0..2
      BY <1>2
    <2>2. \A m, n \in Names : files[m] = files[n] /\ files[m] # 0 => m = n
      BY <1>2 DEF Names
    <2>. QED
      BY <1>3, <1>8, <2>1, <2>2 DEF Homes
  <1>10. Idle.pc \notin Locked
    BY DEF Idle, Locked, Moving
  <1>. QED
    BY <1>4, <1>5, <1>6, <1>9, <1>10 DEF CommitInv

LEMMA NextCommit == CommitInv /\ [CommitNext]_commitVars => CommitInv'
  <1>. SUFFICES ASSUME CommitInv, [CommitNext]_commitVars PROVE CommitInv'
    OBVIOUS
  <1>1. ASSUME NEW c \in PatchCalls, RevalidatePath(c) \/ RecheckStaged(c) PROVE CommitInv'
    BY <1>1, PassInv DEF RevalidatePath, RecheckStaged
  <1>2. CASE UNCHANGED commitVars
    BY <1>2 DEF commitVars, CommitInv, CommitType
  <1>. QED
    BY <1>1, <1>2, AskInv, PrepareInv, TakeInv, StageInv, LinkInv, LookInv, PutInv, RestoreInv, FinishInv,
       ReplaceInv, RemoveInv, EditInv DEF CommitNext

(* For any calls, patches and moments at which others write: what a patch  *)
(* did not see is never lost, it is in place as a whole or not at all, and *)
(* after a failed roll back every original can be found (commit_changes,   *)
(* rollback_patch_changes).                                                *)
THEOREM PatchAlwaysKeepsFiles == CommitSpec => []PatchKeepsFiles
  <1>1. CommitInv => PatchKeepsFiles
    <2>. SUFFICES ASSUME CommitInv PROVE PatchKeepsFiles
      OBVIOUS
    <2>1. ASSUME NEW c \in PatchCalls, NEW k \in Changes(c), Target(c, k) \notin Job(c).others,
                 k \in DOMAIN Job(c).base
          PROVE  /\ Job(c).pc = "committed" => files[Target(c, k)] = Job(c).stage[k]
                 /\ Job(c).pc = "refused" => files[Target(c, k)] = Job(c).base[k].inode
                 /\ Job(c).pc = "failed" /\ Job(c).base[k] # Missing =>
                        Job(c).base[k].inode \in {files[Target(c, k)]} \cup Job(c).kept
      <3>1. PICK e \in Jobs : e = calls[c] /\ Shape(e) /\ Progress(e) /\ Placed(e, files)
        BY CallAt DEF JobInv
      <3>2. k \in ChangesOf(e.patch) \cap DOMAIN e.base /\ e.patch[k].name \notin e.others
        BY <2>1, <3>1 DEF Job, Changes, ChangesOf, Target
      <3>3. IF k \in InPlace(e) THEN files[e.patch[k].name] = e.stage[k]
            ELSE \/ files[e.patch[k].name] = e.base[k].inode
                 \/ k \in DOMAIN e.backup /\ Spare(e, k) \in e.kept
        BY <3>1, <3>2 DEF Placed
      <3>4. e.pc = "committed" => files[e.patch[k].name] = e.stage[k]
        BY <3>1, <3>2, <3>3 DEF Progress
      <3>5. e.pc \in {"refused", "failed"} => k \notin InPlace(e)
        BY <3>1 DEF Progress, InPlace, ToSet, Moving
      <3>6. e.pc = "refused" => files[e.patch[k].name] = e.base[k].inode
        BY <3>1, <3>3, <3>5 DEF Progress
      <3>7. ASSUME e.pc = "failed", e.base[k] # Missing PROVE e.base[k].inode \in {files[e.patch[k].name]} \cup e.kept
        <4>1. e.base[k].inode # 0 /\ (k \in DOMAIN e.backup => e.backup[k] = e.base[k].inode)
          BY <3>1, <3>2, <3>7 DEF Shape
        <4>. QED
          BY <3>3, <3>5, <3>7, <4>1 DEF Spare
      <3>. QED
        BY <3>1, <3>4, <3>6, <3>7 DEF Job, Target
    <2>2. ASSUME NEW c \in PatchCalls, NEW k \in Changes(c), Job(c).pc \in {"committed", "failed"}
          PROVE  k \in DOMAIN Job(c).base
      <3>1. PICK e \in Jobs : e = calls[c] /\ Shape(e)
        BY CallAt
      <3>. QED
        BY <2>2, <3>1, JobFields DEF Job, Changes, Shape
    <2>3. AllOrNothing
      BY <2>1, <2>2 DEF AllOrNothing
    <2>4. OriginalsRecoverable
      BY <2>1, <2>2 DEF OriginalsRecoverable
    <2>5. NothingUnseenLost
      BY DEF CommitInv, NothingUnseenLost
    <2>. QED
      BY <2>3, <2>4, <2>5 DEF PatchKeepsFiles
  <1>. QED
    BY <1>1, InitCommit, NextCommit, PTL DEF CommitSpec

(***************************************************************************)
(* The sandbox.                                                            *)
(***************************************************************************)

(* The names of directories, those of the model among them, and paths.     *)
PathNames ==
    STRING \cup {"usr", "etc", "home", "opt", "srv", "tmp", "run", "workspace", "u", "project", "state", "tool",
                "product", "kit", "wrappers", "resolve", "latex", "bin", "re-ctm", "nowhere"}
HostPaths == Seq(PathNames)

LEMMA Below ==
    ASSUME NEW p \in HostPaths, NEW n \in PathNames
    PROVE  /\ Append(p, n) \in HostPaths /\ Len(Append(p, n)) = Len(p) + 1 /\ Append(p, n)[Len(p) + 1] = n
           /\ \A i \in 1..Len(p) : Append(p, n)[i] = p[i]
           /\ p \o <<n>> = Append(p, n)
  BY AppendProperties, AppendIsConcat DEF HostPaths

(* How a path begins.                                                      *)
Starts1(p, a) == p \in HostPaths /\ Len(p) = 1 /\ p[1] = a
Starts2(p, a, b) == p \in HostPaths /\ Len(p) = 2 /\ p[1] = a /\ p[2] = b
Starts3(p, a, b, c) == p \in HostPaths /\ Len(p) = 3 /\ p[1] = a /\ p[2] = b /\ p[3] = c

LEMMA TopPaths ==
    ASSUME NEW n \in PathNames
    PROVE  Starts1(<<n>>, n)
  BY DEF Starts1, HostPaths

LEMMA LowerPaths ==
    ASSUME NEW n \in PathNames, NEW m \in PathNames
    PROVE  Starts2(<<n, m>>, n, m)
  BY DEF Starts2, HostPaths

LEMMA NextPaths ==
    ASSUME NEW n \in PathNames, NEW p \in HostPaths, NEW a, NEW b
    PROVE  /\ Starts1(p, a) => Starts2(Append(p, n), a, n)
           /\ Starts2(p, a, b) => Starts3(Append(p, n), a, b, n)
           /\ p \o <<n>> = Append(p, n)
<1> DEFINE q == Append(p, n)
<1>1. /\ q \in HostPaths /\ Len(q) = Len(p) + 1 /\ q[Len(p) + 1] = n /\ p \o <<n>> = q
      /\ \A i \in 1..Len(p) : q[i] = p[i]
  BY Below
<1> HIDE DEF q
<1>2. ASSUME Len(p) = 1 PROVE Len(q) = 2 /\ q[2] = n /\ q[1] = p[1]  BY <1>1, <1>2
<1>3. ASSUME Len(p) = 2 PROVE Len(q) = 3 /\ q[3] = n /\ q[1] = p[1] /\ q[2] = p[2]  BY <1>1, <1>3
<1> QED BY <1>1, <1>2, <1>3 DEF Starts1, Starts2, Starts3, q

LEMMA DirectoryNames ==
    /\ <<>> \in HostPaths /\ Len(<<>>) = 0
    /\ Starts1(<<"usr">>, "usr") /\ Starts1(<<"etc">>, "etc") /\ Starts1(<<"home">>, "home")
    /\ Starts1(<<"opt">>, "opt") /\ Starts1(<<"srv">>, "srv") /\ Starts1(<<"tmp">>, "tmp")
    /\ Starts1(<<"run">>, "run") /\ Starts1(<<"workspace">>, "workspace")
    /\ Starts1(Nowhere, "nowhere") /\ Starts2(<<"home", "re-ctm">>, "home", "re-ctm")
    /\ Starts2(UserHome, "home", "u") /\ Starts3(Workspace, "home", "u", "project")
    /\ Starts3(State, "home", "u", "state") /\ Starts3(Tool, "home", "u", "tool")
    /\ Starts2(Product, "opt", "product") /\ Starts2(Kit, "workspace", "kit")
    /\ Starts2(WrapperDir, "srv", "wrappers") /\ Starts2(Resolver, "run", "resolve")
    /\ Starts2(Scratch, "tmp", "latex") /\ Starts2(SystemState, "usr", "state")
    /\ Starts2(Bin(<<"usr">>), "usr", "bin") /\ Starts3(Bin(UserHome), "home", "u", "bin")
    /\ Starts3(Bin(Product), "opt", "product", "bin")
    /\ Bin(Tool) \in HostPaths /\ Len(Bin(Tool)) = 4
    /\ Bin(Tool)[1] = "home" /\ Bin(Tool)[2] = "u" /\ Bin(Tool)[3] = "tool" /\ Bin(Tool)[4] = "bin"
<1> DEFINE Words == {"usr", "etc", "home", "opt", "srv", "tmp", "run", "workspace", "u", "project", "state", "tool",
                "product", "kit", "wrappers", "resolve", "latex", "bin", "re-ctm", "nowhere"}
<1>0. Words \subseteq PathNames  BY DEF PathNames
<1>1. <<>> \in HostPaths /\ Len(<<>>) = 0  BY EmptySeq DEF HostPaths
<1>2. \A n \in Words : Starts1(<<n>>, n)  BY <1>0, TopPaths
<1>3. \A n, m \in Words : Starts2(<<n, m>>, n, m)  BY <1>0, LowerPaths
<1>4. Starts2(UserHome, "home", "u")  BY <1>3 DEF UserHome
<1>5. ASSUME NEW n \in Words PROVE Starts3(UserHome \o <<n>>, "home", "u", n) /\ Starts3(Append(UserHome, n), "home", "u", n)
  <2>1. n \in PathNames /\ UserHome \in HostPaths  BY <1>0, <1>4 DEF Starts2
  <2> HIDE DEF Words
  <2> QED BY <2>1, <1>4, NextPaths
<1>6. Starts3(Workspace, "home", "u", "project") /\ Starts3(State, "home", "u", "state") /\ Starts3(Tool, "home", "u", "tool")
  BY <1>5 DEF Workspace, State, Tool
<1>7. /\ Starts2(Product, "opt", "product") /\ Starts2(Kit, "workspace", "kit")
      /\ Starts2(WrapperDir, "srv", "wrappers") /\ Starts2(Resolver, "run", "resolve")
      /\ Starts2(Scratch, "tmp", "latex") /\ Starts2(SystemState, "usr", "state")
      /\ Starts2(<<"home", "re-ctm">>, "home", "re-ctm")
  BY <1>3 DEF Product, Kit, WrapperDir, Resolver, Scratch, SystemState
<1>8. "bin" \in PathNames  BY <1>0
<1>9. Starts2(Bin(<<"usr">>), "usr", "bin")
  <2>1. Starts1(<<"usr">>, "usr") /\ <<"usr">> \in HostPaths  BY <1>2 DEF Starts1
  <2> QED BY <2>1, <1>8, NextPaths DEF Bin
<1>10. Starts3(Bin(UserHome), "home", "u", "bin")  BY <1>5 DEF Bin
<1>11. Starts3(Bin(Product), "opt", "product", "bin")
  <2>1. Product \in HostPaths  BY <1>7 DEF Starts2
  <2> QED BY <2>1, <1>7, <1>8, NextPaths DEF Bin
<1>12. /\ Bin(Tool) \in HostPaths /\ Len(Bin(Tool)) = 4
       /\ Bin(Tool)[1] = "home" /\ Bin(Tool)[2] = "u" /\ Bin(Tool)[3] = "tool" /\ Bin(Tool)[4] = "bin"
  <2> DEFINE q == Append(Tool, "bin")
  <2>1. Tool \in HostPaths /\ Len(Tool) = 3  BY <1>6 DEF Starts3
  <2>2. /\ q \in HostPaths /\ Len(q) = Len(Tool) + 1 /\ q[Len(Tool) + 1] = "bin"
        /\ \A i \in 1..Len(Tool) : q[i] = Tool[i]
    BY <2>1, <1>8, Below
  <2> HIDE DEF q
  <2>3. Len(q) = 4 /\ q[4] = "bin" /\ q[1] = Tool[1] /\ q[2] = Tool[2] /\ q[3] = Tool[3]  BY <2>1, <2>2
  <2> QED BY <2>2, <2>3, <1>6 DEF Bin, Starts3, q
<1>13. Starts1(Nowhere, "nowhere")  BY <1>2 DEF Nowhere
<1>14. /\ Starts1(<<"usr">>, "usr") /\ Starts1(<<"etc">>, "etc") /\ Starts1(<<"home">>, "home")
       /\ Starts1(<<"opt">>, "opt") /\ Starts1(<<"srv">>, "srv") /\ Starts1(<<"tmp">>, "tmp")
       /\ Starts1(<<"run">>, "run") /\ Starts1(<<"workspace">>, "workspace")
  BY <1>2
<1> QED BY <1>1, <1>4, <1>6, <1>7, <1>9, <1>10, <1>11, <1>12, <1>13, <1>14

(* The directories below the workspace's name, and below a movable one.    *)
Shallow(p) == p \in HostPaths /\ (Len(p) = 0 \/ (Len(p) = 1 /\ p[1] # "workspace"))
Aside2(p) == p \in HostPaths /\ Len(p) = 2 /\ p[1] # "workspace" /\ ~(p[1] = "opt" /\ p[2] = "product")
Aside3(p) == /\ p \in HostPaths /\ Len(p) = 3 /\ p[1] # "workspace" /\ p[1] # "opt"
             /\ ~(p[1] = "home" /\ p[2] = "u" /\ p[3] = "tool")

LEMMA DirectoryKinds ==
    ASSUME NEW p \in Directories
    PROVE  \/ Shallow(p) \/ Aside2(p) \/ Aside3(p)
           \/ p \in {<<"workspace">>, Kit, Product, Bin(Product), Tool, Bin(Tool)}
<1>1. \A q \in {<<>>, <<"usr">>, <<"etc">>, <<"home">>, <<"opt">>, <<"srv">>, <<"tmp">>, <<"run">>} : Shallow(q)
  BY DirectoryNames DEF Starts1, Shallow
<1>2. \A q \in {UserHome, WrapperDir, Resolver, Scratch, SystemState, Bin(<<"usr">>)} : Aside2(q)
  BY DirectoryNames DEF Starts2, Aside2
<1>3. \A q \in {Workspace, State, Bin(UserHome)} : Aside3(q)
  BY DirectoryNames DEF Starts3, Aside3
<1> QED BY <1>1, <1>2, <1>3 DEF Directories

LEMMA DirectoryPaths == Directories \subseteq HostPaths
<1>1. \A q \in {<<"workspace">>, Kit, Product, Bin(Product), Tool, Bin(Tool)} : q \in HostPaths
  BY DirectoryNames DEF Starts1, Starts2, Starts3
<1> QED BY <1>1, DirectoryKinds DEF Shallow, Aside2, Aside3

(* A path within another agrees with it as far as that goes.               *)
LEMMA WithinAgrees ==
    ASSUME NEW p \in HostPaths, NEW d \in HostPaths
    PROVE  Within(p, d) <=> Len(d) <= Len(p) /\ \A i \in 1..Len(d) : p[i] = d[i]
<1>1. Len(p) \in Nat /\ Len(d) \in Nat  BY LenProperties DEF HostPaths
<1>2. SubSeq(d, 1, Len(d)) = d  BY SubSeqFull DEF HostPaths
<1>3. ASSUME Len(d) <= Len(p)
      PROVE  SubSeq(p, 1, Len(d)) \in HostPaths /\ Len(SubSeq(p, 1, Len(d))) = Len(d) /\ \A i \in 1..Len(d) : SubSeq(p, 1, Len(d))[i] = p[i]
  BY <1>1, <1>3, SubSeqProperties DEF HostPaths
<1>4. ASSUME Len(d) <= Len(p), \A i \in 1..Len(d) : p[i] = d[i] PROVE SubSeq(p, 1, Len(d)) = d
  BY <1>1, <1>3, <1>4, SeqEqual DEF HostPaths
<1> QED BY <1>1, <1>2, <1>3, <1>4 DEF Within, IsPrefix

LEMMA WithinOrder ==
    ASSUME NEW p \in HostPaths, NEW d \in HostPaths, NEW e \in HostPaths
    PROVE  Within(p, p) /\ (Within(p, d) /\ Within(d, e) => Within(p, e))
<1>1. Len(p) \in Nat /\ Len(d) \in Nat /\ Len(e) \in Nat  BY LenProperties DEF HostPaths
<1> QED BY <1>1, WithinAgrees

(* A path is where it is within what is above it.                          *)
LEMMA Rejoined ==
    ASSUME NEW p \in HostPaths, NEW d \in HostPaths, Within(p, d)
    PROVE  d \o SubSeq(p, Len(d) + 1, Len(p)) = p
<1>1. Len(p) \in Nat /\ Len(d) \in Nat  BY LenProperties DEF HostPaths
<1>2. Len(d) <= Len(p) /\ \A i \in 1..Len(d) : p[i] = d[i]  BY WithinAgrees
<1>3. /\ SubSeq(p, Len(d) + 1, Len(p)) \in HostPaths
      /\ Len(SubSeq(p, Len(d) + 1, Len(p))) = Len(p) - Len(d)
      /\ \A i \in 1..(Len(p) - Len(d)) : SubSeq(p, Len(d) + 1, Len(p))[i] = p[Len(d) + i]
  <2>1. CASE Len(d) < Len(p)
    BY <1>1, <1>2, <2>1, SubSeqProperties DEF HostPaths
  <2>2. CASE Len(d) = Len(p)
    <3>1. SubSeq(p, Len(d) + 1, Len(p)) = <<>>  BY <1>1, <2>2, SubSeqEmpty DEF HostPaths
    <3> QED BY <3>1, <2>2, <1>1, EmptySeq DEF HostPaths
  <2> QED BY <1>1, <1>2, <2>1, <2>2
<1> DEFINE tail == SubSeq(p, Len(d) + 1, Len(p))
<1> HIDE DEF tail
<1>4. tail \in HostPaths /\ Len(tail) = Len(p) - Len(d) /\ \A i \in 1..(Len(p) - Len(d)) : tail[i] = p[Len(d) + i]
  BY <1>3 DEF tail
<1>5. /\ d \o tail \in HostPaths /\ Len(d \o tail) = Len(p)
      /\ \A i \in 1..Len(p) : (d \o tail)[i] = IF i <= Len(d) THEN d[i] ELSE tail[i - Len(d)]
  BY <1>1, <1>2, <1>4, ConcatProperties DEF HostPaths
<1>6. ASSUME NEW i \in 1..Len(p) PROVE (d \o tail)[i] = p[i]
  <2>1. CASE i <= Len(d)
    <3>1. i \in 1..Len(d)  BY <2>1, <1>1
    <3> QED BY <2>1, <3>1, <1>2, <1>5
  <2>2. CASE ~(i <= Len(d))
    <3> DEFINE k == i - Len(d)
    <3>1. k \in 1..(Len(p) - Len(d)) /\ Len(d) + k = i  BY <2>2, <1>1
    <3>2. (d \o tail)[i] = tail[k]  BY <2>2, <1>5
    <3> HIDE DEF k
    <3>3. tail[k] = p[Len(d) + k]  BY <3>1, <1>4
    <3> QED BY <3>1, <3>2, <3>3
  <2> QED BY <2>1, <2>2
<1>7. d \o tail = p  BY <1>1, <1>5, <1>6, SeqEqual DEF HostPaths
<1> QED BY <1>7 DEF tail

-----------------------------------------------------------------------------
(* What others do to the host: a movable directory is there, gone, or a    *)
(* link to one that is none.                                               *)
HostOK(h) ==
    /\ h \in [Movable -> HostPaths]
    /\ \A q \in Movable : h[q] \in {q, Nowhere, UserHome, State, WrapperDir}

Still(h) == \A q \in Movable : h[q] = q

LEMMA MovableApart ==
    ASSUME NEW p \in HostPaths
    PROVE  /\ Within(p, Tool) <=> Len(p) >= 3 /\ p[1] = "home" /\ p[2] = "u" /\ p[3] = "tool"
           /\ Within(p, Product) <=> Len(p) >= 2 /\ p[1] = "opt" /\ p[2] = "product"
           /\ ~(Within(p, Tool) /\ Within(p, Product))
<1>1. Starts3(Tool, "home", "u", "tool") /\ Starts2(Product, "opt", "product")  BY DirectoryNames
<1>2. Len(p) \in Nat  BY LenProperties DEF HostPaths
<1>3. Within(p, Tool) <=> Len(p) >= 3 /\ p[1] = "home" /\ p[2] = "u" /\ p[3] = "tool"
  <2>1. Tool \in HostPaths /\ Len(Tool) = 3  BY <1>1 DEF Starts3
  <2>2. Within(p, Tool) <=> 3 <= Len(p) /\ \A i \in 1..3 : p[i] = Tool[i]  BY <2>1, WithinAgrees
  <2>3. (\A i \in 1..3 : p[i] = Tool[i]) <=> p[1] = Tool[1] /\ p[2] = Tool[2] /\ p[3] = Tool[3]  OBVIOUS
  <2> QED BY <2>2, <2>3, <1>1, <1>2 DEF Starts3
<1>4. Within(p, Product) <=> Len(p) >= 2 /\ p[1] = "opt" /\ p[2] = "product"
  <2>1. Product \in HostPaths /\ Len(Product) = 2  BY <1>1 DEF Starts2
  <2>2. Within(p, Product) <=> 2 <= Len(p) /\ \A i \in 1..2 : p[i] = Product[i]  BY <2>1, WithinAgrees
  <2>3. (\A i \in 1..2 : p[i] = Product[i]) <=> p[1] = Product[1] /\ p[2] = Product[2]  OBVIOUS
  <2> QED BY <2>2, <2>3, <1>1, <1>2 DEF Starts2
<1> QED BY <1>3, <1>4

(* What is within no movable directory, or one that is in its place, is    *)
(* where its path says; what is within a link is there or nowhere.         *)
LEMMA RealOf ==
    ASSUME NEW h, HostOK(h), NEW p \in HostPaths
    PROVE  /\ ~Within(p, Tool) /\ ~Within(p, Product) => Real(h, p) = p
           /\ \A q \in Movable : Within(p, q) =>
                Real(h, p) = IF h[q] = q THEN p ELSE IF h[q] = Nowhere THEN Nowhere
                             ELSE h[q] \o SubSeq(p, Len(q) + 1, Len(p))
<1>1. ~Within(p, Tool) /\ ~Within(p, Product) => Real(h, p) = p  BY DEF Real, Movable
<1>2. ASSUME NEW q \in Movable, Within(p, q)
      PROVE  Real(h, p) = IF h[q] = q THEN p ELSE IF h[q] = Nowhere THEN Nowhere
                          ELSE h[q] \o SubSeq(p, Len(q) + 1, Len(p))
  <2>1. \A r \in Movable : Within(p, r) => r = q  BY <1>2, MovableApart DEF Movable
  <2>2. (CHOOSE r \in Movable : Within(p, r)) = q  BY <1>2, <2>1
  <2> QED BY <2>1, <2>2, <1>2 DEF Real
<1> QED BY <1>1, <1>2

LEMMA RealStill ==
    ASSUME NEW h, Still(h), NEW p
    PROVE  Real(h, p) = p
  BY DEF Still, Real

(* A directory that is looked up is found in one that is no link, whose    *)
(* path leads to itself.                                                   *)
LEMMA RealDirectories ==
    ASSUME NEW h, HostOK(h), NEW d \in Directories, IsDir(h, d)
    PROVE  /\ Real(h, d) \in Directories /\ Real(h, Real(h, d)) = Real(h, d)
           /\ Real(h, d) = Kit => d = Kit
<1> DEFINE p == Real(h, d)
<1>0. p \in Directories /\ d \in HostPaths /\ p \in HostPaths  BY DirectoryPaths DEF IsDir
<1>1. CASE p = d  BY <1>0, <1>1
<1>2. CASE p # d
  <2>1. PICK q \in Movable : Within(d, q) /\ h[q] # q  BY <1>2 DEF Real
  <2>2. Nowhere \notin Directories
    <3>1. Starts1(Nowhere, "nowhere")  BY DirectoryNames
    <3>2. Nowhere \in Directories => FALSE
      <4> SUFFICES ASSUME Nowhere \in Directories PROVE FALSE  OBVIOUS
      <4>1. \/ Shallow(Nowhere) \/ Aside2(Nowhere) \/ Aside3(Nowhere)
            \/ Nowhere \in {<<"workspace">>, Kit, Product, Bin(Product), Tool, Bin(Tool)}
        BY DirectoryKinds
      <4> QED BY DirectoryNames DEF Directories, Starts1, Starts2, Starts3
    <3> QED BY <3>2
  <2>3. h[q] # Nowhere /\ p = h[q] \o SubSeq(d, Len(q) + 1, Len(d))
    <3>1. p = IF h[q] = q THEN d ELSE IF h[q] = Nowhere THEN Nowhere ELSE h[q] \o SubSeq(d, Len(q) + 1, Len(d))
      BY <2>1, <1>0, RealOf
    <3> QED BY <3>1, <2>1, <2>2, <1>0
  <2>4. h[q] \in {UserHome, State, WrapperDir}  BY <2>1, <2>3 DEF HostOK
  <2>5. /\ p[1] \in {"home", "srv"} /\ p[1] # "workspace"
        /\ ~Within(p, Tool) /\ ~Within(p, Product)
    <3> DEFINE a == h[q]
               s == SubSeq(d, Len(q) + 1, Len(d))
    <3>1. q \in HostPaths /\ Len(q) \in Nat /\ Len(d) \in Nat /\ Len(q) <= Len(d)
      <4>1. q \in HostPaths  BY DirectoryNames DEF Movable, Starts2, Starts3
      <4>2. Len(q) <= Len(d)  BY <4>1, <1>0, <2>1, WithinAgrees
      <4> QED BY <4>1, <4>2, <1>0, LenProperties DEF HostPaths
    <3>2. Len(d) <= Len(q) + 1 /\ (Len(d) = Len(q) + 1 => d[Len(q) + 1] = "bin")
      <4>1. CASE q = Tool
        <5>1. Len(d) >= 3 /\ d[1] = "home" /\ d[2] = "u" /\ d[3] = "tool"  BY <4>1, <2>1, <1>0, MovableApart
        <5>2. ~Shallow(d) /\ ~Aside2(d) /\ ~Aside3(d)  BY <5>1 DEF Shallow, Aside2, Aside3
        <5>3. d \in {Tool, Bin(Tool)}
          BY <5>1, <5>2, DirectoryKinds, DirectoryNames DEF Starts1, Starts2, Starts3
        <5>4. Len(q) = 3 /\ (Len(d) = 3 \/ Len(d) = 4) /\ (Len(d) = 4 => d[4] = "bin")
          BY <5>3, <4>1, DirectoryNames DEF Starts3
        <5> DEFINE k == Len(q)
                   l == Len(d)
        <5>5. k + 1 = 4 /\ l <= 4
          <6>1. k = 4 - 1 /\ (l = 4 - 1 \/ l = 4)  BY <5>4
          <6> HIDE DEF k, l
          <6> QED BY <6>1
        <5>6. Len(d) <= Len(q) + 1  BY <3>1, <5>5
        <5>7. d[Len(q) + 1] = d[4]  BY <5>5
        <5> QED BY <5>4, <5>5, <5>6, <5>7
      <4>2. CASE q = Product
        <5>1. Len(d) >= 2 /\ d[1] = "opt" /\ d[2] = "product"  BY <4>2, <2>1, <1>0, MovableApart
        <5>2. ~Shallow(d) /\ ~Aside2(d) /\ ~Aside3(d)  BY <5>1 DEF Shallow, Aside2, Aside3
        <5>3. d \in {Product, Bin(Product)}
          BY <5>1, <5>2, DirectoryKinds, DirectoryNames DEF Starts1, Starts2, Starts3
        <5>4. Len(q) = 2 /\ (Len(d) = 2 \/ Len(d) = 3) /\ (Len(d) = 3 => d[3] = "bin")
          BY <5>3, <4>2, DirectoryNames DEF Starts2, Starts3
        <5> DEFINE k == Len(q)
                   l == Len(d)
        <5>5. k + 1 = 3 /\ l <= 3
          <6>1. k = 3 - 1 /\ (l = 3 - 1 \/ l = 3)  BY <5>4
          <6> HIDE DEF k, l
          <6> QED BY <6>1
        <5>6. Len(d) <= Len(q) + 1  BY <3>1, <5>5
        <5>7. d[Len(q) + 1] = d[3]  BY <5>5
        <5> QED BY <5>4, <5>5, <5>6, <5>7
      <4> QED BY <4>1, <4>2 DEF Movable
    <3>3. s \in HostPaths /\ Len(s) = Len(d) - Len(q) /\ (Len(s) = 1 => s[1] = "bin") /\ Len(s) \in {0, 1}
      <4>1. CASE Len(d) = Len(q)
        <5>1. s = <<>>  BY <4>1, <3>1, <1>0, SubSeqEmpty DEF HostPaths
        <5> HIDE DEF s
        <5> QED BY <5>1, <4>1, <3>1, EmptySeq DEF HostPaths
      <4>2. CASE Len(d) = Len(q) + 1
        <5>1. /\ s \in HostPaths /\ Len(s) = Len(d) - (Len(q) + 1) + 1
              /\ \A i \in 1..(Len(d) - (Len(q) + 1) + 1) : s[i] = d[Len(q) + 1 + i - 1]
          BY <4>2, <3>1, <1>0, SubSeqProperties DEF HostPaths
        <5> HIDE DEF s
        <5>2. Len(s) = 1 /\ s[1] = d[Len(q) + 1]  BY <5>1, <4>2, <3>1
        <5> QED BY <5>1, <5>2, <4>2, <3>1, <3>2
      <4> QED BY <4>1, <4>2, <3>1, <3>2
    <3>4. a \in HostPaths /\ (Starts2(a, "home", "u") \/ Starts3(a, "home", "u", "state") \/ Starts2(a, "srv", "wrappers"))
      BY <2>4, DirectoryNames DEF Starts2, Starts3
    <3> HIDE DEF s, a
    <3>5. p = a \o s  BY <2>3 DEF a, s
    <3>6. Len(a) \in {2, 3}  BY <3>4 DEF Starts2, Starts3
    <3>7. /\ Len(p) = Len(a) + Len(s)
          /\ \A i \in 1..(Len(a) + Len(s)) : p[i] = IF i <= Len(a) THEN a[i] ELSE s[i - Len(a)]
      <4>1. /\ Len(a \o s) = Len(a) + Len(s)
            /\ \A i \in 1..(Len(a) + Len(s)) : (a \o s)[i] = IF i <= Len(a) THEN a[i] ELSE s[i - Len(a)]
        BY <3>3, <3>4, ConcatProperties DEF HostPaths
      <4> HIDE DEF p
      <4> QED BY <4>1, <3>5
    <3> HIDE DEF p
    <3>8. p[1] = a[1] /\ p[2] = a[2] /\ (Len(a) = 3 => p[3] = a[3]) /\ (Len(a) = 2 /\ Len(s) = 1 => p[3] = s[1])
          /\ (Len(p) >= 3 => Len(a) = 3 \/ Len(s) = 1)
      BY <3>3, <3>6, <3>7
    <3>9. p[1] \in {"home", "srv"} /\ ~(Len(p) >= 3 /\ p[1] = "home" /\ p[3] = "tool")
      BY <3>3, <3>4, <3>8 DEF Starts2, Starts3
    <3> QED BY <3>9, <1>0, MovableApart
  <2>6. Real(h, p) = p  BY <2>5, <1>0, RealOf
  <2>7. Starts2(Kit, "workspace", "kit")  BY DirectoryNames
  <2> QED BY <1>0, <2>5, <2>6, <2>7 DEF Starts2
<1> QED BY <1>1, <1>2

-----------------------------------------------------------------------------
(* A set put in a sequence is all there.                                   *)
LEMMA AllInSequence ==
    ASSUME NEW S, IsFiniteSet(S)
    PROVE  /\ Cardinality(S) \in Nat
           /\ SetToSeq(S) \in [1..Cardinality(S) -> S]
           /\ \A x \in S : \E i \in 1..Cardinality(S) : SetToSeq(S)[i] = x
<1> DEFINE k == Cardinality(S)
           f == SetToSeq(S)
<1>1. k \in Nat /\ ExistsBijection(1..k, S)  BY FS_CardinalityType
<1>2. \E g \in [1..k -> S] : IsInjective(g)  BY <1>1 DEF ExistsBijection, Bijection, Injection
<1>3. f \in [1..k -> S] /\ IsInjective(f)  BY <1>2 DEF SetToSeq
<1>4. f \in Injection(1..k, S)  BY <1>3 DEF Injection
<1>5. IsFiniteSet(1..k) /\ Cardinality(1..k) = k  BY <1>1, FS_Interval
<1>6. f \in Surjection(1..k, S)  BY <1>4, <1>5, FS_Injection
<1> QED BY <1>1, <1>3, <1>6 DEF Surjection

-----------------------------------------------------------------------------
(* The mounts of a plan, in their order.                                   *)
MountRows == [at : HostPaths, kind : {"read", "write", "fresh"}, from : HostPaths]
Freshes == {Fresh(<<"tmp">>), Fresh(<<"home", "re-ctm">>)}
ReadOnly(R) == {Bound(r) : r \in R}
Via(shared) == IF shared /\ setup.resolver = "runtime" THEN {Resolver} ELSE {}

(* The first mounts: the fresh directories are at f or before it, and the  *)
(* directories R are bound after them.                                     *)
PartOK(ms, f, R) ==
    /\ ms \in Seq(MountRows) /\ Len(ms) \in Nat /\ f \in Nat
    /\ \A i \in 1..Len(ms) : ms[i] \in ReadOnly(SystemReadRoots \cup R) \/ (ms[i] \in Freshes /\ i <= f)
    /\ \A s \in SystemReadRoots : \E j \in 1..Len(ms) : ms[j] = Bound(s)
    /\ \A r \in R : \E j \in 1..Len(ms) : ms[j] = Bound(r) /\ f < j

LEMMA Pieces ==
    ASSUME NEW T, NEW s \in Seq(T), NEW t \in Seq(T)
    PROVE  /\ s \o t \in Seq(T) /\ Len(s) \in Nat /\ Len(t) \in Nat /\ Len(s \o t) = Len(s) + Len(t)
           /\ \A i \in 1..Len(s) : (s \o t)[i] = s[i]
           /\ \A i \in 1..Len(t) : (s \o t)[Len(s) + i] = t[i]
           /\ \A i \in 1..Len(s \o t) : i \in 1..Len(s) \/ \E j \in 1..Len(t) : i = Len(s) + j
<1> DEFINE u == s \o t
<1>1. Len(s) \in Nat /\ Len(t) \in Nat  BY LenProperties
<1>2. /\ u \in Seq(T) /\ Len(u) = Len(s) + Len(t)
      /\ \A i \in 1..(Len(s) + Len(t)) : u[i] = IF i <= Len(s) THEN s[i] ELSE t[i - Len(s)]
  BY ConcatProperties
<1> HIDE DEF u
<1>3. \A i \in 1..Len(s) : u[i] = s[i]  BY <1>1, <1>2
<1>4. ASSUME NEW i \in 1..Len(t) PROVE u[Len(s) + i] = t[i]
  <2>1. Len(s) + i \in 1..(Len(s) + Len(t)) /\ ~(Len(s) + i <= Len(s)) /\ (Len(s) + i) - Len(s) = i  BY <1>1
  <2> QED BY <2>1, <1>2
<1>5. ASSUME NEW i \in 1..Len(u), i \notin 1..Len(s) PROVE \E j \in 1..Len(t) : i = Len(s) + j
  <2>1. i - Len(s) \in 1..Len(t) /\ i = Len(s) + (i - Len(s))  BY <1>1, <1>2, <1>5
  <2> QED BY <2>1
<1> QED BY <1>1, <1>2, <1>3, <1>4, <1>5 DEF u

LEMMA PartExtends ==
    ASSUME NEW ms, NEW f, NEW R, PartOK(ms, f, R), f <= Len(ms), NEW S, NEW t \in Seq(MountRows),
           \A i \in 1..Len(t) : t[i] \in ReadOnly(S),
           \A r \in S : \E i \in 1..Len(t) : t[i] = Bound(r)
    PROVE  PartOK(ms \o t, f, R \cup S) /\ f <= Len(ms \o t)
<1> DEFINE u == ms \o t
<1>1. /\ u \in Seq(MountRows) /\ Len(ms) \in Nat /\ Len(t) \in Nat /\ Len(u) = Len(ms) + Len(t)
      /\ \A i \in 1..Len(ms) : u[i] = ms[i]
      /\ \A i \in 1..Len(t) : u[Len(ms) + i] = t[i]
      /\ \A i \in 1..Len(u) : i \in 1..Len(ms) \/ \E j \in 1..Len(t) : i = Len(ms) + j
  BY Pieces DEF PartOK
<1> HIDE DEF u
<1>0. f \in Nat  BY DEF PartOK
<1>2. ReadOnly(SystemReadRoots \cup R) \subseteq ReadOnly(SystemReadRoots \cup (R \cup S)) /\ ReadOnly(S) \subseteq ReadOnly(SystemReadRoots \cup (R \cup S))
  BY DEF ReadOnly
<1>3. ASSUME NEW i \in 1..Len(u)
      PROVE  u[i] \in ReadOnly(SystemReadRoots \cup (R \cup S)) \/ (u[i] \in Freshes /\ i <= f)
  <2>1. CASE i \in 1..Len(ms)  BY <2>1, <1>1, <1>2 DEF PartOK
  <2>2. CASE \E j \in 1..Len(t) : i = Len(ms) + j
    <3>1. PICK j \in 1..Len(t) : i = Len(ms) + j  BY <2>2
    <3>2. u[i] = t[j] /\ t[j] \in ReadOnly(S)  BY <3>1, <1>1
    <3> QED BY <3>2, <1>2
  <2> QED BY <2>1, <2>2, <1>1
<1>4. ASSUME NEW s \in SystemReadRoots PROVE \E j \in 1..Len(u) : u[j] = Bound(s)
  <2>1. PICK j \in 1..Len(ms) : ms[j] = Bound(s)  BY DEF PartOK
  <2>2. j \in 1..Len(u) /\ u[j] = Bound(s)  BY <2>1, <1>1
  <2> QED BY <2>2
<1>5. ASSUME NEW r \in R \cup S PROVE \E j \in 1..Len(u) : u[j] = Bound(r) /\ f < j
  <2>1. CASE r \in R
    <3>1. PICK j \in 1..Len(ms) : ms[j] = Bound(r) /\ f < j  BY <2>1 DEF PartOK
    <3>2. j \in 1..Len(u) /\ u[j] = Bound(r)  BY <3>1, <1>1
    <3> QED BY <3>1, <3>2
  <2>2. CASE r \in S
    <3>1. PICK j \in 1..Len(t) : t[j] = Bound(r)  BY <2>2
    <3>2. Len(ms) + j \in 1..Len(u) /\ u[Len(ms) + j] = Bound(r) /\ f < Len(ms) + j  BY <3>1, <1>0, <1>1
    <3> QED BY <3>2
  <2> QED BY <2>1, <2>2
<1>6. f <= Len(u)  BY <1>0, <1>1
<1>7. PartOK(u, f, R \cup S)
  <2>1. Len(u) \in Nat /\ u \in Seq(MountRows)  BY <1>1
  <2> DEFINE Q == R \cup S
  <2>2. \A i \in 1..Len(u) : u[i] \in ReadOnly(SystemReadRoots \cup Q) \/ (u[i] \in Freshes /\ i <= f)  BY <1>3
  <2>3. \A r \in Q : \E j \in 1..Len(u) : u[j] = Bound(r) /\ f < j  BY <1>5
  <2> HIDE DEF Q
  <2>4. PartOK(u, f, Q)  BY <1>0, <1>4, <2>1, <2>2, <2>3 DEF PartOK
  <2> QED BY <2>4 DEF Q
<1> QED BY <1>6, <1>7 DEF u

MountsOK(ms, R, w) ==
    /\ ms \in Seq(MountRows) /\ Len(ms) \in Nat \ {0}
    /\ ms[Len(ms)] = Mount(<<"workspace">>, "write", w)
    /\ \A i \in 1..(Len(ms) - 1) : ms[i] \in ReadOnly(SystemReadRoots \cup R) \cup Freshes
    /\ \A s \in SystemReadRoots : \E j \in 1..(Len(ms) - 1) : ms[j] = Bound(s)
    /\ \A r \in R : \E j \in 1..(Len(ms) - 1) :
          ms[j] = Bound(r) /\ \A i \in 1..(Len(ms) - 1) : ms[i] \in Freshes => i < j

LEMMA RowTypes ==
    ASSUME NEW p \in HostPaths
    PROVE  /\ Bound(p) \in MountRows /\ Fresh(p) \in MountRows
           /\ \A w \in HostPaths : Mount(p, "write", w) \in MountRows
           /\ Bound(p) \notin Freshes
           /\ Bound(p).at = p /\ Bound(p).from = p /\ Bound(p).kind = "read"
<1>1. Nowhere \in HostPaths  BY DirectoryNames DEF Starts1
<1> QED BY <1>1 DEF Bound, Fresh, Mount, MountRows, Freshes

(* A set bound one after the other.                                        *)
LEMMA BoundInTurn ==
    ASSUME NEW R, R \subseteq HostPaths, IsFiniteSet(R)
    PROVE  LET t == [i \in 1..Cardinality(R) |-> Bound(SetToSeq(R)[i])]
           IN  /\ t \in Seq(MountRows) /\ Len(t) = Cardinality(R) /\ Cardinality(R) \in Nat
               /\ \A i \in 1..Len(t) : t[i] \in ReadOnly(R)
               /\ \A r \in R : \E i \in 1..Len(t) : t[i] = Bound(r)
<1> DEFINE k == Cardinality(R)
           f == SetToSeq(R)
           t == [i \in 1..k |-> Bound(f[i])]
<1>1. k \in Nat /\ f \in [1..k -> R] /\ \A x \in R : \E i \in 1..k : f[i] = x  BY AllInSequence
<1> HIDE DEF k, f
<1>2. \A i \in 1..k : Bound(f[i]) \in MountRows  BY <1>1, RowTypes
<1>3. t \in [1..k -> MountRows]  BY <1>2
<1>4. t \in Seq(MountRows) /\ Len(t) = k  BY <1>1, <1>3
<1>5. \A i \in 1..k : t[i] = Bound(f[i]) /\ f[i] \in R  BY <1>1
<1> HIDE DEF t
<1>6. \A i \in 1..k : t[i] \in ReadOnly(R)  BY <1>5 DEF ReadOnly
<1>7. \A r \in R : \E i \in 1..k : t[i] = Bound(r)  BY <1>1, <1>5
<1> QED BY <1>1, <1>4, <1>6, <1>7 DEF t, k, f

LEMMA SystemRoots == SystemReadRoots \subseteq HostPaths /\ IsFiniteSet(SystemReadRoots)
<1>1. SystemReadRoots = {<<"usr">>} \cup {<<"etc">>}  BY DEF SystemReadRoots
<1>2. IsFiniteSet({<<"usr">>})  BY FS_Singleton
<1>3. IsFiniteSet(SystemReadRoots)  BY <1>1, <1>2, FS_AddElement
<1> QED BY <1>3, DirectoryNames DEF SystemReadRoots, Starts1

LEMMA MountShape ==
    ASSUME NEW R, R \subseteq HostPaths, IsFiniteSet(R), NEW shared \in BOOLEAN, NEW w \in HostPaths
    PROVE  MountsOK(Mounts(R, shared, w), Via(shared) \cup R, w)
<1> DEFINE A == [i \in 1..Cardinality(SystemReadRoots) |-> Bound(SetToSeq(SystemReadRoots)[i])]
           B == <<Fresh(<<"tmp">>), Fresh(<<"home", "re-ctm">>)>>
           C == IF shared /\ setup.resolver = "runtime" THEN <<Bound(Resolver)>> ELSE <<>>
           D == [i \in 1..Cardinality(R) |-> Bound(SetToSeq(R)[i])]
           last == Mount(<<"workspace">>, "write", w)
           ms == (((A \o B) \o C) \o D) \o <<last>>
<1>0. Mounts(R, shared, w) = ms  BY DEF Mounts
<1>1. /\ A \in Seq(MountRows) /\ Len(A) \in Nat
      /\ \A i \in 1..Len(A) : A[i] \in ReadOnly(SystemReadRoots)
      /\ \A r \in SystemReadRoots : \E i \in 1..Len(A) : A[i] = Bound(r)
  BY SystemRoots, BoundInTurn
<1>2. /\ D \in Seq(MountRows)
      /\ \A i \in 1..Len(D) : D[i] \in ReadOnly(R)
      /\ \A r \in R : \E i \in 1..Len(D) : D[i] = Bound(r)
  BY BoundInTurn
<1>3. B \in Seq(MountRows) /\ Len(B) = 2 /\ \A i \in 1..Len(B) : B[i] \in Freshes
  <2> DEFINE f1 == Fresh(<<"tmp">>)
             f2 == Fresh(<<"home", "re-ctm">>)
  <2>1. f1 \in MountRows /\ f2 \in MountRows  BY DirectoryNames, RowTypes DEF Starts1, Starts2
  <2>2. Freshes = {f1, f2}  BY DEF Freshes
  <2> HIDE DEF f1, f2
  <2>3. <<f1, f2>> \in Seq(MountRows) /\ Len(<<f1, f2>>) = 2  BY <2>1
  <2> QED BY <2>2, <2>3 DEF f1, f2
<1>4. /\ C \in Seq(MountRows)
      /\ \A i \in 1..Len(C) : C[i] \in ReadOnly(Via(shared))
      /\ \A r \in Via(shared) : \E i \in 1..Len(C) : C[i] = Bound(r)
  <2> DEFINE b == Bound(Resolver)
  <2>1. b \in MountRows  BY DirectoryNames, RowTypes DEF Starts2
  <2>2. CASE shared /\ setup.resolver = "runtime"
    <3>1. Via(shared) = {Resolver} /\ ReadOnly(Via(shared)) = {b}  BY <2>2 DEF Via, ReadOnly
    <3>2. C = <<b>>  BY <2>2
    <3> HIDE DEF b, C
    <3>3. <<b>> \in Seq(MountRows) /\ Len(<<b>>) = 1 /\ <<b>>[1] = b  BY <2>1
    <3>4. \A i \in 1..Len(C) : C[i] = b  BY <3>2, <3>3
    <3>5. 1 \in 1..Len(C) /\ C[1] = b  BY <3>2, <3>3
    <3> QED BY <3>1, <3>2, <3>3, <3>4, <3>5 DEF b
  <2>3. CASE ~(shared /\ setup.resolver = "runtime")
    <3>1. Via(shared) = {} /\ C = <<>>  BY <2>3 DEF Via
    <3> HIDE DEF C
    <3> QED BY <3>1, EmptySeq
  <2> QED BY <2>2, <2>3
<1> HIDE DEF A, B, C, D, last
<1> DEFINE f == Len(A) + 2
<1>5. PartOK(A \o B, f, {}) /\ f <= Len(A \o B)
  <2> DEFINE u == A \o B
  <2>1. /\ u \in Seq(MountRows) /\ Len(A) \in Nat /\ Len(B) \in Nat /\ Len(u) = Len(A) + Len(B)
        /\ \A i \in 1..Len(A) : u[i] = A[i]
        /\ \A i \in 1..Len(B) : u[Len(A) + i] = B[i]
        /\ \A i \in 1..Len(u) : i \in 1..Len(A) \/ \E j \in 1..Len(B) : i = Len(A) + j
    BY <1>1, <1>3, Pieces
  <2> HIDE DEF u
  <2>2. ASSUME NEW i \in 1..Len(u)
        PROVE  u[i] \in ReadOnly(SystemReadRoots \cup {}) \/ (u[i] \in Freshes /\ i <= f)
    <3>1. CASE i \in 1..Len(A)
      <4>1. u[i] \in ReadOnly(SystemReadRoots)  BY <3>1, <2>1, <1>1
      <4>2. SystemReadRoots \cup {} = SystemReadRoots  OBVIOUS
      <4> QED BY <4>1, <4>2
    <3>2. CASE \E j \in 1..Len(B) : i = Len(A) + j
      <4>1. PICK j \in 1..Len(B) : i = Len(A) + j  BY <3>2
      <4>2. u[i] \in Freshes  BY <4>1, <2>1, <1>3
      <4>3. i <= f  BY <4>1, <1>1, <1>3
      <4> QED BY <4>2, <4>3
    <3> QED BY <3>1, <3>2, <2>1
  <2>3. ASSUME NEW s \in SystemReadRoots PROVE \E j \in 1..Len(u) : u[j] = Bound(s)
    <3>1. PICK j \in 1..Len(A) : A[j] = Bound(s)  BY <1>1
    <3>2. j \in 1..Len(u) /\ u[j] = Bound(s)  BY <3>1, <2>1
    <3> QED BY <3>2
  <2>4. f \in Nat /\ f <= Len(u) /\ Len(u) \in Nat  BY <2>1, <1>3
  <2> HIDE DEF f
  <2> QED BY <2>1, <2>2, <2>3, <2>4 DEF PartOK, u
<1> HIDE DEF f
<1>6. PartOK((A \o B) \o C, f, {} \cup Via(shared)) /\ f <= Len((A \o B) \o C)
  BY <1>4, <1>5, PartExtends
<1>7. PartOK(((A \o B) \o C) \o D, f, ({} \cup Via(shared)) \cup R)
  BY <1>2, <1>6, PartExtends
<1> DEFINE pre == ((A \o B) \o C) \o D
           S == Via(shared) \cup R
<1>8. PartOK(pre, f, S)
  <2>1. ({} \cup Via(shared)) \cup R = S  OBVIOUS
  <2> QED BY <2>1, <1>7
<1>9. last \in MountRows /\ last \notin Freshes
  BY DirectoryNames, RowTypes DEF last, Starts1, Freshes, Fresh, Mount
<1>10. S \subseteq HostPaths
  BY DirectoryNames DEF Via, Starts2
<1> HIDE DEF pre, S
<1>11. ms = pre \o <<last>>  BY DEF pre
<1>12. ms = Append(pre, last)
  <2>1. pre \in Seq(MountRows)  BY <1>8 DEF PartOK
  <2> QED BY <2>1, <1>9, <1>11, AppendIsConcat
<1> HIDE DEF ms
<1>13. /\ ms \in Seq(MountRows) /\ Len(ms) = Len(pre) + 1 /\ Len(pre) \in Nat
       /\ ms[Len(pre) + 1] = last /\ \A i \in 1..Len(pre) : ms[i] = pre[i]
  <2>1. pre \in Seq(MountRows) /\ Len(pre) \in Nat  BY <1>8 DEF PartOK
  <2> QED BY <2>1, <1>9, <1>12, AppendProperties
<1>14. Len(ms) - 1 = Len(pre) /\ Len(ms) \in Nat \ {0}  BY <1>13
<1>15. \A i \in 1..Len(pre) : ms[i] \in ReadOnly(SystemReadRoots \cup S) \cup Freshes  BY <1>8, <1>13 DEF PartOK
<1>16. \A s \in SystemReadRoots : \E j \in 1..Len(pre) : ms[j] = Bound(s)  BY <1>8, <1>13 DEF PartOK
<1>17. ASSUME NEW r \in S
       PROVE  \E j \in 1..Len(pre) : ms[j] = Bound(r) /\ \A i \in 1..Len(pre) : ms[i] \in Freshes => i < j
  <2>1. PICK j \in 1..Len(pre) : pre[j] = Bound(r) /\ f < j  BY <1>8 DEF PartOK
  <2>2. f \in Nat  BY <1>8 DEF PartOK
  <2>3. ASSUME NEW i \in 1..Len(pre), ms[i] \in Freshes PROVE i < j
    <3>1. \A x \in SystemReadRoots \cup S : Bound(x) \notin Freshes  BY <1>10, SystemRoots, RowTypes
    <3>2. pre[i] \in Freshes /\ pre[i] \notin ReadOnly(SystemReadRoots \cup S)
      BY <3>1, <2>3, <1>13 DEF ReadOnly
    <3>3. i <= f  BY <3>2, <1>8 DEF PartOK
    <3> QED BY <3>3, <2>1, <2>2
  <2> QED BY <2>1, <2>3, <1>13
<1>18. MountsOK(ms, S, w)  BY <1>13, <1>14, <1>15, <1>16, <1>17 DEF MountsOK, last
<1> QED BY <1>0, <1>18 DEF S

-----------------------------------------------------------------------------
(* What is seen through the mounts.                                        *)
LEMMA GreatestIn ==
    ASSUME NEW n \in Nat, NEW N, N \subseteq 1..n, N # {}
    PROVE  \E k \in N : \A m \in N : m <= k
<1> DEFINE D == {n - m : m \in N}
<1>0. \A m \in N : n - m \in Nat /\ m \in Nat  OBVIOUS
<1>1. D \subseteq Nat /\ D # {}
  <2>1. D \subseteq Nat  BY <1>0
  <2>2. PICK m \in N : TRUE  OBVIOUS
  <2>3. n - m \in D  BY <2>2
  <2> QED BY <2>1, <2>3
<1> HIDE DEF D
<1>2. PICK d \in D : \A e \in D : <<e, d>> \notin OpToRel(<, Nat)
  BY <1>1, NatLessThanWellFounded, WFMin
<1>3. OpToRel(<, Nat) = {ss \in Nat \X Nat : ss[1] < ss[2]}  BY DEF OpToRel
<1>4. PICK k \in N : d = n - k  BY <1>2 DEF D
<1>5. ASSUME NEW m \in N, k < m PROVE FALSE
  <2>1. n - m \in D /\ n - m \in Nat /\ d \in Nat /\ n - m < d
    <3>1. n - m \in D  BY <1>5 DEF D
    <3>2. n - m \in Nat /\ m \in Nat /\ k \in Nat  BY <1>0, <1>4, <1>5
    <3>3. n - m < d  BY <3>2, <1>4, <1>5
    <3> QED BY <3>1, <3>2, <3>3, <1>1, <1>2
  <2>2. <<n - m, d>> \in {ss \in Nat \X Nat : ss[1] < ss[2]}  BY <2>1
  <2> QED BY <1>2, <1>3, <2>1, <2>2
<1> QED BY <1>4, <1>5

LastCover(ms, p) == CHOOSE j \in Covering(ms, p) : \A k \in Covering(ms, p) : k <= j

LEMMA LastCoverIs ==
    ASSUME NEW ms \in Seq(MountRows), NEW p, Covering(ms, p) # {}
    PROVE  /\ LastCover(ms, p) \in Covering(ms, p) /\ \A k \in Covering(ms, p) : k <= LastCover(ms, p)
           /\ Covering(ms, p) \subseteq 1..Len(ms) /\ Len(ms) \in Nat
<1>1. Len(ms) \in Nat /\ DOMAIN ms = 1..Len(ms)  BY LenProperties
<1>2. Covering(ms, p) \subseteq 1..Len(ms)  BY <1>1 DEF Covering
<1> DEFINE N == Covering(ms, p)
<1> HIDE DEF N
<1>3. \E k \in N : \A m \in N : m <= k  BY <1>1, <1>2, GreatestIn DEF N
<1> QED BY <1>1, <1>2, <1>3 DEF LastCover, N

LEMMA SeenThrough ==
    ASSUME NEW ms \in Seq(MountRows), NEW p, Covering(ms, p) # {}, NEW h,
           ms[LastCover(ms, p)].kind # "fresh"
    PROVE  LET m == ms[LastCover(ms, p)]
           IN  Inside(h, ms, p) <=> IsDir(h, m.from \o SubSeq(p, Len(m.at) + 1, Len(p)))
  BY DEF Inside, LastCover

(* The mount of the workspace covers what is in it.                        *)
LEMMA WorkspaceCovers ==
    ASSUME NEW ms, NEW R, NEW w \in HostPaths, MountsOK(ms, R, w), NEW p \in HostPaths,
           Within(p, <<"workspace">>), NEW h
    PROVE  Inside(h, ms, p) <=> IsDir(h, w \o SubSeq(p, 2, Len(p)))
<1> DEFINE l == Len(ms)
           m == Mount(<<"workspace">>, "write", w)
<1>1. ms \in Seq(MountRows) /\ l \in Nat \ {0} /\ DOMAIN ms = 1..l /\ ms[l] = m  BY LenProperties DEF MountsOK
<1>2. m.at = <<"workspace">> /\ m.kind = "write" /\ m.from = w  BY DEF Mount
<1> HIDE DEF m, l
<1>3. l \in Covering(ms, p)  BY <1>1, <1>2 DEF Covering
<1>4. LastCover(ms, p) = l  BY <1>1, <1>3, LastCoverIs DEF l
<1>5. Inside(h, ms, p) <=> IsDir(h, w \o SubSeq(p, Len(<<"workspace">>) + 1, Len(p)))
  BY <1>1, <1>2, <1>3, <1>4, SeenThrough
<1>6. Len(<<"workspace">>) + 1 = 2  BY DirectoryNames DEF Starts1
<1> QED BY <1>5, <1>6

(* A directory that no workspace covers is seen where it is when a mount   *)
(* over it is of the system, or follows the fresh ones.                    *)
LEMMA MountedSeen ==
    ASSUME NEW h, NEW R, R \subseteq HostPaths, NEW w \in HostPaths, NEW ms, MountsOK(ms, R, w),
           NEW p \in Directories, Real(h, p) = p, ~Within(p, <<"workspace">>),
           Within(p, <<"usr">>) \/ \E r \in R : Within(p, r)
    PROVE  Inside(h, ms, p)
<1> DEFINE i == LastCover(ms, p)
<1>1. /\ ms \in Seq(MountRows) /\ Len(ms) \in Nat \ {0} /\ DOMAIN ms = 1..Len(ms)
      /\ ms[Len(ms)].at = <<"workspace">> /\ p \in HostPaths
  BY LenProperties, DirectoryPaths DEF MountsOK, Mount
<1>2. ASSUME NEW x \in HostPaths, Within(p, x), NEW j \in 1..(Len(ms) - 1), ms[j] = Bound(x)
      PROVE  j \in Covering(ms, p)
  BY <1>1, <1>2, RowTypes DEF Covering
<1>3. Covering(ms, p) # {}
  <2>1. CASE Within(p, <<"usr">>)
    <3> DEFINE x == <<"usr">>
    <3>1. x \in SystemReadRoots /\ x \in HostPaths  BY DirectoryNames DEF SystemReadRoots, Starts1
    <3>2. Within(p, x)  BY <2>1
    <3> HIDE DEF x
    <3>3. PICK j \in 1..(Len(ms) - 1) : ms[j] = Bound(x)  BY <3>1 DEF MountsOK
    <3> QED BY <3>1, <3>2, <3>3, <1>2
  <2>2. CASE \E r \in R : Within(p, r)
    <3>1. PICK r \in R : Within(p, r)  BY <2>2
    <3>2. PICK j \in 1..(Len(ms) - 1) : ms[j] = Bound(r)  BY DEF MountsOK
    <3> QED BY <3>1, <3>2, <1>2
  <2> QED BY <2>1, <2>2
<1>4. i \in Covering(ms, p) /\ \A k \in Covering(ms, p) : k <= i  BY <1>1, <1>3, LastCoverIs
<1>5. i \in 1..Len(ms) /\ Within(p, ms[i].at)  BY <1>1, <1>4 DEF Covering
<1> HIDE DEF i
<1>6. i \in 1..(Len(ms) - 1)
  <2> DEFINE l == Len(ms)
  <2>1. i # l /\ l \in Nat \ {0} /\ i \in 1..l  BY <1>1, <1>5
  <2> HIDE DEF l
  <2>2. i \in 1..(l - 1)  BY <2>1
  <2> QED BY <2>2 DEF l
<1>7. ms[i] \notin Freshes
  <2> SUFFICES ASSUME ms[i] \in Freshes PROVE FALSE  OBVIOUS
  <2>1. CASE \E r \in R : Within(p, r)
    <3>1. PICK r \in R : Within(p, r)  BY <2>1
    <3>2. PICK j \in 1..(Len(ms) - 1) :
              ms[j] = Bound(r) /\ \A k \in 1..(Len(ms) - 1) : ms[k] \in Freshes => k < j
      BY DEF MountsOK
    <3>3. i < j  BY <1>6, <3>2
    <3>4. j <= i  BY <1>2, <1>4, <3>1, <3>2
    <3> QED BY <3>3, <3>4, <1>1, <1>6
  <2>2. CASE Within(p, <<"usr">>)
    <3>1. Len(p) >= 1 /\ p[1] = "usr"
      <4>1. <<"usr">> \in HostPaths /\ Len(<<"usr">>) = 1 /\ <<"usr">>[1] = "usr"  BY DirectoryNames DEF Starts1
      <4> QED BY <4>1, <1>1, <2>2, WithinAgrees
    <3>2. ms[i].at \in {<<"tmp">>, <<"home", "re-ctm">>}  BY DEF Freshes, Fresh, Mount
    <3>3. ms[i].at \in HostPaths /\ Len(ms[i].at) \in {1, 2} /\ ms[i].at[1] \in {"tmp", "home"}
      BY <3>2, DirectoryNames DEF Starts1, Starts2
    <3>4. 1 \in 1..Len(ms[i].at)  BY <3>3
    <3>5. p[1] = ms[i].at[1]  BY <1>1, <1>5, <3>3, <3>4, WithinAgrees
    <3> QED BY <3>1, <3>3, <3>5
  <2> QED BY <2>1, <2>2
<1>8. PICK x \in SystemReadRoots \cup R : ms[i] = Bound(x)  BY <1>6, <1>7 DEF MountsOK, ReadOnly
<1>9. x \in HostPaths  BY SystemRoots
<1>10. ms[i].at = x /\ ms[i].from = x /\ ms[i].kind = "read"  BY <1>8, <1>9, RowTypes
<1>11. x \o SubSeq(p, Len(x) + 1, Len(p)) = p  BY <1>1, <1>5, <1>9, <1>10, Rejoined
<1>12. Inside(h, ms, p) <=> IsDir(h, p)  BY <1>1, <1>3, <1>10, <1>11, SeenThrough DEF i
<1> QED BY <1>12 DEF IsDir

(* The runtime's own kit is never seen under the workspace's name.         *)
LEMMA KitUnseen ==
    ASSUME NEW h, HostOK(h), NEW ms, NEW R, MountsOK(ms, R, Workspace)
    PROVE  ~Inside(h, ms, Kit)
<1> DEFINE s == SubSeq(Kit, 2, Len(Kit))
           p == Workspace \o s
<1>1. /\ Kit \in HostPaths /\ Len(Kit) = 2 /\ Kit[1] = "workspace" /\ Kit[2] = "kit"
      /\ Workspace \in HostPaths /\ Len(Workspace) = 3 /\ Workspace[3] = "project"
      /\ Workspace[1] = "home" /\ <<"workspace">> \in HostPaths /\ Len(<<"workspace">>) = 1
      /\ <<"workspace">>[1] = "workspace"
  BY DirectoryNames DEF Starts1, Starts2, Starts3
<1>2. Within(Kit, <<"workspace">>)
  <2> DEFINE x == <<"workspace">>
  <2>1. x \in HostPaths /\ Len(x) = 1 /\ x[1] = Kit[1]  BY <1>1
  <2> HIDE DEF x
  <2>2. Len(x) <= Len(Kit) /\ \A i \in 1..Len(x) : Kit[i] = x[i]  BY <2>1, <1>1
  <2>3. Within(Kit, x)  BY <2>1, <2>2, <1>1, WithinAgrees
  <2> QED BY <2>3 DEF x
<1>3. Inside(h, ms, Kit) <=> IsDir(h, p)  BY <1>1, <1>2, WorkspaceCovers
<1>4. s \in HostPaths /\ Len(s) = 1
  <2>1. \A j \in 2..2 : Kit[j] \in PathNames  BY <1>1 DEF HostPaths
  <2>2. SubSeq(Kit, 2, 2) \in Seq(PathNames) /\ Len(SubSeq(Kit, 2, 2)) = IF 2 <= 2 THEN 2 - 2 + 1 ELSE 0
    BY <2>1, SubSeqProperties
  <2> QED BY <2>2, <1>1 DEF HostPaths
<1> HIDE DEF s
<1>5. p \in HostPaths /\ Len(p) = 4 /\ p[1] = "home" /\ p[3] = "project"
  <2>1. /\ p \in HostPaths /\ Len(p) = Len(Workspace) + Len(s)
        /\ \A i \in 1..Len(Workspace) : p[i] = Workspace[i]
    <3> DEFINE d == Workspace
    <3>1. d \in Seq(PathNames) /\ s \in Seq(PathNames)  BY <1>1, <1>4 DEF HostPaths
    <3> HIDE DEF d
    <3>2. d \o s \in Seq(PathNames) /\ Len(d \o s) = Len(d) + Len(s) /\ \A i \in 1..Len(d) : (d \o s)[i] = d[i]
      BY <3>1, Pieces
    <3> QED BY <3>2 DEF d, HostPaths
  <2> HIDE DEF p
  <2>2. 1 \in 1..Len(Workspace) /\ 3 \in 1..Len(Workspace)  BY <1>1
  <2> QED BY <1>1, <1>4, <2>1, <2>2
<1> HIDE DEF p
<1>6. Real(h, p) = p  BY <1>5, MovableApart, RealOf
<1>7. p \notin Directories
  <2> SUFFICES ASSUME p \in Directories PROVE FALSE  OBVIOUS
  <2>1. ~Shallow(p) /\ ~Aside2(p) /\ ~Aside3(p)  BY <1>5 DEF Shallow, Aside2, Aside3
  <2>2. p \in {<<"workspace">>, Kit, Product, Bin(Product), Tool, Bin(Tool)}  BY <2>1, DirectoryKinds
  <2> QED BY <1>5, <2>2, DirectoryNames DEF Starts1, Starts2, Starts3
<1> QED BY <1>3, <1>6, <1>7 DEF IsDir

-----------------------------------------------------------------------------
LEMMA FewFinite ==
    ASSUME NEW a, NEW b, NEW c, NEW d
    PROVE  IsFiniteSet({a, b, c, d})
<1>1. IsFiniteSet({a})  BY FS_Singleton
<1>2. IsFiniteSet({a} \cup {b})  BY <1>1, FS_AddElement
<1>3. IsFiniteSet(({a} \cup {b}) \cup {c})  BY <1>2, FS_AddElement
<1>4. IsFiniteSet((({a} \cup {b}) \cup {c}) \cup {d})  BY <1>3, FS_AddElement
<1>5. (({a} \cup {b}) \cup {c}) \cup {d} = {a, b, c, d}  OBVIOUS
<1> QED BY <1>4, <1>5

LEMMA DirectoriesFinite == IsFiniteSet(Directories)
<1> DEFINE A == {<<>>, <<"usr">>, <<"etc">>, <<"home">>}
           B == {<<"opt">>, <<"srv">>, <<"tmp">>, <<"run">>}
           C == {<<"workspace">>, UserHome, Workspace, State}
           D == {Tool, Product, Kit, WrapperDir}
           E == {Resolver, Scratch, SystemState, Bin(<<"usr">>)}
           F == {Bin(UserHome), Bin(Tool), Bin(Product), Bin(Product)}
<1>1. Directories = ((((A \cup B) \cup C) \cup D) \cup E) \cup F  BY DEF Directories
<1>2. IsFiniteSet(A) /\ IsFiniteSet(B) /\ IsFiniteSet(C) /\ IsFiniteSet(D) /\ IsFiniteSet(E) /\ IsFiniteSet(F)
  BY FewFinite
<1> HIDE DEF A, B, C, D, E, F
<1>3. IsFiniteSet(A \cup B)  BY <1>2, FS_Union
<1>4. IsFiniteSet((A \cup B) \cup C)  BY <1>2, <1>3, FS_Union
<1>5. IsFiniteSet(((A \cup B) \cup C) \cup D)  BY <1>2, <1>4, FS_Union
<1>6. IsFiniteSet((((A \cup B) \cup C) \cup D) \cup E)  BY <1>2, <1>5, FS_Union
<1> QED BY <1>1, <1>2, <1>6, FS_Union

LEMMA DirectorySets ==
    ASSUME NEW R, R \subseteq Directories
    PROVE  R \subseteq HostPaths /\ IsFiniteSet(R) /\ Cardinality(R) \in Nat
<1>1. R \in SUBSET Directories  OBVIOUS
<1>2. IsFiniteSet(R)  BY <1>1, DirectoriesFinite, FS_Subset
<1> QED BY <1>1, <1>2, FS_CardinalityType, DirectoryPaths

LEMMA PlannedTyped ==
    ASSUME NEW h, NEW R
    PROVE  PlannedRoots(h, R) \subseteq Directories
  BY DEF PlannedRoots, IsDir

LEMMA PlannedMounts ==
    ASSUME NEW h, NEW R, NEW shared \in BOOLEAN, NEW w \in {Workspace, Scratch}
    PROVE  /\ MountsOK(Mounts(PlannedRoots(h, R), shared, w), Via(shared) \cup PlannedRoots(h, R), w)
           /\ w \in HostPaths /\ Via(shared) \cup PlannedRoots(h, R) \subseteq HostPaths
<1> DEFINE P == PlannedRoots(h, R)
<1>1. P \subseteq HostPaths /\ IsFiniteSet(P)  BY PlannedTyped, DirectorySets
<1>2. w \in HostPaths /\ Via(shared) \subseteq HostPaths  BY DirectoryNames DEF Starts2, Starts3, Via
<1> HIDE DEF P
<1>3. MountsOK(Mounts(P, shared, w), Via(shared) \cup P, w)  BY <1>1, <1>2, MountShape
<1> QED BY <1>1, <1>2, <1>3 DEF P

(* Paths that begin with different names are apart.                        *)
LEMMA FirstName ==
    ASSUME NEW p \in HostPaths, NEW q \in HostPaths, Len(p) >= 1, Len(q) >= 1, p[1] # q[1]
    PROVE  ~Overlaps(p, q) /\ p # q
<1>1. Len(p) \in Nat /\ Len(q) \in Nat  BY LenProperties DEF HostPaths
<1>2. 1 \in 1..Len(p) /\ 1 \in 1..Len(q)  BY <1>1
<1> QED BY <1>2, WithinAgrees DEF Overlaps

LEMMA RootsApart ==
    ASSUME NEW x \in SystemReadRoots \cup {Resolver}, NEW y \in {State, Workspace, Scratch}
    PROVE  ~Overlaps(x, y) /\ x # y
<1>1. x \in HostPaths /\ Len(x) >= 1 /\ x[1] \in {"usr", "etc", "run"}
  BY DirectoryNames DEF Starts1, Starts2, SystemReadRoots
<1>2. y \in HostPaths /\ Len(y) >= 1 /\ y[1] \in {"home", "tmp"}
  BY DirectoryNames DEF Starts2, Starts3
<1> QED BY <1>1, <1>2, FirstName

(* What a plan that is not refused mounts.                                 *)
LEMMA DataStaysHidden ==
    ASSUME NEW h, NEW R, NEW shared \in BOOLEAN, NEW w \in {Workspace, Scratch},
           setup.forbidden = State, ~PlanRefused(h, R, shared, w),
           NEW i \in DOMAIN Mounts(PlannedRoots(h, R), shared, w)
    PROVE  LET m == Mounts(PlannedRoots(h, R), shared, w)[i]
           IN  /\ m.kind # "fresh" => ~Overlaps(m.from, setup.forbidden)
               /\ m.kind = "write" <=> m.from = w
<1> DEFINE P == PlannedRoots(h, R)
           ms == Mounts(P, shared, w)
           m == ms[i]
<1>1. MountsOK(ms, Via(shared) \cup P, w) /\ w \in HostPaths /\ Via(shared) \cup P \subseteq HostPaths
  BY PlannedMounts
<1>2. /\ ~Overlaps(State, w)
      /\ \A r \in P : ~Overlaps(r, w) /\ ~Overlaps(r, State)
  BY DEF PlanRefused
<1> HIDE DEF P
<1> HIDE DEF ms
<1>3. /\ ms \in Seq(MountRows) /\ Len(ms) \in Nat \ {0} /\ DOMAIN ms = 1..Len(ms)
      /\ ms[Len(ms)] = Mount(<<"workspace">>, "write", w)
      /\ \A j \in 1..(Len(ms) - 1) : ms[j] \in ReadOnly(SystemReadRoots \cup (Via(shared) \cup P)) \cup Freshes
  BY <1>1, LenProperties DEF MountsOK
<1>4. i = Len(ms) \/ i \in 1..(Len(ms) - 1)
  <2> DEFINE l == Len(ms)
  <2>1. i \in 1..l /\ l \in Nat \ {0}  BY <1>3 DEF ms, P
  <2> HIDE DEF l
  <2>2. i = l \/ i \in 1..(l - 1)  BY <2>1
  <2> QED BY <2>2 DEF l
<1>5. CASE i = Len(ms)
  <2>1. m.kind = "write" /\ m.from = w  BY <1>3, <1>5 DEF Mount
  <2>2. ~Overlaps(w, State)  BY <1>2 DEF Overlaps
  <2> QED BY <2>1, <2>2 DEF ms, P
<1>6. CASE m \in Freshes
  <2>1. m.kind = "fresh" /\ m.from = Nowhere  BY <1>6 DEF Freshes, Fresh, Mount
  <2>2. Nowhere # w
    <3>1. Nowhere \in HostPaths /\ Len(Nowhere) >= 1 /\ Nowhere[1] = "nowhere"  BY DirectoryNames DEF Starts1
    <3>2. Len(w) >= 1 /\ w[1] \in {"home", "tmp"}  BY DirectoryNames DEF Starts2, Starts3
    <3> QED BY <3>1, <3>2
  <2> QED BY <2>1, <2>2 DEF ms, P
<1>7. CASE i \in 1..(Len(ms) - 1) /\ m \notin Freshes
  <2>1. PICK x \in SystemReadRoots \cup (Via(shared) \cup P) : m = Bound(x)  BY <1>3, <1>7 DEF ReadOnly
  <2>2. x \in HostPaths  BY <1>1, SystemRoots
  <2>3. m.kind = "read" /\ m.from = x  BY <2>1, <2>2, RowTypes
  <2>4. ~Overlaps(x, State) /\ x # w
    <3>1. CASE x \in P
      <4>1. Within(x, x)  BY <2>2, WithinOrder
      <4> QED BY <3>1, <4>1, <1>2 DEF Overlaps
    <3>2. CASE x \in SystemReadRoots \cup {Resolver}  BY <3>2, RootsApart
    <3> QED BY <2>1, <3>1, <3>2 DEF Via
  <2> QED BY <2>3, <2>4 DEF ms, P
<1> QED BY <1>4, <1>5, <1>6, <1>7

-----------------------------------------------------------------------------
(* What the probe of the start looked at.                                  *)
LEMMA Attested ==
    ASSUME NEW h, HostOK(h), NEW R, R \subseteq Directories, NEW m,
           m = Mounts(PlannedRoots(h, R), TRUE, Workspace),
           setup.forbidden \in {State, SystemState},
           ~Inside(h, m, setup.forbidden), \A r \in R : Inside(h, m, r)
    PROVE  setup.forbidden = State /\ Kit \notin R
<1> DEFINE S == Via(TRUE) \cup PlannedRoots(h, R)
<1>1. MountsOK(m, S, Workspace) /\ Workspace \in HostPaths /\ S \subseteq HostPaths  BY PlannedMounts
<1> HIDE DEF S
<1>2. setup.forbidden # SystemState
  <2> DEFINE p == SystemState
  <2>1. /\ p \in Directories /\ p \in HostPaths /\ Len(p) = 2 /\ p[1] = "usr"
    BY DirectoryNames DEF Starts2, Directories
  <2>2. Real(h, p) = p
    <3> HIDE DEF p
    <3> QED BY <2>1, MovableApart, RealOf
  <2>3. Within(p, <<"usr">>)
    <3> DEFINE x == <<"usr">>
    <3>1. x \in HostPaths /\ Len(x) = 1 /\ x[1] = "usr"  BY DirectoryNames DEF Starts1
    <3> HIDE DEF x, p
    <3>2. Len(x) <= Len(p) /\ \A i \in 1..Len(x) : p[i] = x[i]  BY <3>1, <2>1
    <3>3. Within(p, x)  BY <3>1, <3>2, <2>1, WithinAgrees
    <3> QED BY <3>3 DEF x
  <2>4. ~Within(p, <<"workspace">>)
    <3> DEFINE x == <<"workspace">>
    <3>1. x \in HostPaths /\ Len(x) = 1 /\ x[1] = "workspace"  BY DirectoryNames DEF Starts1
    <3> HIDE DEF x, p
    <3>2. ~Overlaps(p, x)  BY <3>1, <2>1, FirstName
    <3> QED BY <3>2 DEF Overlaps, x
  <2>5. Inside(h, m, p)
    <3> HIDE DEF p
    <3> QED BY <2>1, <2>2, <2>3, <2>4, <1>1, MountedSeen
  <2> QED BY <2>5
<1>3. Kit \notin R  BY <1>1, KitUnseen
<1> QED BY <1>2, <1>3

(* As many directories in the sandbox as at the start: each of its own.    *)
LEMMA AllPlanned ==
    ASSUME NEW h, NEW R, R \subseteq Directories,
           Cardinality(PlannedRoots(h, R)) = Cardinality(R)
    PROVE  /\ \A r \in R : IsDir(h, r)
           /\ \A r, q \in R : r # q => Real(h, r) # Real(h, q)
<1> DEFINE D == {r \in R : IsDir(h, r)}
           P == PlannedRoots(h, R)
           f == [r \in D |-> Real(h, r)]
<1>1. P = {Real(h, r) : r \in D}  BY DEF PlannedRoots
<1>2. f \in Surjection(D, P)
  <2>1. f \in [D -> P]  BY <1>1
  <2>2. \A y \in P : \E x \in D : f[x] = y  BY <1>1
  <2> HIDE DEF f, D, P
  <2> QED BY <2>1, <2>2 DEF Surjection
<1>3. IsFiniteSet(R) /\ D \in SUBSET R /\ Cardinality(R) \in Nat  BY DirectorySets
<1> HIDE DEF f, D, P
<1>4. IsFiniteSet(D) /\ Cardinality(D) <= Cardinality(R) /\ (Cardinality(R) = Cardinality(D) => R = D)
  BY <1>3, FS_Subset
<1>5. Cardinality(P) <= Cardinality(D) /\ (Cardinality(P) = Cardinality(D) <=> f \in Injection(D, P))
  BY <1>2, <1>4, FS_Surjection
<1>6. Cardinality(P) = Cardinality(R)  BY DEF P
<1>7. Cardinality(D) \in Nat  BY <1>4, FS_CardinalityType
<1>8. Cardinality(D) = Cardinality(R)  BY <1>3, <1>4, <1>5, <1>6, <1>7
<1>9. R = D /\ f \in Injection(D, P)  BY <1>4, <1>5, <1>6, <1>8
<1>10. \A r, q \in D : f[r] = f[q] => r = q  BY <1>9 DEF Injection, IsInjective
<1>11. \A r \in D : f[r] = Real(h, r) /\ IsDir(h, r)  BY DEF f, D
<1> QED BY <1>9, <1>10, <1>11

LEMMA NamedWorkspace ==
    ASSUME NEW p \in Directories, Within(p, <<"workspace">>)
    PROVE  p \in {<<"workspace">>, Kit}
<1> DEFINE x == <<"workspace">>
<1>1. x \in HostPaths /\ Len(x) = 1 /\ x[1] = "workspace"  BY DirectoryNames DEF Starts1
<1>2. p \in HostPaths /\ Len(p) \in Nat  BY DirectoryPaths, LenProperties DEF HostPaths
<1> HIDE DEF x
<1>3. Within(p, x)  BY DEF x
<1>4. 1 \in 1..Len(x) /\ Len(x) <= Len(p) /\ \A i \in 1..Len(x) : p[i] = x[i]  BY <1>1, <1>2, <1>3, WithinAgrees
<1>5. p[1] = "workspace" /\ Len(p) >= 1  BY <1>1, <1>2, <1>4
<1>6. ~Shallow(p) /\ ~Aside2(p) /\ ~Aside3(p)  BY <1>5 DEF Shallow, Aside2, Aside3
<1>7. p \in {<<"workspace">>, Kit, Product, Bin(Product), Tool, Bin(Tool)}  BY <1>6, DirectoryKinds
<1>8. Product[1] # "workspace" /\ Bin(Product)[1] # "workspace" /\ Tool[1] # "workspace" /\ Bin(Tool)[1] # "workspace"
  BY DirectoryNames DEF Starts2, Starts3
<1> QED BY <1>5, <1>7, <1>8

(* Each of the directories is then seen in the sandbox.                    *)
LEMMA RootsSeen ==
    ASSUME NEW h, HostOK(h), NEW R, R \subseteq Directories, Kit \notin R,
           NEW shared \in BOOLEAN, NEW w \in {Workspace, Scratch}, NEW r \in R, IsDir(h, r)
    PROVE  Inside(h, Mounts(PlannedRoots(h, R), shared, w), Real(h, r))
<1> DEFINE P == PlannedRoots(h, R)
           ms == Mounts(P, shared, w)
           S == Via(shared) \cup P
           p == Real(h, r)
<1>1. MountsOK(ms, S, w) /\ w \in HostPaths /\ S \subseteq HostPaths  BY PlannedMounts
<1>2. p \in Directories /\ Real(h, p) = p /\ (p = Kit => r = Kit)  BY RealDirectories
<1>3. p \in S  BY DEF PlannedRoots
<1>4. p \in HostPaths /\ Within(p, p)  BY <1>2, DirectoryPaths, WithinOrder
<1> HIDE DEF P
<1> HIDE DEF ms, S
<1> HIDE DEF p
<1>5. CASE ~Within(p, <<"workspace">>)
  <2>1. Inside(h, ms, p)  BY <1>1, <1>2, <1>3, <1>4, <1>5, MountedSeen
  <2> QED BY <2>1 DEF ms, P, p
<1>6. CASE Within(p, <<"workspace">>)
  <2>1. p = <<"workspace">>  BY <1>2, <1>6, NamedWorkspace
  <2>2. Inside(h, ms, p) <=> IsDir(h, w \o SubSeq(p, 2, Len(p)))  BY <1>1, <1>4, <1>6, WorkspaceCovers
  <2>3. SubSeq(p, 2, Len(p)) = <<>>
    <3>1. Len(p) = 1  BY <2>1, DirectoryNames DEF Starts1
    <3>2. SubSeq(p, 2, 1) = <<>>  BY SubSeqEmpty
    <3> QED BY <3>1, <3>2
  <2>4. w \o <<>> = w  BY <1>1, ConcatEmptySeq DEF HostPaths
  <2>5. w \in Directories /\ Real(h, w) = w
    <3>1. w \in Directories  BY DEF Directories
    <3>2. ~Within(w, Tool) /\ ~Within(w, Product)
      <4>1. w[1] = "tmp" \/ (w[1] = "home" /\ w[3] = "project")  BY DirectoryNames DEF Starts2, Starts3
      <4> QED BY <4>1, <1>1, MovableApart
    <3> QED BY <3>1, <3>2, <1>1, RealOf
  <2>6. Inside(h, ms, p)  BY <2>2, <2>3, <2>4, <2>5 DEF IsDir
  <2> QED BY <2>6 DEF ms, P, p
<1> QED BY <1>5, <1>6

-----------------------------------------------------------------------------
(* What is collapsed is below what is left.                                *)
LEMMA CollapseKeeps ==
    ASSUME NEW D, D \subseteq HostPaths, NEW r \in D
    PROVE  \E q \in Collapse(D) : Within(r, q)
<1> DEFINE A == {q \in D : Within(r, q)}
           N == {Len(q) : q \in A}
<1>1. \A q \in A : Len(q) \in Nat /\ q \in D /\ q \in HostPaths /\ Within(r, q)  BY LenProperties DEF HostPaths
<1>2. r \in A /\ r \in HostPaths  BY WithinOrder
<1>3. N \subseteq Nat /\ N # {}  BY <1>1, <1>2
<1>4. \A q \in D : Within(r, q) => q \in A  OBVIOUS
<1>5. \A q \in A : Len(q) \in N  OBVIOUS
<1>6. PICK n \in N : \A k \in N : <<k, n>> \notin OpToRel(<, Nat)
  <2> HIDE DEF N
  <2> QED BY <1>3, NatLessThanWellFounded, WFMin
<1>7. PICK q \in A : Len(q) = n  BY <1>6
<1> HIDE DEF A, N
<1>8. q \in HostPaths /\ q \in D /\ Within(r, q) /\ Len(q) \in Nat  BY <1>1, <1>7
<1>9. ASSUME NEW x \in D, x # q, Within(q, x) PROVE FALSE
  <2>1. x \in HostPaths /\ Within(r, x)  BY <1>2, <1>8, <1>9, WithinOrder
  <2>2. x \in A /\ Len(x) \in Nat /\ Len(x) \in N  BY <2>1, <1>1, <1>4, <1>5, <1>9
  <2>3. Len(x) <= Len(q) /\ \A i \in 1..Len(x) : q[i] = x[i]  BY <2>1, <1>8, <1>9, WithinAgrees
  <2>4. ~(Len(x) < Len(q))
    <3> SUFFICES ASSUME Len(x) < Len(q) PROVE FALSE  OBVIOUS
    <3>1. <<Len(x), Len(q)>> \in {ss \in Nat \X Nat : ss[1] < ss[2]}  BY <1>8, <2>2
    <3>2. <<Len(x), Len(q)>> \in OpToRel(<, Nat)  BY <3>1 DEF OpToRel
    <3> QED BY <3>2, <2>2, <1>6, <1>7
  <2>5. Len(x) = Len(q)  BY <2>2, <2>3, <2>4, <1>8
  <2>6. x = q  BY <2>1, <2>3, <2>5, <1>8, SeqEqual DEF HostPaths
  <2> QED BY <2>6, <1>9
<1> QED BY <1>8, <1>9 DEF Collapse

LEMMA Parent ==
    ASSUME NEW p \in HostPaths, p # <<>>
    PROVE  Front(p) \in HostPaths /\ Within(p, Front(p))
<1> DEFINE l == Len(p)
<1>1. l \in Nat \ {0}  BY EmptySeq DEF HostPaths
<1>2. \A i \in 1..l : p[i] \in PathNames  BY DEF HostPaths
<1>3. Front(p) = SubSeq(p, 1, l - 1)  BY DEF Front
<1> HIDE DEF l
<1>4. \A i \in 1..(l - 1) : p[i] \in PathNames  BY <1>1, <1>2
<1>5. 1 \in Int /\ l - 1 \in Int  BY <1>1
<1>6. /\ SubSeq(p, 1, l - 1) \in Seq(PathNames)
      /\ Len(SubSeq(p, 1, l - 1)) = IF 1 <= l - 1 THEN (l - 1) - 1 + 1 ELSE 0
      /\ \A i \in 1..((l - 1) - 1 + 1) : SubSeq(p, 1, l - 1)[i] = p[1 + i - 1]
  BY <1>4, <1>5, SubSeqProperties
<1> DEFINE f == Front(p)
<1>7. f \in HostPaths /\ Len(f) = l - 1 /\ \A i \in 1..(l - 1) : f[i] = p[1 + i - 1]
  <2>1. (IF 1 <= l - 1 THEN (l - 1) - 1 + 1 ELSE 0) = l - 1 /\ (l - 1) - 1 + 1 = l - 1  BY <1>1
  <2> QED BY <2>1, <1>3, <1>6 DEF HostPaths
<1> HIDE DEF f
<1>8. \A i \in 1..Len(f) : p[i] = f[i]
  <2> TAKE i \in 1..Len(f)
  <2>1. i \in 1..(l - 1) /\ 1 + i - 1 = i  BY <1>1, <1>7
  <2>2. f[i] = p[1 + i - 1]  BY <2>1, <1>7
  <2> QED BY <2>1, <2>2
<1>9. Len(f) <= l  BY <1>1, <1>7
<1>10. Within(p, f)  BY <1>7, <1>8, <1>9, WithinAgrees DEF l
<1> QED BY <1>7, <1>10 DEF f

(* The roots of a directory are directories above it.                      *)
LEMMA RootsTyped ==
    ASSUME NEW h
    PROVE  /\ \A p : RootsFor(h, p) \subseteq Directories
           /\ ExplicitRootsOf(h) \subseteq Directories
           /\ Discovered(h) \subseteq Directories
           /\ SearchEntries(h) \subseteq {p \in ToSet(setup.path) : IsDir(h, p)}
           /\ SandboxPath(h) \subseteq Directories
           /\ \A D : Collapse(D) \subseteq D
<1>1. ASSUME NEW p PROVE RootsFor(h, p) \subseteq Directories  BY DEF RootsFor, Accepts, IsDir
<1>2. \A D : Collapse(D) \subseteq D  BY DEF Collapse
<1>3. ExplicitRootsOf(h) \subseteq Directories
  <2>1. {Real(h, e) : e \in {x \in setup.explicit : Accepts(h, x)}} \subseteq Directories  BY DEF Accepts, IsDir
  <2> QED BY <2>1, <1>2 DEF ExplicitRootsOf
<1>4. Discovered(h) \subseteq Directories  BY <1>1 DEF Discovered
<1>5. SearchEntries(h) \subseteq {p \in ToSet(setup.path) : IsDir(h, p)}  BY DEF SearchEntries
<1>6. SandboxPath(h) \subseteq Directories
  <2>1. SystemEntries(h) \subseteq Directories /\ {Real(h, p) : p \in ToolEntries(h)} \subseteq Directories
    BY DEF SystemEntries, ToolEntries, SearchEntries, IsDir
  <2>2. ExplicitEntries(h) \subseteq Directories  BY <1>3 DEF ExplicitEntries
  <2>3. Bin(<<"usr">>) \in Directories  BY DEF Directories
  <2> QED BY <2>1, <2>2, <2>3 DEF SandboxPath
<1> QED BY <1>1, <1>2, <1>3, <1>4, <1>5, <1>6

LEMMA RootsAbove ==
    ASSUME NEW h, Still(h), NEW p \in Directories, NEW r \in RootsFor(h, p)
    PROVE  r \in HostPaths /\ Within(p, r)
<1>1. p \in HostPaths  BY DirectoryPaths
<1>2. Real(h, p) = p /\ Real(h, ExecutablePrefix(p)) = ExecutablePrefix(p)  BY RealStill
<1>3. r = ExecutablePrefix(p) \/ r = p  BY <1>2 DEF RootsFor
<1>4. r = p \/ (p # <<>> /\ r = Front(p))  BY <1>3 DEF ExecutablePrefix
<1> QED BY <1>1, <1>4, Parent, WithinOrder

(* Nothing is left out of a plan of directories that did not move.         *)
LEMMA StillPlanned ==
    ASSUME NEW h, Still(h), NEW R, R \subseteq Directories
    PROVE  PlannedRoots(h, R) = R
<1>1. \A r \in R : Real(h, r) = r /\ IsDir(h, r)  BY RealStill DEF IsDir
<1> QED BY <1>1 DEF PlannedRoots

LEMMA StillSeen ==
    ASSUME NEW h, Still(h), NEW R, R \subseteq Directories, NEW shared \in BOOLEAN,
           NEW w \in {Workspace, Scratch}, NEW p \in Directories, ~Within(p, <<"workspace">>),
           Within(p, <<"usr">>) \/ \E r \in Via(shared) \cup R : Within(p, r)
    PROVE  Inside(h, Mounts(PlannedRoots(h, R), shared, w), p)
<1>1. PlannedRoots(h, R) = R  BY StillPlanned
<1>2. /\ MountsOK(Mounts(R, shared, w), Via(shared) \cup R, w)
      /\ w \in HostPaths /\ Via(shared) \cup R \subseteq HostPaths
  BY <1>1, PlannedMounts
<1>3. Real(h, p) = p  BY RealStill
<1> DEFINE S == Via(shared) \cup R
           ms == Mounts(R, shared, w)
<1>4. MountsOK(ms, S, w) /\ S \subseteq HostPaths  BY <1>2
<1>5. Within(p, <<"usr">>) \/ \E r \in S : Within(p, r)  OBVIOUS
<1> HIDE DEF S, ms
<1>6. Inside(h, ms, p)  BY <1>2, <1>3, <1>4, <1>5, MountedSeen
<1> QED BY <1>1, <1>6 DEF ms

(* What the configuration says does not change.                            *)
LEMMA SetupStays ==
    ASSUME setup' = setup
    PROVE  /\ \A h : /\ Discovered(h)' = Discovered(h) /\ ExplicitRootsOf(h)' = ExplicitRootsOf(h)
                     /\ SandboxPath(h)' = SandboxPath(h)
           /\ \A h, R, sh, w : PlanRefused(h, R, sh, w)' <=> PlanRefused(h, R, sh, w)
           /\ \A R, sh, w : Mounts(R, sh, w)' = Mounts(R, sh, w)
<1>1. \A r : Denied(r)' <=> Denied(r)  BY DEF Denied
<1>2. \A h, p : Accepts(h, p)' <=> Accepts(h, p)  BY <1>1 DEF Accepts
<1>3. \A h, p : RootsFor(h, p)' = RootsFor(h, p)  BY <1>2 DEF RootsFor
<1>4. \A h : SearchEntries(h)' = SearchEntries(h)  BY DEF SearchEntries
<1>5. \A h : SystemEntries(h)' = SystemEntries(h)  BY <1>4 DEF SystemEntries
<1>6. \A h : ToolEntries(h)' = ToolEntries(h)  BY <1>3, <1>4 DEF ToolEntries
<1>7. \A h : Discovered(h)' = Discovered(h)  BY <1>3, <1>6 DEF Discovered
<1>8. \A h : ExplicitRootsOf(h)' = ExplicitRootsOf(h)  BY <1>2 DEF ExplicitRootsOf
<1>9. \A h : ExplicitEntries(h)' = ExplicitEntries(h)  BY <1>8 DEF ExplicitEntries
<1>10. \A h : SandboxPath(h)' = SandboxPath(h)  BY <1>5, <1>6, <1>9 DEF SandboxPath
<1>11. \A h, R, sh, w : PlanRefused(h, R, sh, w)' <=> PlanRefused(h, R, sh, w)  BY DEF PlanRefused
<1>12. \A R, sh, w : Mounts(R, sh, w)' = Mounts(R, sh, w)  BY DEF Mounts
<1> QED BY <1>7, <1>8, <1>10, <1>11, <1>12

(* All of the tools are then found where the commands look for them.       *)
LEMMA ToolsSeen ==
    ASSUME NEW h, Still(h), NEW R, R = Collapse(Discovered(h) \cup ExplicitRootsOf(h)),
           NEW shared \in BOOLEAN, NEW w \in {Workspace, Scratch}
    PROVE  LET ms == Mounts(PlannedRoots(h, R), shared, w)
           IN  /\ \A p \in SandboxPath(h) : HiddenByWorkspace(p) \/ Inside(h, ms, p)
               /\ \A x \in Executables :
                     x.at \in {Real(h, p) : p \in ToolEntries(h)} /\ RootsFor(h, x.real) # {} => Inside(h, ms, x.real)
               /\ shared /\ setup.resolver = "runtime" => Inside(h, ms, Resolver)
<1> DEFINE D == Discovered(h) \cup ExplicitRootsOf(h)
           ms == Mounts(PlannedRoots(h, R), shared, w)
<1>1. D \subseteq Directories /\ D \subseteq HostPaths  BY RootsTyped, DirectoryPaths
<1>2. R \subseteq Directories  BY <1>1, RootsTyped
<1>3. \A r \in D : \E q \in R : Within(r, q)  BY <1>1, CollapseKeeps
<1>4. Discovered(h) \subseteq D /\ ExplicitRootsOf(h) \subseteq D  OBVIOUS
<1>5. R \subseteq HostPaths  BY <1>2, DirectoryPaths
<1> HIDE DEF D
<1>6. ASSUME NEW p \in Directories, ~Within(p, <<"workspace">>),
             Within(p, <<"usr">>) \/ (\E r \in D : Within(p, r))
      PROVE  Inside(h, ms, p)
  <2>1. Within(p, <<"usr">>) \/ \E q \in R : Within(p, q)
    <3>1. CASE \E r \in D : Within(p, r)
      <4>1. PICK r \in D : Within(p, r)  BY <3>1
      <4>2. PICK q \in R : Within(r, q)  BY <1>3
      <4>3. p \in HostPaths /\ r \in HostPaths /\ q \in HostPaths  BY <1>1, <1>5, DirectoryPaths
      <4> QED BY <4>1, <4>2, <4>3, WithinOrder
    <3> QED BY <3>1, <1>6
  <2>2. Within(p, <<"usr">>) \/ \E r \in Via(shared) \cup R : Within(p, r)  BY <2>1
  <2> QED BY <1>2, <1>6, <2>2, StillSeen
<1>7. ASSUME NEW p \in Directories, RootsFor(h, p) # {}, RootsFor(h, p) \subseteq D
      PROVE  \E r \in D : Within(p, r)
  <2>1. PICK r \in RootsFor(h, p) : TRUE  BY <1>7
  <2>2. Within(p, r)  BY RootsAbove
  <2> QED BY <2>2, <1>7
<1>8. ASSUME NEW p \in SearchEntries(h) PROVE Real(h, p) = p /\ p \in Directories
  BY RealStill DEF SearchEntries, IsDir
<1>9. ASSUME NEW p \in ToolEntries(h)
      PROVE  /\ Real(h, p) = p /\ p \in Directories /\ RootsFor(h, p) # {} /\ RootsFor(h, p) \subseteq D
             /\ \A x \in Executables : x.at = p => RootsFor(h, x.real) \subseteq D
  <2>1. p \in SearchEntries(h) /\ RootsFor(h, p) # {}  BY DEF ToolEntries
  <2>2. Real(h, p) = p /\ p \in Directories  BY <2>1, <1>8
  <2>3. RootsFor(h, p) \subseteq Discovered(h)  BY DEF Discovered
  <2>4. ASSUME NEW x \in Executables, x.at = p PROVE RootsFor(h, x.real) \subseteq Discovered(h)
    <3>1. x \in {y \in Executables : y.at = Real(h, p)}  BY <2>2, <2>4
    <3>2. RootsFor(h, x.real) \subseteq UNION {RootsFor(h, z.real) : z \in {y \in Executables : y.at = Real(h, p)}}
      BY <3>1
    <3> QED BY <3>2 DEF Discovered
  <2> QED BY <2>1, <2>2, <2>3, <2>4, <1>4
<1>10. ASSUME NEW p \in SandboxPath(h), ~HiddenByWorkspace(p)
       PROVE  Inside(h, ms, p)
  <2>0. ~Within(p, <<"workspace">>) /\ p \in Directories  BY <1>10, RootsTyped DEF HiddenByWorkspace
  <2>1. CASE p \in SystemEntries(h)
    <3>1. PICK q \in SearchEntries(h) : IsSystem(Real(h, q)) /\ p = Real(h, q)  BY <2>1 DEF SystemEntries
    <3>2. Within(p, <<"usr">>)  BY <3>1 DEF IsSystem, SystemPrefixes
    <3> QED BY <3>2, <2>0, <1>6
  <2>2. CASE p \in {Real(h, q) : q \in ToolEntries(h)}
    <3>1. PICK q \in ToolEntries(h) : p = Real(h, q)  BY <2>2
    <3>2. RootsFor(h, p) # {} /\ RootsFor(h, p) \subseteq D  BY <3>1, <1>9
    <3> QED BY <3>2, <2>0, <1>6, <1>7
  <2>3. CASE p = Bin(<<"usr">>)
    <3>1. <<"usr">> \in HostPaths /\ "bin" \in PathNames  BY DirectoryNames DEF Starts1, PathNames
    <3>2. Within(p, <<"usr">>)
      <4> DEFINE x == <<"usr">>
      <4>1. x \in HostPaths /\ p = Append(x, "bin")  BY <3>1, <2>3 DEF Bin
      <4>2. Len(x) \in Nat  BY <4>1, LenProperties DEF HostPaths
      <4> HIDE DEF x
      <4>3. p \in HostPaths /\ Len(p) = Len(x) + 1 /\ \A i \in 1..Len(x) : p[i] = x[i]  BY <4>1, <3>1, Below
      <4>4. Len(x) <= Len(p)  BY <4>2, <4>3
      <4>5. Within(p, x)  BY <4>1, <4>3, <4>4, WithinAgrees
      <4> QED BY <4>5 DEF x
    <3> QED BY <3>2, <2>0, <1>6
  <2>4. CASE p \in ExplicitEntries(h)
    <3>1. PICK r \in ExplicitRootsOf(h) : p = r \/ p = Bin(r)  BY <2>4 DEF ExplicitEntries
    <3>2. r \in D /\ r \in HostPaths /\ "bin" \in PathNames  BY <3>1, <1>1, <1>4 DEF PathNames
    <3>3. Within(p, r)
      <4>1. CASE p = r  BY <4>1, <3>2, WithinOrder
      <4>2. CASE p = Bin(r)
        <5>1. p \in HostPaths /\ Len(p) = Len(r) + 1 /\ \A i \in 1..Len(r) : p[i] = r[i]
          BY <4>2, <3>2, Below DEF Bin
        <5>2. Len(r) \in Nat  BY <3>2, LenProperties DEF HostPaths
        <5>3. Len(r) <= Len(p)  BY <5>1, <5>2
        <5> QED BY <5>1, <5>3, <3>2, WithinAgrees
      <4> QED BY <3>1, <4>1, <4>2
    <3> QED BY <3>2, <3>3, <2>0, <1>6
  <2>5. \/ p \in SystemEntries(h) \/ p \in {Real(h, q) : q \in ToolEntries(h)}
        \/ p = Bin(<<"usr">>) \/ p \in ExplicitEntries(h)
    <3> DEFINE A == SystemEntries(h)
               B == {Real(h, q) : q \in ToolEntries(h)}
               C == ExplicitEntries(h)
    <3>1. p \in (IF A \cup B = {} THEN {Bin(<<"usr">>)} ELSE A \cup B) \cup C  BY DEF SandboxPath
    <3> HIDE DEF A, B, C
    <3>2. p \in A \/ p \in B \/ p = Bin(<<"usr">>) \/ p \in C  BY <3>1
    <3> QED BY <3>2 DEF A, B, C
  <2> QED BY <2>1, <2>2, <2>3, <2>4, <2>5
<1>11. ASSUME NEW x \in Executables, x.at \in {Real(h, p) : p \in ToolEntries(h)}, RootsFor(h, x.real) # {}
       PROVE  Inside(h, ms, x.real)
  <2>1. PICK p \in ToolEntries(h) : x.at = Real(h, p)  BY <1>11
  <2>2. RootsFor(h, x.real) \subseteq D  BY <2>1, <1>9
  <2>3. x.real = Bin(Product)  BY DEF Executables
  <2>4. x.real \in Directories /\ x.real[1] = "opt" /\ Len(x.real) = 3
    BY <2>3, DirectoryNames DEF Directories, Starts3
  <2>5. ~Within(x.real, <<"workspace">>)
    <3> DEFINE y == x.real
               z == <<"workspace">>
    <3>1. y \in HostPaths /\ y[1] = "opt" /\ Len(y) = 3  BY <2>4, DirectoryPaths
    <3>2. z \in HostPaths /\ z[1] = "workspace" /\ Len(z) = 1  BY DirectoryNames DEF Starts1
    <3> HIDE DEF y, z
    <3>3. ~Overlaps(y, z)  BY <3>1, <3>2, FirstName
    <3> QED BY <3>3 DEF Overlaps, y, z
  <2>6. \E r \in D : Within(x.real, r)  BY <2>2, <2>4, <1>7, <1>11
  <2> QED BY <2>4, <2>5, <2>6, <1>6
<1>12. ASSUME shared, setup.resolver = "runtime" PROVE Inside(h, ms, Resolver)
  <2> DEFINE p == Resolver
  <2>1. p \in Via(shared)  BY <1>12 DEF Via
  <2>2. p \in Directories /\ p \in HostPaths /\ Len(p) = 2 /\ p[1] = "run"
    BY DirectoryNames DEF Directories, Starts2
  <2> HIDE DEF p
  <2>3. ~Within(p, <<"workspace">>)
    <3> DEFINE z == <<"workspace">>
    <3>1. z \in HostPaths /\ z[1] = "workspace" /\ Len(z) = 1  BY DirectoryNames DEF Starts1
    <3> HIDE DEF z
    <3>2. ~Overlaps(p, z)  BY <2>2, <3>1, FirstName
    <3> QED BY <3>2 DEF Overlaps, z
  <2>4. Within(p, p)  BY <2>2, WithinOrder
  <2>5. Inside(h, ms, p)  BY <1>2, <2>1, <2>2, <2>3, <2>4, StillSeen
  <2> QED BY <2>5 DEF p
<1> QED BY <1>10, <1>11, <1>12 DEF ms

-----------------------------------------------------------------------------
PlannedStates == {"planned", "term", "ended", "answered", "rejected"}
Plans == [mounts : Seq(MountRows), count : Nat, shared : BOOLEAN, host : [Movable -> HostPaths],
          workspace : {Workspace, Scratch}]

SandboxType ==
    /\ HostOK(host)
    /\ setup.forbidden \in {State, SystemState}
    /\ runtime \in [pc : {"start", "attest", "serving", "refused"}, roots : SUBSET Directories, path : SUBSET Directories]
    /\ \/ box.pc \in {"idle", "refused"}
       \/ box \in [pc : PlannedStates, plan : Plans, timedOut : BOOLEAN, alive : BOOLEAN]

(* The probe of the start found that no system directory shows the data,   *)
(* and none of the roots is the runtime's own.                             *)
ProbedOK == runtime.pc = "serving" => setup.forbidden = State /\ Kit \notin runtime.roots

(* Directories that never moved are the ones the roots were derived from.  *)
DerivedOK ==
    runtime.pc \in {"attest", "serving"} /\ Still(host) =>
        /\ runtime.roots = Collapse(Discovered(host) \cup ExplicitRootsOf(host))
        /\ runtime.path = SandboxPath(host)

(* The plan of a command is one of the host as it is, and was not refused. *)
PlanKept ==
    Planned =>
        /\ runtime.pc = "serving" /\ Plan.host = host
        /\ Plan.mounts = Mounts(PlannedRoots(host, runtime.roots), Plan.shared, Plan.workspace)
        /\ Plan.count = Cardinality(PlannedRoots(host, runtime.roots))
        /\ ~PlanRefused(host, runtime.roots, Plan.shared, Plan.workspace)

AnswerOK ==
    /\ box.pc \in {"ended", "answered", "rejected"} => ~box.alive
    /\ box.pc = "answered" => Plan.count = Cardinality(runtime.roots)

SandboxInv == SandboxType /\ ProbedOK /\ DerivedOK /\ PlanKept /\ AnswerOK

LEMMA SandboxStarts == SandboxInit => SandboxInv
<1> SUFFICES ASSUME SandboxInit PROVE SandboxInv  OBVIOUS
<1>1. HostOK(host)
  <2>1. host = [q \in Movable |-> q]  BY DEF SandboxInit
  <2>2. \A q \in Movable : q \in HostPaths  BY DirectoryNames DEF Movable, Starts2, Starts3
  <2> QED BY <2>1, <2>2 DEF HostOK
<1>2. setup.forbidden \in {State, SystemState}  BY DEF SandboxInit
<1>3. runtime = [pc |-> "start", roots |-> {}, path |-> {}] /\ box = [pc |-> "idle"]  BY DEF SandboxInit
<1>4. SandboxType  BY <1>1, <1>2, <1>3 DEF SandboxType
<1>5. runtime.pc = "start" /\ box.pc = "idle"  BY <1>3
<1> QED BY <1>4, <1>5 DEF SandboxInv, ProbedOK, DerivedOK, PlanKept, AnswerOK, Planned

LEMMA ExposeKeeps ==
    ASSUME SandboxInv, Expose
    PROVE  SandboxInv'
<1>1. /\ runtime.pc = "start" /\ host' = host /\ setup' = setup /\ box' = box  BY DEF Expose
<1>2. SandboxType  BY DEF SandboxInv
<1>3. ~Planned  BY <1>1 DEF SandboxInv, PlanKept
<1>4. box.pc \in {"idle", "refused"}  BY <1>2, <1>3 DEF SandboxType, Planned, PlannedStates
<1> DEFINE D == Discovered(host) \cup ExplicitRootsOf(host)
<1>5. D \subseteq Directories /\ Collapse(D) \subseteq Directories /\ SandboxPath(host) \subseteq Directories
  BY RootsTyped
<1> HIDE DEF D
<1>6. \/ runtime' = [runtime EXCEPT !.pc = "refused"]
      \/ runtime' = [pc |-> "attest", roots |-> Collapse(D), path |-> SandboxPath(host)]
  BY DEF Expose, D
<1>7. SandboxType'
  <2>1. runtime' \in [pc : {"start", "attest", "serving", "refused"}, roots : SUBSET Directories, path : SUBSET Directories]
    BY <1>2, <1>5, <1>6 DEF SandboxType
  <2> QED BY <1>1, <1>2, <1>4, <2>1 DEF SandboxType
<1>8. runtime'.pc # "serving"  BY <1>2, <1>6 DEF SandboxType
<1>9. DerivedOK'
  <2>1. CASE runtime' = [runtime EXCEPT !.pc = "refused"]
    <3>1. runtime'.pc = "refused"  BY <1>2, <2>1 DEF SandboxType
    <3> QED BY <3>1 DEF DerivedOK
  <2>2. CASE runtime' = [pc |-> "attest", roots |-> Collapse(D), path |-> SandboxPath(host)]
    <3>1. runtime'.roots = Collapse(D) /\ runtime'.path = SandboxPath(host)  BY <2>2
    <3>2. /\ Discovered(host)' = Discovered(host) /\ ExplicitRootsOf(host)' = ExplicitRootsOf(host)
          /\ SandboxPath(host)' = SandboxPath(host)
      BY <1>1, SetupStays
    <3> QED BY <3>1, <3>2 DEF DerivedOK, D
  <2> QED BY <1>6, <2>1, <2>2
<1>10. box'.pc \in {"idle", "refused"}  BY <1>1, <1>4
<1> QED BY <1>7, <1>8, <1>9, <1>10 DEF SandboxInv, ProbedOK, PlanKept, AnswerOK, Planned

LEMMA AttestKeeps ==
    ASSUME SandboxInv, Attest
    PROVE  SandboxInv'
<1> DEFINE R == runtime.roots
           passes == /\ ~PlanRefused(host, R, TRUE, Workspace)
                     /\ ProbePasses(PlanOf(TRUE, Workspace))
                     /\ PlanOf(TRUE, Workspace).count = Cardinality(R)
<1>1. /\ runtime.pc = "attest" /\ host' = host /\ setup' = setup /\ box' = box
      /\ runtime' = [runtime EXCEPT !.pc = IF passes THEN "serving" ELSE "refused"]
  BY DEF Attest
<1>2. SandboxType  BY DEF SandboxInv
<1>3. ~Planned  BY <1>1 DEF SandboxInv, PlanKept
<1>4. box.pc \in {"idle", "refused"}  BY <1>2, <1>3 DEF SandboxType, Planned, PlannedStates
<1>5. passes => ProbePasses(PlanOf(TRUE, Workspace))  OBVIOUS
<1> HIDE DEF passes
<1>6. /\ runtime'.roots = R /\ runtime'.path = runtime.path
      /\ runtime'.pc = IF passes THEN "serving" ELSE "refused"
      /\ R \subseteq Directories
  BY <1>1, <1>2 DEF SandboxType
<1>7. SandboxType'
  <2>1. runtime' \in [pc : {"start", "attest", "serving", "refused"}, roots : SUBSET Directories, path : SUBSET Directories]
    BY <1>1, <1>2 DEF SandboxType
  <2> QED BY <1>1, <1>2, <1>4, <2>1 DEF SandboxType
<1>8. ProbedOK'
  <2> SUFFICES ASSUME runtime'.pc = "serving" PROVE setup.forbidden = State /\ Kit \notin R
    BY <1>1, <1>6 DEF ProbedOK
  <2>1. ProbePasses(PlanOf(TRUE, Workspace))  BY <1>5, <1>6
  <2> DEFINE m == Mounts(PlannedRoots(host, R), TRUE, Workspace)
  <2>2. PlanOf(TRUE, Workspace).mounts = m  BY DEF PlanOf
  <2>3. ~Inside(host, m, setup.forbidden) /\ \A r \in R : Inside(host, m, r)
    BY <2>1, <2>2 DEF ProbePasses
  <2>4. HostOK(host) /\ setup.forbidden \in {State, SystemState}  BY <1>2 DEF SandboxType
  <2> QED BY <2>3, <2>4, <1>6, Attested
<1>9. DerivedOK'
  <2>1. /\ Discovered(host)' = Discovered(host) /\ ExplicitRootsOf(host)' = ExplicitRootsOf(host)
        /\ SandboxPath(host)' = SandboxPath(host)
    BY <1>1, SetupStays
  <2>2. DerivedOK  BY DEF SandboxInv
  <2> QED BY <1>1, <1>6, <2>1, <2>2 DEF DerivedOK
<1>10. box'.pc \in {"idle", "refused"}  BY <1>1, <1>4
<1> QED BY <1>7, <1>8, <1>9, <1>10 DEF SandboxInv, PlanKept, AnswerOK, Planned

(* A step that changes neither the host nor what the runtime derived.      *)
LEMMA RuntimeStays ==
    ASSUME SandboxInv, host' = host, setup' = setup, runtime' = runtime
    PROVE  ProbedOK' /\ DerivedOK'
<1>1. /\ Discovered(host)' = Discovered(host) /\ ExplicitRootsOf(host)' = ExplicitRootsOf(host)
      /\ SandboxPath(host)' = SandboxPath(host)
  BY SetupStays
<1> QED BY <1>1 DEF SandboxInv, ProbedOK, DerivedOK

LEMMA PrepareKeeps ==
    ASSUME SandboxInv, NEW shared \in BOOLEAN, NEW w \in {Workspace, Scratch}, Prepare(shared, w)
    PROVE  SandboxInv'
<1> DEFINE R == runtime.roots
           plan == PlanOf(shared, w)
           ms == Mounts(PlannedRoots(host, R), shared, w)
<1>1. /\ runtime.pc = "serving" /\ host' = host /\ setup' = setup /\ runtime' = runtime
      /\ box' = IF PlanRefused(host, R, shared, w) THEN [pc |-> "refused"]
                ELSE [pc |-> "planned", plan |-> plan, timedOut |-> FALSE, alive |-> TRUE]
  BY DEF Prepare
<1>2. SandboxType /\ ProbedOK' /\ DerivedOK'  BY <1>1, RuntimeStays DEF SandboxInv
<1>3. /\ plan.mounts = ms /\ plan.count = Cardinality(PlannedRoots(host, R)) /\ plan.shared = shared
      /\ plan.host = host /\ plan.workspace = w
      /\ plan = [mounts |-> ms, count |-> Cardinality(PlannedRoots(host, R)), shared |-> shared, host |-> host, workspace |-> w]
  BY DEF PlanOf
<1>4. plan \in Plans
  <2>1. ms \in Seq(MountRows)  BY PlannedMounts DEF MountsOK
  <2>2. Cardinality(PlannedRoots(host, R)) \in Nat  BY PlannedTyped, DirectorySets
  <2>3. host \in [Movable -> HostPaths]  BY <1>2 DEF SandboxType, HostOK
  <2> HIDE DEF plan, ms
  <2> QED BY <1>3, <2>1, <2>2, <2>3 DEF Plans
<1> HIDE DEF plan, ms
<1>5. CASE PlanRefused(host, R, shared, w)
  <2>1. box'.pc = "refused"  BY <1>1, <1>5
  <2>2. SandboxType'  BY <1>1, <1>2, <2>1 DEF SandboxType
  <2> QED BY <1>2, <2>1, <2>2 DEF SandboxInv, PlanKept, AnswerOK, Planned
<1>6. CASE ~PlanRefused(host, R, shared, w)
  <2>1. box' = [pc |-> "planned", plan |-> plan, timedOut |-> FALSE, alive |-> TRUE]  BY <1>1, <1>6
  <2>2. box'.pc = "planned" /\ box'.plan = plan  BY <2>1
  <2>3. box' \in [pc : PlannedStates, plan : Plans, timedOut : BOOLEAN, alive : BOOLEAN]
    BY <2>1, <1>4 DEF PlannedStates
  <2>4. SandboxType'  BY <1>1, <1>2, <2>3 DEF SandboxType
  <2>5. ~PlanRefused(host, R, shared, w)' /\ ms = Mounts(PlannedRoots(host, R), shared, w)'
    BY <1>1, <1>6, SetupStays DEF ms, PlannedRoots
  <2>6. PlanKept'
    <3>1. PlannedRoots(host, runtime.roots)' = PlannedRoots(host, R)  BY <1>1
    <3> QED BY <1>1, <1>3, <1>6, <2>2, <3>1, SetupStays DEF PlanKept, Plan, ms
  <2> QED BY <1>2, <2>2, <2>4, <2>6 DEF SandboxInv, AnswerOK
<1> QED BY <1>5, <1>6

(* A step of the command that is planned leaves its plan as it is.         *)
LEMMA BoxKeeps ==
    ASSUME SandboxInv, Planned, host' = host, setup' = setup, runtime' = runtime,
           NEW pc \in PlannedStates, NEW late \in BOOLEAN, NEW alive \in BOOLEAN,
           box' = [box EXCEPT !.pc = pc, !.timedOut = late, !.alive = alive],
           pc \in {"ended", "answered", "rejected"} => ~alive,
           pc = "answered" => Plan.count = Cardinality(runtime.roots)
    PROVE  SandboxInv'
<1>1. SandboxType /\ PlanKept /\ ProbedOK' /\ DerivedOK'  BY RuntimeStays DEF SandboxInv
<1>2. box \in [pc : PlannedStates, plan : Plans, timedOut : BOOLEAN, alive : BOOLEAN]
  BY <1>1 DEF SandboxType, Planned
<1>3. /\ box'.pc = pc /\ box'.plan = box.plan /\ box'.alive = alive
      /\ box' \in [pc : PlannedStates, plan : Plans, timedOut : BOOLEAN, alive : BOOLEAN]
  BY <1>2
<1>4. SandboxType'  BY <1>1, <1>3 DEF SandboxType
<1>5. PlanKept'
  <2>1. PlannedRoots(host, runtime.roots)' = PlannedRoots(host, runtime.roots)  OBVIOUS
  <2> QED BY <1>1, <1>3, <2>1, SetupStays DEF PlanKept, Plan
<1>6. AnswerOK'  BY <1>3 DEF AnswerOK, Plan
<1> QED BY <1>1, <1>4, <1>5, <1>6 DEF SandboxInv

LEMMA HostChangeKeeps ==
    ASSUME SandboxInv, NEW q \in Movable, NEW to \in {Nowhere, UserHome, State, WrapperDir}, HostChange(q, to)
    PROVE  SandboxInv'
<1>1. /\ host[q] = q /\ box.pc = "idle" /\ host' = [host EXCEPT ![q] = to]
      /\ setup' = setup /\ runtime' = runtime /\ box' = box
  BY DEF HostChange
<1>2. SandboxType /\ ProbedOK  BY DEF SandboxInv
<1>3. host \in [Movable -> HostPaths] /\ \A p \in Movable : host[p] \in {p, Nowhere, UserHome, State, WrapperDir}
  BY <1>2 DEF SandboxType, HostOK
<1>4. to \in HostPaths /\ to # q
  <2>1. /\ to \in HostPaths
        /\ \/ Starts1(to, "nowhere") \/ Starts2(to, "home", "u")
           \/ Starts3(to, "home", "u", "state") \/ Starts2(to, "srv", "wrappers")
    BY DirectoryNames DEF Starts1, Starts2, Starts3
  <2>2. Starts3(q, "home", "u", "tool") \/ Starts2(q, "opt", "product")  BY DirectoryNames DEF Movable
  <2> QED BY <2>1, <2>2 DEF Starts1, Starts2, Starts3
<1>5. host'[q] = to /\ \A p \in Movable : p # q => host'[p] = host[p]  BY <1>1, <1>3
<1>6. HostOK(host')  BY <1>1, <1>3, <1>4, <1>5 DEF HostOK
<1>7. SandboxType'  BY <1>1, <1>2, <1>6 DEF SandboxType
<1>8. ~Still(host')  BY <1>4, <1>5 DEF Still
<1>9. ProbedOK' /\ DerivedOK'  BY <1>1, <1>2, <1>8 DEF ProbedOK, DerivedOK
<1> QED BY <1>1, <1>7, <1>9 DEF SandboxInv, PlanKept, AnswerOK, Planned

LEMMA SandboxStays == SandboxInv /\ [SandboxNext]_sandboxVars => SandboxInv'
<1> SUFFICES ASSUME SandboxInv, [SandboxNext]_sandboxVars PROVE SandboxInv'  OBVIOUS
<1>0. ASSUME Planned
      PROVE  /\ box \in [pc : PlannedStates, plan : Plans, timedOut : BOOLEAN, alive : BOOLEAN]
             /\ box = [box EXCEPT !.timedOut = box.timedOut] /\ box = [box EXCEPT !.alive = box.alive]
  BY <1>0 DEF SandboxInv, SandboxType, Planned
<1>1. CASE Expose  BY <1>1, ExposeKeeps
<1>2. CASE Attest  BY <1>2, AttestKeeps
<1>3. CASE PrepareExec  BY <1>3, PrepareKeeps DEF PrepareExec
<1>4. CASE PrepareHelper  BY <1>4, PrepareKeeps DEF PrepareHelper
<1>5. CASE CommandEnds \/ EndsLate
  <2>1. Planned /\ host' = host /\ setup' = setup /\ runtime' = runtime
        /\ box' = [box EXCEPT !.pc = "ended", !.alive = FALSE]
    BY <1>5 DEF CommandEnds, EndsLate, Boxed, Planned
  <2>2. box' = [box EXCEPT !.pc = "ended", !.timedOut = box.timedOut, !.alive = FALSE] /\ box.timedOut \in BOOLEAN
    BY <2>1, <1>0
  <2>3. "ended" \in PlannedStates /\ "ended" # "answered"  BY DEF PlannedStates
  <2> QED BY <2>1, <2>2, <2>3, BoxKeeps
<1>6. CASE Deadline
  <2>1. Planned /\ host' = host /\ setup' = setup /\ runtime' = runtime
        /\ box' = [box EXCEPT !.pc = "term", !.timedOut = TRUE]
    BY <1>6 DEF Deadline, Boxed, Planned
  <2>2. box' = [box EXCEPT !.pc = "term", !.timedOut = TRUE, !.alive = box.alive] /\ box.alive \in BOOLEAN
    BY <2>1, <1>0
  <2>3. "term" \in PlannedStates /\ "term" \notin {"ended", "answered", "rejected"}  BY DEF PlannedStates
  <2> QED BY <2>1, <2>2, <2>3, BoxKeeps
<1>7. CASE HelperAnswers
  <2> DEFINE pc == IF box.plan.count = Cardinality(runtime.roots) THEN "answered" ELSE "rejected"
  <2>1. Planned /\ host' = host /\ setup' = setup /\ runtime' = runtime /\ box.pc = "ended"
        /\ box' = [box EXCEPT !.pc = pc]
    BY <1>7 DEF HelperAnswers, Boxed, Planned
  <2>2. pc \in PlannedStates /\ (pc = "answered" => Plan.count = Cardinality(runtime.roots))
    BY DEF PlannedStates, Plan
  <2> HIDE DEF pc
  <2>3. box' = [box EXCEPT !.pc = pc, !.timedOut = box.timedOut, !.alive = box.alive]
        /\ box.timedOut \in BOOLEAN /\ box.alive \in BOOLEAN
    BY <2>1, <1>0
  <2>4. ~box.alive  BY <2>1 DEF SandboxInv, AnswerOK
  <2> QED BY <2>1, <2>2, <2>3, <2>4, BoxKeeps
<1>8. CASE \E q \in Movable, to \in {Nowhere, UserHome, State, WrapperDir} : HostChange(q, to)
  BY <1>8, HostChangeKeeps
<1>9. CASE UNCHANGED sandboxVars
  <2>1. host' = host /\ setup' = setup /\ runtime' = runtime /\ box' = box  BY <1>9 DEF sandboxVars
  <2>2. SandboxType /\ PlanKept /\ AnswerOK /\ ProbedOK' /\ DerivedOK'  BY <2>1, RuntimeStays DEF SandboxInv
  <2>3. SandboxType' /\ AnswerOK'  BY <2>1, <2>2 DEF SandboxType, AnswerOK, Plan
  <2>4. PlanKept'  BY <2>1, <2>2, SetupStays DEF PlanKept, Planned, Plan
  <2> QED BY <2>2, <2>3, <2>4 DEF SandboxInv
<1> QED BY <1>1, <1>2, <1>3, <1>4, <1>5, <1>6, <1>7, <1>8, <1>9 DEF SandboxNext

(* Moves counts the directories that are not what they were.               *)
LEMMA NoMoves == Moves = 0 => Still(host)
<1> DEFINE M == {q \in Movable : host[q] # q}
<1>1. IsFiniteSet({Tool, Product, Product, Product})  BY FewFinite
<1>2. Movable = {Tool, Product, Product, Product}  BY DEF Movable
<1>3. IsFiniteSet(M)
  <2>1. M \in SUBSET Movable  OBVIOUS
  <2> QED BY <1>1, <1>2, <2>1, FS_Subset
<1>4. Cardinality(M) = 0 => M = {}  BY <1>3, FS_EmptySet
<1> QED BY <1>4 DEF Moves, Still

LEMMA SandboxInvSound == SandboxInv => SandboxSound
<1> SUFFICES ASSUME SandboxInv PROVE SandboxSound  OBVIOUS
<1> DEFINE R == runtime.roots
<1>1. /\ SandboxType /\ ProbedOK /\ DerivedOK /\ PlanKept /\ AnswerOK
      /\ HostOK(host) /\ R \subseteq Directories
  BY DEF SandboxInv, SandboxType
<1>2. ASSUME Planned
      PROVE  /\ Plan.shared \in BOOLEAN /\ Plan.workspace \in {Workspace, Scratch}
             /\ runtime.pc = "serving" /\ Plan.host = host
             /\ Plan.mounts = Mounts(PlannedRoots(host, R), Plan.shared, Plan.workspace)
             /\ Plan.count = Cardinality(PlannedRoots(host, R))
             /\ ~PlanRefused(host, R, Plan.shared, Plan.workspace)
             /\ setup.forbidden = State /\ Kit \notin R
  <2>1. box \in [pc : PlannedStates, plan : Plans, timedOut : BOOLEAN, alive : BOOLEAN]
    BY <1>1, <1>2 DEF SandboxType, Planned
  <2>2. Plan \in Plans  BY <2>1 DEF Plan
  <2>3. Plan.shared \in BOOLEAN /\ Plan.workspace \in {Workspace, Scratch}  BY <2>2 DEF Plans
  <2> QED BY <1>1, <1>2, <2>3 DEF PlanKept, ProbedOK
<1>3. DataHidden
  <2> SUFFICES ASSUME Planned, NEW i \in DOMAIN Plan.mounts
               PROVE  /\ Plan.mounts[i].kind # "fresh" => ~Overlaps(Plan.mounts[i].from, setup.forbidden)
                      /\ Plan.mounts[i].kind = "write" <=> Plan.mounts[i].from = Plan.workspace
    BY DEF DataHidden
  <2> QED BY <1>2, DataStaysHidden
<1>4. ToolsReachable
  <2> SUFFICES ASSUME Planned, Moves = 0
               PROVE  /\ \A p \in runtime.path : HiddenByWorkspace(p) \/ Inside(host, Plan.mounts, p)
                      /\ \A x \in Executables :
                            x.at \in SearchedTools /\ RootsFor(host, x.real) # {} => Inside(host, Plan.mounts, x.real)
                      /\ Plan.shared /\ setup.resolver = "runtime" => Inside(host, Plan.mounts, Resolver)
    BY DEF ToolsReachable
  <2>1. Still(host)  BY NoMoves
  <2>2. R = Collapse(Discovered(host) \cup ExplicitRootsOf(host)) /\ runtime.path = SandboxPath(host)
    BY <1>1, <1>2, <2>1 DEF DerivedOK
  <2> DEFINE ms == Mounts(PlannedRoots(host, R), Plan.shared, Plan.workspace)
  <2>3. /\ \A p \in SandboxPath(host) : HiddenByWorkspace(p) \/ Inside(host, ms, p)
        /\ \A x \in Executables :
              x.at \in {Real(host, p) : p \in ToolEntries(host)} /\ RootsFor(host, x.real) # {} => Inside(host, ms, x.real)
        /\ Plan.shared /\ setup.resolver = "runtime" => Inside(host, ms, Resolver)
    BY <1>2, <2>1, <2>2, ToolsSeen
  <2>4. Plan.mounts = ms  BY <1>2
  <2> HIDE DEF ms
  <2> QED BY <2>2, <2>3, <2>4 DEF SearchedTools
<1>5. HelperAnswersComplete
  <2> SUFFICES ASSUME box.pc = "answered"
               PROVE  /\ ~box.alive
                      /\ \A r, q \in R : r # q => Real(Plan.host, r) # Real(Plan.host, q)
                      /\ \A r \in R : Inside(Plan.host, Plan.mounts, Real(Plan.host, r))
    BY DEF HelperAnswersComplete
  <2>1. Planned  BY DEF Planned
  <2>2. ~box.alive /\ Plan.count = Cardinality(R)  BY <1>1 DEF AnswerOK
  <2>3. Cardinality(PlannedRoots(host, R)) = Cardinality(R)  BY <1>2, <2>1, <2>2
  <2>4. /\ \A r \in R : IsDir(host, r)
        /\ \A r, q \in R : r # q => Real(host, r) # Real(host, q)
    BY <1>1, <2>3, AllPlanned
  <2>5. \A r \in R : Inside(host, Plan.mounts, Real(host, r))
    BY <1>1, <1>2, <2>1, <2>4, RootsSeen
  <2> QED BY <1>2, <2>1, <2>2, <2>4, <2>5
<1> QED BY <1>3, <1>4, <1>5 DEF SandboxSound

(* Whatever PATHs and tool directories a host is configured with, and      *)
(* however often its tool directories change between two commands: a       *)
(* command sees its tools and its workspace, and nothing of the program's  *)
(* data (plan_sandbox, attest, validate_helper_response).                  *)
THEOREM SandboxAlwaysSound == SandboxSpec => []SandboxSound
<1> QED BY SandboxStarts, SandboxStays, SandboxInvSound, PTL DEF SandboxSpec

-----------------------------------------------------------------------------
(* The rules a patch is looked up by: git is asked path after path, and    *)
(* the files the rules come from are printed before and after.             *)

Metas == [MetaFiles -> Nat]
RelevantOf(c) == IF c % 2 = 1 THEN <<"config", "ignore", "include">> ELSE <<"config", "ignore">>
RulesOf(m) == [f \in MetaFiles |-> IF \E i \in DOMAIN RelevantOf(m["config"]) : RelevantOf(m["config"])[i] = f THEN m[f] ELSE 0]
FileLists == {<<>>, <<"config", "ignore">>, <<"config", "ignore", "include">>}
LookupStates == {"paths", "before", "facts", "again", "after", "prepared", "committed", "refused"}

IgnoreType ==
    /\ meta \in Metas
    /\ lookup \in [pc : LookupStates, attempt : Nat, files : FileLists, before : Seq(Nat), facts : Seq(Metas),
                   again : FileLists, after : Seq(Nat), checked : Nat, late : BOOLEAN]

(* How far the lookups have come.                                          *)
LookupShape(l) ==
    /\ l.pc = "paths" => l.files = <<>>
    /\ l.pc # "paths" => l.files # <<>>
    /\ Len(l.before) <= Len(l.files) /\ Len(l.after) <= Len(l.files) /\ Len(l.facts) <= PatchPaths
    /\ l.pc \in {"paths", "before"} => l.facts = <<>>
    /\ l.pc \notin {"paths", "before"} => Len(l.before) = Len(l.files)
    /\ l.pc \in {"paths", "before", "facts", "again"} => l.after = <<>>
    /\ l.pc \in {"again", "after", "prepared", "committed"} => Len(l.facts) = PatchPaths
    /\ l.pc \in {"prepared", "committed"} => l.again = l.files /\ l.before = l.after
    /\ l.pc \notin {"prepared", "committed"} => l.checked = 0
    /\ l.checked <= Len(l.files)
    /\ l.pc = "committed" => l.checked = Len(l.files)

(* Versions only grow: each fact is of a state between the two prints.     *)
SeenBetween(l, m, now) ==
    /\ m \in Metas
    /\ \A i \in 1..Len(l.before) : l.before[i] <= m[l.files[i]]
    /\ \A i \in 1..Len(l.after) : m[l.files[i]] <= l.after[i]
    /\ \A f \in MetaFiles : m[f] <= now[f]
FactsSeen(l, now) == \A k \in 1..Len(l.facts) : \E m : l.facts[k] = RulesOf(m) /\ SeenBetween(l, m, now)
AgainSeen(l, now) == l.pc \in {"after", "prepared", "committed"} =>
    \E m : l.again = RelevantOf(m["config"]) /\ SeenBetween(l, m, now)
PrintsSeen(l, now) ==
    /\ \A i \in 1..Len(l.before) : l.before[i] <= now[l.files[i]]
    /\ \A i \in 1..Len(l.after) : l.after[i] <= now[l.files[i]]
    /\ ~l.late => \A i \in 1..l.checked : now[l.files[i]] = l.after[i]

IgnoreInv ==
    /\ IgnoreType
    /\ lookup.pc # "refused" =>
         LookupShape(lookup) /\ FactsSeen(lookup, meta) /\ AgainSeen(lookup, meta) /\ PrintsSeen(lookup, meta)

LEMMA FileListsAre ==
    /\ \A l \in FileLists : /\ Len(l) \in Nat /\ \A i \in 1..Len(l) : l[i] \in MetaFiles
                            /\ l # <<>> => Len(l) >= 1 /\ l[1] = "config"
    /\ <<>> \in FileLists /\ Len(<<>>) = 0
    /\ \A c : RelevantOf(c) \in FileLists /\ RelevantOf(c) # <<>>
  BY DEF FileLists, MetaFiles, RelevantOf

LEMMA RulesTyped ==
    /\ \A m \in Metas : RulesOf(m) \in Metas
    /\ Relevant = RelevantOf(meta["config"]) /\ Rules = RulesOf(meta)
<1>1. \A m \in Metas : RulesOf(m) \in Metas  BY DEF RulesOf, Metas
<1>2. Relevant = RelevantOf(meta["config"])  BY DEF Relevant, RelevantOf
<1>3. Rules = RulesOf(meta)  BY <1>2 DEF Rules, RulesOf
<1> QED BY <1>1, <1>2, <1>3

LEMMA IgnoreStarts == IgnoreInit => IgnoreInv
<1> SUFFICES ASSUME IgnoreInit PROVE IgnoreInv  OBVIOUS
<1>1. meta \in Metas  BY DEF IgnoreInit, Metas
<1>2. lookup = [pc |-> "paths", attempt |-> 1, files |-> <<>>, before |-> <<>>, facts |-> <<>>,
                again |-> <<>>, after |-> <<>>, checked |-> 0, late |-> FALSE]
  BY DEF IgnoreInit, NoLookup
<1>3. IgnoreType
  <2>1. <<>> \in Seq(Nat) /\ <<>> \in Seq(Metas)  BY EmptySeq
  <2> QED BY <1>1, <1>2, <2>1, FileListsAre DEF IgnoreType, LookupStates
<1>4. LookupShape(lookup)  BY <1>2, FileListsAre, IgnoreBounds DEF LookupShape
<1>5. FactsSeen(lookup, meta) /\ AgainSeen(lookup, meta) /\ PrintsSeen(lookup, meta)
  BY <1>2, FileListsAre DEF FactsSeen, AgainSeen, PrintsSeen
<1> QED BY <1>3, <1>4, <1>5 DEF IgnoreInv

(* What an edit of the rules does.                                         *)
LEMMA EditsKeep ==
    ASSUME IgnoreInv, NEW f \in MetaFiles, EditMeta(f)
    PROVE  IgnoreInv'
<1>1. /\ lookup.pc # "refused" /\ lookup.pc # "committed"
      /\ meta' = [meta EXCEPT ![f] = @ + 1]
      /\ lookup' = [lookup EXCEPT !.late = @ \/ \E i \in 1..lookup.checked : lookup.files[i] = f]
  BY DEF EditMeta
<1>2. IgnoreType /\ LookupShape(lookup) /\ FactsSeen(lookup, meta) /\ AgainSeen(lookup, meta) /\ PrintsSeen(lookup, meta)
  BY <1>1 DEF IgnoreInv
<1>3. /\ meta' \in Metas /\ \A g \in MetaFiles : meta[g] \in Nat /\ meta'[g] \in Nat /\ meta[g] <= meta'[g]
      /\ \A g \in MetaFiles : g # f => meta'[g] = meta[g]
  BY <1>1, <1>2 DEF IgnoreType, Metas
<1>4. /\ lookup'.pc = lookup.pc /\ lookup'.files = lookup.files /\ lookup'.before = lookup.before
      /\ lookup'.facts = lookup.facts /\ lookup'.again = lookup.again /\ lookup'.after = lookup.after
      /\ lookup'.checked = lookup.checked
      /\ lookup'.late = (lookup.late \/ \E i \in 1..lookup.checked : lookup.files[i] = f)
      /\ lookup' \in [pc : LookupStates, attempt : Nat, files : FileLists, before : Seq(Nat), facts : Seq(Metas),
                      again : FileLists, after : Seq(Nat), checked : Nat, late : BOOLEAN]
  BY <1>1, <1>2 DEF IgnoreType
<1>5. IgnoreType'  BY <1>3, <1>4 DEF IgnoreType
<1>6. LookupShape(lookup')  BY <1>2, <1>4 DEF LookupShape
<1>7. ASSUME NEW m, SeenBetween(lookup, m, meta) PROVE SeenBetween(lookup', m, meta')
  <2>1. \A g \in MetaFiles : m[g] \in Nat /\ m[g] <= meta[g]  BY <1>7 DEF SeenBetween, Metas
  <2>2. \A g \in MetaFiles : m[g] <= meta'[g]  BY <2>1, <1>3
  <2> QED BY <1>4, <1>7, <2>2 DEF SeenBetween
<1>8. FactsSeen(lookup', meta')  BY <1>2, <1>4, <1>7 DEF FactsSeen
<1>9. AgainSeen(lookup', meta')  BY <1>2, <1>4, <1>7 DEF AgainSeen
<1>10. PrintsSeen(lookup', meta')
  <2>1. /\ lookup.before \in Seq(Nat) /\ lookup.after \in Seq(Nat) /\ lookup.files \in FileLists /\ lookup.checked \in Nat
        /\ Len(lookup.before) \in Nat /\ Len(lookup.after) \in Nat /\ Len(lookup.files) \in Nat
        /\ lookup.late \in BOOLEAN
        /\ Len(lookup.before) <= Len(lookup.files) /\ Len(lookup.after) <= Len(lookup.files)
        /\ lookup.checked <= Len(lookup.files)
    BY <1>2, FileListsAre DEF IgnoreType, LookupShape
  <2>2. \A i \in 1..Len(lookup.files) : lookup.files[i] \in MetaFiles  BY <2>1, FileListsAre
  <2>3. ASSUME NEW i \in 1..Len(lookup.before) PROVE lookup.before[i] <= meta'[lookup.files[i]]
    <3>1. lookup.before[i] \in Nat /\ lookup.before[i] <= meta[lookup.files[i]]  BY <2>1, <1>2 DEF PrintsSeen
    <3>2. lookup.files[i] \in MetaFiles  BY <2>1, <2>2
    <3> QED BY <3>1, <3>2, <1>3
  <2>4. ASSUME NEW i \in 1..Len(lookup.after) PROVE lookup.after[i] <= meta'[lookup.files[i]]
    <3>1. lookup.after[i] \in Nat /\ lookup.after[i] <= meta[lookup.files[i]]  BY <2>1, <1>2 DEF PrintsSeen
    <3>2. lookup.files[i] \in MetaFiles  BY <2>1, <2>2
    <3> QED BY <3>1, <3>2, <1>3
  <2>5. ASSUME ~lookup'.late, NEW i \in 1..lookup.checked PROVE meta'[lookup.files[i]] = lookup.after[i]
    <3>1. ~lookup.late /\ lookup.files[i] # f  BY <2>1, <2>5, <1>4
    <3>2. lookup.files[i] \in MetaFiles  BY <2>1, <2>2
    <3>3. meta[lookup.files[i]] = lookup.after[i]  BY <3>1, <1>2 DEF PrintsSeen
    <3> QED BY <3>1, <3>2, <3>3, <1>3
  <2> QED BY <2>3, <2>4, <2>5, <1>4 DEF PrintsSeen
<1> QED BY <1>5, <1>6, <1>8, <1>9, <1>10 DEF IgnoreInv

(* What is known of a lookup under way.                                    *)
LEMMA UnderWay ==
    ASSUME IgnoreInv, lookup.pc # "refused"
    PROVE  /\ LookupShape(lookup) /\ FactsSeen(lookup, meta) /\ AgainSeen(lookup, meta) /\ PrintsSeen(lookup, meta)
           /\ meta \in Metas /\ \A f \in MetaFiles : meta[f] \in Nat
           /\ lookup \in [pc : LookupStates, attempt : Nat, files : FileLists, before : Seq(Nat), facts : Seq(Metas),
                          again : FileLists, after : Seq(Nat), checked : Nat, late : BOOLEAN]
           /\ Len(lookup.files) \in Nat /\ Len(lookup.before) \in Nat /\ Len(lookup.after) \in Nat
           /\ Len(lookup.facts) \in Nat
           /\ \A i \in 1..Len(lookup.files) : lookup.files[i] \in MetaFiles
<1>1. IgnoreType  BY DEF IgnoreInv
<1>2. lookup.files \in FileLists /\ lookup.before \in Seq(Nat) /\ lookup.after \in Seq(Nat) /\ lookup.facts \in Seq(Metas)
  BY <1>1 DEF IgnoreType
<1> QED BY <1>1, <1>2, FileListsAre DEF IgnoreInv, IgnoreType, Metas

(* A step that reads nothing new and edits nothing keeps what was seen.    *)
LEMMA SeenStays ==
    ASSUME IgnoreInv, lookup.pc # "refused", UNCHANGED meta,
           lookup'.files = lookup.files, lookup'.before = lookup.before, lookup'.facts = lookup.facts,
           lookup'.again = lookup.again, lookup'.after = lookup.after,
           lookup'.pc \in {"after", "prepared", "committed"} => lookup.pc \in {"after", "prepared", "committed"}
    PROVE  FactsSeen(lookup', meta') /\ AgainSeen(lookup', meta')
<1>1. FactsSeen(lookup, meta) /\ AgainSeen(lookup, meta)  BY UnderWay
<1>2. \A m : SeenBetween(lookup, m, meta) = SeenBetween(lookup', m, meta')  BY DEF SeenBetween
<1>3. FactsSeen(lookup', meta')  BY <1>1, <1>2 DEF FactsSeen
<1>4. AgainSeen(lookup', meta')  BY <1>1, <1>2 DEF AgainSeen
<1> QED BY <1>3, <1>4

(* The files whose rules are in force are looked for.                      *)
LEMMA FindingKeeps == ASSUME IgnoreInv, FindFiles PROVE IgnoreInv'
<1>1. /\ lookup.pc = "paths" /\ meta' = meta
      /\ lookup' = [lookup EXCEPT !.pc = "before", !.files = Relevant]
  BY DEF FindFiles
<1>2. LookupShape(lookup) /\ PrintsSeen(lookup, meta)  BY <1>1, UnderWay
<1>3. Relevant \in FileLists /\ Relevant # <<>> /\ Len(Relevant) \in Nat
  BY FileListsAre, RulesTyped, Zenon
<1>4. /\ lookup.files = <<>> /\ Len(lookup.files) = 0 /\ Len(lookup.before) = 0 /\ Len(lookup.after) = 0
      /\ lookup.facts = <<>> /\ Len(lookup.facts) = 0 /\ lookup.after = <<>> /\ lookup.checked = 0
  BY <1>1, <1>2, UnderWay, FileListsAre DEF LookupShape
<1>5. /\ lookup'.pc = "before" /\ lookup'.files = Relevant /\ lookup'.before = lookup.before /\ lookup'.facts = lookup.facts
      /\ lookup'.after = lookup.after /\ lookup'.again = lookup.again /\ lookup'.checked = lookup.checked
      /\ lookup'.late = lookup.late
      /\ lookup' \in [pc : LookupStates, attempt : Nat, files : FileLists, before : Seq(Nat), facts : Seq(Metas),
                      again : FileLists, after : Seq(Nat), checked : Nat, late : BOOLEAN]
  BY <1>1, <1>3, UnderWay DEF LookupStates
<1>6. IgnoreType'  BY <1>1, <1>5, UnderWay DEF IgnoreType
<1>7. LookupShape(lookup')  BY <1>3, <1>4, <1>5, IgnoreBounds DEF LookupShape
<1>8. FactsSeen(lookup', meta') /\ AgainSeen(lookup', meta') /\ PrintsSeen(lookup', meta')
  BY <1>1, <1>4, <1>5 DEF FactsSeen, AgainSeen, PrintsSeen
<1> QED BY <1>6, <1>7, <1>8 DEF IgnoreInv

(* They are looked for once more: what is found is of a state between.     *)
LEMMA FindingAgainKeeps == ASSUME IgnoreInv, FindFilesAgain PROVE IgnoreInv'
<1>1. /\ lookup.pc = "again" /\ meta' = meta
      /\ lookup' = [lookup EXCEPT !.pc = "after", !.again = Relevant]
  BY DEF FindFilesAgain
<1>2. LookupShape(lookup) /\ FactsSeen(lookup, meta) /\ PrintsSeen(lookup, meta)  BY <1>1, UnderWay
<1>3. Relevant \in FileLists /\ Relevant = RelevantOf(meta["config"])  BY FileListsAre, RulesTyped, Zenon
<1>4. lookup.after = <<>> /\ Len(lookup.after) = 0  BY <1>1, <1>2, UnderWay, FileListsAre DEF LookupShape
<1>5. /\ lookup'.pc = "after" /\ lookup'.files = lookup.files /\ lookup'.before = lookup.before /\ lookup'.facts = lookup.facts
      /\ lookup'.after = lookup.after /\ lookup'.again = Relevant /\ lookup'.checked = lookup.checked
      /\ lookup'.late = lookup.late
      /\ lookup' \in [pc : LookupStates, attempt : Nat, files : FileLists, before : Seq(Nat), facts : Seq(Metas),
                      again : FileLists, after : Seq(Nat), checked : Nat, late : BOOLEAN]
  BY <1>1, <1>3, UnderWay DEF LookupStates
<1>6. IgnoreType'  BY <1>1, <1>5, UnderWay DEF IgnoreType
<1>7. LookupShape(lookup')  BY <1>1, <1>2, <1>5 DEF LookupShape
<1>8. \A m : SeenBetween(lookup, m, meta) = SeenBetween(lookup', m, meta')  BY <1>1, <1>5 DEF SeenBetween
<1>9. FactsSeen(lookup', meta')  BY <1>2, <1>5, <1>8 DEF FactsSeen
<1>10. AgainSeen(lookup', meta')
  <2>1. \A i \in 1..Len(lookup.before) : lookup.before[i] <= meta[lookup.files[i]]  BY <1>2 DEF PrintsSeen
  <2>2. \A f \in MetaFiles : meta[f] <= meta[f]  BY <1>1, UnderWay
  <2>3. SeenBetween(lookup, meta, meta)  BY <1>1, <1>4, <2>1, <2>2, UnderWay DEF SeenBetween
  <2> QED BY <1>3, <1>5, <1>8, <2>3 DEF AgainSeen
<1>11. PrintsSeen(lookup', meta')  BY <1>1, <1>2, <1>5 DEF PrintsSeen
<1> QED BY <1>6, <1>7, <1>9, <1>10, <1>11 DEF IgnoreInv

(* The prints before the lookups are taken.                                *)
LEMMA CapturingKeeps == ASSUME IgnoreInv, Capture PROVE IgnoreInv'
<1>1. lookup.pc = "before" /\ meta' = meta  BY DEF Capture
<1>2. LookupShape(lookup) /\ PrintsSeen(lookup, meta)  BY <1>1, UnderWay
<1>3. /\ lookup.facts = <<>> /\ Len(lookup.facts) = 0 /\ lookup.after = <<>> /\ Len(lookup.after) = 0
      /\ lookup.files # <<>> /\ lookup.checked = 0 /\ Len(lookup.before) <= Len(lookup.files)
  BY <1>1, <1>2, FileListsAre DEF LookupShape
<1>4. CASE Len(lookup.before) < Len(lookup.files)
  <2> DEFINE n == Len(lookup.before) + 1
  <2>1. n \in 1..Len(lookup.files) /\ n \in Nat  BY <1>1, <1>4, UnderWay
  <2>2. lookup.files[n] \in MetaFiles /\ meta[lookup.files[n]] \in Nat  BY <1>1, <2>1, UnderWay
  <2>3. lookup' = [lookup EXCEPT !.before = Append(@, meta[lookup.files[n]])]  BY <1>4 DEF Capture
  <2>4. /\ lookup'.pc = "before" /\ lookup'.files = lookup.files /\ lookup'.facts = lookup.facts
        /\ lookup'.before = Append(lookup.before, meta[lookup.files[n]])
        /\ lookup'.after = lookup.after /\ lookup'.again = lookup.again /\ lookup'.checked = lookup.checked
        /\ lookup'.late = lookup.late /\ lookup'.attempt = lookup.attempt
        /\ lookup'.before \in Seq(Nat) /\ Len(lookup'.before) = n
        /\ \A i \in 1..n : lookup'.before[i] = IF i = n THEN meta[lookup.files[n]] ELSE lookup.before[i]
    <3>1. lookup.before \in Seq(Nat)  BY <1>1, UnderWay
    <3>2. /\ lookup'.pc = "before" /\ lookup'.files = lookup.files /\ lookup'.facts = lookup.facts
          /\ lookup'.before = Append(lookup.before, meta[lookup.files[n]])
          /\ lookup'.after = lookup.after /\ lookup'.again = lookup.again /\ lookup'.checked = lookup.checked
          /\ lookup'.late = lookup.late /\ lookup'.attempt = lookup.attempt
      BY <1>1, <2>3, UnderWay
    <3> QED BY <2>2, <3>1, <3>2
  <2> HIDE DEF n
  <2>5. IgnoreType'
    <3>1. lookup' \in [pc : LookupStates, attempt : Nat, files : FileLists, before : Seq(Nat), facts : Seq(Metas),
                      again : FileLists, after : Seq(Nat), checked : Nat, late : BOOLEAN]
      BY <1>1, <2>3, <2>4, UnderWay
    <3> QED BY <1>1, <3>1, UnderWay DEF IgnoreType
  <2>6. LookupShape(lookup')  BY <1>1, <1>2, <2>1, <2>4, UnderWay DEF LookupShape
  <2>7. FactsSeen(lookup', meta') /\ AgainSeen(lookup', meta')  BY <1>3, <2>4 DEF FactsSeen, AgainSeen
  <2>8. PrintsSeen(lookup', meta')
    <3>1. ASSUME NEW i \in 1..n PROVE lookup'.before[i] <= meta[lookup.files[i]]
      <4>1. CASE i = n  BY <2>2, <2>4, <4>1
      <4>2. CASE i # n
        <5>1. i \in 1..Len(lookup.before)  BY <1>1, <2>1, <3>1, <4>2, UnderWay DEF n
        <5> QED BY <1>2, <2>4, <4>2, <5>1 DEF PrintsSeen
      <4> QED BY <4>1, <4>2
    <3> QED BY <1>1, <1>2, <2>4, <3>1 DEF PrintsSeen
  <2> QED BY <2>5, <2>6, <2>7, <2>8 DEF IgnoreInv
<1>5. CASE ~(Len(lookup.before) < Len(lookup.files))
  <2>1. lookup' = [lookup EXCEPT !.pc = "facts"] /\ Len(lookup.before) = Len(lookup.files)
    BY <1>1, <1>3, <1>5, UnderWay DEF Capture
  <2>2. /\ lookup'.pc = "facts" /\ lookup'.files = lookup.files /\ lookup'.facts = lookup.facts
        /\ lookup'.before = lookup.before
        /\ lookup'.after = lookup.after /\ lookup'.again = lookup.again /\ lookup'.checked = lookup.checked
        /\ lookup'.late = lookup.late
        /\ lookup' \in [pc : LookupStates, attempt : Nat, files : FileLists, before : Seq(Nat), facts : Seq(Metas),
                      again : FileLists, after : Seq(Nat), checked : Nat, late : BOOLEAN]
    BY <1>1, <2>1, UnderWay DEF LookupStates
  <2>3. IgnoreType'  BY <1>1, <2>2, UnderWay DEF IgnoreType
  <2>4. LookupShape(lookup')  BY <1>1, <1>2, <1>3, <2>1, <2>2 DEF LookupShape
  <2>5. FactsSeen(lookup', meta') /\ AgainSeen(lookup', meta')  BY <1>1, <2>2, SeenStays
  <2>6. PrintsSeen(lookup', meta')  BY <1>1, <1>2, <2>2 DEF PrintsSeen
  <2> QED BY <2>3, <2>4, <2>5, <2>6 DEF IgnoreInv
<1> QED BY <1>4, <1>5

(* A path is looked up under the rules of this moment.                     *)
LEMMA LookingUpKeeps == ASSUME IgnoreInv, LookUp PROVE IgnoreInv'
<1>1. lookup.pc = "facts" /\ meta' = meta  BY DEF LookUp
<1>2. LookupShape(lookup) /\ FactsSeen(lookup, meta) /\ PrintsSeen(lookup, meta)  BY <1>1, UnderWay
<1>3. /\ lookup.after = <<>> /\ Len(lookup.after) = 0 /\ Len(lookup.facts) <= PatchPaths /\ PatchPaths \in Nat
      /\ Len(lookup.before) = Len(lookup.files)
  BY <1>1, <1>2, FileListsAre, IgnoreBounds DEF LookupShape
<1>4. CASE Len(lookup.facts) < PatchPaths
  <2> DEFINE n == Len(lookup.facts) + 1
  <2>1. n \in Nat /\ n <= PatchPaths  BY <1>1, <1>3, <1>4, UnderWay
  <2>2. Rules = RulesOf(meta) /\ RulesOf(meta) \in Metas  BY <1>1, RulesTyped, UnderWay
  <2>3. lookup' = [lookup EXCEPT !.facts = Append(@, Rules)]  BY <1>4 DEF LookUp
  <2>4. /\ lookup'.pc = "facts" /\ lookup'.files = lookup.files /\ lookup'.before = lookup.before
        /\ lookup'.facts = Append(lookup.facts, Rules)
        /\ lookup'.after = lookup.after /\ lookup'.again = lookup.again /\ lookup'.checked = lookup.checked
        /\ lookup'.late = lookup.late /\ lookup'.attempt = lookup.attempt
    BY <1>1, <2>3, UnderWay
  <2>5. /\ lookup'.facts \in Seq(Metas) /\ Len(lookup'.facts) = n
        /\ \A k \in 1..n : lookup'.facts[k] = IF k = n THEN RulesOf(meta) ELSE lookup.facts[k]
    <3>1. lookup.facts \in Seq(Metas)  BY <1>1, UnderWay
    <3> QED BY <2>2, <2>4, <3>1
  <2>6. n - 1 = Len(lookup.facts)  BY <1>1, UnderWay
  <2> HIDE DEF n
  <2>7. IgnoreType'
    <3>1. lookup' \in [pc : LookupStates, attempt : Nat, files : FileLists, before : Seq(Nat), facts : Seq(Metas),
                      again : FileLists, after : Seq(Nat), checked : Nat, late : BOOLEAN]
      BY <1>1, <2>3, <2>4, <2>5, UnderWay
    <3> QED BY <1>1, <3>1, UnderWay DEF IgnoreType
  <2>8. LookupShape(lookup')  BY <1>1, <1>2, <2>1, <2>4, <2>5, UnderWay DEF LookupShape
  <2>9. \A m : SeenBetween(lookup, m, meta) = SeenBetween(lookup', m, meta')  BY <1>1, <2>4 DEF SeenBetween
  <2>10. SeenBetween(lookup, meta, meta)
    <3>1. \A i \in 1..Len(lookup.before) : lookup.before[i] <= meta[lookup.files[i]]  BY <1>2 DEF PrintsSeen
    <3>2. \A f \in MetaFiles : meta[f] <= meta[f]  BY <1>1, UnderWay
    <3> QED BY <1>1, <1>3, <3>1, <3>2, UnderWay DEF SeenBetween
  <2>11. FactsSeen(lookup', meta')
    <3>1. ASSUME NEW k \in 1..n PROVE \E m : lookup'.facts[k] = RulesOf(m) /\ SeenBetween(lookup', m, meta')
      <4>1. CASE k = n  BY <2>5, <2>9, <2>10, <4>1
      <4>2. CASE k # n
        <5>1. k \in 1..Len(lookup.facts)  BY <2>1, <2>6, <4>2
        <5> QED BY <1>2, <2>5, <2>9, <4>2, <5>1 DEF FactsSeen
      <4> QED BY <4>1, <4>2
    <3> QED BY <2>5, <3>1 DEF FactsSeen
  <2>12. AgainSeen(lookup', meta')  BY <2>4 DEF AgainSeen
  <2>13. PrintsSeen(lookup', meta')  BY <1>1, <1>2, <2>4 DEF PrintsSeen
  <2> QED BY <2>7, <2>8, <2>11, <2>12, <2>13 DEF IgnoreInv
<1>5. CASE ~(Len(lookup.facts) < PatchPaths)
  <2>1. lookup' = [lookup EXCEPT !.pc = "again"] /\ Len(lookup.facts) = PatchPaths
    BY <1>1, <1>3, <1>5, UnderWay DEF LookUp
  <2>2. /\ lookup'.pc = "again" /\ lookup'.files = lookup.files /\ lookup'.facts = lookup.facts
        /\ lookup'.before = lookup.before
        /\ lookup'.after = lookup.after /\ lookup'.again = lookup.again /\ lookup'.checked = lookup.checked
        /\ lookup'.late = lookup.late
        /\ lookup' \in [pc : LookupStates, attempt : Nat, files : FileLists, before : Seq(Nat), facts : Seq(Metas),
                      again : FileLists, after : Seq(Nat), checked : Nat, late : BOOLEAN]
    BY <1>1, <2>1, UnderWay DEF LookupStates
  <2>3. IgnoreType'  BY <1>1, <2>2, UnderWay DEF IgnoreType
  <2>4. LookupShape(lookup')  BY <1>1, <1>2, <1>3, <2>1, <2>2 DEF LookupShape
  <2>5. FactsSeen(lookup', meta') /\ AgainSeen(lookup', meta')  BY <1>1, <2>2, SeenStays
  <2>6. PrintsSeen(lookup', meta')  BY <1>1, <1>2, <2>2 DEF PrintsSeen
  <2> QED BY <2>3, <2>4, <2>5, <2>6 DEF IgnoreInv
<1> QED BY <1>4, <1>5

(* The prints after the lookups are taken, of the same files.              *)
LEMMA CapturingAgainKeeps == ASSUME IgnoreInv, CaptureAgain PROVE IgnoreInv'
<1> DEFINE n == Len(lookup.after) + 1
<1>1. /\ lookup.pc = "after" /\ meta' = meta /\ lookup.again = lookup.files /\ Len(lookup.after) < Len(lookup.files)
      /\ lookup' = [lookup EXCEPT !.after = Append(@, meta[lookup.files[n]])]
  BY DEF CaptureAgain
<1>2. LookupShape(lookup) /\ FactsSeen(lookup, meta) /\ AgainSeen(lookup, meta) /\ PrintsSeen(lookup, meta)
  BY <1>1, UnderWay
<1>3. /\ n \in 1..Len(lookup.files) /\ n \in Nat /\ n - 1 = Len(lookup.after) /\ n <= Len(lookup.files)
      /\ lookup.files[n] \in MetaFiles /\ meta[lookup.files[n]] \in Nat
  BY <1>1, UnderWay
<1>4. /\ lookup'.pc = "after" /\ lookup'.files = lookup.files /\ lookup'.before = lookup.before
      /\ lookup'.facts = lookup.facts /\ lookup'.after = Append(lookup.after, meta[lookup.files[n]])
      /\ lookup'.again = lookup.again /\ lookup'.checked = lookup.checked
      /\ lookup'.late = lookup.late /\ lookup'.attempt = lookup.attempt
  BY <1>1, UnderWay
<1>5. /\ lookup'.after \in Seq(Nat) /\ Len(lookup'.after) = n
      /\ \A i \in 1..n : lookup'.after[i] = IF i = n THEN meta[lookup.files[n]] ELSE lookup.after[i]
  <2>1. lookup.after \in Seq(Nat)  BY <1>1, UnderWay
  <2> QED BY <1>3, <1>4, <2>1
<1> HIDE DEF n
<1>6. IgnoreType'
  <2>1. lookup' \in [pc : LookupStates, attempt : Nat, files : FileLists, before : Seq(Nat), facts : Seq(Metas),
                     again : FileLists, after : Seq(Nat), checked : Nat, late : BOOLEAN]
    BY <1>1, <1>4, <1>5, UnderWay
  <2> QED BY <1>1, <2>1, UnderWay DEF IgnoreType
<1>7. LookupShape(lookup')  BY <1>1, <1>2, <1>3, <1>4, <1>5 DEF LookupShape
<1>8. \A i \in 1..n : i # n => i \in 1..Len(lookup.after)  BY <1>3
<1>9. ASSUME NEW m, SeenBetween(lookup, m, meta) PROVE SeenBetween(lookup', m, meta')
  <2>1. ASSUME NEW i \in 1..n PROVE m[lookup.files[i]] <= lookup'.after[i]
    <3>1. CASE i = n
      <4>1. m[lookup.files[n]] <= meta[lookup.files[n]]  BY <1>3, <1>9 DEF SeenBetween
      <4> QED BY <1>5, <3>1, <4>1
    <3>2. CASE i # n
      <4>1. m[lookup.files[i]] <= lookup.after[i]  BY <1>8, <1>9, <3>2 DEF SeenBetween
      <4> QED BY <1>5, <3>2, <4>1
    <3> QED BY <3>1, <3>2
  <2> QED BY <1>1, <1>4, <1>5, <1>9, <2>1 DEF SeenBetween
<1>10. FactsSeen(lookup', meta')  BY <1>2, <1>4, <1>9 DEF FactsSeen
<1>11. AgainSeen(lookup', meta')  BY <1>1, <1>2, <1>4, <1>9 DEF AgainSeen
<1>12. PrintsSeen(lookup', meta')
  <2>1. ASSUME NEW i \in 1..n PROVE lookup'.after[i] <= meta[lookup.files[i]]
    <3>1. CASE i = n  BY <1>3, <1>5, <3>1
    <3>2. CASE i # n
      <4>1. lookup.after[i] <= meta[lookup.files[i]]  BY <1>2, <1>8, <3>2 DEF PrintsSeen
      <4> QED BY <1>5, <3>2, <4>1
    <3> QED BY <3>1, <3>2
  <2>2. lookup'.checked = 0  BY <1>1, <1>2, <1>4 DEF LookupShape
  <2> QED BY <1>1, <1>2, <1>4, <1>5, <2>1, <2>2 DEF PrintsSeen
<1> QED BY <1>6, <1>7, <1>10, <1>11, <1>12 DEF IgnoreInv

(* The facts are taken, or looked up once more, or the patch is refused.   *)
LEMMA DecidingKeeps == ASSUME IgnoreInv, Decide PROVE IgnoreInv'
<1>1. /\ lookup.pc = "after" /\ meta' = meta
      /\ lookup.again = lookup.files => Len(lookup.after) = Len(lookup.again)
  BY DEF Decide
<1>2. LookupShape(lookup) /\ PrintsSeen(lookup, meta) /\ meta' \in Metas  BY <1>1, UnderWay
<1>3. CASE lookup.again = lookup.files /\ lookup.before = lookup.after
  <2>1. lookup' = [lookup EXCEPT !.pc = "prepared"]  BY <1>3 DEF Decide
  <2>2. /\ lookup'.pc = "prepared" /\ lookup'.files = lookup.files /\ lookup'.facts = lookup.facts
        /\ lookup'.before = lookup.before
        /\ lookup'.after = lookup.after /\ lookup'.again = lookup.again /\ lookup'.checked = lookup.checked
        /\ lookup'.late = lookup.late
        /\ lookup' \in [pc : LookupStates, attempt : Nat, files : FileLists, before : Seq(Nat), facts : Seq(Metas),
                      again : FileLists, after : Seq(Nat), checked : Nat, late : BOOLEAN]
    BY <1>1, <2>1, UnderWay DEF LookupStates
  <2>3. IgnoreType'  BY <1>2, <2>2 DEF IgnoreType
  <2>4. LookupShape(lookup')  BY <1>1, <1>2, <1>3, <2>2 DEF LookupShape
  <2>5. FactsSeen(lookup', meta') /\ AgainSeen(lookup', meta')  BY <1>1, <2>2, SeenStays
  <2>6. PrintsSeen(lookup', meta')  BY <1>1, <1>2, <2>2 DEF PrintsSeen
  <2> QED BY <2>3, <2>4, <2>5, <2>6 DEF IgnoreInv
<1>4. CASE ~(lookup.again = lookup.files /\ lookup.before = lookup.after) /\ lookup.attempt = MaxAttempts
  <2>1. lookup' = [lookup EXCEPT !.pc = "refused"]  BY <1>4 DEF Decide, Retry
  <2>2. /\ lookup'.pc = "refused"
        /\ lookup' \in [pc : LookupStates, attempt : Nat, files : FileLists, before : Seq(Nat), facts : Seq(Metas),
                      again : FileLists, after : Seq(Nat), checked : Nat, late : BOOLEAN]
    BY <1>1, <2>1, UnderWay DEF LookupStates
  <2> QED BY <1>2, <2>2 DEF IgnoreType, IgnoreInv
<1>5. CASE ~(lookup.again = lookup.files /\ lookup.before = lookup.after) /\ lookup.attempt # MaxAttempts
  <2>1. lookup' = [NoLookup EXCEPT !.attempt = lookup.attempt + 1]  BY <1>5 DEF Decide, Retry
  <2>2. lookup.attempt \in Nat  BY <1>1, UnderWay
  <2>3. lookup' = [pc |-> "paths", attempt |-> lookup.attempt + 1, files |-> <<>>, before |-> <<>>, facts |-> <<>>,
                   again |-> <<>>, after |-> <<>>, checked |-> 0, late |-> FALSE]
    BY <2>1 DEF NoLookup
  <2>4. IgnoreType'
    <3>1. <<>> \in Seq(Nat) /\ <<>> \in Seq(Metas)  BY EmptySeq
    <3> QED BY <1>2, <2>2, <2>3, <3>1, FileListsAre DEF IgnoreType, LookupStates
  <2>5. LookupShape(lookup')  BY <2>3, FileListsAre, IgnoreBounds DEF LookupShape
  <2>6. FactsSeen(lookup', meta') /\ AgainSeen(lookup', meta') /\ PrintsSeen(lookup', meta')
    BY <2>3, FileListsAre DEF FactsSeen, AgainSeen, PrintsSeen
  <2> QED BY <2>4, <2>5, <2>6 DEF IgnoreInv
<1> QED BY <1>3, <1>4, <1>5

(* A print is compared with its file, before the commit and in it.         *)
LEMMA RecheckingKeeps == ASSUME IgnoreInv, Recheck PROVE IgnoreInv'
<1> DEFINE n == lookup.checked + 1
<1>1. lookup.pc = "prepared" /\ lookup.checked < Len(lookup.files) /\ meta' = meta  BY DEF Recheck
<1>2. LookupShape(lookup) /\ PrintsSeen(lookup, meta) /\ meta' \in Metas /\ lookup.checked \in Nat
      /\ Len(lookup.files) \in Nat
  BY <1>1, UnderWay
<1>3. CASE meta[lookup.files[n]] = lookup.after[n]
  <2>1. lookup' = [lookup EXCEPT !.checked = n]  BY <1>3 DEF Recheck
  <2>2. n \in Nat /\ n <= Len(lookup.files) /\ n - 1 = lookup.checked  BY <1>1, <1>2
  <2> HIDE DEF n
  <2>3. /\ lookup'.pc = "prepared" /\ lookup'.files = lookup.files /\ lookup'.facts = lookup.facts
        /\ lookup'.before = lookup.before
        /\ lookup'.after = lookup.after /\ lookup'.again = lookup.again /\ lookup'.checked = n
        /\ lookup'.late = lookup.late
        /\ lookup' \in [pc : LookupStates, attempt : Nat, files : FileLists, before : Seq(Nat), facts : Seq(Metas),
                      again : FileLists, after : Seq(Nat), checked : Nat, late : BOOLEAN]
    BY <1>1, <2>1, <2>2, UnderWay
  <2>4. IgnoreType'  BY <1>2, <2>3 DEF IgnoreType
  <2>5. LookupShape(lookup')  BY <1>1, <1>2, <2>2, <2>3 DEF LookupShape
  <2>6. FactsSeen(lookup', meta') /\ AgainSeen(lookup', meta')  BY <1>1, <2>3, SeenStays
  <2>7. PrintsSeen(lookup', meta')
    <3>1. ASSUME ~lookup.late, NEW i \in 1..n PROVE meta[lookup.files[i]] = lookup.after[i]
      <4>1. CASE i = n  BY <1>3, <4>1
      <4>2. CASE i # n
        <5>1. i \in 1..lookup.checked  BY <2>2, <1>2, <4>2
        <5> QED BY <1>2, <3>1, <5>1 DEF PrintsSeen
      <4> QED BY <4>1, <4>2
    <3> QED BY <1>1, <1>2, <2>3, <3>1 DEF PrintsSeen
  <2> QED BY <2>4, <2>5, <2>6, <2>7 DEF IgnoreInv
<1>4. CASE meta[lookup.files[n]] # lookup.after[n]
  <2>1. lookup' = [lookup EXCEPT !.pc = "refused"]  BY <1>4 DEF Recheck
  <2>2. /\ lookup'.pc = "refused"
        /\ lookup' \in [pc : LookupStates, attempt : Nat, files : FileLists, before : Seq(Nat), facts : Seq(Metas),
                      again : FileLists, after : Seq(Nat), checked : Nat, late : BOOLEAN]
    BY <1>1, <2>1, UnderWay DEF LookupStates
  <2> QED BY <1>2, <2>2 DEF IgnoreType, IgnoreInv
<1> QED BY <1>3, <1>4

(* The patch is committed.                                                 *)
LEMMA CommittingFactsKeeps == ASSUME IgnoreInv, CommitFacts PROVE IgnoreInv'
<1>1. /\ lookup.pc = "prepared" /\ lookup.checked = Len(lookup.files) /\ meta' = meta
      /\ lookup' = [lookup EXCEPT !.pc = "committed"]
  BY DEF CommitFacts
<1>2. LookupShape(lookup) /\ PrintsSeen(lookup, meta) /\ meta' \in Metas  BY <1>1, UnderWay
<1>3. /\ lookup'.pc = "committed" /\ lookup'.files = lookup.files /\ lookup'.facts = lookup.facts
      /\ lookup'.before = lookup.before
      /\ lookup'.after = lookup.after /\ lookup'.again = lookup.again /\ lookup'.checked = lookup.checked
      /\ lookup'.late = lookup.late
      /\ lookup' \in [pc : LookupStates, attempt : Nat, files : FileLists, before : Seq(Nat), facts : Seq(Metas),
                      again : FileLists, after : Seq(Nat), checked : Nat, late : BOOLEAN]
  BY <1>1, UnderWay DEF LookupStates
<1>4. IgnoreType'  BY <1>2, <1>3 DEF IgnoreType
<1>5. LookupShape(lookup')  BY <1>1, <1>2, <1>3 DEF LookupShape
<1>6. FactsSeen(lookup', meta') /\ AgainSeen(lookup', meta')  BY <1>1, <1>3, SeenStays
<1>7. PrintsSeen(lookup', meta')  BY <1>1, <1>2, <1>3 DEF PrintsSeen
<1> QED BY <1>4, <1>5, <1>6, <1>7 DEF IgnoreInv

(* The two prints agree with each other and with the files: every state    *)
(* that was looked at has the rules in force, for the files that count are *)
(* named by one of them.                                                   *)
LEMMA OneMomentOfFacts == IgnoreInv => FactsOfOneMoment
<1> SUFFICES ASSUME IgnoreInv, lookup.pc = "committed", ~lookup.late, NEW k \in 1..PatchPaths
             PROVE  lookup.facts[k] = Rules
  BY DEF FactsOfOneMoment
<1>1. LookupShape(lookup) /\ FactsSeen(lookup, meta) /\ AgainSeen(lookup, meta) /\ PrintsSeen(lookup, meta)
      /\ lookup.files \in FileLists /\ \A i \in 1..Len(lookup.files) : lookup.files[i] \in MetaFiles
  BY UnderWay
<1>2. /\ lookup.files # <<>> /\ Len(lookup.facts) = PatchPaths /\ lookup.again = lookup.files
      /\ lookup.before = lookup.after /\ lookup.checked = Len(lookup.files)
      /\ Len(lookup.before) = Len(lookup.files) /\ Len(lookup.after) = Len(lookup.files)
  BY <1>1 DEF LookupShape
<1>3. /\ Len(lookup.files) \in Nat /\ Len(lookup.files) >= 1 /\ lookup.files[1] = "config" /\ 1 \in 1..Len(lookup.files)
      /\ DOMAIN lookup.files = 1..Len(lookup.files)
  BY <1>1, <1>2, FileListsAre DEF FileLists
<1>4. \A i \in 1..Len(lookup.files) : meta[lookup.files[i]] = lookup.after[i]  BY <1>1, <1>2 DEF PrintsSeen
<1>5. ASSUME NEW m, SeenBetween(lookup, m, meta)
      PROVE  \A i \in 1..Len(lookup.files) : m[lookup.files[i]] = meta[lookup.files[i]]
  <2> TAKE i \in 1..Len(lookup.files)
  <2>1. lookup.files[i] \in MetaFiles /\ m[lookup.files[i]] \in Nat /\ meta[lookup.files[i]] \in Nat
    BY <1>1, <1>5, UnderWay DEF SeenBetween, Metas
  <2>2. /\ lookup.after[i] <= m[lookup.files[i]] /\ m[lookup.files[i]] <= lookup.after[i]
    BY <1>2, <1>5 DEF SeenBetween
  <2> QED BY <1>4, <2>1, <2>2
<1>6. \A m : SeenBetween(lookup, m, meta) => m["config"] = meta["config"]  BY <1>3, <1>5
<1>7. lookup.files = RelevantOf(meta["config"])
  <2>1. PICK m : lookup.again = RelevantOf(m["config"]) /\ SeenBetween(lookup, m, meta)  BY <1>1 DEF AgainSeen
  <2>2. m["config"] = meta["config"]  BY <1>6, <2>1
  <2> QED BY <1>2, <2>1, <2>2
<1>8. PICK m : lookup.facts[k] = RulesOf(m) /\ SeenBetween(lookup, m, meta)  BY <1>1, <1>2 DEF FactsSeen
<1>9. RelevantOf(m["config"]) = lookup.files /\ RelevantOf(meta["config"]) = lookup.files
  <2>1. m["config"] = meta["config"]  BY <1>6, <1>8
  <2> QED BY <1>7, <2>1
<1>10. \A i \in DOMAIN lookup.files : m[lookup.files[i]] = meta[lookup.files[i]]  BY <1>3, <1>5, <1>8
<1>11. RulesOf(m) = RulesOf(meta)  BY <1>9, <1>10, Zenon DEF RulesOf
<1> QED BY <1>8, <1>11, RulesTyped

(* The facts a patch is authorized by, however often the rules change      *)
(* between its lookups, are those of one state, the one in force when it   *)
(* commits (collect_patch_authority_facts, ensure_metadata_unchanged).     *)
THEOREM FactsAlwaysOfOneMoment == IgnoreSpec => []FactsOfOneMoment
<1>1. IgnoreInit => IgnoreInv  BY IgnoreStarts
<1>2. ASSUME IgnoreInv, [IgnoreNext]_ignoreVars PROVE IgnoreInv'
  <2>1. CASE FindFiles  BY <1>2, <2>1, FindingKeeps
  <2>2. CASE FindFilesAgain  BY <1>2, <2>2, FindingAgainKeeps
  <2>3. CASE Capture  BY <1>2, <2>3, CapturingKeeps
  <2>4. CASE LookUp  BY <1>2, <2>4, LookingUpKeeps
  <2>5. CASE CaptureAgain  BY <1>2, <2>5, CapturingAgainKeeps
  <2>6. CASE Decide  BY <1>2, <2>6, DecidingKeeps
  <2>7. CASE Recheck  BY <1>2, <2>7, RecheckingKeeps
  <2>8. CASE CommitFacts  BY <1>2, <2>8, CommittingFactsKeeps
  <2>9. CASE \E f \in MetaFiles : EditMeta(f)  BY <1>2, <2>9, EditsKeep
  <2>10. CASE UNCHANGED ignoreVars
    BY <1>2, <2>10 DEF ignoreVars, IgnoreInv, IgnoreType
  <2> QED BY <1>2, <2>1, <2>2, <2>3, <2>4, <2>5, <2>6, <2>7, <2>8, <2>9, <2>10 DEF IgnoreNext
<1>3. IgnoreInv => FactsOfOneMoment  BY OneMomentOfFacts
<1> QED BY <1>1, <1>2, <1>3, PTL DEF IgnoreSpec
=============================================================================
