----------------------------- MODULE ReleaseProofs -----------------------------
(***************************************************************************)
(* Proofs about the releases: for any number of selectors, releases,       *)
(* rollouts, failures and crashes, an install or a rollback is one step of *)
(* the selectors and the manifest together, its answers are true, and a    *)
(* rollout leaves the way back on disk.                                    *)
(***************************************************************************)
EXTENDS ReleaseCutover, FiniteSetTheorems, TLAPS

(***************************************************************************)
(* The deployment commands.                                                *)
(***************************************************************************)

Selections == [Selectors -> Releases \cup Originals]
Records == [state : {"active", "previous_active"}, version : Releases, previous : Selections]
Manifests == Records \cup {Absent}
Journals == [operation : {"install", "rollback"}, active : Records, kept : BOOLEAN]
Stages == {"look", "decide", "copy", "save", "journal", "switch", "finish", "finished", "undo", "clear", "cleared"}
Commands == [at : Stages, op : {"install", "rollback", "status"}, version : Releases,
             left : Nat, verified : BOOLEAN, payload : Manifests, recovering : BOOLEAN,
             began : Selections \X Manifests]

DeployType ==
    /\ selected \in Selections
    /\ manifest \in Manifests /\ saved \in Manifests
    /\ journal \in Journals \cup {NoJournal}
    /\ published \subseteq Releases
    /\ command \in Commands \cup {Shell}

(* The backup and the releases that the files name are there.              *)
FilesOK ==
    /\ manifest # Absent => manifest.version \in published
    /\ saved # Absent => saved.version \in published
    /\ journal # NoJournal =>
         /\ journal.kept = (saved # Absent)
         /\ journal.active.state = "active"
         /\ journal.active.version \in published

(* What a command is about to do, before its journal is written.           *)
Extendable == manifest = Absent \/ Correct(manifest)
Planned ==
    \/ /\ command.op = "install" /\ command.payload = Payload(command.version)
       /\ command.version \in published /\ Extendable
    \/ /\ command.op = "rollback" /\ command.payload = manifest
       /\ manifest.state = "active" /\ Correct(manifest)

(* And after it: the journal leads back to where it began.                 *)
Underway ==
    /\ journal = [operation |-> command.op, active |-> command.payload, kept |-> saved # Absent]
    /\ Switch!Holds
    /\ command.op = "install" => command.payload.version = command.version
    /\ command.op = "rollback" => command.payload = StandingRecord

(* The journal is gone and the command is not known to have ended.         *)
Committed ==
    \/ command.at = "finished"
    \/ command.at = "look" /\ command.recovering /\ journal = NoJournal

CommandOK == command # Shell =>
    /\ command.left <= Cardinality(Selectors)
    /\ command.at \in {"decide", "copy", "save", "journal", "cleared", "finished"} => journal = NoJournal
    /\ command.at \in {"undo", "clear", "switch", "finish"} => journal # NoJournal
    /\ command.at = "copy" => command.op = "install" /\ Extendable
    /\ command.at \in {"save", "journal"} => Planned
    /\ command.at = "journal" => saved = manifest
    /\ command.at \in {"switch", "finish"} => Underway
    /\ command.at = "finish" => manifest = NextManifest /\ Correct(manifest)
    /\ command.at = "clear" => selected = Standing /\ manifest = StandingRecord
    /\ ~Committed => command.began = <<Standing, StandingRecord>>

DeployInv == DeployType /\ FilesOK /\ CommandOK

(***************************************************************************)
(* The rollouts.                                                           *)
(***************************************************************************)

Unlocked == {"free", "read", "verify_before", "backup", "write_backup", "lock"}
Switching == {"switch_selector", "switch_cargo", "verify_switch", "write", "final", "receipt",
              "undo_selector", "undo_cargo", "undo_deployment"}
Locked == Switching \cup {"install", "unlock"}
Deployments == {BeforeCutover, DeployedIn(1), DeployedIn(2), DeployedIn(3)}

CutoverType ==
    /\ entry \in [CommandEntries -> {"previous", "candidate"}]
    /\ deployed \in Deployments
    /\ rollback \in {NoRollback, BeforeCutover}
    /\ installed \in BOOLEAN /\ torn \in BOOLEAN
    /\ rollout \in [Rollouts -> [pc : Unlocked \cup Locked, before : {NoRollback, BeforeCutover}, phase : 1..3]]

(* Nothing is changed before the way back is kept.                         *)
WayBack ==
    /\ ~VerifyPair("previous") \/ deployed # BeforeCutover => rollback = BeforeCutover
    /\ (\E e \in CommandEntries : entry[e] = "candidate") => installed

(* The entries and the deployment agree.                                   *)
Agree ==
    \/ VerifyPair("previous") /\ deployed = BeforeCutover
    \/ VerifyPair("candidate") /\ deployed = DeployedIn(3)

(* What a rollout has done so far.                                         *)
RolloutOK(p) ==
    LET pc == rollout[p].pc
    IN  /\ pc \in Locked <=> cutLock = p
        /\ pc \notin {"free", "read"} => rollout[p].before = BeforeCutover
        /\ pc \in Locked \cup {"lock"} => rollback = BeforeCutover
        /\ pc \in Switching => installed
        /\ pc \in {"final", "receipt"} => deployed = DeployedIn(3)
        /\ pc = "receipt" => VerifyPair("candidate")
        /\ pc \in {"install", "unlock"} => torn \/ Agree
        /\ pc = "undo_cargo" => torn \/ entry["selector"] = "previous"
        /\ pc = "undo_deployment" => torn \/ VerifyPair("previous")

CutoverInv ==
    /\ CutoverType
    /\ WayBack
    /\ cutLock \notin Rollouts => torn \/ Agree
    /\ \A p \in Rollouts : RolloutOK(p)

-----------------------------------------------------------------------------
(* The selectors are counted down from their number.                       *)
LEMMA SelectorCount ==
    /\ Cardinality(Selectors) \in Nat
    /\ \A k \in Nat : k > 0 /\ k <= Cardinality(Selectors) =>
         k \in Selectors /\ Cardinality(Selectors) + 1 - k \in Selectors
<1>1. Cardinality(Selectors) \in Nat  BY DeploymentAssumption, FS_CardinalityType
<1> DEFINE n == Cardinality(Selectors)
<1>2. Selectors = 1..n  BY DeploymentAssumption
<1> HIDE DEF n
<1>3. n \in Nat => \A k \in Nat : k > 0 /\ k <= n => k \in 1..n /\ n + 1 - k \in 1..n  OBVIOUS
<1> QED BY <1>1, <1>2, <1>3 DEF n

(* What succeeds has been done.                                            *)
LEMMA OutcomesAre ==
    ASSUME NEW o \in Outcomes
    PROVE  o[1] \in BOOLEAN /\ o[2] \in BOOLEAN /\ (o[2] => o[1])
<1>1. o = <<TRUE, TRUE>> \/ o = <<FALSE, FALSE>> \/ o = <<TRUE, FALSE>>  BY DEF Outcomes
<1>2. <<TRUE, TRUE>>[1] = TRUE /\ <<TRUE, FALSE>>[1] = TRUE /\ <<FALSE, FALSE>>[1] = FALSE  OBVIOUS
<1>3. <<TRUE, TRUE>>[2] = TRUE /\ <<TRUE, FALSE>>[2] = FALSE /\ <<FALSE, FALSE>>[2] = FALSE  OBVIOUS
<1>4. CASE o = <<TRUE, TRUE>>  BY <1>2, <1>3, <1>4, Zenon
<1>5. CASE o = <<TRUE, FALSE>>  BY <1>2, <1>3, <1>5, Zenon
<1>6. CASE o = <<FALSE, FALSE>>  BY <1>2, <1>3, <1>6, Zenon
<1> QED BY <1>1, <1>4, <1>5, <1>6

(* What stands is a selection and a manifest.                              *)
LEMMA StandingType ==
    ASSUME DeployType
    PROVE  Standing \in Selections /\ StandingRecord \in Manifests
BY DEF DeployType, Standing, StandingRecord, Selections, Manifests, Records, Journals, NoJournal

LEMMA DeployStart == DeployInit => DeployInv
BY DEF DeployInit, DeployInv, DeployType, FilesOK, CommandOK, Selections, Manifests, Shell, Absent, NoJournal

-----------------------------------------------------------------------------
LEMMA RunKeeps == ASSUME DeployInv, Run PROVE DeployInv'
<1> USE DEF DeployInv
<1>1. PICK op \in {"install", "rollback", "status"}, v \in Releases :
        command' = [at |-> "look", op |-> op, version |-> v, left |-> Cardinality(Selectors),
                    verified |-> TRUE, payload |-> Absent, recovering |-> FALSE,
                    began |-> <<Standing, StandingRecord>>]
    BY DEF Run
<1>2. UNCHANGED Files  BY DEF Run
<1>3. <<Standing, StandingRecord>> \in Selections \X Manifests  BY StandingType
<1>4. command' \in Commands  BY <1>1, <1>3, SelectorCount DEF Commands, Stages, Manifests
<1>5. DeployType'  BY <1>2, <1>4 DEF DeployType, Files
<1>6. FilesOK'  BY <1>2 DEF FilesOK, Files
<1>7. Standing' = Standing /\ StandingRecord' = StandingRecord
    BY <1>2 DEF Standing, StandingRecord, Files
<1>8. CommandOK'  BY <1>1, <1>7, SelectorCount DEF CommandOK
<1> QED BY <1>5, <1>6, <1>8

LEMMA DieKeeps == ASSUME DeployInv, Die PROVE DeployInv'
BY DEF DeployInv, Die, Files, DeployType, FilesOK, CommandOK

LEMMA UserEditKeeps == ASSUME DeployInv, UserEdit PROVE DeployInv'
<1>1. command = Shell /\ UNCHANGED <<manifest, journal, saved, published, command>>  BY DEF UserEdit
<1>2. PICK s \in Selectors, c \in Originals : selected' = [selected EXCEPT ![s] = c]  BY DEF UserEdit
<1>3. selected' \in Selections  BY <1>2 DEF DeployInv, DeployType, Selections
<1>4. DeployType'  BY <1>1, <1>3 DEF DeployInv, DeployType
<1>5. FilesOK'  BY <1>1 DEF DeployInv, FilesOK
<1>6. CommandOK'  BY <1>1 DEF CommandOK
<1> QED BY <1>4, <1>5, <1>6 DEF DeployInv

-----------------------------------------------------------------------------
(* What a command that goes on becomes.                                    *)
LEMMA Goes ==
    ASSUME NEW at \in Stages, command \in Commands, command' = [command EXCEPT !.at = at]
    PROVE  /\ command' \in Commands /\ command' # Shell /\ command'.at = at
           /\ command'.op = command.op /\ command'.version = command.version
           /\ command'.left = command.left /\ command'.payload = command.payload
           /\ command'.verified = command.verified
           /\ command'.recovering = command.recovering /\ command'.began = command.began
BY DEF Commands, Shell

LEMMA Fails ==
    ASSUME command \in Commands, Fail
    PROVE  /\ command' \in Commands /\ command' # Shell /\ command'.at = "look"
           /\ command'.recovering = TRUE /\ command'.began = command.began /\ command'.left = command.left
BY DEF Commands, Shell, Fail, Stages

(* What stands is kept by what a command does to the files before and      *)
(* after the journal is written.                                           *)
LEMMA StandsStill ==
    ASSUME DeployType, journal' = journal,
           journal = NoJournal => UNCHANGED <<selected, manifest>>,
           journal # NoJournal => UNCHANGED saved
    PROVE  Standing' = Standing /\ StandingRecord' = StandingRecord
<1>1. journal = NoJournal \/ journal.operation \in {"install", "rollback"}
    BY DEF DeployType, Journals
<1>2. journal = NoJournal => journal.operation = "none"  BY DEF NoJournal
<1> QED BY <1>1, <1>2 DEF Standing, StandingRecord

(* The command runs.                                                       *)
LEMMA Running == ASSUME DeployInv, command # Shell PROVE command \in Commands
BY DEF DeployInv, DeployType

LEMMA LookKeeps == ASSUME DeployInv, LookForJournal PROVE DeployInv'
<1>0. command # Shell  BY DEF LookForJournal, Shell
<1>1. command \in Commands  BY <1>0, Running
<1> USE DEF DeployInv
<1>2. UNCHANGED <<selected, manifest, journal, published>>  BY DEF LookForJournal
<1>3. Standing' = Standing /\ StandingRecord' = StandingRecord
    BY <1>2, StandsStill DEF LookForJournal
<1>4. CASE journal = NoJournal
  <2>1. saved' = Absent  BY <1>4 DEF LookForJournal
  <2>2. FilesOK'  BY <2>1, <1>2, <1>4 DEF FilesOK, Absent
  <2>3. CASE command.recovering
    <3>1. command' = Shell  BY <2>3, <1>4 DEF LookForJournal, Answer
    <3> QED BY <3>1, <2>1, <2>2, <1>2 DEF DeployType, Manifests, CommandOK
  <2>4. CASE ~command.recovering
    <3>1. command' = [command EXCEPT !.at = "decide"]  BY <2>4, <1>4 DEF LookForJournal, Go
    <3>2. "decide" \in Stages  BY DEF Stages
    <3>3. /\ command' \in Commands /\ command'.at = "decide" /\ command'.left = command.left
          /\ command'.began = command.began /\ command'.recovering = command.recovering
        BY <3>1, <3>2, <1>1, Goes
    <3>4. DeployType'  BY <3>3, <2>1, <1>2 DEF DeployType, Manifests
    <3>5. ~Committed  BY <2>4 DEF Committed, LookForJournal
    <3>6. command.began = <<Standing, StandingRecord>> /\ command.left <= Cardinality(Selectors)
        BY <3>5, <1>0 DEF CommandOK
    <3>7. CommandOK'  BY <3>3, <3>6, <1>2, <1>3, <1>4 DEF CommandOK
    <3> QED BY <3>4, <2>2, <3>7
  <2> QED BY <2>3, <2>4
<1>5. CASE journal # NoJournal
  <2>1. /\ saved' = saved
        /\ command' = [command EXCEPT !.at = "undo", !.left = Cardinality(Selectors), !.verified = TRUE]
      BY <1>5 DEF LookForJournal
  <2>2. /\ command' \in Commands /\ command'.at = "undo" /\ command'.began = command.began
        /\ command'.left = Cardinality(Selectors)
      BY <2>1, <1>1, SelectorCount DEF Commands, Stages
  <2>3. DeployType'  BY <2>1, <2>2, <1>2 DEF DeployType
  <2>4. FilesOK'  BY <2>1, <1>2 DEF FilesOK
  <2>5. ~Committed  BY <1>5 DEF Committed, LookForJournal
  <2>6. command.began = <<Standing, StandingRecord>>  BY <2>5, <1>0 DEF CommandOK
  <2>7. CommandOK'  BY <2>2, <2>6, <1>2, <1>3, <1>5, SelectorCount DEF CommandOK
  <2> QED BY <2>3, <2>4, <2>7
<1> QED BY <1>4, <1>5

LEMMA UndoSelectorKeeps == ASSUME DeployInv, UndoSelector PROVE DeployInv'
<1>0. command # Shell  BY DEF UndoSelector, Shell
<1>1. command \in Commands  BY <1>0, Running
<1> USE DEF DeployInv
<1>2. UNCHANGED <<manifest, journal, saved, published>> /\ command.at = "undo" /\ command.left > 0
    BY DEF UndoSelector
<1>3. journal # NoJournal  BY <1>0, <1>2 DEF CommandOK
<1>4. PICK o \in Outcomes :
        /\ selected' = IF o[1] THEN [selected EXCEPT ![command.left] =
                                       IF journal.operation = "install" THEN journal.active.previous[command.left]
                                       ELSE journal.active.version] ELSE selected
        /\ command' = [command EXCEPT !.left = @ - 1, !.verified = @ /\ o[2]]
    BY DEF UndoSelector
<1>5. o[1] \in BOOLEAN /\ o[2] \in BOOLEAN  BY <1>4, OutcomesAre
<1>6. command.left \in Nat /\ command.left <= Cardinality(Selectors)  BY <1>0, <1>1 DEF Commands, CommandOK
<1>7. command.left \in Selectors  BY <1>6, <1>2, SelectorCount
<1>8. journal.active.version \in Releases /\ journal.active.previous \in Selections
    BY <1>3 DEF DeployType, Journals, Records
<1>9. selected' \in Selections  BY <1>4, <1>5, <1>7, <1>8 DEF DeployType, Selections
<1> DEFINE right == command.verified /\ o[2]
           down == command.left - 1
<1>17. right \in BOOLEAN /\ down \in Nat  BY <1>6, <1>2
<1>18. command' = [command EXCEPT !.left = down, !.verified = right]  BY <1>4
<1> HIDE DEF right, down
<1>19. /\ command' \in Commands /\ command'.at = "undo" /\ command'.began = command.began
       /\ command'.left = down
    BY <1>17, <1>18, <1>2, <1>1 DEF Commands
<1>10. /\ command' \in Commands /\ command'.at = "undo" /\ command'.began = command.began
       /\ command'.left = command.left - 1
    BY <1>19 DEF down
<1>11. Standing' = Standing /\ StandingRecord' = StandingRecord  BY <1>2, <1>3, StandsStill
<1>12. ~Committed  BY <1>2 DEF Committed
<1>13. command.began = <<Standing, StandingRecord>>  BY <1>12, <1>0 DEF CommandOK
<1>14. DeployType'  BY <1>2, <1>9, <1>10 DEF DeployType
<1>15. FilesOK'  BY <1>2 DEF FilesOK
<1>16. CommandOK'  BY <1>2, <1>3, <1>6, <1>10, <1>11, <1>13, SelectorCount DEF CommandOK
<1> QED BY <1>14, <1>15, <1>16

LEMMA UndoManifestKeeps == ASSUME DeployInv, UndoManifest PROVE DeployInv'
<1>0. command # Shell  BY DEF UndoManifest, Shell
<1>1. command \in Commands  BY <1>0, Running
<1> USE DEF DeployInv
<1>2. UNCHANGED <<selected, journal, saved, published>> /\ command.at = "undo"
    BY DEF UndoManifest
<1>3. journal # NoJournal  BY <1>0, <1>2 DEF CommandOK
<1> DEFINE back == IF journal.kept THEN saved ELSE Absent
           undone == IF journal.operation = "install" THEN selected = journal.active.previous
                     ELSE \A s \in Selectors : selected[s] = journal.active.version
<1>4. PICK o \in Outcomes :
        /\ manifest' = IF o[1] THEN back ELSE manifest
        /\ IF command.verified /\ o[2] /\ undone THEN Go("clear") ELSE Answer("failed")
    BY DEF UndoManifest
<1>5. o[1] \in BOOLEAN /\ o[2] \in BOOLEAN /\ (o[2] => o[1])  BY <1>4, OutcomesAre
<1>6. back = StandingRecord  BY <1>3 DEF StandingRecord
<1>7. manifest' = manifest \/ manifest' = StandingRecord  BY <1>4, <1>5, <1>6
<1>8. StandingRecord = Absent \/ (StandingRecord = saved /\ saved # Absent)
    BY <1>3 DEF StandingRecord, FilesOK
<1>9. manifest' \in Manifests  BY <1>7, StandingType DEF DeployType
<1>10. FilesOK'  BY <1>7, <1>8, <1>2 DEF FilesOK
<1>11. Standing' = Standing /\ StandingRecord' = StandingRecord  BY <1>2, <1>3, StandsStill
<1>12. CASE command' = Shell
    BY <1>12, <1>2, <1>9, <1>10 DEF DeployType, CommandOK
<1>13. CASE command' # Shell
  <2> HIDE DEF undone, back
  <2>1. o[2] /\ undone /\ command' = [command EXCEPT !.at = "clear"]
      BY <1>13, <1>4, <1>5 DEF Answer, Go
  <2>2. "clear" \in Stages  BY DEF Stages
  <2>3. /\ command' \in Commands /\ command'.at = "clear" /\ command'.left = command.left
        /\ command'.began = command.began
      BY <2>1, <2>2, <1>1, Goes
  <2>4. manifest' = StandingRecord  BY <2>1, <1>4, <1>5, <1>6
  <2>5. selected = Standing
    <3>1. journal \in Journals /\ selected \in Selections  BY <1>3 DEF DeployType
    <3>2. CASE journal.operation = "install"  BY <3>2, <2>1 DEF undone, Standing
    <3>3. CASE journal.operation # "install"
      <4>1. journal.operation = "rollback"  BY <3>1, <3>3 DEF Journals
      <4>2. \A s \in Selectors : selected[s] = journal.active.version  BY <2>1, <3>3 DEF undone
      <4>3. selected = [s \in Selectors |-> journal.active.version]  BY <4>2, <3>1 DEF Selections
      <4> QED BY <4>1, <4>3, <3>3 DEF Standing
    <3> QED BY <3>2, <3>3
  <2>6. ~Committed  BY <1>2 DEF Committed
  <2>7. command.began = <<Standing, StandingRecord>> /\ command.left <= Cardinality(Selectors)
      BY <2>6, <1>0 DEF CommandOK
  <2>8. DeployType'  BY <2>3, <1>2, <1>9 DEF DeployType
  <2>9. CommandOK'  BY <2>3, <2>4, <2>5, <2>7, <1>2, <1>3, <1>11 DEF CommandOK
  <2> QED BY <2>8, <2>9, <1>10
<1> QED BY <1>12, <1>13

LEMMA ClearJournalKeeps == ASSUME DeployInv, ClearJournal PROVE DeployInv'
<1>0. command # Shell  BY DEF ClearJournal, Shell
<1>1. command \in Commands  BY <1>0, Running
<1> USE DEF DeployInv
<1>2. UNCHANGED <<selected, manifest, saved, published>> /\ command.at \in {"clear", "finish"}
    BY DEF ClearJournal
<1>3. journal # NoJournal  BY <1>0, <1>2 DEF CommandOK
<1>4. PICK o \in Outcomes :
        /\ journal' = IF o[1] THEN NoJournal ELSE journal
        /\ IF o[2] THEN Go(IF command.at = "clear" THEN "cleared" ELSE "finished")
           ELSE IF command.at = "clear" THEN Answer("failed")
           ELSE command' = [command EXCEPT !.at = "look", !.recovering = TRUE] /\ UNCHANGED said
    BY DEF ClearJournal
<1>5. o[1] \in BOOLEAN /\ o[2] \in BOOLEAN /\ (o[2] => o[1])  BY <1>4, OutcomesAre
<1>6. journal' = journal \/ journal' = NoJournal  BY <1>4, <1>5
<1>7. FilesOK'  BY <1>6, <1>2 DEF FilesOK
<1>8. ~Committed  BY <1>2 DEF Committed
<1>9. command.began = <<Standing, StandingRecord>> /\ command.left <= Cardinality(Selectors)
    BY <1>8, <1>0 DEF CommandOK
<1>10. CASE command' = Shell
    BY <1>10, <1>2, <1>6, <1>7 DEF DeployType, CommandOK
<1>11. CASE o[2] /\ command.at = "clear"
  <2>1. journal' = NoJournal /\ command' = [command EXCEPT !.at = "cleared"]  BY <1>11, <1>4, <1>5 DEF Go
  <2>2. "cleared" \in Stages  BY DEF Stages
  <2>3. /\ command' \in Commands /\ command'.at = "cleared" /\ command'.left = command.left
        /\ command'.began = command.began
      BY <2>1, <2>2, <1>1, Goes
  <2>4. selected = Standing /\ manifest = StandingRecord  BY <1>11, <1>0 DEF CommandOK
  <2>5. Standing' = selected /\ StandingRecord' = manifest
      BY <2>1, <1>2 DEF Standing, StandingRecord, NoJournal
  <2>6. DeployType'  BY <2>3, <1>2, <1>6 DEF DeployType
  <2>7. CommandOK'  BY <2>1, <2>3, <2>4, <2>5, <1>9, <1>2 DEF CommandOK
  <2> QED BY <2>6, <2>7, <1>7
<1>12. CASE o[2] /\ command.at = "finish"
  <2>1. journal' = NoJournal /\ command' = [command EXCEPT !.at = "finished"]  BY <1>12, <1>4, <1>5 DEF Go
  <2>2. "finished" \in Stages  BY DEF Stages
  <2>3. command' \in Commands /\ command'.at = "finished" /\ command'.left = command.left
      BY <2>1, <2>2, <1>1, Goes
  <2>4. DeployType'  BY <2>3, <1>2, <1>6 DEF DeployType
  <2>5. CommandOK'  BY <2>1, <2>3, <1>9, <1>2 DEF CommandOK, Committed
  <2> QED BY <2>4, <2>5, <1>7
<1>13. CASE ~o[2] /\ command.at = "finish"
  <2>1. Fail  BY <1>13, <1>4 DEF Fail
  <2>2. /\ command' \in Commands /\ command'.at = "look" /\ command'.recovering = TRUE
        /\ command'.began = command.began /\ command'.left = command.left
      BY <2>1, <1>1, Fails
  <2>3. DeployType'  BY <2>2, <1>2, <1>6 DEF DeployType
  <2>4. CASE journal' = NoJournal
    <3>1. CommandOK'  BY <2>2, <2>4, <1>9, <1>2 DEF CommandOK, Committed
    <3> QED BY <3>1, <2>3, <1>7
  <2>5. CASE journal' # NoJournal
    <3>1. Standing' = Standing /\ StandingRecord' = StandingRecord
        BY <2>5, <1>6, <1>2, StandsStill
    <3>2. CommandOK'  BY <2>2, <3>1, <1>9, <1>2 DEF CommandOK
    <3> QED BY <3>2, <2>3, <1>7
  <2> QED BY <2>4, <2>5
<1>14. ~o[2] /\ command.at = "clear" => command' = Shell  BY <1>4 DEF Answer
<1> QED BY <1>2, <1>5, <1>10, <1>11, <1>12, <1>13, <1>14

LEMMA ClearBackupKeeps == ASSUME DeployInv, ClearBackup PROVE DeployInv'
<1>0. command # Shell  BY DEF ClearBackup, Shell
<1>1. command \in Commands  BY <1>0, Running
<1> USE DEF DeployInv
<1>2. UNCHANGED <<selected, manifest, journal, published>> /\ command.at \in {"cleared", "finished"}
    BY DEF ClearBackup
<1>3. journal = NoJournal  BY <1>0, <1>2 DEF CommandOK
<1>4. PICK o \in Outcomes : saved' = IF o[1] THEN Absent ELSE saved
    BY DEF ClearBackup
<1>5. saved' = Absent \/ saved' = saved  BY <1>4, OutcomesAre
<1>6. FilesOK'  BY <1>5, <1>2, <1>3 DEF FilesOK
<1>7. Standing' = Standing /\ StandingRecord' = StandingRecord  BY <1>2, <1>3, StandsStill
<1>8. saved' \in Manifests  BY <1>5 DEF DeployType, Manifests
<1>9. CASE command' = Shell
    BY <1>9, <1>2, <1>8, <1>6 DEF DeployType, CommandOK
<1>10. CASE command' # Shell
  <2>1. command.at = "cleared" /\ command' = [command EXCEPT !.at = "decide"]
      BY <1>10 DEF ClearBackup, Answer, Go
  <2>2. "decide" \in Stages  BY DEF Stages
  <2>3. /\ command' \in Commands /\ command'.at = "decide" /\ command'.left = command.left
        /\ command'.began = command.began
      BY <2>1, <2>2, <1>1, Goes
  <2>4. ~Committed  BY <2>1 DEF Committed
  <2>5. command.began = <<Standing, StandingRecord>> /\ command.left <= Cardinality(Selectors)
      BY <2>4, <1>0 DEF CommandOK
  <2>6. DeployType'  BY <2>3, <1>2, <1>8 DEF DeployType
  <2>7. CommandOK'  BY <2>3, <2>5, <1>2, <1>3, <1>7 DEF CommandOK
  <2> QED BY <2>6, <2>7, <1>6
<1> QED BY <1>9, <1>10

(* Looking at the files changes none of them.                              *)
LEMMA CorrectStill ==
    ASSUME UNCHANGED <<selected, manifest>>
    PROVE  Correct(manifest)' = Correct(manifest) /\ Extendable' = Extendable
BY DEF Correct, Extendable

LEMMA StatusKeeps == ASSUME DeployInv, Status PROVE DeployInv'
BY DEF DeployInv, Status, Answer, Files, DeployType, FilesOK, CommandOK

LEMMA DecideInstallKeeps == ASSUME DeployInv, DecideInstall PROVE DeployInv'
<1>0. command # Shell  BY DEF DecideInstall, Shell
<1>1. command \in Commands  BY <1>0, Running
<1> USE DEF DeployInv
<1>2. UNCHANGED <<selected, manifest, journal, saved, published>>
    BY DEF DecideInstall, Files
<1>3. command.at = "decide" /\ command.op = "install"  BY DEF DecideInstall
<1>4. journal = NoJournal  BY <1>0, <1>3 DEF CommandOK
<1>5. FilesOK'  BY <1>2 DEF FilesOK
<1>6. CASE command' = Shell  BY <1>6, <1>5, <1>2 DEF DeployType, CommandOK
<1>7. CASE command' # Shell
  <2>1. Extendable /\ command' = [command EXCEPT !.at = "copy"]
      BY <1>7 DEF DecideInstall, Answer, Go, Extendable
  <2>2. "copy" \in Stages  BY DEF Stages
  <2>3. /\ command' \in Commands /\ command'.at = "copy" /\ command'.left = command.left
        /\ command'.began = command.began /\ command'.op = command.op
      BY <2>1, <2>2, <1>1, Goes
  <2>4. Standing' = Standing /\ StandingRecord' = StandingRecord  BY <1>2, StandsStill
  <2>5. ~Committed  BY <1>3 DEF Committed
  <2>6. command.began = <<Standing, StandingRecord>> /\ command.left <= Cardinality(Selectors)
      BY <2>5, <1>0 DEF CommandOK
  <2>7. Extendable'  BY <2>1, <1>2, CorrectStill
  <2>8. DeployType'  BY <2>3, <1>2 DEF DeployType
  <2>9. CommandOK'  BY <2>3, <2>4, <2>6, <2>7, <1>2, <1>3, <1>4 DEF CommandOK
  <2> QED BY <2>8, <2>9, <1>5
<1> QED BY <1>6, <1>7

LEMMA CopyReleaseKeeps == ASSUME DeployInv, CopyRelease PROVE DeployInv'
<1>0. command # Shell  BY DEF CopyRelease, Shell
<1>1. command \in Commands  BY <1>0, Running
<1> USE DEF DeployInv
<1>2. UNCHANGED <<selected, manifest, journal, saved>> /\ command.at = "copy"
    BY DEF CopyRelease
<1>3. command.op = "install" /\ Extendable /\ journal = NoJournal  BY <1>0, <1>2 DEF CommandOK
<1>4. PICK o \in Outcomes :
        /\ published' = IF o[1] THEN published \cup {command.version} ELSE published
        /\ IF o[2] THEN command' = [command EXCEPT !.at = "save", !.payload = Payload(command.version)]
           ELSE command' = Shell
    BY DEF CopyRelease, Answer
<1>5. o[1] \in BOOLEAN /\ o[2] \in BOOLEAN /\ (o[2] => o[1])  BY <1>4, OutcomesAre
<1>6. command.version \in Releases  BY <1>1 DEF Commands
<1>7. published' \subseteq Releases /\ published \subseteq published'  BY <1>4, <1>5, <1>6 DEF DeployType
<1>8. FilesOK'  BY <1>7, <1>2 DEF FilesOK
<1>9. CASE ~o[2]
  <2>1. command' = Shell  BY <1>9, <1>4
  <2> QED BY <2>1, <1>8, <1>7, <1>2 DEF DeployType, CommandOK
<1>10. CASE o[2]
  <2>1. command' = [command EXCEPT !.at = "save", !.payload = Payload(command.version)]
      BY <1>10, <1>4
  <2>2. Payload(command.version) \in Manifests
      BY <1>6 DEF Payload, Manifests, Records, DeployType
  <2>3. /\ command' \in Commands /\ command'.at = "save" /\ command'.left = command.left
        /\ command'.began = command.began /\ command'.op = "install"
        /\ command'.version = command.version /\ command'.payload = Payload(command.version)
      BY <2>1, <2>2, <1>1, <1>3 DEF Commands, Stages
  <2>4. Standing' = Standing /\ StandingRecord' = StandingRecord  BY <1>2, StandsStill
  <2>5. ~Committed  BY <1>2 DEF Committed
  <2>6. command.began = <<Standing, StandingRecord>> /\ command.left <= Cardinality(Selectors)
      BY <2>5, <1>0 DEF CommandOK
  <2>7. command.version \in published'  BY <1>10, <1>4, <1>5
  <2>8. Payload(command.version)' = Payload(command.version)  BY <2>3, <1>2 DEF Payload
  <2>9. Extendable'  BY <1>3, <1>2, CorrectStill
  <2>10. Planned'  BY <2>3, <2>7, <2>8, <2>9 DEF Planned
  <2>11. DeployType'  BY <2>3, <1>7, <1>2 DEF DeployType
  <2>12. CommandOK'  BY <2>3, <2>4, <2>6, <2>10, <1>2, <1>3 DEF CommandOK
  <2> QED BY <2>11, <2>12, <1>8
<1> QED BY <1>5, <1>9, <1>10

LEMMA DecideRollbackKeeps == ASSUME DeployInv, DecideRollback PROVE DeployInv'
<1>0. command # Shell  BY DEF DecideRollback, Shell
<1>1. command \in Commands  BY <1>0, Running
<1> USE DEF DeployInv
<1>2. UNCHANGED <<selected, manifest, journal, saved, published>>
    BY DEF DecideRollback, Files
<1>3. command.at = "decide" /\ command.op = "rollback"  BY DEF DecideRollback
<1>4. journal = NoJournal  BY <1>0, <1>3 DEF CommandOK
<1>5. FilesOK'  BY <1>2 DEF FilesOK
<1>6. CASE command' = Shell  BY <1>6, <1>5, <1>2 DEF DeployType, CommandOK
<1>7. CASE command' # Shell
  <2>1. /\ manifest # Absent /\ manifest.state # "previous_active"
        /\ ~(manifest.state = "active" /\ ~Correct(manifest))
        /\ command' = [command EXCEPT !.at = "save", !.payload = manifest]
      BY <1>7 DEF DecideRollback, Answer
  <2>2. manifest.state = "active" /\ manifest \in Manifests  BY <2>1 DEF DeployType, Manifests, Records
  <2>3. Correct(manifest)  BY <2>1, <2>2
  <2>4. /\ command' \in Commands /\ command'.at = "save" /\ command'.left = command.left
        /\ command'.began = command.began /\ command'.op = "rollback" /\ command'.payload = manifest
      BY <2>1, <2>2, <1>1, <1>3 DEF Commands, Stages
  <2>5. Standing' = Standing /\ StandingRecord' = StandingRecord  BY <1>2, StandsStill
  <2>6. ~Committed  BY <1>3 DEF Committed
  <2>7. command.began = <<Standing, StandingRecord>> /\ command.left <= Cardinality(Selectors)
      BY <2>6, <1>0 DEF CommandOK
  <2>8. Correct(manifest)'  BY <2>3, <1>2, CorrectStill
  <2>9. Planned'  BY <2>2, <2>4, <2>8, <1>2 DEF Planned
  <2>10. DeployType'  BY <2>4, <1>2 DEF DeployType
  <2>11. CommandOK'  BY <2>4, <2>5, <2>7, <2>9, <1>2, <1>4 DEF CommandOK
  <2> QED BY <2>10, <2>11, <1>5
<1> QED BY <1>6, <1>7

(* What was decided holds while the files it was decided on stay.          *)
LEMMA PlannedStill ==
    ASSUME Planned, UNCHANGED <<selected, manifest, published>>,
           command'.op = command.op, command'.version = command.version, command'.payload = command.payload
    PROVE  Planned'
<1>1. Payload(command.version)' = Payload(command.version)  BY DEF Payload
<1>2. Correct(manifest)' = Correct(manifest) /\ Extendable' = Extendable  BY CorrectStill
<1> QED BY <1>1, <1>2 DEF Planned

LEMMA SaveManifestKeeps == ASSUME DeployInv, SaveManifest PROVE DeployInv'
<1>0. command # Shell  BY DEF SaveManifest, Shell
<1>1. command \in Commands  BY <1>0, Running
<1> USE DEF DeployInv
<1>2. UNCHANGED <<selected, manifest, journal, published>> /\ command.at = "save"
    BY DEF SaveManifest
<1>3. Planned /\ journal = NoJournal  BY <1>0, <1>2 DEF CommandOK
<1>4. PICK o \in Outcomes :
        /\ saved' = IF manifest # Absent /\ o[1] THEN manifest ELSE Absent
        /\ IF o[2] THEN command' = [command EXCEPT !.at = "journal"] ELSE command' = Shell
    BY DEF SaveManifest, Answer, Go
<1>5. o[1] \in BOOLEAN /\ o[2] \in BOOLEAN /\ (o[2] => o[1])  BY <1>4, OutcomesAre
<1>6. saved' = Absent \/ saved' = manifest  BY <1>4
<1>7. FilesOK'  BY <1>6, <1>3, <1>2 DEF FilesOK
<1>8. saved' \in Manifests  BY <1>6 DEF DeployType, Manifests
<1>9. CASE ~o[2]
  <2>1. command' = Shell  BY <1>9, <1>4
  <2> QED BY <2>1, <1>7, <1>8, <1>2 DEF DeployType, CommandOK
<1>10. CASE o[2]
  <2>1. command' = [command EXCEPT !.at = "journal"]  BY <1>10, <1>4
  <2>2. "journal" \in Stages  BY DEF Stages
  <2>3. /\ command' \in Commands /\ command'.at = "journal" /\ command'.left = command.left
        /\ command'.began = command.began /\ command'.op = command.op
        /\ command'.version = command.version /\ command'.payload = command.payload
      BY <2>1, <2>2, <1>1, Goes
  <2>4. Standing' = Standing /\ StandingRecord' = StandingRecord  BY <1>2, <1>3, StandsStill
  <2>5. ~Committed  BY <1>2 DEF Committed
  <2>6. command.began = <<Standing, StandingRecord>> /\ command.left <= Cardinality(Selectors)
      BY <2>5, <1>0 DEF CommandOK
  <2>7. saved' = manifest  BY <1>10, <1>5, <1>4
  <2>8. Planned'  BY <1>2, <1>3, <2>3, PlannedStill
  <2>9. DeployType'  BY <2>3, <1>8, <1>2 DEF DeployType
  <2>10. CommandOK'  BY <2>3, <2>4, <2>6, <2>7, <2>8, <1>2, <1>3 DEF CommandOK
  <2> QED BY <2>9, <2>10, <1>7
<1> QED BY <1>5, <1>9, <1>10

(* The journal of a command leads back to what was there before it.        *)
LEMMA JournalLeadsBack ==
    ASSUME DeployType, command \in Commands, Planned, saved = manifest, journal = NoJournal,
           UNCHANGED <<selected, manifest, saved>>,
           journal' = [operation |-> command.op, active |-> command.payload, kept |-> manifest # Absent]
    PROVE  /\ Standing' = Standing /\ StandingRecord' = StandingRecord
           /\ journal' # NoJournal /\ journal' \in Journals
           /\ Standing = selected /\ StandingRecord = manifest
           /\ command.payload.state = "active"
<1> DEFINE kept == manifest # Absent
<1>1. kept \in BOOLEAN  OBVIOUS
<1> HIDE DEF kept
<1>2. journal' = [operation |-> command.op, active |-> command.payload, kept |-> kept]  BY DEF kept
<1>3. command.op \in {"install", "rollback"}  BY DEF Planned
<1>4. command.payload \in Records /\ command.payload.state = "active"
  <2>1. CASE command.op = "install"
    <3>1. command.payload = Payload(command.version) /\ command.version \in Releases
        BY <2>1 DEF Planned, Commands
    <3> QED BY <3>1 DEF Payload, Records, DeployType
  <2>2. CASE command.op = "rollback"
    <3>1. command.payload = manifest /\ manifest.state = "active"  BY <2>2 DEF Planned
    <3> QED BY <3>1 DEF DeployType, Manifests, Absent
  <2> QED BY <1>3, <2>1, <2>2
<1>5. journal' \in Journals  BY <1>1, <1>2, <1>3, <1>4 DEF Journals
<1>6. journal'.operation = command.op /\ journal'.active = command.payload /\ journal'.kept = kept
    BY <1>2
<1>7. journal' # NoJournal  BY <1>6, <1>3 DEF NoJournal
<1>8. Standing = selected /\ StandingRecord = manifest  BY DEF Standing, StandingRecord, NoJournal
<1>9. StandingRecord' = manifest  BY <1>6, <1>7 DEF StandingRecord, kept
<1>10. Standing' = selected
  <2>1. CASE command.op = "install"
    <3>1. command.payload = Payload(command.version)  BY <2>1 DEF Planned
    <3> QED BY <3>1, <2>1, <1>6 DEF Standing, Payload
  <2>2. CASE command.op = "rollback"
    <3>1. command.payload = manifest /\ manifest.state = "active" /\ Correct(manifest)
        BY <2>2 DEF Planned
    <3>2. \A s \in Selectors : selected[s] = manifest.version  BY <3>1 DEF Correct
    <3>3. selected = [s \in Selectors |-> manifest.version]  BY <3>2 DEF DeployType, Selections
    <3> QED BY <3>1, <3>3, <2>2, <1>6 DEF Standing
  <2> QED BY <1>3, <2>1, <2>2
<1> QED BY <1>4, <1>5, <1>7, <1>8, <1>9, <1>10

LEMMA WriteJournalKeeps == ASSUME DeployInv, WriteJournal PROVE DeployInv'
<1>0. command # Shell  BY DEF WriteJournal, Shell
<1>1. command \in Commands  BY <1>0, Running
<1> USE DEF DeployInv
<1>2. UNCHANGED <<selected, manifest, saved, published>> /\ command.at = "journal"
    BY DEF WriteJournal
<1>3. Planned /\ journal = NoJournal /\ saved = manifest  BY <1>0, <1>2 DEF CommandOK
<1>4. PICK o \in Outcomes :
        /\ journal' = IF o[1] THEN [operation |-> command.op, active |-> command.payload,
                                    kept |-> manifest # Absent]
                      ELSE journal
        /\ IF o[2] THEN command' = [command EXCEPT !.at = "switch", !.left = Cardinality(Selectors)]
           ELSE command' = Shell
    BY DEF WriteJournal, Answer
<1>5. o[1] \in BOOLEAN /\ o[2] \in BOOLEAN /\ (o[2] => o[1])  BY <1>4, OutcomesAre
<1>6. CASE ~o[1]
  <2>1. command' = Shell /\ journal' = journal  BY <1>6, <1>4, <1>5
  <2> QED BY <2>1, <1>2 DEF DeployType, CommandOK, FilesOK
<1>7. CASE o[1]
  <2>1. journal' = [operation |-> command.op, active |-> command.payload, kept |-> manifest # Absent]
      BY <1>7, <1>4
  <2>2. /\ Standing' = Standing /\ StandingRecord' = StandingRecord
        /\ journal' # NoJournal /\ journal' \in Journals
        /\ Standing = selected /\ StandingRecord = manifest
        /\ command.payload.state = "active"
      BY <2>1, <1>1, <1>2, <1>3, JournalLeadsBack
  <2>3. journal'.active = command.payload /\ journal'.kept = (saved # Absent)  BY <2>1, <1>3
  <2>4. command.payload.version \in published
    <3>1. CASE command.op = "install"  BY <3>1, <1>3 DEF Planned, Payload
    <3>2. CASE command.op # "install"
      <4>1. command.payload = manifest /\ manifest # Absent  BY <3>2, <1>3 DEF Planned, Absent
      <4> QED BY <4>1 DEF FilesOK
    <3> QED BY <3>1, <3>2
  <2>5. FilesOK'  BY <2>2, <2>3, <2>4, <1>2 DEF FilesOK
  <2>6. CASE ~o[2]
    <3>1. command' = Shell  BY <2>6, <1>4
    <3> QED BY <3>1, <2>2, <2>5, <1>2 DEF DeployType, CommandOK
  <2>7. CASE o[2]
    <3>1. command' = [command EXCEPT !.at = "switch", !.left = Cardinality(Selectors)]  BY <2>7, <1>4
    <3>2. /\ command' \in Commands /\ command'.at = "switch" /\ command'.left = Cardinality(Selectors)
          /\ command'.began = command.began /\ command'.op = command.op
          /\ command'.version = command.version /\ command'.payload = command.payload
        BY <3>1, <1>1, SelectorCount DEF Commands, Stages
    <3>3. ~Committed  BY <1>2 DEF Committed
    <3>4. command.began = <<Standing, StandingRecord>>  BY <3>3, <1>0 DEF CommandOK
    <3>5. DeployType'  BY <3>2, <2>2, <1>2 DEF DeployType
    <3>6. journal' = [operation |-> command.op, active |-> command.payload, kept |-> saved # Absent]
        BY <2>1, <1>3
    <3>7. Switch!Holds
      <4>1. manifest = Absent \/ Correct(manifest)  BY <1>3 DEF Planned, Extendable
      <4> QED BY <4>1, <2>2 DEF Switch!Holds, Correct, Absent
    <3>8. Switch!Holds'  BY <3>7, <2>2 DEF Switch!Holds
    <3>9. command.op = "install" => command.payload.version = command.version
        BY <1>3 DEF Planned, Payload
    <3>10. command.op = "rollback" => command.payload = StandingRecord'  BY <1>3, <2>2 DEF Planned
    <3>11. Underway'  BY <3>2, <3>6, <3>8, <3>9, <3>10, <1>2 DEF Underway
    <3>12. CommandOK'  BY <3>2, <3>4, <3>11, <2>2, <1>2, SelectorCount DEF CommandOK
    <3> QED BY <3>5, <2>5, <3>12
  <2> QED BY <1>5, <2>6, <2>7
<1> QED BY <1>5, <1>6, <1>7

(* What is underway goes on while the journal and its backup stay.         *)
LEMMA UnderwayStill ==
    ASSUME Underway, UNCHANGED <<journal, saved>>, Standing' = Standing, StandingRecord' = StandingRecord,
           command'.op = command.op, command'.version = command.version, command'.payload = command.payload
    PROVE  Underway'
<1>1. Switch!Holds' = Switch!Holds  BY DEF Switch!Holds
<1> QED BY <1>1 DEF Underway

LEMMA PayloadType ==
    ASSUME DeployInv, command \in Commands, Underway, journal # NoJournal
    PROVE  /\ command.payload \in Records /\ command.payload.state = "active"
           /\ command.payload.version \in published
           /\ command.op \in {"install", "rollback"}
           /\ journal.operation = command.op /\ journal.active = command.payload
<1> DEFINE kept == saved # Absent
<1>1. journal = [operation |-> command.op, active |-> command.payload, kept |-> kept]  BY DEF Underway
<1> HIDE DEF kept
<1>2. journal.operation = command.op /\ journal.active = command.payload  BY <1>1
<1>3. journal \in Journals  BY DEF DeployInv, DeployType
<1> QED BY <1>2, <1>3 DEF Journals, DeployInv, FilesOK

LEMMA SwitchSelectorKeeps == ASSUME DeployInv, SwitchSelector PROVE DeployInv'
<1>0. command # Shell  BY DEF SwitchSelector, Shell
<1>1. command \in Commands  BY <1>0, Running
<1> USE DEF DeployInv
<1>2. UNCHANGED <<manifest, journal, saved, published>> /\ command.at = "switch" /\ command.left > 0
    BY DEF SwitchSelector
<1>3. journal # NoJournal /\ Underway  BY <1>0, <1>2 DEF CommandOK
<1> DEFINE s == Cardinality(Selectors) + 1 - command.left
           wanted == IF command.op = "install" THEN command.version ELSE command.payload.previous[s]
<1>4. PICK o \in Outcomes :
        /\ selected' = IF o[1] THEN [selected EXCEPT ![s] = wanted] ELSE selected
        /\ IF o[2] THEN command' = [command EXCEPT !.left = @ - 1] /\ UNCHANGED said ELSE Fail
    BY DEF SwitchSelector
<1>5. o[1] \in BOOLEAN /\ o[2] \in BOOLEAN  BY <1>4, OutcomesAre
<1>6. command.left \in Nat /\ command.left <= Cardinality(Selectors)  BY <1>0, <1>1 DEF Commands, CommandOK
<1>7. s \in Selectors  BY <1>6, <1>2, SelectorCount
<1> HIDE DEF s
<1>8. wanted \in Releases \cup Originals
  <2>1. command.payload.previous \in Selections  BY <1>1, <1>3, PayloadType DEF Records
  <2>2. command.version \in Releases  BY <1>1 DEF Commands
  <2> QED BY <2>1, <2>2, <1>7 DEF Selections
<1> HIDE DEF wanted
<1>9. selected' \in Selections  BY <1>4, <1>5, <1>7, <1>8 DEF DeployType, Selections
<1>10. Standing' = Standing /\ StandingRecord' = StandingRecord  BY <1>2, <1>3, StandsStill
<1>11. ~Committed  BY <1>2 DEF Committed
<1>12. command.began = <<Standing, StandingRecord>>  BY <1>11, <1>0 DEF CommandOK
<1>13. FilesOK'  BY <1>2 DEF FilesOK
<1>14. CASE ~o[2]
  <2>1. /\ command' \in Commands /\ command'.at = "look" /\ command'.recovering = TRUE
        /\ command'.began = command.began /\ command'.left = command.left
      BY <1>14, <1>4, <1>1, Fails
  <2>2. DeployType'  BY <2>1, <1>9, <1>2 DEF DeployType
  <2>3. CommandOK'  BY <2>1, <1>2, <1>6, <1>10, <1>12 DEF CommandOK
  <2> QED BY <2>2, <2>3, <1>13
<1>15. CASE o[2]
  <2> DEFINE down == command.left - 1
  <2>1. down \in Nat /\ down <= Cardinality(Selectors)  BY <1>2, <1>6, SelectorCount
  <2>2. command' = [command EXCEPT !.left = down]  BY <1>15, <1>4
  <2> HIDE DEF down
  <2>3. /\ command' \in Commands /\ command'.at = "switch" /\ command'.left = down
        /\ command'.began = command.began /\ command'.op = command.op
        /\ command'.version = command.version /\ command'.payload = command.payload
      BY <2>1, <2>2, <1>1, <1>2 DEF Commands
  <2>4. Underway'  BY <2>3, <1>2, <1>3, <1>10, UnderwayStill
  <2>5. DeployType'  BY <2>3, <1>9, <1>2 DEF DeployType
  <2>6. CommandOK'  BY <2>1, <2>3, <2>4, <1>2, <1>3, <1>10, <1>12 DEF CommandOK
  <2> QED BY <2>5, <2>6, <1>13
<1> QED BY <1>5, <1>14, <1>15

LEMMA CommitManifestKeeps == ASSUME DeployInv, CommitManifest PROVE DeployInv'
<1>0. command # Shell  BY DEF CommitManifest, Shell
<1>1. command \in Commands  BY <1>0, Running
<1> USE DEF DeployInv
<1>2. UNCHANGED <<selected, journal, saved, published>> /\ command.at = "switch"
    BY DEF CommitManifest
<1>3. journal # NoJournal /\ Underway  BY <1>0, <1>2 DEF CommandOK
<1>4. PICK o \in Outcomes :
        /\ manifest' = IF o[1] THEN NextManifest ELSE manifest
        /\ IF o[2] /\ Correct(NextManifest) THEN command' = [command EXCEPT !.at = "finish"] ELSE Fail
    BY DEF CommitManifest, Go
<1>5. o[1] \in BOOLEAN /\ o[2] \in BOOLEAN /\ (o[2] => o[1])  BY <1>4, OutcomesAre
<1>6. /\ command.payload \in Records /\ command.payload.state = "active"
      /\ command.payload.version \in published
    BY <1>1, <1>3, PayloadType
<1>7. NextManifest \in Manifests /\ NextManifest # Absent /\ NextManifest.version \in published
    BY <1>6 DEF NextManifest, Manifests, Records, Absent
<1>8. manifest' = manifest \/ manifest' = NextManifest  BY <1>4
<1>9. manifest' \in Manifests  BY <1>7, <1>8 DEF DeployType
<1>10. FilesOK'  BY <1>2, <1>7, <1>8 DEF FilesOK
<1>11. Standing' = Standing /\ StandingRecord' = StandingRecord  BY <1>2, <1>3, StandsStill
<1>12. ~Committed  BY <1>2 DEF Committed
<1>13. command.began = <<Standing, StandingRecord>> /\ command.left <= Cardinality(Selectors)
    BY <1>12, <1>0 DEF CommandOK
<1>14. CASE Fail
  <2>1. /\ command' \in Commands /\ command'.at = "look" /\ command'.recovering = TRUE
        /\ command'.began = command.began /\ command'.left = command.left
      BY <1>14, <1>1, Fails
  <2>2. DeployType'  BY <2>1, <1>9, <1>2 DEF DeployType
  <2>3. CommandOK'  BY <2>1, <1>2, <1>11, <1>13 DEF CommandOK
  <2> QED BY <2>2, <2>3, <1>10
<1>15. CASE o[2] /\ Correct(NextManifest)
  <2>1. command' = [command EXCEPT !.at = "finish"] /\ manifest' = NextManifest  BY <1>15, <1>4, <1>5
  <2>2. "finish" \in Stages  BY DEF Stages
  <2>3. /\ command' \in Commands /\ command'.at = "finish" /\ command'.left = command.left
        /\ command'.began = command.began /\ command'.op = command.op
        /\ command'.version = command.version /\ command'.payload = command.payload
      BY <2>1, <2>2, <1>1, Goes
  <2>4. Underway'  BY <2>3, <1>2, <1>3, <1>11, UnderwayStill
  <2>5. NextManifest' = NextManifest  BY <2>3 DEF NextManifest
  <2>6. Correct(manifest)'  BY <1>15, <2>1, <1>2 DEF Correct
  <2>7. DeployType'  BY <2>3, <1>9, <1>2 DEF DeployType
  <2>8. CommandOK'  BY <2>1, <2>3, <2>4, <2>5, <2>6, <1>2, <1>3, <1>11, <1>13 DEF CommandOK
  <2> QED BY <2>7, <2>8, <1>10
<1> QED BY <1>4, <1>14, <1>15

LEMMA DeployStep == ASSUME DeployInv, [DeployNext]_deployVars PROVE DeployInv'
<1>1. CASE UNCHANGED deployVars
  <2>1. Standing' = Standing /\ StandingRecord' = StandingRecord
      BY <1>1 DEF deployVars, Standing, StandingRecord
  <2>2. CommandOK' = CommandOK
      BY <1>1, <2>1 DEF deployVars, CommandOK, Planned, Payload, Extendable, Correct, Underway, Switch!Holds,
                        NextManifest, Committed
  <2> QED BY <1>1, <2>2 DEF deployVars, DeployInv, DeployType, FilesOK
<1> QED BY <1>1, RunKeeps, LookKeeps, UndoSelectorKeeps, UndoManifestKeeps, ClearJournalKeeps, ClearBackupKeeps,
           StatusKeeps, DecideInstallKeeps, CopyReleaseKeeps, DecideRollbackKeeps, SaveManifestKeeps,
           WriteJournalKeeps, SwitchSelectorKeeps, CommitManifestKeeps, DieKeeps, UserEditKeeps
      DEF DeployNext

LEMMA DeployAlwaysInv == DeploySpec => []DeployInv
BY DeployStart, DeployStep, PTL DEF DeploySpec

-----------------------------------------------------------------------------
(***************************************************************************)
(* The switch that the commands implement.                                 *)
(***************************************************************************)

StandNext == [Switch!SwitchNext]_<<Standing, StandingRecord>>

(* The journal is what makes a change count: with it goes the old state.   *)
LEMMA ClearJournalSwitches == ASSUME DeployInv, ClearJournal PROVE StandNext
<1>0. command # Shell  BY DEF ClearJournal, Shell
<1>1. command \in Commands  BY <1>0, Running
<1>2. UNCHANGED <<selected, manifest, saved, published>> /\ command.at \in {"clear", "finish"}
    BY DEF ClearJournal
<1>3. journal # NoJournal  BY <1>0, <1>2 DEF DeployInv, CommandOK
<1>4. PICK o \in Outcomes : journal' = IF o[1] THEN NoJournal ELSE journal
    BY DEF ClearJournal
<1>5. CASE journal' = journal
  <2>1. Standing' = Standing /\ StandingRecord' = StandingRecord
      BY <1>5, <1>2, <1>3, StandsStill DEF DeployInv
  <2> QED BY <2>1 DEF StandNext
<1>6. CASE journal' = NoJournal
  <2>1. Standing' = selected /\ StandingRecord' = manifest
      BY <1>6, <1>2 DEF Standing, StandingRecord, NoJournal
  <2>2. CASE command.at = "clear"
    <3>1. selected = Standing /\ manifest = StandingRecord  BY <2>2, <1>0 DEF DeployInv, CommandOK
    <3> QED BY <3>1, <2>1 DEF StandNext
  <2>3. CASE command.at = "finish"
    <3>1. Underway /\ manifest = NextManifest /\ Correct(manifest)  BY <2>3, <1>0 DEF DeployInv, CommandOK
    <3>2. /\ command.payload \in Records /\ command.payload.state = "active"
          /\ command.op \in {"install", "rollback"}
          /\ journal.operation = command.op /\ journal.active = command.payload
        BY <3>1, <1>1, <1>3, PayloadType
    <3>3. Switch!Holds  BY <3>1 DEF Underway
    <3>4. selected \in Selections  BY DEF DeployInv, DeployType
    <3>5. CASE command.op = "install"
      <4>1. Standing = command.payload.previous  BY <3>2, <3>5 DEF Standing
      <4>2. command.payload.version = command.version /\ command.version \in Releases
          BY <3>1, <3>5, <1>1 DEF Underway, Commands
      <4>3. manifest = command.payload  BY <3>1, <3>5 DEF NextManifest
      <4>4. manifest = Switch!Active(command.version, Standing)
          BY <4>1, <4>2, <4>3, <3>2 DEF Switch!Active, Records
      <4>5. \A s \in Selectors : selected[s] = command.version
          BY <3>1, <3>2, <4>2, <4>3 DEF Correct
      <4>6. selected = [s \in Selectors |-> command.version]  BY <4>5, <3>4 DEF Selections
      <4>7. Switch!Install(command.version)  BY <3>3, <4>4, <4>6, <2>1 DEF Switch!Install
      <4> QED BY <4>2, <4>7 DEF StandNext, Switch!SwitchNext
    <3>6. CASE command.op = "rollback"
      <4>1. command.payload = StandingRecord  BY <3>1, <3>6 DEF Underway
      <4>2. manifest = [StandingRecord EXCEPT !.state = "previous_active"]
          BY <3>1, <3>6, <4>1 DEF NextManifest
      <4>3. selected = StandingRecord.previous
          BY <3>1, <3>2, <4>1, <4>2 DEF Correct, Records
      <4>4. Switch!Rollback  BY <3>2, <3>3, <4>1, <4>2, <4>3, <2>1 DEF Switch!Rollback
      <4> QED BY <4>4 DEF StandNext, Switch!SwitchNext
    <3> QED BY <3>2, <3>5, <3>6
  <2> QED BY <1>2, <2>2, <2>3
<1>7. journal' = journal \/ journal' = NoJournal  BY <1>4
<1> QED BY <1>5, <1>6, <1>7

LEMMA WriteJournalSwitches == ASSUME DeployInv, WriteJournal PROVE StandNext
<1>0. command # Shell  BY DEF WriteJournal, Shell
<1>1. command \in Commands  BY <1>0, Running
<1>2. UNCHANGED <<selected, manifest, saved, published>> /\ command.at = "journal"
    BY DEF WriteJournal
<1>3. Planned /\ journal = NoJournal /\ saved = manifest  BY <1>0, <1>2 DEF DeployInv, CommandOK
<1>4. PICK o \in Outcomes :
        journal' = IF o[1] THEN [operation |-> command.op, active |-> command.payload,
                                 kept |-> manifest # Absent]
                   ELSE journal
    BY DEF WriteJournal
<1>5. CASE o[1]
  <2>1. journal' = [operation |-> command.op, active |-> command.payload, kept |-> manifest # Absent]
      BY <1>5, <1>4
  <2>2. Standing' = Standing /\ StandingRecord' = StandingRecord
      BY <2>1, <1>1, <1>2, <1>3, JournalLeadsBack DEF DeployInv
  <2> QED BY <2>2 DEF StandNext
<1>6. CASE ~o[1]
  <2>1. Standing' = Standing /\ StandingRecord' = StandingRecord
      BY <1>6, <1>4, <1>2, StandsStill DEF DeployInv
  <2> QED BY <2>1 DEF StandNext
<1> QED BY <1>5, <1>6

LEMMA UserEditSwitches == ASSUME DeployInv, UserEdit PROVE StandNext
<1>1. UNCHANGED <<manifest, journal, saved>>  BY DEF UserEdit
<1>2. PICK s \in Selectors, c \in Originals : selected' = [selected EXCEPT ![s] = c]  BY DEF UserEdit
<1>3. CASE journal = NoJournal
  <2>1. Standing = selected /\ Standing' = selected' /\ StandingRecord' = StandingRecord
      BY <1>1, <1>3 DEF Standing, StandingRecord, NoJournal
  <2>2. Switch!Replace  BY <1>2, <2>1 DEF Switch!Replace
  <2> QED BY <2>2 DEF StandNext, Switch!SwitchNext
<1>4. CASE journal # NoJournal
  <2>1. Standing' = Standing /\ StandingRecord' = StandingRecord
      BY <1>1, <1>4, StandsStill DEF DeployInv
  <2> QED BY <2>1 DEF StandNext
<1> QED BY <1>3, <1>4

LEMMA SwitchStep == ASSUME DeployInv, [DeployNext]_deployVars PROVE StandNext
<1>1. ASSUME journal' = journal, journal = NoJournal => UNCHANGED <<selected, manifest>>,
             journal # NoJournal => UNCHANGED saved
      PROVE  StandNext
    BY <1>1, StandsStill DEF DeployInv, StandNext
<1>2. CASE UNCHANGED deployVars  BY <1>1, <1>2 DEF deployVars
<1>3. CASE Run  BY <1>1, <1>3 DEF Run, Files
<1>4. CASE LookForJournal  BY <1>1, <1>4 DEF LookForJournal
<1>5. CASE UndoSelector
  <2>1. journal # NoJournal  BY <1>5 DEF UndoSelector, DeployInv, CommandOK, Shell
  <2> QED BY <1>1, <2>1, <1>5 DEF UndoSelector
<1>6. CASE UndoManifest
  <2>1. journal # NoJournal  BY <1>6 DEF UndoManifest, DeployInv, CommandOK, Shell
  <2> QED BY <1>1, <2>1, <1>6 DEF UndoManifest
<1>7. CASE ClearBackup
  <2>1. journal = NoJournal  BY <1>7 DEF ClearBackup, DeployInv, CommandOK, Shell
  <2> QED BY <1>1, <2>1, <1>7 DEF ClearBackup
<1>8. CASE Status \/ DecideInstall \/ DecideRollback \/ Die
    BY <1>1, <1>8 DEF Status, DecideInstall, DecideRollback, Die, Files
<1>9. CASE CopyRelease  BY <1>1, <1>9 DEF CopyRelease
<1>10. CASE SaveManifest
  <2>1. journal = NoJournal  BY <1>10 DEF SaveManifest, DeployInv, CommandOK, Shell
  <2> QED BY <1>1, <2>1, <1>10 DEF SaveManifest
<1>11. CASE SwitchSelector
  <2>1. journal # NoJournal  BY <1>11 DEF SwitchSelector, DeployInv, CommandOK, Shell
  <2> QED BY <1>1, <2>1, <1>11 DEF SwitchSelector
<1>12. CASE CommitManifest
  <2>1. journal # NoJournal  BY <1>12 DEF CommitManifest, DeployInv, CommandOK, Shell
  <2> QED BY <1>1, <2>1, <1>12 DEF CommitManifest
<1> QED BY <1>2, <1>3, <1>4, <1>5, <1>6, <1>7, <1>8, <1>9, <1>10, <1>11, <1>12,
           ClearJournalSwitches, WriteJournalSwitches, UserEditSwitches DEF DeployNext

LEMMA SwitchStart == DeployInit => Switch!SwitchInit
BY DEF DeployInit, Switch!SwitchInit, Standing, StandingRecord, NoJournal, Absent, Switch!NoRecord

(* Whatever fails and wherever a command dies, an install and a rollback   *)
(* are one step of the selectors and the manifest: the deployment          *)
(* implements the switch (begin_recovery, recover_interrupted).            *)
THEOREM DeploymentImplementsSwitch == DeploySpec => ImplementsSwitch
<1>1. DeployInit => Switch!SwitchInit  BY SwitchStart
<1>2. DeployInv /\ [DeployNext]_deployVars => [Switch!SwitchNext]_<<Standing, StandingRecord>>
    BY SwitchStep DEF StandNext
<1>3. DeploySpec => []DeployInv  BY DeployAlwaysInv
<1> QED BY <1>1, <1>2, <1>3, PTL DEF DeploySpec, ImplementsSwitch, Switch!SwitchSpec

-----------------------------------------------------------------------------
(***************************************************************************)
(* What the commands answer.                                               *)
(***************************************************************************)

Truthful ==
    /\ (said' = "ok" /\ command # Shell /\ command' = Shell) =>
         journal' = NoJournal /\ Correct(manifest')
    /\ (said' = "restored" /\ command # Shell /\ command' = Shell) =>
         journal' = NoJournal /\ <<selected, manifest>>' = command.began

(* A command that goes on has not answered, one that failed says so.       *)
LEMMA NoAnswer ==
    ASSUME DeployInv, command # Shell
    PROVE  /\ \A at \in Stages : Go(at) => Truthful
           /\ Answer("failed") => Truthful
           /\ Answer("refused") => Truthful
           /\ Fail => Truthful
<1>1. command \in Commands  BY Running
<1>2. ASSUME NEW at \in Stages, Go(at) PROVE Truthful
  <2>1. command' # Shell  BY <1>1, <1>2, Goes DEF Go
  <2> QED BY <2>1 DEF Truthful
<1>3. ASSUME Fail PROVE Truthful
  <2>1. command' # Shell  BY <1>1, <1>3, Fails
  <2> QED BY <2>1 DEF Truthful
<1>4. Answer("failed") => Truthful  BY DEF Answer, Truthful
<1>5. Answer("refused") => Truthful  BY DEF Answer, Truthful
<1> QED BY <1>2, <1>3, <1>4, <1>5

LEMMA OkIsTrue ==
    ASSUME UNCHANGED <<selected, manifest, journal>>, journal = NoJournal,
           Answer(IF Correct(manifest) THEN "ok" ELSE "failed")
    PROVE  Truthful
<1>1. Correct(manifest)' = Correct(manifest)  BY CorrectStill
<1>2. CASE Correct(manifest)
  <2>1. said' = "ok" /\ Correct(manifest)'  BY <1>1, <1>2 DEF Answer
  <2>2. Correct(manifest')  BY <1>2 DEF Correct
  <2> QED BY <2>1, <2>2 DEF Truthful
<1>3. CASE ~Correct(manifest)
  <2>1. said' = "failed"  BY <1>3 DEF Answer
  <2> QED BY <2>1 DEF Truthful
<1> QED BY <1>2, <1>3

LEMMA AnswerStep == ASSUME DeployInv, [DeployNext]_deployVars PROVE [Truthful]_deployVars
<1> USE DEF Truthful
<1>1. CASE UNCHANGED deployVars  BY <1>1
<1>2. CASE command = Shell  BY <1>2
<1> SUFFICES ASSUME command # Shell, DeployNext PROVE Truthful  BY <1>1, <1>2
<1>3. command \in Commands  BY Running
<1>4. /\ command.at \in {"decide", "copy", "save", "journal", "cleared", "finished"} => journal = NoJournal
      /\ command.at \in {"undo", "clear", "switch", "finish"} => journal # NoJournal
      /\ ~Committed => command.began = <<Standing, StandingRecord>>
    BY DEF DeployInv, CommandOK
<1> HIDE DEF Truthful
<1>5. ~Run /\ ~UserEdit  BY DEF Run, UserEdit
<1>6. CASE LookForJournal
  <2>1. CASE command.recovering /\ journal = NoJournal
    <3>1. Answer("failed")  BY <1>6, <2>1 DEF LookForJournal
    <3> QED BY <3>1, NoAnswer
  <2>2. CASE ~command.recovering /\ journal = NoJournal
    <3>1. Go("decide") /\ "decide" \in Stages  BY <1>6, <2>2 DEF LookForJournal, Stages
    <3> QED BY <3>1, NoAnswer
  <2>3. CASE journal # NoJournal
    <3>1. command' = [command EXCEPT !.at = "undo", !.left = Cardinality(Selectors), !.verified = TRUE]
        BY <1>6, <2>3 DEF LookForJournal
    <3>2. command' # Shell  BY <3>1, <1>3 DEF Commands, Shell
    <3> QED BY <3>2 DEF Truthful
  <2> QED BY <2>1, <2>2, <2>3
<1>7. CASE UndoSelector
  <2>1. command' # Shell
    <3>1. PICK o \in Outcomes : command' = [command EXCEPT !.left = @ - 1, !.verified = @ /\ o[2]]
        BY <1>7 DEF UndoSelector
    <3>2. command'.at = "undo"  BY <3>1, <1>3, <1>7 DEF Commands, UndoSelector
    <3> QED BY <3>2 DEF Shell
  <2> QED BY <2>1 DEF Truthful
<1>8. CASE UndoManifest
  <2>1. Go("clear") \/ Answer("failed")  BY <1>8 DEF UndoManifest
  <2> QED BY <2>1, NoAnswer DEF Stages
<1>9. CASE ClearJournal
  <2>1. Go("cleared") \/ Go("finished") \/ Answer("failed") \/ Fail  BY <1>9 DEF ClearJournal, Fail
  <2> QED BY <2>1, NoAnswer DEF Stages
<1>10. CASE ClearBackup
  <2>1. journal = NoJournal /\ UNCHANGED <<selected, manifest, journal>>  BY <1>4, <1>10 DEF ClearBackup
  <2>2. CASE command.at = "finished"
    <3>1. Answer(IF Correct(manifest) THEN "ok" ELSE "failed")  BY <1>10, <2>2 DEF ClearBackup
    <3> QED BY <3>1, <2>1, OkIsTrue
  <2>3. CASE command.at = "cleared" /\ command.recovering
    <3>1. command.began = <<Standing, StandingRecord>>  BY <1>4, <2>3 DEF Committed
    <3>2. Standing = selected /\ StandingRecord = manifest  BY <2>1 DEF Standing, StandingRecord, NoJournal
    <3>3. said' = "restored"  BY <1>10, <2>3 DEF ClearBackup, Answer
    <3> QED BY <3>1, <3>2, <3>3, <2>1 DEF Truthful
  <2>4. CASE command.at = "cleared" /\ ~command.recovering
    <3>1. Go("decide")  BY <1>10, <2>4 DEF ClearBackup
    <3> QED BY <3>1, NoAnswer DEF Stages
  <2> QED BY <1>10, <2>2, <2>3, <2>4 DEF ClearBackup
<1>11. CASE Status
  <2>1. journal = NoJournal /\ UNCHANGED <<selected, manifest, journal>>  BY <1>4, <1>11 DEF Status, Files
  <2> QED BY <2>1, <1>11, OkIsTrue DEF Status
<1>12. CASE DecideInstall
  <2>1. journal = NoJournal /\ UNCHANGED <<selected, manifest, journal>>
      BY <1>4, <1>12 DEF DecideInstall, Files
  <2>2. CASE manifest # Absent /\ ~Correct(manifest)
    <3>1. Answer("refused")  BY <1>12, <2>2 DEF DecideInstall
    <3> QED BY <3>1, NoAnswer
  <2>3. CASE /\ ~(manifest # Absent /\ ~Correct(manifest))
             /\ manifest.state = "active" /\ manifest.version = command.version
    <3>1. Answer("ok")  BY <1>12, <2>3 DEF DecideInstall
    <3>2. manifest # Absent  BY <2>3 DEF Absent
    <3>3. Answer(IF Correct(manifest) THEN "ok" ELSE "failed")  BY <3>1, <3>2, <2>3
    <3> QED BY <3>3, <2>1, OkIsTrue
  <2>4. CASE /\ ~(manifest # Absent /\ ~Correct(manifest))
             /\ ~(manifest.state = "active" /\ manifest.version = command.version)
    <3>1. Go("copy")  BY <1>12, <2>4 DEF DecideInstall
    <3> QED BY <3>1, NoAnswer DEF Stages
  <2> QED BY <2>2, <2>3, <2>4
<1>13. CASE CopyRelease
  <2>1. command' # Shell \/ Answer("failed")
    <3>1. PICK o \in Outcomes :
            IF o[2] THEN command' = [command EXCEPT !.at = "save", !.payload = Payload(command.version)]
            ELSE Answer("failed")
        BY <1>13 DEF CopyRelease
    <3>2. CASE o[2]
      <4>1. command'.at = "save"  BY <3>1, <3>2, <1>3 DEF Commands
      <4> QED BY <4>1 DEF Shell
    <3> QED BY <3>1, <3>2
  <2> QED BY <2>1, NoAnswer DEF Truthful
<1>14. CASE DecideRollback
  <2>1. journal = NoJournal /\ UNCHANGED <<selected, manifest, journal>>
      BY <1>4, <1>14 DEF DecideRollback, Files
  <2>2. \/ Answer("refused")
        \/ Answer(IF Correct(manifest) THEN "ok" ELSE "failed")
        \/ command' = [command EXCEPT !.at = "save", !.payload = manifest]
      BY <1>14 DEF DecideRollback
  <2>3. CASE command' = [command EXCEPT !.at = "save", !.payload = manifest]
    <3>1. command'.at = "save"  BY <2>3, <1>3 DEF Commands
    <3> QED BY <3>1 DEF Shell, Truthful
  <2> QED BY <2>1, <2>2, <2>3, NoAnswer, OkIsTrue
<1>15. CASE SaveManifest
  <2>1. Go("journal") \/ Answer("failed")  BY <1>15 DEF SaveManifest
  <2> QED BY <2>1, NoAnswer DEF Stages
<1>16. CASE WriteJournal
  <2>1. command' # Shell \/ Answer("failed")
    <3>1. PICK o \in Outcomes :
            IF o[2] THEN command' = [command EXCEPT !.at = "switch", !.left = Cardinality(Selectors)]
            ELSE Answer("failed")
        BY <1>16 DEF WriteJournal
    <3>2. CASE o[2]
      <4>1. command'.at = "switch"  BY <3>1, <3>2, <1>3 DEF Commands
      <4> QED BY <4>1 DEF Shell
    <3> QED BY <3>1, <3>2
  <2> QED BY <2>1, NoAnswer DEF Truthful
<1>17. CASE SwitchSelector
  <2>1. command' # Shell \/ Fail
    <3>1. PICK o \in Outcomes :
            IF o[2] THEN command' = [command EXCEPT !.left = @ - 1] /\ UNCHANGED said ELSE Fail
        BY <1>17 DEF SwitchSelector
    <3>2. CASE o[2]
      <4>1. command'.at = "switch"  BY <3>1, <3>2, <1>3, <1>17 DEF Commands, SwitchSelector
      <4> QED BY <4>1 DEF Shell
    <3> QED BY <3>1, <3>2
  <2> QED BY <2>1, NoAnswer DEF Truthful
<1>18. CASE CommitManifest
  <2>1. Go("finish") \/ Fail  BY <1>18 DEF CommitManifest
  <2> QED BY <2>1, NoAnswer DEF Stages
<1>19. CASE Die
  <2>1. said' = "died"  BY <1>19 DEF Die
  <2> QED BY <2>1 DEF Truthful
<1> QED BY <1>5, <1>6, <1>7, <1>8, <1>9, <1>10, <1>11, <1>12, <1>13, <1>14, <1>15, <1>16, <1>17, <1>18, <1>19
      DEF DeployNext

(* What is on disk can be recovered and every answer is true when it is    *)
(* given, wherever a command fails or dies (begin_recovery,                *)
(* status_for_root).                                                       *)
THEOREM DeploymentAlwaysHonest == DeploySpec => DeploymentHonest
<1>1. DeploySpec => []DeployInv  BY DeployAlwaysInv
<1>2. DeployInv => JournalUsable  BY DEF DeployInv, FilesOK, JournalUsable
<1>3. DeployInv /\ [DeployNext]_deployVars => [Truthful]_deployVars  BY AnswerStep
<1>4. DeploySpec => [][Truthful]_deployVars  BY <1>1, <1>3, PTL DEF DeploySpec
<1>5. DeploySpec => AnswersTrue  BY <1>4 DEF Truthful, AnswersTrue
<1> QED BY <1>1, <1>2, <1>5, PTL DEF DeploymentHonest

-----------------------------------------------------------------------------
(***************************************************************************)
(* The rollouts.                                                           *)
(***************************************************************************)

LEMMA CutoverStart == CutoverInit => CutoverInv
<1> SUFFICES ASSUME CutoverInit PROVE CutoverInv  OBVIOUS
<1>1. NoRollout \in [pc : Unlocked \cup Locked, before : {NoRollback, BeforeCutover}, phase : 1..3] /\ NoRollout.pc = "free"
    BY DEF NoRollout, Unlocked
<1>2. CutoverType  BY <1>1 DEF CutoverInit, CutoverType, Deployments
<1>3. VerifyPair("previous") /\ deployed = BeforeCutover  BY DEF CutoverInit, VerifyPair
<1>4. WayBack  BY <1>3 DEF WayBack, VerifyPair
<1>5. ASSUME NEW p \in Rollouts PROVE RolloutOK(p)
  <2>1. rollout[p].pc = "free"  BY <1>1 DEF CutoverInit
  <2>2. cutLock # p  BY CutoverAssumption DEF CutoverInit
  <2> QED BY <2>1, <2>2 DEF RolloutOK, Locked, Switching
<1> QED BY <1>2, <1>3, <1>4, <1>5 DEF CutoverInv, Agree

(* The rollout that holds the lock is the only one that acts.              *)
LEMMA OnlyHolder ==
    ASSUME CutoverInv, NEW p \in Rollouts, cutLock = p, NEW q \in Rollouts, q # p
    PROVE  rollout[q].pc \notin Locked
BY DEF CutoverInv, RolloutOK

(* What a rollout becomes.                                                 *)
LEMMA RolloutGoes ==
    ASSUME CutoverType, NEW p \in Rollouts, NEW pc \in Unlocked \cup Locked, ThenDo(p, pc)
    PROVE  /\ rollout' \in [Rollouts -> [pc : Unlocked \cup Locked, before : {NoRollback, BeforeCutover}, phase : 1..3]]
           /\ rollout'[p].pc = pc /\ rollout'[p].before = rollout[p].before
           /\ \A q \in Rollouts : q # p => rollout'[q] = rollout[q]
BY DEF CutoverType, ThenDo

LEMMA RolloutEnds ==
    ASSUME CutoverType, NEW p \in Rollouts, Ends(p)
    PROVE  /\ rollout' \in [Rollouts -> [pc : Unlocked \cup Locked, before : {NoRollback, BeforeCutover}, phase : 1..3]]
           /\ rollout'[p].pc = "free"
           /\ \A q \in Rollouts : q # p => rollout'[q] = rollout[q]
<1>1. NoRollout \in [pc : Unlocked \cup Locked, before : {NoRollback, BeforeCutover}, phase : 1..3] /\ NoRollout.pc = "free"
    BY DEF NoRollout, Unlocked
<1> QED BY <1>1 DEF CutoverType, Ends

(* A rollout goes on or ends before the lock: it changes nothing but what  *)
(* it does, and the backup once.                                           *)
LEMMA UnlockedStep ==
    ASSUME CutoverInv, NEW p \in Rollouts,
           UNCHANGED <<entry, deployed, installed, torn>>,
           cutLock \in Rollouts => cutLock' = cutLock /\ cutLock # p,
           cutLock' \in Rollouts => cutLock' = cutLock,
           rollback' = rollback \/ rollback' = BeforeCutover,
           rollout' \in [Rollouts -> [pc : Unlocked \cup Locked, before : {NoRollback, BeforeCutover}, phase : 1..3]],
           \A q \in Rollouts : q # p => rollout'[q] = rollout[q],
           rollout'[p].pc \in Unlocked,
           rollout'[p].pc \notin {"free", "read"} => rollout'[p].before = BeforeCutover,
           rollout'[p].pc = "lock" => rollback' = BeforeCutover
    PROVE  CutoverInv'
<1>1. CutoverType'  BY DEF CutoverInv, CutoverType
<1>2. /\ VerifyPair("previous")' = VerifyPair("previous")
      /\ VerifyPair("candidate")' = VerifyPair("candidate")
      /\ Agree' = Agree
    BY DEF VerifyPair, Agree
<1>3. WayBack'  BY <1>2 DEF CutoverInv, WayBack
<1>4. cutLock' \notin Rollouts => (torn \/ Agree)'  BY <1>2 DEF CutoverInv
<1>5. ASSUME NEW q \in Rollouts PROVE RolloutOK(q)'
  <2>1. CASE q = p
    <3>1. rollout'[q].pc \notin Locked /\ rollout'[q].pc \notin Switching
          /\ rollout'[q].pc \notin {"install", "unlock"}
        BY <2>1 DEF Unlocked, Locked, Switching
    <3>2. cutLock' # q  BY <2>1
    <3>3. rollout'[q].pc \notin {"final", "receipt", "undo_cargo", "undo_deployment"}
        BY <3>1 DEF Switching
    <3> QED BY <3>1, <3>2, <3>3, <2>1 DEF RolloutOK
  <2>2. CASE q # p
    <3>1. RolloutOK(q)  BY DEF CutoverInv
    <3>2. rollout'[q] = rollout[q] /\ (cutLock' = q <=> cutLock = q)  BY <2>2
    <3>3. rollback = BeforeCutover => rollback' = BeforeCutover  OBVIOUS
    <3> QED BY <3>1, <3>2, <3>3, <1>2 DEF RolloutOK
  <2> QED BY <2>1, <2>2
<1> QED BY <1>1, <1>3, <1>4, <1>5 DEF CutoverInv

(* A rollout that does not hold the lock.                                  *)
LEMMA Outside ==
    ASSUME CutoverInv, NEW p \in Rollouts, rollout[p].pc \in Unlocked
    PROVE  cutLock # p
BY DEF CutoverInv, RolloutOK, Unlocked, Locked, Switching

LEMMA BeginRolloutKeeps == ASSUME CutoverInv, NEW p \in Rollouts, BeginRollout(p) PROVE CutoverInv'
<1>1. rollout[p].pc = "free" /\ ThenDo(p, "read")  BY DEF BeginRollout, Doing
<1>2. cutLock # p  BY <1>1, Outside DEF Unlocked
<1>3. "read" \in Unlocked  BY DEF Unlocked
<1> QED BY <1>1, <1>2, <1>3, RolloutGoes, UnlockedStep DEF BeginRollout, CutoverInv

LEMMA ReadDeploymentKeeps == ASSUME CutoverInv, NEW p \in Rollouts, ReadDeployment(p) PROVE CutoverInv'
<1>1. rollout[p].pc = "read"  BY DEF ReadDeployment, Doing
<1>2. cutLock # p  BY <1>1, Outside DEF Unlocked
<1>3. CASE Ends(p)
  <2>1. "free" \in Unlocked  BY DEF Unlocked
  <2> QED BY <2>1, <1>2, <1>3, RolloutEnds, UnlockedStep DEF ReadDeployment, CutoverInv
<1>4. CASE ~Ends(p)
  <2>1. /\ deployed.release # "candidate"
        /\ rollout' = [rollout EXCEPT ![p].pc = "verify_before", ![p].before = deployed]
      BY <1>4 DEF ReadDeployment
  <2>2. deployed = BeforeCutover  BY <2>1 DEF CutoverInv, CutoverType, Deployments, DeployedIn
  <2>3. "verify_before" \in Unlocked  BY DEF Unlocked
  <2>4. /\ rollout' \in [Rollouts -> [pc : Unlocked \cup Locked, before : {NoRollback, BeforeCutover}, phase : 1..3]]
        /\ rollout'[p].pc = "verify_before" /\ rollout'[p].before = BeforeCutover
        /\ \A q \in Rollouts : q # p => rollout'[q] = rollout[q]
      BY <2>1, <2>2, <2>3 DEF CutoverInv, CutoverType
  <2> QED BY <2>3, <2>4, <1>2, UnlockedStep DEF ReadDeployment
<1> QED BY <1>3, <1>4

(* What a rollout that has read the deployment knows.                      *)
LEMMA BeforeKept ==
    ASSUME CutoverInv, NEW p \in Rollouts, rollout[p].pc \notin {"free", "read"}
    PROVE  rollout[p].before = BeforeCutover
BY DEF CutoverInv, RolloutOK

LEMMA VerifyBeforeKeeps == ASSUME CutoverInv, NEW p \in Rollouts, VerifyBefore(p) PROVE CutoverInv'
<1>1. rollout[p].pc = "verify_before"  BY DEF VerifyBefore, Doing
<1>2. cutLock # p  BY <1>1, Outside DEF Unlocked
<1>3. rollout[p].before = BeforeCutover  BY <1>1, BeforeKept
<1>4. "free" \in Unlocked /\ "backup" \in Unlocked  BY DEF Unlocked
<1>5. CASE Ends(p)  BY <1>2, <1>4, <1>5, RolloutEnds, UnlockedStep DEF VerifyBefore, CutoverInv
<1>6. CASE ThenDo(p, "backup")
    BY <1>2, <1>3, <1>4, <1>6, RolloutGoes, UnlockedStep DEF VerifyBefore, CutoverInv
<1> QED BY <1>5, <1>6 DEF VerifyBefore

LEMMA EnsureBackupKeeps == ASSUME CutoverInv, NEW p \in Rollouts, EnsureBackup(p) PROVE CutoverInv'
<1>1. rollout[p].pc = "backup"  BY DEF EnsureBackup, Doing
<1>2. cutLock # p  BY <1>1, Outside DEF Unlocked
<1>3. rollout[p].before = BeforeCutover  BY <1>1, BeforeKept
<1>4. "free" \in Unlocked /\ "lock" \in Unlocked /\ "write_backup" \in Unlocked  BY DEF Unlocked
<1>5. CASE Ends(p)  BY <1>2, <1>4, <1>5, RolloutEnds, UnlockedStep DEF EnsureBackup, CutoverInv
<1>6. CASE ThenDo(p, "write_backup")
    BY <1>2, <1>3, <1>4, <1>6, RolloutGoes, UnlockedStep DEF EnsureBackup, CutoverInv
<1>7. CASE ThenDo(p, "lock") /\ rollback = rollout[p].before
    BY <1>2, <1>3, <1>4, <1>7, RolloutGoes, UnlockedStep DEF EnsureBackup, CutoverInv
<1> QED BY <1>5, <1>6, <1>7 DEF EnsureBackup

LEMMA WriteBackupKeeps == ASSUME CutoverInv, NEW p \in Rollouts, WriteBackup(p) PROVE CutoverInv'
<1>1. rollout[p].pc = "write_backup"  BY DEF WriteBackup, Doing
<1>2. cutLock # p  BY <1>1, Outside DEF Unlocked
<1>3. rollout[p].before = BeforeCutover  BY <1>1, BeforeKept
<1>4. "free" \in Unlocked /\ "lock" \in Unlocked  BY DEF Unlocked
<1>5. rollback' = rollback \/ rollback' = BeforeCutover  BY <1>3 DEF WriteBackup
<1>6. CASE Ends(p)  BY <1>2, <1>4, <1>5, <1>6, RolloutEnds, UnlockedStep DEF WriteBackup, CutoverInv
<1>7. CASE ThenDo(p, "lock") /\ rollback' = BeforeCutover
    BY <1>2, <1>3, <1>4, <1>7, RolloutGoes, UnlockedStep DEF WriteBackup, CutoverInv
<1>8. Ends(p) \/ (ThenDo(p, "lock") /\ rollback' = BeforeCutover)  BY <1>3 DEF WriteBackup
<1> QED BY <1>6, <1>7, <1>8

(* The lock file without a rollout.                                        *)
LEMMA NoHolder == "free" \notin Rollouts /\ "left" \notin Rollouts
BY CutoverAssumption

LEMMA AcquireLockKeeps == ASSUME CutoverInv, NEW p \in Rollouts, AcquireLock(p) PROVE CutoverInv'
<1>1. rollout[p].pc = "lock"  BY DEF AcquireLock, Doing
<1>2. cutLock # p  BY <1>1, Outside DEF Unlocked
<1>3. rollout[p].before = BeforeCutover  BY <1>1, BeforeKept
<1>4. "free" \in Unlocked  BY DEF Unlocked
<1>5. CASE Ends(p) /\ (cutLock' = cutLock \/ (cutLock = "free" /\ cutLock' \in {"free", "left"}))
  <2>2. cutLock \in Rollouts => cutLock' = cutLock  BY <1>5, NoHolder
  <2>3. cutLock' \in Rollouts => cutLock' = cutLock  BY <1>5, NoHolder
  <2> QED BY <2>2, <2>3, <1>2, <1>4, <1>5, RolloutEnds, UnlockedStep DEF AcquireLock, CutoverInv
<1>6. CASE cutLock = "free" /\ cutLock' = p /\ ThenDo(p, "install")
  <2>1. "install" \in Locked  BY DEF Locked
  <2>2. /\ rollout' \in [Rollouts -> [pc : Unlocked \cup Locked, before : {NoRollback, BeforeCutover}, phase : 1..3]]
        /\ rollout'[p].pc = "install" /\ rollout'[p].before = rollout[p].before
        /\ \A q \in Rollouts : q # p => rollout'[q] = rollout[q]
      BY <2>1, <1>6, RolloutGoes DEF CutoverInv
  <2>3. UNCHANGED <<entry, deployed, rollback, installed, torn>>  BY DEF AcquireLock
  <2>4. rollback = BeforeCutover  BY <1>1 DEF CutoverInv, RolloutOK
  <2>5. torn \/ Agree  BY <1>6, NoHolder DEF CutoverInv
  <2>6. (torn \/ Agree)'  BY <2>5, <2>3 DEF Agree, VerifyPair
  <2>7. CutoverType' /\ WayBack'  BY <2>2, <2>3 DEF CutoverInv, CutoverType, WayBack, VerifyPair
  <2>8. ASSUME NEW q \in Rollouts PROVE RolloutOK(q)'
    <3>1. CASE q = p
      BY <3>1, <2>1, <2>2, <2>3, <2>4, <2>6, <1>3, <1>6 DEF RolloutOK, Switching
    <3>2. CASE q # p
      <4>1. RolloutOK(q)  BY DEF CutoverInv
      <4>2. rollout[q].pc \notin Locked  BY <4>1, <1>6, NoHolder DEF RolloutOK
      <4>3. rollout[q].pc \notin Switching /\ rollout[q].pc \notin {"install", "unlock"}  BY <4>2 DEF Locked
      <4>4. rollout[q].pc \notin {"final", "receipt", "undo_cargo", "undo_deployment"}  BY <4>3 DEF Switching
      <4> QED BY <4>1, <4>2, <4>3, <4>4, <3>2, <2>2, <2>3, <1>6 DEF RolloutOK
    <3> QED BY <3>1, <3>2
  <2> QED BY <2>6, <2>7, <2>8, <1>6 DEF CutoverInv
<1> QED BY <1>5, <1>6 DEF AcquireLock

(* A step of the rollout that holds the lock: the others see none of it.   *)
LEMMA HolderStep ==
    ASSUME CutoverInv, NEW p \in Rollouts, cutLock = p, rollback' = rollback,
           rollout' \in [Rollouts -> [pc : Unlocked \cup Locked, before : {NoRollback, BeforeCutover}, phase : 1..3]],
           \A q \in Rollouts : q # p => rollout'[q] = rollout[q],
           cutLock' \in {p, "free", "left"},
           entry' \in [CommandEntries -> {"previous", "candidate"}],
           deployed' \in Deployments, installed' \in BOOLEAN, torn' \in BOOLEAN,
           (\E e \in CommandEntries : entry'[e] = "candidate") => installed',
           RolloutOK(p)',
           cutLock' \notin Rollouts => (torn \/ Agree)'
    PROVE  CutoverInv'
<1>1. CutoverType'  BY DEF CutoverInv, CutoverType
<1>2. RolloutOK(p)  BY DEF CutoverInv
<1>3. rollback = BeforeCutover  BY <1>2 DEF RolloutOK
<1>4. WayBack'  BY <1>3 DEF WayBack
<1>5. ASSUME NEW q \in Rollouts PROVE RolloutOK(q)'
  <2>1. CASE q = p  BY <2>1
  <2>2. CASE q # p
    <3>1. RolloutOK(q) /\ rollout'[q] = rollout[q]  BY <2>2 DEF CutoverInv
    <3>2. rollout[q].pc \notin Locked  BY <2>2, OnlyHolder
    <3>3. rollout[q].pc \notin Switching /\ rollout[q].pc \notin {"install", "unlock"}  BY <3>2 DEF Locked
    <3>4. rollout[q].pc \notin {"final", "receipt", "undo_cargo", "undo_deployment"}  BY <3>3 DEF Switching
    <3>5. cutLock' # q  BY <2>2, NoHolder
    <3> QED BY <3>1, <3>2, <3>3, <3>4, <3>5 DEF RolloutOK
  <2> QED BY <2>1, <2>2
<1> QED BY <1>1, <1>4, <1>5 DEF CutoverInv

(* What the rollout at a locked step knows.                                *)
LEMMA HolderKnows ==
    ASSUME CutoverInv, NEW p \in Rollouts, rollout[p].pc \in Locked
    PROVE  /\ cutLock = p /\ rollback = BeforeCutover /\ rollout[p].before = BeforeCutover
           /\ rollout[p].pc \in Switching => installed
<1>1. RolloutOK(p)  BY DEF CutoverInv
<1>2. rollout[p].pc \notin {"free", "read"}  BY DEF Locked, Switching
<1> QED BY <1>1, <1>2 DEF RolloutOK

LEMMA LockedPcs ==
    /\ Switching \subseteq Locked /\ "install" \in Locked /\ "unlock" \in Locked
    /\ "install" \notin Switching /\ "unlock" \notin Switching
    /\ "free" \notin Locked
BY DEF Locked, Switching

LEMMA InstallKeeps == ASSUME CutoverInv, NEW p \in Rollouts, Install(p) PROVE CutoverInv'
<1>1. rollout[p].pc = "install"  BY DEF Install, Doing
<1>2. cutLock = p /\ rollback = BeforeCutover /\ rollout[p].before = BeforeCutover
    BY <1>1, LockedPcs, HolderKnows
<1>3. UNCHANGED <<entry, deployed, rollback, cutLock, torn>>  BY DEF Install
<1>4. torn \/ Agree  BY <1>1 DEF CutoverInv, RolloutOK
<1>5. (torn \/ Agree)'  BY <1>4, <1>3 DEF Agree, VerifyPair
<1>10. installed' = TRUE \/ installed' = installed  BY DEF Install
<1>11. installed \in BOOLEAN  BY DEF CutoverInv, CutoverType
<1>12. installed' \in BOOLEAN
  <2>1. CASE installed' = TRUE  BY <2>1
  <2>2. CASE installed' = installed  BY <2>2, <1>11
  <2> QED BY <1>10, <2>1, <2>2
<1>13. ASSUME installed PROVE installed'
  <2>1. CASE installed' = TRUE  BY <2>1
  <2>2. CASE installed' = installed  BY <2>2, <1>13, Zenon
  <2> QED BY <1>10, <2>1, <2>2
<1>6. installed' \in BOOLEAN /\ (installed => installed')  BY <1>12, <1>13
<1>7. (\E e \in CommandEntries : entry'[e] = "candidate") => installed'
    BY <1>3, <1>6 DEF CutoverInv, WayBack
<1>8. CASE installed' /\ ThenDo(p, "switch_selector")
  <2>1. "switch_selector" \in Switching  BY DEF Switching
  <2>2. /\ rollout' \in [Rollouts -> [pc : Unlocked \cup Locked, before : {NoRollback, BeforeCutover}, phase : 1..3]]
        /\ rollout'[p].pc = "switch_selector" /\ rollout'[p].before = rollout[p].before
        /\ \A q \in Rollouts : q # p => rollout'[q] = rollout[q]
      BY <2>1, <1>8, LockedPcs, RolloutGoes DEF CutoverInv
  <2>3. RolloutOK(p)'  BY <2>1, <2>2, <1>2, <1>3, <1>8, LockedPcs DEF RolloutOK
  <2> QED BY <2>2, <2>3, <1>2, <1>3, <1>5, <1>6, <1>7, HolderStep DEF CutoverInv, CutoverType
<1>9. CASE ThenDo(p, "unlock")
  <2>2. /\ rollout' \in [Rollouts -> [pc : Unlocked \cup Locked, before : {NoRollback, BeforeCutover}, phase : 1..3]]
        /\ rollout'[p].pc = "unlock" /\ rollout'[p].before = rollout[p].before
        /\ \A q \in Rollouts : q # p => rollout'[q] = rollout[q]
      BY <1>9, LockedPcs, RolloutGoes DEF CutoverInv
  <2>3. RolloutOK(p)'  BY <2>2, <1>2, <1>3, <1>5, LockedPcs DEF RolloutOK
  <2> QED BY <2>2, <2>3, <1>2, <1>3, <1>5, <1>6, <1>7, HolderStep DEF CutoverInv, CutoverType
<1> QED BY <1>8, <1>9 DEF Install

(* A step of the switching that goes on to a further one.                  *)
LEMMA SwitchingStep ==
    ASSUME CutoverInv, NEW p \in Rollouts, rollout[p].pc \in Switching,
           UNCHANGED <<rollback, installed, cutLock>>,
           rollout' \in [Rollouts -> [pc : Unlocked \cup Locked, before : {NoRollback, BeforeCutover}, phase : 1..3]],
           \A q \in Rollouts : q # p => rollout'[q] = rollout[q],
           rollout'[p].before = rollout[p].before,
           entry' \in [CommandEntries -> {"previous", "candidate"}],
           deployed' \in Deployments, torn' \in BOOLEAN,
           NEW pc \in Switching \cup {"unlock"}, rollout'[p].pc = pc,
           pc \in {"final", "receipt"} => deployed' = DeployedIn(3),
           pc = "receipt" => VerifyPair("candidate")',
           pc = "undo_cargo" => torn' \/ entry'["selector"] = "previous",
           pc = "undo_deployment" => torn' \/ VerifyPair("previous")',
           pc = "unlock" => (torn \/ Agree)'
    PROVE  CutoverInv'
<1>1. /\ cutLock = p /\ rollback = BeforeCutover /\ rollout[p].before = BeforeCutover
      /\ installed
    BY LockedPcs, HolderKnows
<1>2. pc \in Locked /\ pc # "install"  BY LockedPcs
<1>3. RolloutOK(p)'  BY <1>1, <1>2 DEF RolloutOK
<1> QED BY <1>1, <1>3, HolderStep DEF CutoverInv, CutoverType

(* One write of an entry.                                                  *)
LEMMA PointsAt ==
    ASSUME CutoverType, NEW link \in CommandEntries, NEW target \in {"previous", "candidate"},
           NEW o \in WriteOutcomes, Points(link, target, o)
    PROVE  /\ entry' \in [CommandEntries -> {"previous", "candidate"}]
           /\ o = "done" => entry'[link] = target
           /\ \A e \in CommandEntries : e # link => entry'[e] = entry[e]
<1>1. entry' = entry \/ entry' = [entry EXCEPT ![link] = target]  BY DEF Points
<1>2. o = "done" => entry' = [entry EXCEPT ![link] = target]  BY DEF Points
<1> QED BY <1>1, <1>2 DEF CutoverType

LEMMA PhaseTargets ==
    ASSUME CutoverType, NEW p \in Rollouts
    PROVE  /\ rollout[p].phase \in 1..3 /\ Len(Phases) = 3
           /\ Phases[rollout[p].phase].to \in {"previous", "candidate"}
<1>1. rollout[p].phase \in 1..3  BY DEF CutoverType
<1>2. Len(Phases) = 3  BY DEF Phases
<1>3. Phases[1].to = "candidate" /\ Phases[2].to = "previous" /\ Phases[3].to = "candidate"  BY DEF Phases
<1>4. rollout[p].phase = 1 \/ rollout[p].phase = 2 \/ rollout[p].phase = 3  BY <1>1
<1> QED BY <1>1, <1>2, <1>3, <1>4

LEMMA PointEntryKeeps ==
    ASSUME CutoverInv, NEW p \in Rollouts, rollout[p].pc \in Switching,
           NEW link \in CommandEntries, NEW then \in {"switch_cargo", "verify_switch"},
           PointEntry(p, link, then)
    PROVE  CutoverInv'
<1>1. PICK o \in WriteOutcomes :
        /\ Points(link, Phases[rollout[p].phase].to, o)
        /\ ThenDo(p, IF o = "done" THEN then ELSE "undo_selector")
    BY DEF PointEntry
<1>2. CutoverType  BY DEF CutoverInv
<1>3. entry' \in [CommandEntries -> {"previous", "candidate"}]  BY <1>1, <1>2, PhaseTargets, PointsAt
<1> DEFINE pc == IF o = "done" THEN then ELSE "undo_selector"
<1>4. pc \in Switching /\ pc \notin {"final", "receipt", "undo_cargo", "undo_deployment", "unlock"}
    BY DEF Switching
<1>5. ThenDo(p, pc)  BY <1>1
<1> HIDE DEF pc
<1>6. /\ rollout' \in [Rollouts -> [pc : Unlocked \cup Locked, before : {NoRollback, BeforeCutover}, phase : 1..3]]
      /\ rollout'[p].pc = pc /\ rollout'[p].before = rollout[p].before
      /\ \A q \in Rollouts : q # p => rollout'[q] = rollout[q]
    BY <1>2, <1>4, <1>5, LockedPcs, RolloutGoes
<1>7. UNCHANGED <<deployed, rollback, installed, cutLock, torn>>  BY DEF PointEntry
<1> QED BY <1>2, <1>3, <1>4, <1>6, <1>7, SwitchingStep DEF CutoverType

(* A step of the switching that leaves the entries alone.                  *)
LEMMA GoOnKeeps ==
    ASSUME CutoverInv, NEW p \in Rollouts, rollout[p].pc \in Switching,
           UNCHANGED <<entry, rollback, installed, cutLock, torn>>, deployed' \in Deployments,
           NEW pc \in Switching \cup {"unlock"}, ThenDo(p, pc),
           pc \in {"final", "receipt"} => deployed' = DeployedIn(3),
           pc = "receipt" => VerifyPair("candidate"),
           pc # "undo_cargo", pc # "undo_deployment",
           pc = "unlock" => deployed' = deployed /\ Agree
    PROVE  CutoverInv'
<1>1. CutoverType  BY DEF CutoverInv
<1>2. /\ rollout' \in [Rollouts -> [pc : Unlocked \cup Locked, before : {NoRollback, BeforeCutover}, phase : 1..3]]
      /\ rollout'[p].pc = pc /\ rollout'[p].before = rollout[p].before
      /\ \A q \in Rollouts : q # p => rollout'[q] = rollout[q]
    BY <1>1, LockedPcs, RolloutGoes
<1>3. VerifyPair("candidate")' = VerifyPair("candidate") /\ VerifyPair("previous")' = VerifyPair("previous")
    BY DEF VerifyPair
<1>4. pc = "unlock" => (torn \/ Agree)'  BY <1>3 DEF Agree
<1> QED BY <1>1, <1>2, <1>3, <1>4, SwitchingStep DEF CutoverType

LEMMA VerifySwitchKeeps == ASSUME CutoverInv, NEW p \in Rollouts, VerifySwitch(p) PROVE CutoverInv'
<1>1. rollout[p].pc \in Switching  BY DEF VerifySwitch, Doing, Switching
<1>2. UNCHANGED <<entry, deployed, rollback, installed, cutLock, torn>>  BY DEF VerifySwitch
<1>3. ThenDo(p, "write") \/ ThenDo(p, "undo_selector")  BY DEF VerifySwitch
<1>4. "write" \in Switching /\ "undo_selector" \in Switching  BY DEF Switching
<1>5. deployed \in Deployments  BY DEF CutoverInv, CutoverType
<1> QED BY <1>1, <1>2, <1>3, <1>4, <1>5, GoOnKeeps

LEMMA WriteDeploymentKeeps == ASSUME CutoverInv, NEW p \in Rollouts, WriteDeployment(p) PROVE CutoverInv'
<1>1. rollout[p].pc \in Switching  BY DEF WriteDeployment, Doing, Switching
<1>2. UNCHANGED <<entry, rollback, installed, cutLock, torn>>  BY DEF WriteDeployment
<1>3. CutoverType  BY DEF CutoverInv
<1> DEFINE k == rollout[p].phase
<1>4. k \in 1..3 /\ Len(Phases) = 3  BY <1>3, PhaseTargets
<1>5. DeployedIn(k) \in Deployments
  <2>1. k = 1 \/ k = 2 \/ k = 3  BY <1>4
  <2> HIDE DEF k
  <2> QED BY <2>1 DEF Deployments
<1>6. PICK o \in WriteOutcomes :
        /\ deployed' = IF o = "not done" THEN deployed ELSE DeployedIn(k)
        /\ IF o # "done" THEN ThenDo(p, "undo_selector")
           ELSE IF k < Len(Phases)
           THEN rollout' = [rollout EXCEPT ![p].pc = "switch_selector", ![p].phase = k + 1]
           ELSE ThenDo(p, "final")
    BY DEF WriteDeployment
<1>7. deployed' \in Deployments  BY <1>5, <1>6, <1>3 DEF CutoverType
<1>8. "undo_selector" \in Switching /\ "final" \in Switching /\ "switch_selector" \in Switching  BY DEF Switching
<1>9. CASE ThenDo(p, "undo_selector")  BY <1>1, <1>2, <1>7, <1>8, <1>9, GoOnKeeps
<1>10. CASE o = "done" /\ k < 3
  <2>1. rollout' = [rollout EXCEPT ![p].pc = "switch_selector", ![p].phase = k + 1]  BY <1>10, <1>4, <1>6
  <2>2. k + 1 \in 1..3  BY <1>4, <1>10
  <2> HIDE DEF k
  <2>3. /\ rollout' \in [Rollouts -> [pc : Unlocked \cup Locked, before : {NoRollback, BeforeCutover}, phase : 1..3]]
        /\ rollout'[p].pc = "switch_selector" /\ rollout'[p].before = rollout[p].before
        /\ \A q \in Rollouts : q # p => rollout'[q] = rollout[q]
      BY <2>1, <2>2, <1>3, <1>8, LockedPcs DEF CutoverType
  <2> QED BY <2>3, <1>1, <1>2, <1>3, <1>7, <1>8, SwitchingStep DEF CutoverType
<1>11. CASE o = "done" /\ ~(k < 3)
  <2>1. ThenDo(p, "final") /\ deployed' = DeployedIn(k)  BY <1>11, <1>4, <1>6
  <2>2. k = 3  BY <1>4, <1>11
  <2>3. deployed' = DeployedIn(3)  BY <2>1, <2>2
  <2> QED BY <2>1, <2>3, <1>1, <1>2, <1>7, <1>8, GoOnKeeps
<1>12. o # "done" => ThenDo(p, "undo_selector")  BY <1>6
<1> QED BY <1>9, <1>10, <1>11, <1>12

LEMMA FinalCheckKeeps == ASSUME CutoverInv, NEW p \in Rollouts, FinalCheck(p) PROVE CutoverInv'
<1>1. rollout[p].pc = "final" /\ rollout[p].pc \in Switching  BY DEF FinalCheck, Doing, Switching
<1>2. UNCHANGED <<entry, deployed, rollback, installed, cutLock, torn>>  BY DEF FinalCheck
<1>3. deployed = DeployedIn(3) /\ deployed \in Deployments
    BY <1>1 DEF CutoverInv, RolloutOK, CutoverType
<1>4. (ThenDo(p, "receipt") /\ VerifyPair("candidate")) \/ ThenDo(p, "undo_selector")  BY DEF FinalCheck
<1>5. "receipt" \in Switching /\ "undo_selector" \in Switching  BY DEF Switching
<1> QED BY <1>1, <1>2, <1>3, <1>4, <1>5, GoOnKeeps

LEMMA WriteReceiptKeeps == ASSUME CutoverInv, NEW p \in Rollouts, WriteReceipt(p) PROVE CutoverInv'
<1>1. rollout[p].pc = "receipt" /\ rollout[p].pc \in Switching  BY DEF WriteReceipt, Doing, Switching
<1>2. UNCHANGED <<entry, deployed, rollback, installed, cutLock, torn>>  BY DEF WriteReceipt
<1>3. deployed = DeployedIn(3) /\ deployed \in Deployments /\ VerifyPair("candidate")
    BY <1>1 DEF CutoverInv, RolloutOK, CutoverType
<1>4. Agree  BY <1>3 DEF Agree
<1>5. ThenDo(p, "unlock") \/ ThenDo(p, "undo_selector")  BY DEF WriteReceipt
<1>6. "undo_selector" \in Switching  BY DEF Switching
<1> QED BY <1>1, <1>2, <1>3, <1>4, <1>5, <1>6, GoOnKeeps

LEMMA RestoreEntryKeeps ==
    ASSUME CutoverInv, NEW p \in Rollouts, rollout[p].pc \in Switching,
           NEW link \in CommandEntries, NEW then \in {"undo_cargo", "undo_deployment"},
           RestoreEntry(p, link, then),
           then = "undo_cargo" => link = "selector",
           then = "undo_deployment" =>
               link = "cargo" /\ (torn \/ entry["selector"] = "previous")
    PROVE  CutoverInv'
<1>1. PICK o \in WriteOutcomes :
        /\ Points(link, "previous", o)
        /\ torn' = (torn \/ o # "done")
        /\ ThenDo(p, IF o = "done" THEN then ELSE "undo_deployment")
    BY DEF RestoreEntry
<1>2. CutoverType /\ torn \in BOOLEAN  BY DEF CutoverInv, CutoverType
<1>3. /\ entry' \in [CommandEntries -> {"previous", "candidate"}]
      /\ o = "done" => entry'[link] = "previous"
      /\ \A e \in CommandEntries : e # link => entry'[e] = entry[e]
    BY <1>1, <1>2, PointsAt
<1>4. torn' \in BOOLEAN /\ (torn => torn') /\ (o # "done" => torn')
  <2> DEFINE more == torn \/ o # "done"
  <2>1. more \in BOOLEAN /\ (torn => more) /\ (o # "done" => more)  BY <1>2
  <2>2. torn' = more  BY <1>1
  <2> HIDE DEF more
  <2> QED BY <2>1, <2>2, Zenon
<1> DEFINE pc == IF o = "done" THEN then ELSE "undo_deployment"
<1>5. /\ pc \in Switching /\ pc \in {"undo_cargo", "undo_deployment"}
      /\ pc = "undo_cargo" => then = "undo_cargo" /\ o = "done"
      /\ pc = "undo_deployment" => o # "done" \/ then = "undo_deployment"
    BY DEF Switching
<1>6. ThenDo(p, pc)  BY <1>1
<1> HIDE DEF pc
<1>7. /\ rollout' \in [Rollouts -> [pc : Unlocked \cup Locked, before : {NoRollback, BeforeCutover}, phase : 1..3]]
      /\ rollout'[p].pc = pc /\ rollout'[p].before = rollout[p].before
      /\ \A q \in Rollouts : q # p => rollout'[q] = rollout[q]
    BY <1>2, <1>5, <1>6, LockedPcs, RolloutGoes
<1>8. UNCHANGED <<deployed, rollback, installed, cutLock>>  BY DEF RestoreEntry
<1>9. pc = "undo_cargo" => entry'["selector"] = "previous"  BY <1>3, <1>5
<1>10. ASSUME pc = "undo_deployment" PROVE torn' \/ VerifyPair("previous")'
  <2>1. CASE o # "done"  BY <2>1, <1>4
  <2>2. CASE torn  BY <2>2, <1>4
  <2>3. CASE o = "done" /\ ~torn
    <3>1. link = "cargo" /\ entry["selector"] = "previous"  BY <2>3, <1>5, <1>10
    <3>2. entry'["cargo"] = "previous"  BY <3>1, <2>3, <1>3
    <3>3. entry'["selector"] = "previous"  BY <3>1, <1>3 DEF CommandEntries
    <3> QED BY <3>2, <3>3 DEF VerifyPair, CommandEntries
  <2> QED BY <2>1, <2>2, <2>3
<1> QED BY <1>2, <1>3, <1>4, <1>5, <1>7, <1>8, <1>9, <1>10, SwitchingStep DEF CutoverType

LEMMA RestoreDeploymentKeeps == ASSUME CutoverInv, NEW p \in Rollouts, RestoreDeployment(p) PROVE CutoverInv'
<1>1. rollout[p].pc = "undo_deployment" /\ rollout[p].pc \in Switching
    BY DEF RestoreDeployment, Doing, Switching
<1>2. rollout[p].before = BeforeCutover  BY <1>1, BeforeKept
<1>3. torn \/ VerifyPair("previous")  BY <1>1 DEF CutoverInv, RolloutOK
<1>4. UNCHANGED <<entry, rollback, installed, cutLock>>  BY DEF RestoreDeployment
<1>5. CutoverType /\ torn \in BOOLEAN /\ deployed \in Deployments  BY DEF CutoverInv, CutoverType
<1>6. PICK o \in WriteOutcomes :
        /\ deployed' = IF o = "not done" THEN deployed ELSE rollout[p].before
        /\ torn' = (torn \/ o = "not done")
    BY DEF RestoreDeployment
<1>7. torn' \in BOOLEAN /\ (torn => torn') /\ (o = "not done" => torn')
  <2> DEFINE more == torn \/ o = "not done"
  <2>1. more \in BOOLEAN /\ (torn => more) /\ (o = "not done" => more)  BY <1>5
  <2>2. torn' = more  BY <1>6
  <2> HIDE DEF more
  <2> QED BY <2>1, <2>2, Zenon
<1>8. deployed' \in Deployments  BY <1>2, <1>5, <1>6 DEF Deployments
<1>9. ThenDo(p, "unlock")  BY DEF RestoreDeployment
<1>10. /\ rollout' \in [Rollouts -> [pc : Unlocked \cup Locked, before : {NoRollback, BeforeCutover}, phase : 1..3]]
       /\ rollout'[p].pc = "unlock" /\ rollout'[p].before = rollout[p].before
       /\ \A q \in Rollouts : q # p => rollout'[q] = rollout[q]
    BY <1>5, <1>9, LockedPcs, RolloutGoes
<1>11. VerifyPair("previous")' = VerifyPair("previous")  BY <1>4 DEF VerifyPair
<1>12. (torn \/ Agree)'
  <2>1. CASE o = "not done" \/ torn  BY <2>1, <1>7
  <2>2. CASE o # "not done" /\ ~torn
    <3>1. deployed' = BeforeCutover /\ VerifyPair("previous")'  BY <2>2, <1>2, <1>3, <1>6, <1>11
    <3> QED BY <3>1 DEF Agree
  <2> QED BY <2>1, <2>2
<1> QED BY <1>1, <1>4, <1>5, <1>7, <1>8, <1>10, <1>12, SwitchingStep DEF CutoverType

(* A rollout that is over, its lock dropped or left.                       *)
LEMMA OverKeeps ==
    ASSUME CutoverInv, NEW p \in Rollouts, Ends(p), cutLock = p, cutLock' \in {"free", "left"},
           UNCHANGED <<entry, deployed, rollback, installed>>, torn' \in BOOLEAN, torn' \/ Agree
    PROVE  CutoverInv'
<1>1. CutoverType  BY DEF CutoverInv
<1>2. /\ rollout' \in [Rollouts -> [pc : Unlocked \cup Locked, before : {NoRollback, BeforeCutover}, phase : 1..3]]
      /\ rollout'[p].pc = "free"
      /\ \A q \in Rollouts : q # p => rollout'[q] = rollout[q]
    BY <1>1, RolloutEnds
<1>3. (torn \/ Agree)'  BY DEF Agree, VerifyPair
<1>4. (\E e \in CommandEntries : entry'[e] = "candidate") => installed'  BY DEF CutoverInv, WayBack
<1>5. RolloutOK(p)'
  <2>1. cutLock' # p  BY NoHolder
  <2>2. "free" \notin Switching /\ "free" \notin Locked  BY LockedPcs
  <2> QED BY <1>2, <2>1, <2>2 DEF RolloutOK
<1> QED BY <1>1, <1>2, <1>3, <1>4, <1>5, HolderStep DEF CutoverType

LEMMA DropLockKeeps == ASSUME CutoverInv, NEW p \in Rollouts, DropLock(p) PROVE CutoverInv'
<1>1. rollout[p].pc = "unlock"  BY DEF DropLock, Doing
<1>2. cutLock = p /\ (torn \/ Agree)  BY <1>1, LockedPcs, HolderKnows DEF CutoverInv, RolloutOK
<1>3. torn' = torn /\ torn \in BOOLEAN  BY DEF DropLock, CutoverInv, CutoverType
<1>4. Ends(p) /\ cutLock' \in {"free", "left"} /\ UNCHANGED <<entry, deployed, rollback, installed>>
    BY DEF DropLock
<1>5. torn' \in BOOLEAN /\ (torn' \/ Agree)  BY <1>2, <1>3
<1> QED BY <1>2, <1>4, <1>5, OverKeeps

LEMMA RolloutDiesKeeps == ASSUME CutoverInv, NEW p \in Rollouts, RolloutDies(p) PROVE CutoverInv'
<1>1. Ends(p) /\ UNCHANGED <<entry, deployed, rollback, installed>>  BY DEF RolloutDies
<1>2. CutoverType /\ torn \in BOOLEAN  BY DEF CutoverInv, CutoverType
<1>3. CASE cutLock = p
  <2> DEFINE more == torn \/ cutLock = p
  <2>1. more \in BOOLEAN /\ more  BY <1>3
  <2>2. torn' = more  BY DEF RolloutDies
  <2> HIDE DEF more
  <2>3. torn' \in BOOLEAN /\ torn'  BY <2>1, <2>2, Zenon
  <2>4. cutLock' = "left"  BY <1>3 DEF RolloutDies
  <2> QED BY <2>3, <2>4, <1>1, <1>3, OverKeeps
<1>4. CASE cutLock # p
  <2> DEFINE more == torn \/ cutLock = p
  <2>1. (more => torn) /\ (torn => more) /\ more \in BOOLEAN  BY <1>4
  <2>2. torn' = more  BY DEF RolloutDies
  <2> HIDE DEF more
  <2>3. torn' = torn  BY <2>1, <2>2, <1>2, Zenon
  <2>4. cutLock' = cutLock  BY <1>4 DEF RolloutDies
  <2>5. "free" \in Unlocked  BY DEF Unlocked
  <2> QED BY <2>3, <2>4, <2>5, <1>1, <1>2, <1>4, RolloutEnds, UnlockedStep
<1> QED BY <1>3, <1>4

LEMMA LockClearedKeeps == ASSUME CutoverInv, LockCleared PROVE CutoverInv'
<1>1. /\ cutLock = "left" /\ cutLock' = "free"
      /\ UNCHANGED <<entry, deployed, rollback, installed, rollout, torn>>
    BY DEF LockCleared
<1>2. cutLock \notin Rollouts /\ cutLock' \notin Rollouts  BY <1>1, NoHolder
<1>3. (torn \/ Agree)'  BY <1>1, <1>2 DEF CutoverInv, Agree, VerifyPair
<1>4. CutoverType' /\ WayBack'  BY <1>1 DEF CutoverInv, CutoverType, WayBack, VerifyPair
<1>5. ASSUME NEW q \in Rollouts PROVE RolloutOK(q)'
    BY <1>1, <1>2 DEF CutoverInv, RolloutOK, Agree, VerifyPair
<1> QED BY <1>3, <1>4, <1>5 DEF CutoverInv

LEMMA CutoverStep == ASSUME CutoverInv, [CutoverNext]_cutoverVars PROVE CutoverInv'
<1>1. CASE UNCHANGED cutoverVars
    BY <1>1 DEF cutoverVars, CutoverInv, CutoverType, WayBack, RolloutOK, Agree, VerifyPair
<1>2. ASSUME NEW p \in Rollouts, PointSelector(p) PROVE CutoverInv'
  <2>1. rollout[p].pc \in Switching  BY <1>2 DEF PointSelector, Doing, Switching
  <2>2. "selector" \in CommandEntries /\ PointEntry(p, "selector", "switch_cargo")
      BY <1>2 DEF PointSelector, CommandEntries
  <2> QED BY <2>1, <2>2, PointEntryKeeps
<1>3. ASSUME NEW p \in Rollouts, PointCargo(p) PROVE CutoverInv'
  <2>1. rollout[p].pc \in Switching  BY <1>3 DEF PointCargo, Doing, Switching
  <2>2. "cargo" \in CommandEntries /\ PointEntry(p, "cargo", "verify_switch")
      BY <1>3 DEF PointCargo, CommandEntries
  <2> QED BY <2>1, <2>2, PointEntryKeeps
<1>4. ASSUME NEW p \in Rollouts, RestoreSelector(p) PROVE CutoverInv'
  <2>1. rollout[p].pc \in Switching  BY <1>4 DEF RestoreSelector, Doing, Switching
  <2>2. "selector" \in CommandEntries /\ RestoreEntry(p, "selector", "undo_cargo")
      BY <1>4 DEF RestoreSelector, CommandEntries
  <2> QED BY <2>1, <2>2, RestoreEntryKeeps
<1>5. ASSUME NEW p \in Rollouts, RestoreCargo(p) PROVE CutoverInv'
  <2>1. rollout[p].pc \in Switching /\ rollout[p].pc = "undo_cargo"
      BY <1>5 DEF RestoreCargo, Doing, Switching
  <2>2. "cargo" \in CommandEntries /\ RestoreEntry(p, "cargo", "undo_deployment")
      BY <1>5 DEF RestoreCargo, CommandEntries
  <2>3. torn \/ entry["selector"] = "previous"  BY <2>1 DEF CutoverInv, RolloutOK
  <2> QED BY <2>1, <2>2, <2>3, RestoreEntryKeeps
<1> QED BY <1>1, <1>2, <1>3, <1>4, <1>5, LockClearedKeeps, BeginRolloutKeeps, ReadDeploymentKeeps,
           VerifyBeforeKeeps, EnsureBackupKeeps, WriteBackupKeeps, AcquireLockKeeps, InstallKeeps,
           VerifySwitchKeeps, WriteDeploymentKeeps, FinalCheckKeeps, WriteReceiptKeeps,
           RestoreDeploymentKeeps, DropLockKeeps, RolloutDiesKeeps
      DEF CutoverNext

LEMMA CutoverAlwaysInv == CutoverSpec => []CutoverInv
BY CutoverStart, CutoverStep, PTL DEF CutoverSpec

-----------------------------------------------------------------------------
(* Only the rollout with the lock changes an entry or the deployment.      *)
Exclusive ==
    /\ entry' # entry \/ deployed' # deployed =>
         \E p \in Rollouts : cutLock = p /\ rollout'[p] # rollout[p]
    /\ cutReceipt' # cutReceipt => VerifyPair("candidate") /\ deployed = DeployedIn(Len(Phases))

LEMMA StepChanges ==
    ASSUME CutoverType, NEW p \in Rollouts, NEW pc, rollout[p].pc # pc, ThenDo(p, pc)
    PROVE  rollout'[p] # rollout[p]
<1>1. rollout'[p].pc = pc  BY DEF CutoverType, ThenDo
<1> QED BY <1>1

LEMMA ExclusiveStep == ASSUME CutoverInv, [CutoverNext]_cutoverVars PROVE [Exclusive]_cutoverVars
<1>1. CutoverType /\ Len(Phases) = 3  BY DEF CutoverInv, Phases
<1>2. ASSUME entry' = entry, deployed' = deployed, cutReceipt' = cutReceipt PROVE Exclusive
    BY <1>2 DEF Exclusive
<1>3. ASSUME NEW p \in Rollouts, rollout[p].pc \in Switching, cutReceipt' = cutReceipt,
             NEW pc, rollout[p].pc # pc, ThenDo(p, pc)
      PROVE  Exclusive
  <2>1. cutLock = p  BY <1>3, LockedPcs, HolderKnows
  <2>2. rollout'[p] # rollout[p]  BY <1>1, <1>3, StepChanges
  <2> QED BY <2>1, <2>2, <1>3 DEF Exclusive
<1>4. ASSUME NEW p \in Rollouts, PointSelector(p) PROVE Exclusive
  <2>1. /\ rollout[p].pc = "switch_selector" /\ cutReceipt' = cutReceipt
        /\ ThenDo(p, "switch_cargo") \/ ThenDo(p, "undo_selector")
      BY <1>4 DEF PointSelector, PointEntry, Doing
  <2> QED BY <2>1, <1>3 DEF Switching
<1>5. ASSUME NEW p \in Rollouts, PointCargo(p) PROVE Exclusive
  <2>1. /\ rollout[p].pc = "switch_cargo" /\ cutReceipt' = cutReceipt
        /\ ThenDo(p, "verify_switch") \/ ThenDo(p, "undo_selector")
      BY <1>5 DEF PointCargo, PointEntry, Doing
  <2> QED BY <2>1, <1>3 DEF Switching
<1>6. ASSUME NEW p \in Rollouts, RestoreSelector(p) PROVE Exclusive
  <2>1. /\ rollout[p].pc = "undo_selector" /\ cutReceipt' = cutReceipt
        /\ ThenDo(p, "undo_cargo") \/ ThenDo(p, "undo_deployment")
      BY <1>6 DEF RestoreSelector, RestoreEntry, Doing
  <2> QED BY <2>1, <1>3 DEF Switching
<1>7. ASSUME NEW p \in Rollouts, RestoreCargo(p) PROVE Exclusive
  <2>1. /\ rollout[p].pc = "undo_cargo" /\ cutReceipt' = cutReceipt /\ ThenDo(p, "undo_deployment")
      BY <1>7 DEF RestoreCargo, RestoreEntry, Doing
  <2> QED BY <2>1, <1>3 DEF Switching
<1>8. ASSUME NEW p \in Rollouts, RestoreDeployment(p) PROVE Exclusive
  <2>1. rollout[p].pc = "undo_deployment" /\ cutReceipt' = cutReceipt /\ ThenDo(p, "unlock")
      BY <1>8 DEF RestoreDeployment, Doing
  <2> QED BY <2>1, <1>3 DEF Switching
<1>9. ASSUME NEW p \in Rollouts, WriteDeployment(p) PROVE Exclusive
  <2>1. rollout[p].pc = "write" /\ cutReceipt' = cutReceipt  BY <1>9 DEF WriteDeployment, Doing
  <2>2. CASE ThenDo(p, "final") \/ ThenDo(p, "undo_selector")  BY <2>1, <2>2, <1>3 DEF Switching
  <2>3. CASE \E k : rollout' = [rollout EXCEPT ![p].pc = "switch_selector", ![p].phase = k]
    <3>1. rollout'[p].pc = "switch_selector"  BY <2>3, <1>1 DEF CutoverType
    <3>2. rollout'[p] # rollout[p]  BY <3>1, <2>1
    <3>3. cutLock = p  BY <2>1, LockedPcs, HolderKnows DEF Switching
    <3> QED BY <3>2, <3>3, <2>1 DEF Exclusive
  <2> QED BY <1>9, <2>2, <2>3 DEF WriteDeployment
<1>10. ASSUME NEW p \in Rollouts, WriteReceipt(p) PROVE Exclusive
  <2>1. rollout[p].pc = "receipt"  BY <1>10 DEF WriteReceipt, Doing
  <2>2. VerifyPair("candidate") /\ deployed = DeployedIn(3)  BY <2>1 DEF CutoverInv, RolloutOK
  <2>3. entry' = entry /\ deployed' = deployed  BY <1>10 DEF WriteReceipt
  <2> QED BY <2>2, <2>3, <1>1 DEF Exclusive
<1>11. ASSUME NEW p \in Rollouts,
              \/ BeginRollout(p) \/ ReadDeployment(p) \/ VerifyBefore(p) \/ EnsureBackup(p) \/ WriteBackup(p)
              \/ AcquireLock(p) \/ Install(p) \/ VerifySwitch(p) \/ FinalCheck(p) \/ DropLock(p) \/ RolloutDies(p)
       PROVE  Exclusive
  <2>1. entry' = entry /\ deployed' = deployed /\ cutReceipt' = cutReceipt
      BY <1>11 DEF BeginRollout, ReadDeployment, VerifyBefore, EnsureBackup, WriteBackup, AcquireLock, Install,
                   VerifySwitch, FinalCheck, DropLock, RolloutDies
  <2> QED BY <2>1, <1>2
<1>12. CASE LockCleared  BY <1>12, <1>2 DEF LockCleared
<1>13. CASE UNCHANGED cutoverVars  BY <1>13
<1> QED BY <1>4, <1>5, <1>6, <1>7, <1>8, <1>9, <1>10, <1>11, <1>12, <1>13 DEF CutoverNext

(* Between rollouts the entries and the deployment agree unless one died   *)
(* with the lock or could not undo; the way back is kept before anything   *)
(* changes, and only the holder of the lock changes it (run, switch_pair,  *)
(* ensure_backup).                                                         *)
THEOREM CutoverAlwaysHonest == CutoverSpec => CutoverHonest
<1>1. CutoverSpec => []CutoverInv  BY CutoverAlwaysInv
<1>2. Len(Phases) = 3  BY DEF Phases
<1>3. CutoverInv => CutoverRecoverable  BY <1>2 DEF CutoverInv, WayBack, Agree, CutoverRecoverable
<1>4. CutoverInv /\ [CutoverNext]_cutoverVars => [Exclusive]_cutoverVars  BY ExclusiveStep
<1>5. CutoverSpec => [][Exclusive]_cutoverVars  BY <1>1, <1>4, PTL DEF CutoverSpec
<1>6. CutoverSpec => CutoverExclusive  BY <1>5 DEF Exclusive, CutoverExclusive
<1> QED BY <1>1, <1>3, <1>6, PTL DEF CutoverHonest

(* A release is what its answer, its files and its receipt say, for any    *)
(* number of selectors, releases, rollouts, failures and crashes.          *)
THEOREM ReleasesAlwaysHonest == ReleasesSpec => ReleasesHonest
BY DeploymentAlwaysHonest, CutoverAlwaysHonest, PTL DEF ReleasesSpec, ReleasesHonest
=============================================================================
