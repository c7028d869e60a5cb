----------------------------- MODULE PatchCommit -----------------------------
(***************************************************************************)
(* How apply_patch and apply_changes put prepared changes into a workspace *)
(* that others write to: baselines are fingerprinted, compared again under *)
(* the commit lock, new contents are staged and old files linked to a      *)
(* backup, then the changes are put in place one at a time. A failure      *)
(* takes back, last first, what was put in place.                          *)
(*                                                                         *)
(* And what a patch knows of Git's ignore rules before it is authorized:   *)
(* the files that hold the rules are found, fingerprinted, every path of   *)
(* the patch is looked up by a git process of its own, and the files are   *)
(* found and fingerprinted again, while someone edits them.                *)
(***************************************************************************)
EXTENDS Naturals, Sequences, SequencesExt, FiniteSets

CONSTANTS
    PatchCalls,   \* calls in progress
    Patches,      \* what a call may ask: names in order, a kind of change each
    MaxOutside,   \* bound on what others do to the files
    MaxFaults,    \* bound on failing renames
    PatchPaths,       \* the number of paths the ignore rules are asked about
    MaxAttempts,      \* PATCH_REVALIDATION_ATTEMPTS
    MaxMetaChanges    \* bound on the edits of the rules

ASSUME PatchBounds == {MaxOutside, MaxFaults} \subseteq Nat
ASSUME IgnoreBounds == {PatchPaths, MaxAttempts, MaxMetaChanges} \subseteq Nat /\ MaxAttempts > 0

VARIABLES
    files,    \* the inode each name stands for, 0 for none
    inodes,   \* who wrote each inode last, and how often it was written
    calls,    \* the calls
    lock,     \* the holder of patch_commit_lock
    outside,  \* how often others wrote, and the inodes they wrote too late to be seen
    faults,   \* failed renames so far
    lost,     \* a call destroyed what it had not seen
    meta,     \* the version of each file that may hold ignore rules
    lookup    \* the preparation of the facts of a patch

commitVars == <<files, inodes, calls, lock, outside, faults, lost>>

NoCall == "none"
Names == {"a", "b"}
ChangeKinds == {"write", "create", "delete", "check"}

(* insert_prepared_change keeps one change of a path.                      *)
ASSUME PatchShapes ==
    /\ NoCall \notin PatchCalls
    /\ \A patch \in Patches :
        /\ patch \in Seq([name : Names, kind : ChangeKinds])
        /\ \A j, k \in DOMAIN patch :
              "check" \notin {patch[j].kind, patch[k].kind} /\ patch[j].name = patch[k].name => j = k

Written(by, version) == [by |-> by, version |-> version]
Identity(i) == [inode |-> i, version |-> inodes[i].version]
Missing == [inode |-> 0, version |-> 0]
Current(n) == IF files[n] = 0 THEN Missing ELSE Identity(files[n])

Idle == [pc |-> "idle", patch |-> <<>>, base |-> <<>>, next |-> 1, stage |-> <<>>, backup |-> <<>>,
         done |-> <<>>, kept |-> {}, others |-> {}]

CommitInit ==
    /\ \E second \in {0, 2} : files = [n \in Names |-> IF n = "a" THEN 1 ELSE second]
    /\ inodes = <<Written(NoCall, 0), Written(NoCall, 0)>>
    /\ calls = [c \in PatchCalls |-> Idle]
    /\ lock = NoCall /\ outside = [writes |-> 0, late |-> {}] /\ faults = 0 /\ lost = FALSE

-----------------------------------------------------------------------------
Job(c) == calls[c]
Changes(c) == {k \in DOMAIN Job(c).patch : Job(c).patch[k].kind # "check"}
Checks(c) == DOMAIN Job(c).patch \ Changes(c)
Target(c, k) == Job(c).patch[k].name
Asks(c, k) == Job(c).patch[k].kind
Same(c, k) == Current(Target(c, k)) = Job(c).base[k]

Becomes(c, r) == calls' = [calls EXCEPT ![c] = r]
Quiet == UNCHANGED <<inodes, outside, faults, lost>>
Refuse(c) == Becomes(c, [Job(c) EXCEPT !.pc = "refused"])
Unlock(c) == lock' = IF lock = c THEN NoCall ELSE lock
NoChange(c, k) == k \notin Changes(c)

AskPatch(c, patch) ==
    /\ Job(c).pc = "idle"
    /\ Becomes(c, [Idle EXCEPT !.pc = "prepare", !.patch = patch])
    /\ UNCHANGED <<files, lock>> /\ Quiet

Wanted(c, k) == (files[Target(c, k)] = 0) = (Asks(c, k) = "create")

(* prepare_patch_operations and the structured changes: each path must be  *)
(* there, or not be there, and its print is taken.                         *)
PrepareChange(c) ==
    LET k == Len(Job(c).base) + 1
    IN /\ Job(c).pc = "prepare" /\ k <= Len(Job(c).patch)
       /\ IF Wanted(c, k) THEN Becomes(c, [Job(c) EXCEPT !.base = Append(@, Current(Target(c, k)))]) ELSE Refuse(c)
       /\ UNCHANGED <<files, lock>> /\ Quiet

(* commit_prepared_patch takes the lock.                                   *)
TakeLock(c) ==
    /\ Job(c).pc = "prepare" /\ Len(Job(c).base) = Len(Job(c).patch)
    /\ lock = NoCall /\ lock' = c
    /\ Becomes(c, [Job(c) EXCEPT !.pc = "revalidate"])
    /\ UNCHANGED files /\ Quiet

(* A pass over the paths in order that ends the call at the first one that *)
(* has changed, and moves on to the next pass behind the last one.         *)
PassOver(c, pc, then, changed) ==
    LET k == Job(c).next
    IN /\ Job(c).pc = pc
       /\ IF k > Len(Job(c).patch)
          THEN Becomes(c, [Job(c) EXCEPT !.pc = then, !.next = 1]) /\ UNCHANGED lock
          ELSE IF k \in changed THEN Refuse(c) /\ Unlock(c)
          ELSE Becomes(c, [Job(c) EXCEPT !.next = @ + 1]) /\ UNCHANGED lock
       /\ UNCHANGED files /\ Quiet

(* revalidate_prepared_patch.                                              *)
RevalidatePath(c) ==
    PassOver(c, "revalidate", "stage", {k \in DOMAIN Job(c).patch : ~Same(c, k)})

(* One change is checked, its content is written to a file of its own and  *)
(* the file it replaces is linked to a backup, whatever it is by then.     *)
StageChange(c) ==
    LET k == Len(Job(c).stage) + 1
        writes == Asks(c, k) \in {"write", "create"}
    IN /\ Job(c).pc = "stage" /\ k <= Len(Job(c).patch) /\ Len(Job(c).backup) = k - 1
       /\ IF NoChange(c, k)
          THEN Becomes(c, [Job(c) EXCEPT !.stage = Append(@, 0)]) /\ UNCHANGED <<inodes, lock>>
          ELSE IF ~Same(c, k) THEN Refuse(c) /\ Unlock(c) /\ UNCHANGED inodes
          ELSE /\ inodes' = IF writes THEN Append(inodes, Written(c, 0)) ELSE inodes
               /\ Becomes(c, [Job(c) EXCEPT !.stage = Append(@, IF writes THEN Len(inodes) + 1 ELSE 0)])
               /\ UNCHANGED lock
       /\ UNCHANGED <<files, outside, faults, lost>>

LinkBackup(c) ==
    LET k == Len(Job(c).backup) + 1
        e == Job(c)
        linked == IF NoChange(c, k) \/ e.base[k] = Missing THEN 0 ELSE files[Target(c, k)]
        stale == ~NoChange(c, k) /\ e.base[k] # Missing /\ (linked = 0 \/ Identity(linked) # e.base[k])
    IN /\ e.pc = "stage" /\ k <= Len(e.stage)
       /\ IF stale
          THEN Refuse(c) /\ Unlock(c)
          ELSE Becomes(c, [e EXCEPT !.backup = Append(@, linked),
                           !.pc = IF k = Len(e.patch) THEN "recheck" ELSE @]) /\ UNCHANGED lock
       /\ UNCHANGED files /\ Quiet

BackupSame(c, k) == Job(c).backup[k] = 0 \/ Identity(Job(c).backup[k]) = Job(c).base[k]

(* Everything is staged: targets and backups are compared once more.       *)
RecheckStaged(c) ==
    PassOver(c, "recheck", "check", {k \in Changes(c) : ~(Same(c, k) /\ BackupSame(c, k))})

LastCheckReturns(c) ==
    LET k == Job(c).next
    IN /\ Job(c).pc = "check" /\ k <= Len(Job(c).patch)
       /\ Becomes(c, IF NoChange(c, k) THEN [Job(c) EXCEPT !.next = k + 1]
                 ELSE IF Same(c, k) /\ \A d \in Checks(c) : Same(c, d)
                 THEN [Job(c) EXCEPT !.pc = "act"] ELSE [Job(c) EXCEPT !.pc = "refused"])
       /\ UNCHANGED <<files, lock>> /\ Quiet

(* The last look at a target, and at the files the patch depends on, is    *)
(* right before the change is put in place.                                *)
LastCheck(c) ==
    LET k == Job(c).next
    IN /\ Job(c).pc = "check" /\ k <= Len(Job(c).patch)
       /\ Becomes(c, IF NoChange(c, k) THEN [Job(c) EXCEPT !.next = k + 1]
                 ELSE IF Same(c, k) /\ \A d \in Checks(c) : Same(c, d)
                 THEN [Job(c) EXCEPT !.pc = "act"] ELSE [Job(c) EXCEPT !.pc = "rollback"])
       /\ UNCHANGED <<files, lock>> /\ Quiet

Fails == faults < MaxFaults /\ faults' = faults + 1

(* What a step on a name may destroy: the baseline, the own file, or what  *)
(* others put there when it was too late.                                  *)
Seen(c, k, i) ==
    \/ i = 0 \/ i \in outside.late
    \/ Identity(i) = Job(c).base[k] \/ i = Job(c).stage[k]

TouchedByOthers(n, c) ==
    [d \in PatchCalls |-> IF d = c \/ Job(d).pc = "idle" THEN Job(d)
                          ELSE [Job(d) EXCEPT !.others = @ \cup {n}]]

(* Put in place: rename over an existing file, link to a free name, or     *)
(* remove. A link fails when the name is taken, a removal when it is free. *)
PutInPlace(c) ==
    LET e == Job(c)  k == e.next  n == Target(c, k)  i == files[n]
        impossible == (Asks(c, k) = "create" /\ i # 0) \/ (Asks(c, k) = "delete" /\ i = 0)
    IN /\ e.pc = "act"
       /\ \/ /\ \/ impossible /\ UNCHANGED faults
                \/ Fails
             /\ Becomes(c, [e EXCEPT !.pc = "rollback"])
             /\ UNCHANGED <<files, lost>>
          \/ /\ ~impossible /\ UNCHANGED faults
             /\ files' = [files EXCEPT ![n] = e.stage[k]]
             /\ lost' = (lost \/ ~Seen(c, k, i))
             /\ calls' = [TouchedByOthers(n, c) EXCEPT ![c] =
                            [e EXCEPT !.pc = "check", !.next = k + 1, !.done = Append(@, k)]]
       /\ UNCHANGED <<inodes, lock, outside>>

(* rollback_patch_changes, one change: the backup goes back if it is what  *)
(* was linked, and is kept if not; a created file is removed.              *)
Restore(c) ==
    LET e == Job(c)  k == Last(e.done)  n == Target(c, k)  i == files[n]
        back == e.backup[k]
        restored == [e EXCEPT !.done = Front(@)]
        failed == [restored EXCEPT !.kept = @ \cup {IF back = 0 THEN e.stage[k] ELSE back}]
    IN /\ e.pc = "rollback" /\ e.done # <<>>
       /\ \/ /\ \/ ~BackupSame(c, k) /\ UNCHANGED faults
                \/ Fails
             /\ Becomes(c, failed)
             /\ UNCHANGED <<files, lost>>
          \/ /\ BackupSame(c, k) /\ UNCHANGED faults
             /\ files' = [files EXCEPT ![n] = back]
             /\ lost' = (lost \/ ~Seen(c, k, i))
             /\ calls' = [TouchedByOthers(n, c) EXCEPT ![c] = restored]
       /\ UNCHANGED <<inodes, lock, outside>>

(* The temporary files go, except the backups that are kept.               *)
Finish(c) ==
    LET e == Job(c)
    IN /\ \/ /\ e.pc = "rollback" /\ e.done = <<>>
             /\ Becomes(c, [e EXCEPT !.pc = IF e.kept = {} THEN "refused" ELSE "failed"])
          \/ /\ e.pc = "check" /\ e.next > Len(e.patch)
             /\ Becomes(c, [e EXCEPT !.pc = "committed"])
       /\ Unlock(c)
       /\ UNCHANGED files /\ Quiet

-----------------------------------------------------------------------------
(* Others write to the files. A write is too late for a call that has      *)
(* taken its last look at that name, or at the inode.                      *)
Working == {c \in PatchCalls : Job(c).pc \in {"act", "check", "rollback"}}
LastLook(c) == {k \in Changes(c) : k < Job(c).next \/ (k = Job(c).next /\ Job(c).pc # "check")}
TooLate(n) == \E c \in Working : \E k \in LastLook(c) : Target(c, k) = n

OutsideWrites(i, n) ==
    outside' = [writes |-> outside.writes + 1,
                late   |-> outside.late \cup (IF TooLate(n) THEN {i} ELSE {})]

(* A file is replaced or created.                                          *)
OutsideReplace(n) ==
    /\ outside.writes < MaxOutside
    /\ inodes' = Append(inodes, Written(NoCall, 0))
    /\ files' = [files EXCEPT ![n] = Len(inodes) + 1]
    /\ calls' = TouchedByOthers(n, NoCall)
    /\ OutsideWrites(Len(inodes) + 1, n)
    /\ UNCHANGED <<lock, faults, lost>>

OutsideRemove(n) ==
    /\ outside.writes < MaxOutside /\ files[n] # 0
    /\ files' = [files EXCEPT ![n] = 0]
    /\ calls' = TouchedByOthers(n, NoCall)
    /\ OutsideWrites(0, n)
    /\ UNCHANGED <<inodes, lock, faults, lost>>

(* A file is written in place, also through a handle from before it was    *)
(* replaced.                                                               *)
OutsideEdit(n, i) ==
    /\ outside.writes < MaxOutside
    /\ \/ i = files[n] /\ i # 0
       \/ \E c \in Working : \E k \in DOMAIN Job(c).backup : Target(c, k) = n /\ i = Job(c).backup[k] /\ i # 0
    /\ inodes' = [inodes EXCEPT ![i] = Written(NoCall, @.version + 1)]
    /\ OutsideWrites(i, n)
    /\ UNCHANGED <<files, calls, lock, faults, lost>>

CommitNext ==
    \/ \E c \in PatchCalls :
        \/ \E patch \in Patches : AskPatch(c, patch)
        \/ PrepareChange(c) \/ TakeLock(c) \/ RevalidatePath(c) \/ StageChange(c) \/ LinkBackup(c)
        \/ RecheckStaged(c) \/ LastCheck(c) \/ PutInPlace(c) \/ Restore(c) \/ Finish(c)
    \/ \E n \in Names :
        \/ OutsideReplace(n) \/ OutsideRemove(n)
        \/ \E i \in DOMAIN inodes : OutsideEdit(n, i)

CommitSpec == CommitInit /\ [][CommitNext]_commitVars

-----------------------------------------------------------------------------
(* The ignore facts of a patch.                                            *)

ignoreVars == <<meta, lookup>>

(* An odd config includes a further file. The order is the one of reading. *)
MetaFiles == {"config", "include", "ignore"}
Relevant == IF meta["config"] % 2 = 1 THEN <<"config", "ignore", "include">> ELSE <<"config", "ignore">>

(* What check-ignore answers by: the rules in force.                       *)
Rules == [f \in MetaFiles |-> IF \E i \in DOMAIN Relevant : Relevant[i] = f THEN meta[f] ELSE 0]

NoLookup == [pc |-> "paths", attempt |-> 1, files |-> <<>>, before |-> <<>>, facts |-> <<>>,
             again |-> <<>>, after |-> <<>>, checked |-> 0, late |-> FALSE]

IgnoreInit ==
    /\ \E odd \in {0, 1} : meta = [f \in MetaFiles |-> IF f = "config" THEN odd ELSE 0]
    /\ lookup = NoLookup

(* git_metadata_paths, before the lookups and after them.                  *)
FindFiles ==
    /\ lookup.pc = "paths"
    /\ lookup' = [lookup EXCEPT !.pc = "before", !.files = Relevant]
    /\ UNCHANGED meta

FindFilesAgain ==
    /\ lookup.pc = "again"
    /\ lookup' = [lookup EXCEPT !.pc = "after", !.again = Relevant]
    /\ UNCHANGED meta

(* GitMetadataSnapshot::capture, one file at a time.                       *)
Capture ==
    /\ lookup.pc = "before"
    /\ IF Len(lookup.before) < Len(lookup.files)
       THEN lookup' = [lookup EXCEPT !.before = Append(@, meta[lookup.files[Len(@) + 1]])]
       ELSE lookup' = [lookup EXCEPT !.pc = "facts"]
    /\ UNCHANGED meta

(* permission_git_ignored of the next path.                                *)
LookUp ==
    /\ lookup.pc = "facts"
    /\ IF Len(lookup.facts) < PatchPaths
       THEN lookup' = [lookup EXCEPT !.facts = Append(@, Rules)]
       ELSE lookup' = [lookup EXCEPT !.pc = "again"]
    /\ UNCHANGED meta

CaptureAgain ==
    /\ lookup.pc = "after" /\ lookup.again = lookup.files
    /\ Len(lookup.after) < Len(lookup.again)
    /\ lookup' = [lookup EXCEPT !.after = Append(@, meta[lookup.again[Len(@) + 1]])]
    /\ UNCHANGED meta

Retry ==
    lookup' = IF lookup.attempt = MaxAttempts THEN [lookup EXCEPT !.pc = "refused"]
              ELSE [NoLookup EXCEPT !.attempt = lookup.attempt + 1]

(* collect_patch_authority_facts: the same files, with the same prints, or *)
(* once more, up to the bound.                                             *)
Decide ==
    /\ lookup.pc = "after"
    /\ lookup.again = lookup.files => Len(lookup.after) = Len(lookup.again)
    /\ IF lookup.again = lookup.files /\ lookup.before = lookup.after
       THEN lookup' = [lookup EXCEPT !.pc = "prepared"]
       ELSE Retry
    /\ UNCHANGED meta

RecheckNothing ==
    /\ lookup.pc = "prepared" /\ lookup.checked < Len(lookup.files)
    /\ lookup' = [lookup EXCEPT !.checked = @ + 1]
    /\ UNCHANGED meta

(* The prints are compared with the files before the commit is authorized  *)
(* and once more when everything is staged.                                *)
Recheck ==
    LET file == lookup.files[lookup.checked + 1]
    IN /\ lookup.pc = "prepared" /\ lookup.checked < Len(lookup.files)
       /\ lookup' = IF meta[file] = lookup.after[lookup.checked + 1]
                    THEN [lookup EXCEPT !.checked = @ + 1] ELSE [lookup EXCEPT !.pc = "refused"]
       /\ UNCHANGED meta

CommitFacts ==
    /\ lookup.pc = "prepared" /\ lookup.checked = Len(lookup.files)
    /\ lookup' = [lookup EXCEPT !.pc = "committed"]
    /\ UNCHANGED meta

(* An edit of a file that was checked for the last time comes too late.    *)
EditMeta(f) ==
    /\ lookup.pc \notin {"committed", "refused"}
    /\ meta["config"] + meta["include"] + meta["ignore"] < MaxMetaChanges
    /\ meta' = [meta EXCEPT ![f] = @ + 1]
    /\ lookup' = [lookup EXCEPT !.late =
                    @ \/ \E i \in 1..lookup.checked : lookup.files[i] = f]

IgnoreNext ==
    \/ FindFiles \/ FindFilesAgain \/ Capture \/ LookUp \/ CaptureAgain \/ Decide \/ Recheck
    \/ CommitFacts
    \/ \E f \in MetaFiles : EditMeta(f)

IgnoreSpec == IgnoreInit /\ [][IgnoreNext]_ignoreVars

-----------------------------------------------------------------------------
(* A call destroys only the contents it was prepared for and its own: what *)
(* others or another call wrote since is kept, unless it was written after *)
(* the last look at that very file.                                        *)
NothingUnseenLost == ~lost

(* A patch is in place as a whole or not at all, up to what others did to  *)
(* the same names since: also when a rename in the middle failed, or one   *)
(* file changed between two others being put in place.                     *)
AllOrNothing ==
    \A c \in PatchCalls : \A k \in Changes(c) : LET n == Target(c, k) IN
        n \notin Job(c).others =>
            CASE Job(c).pc = "committed" -> files[n] = Job(c).stage[k]
              [] Job(c).pc = "refused" -> k \in DOMAIN Job(c).base => files[n] = Job(c).base[k].inode
              [] OTHER -> TRUE

(* When a roll back fails, every original that was taken away can be found *)
(* under its name or its backup.                                           *)
OriginalsRecoverable ==
    \A c \in PatchCalls : Job(c).pc = "failed" =>
        \A k \in Changes(c) :
            Job(c).base[k] # Missing /\ Target(c, k) \notin Job(c).others =>
                Job(c).base[k].inode \in {files[Target(c, k)]} \cup Job(c).kept

(* The facts a patch is authorized by, one lookup after another, are those *)
(* of one state of the rules, and it is the state in force when the patch  *)
(* commits, unless a file is edited after its last check.                  *)
FactsOfOneMoment ==
    lookup.pc = "committed" /\ ~lookup.late =>
        \A i \in 1..PatchPaths : lookup.facts[i] = Rules

(* A patch of several files keeps what others wrote, is there as a whole or*)
(* not at all, and when it can neither be finished nor undone leaves every *)
(* original to be found (commit_changes, roll_back).                       *)
PatchKeepsFiles ==
    /\ NothingUnseenLost
    /\ AllOrNothing
    /\ OriginalsRecoverable
=============================================================================
