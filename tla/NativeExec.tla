----------------------------- MODULE NativeExec -----------------------------
(***************************************************************************)
(* exec_command under native authority: the executables a command names    *)
(* are found and inspected, its permissions classified and granted, the    *)
(* sandbox planned, the inspection repeated and the command started. Each  *)
(* executable is inspected at a moment of its own, and files change        *)
(* between any two. What the kernel runs at the end is found by its own    *)
(* search through PATH.                                                    *)
(***************************************************************************)
EXTENDS Naturals, Sequences, SequencesExt

CONSTANTS
    ExecCallers,     \* calls in progress
    Programs,        \* names a command may run
    PathEntries,     \* the length of PATH; its first entry is the workspace
    Commands,        \* candidate executables of the commands, with their risks
    LongTimeout,     \* the commands with a timeout above 30 s
    MaxFileChanges   \* bound on the changes of the file system

ASSUME ExecBounds ==
    /\ {PathEntries, MaxFileChanges} \subseteq Nat /\ PathEntries > 0
    /\ Commands \subseteq Seq(Programs) /\ LongTimeout \subseteq Commands

VARIABLES
    disk,      \* what each PATH entry holds under each name
    changes,   \* changes so far
    exec       \* the calls

execVars == <<disk, changes, exec>>

(* A plain file is not executable; an unseen one leads out of what the     *)
(* sandbox mounts, or cannot be inspected.                                 *)
FileKinds == {"absent", "executable", "setuid", "plain", "unseen"}
File(kind, version) == [kind |-> kind, version |-> version]
Runnable(f) == f.kind \in {"executable", "setuid"}

NoExec == [pc |-> "idle", command |-> <<>>, direct |-> FALSE, facts |-> <<>>, again |-> <<>>,
           required |-> {}, late |-> {}, ran |-> <<>>]

Stock(filled) ==
    [i \in 1..PathEntries |-> [p \in Programs |-> File(IF i \in filled THEN "executable" ELSE "absent", 0)]]
Stocked == Stock(1..PathEntries)

ExecInit ==
    /\ \E filled \in SUBSET (1..PathEntries) : disk = Stock(filled)
    /\ changes = 0
    /\ exec = [c \in ExecCallers |-> NoExec]

-----------------------------------------------------------------------------
(* resolve_sandbox_executable. A name with a slash is one file of the      *)
(* workspace. A bare name is searched in PATH order: what is absent or not *)
(* an executable file is skipped, what cannot be inspected or is not       *)
(* visible in the sandbox ends the search with a refusal.                  *)
Entries(direct) == IF direct THEN {1} ELSE 1..PathEntries
Stops(i, p, direct) ==
    IF direct THEN disk[i][p].kind # "absent" ELSE disk[i][p].kind \notin {"absent", "plain"}
Candidate(p, direct) == {i \in Entries(direct) : Stops(i, p, direct)}
FirstEntry(I) == CHOOSE i \in I : \A j \in I : i <= j

Refusal == [entry |-> 0, file |-> File("refused", 0)]
Unresolved == [entry |-> 0, file |-> File("absent", 0)]

Resolve(p, direct) ==
    IF Candidate(p, direct) = {} THEN Unresolved
    ELSE LET i == FirstEntry(Candidate(p, direct))
         IN IF Runnable(disk[i][p])
            THEN [entry |-> i, file |-> disk[i][p]] ELSE Refusal

(* What the kernel finds in the sandbox: what is unseen is not there.      *)
KernelFinds(p, direct) ==
    LET I == {i \in Entries(direct) : Runnable(disk[i][p])}
    IN IF I = {} THEN Unresolved ELSE [entry |-> FirstEntry(I), file |-> disk[FirstEntry(I)][p]]

(* classify_exec_permissions: what the facts and the arguments show.       *)
Required(command, facts) ==
    (IF command \in LongTimeout THEN {"long_timeout"} ELSE {})
    \cup (IF \E i \in DOMAIN facts : facts[i].file.kind = "setuid" THEN {"privileged_executable"} ELSE {})

(* native_mode_implicitly_grants: the dangerous profile grants every kind. *)
Granted == {"long_timeout", "privileged_executable"}

-----------------------------------------------------------------------------
SetExec(c, r) == exec' = [exec EXCEPT ![c] = r]

(* ExecInvocation::parse.                                                  *)
ParseExec(c, command, direct) ==
    /\ exec[c].pc = "idle"
    /\ SetExec(c, [NoExec EXCEPT !.pc = "collect", !.command = command, !.direct = direct])
    /\ UNCHANGED <<disk, changes>>

(* collect_exec_permission_facts, one candidate. A refusal ends the call;  *)
(* an unresolved name ends it at the classification.                       *)
Collect(c) ==
    LET e == exec[c]
        f == Resolve(e.command[Len(e.facts) + 1], e.direct)
    IN /\ e.pc = "collect" /\ Len(e.facts) < Len(e.command)
       /\ SetExec(c, IF f = Refusal THEN NoExec ELSE [e EXCEPT !.facts = Append(@, f)])
       /\ UNCHANGED <<disk, changes>>

(* Classification, policy and sandbox plan.                                *)
Authorize(c) ==
    LET e == exec[c]
    IN /\ e.pc = "collect" /\ Len(e.facts) = Len(e.command)
       /\ SetExec(c, IF Unresolved \in ToSet(e.facts) THEN NoExec
                     ELSE [e EXCEPT !.pc = "revalidate", !.required = Required(e.command, e.facts)])
       /\ UNCHANGED <<disk, changes>>

RevalidateNothing(c) ==
    LET e == exec[c]
    IN /\ e.pc = "revalidate" /\ Len(e.again) < Len(e.command)
       /\ SetExec(c, [e EXCEPT !.again = Append(@, e.facts[Len(e.again) + 1])])
       /\ UNCHANGED <<disk, changes>>

(* revalidate_exec_permission_facts collects them again.                   *)
Revalidate(c) ==
    LET e == exec[c]
        f == Resolve(e.command[Len(e.again) + 1], e.direct)
    IN /\ e.pc = "revalidate" /\ Len(e.again) < Len(e.command)
       /\ SetExec(c, IF f = Refusal THEN NoExec ELSE [e EXCEPT !.again = Append(@, f)])
       /\ UNCHANGED <<disk, changes>>

Changed(c) ==
    LET e == exec[c]
    IN /\ e.pc = "revalidate" /\ Len(e.again) = Len(e.command) /\ e.again # e.facts
       /\ SetExec(c, NoExec)
       /\ UNCHANGED <<disk, changes>>

(* The command starts; the kernel searches for its programs.               *)
StartExec(c) ==
    LET e == exec[c]
    IN /\ e.pc = "revalidate" /\ Len(e.again) = Len(e.command) /\ e.again = e.facts
       /\ e.required \subseteq Granted
       /\ SetExec(c, [e EXCEPT !.pc = "running",
                      !.ran = [i \in DOMAIN e.command |-> KernelFinds(e.command[i], e.direct)]])
       /\ UNCHANGED <<disk, changes>>

(* Someone replaces a file. A call notes it for the names it has checked   *)
(* for the last time.                                                      *)
ChangeFile(i, p, kind) ==
    /\ \E c \in ExecCallers : exec[c].pc # "running"
    /\ changes < MaxFileChanges /\ changes' = changes + 1
    /\ disk' = [disk EXCEPT ![i][p] = File(kind, changes')]
    /\ exec' = [c \in ExecCallers |->
          [exec[c] EXCEPT !.late = IF \E k \in DOMAIN exec[c].again : exec[c].command[k] = p
                                   THEN @ \cup {p} ELSE @]]

ExecNext ==
    \/ \E c \in ExecCallers :
        \/ \E command \in Commands, direct \in BOOLEAN : ParseExec(c, command, direct)
        \/ Collect(c) \/ Authorize(c) \/ Revalidate(c) \/ Changed(c) \/ StartExec(c)
    \/ \E i \in 1..PathEntries, p \in Programs, kind \in FileKinds : ChangeFile(i, p, kind)

ExecSpec == ExecInit /\ [][ExecNext]_execVars

-----------------------------------------------------------------------------
(* A started command runs the very files that were inspected, or files put *)
(* there after the last inspection: whatever is moved through PATH between *)
(* classification and that inspection, and however the search skips.       *)
RunsWhatWasInspected ==
    \A c \in ExecCallers : exec[c].pc = "running" =>
        \A i \in DOMAIN exec[c].command :
            exec[c].ran[i] = exec[c].facts[i] \/ exec[c].command[i] \in exec[c].late

(* A privileged file among those a command runs was part of what its       *)
(* policy was asked for.                                                   *)
PrivilegeNamed ==
    \A c \in ExecCallers : exec[c].pc = "running" =>
        \A i \in DOMAIN exec[c].command :
            exec[c].ran[i].file.kind = "setuid" /\ exec[c].command[i] \notin exec[c].late =>
                "privileged_executable" \in exec[c].required

(* What a command runs was inspected, and its privilege asked for (execute,*)
(* revalidate).                                                            *)
ExecutionInspected ==
    /\ RunsWhatWasInspected
    /\ PrivilegeNamed
=============================================================================
