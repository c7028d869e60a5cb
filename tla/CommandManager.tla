--------------------------- MODULE CommandManager ---------------------------
(***************************************************************************)
(* The lifecycle of native commands: start, poll, kill, prune and close by *)
(* concurrent callers, the watchdog of each command, and a child that may  *)
(* exit at any moment or ignore SIGTERM. The manager's table, each         *)
(* command's status and its child have a mutex of their own; no lock spans *)
(* two steps of a call. The loop of prune with the lookup after it, and    *)
(* the loop of close, are one step each. Whoever reads a status refreshes  *)
(* it first, so the end of a child is recorded when it is seen.            *)
(***************************************************************************)
EXTENDS Naturals, Sequences, SequencesExt, FiniteSets

CONSTANTS
    Callers,      \* threads that call the manager
    CommandIds,   \* identifiers of new_command_id, in order
    MaxActive,    \* max_active_commands, 16 in the code
    MaxRetained,  \* max_retained_commands, 32 in the code
    Stubborn,     \* the commands that ignore SIGTERM
    MaxCalls      \* bound on the calls of a behaviour

ASSUME ManagerSizes ==
    /\ CommandIds \subseteq Nat /\ Stubborn \subseteq CommandIds /\ IsFiniteSet(Callers)
    /\ {MaxActive, MaxRetained, MaxCalls} \subseteq Nat \ {0}

VARIABLES
    cmd,        \* child, status and watchdog of every command
    active,     \* the commands counted against the limit
    retained,   \* the others that can still be named, oldest first
    shut,       \* the manager is closed
    call,       \* the calls in progress
    calls,      \* calls so far
    firsts      \* how often a command's end was reported as news

managerVars == <<cmd, active, retained, shut, call, calls, firsts>>

Unborn == [proc |-> "none", doomed |-> FALSE, timedOut |-> FALSE,
           asked |-> FALSE, seen |-> FALSE, watchdog |-> "none"]
Free == [op |-> "none", pc |-> "free", id |-> 0, force |-> FALSE, alive |-> FALSE, label |-> "none"]

ManagerInit ==
    /\ cmd = [i \in CommandIds |-> Unborn]
    /\ active = {} /\ retained = <<>> /\ shut = FALSE /\ calls = 0
    /\ call = [c \in Callers |-> Free]
    /\ firsts = [i \in CommandIds |-> 0]

-----------------------------------------------------------------------------
Alive(i) == cmd[i].proc = "running"
Known(i) == i \in active \/ Contains(retained, i)

(* refresh_status: the child is gone.                                      *)
Done(r) == r.proc \notin {"none", "running"}

(* observe_outcome.                                                        *)
Outcome(r) ==
    IF ~Done(r) THEN "running"
    ELSE IF r.timedOut THEN "timeout"
    ELSE IF r.proc = "signal" THEN "signal"
    ELSE IF r.proc = "zero" THEN "exited_0" ELSE "exited_nonzero"

(* The status label of snapshot: marked means timeout, exited or not.      *)
Label(r) ==
    IF r.timedOut THEN "timeout"
    ELSE IF ~Done(r) THEN "running"
    ELSE IF r.proc = "signal" THEN "terminated" ELSE "exited"

(* A termination source is noted before the signal is sent.                *)
Asked(r) == [r EXCEPT !.asked = TRUE]

(* send_signal to the process group: the child will die, or it ignores it. *)
Signalled(i, r, hard) == [r EXCEPT !.doomed = r.doomed \/ hard \/ i \notin Stubborn]

(* The members of a sequence that are in a set, in their order.            *)
Filtered(s, set) ==
    LET kept[n \in 0 .. Len(s)] ==
            IF n = 0 THEN <<>>
            ELSE IF s[n] \in set THEN Append(kept[n - 1], s[n]) ELSE kept[n - 1]
    IN kept[Len(s)]

Without(s, i) == Filtered(s, CommandIds \ {i})

(* retain_terminal.                                                        *)
RetainTerminal(i) ==
    IF i \in active
    THEN active' = active \ {i} /\ retained' = Append(Without(retained, i), i)
    ELSE UNCHANGED <<active, retained>>

CallAt(c, pc) == call' = [call EXCEPT ![c].pc = pc]
CallEnds(c) == call' = [call EXCEPT ![c] = Free]

-----------------------------------------------------------------------------
LastOf(s, n) == IF Len(s) <= n THEN s ELSE SubSeq(s, Len(s) - n + 1, Len(s))

(* prune: what has ended is retained, entries past their time go if their  *)
(* command has completed, then the oldest ones above the limit, whatever   *)
(* they are.                                                               *)
Prune(aged) ==
    LET ended == {i \in active : Done(cmd[i])}
    IN /\ calls < MaxCalls /\ calls' = calls + 1
       /\ active' = active \ ended
       /\ \E s \in SetToSeqs(ended) :
           retained' = LastOf(Filtered(retained \o s, {i \in CommandIds : ~(aged /\ Done(cmd[i]))}), MaxRetained)

(* start: the limit is compared with the table as it is now.               *)
StartCheck(c, aged) ==
    /\ call[c].pc = "free" /\ Prune(aged)
    /\ ~shut /\ Cardinality(active') < MaxActive
    /\ call' = [call EXCEPT ![c].op = "start", ![c].pc = "spawn"]
    /\ UNCHANGED <<cmd, shut, firsts>>

(* get: active first, then retained.                                       *)
Get(c, op, i, aged) ==
    /\ call[c].pc = "free" /\ Prune(aged)
    /\ i \in active' \/ Contains(retained', i)
    /\ call' = [call EXCEPT ![c].op = op, ![c].id = i, ![c].pc = IF op = "kill" THEN "mark" ELSE "input"]
    /\ UNCHANGED <<cmd, shut, firsts>>

(* The limit is reached, the manager closed or the command unknown.        *)
Refused(c, aged) ==
    /\ call[c].pc = "free" /\ Prune(aged)
    /\ UNCHANGED <<cmd, shut, call, firsts>>

Spawn(c) ==
    /\ call[c].pc = "spawn"
    /\ \E i \in CommandIds :
        /\ cmd[i].proc = "none" /\ \A j \in CommandIds : j < i => cmd[j].proc # "none"
        /\ cmd' = [cmd EXCEPT ![i] = [Unborn EXCEPT !.proc = "running", !.watchdog = "watch"]]
        /\ call' = [call EXCEPT ![c].pc = "insert", ![c].id = i]
    /\ UNCHANGED <<active, retained, shut, firsts, calls>>

SpawnFails(c) ==
    /\ call[c].pc = "spawn" /\ CallEnds(c)
    /\ UNCHANGED <<cmd, active, retained, shut, firsts, calls>>

Insert(c) ==
    /\ call[c].pc = "insert"
    /\ active' = active \cup {call[c].id}
    /\ CallAt(c, "input")
    /\ UNCHANGED <<cmd, retained, shut, firsts, calls>>

(* Writing to a closed stdin is an error; the command stays.               *)
InputRefused(c) ==
    /\ call[c].pc = "input" /\ CallEnds(c)
    /\ UNCHANGED <<cmd, active, retained, shut, firsts, calls>>

(* snapshot, after as long a wait as the caller asked for.                 *)
Observe(c) ==
    /\ call[c].pc = "input"
    /\ LET i == call[c].id
           r == cmd[i]
       IN /\ cmd' = [cmd EXCEPT ![i] = [r EXCEPT !.seen = r.seen \/ Done(r)]]
          /\ firsts' = [firsts EXCEPT ![i] = @ + (IF Done(r) /\ ~r.seen THEN 1 ELSE 0)]
          /\ call' = [call EXCEPT ![c].pc = "retain", ![c].label = Label(r)]
    /\ UNCHANGED <<active, retained, shut, calls>>

(* format_and_retain; kill then evicts what it did not leave terminating.  *)
FormatAndRetain(c) ==
    /\ call[c].pc = "retain"
    /\ IF call[c].op = "kill" /\ call[c].label # "terminating"
       THEN active' = active \ {call[c].id} /\ retained' = Without(retained, call[c].id)
       ELSE IF call[c].label # "running" THEN RetainTerminal(call[c].id)
       ELSE UNCHANGED <<active, retained>>
    /\ CallEnds(c)
    /\ UNCHANGED <<cmd, shut, firsts, calls>>

(* kill: a command that still runs is marked and signalled.                *)
KillMark(c, hard) ==
    /\ call[c].pc = "mark"
    /\ LET i == call[c].id
       IN IF Done(cmd[i])
          THEN UNCHANGED cmd /\ CallAt(c, "decide")
          ELSE /\ cmd' = [cmd EXCEPT ![i] = Signalled(i, Asked(cmd[i]), hard)]
               /\ call' = [call EXCEPT ![c].pc = "await", ![c].alive = TRUE, ![c].force = hard]
    /\ UNCHANGED <<active, retained, shut, firsts, calls>>

(* wait_for_exit ends with the child, or with its time: then SIGKILL, once. *)
KillAwait(c) ==
    /\ call[c].pc = "await"
    /\ LET i == call[c].id
       IN IF ~Done(cmd[i]) /\ ~call[c].force
          THEN /\ cmd' = [cmd EXCEPT ![i] = Signalled(i, cmd[i], TRUE)]
               /\ call' = [call EXCEPT ![c].force = TRUE]
          ELSE UNCHANGED cmd /\ CallAt(c, "decide")
    /\ UNCHANGED <<active, retained, shut, firsts, calls>>

(* The answer says killed, terminated, exited or terminating; only the     *)
(* last keeps the entry.                                                   *)
KillDecide(c) ==
    /\ call[c].pc = "decide"
    /\ LET i == call[c].id
           r == cmd[i]
       IN /\ cmd' = [cmd EXCEPT ![i] = [r EXCEPT !.seen = r.seen \/ Done(r)]]
          /\ firsts' = [firsts EXCEPT ![i] = @ + (IF Done(r) /\ ~r.seen THEN 1 ELSE 0)]
          /\ call' = [call EXCEPT ![c].pc = "retain",
                ![c].label = IF ~call[c].alive THEN "exited"
                          ELSE IF ~Done(r) THEN "terminating"
                          ELSE IF call[c].force THEN "killed" ELSE "terminated"]
    /\ UNCHANGED <<active, retained, shut, calls>>

(* close signals the active commands.                                      *)
Close(c) ==
    /\ call[c].pc = "free" /\ calls < MaxCalls /\ calls' = calls + 1
    /\ shut' = TRUE
    /\ cmd' = [i \in CommandIds |->
          IF i \notin active THEN cmd[i]
          ELSE IF Done(cmd[i]) THEN cmd[i]
          ELSE Signalled(i, Asked(cmd[i]), FALSE)]
    /\ UNCHANGED <<active, retained, call, firsts>>

-----------------------------------------------------------------------------
(* The watchdog looks every 20 ms, ends with a child that is gone, and     *)
(* after the deadline marks and then signals a child that it saw alive.    *)
(* The signal itself changes only what the child may do next, so that      *)
(* sending it is part of the mark.                                         *)
WatchdogSees(i) ==
    /\ cmd[i].watchdog = "watch" /\ Alive(i)
    /\ cmd' = [cmd EXCEPT ![i].watchdog = "mark"]
    /\ UNCHANGED <<active, retained, shut, call, firsts, calls>>

WatchdogMarksUnseen(i) ==
    /\ cmd[i].watchdog \in {"watch", "mark"}
    /\ cmd' = [cmd EXCEPT ![i] =
          [Signalled(i, Asked(cmd[i]), FALSE) EXCEPT !.timedOut = TRUE, !.watchdog = "ended"]]
    /\ UNCHANGED <<active, retained, shut, call, firsts, calls>>

WatchdogMarksOnly(i) ==
    /\ cmd[i].watchdog = "mark"
    /\ cmd' = [cmd EXCEPT ![i] = [Asked(cmd[i]) EXCEPT !.timedOut = TRUE, !.watchdog = "ended"]]
    /\ UNCHANGED <<active, retained, shut, call, firsts, calls>>

WatchdogMarks(i) ==
    /\ cmd[i].watchdog = "mark"
    /\ cmd' = [cmd EXCEPT ![i] =
          [Signalled(i, Asked(cmd[i]), FALSE) EXCEPT !.timedOut = TRUE, !.watchdog = "ended"]]
    /\ UNCHANGED <<active, retained, shut, call, firsts, calls>>

(* The child ends by itself, by a signal from elsewhere, or of ours.       *)
ChildEnds(i, how) ==
    /\ Alive(i)
    /\ cmd' = [cmd EXCEPT ![i].proc = how]
    /\ UNCHANGED <<active, retained, shut, call, firsts, calls>>

ChildDies(i) == cmd[i].doomed /\ ChildEnds(i, "signal")

Watchdog(i) == WatchdogSees(i) \/ WatchdogMarks(i)

ManagerNext ==
    \/ \E c \in Callers :
        \/ \E aged \in BOOLEAN :
            \/ StartCheck(c, aged) \/ Refused(c, aged)
            \/ \E i \in CommandIds, op \in {"poll", "kill"} : Get(c, op, i, aged)
        \/ SpawnFails(c) \/ Spawn(c) \/ Insert(c) \/ InputRefused(c) \/ Observe(c) \/ FormatAndRetain(c)
        \/ (\E hard \in BOOLEAN : KillMark(c, hard)) \/ KillAwait(c) \/ KillDecide(c)
        \/ Close(c)
    \/ \E i \in CommandIds :
        \/ Watchdog(i) \/ ChildDies(i)
        \/ \E how \in {"zero", "signal"} : ChildEnds(i, how)

ManagerSpec == ManagerInit /\ [][ManagerNext]_managerVars

-----------------------------------------------------------------------------
(* A running child can be polled and killed, or it was asked to end and    *)
(* ignores it: a call never loses the handle of a command left alone.      *)
NoOrphan ==
    \A i \in CommandIds : Alive(i) /\ ~Known(i) =>
        \/ cmd[i].asked
        \/ \E c \in Callers : call[c].pc = "insert" /\ call[c].id = i

(* The limit is compared before the child is started and the table changed *)
(* after: concurrent calls may pass it together, and no more than that. A  *)
(* command is counted or retained, never both.                             *)
ActiveBounded ==
    /\ Cardinality(active) < MaxActive + Cardinality(Callers)
    /\ IsInjective(retained) /\ active \cap ToSet(retained) = {}

(* The end of a command is news to one caller only, and what a caller was  *)
(* told about an end agrees with the child.                                *)
EndReportedOnce ==
    /\ \A i \in CommandIds : firsts[i] <= 1
    /\ \A c \in Callers :
        /\ call[c].label \in {"exited", "terminated", "killed"} => Done(cmd[call[c].id])
        /\ call[c].label = "terminated" /\ call[c].op # "kill" => cmd[call[c].id].proc = "signal"

(* An outcome once recorded stays, but for the watchdog that saw the child *)
(* alive after the deadline and marks it when it has gone: a command that  *)
(* ended just then turns from its exit code into a timeout.                *)
OutcomeStable ==
    [][\A i \in CommandIds : Done(cmd[i]) =>
        \/ Outcome(cmd'[i]) = Outcome(cmd[i])
        \/ cmd[i].watchdog = "mark" /\ Outcome(cmd'[i]) = "timeout"]_managerVars

(* A command that heeds SIGTERM ends, polled or not, killed or not: after  *)
(* the deadline the watchdog sees to it.                                   *)
CommandsEnd ==
    \A i \in CommandIds \ Stubborn : Alive(i) ~> ~Alive(i)

(* No command is left without a handle, passes the limit, reports its end  *)
(* twice or takes it back (ProcessManager).                                *)
CommandsAccounted ==
    /\ [](NoOrphan /\ ActiveBounded /\ EndReportedOnce)
    /\ OutcomeStable
=============================================================================
