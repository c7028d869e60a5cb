----------------------------- MODULE SandboxPlan -----------------------------
(***************************************************************************)
(* What a sandboxed command sees of the host. At the start the runtime     *)
(* derives the directories of the tools from PATH and the configuration,   *)
(* and has a probe inside a sandbox attest the plan; each later command,   *)
(* and each command of the helper that runs LaTeX, is planned anew from    *)
(* the host as it is by then and compiled into a sequence of mounts, where *)
(* a later mount covers an earlier one.                                    *)
(***************************************************************************)
EXTENDS Naturals, Sequences, SequencesExt, FiniteSets

CONSTANTS
    SearchPaths,      \* the values of PATH: sequences of directories
    ExplicitRoots,    \* the configured tool directories
    MaxHostChanges    \* bound on what others do to the host

VARIABLES
    host,      \* what the movable directories are: there, gone, or a link to another
    setup,     \* how the host is configured
    runtime,   \* what the runtime derived at its start
    box        \* the command that is being planned or run

sandboxVars == <<host, setup, runtime, box>>

(* The directories of the host.                                            *)
UserHome == <<"home", "u">>
Workspace == UserHome \o <<"project">>
State == UserHome \o <<"state">>
Tool == UserHome \o <<"tool">>
Product == <<"opt", "product">>
Kit == <<"workspace", "kit">>
WrapperDir == <<"srv", "wrappers">>
Resolver == <<"run", "resolve">>
Scratch == <<"tmp", "latex">>
SystemState == <<"usr", "state">>
Bin(d) == Append(d, "bin")

Directories ==
    {<<>>, <<"usr">>, <<"etc">>, <<"home">>, <<"opt">>, <<"srv">>, <<"tmp">>, <<"run">>, <<"workspace">>,
     UserHome, Workspace, State, Tool, Product, Kit, WrapperDir, Resolver, Scratch, SystemState,
     Bin(<<"usr">>), Bin(UserHome), Bin(Tool), Bin(Product)}

UnsafeExactRoots == {<<>>, <<"home">>, <<"opt">>, <<"srv">>, <<"tmp">>, <<"run">>}
SystemPrefixes == {<<"usr">>}
SystemReadRoots == {<<"usr">>, <<"etc">>}
Movable == {Tool, Product}

(* A wrapper directory holds a link to a program of the product.           *)
Executables == {[at |-> WrapperDir, real |-> Bin(Product)]}

Within(p, dir) == IsPrefix(dir, p)
Overlaps(p, q) == Within(p, q) \/ Within(q, p)

(* canonicalize: a path is followed through the one link on its way.       *)
Nowhere == <<"nowhere">>
Real(h, p) ==
    IF \E q \in Movable : Within(p, q) /\ h[q] # q
    THEN LET q == CHOOSE q \in Movable : Within(p, q) IN IF h[q] = Nowhere THEN Nowhere ELSE h[q] \o SubSeq(p, Len(q) + 1, Len(p))
    ELSE p
IsDir(h, p) == Real(h, p) \in Directories

SandboxInit ==
    /\ host = [q \in Movable |-> q]
    /\ \E f \in {State, SystemState}, p \in SearchPaths, e \in ExplicitRoots, r \in {"file", "runtime", "elsewhere"} :
          setup = [forbidden |-> f, path |-> p, explicit |-> e, resolver |-> r]
    /\ runtime = [pc |-> "start", roots |-> {}, path |-> {}]
    /\ box = [pc |-> "idle"]

-----------------------------------------------------------------------------
(* RootPolicy: a tool directory keeps off broad directories, the home, the *)
(* workspace and the data of the program. What is below a system prefix is *)
(* mounted anyway.                                                         *)
Denied(r) == r \in UnsafeExactRoots \/ r = UserHome \/ Overlaps(r, Workspace) \/ Overlaps(r, setup.forbidden)
IsSystem(r) == \E s \in SystemPrefixes : Within(r, s)
Accepts(h, p) == IsDir(h, p) /\ ~Denied(Real(h, p)) /\ ~IsSystem(Real(h, p))

ExecutablePrefix(p) == IF p # <<>> /\ Last(p) = "bin" THEN Front(p) ELSE p

(* The directory above a bin directory if the policy takes it, or else the *)
(* bin directory itself.                                                   *)
RootsFor(h, p) ==
    LET prefix == ExecutablePrefix(Real(h, p))
    IN IF Accepts(h, prefix) THEN {Real(h, prefix)} ELSE IF Accepts(h, p) THEN {Real(h, p)} ELSE {}

SearchEntries(h) == {p \in ToSet(setup.path) : IsDir(h, p)}
SystemEntries(h) == {Real(h, p) : p \in {q \in SearchEntries(h) : IsSystem(Real(h, q))}}
ToolEntries(h) == {p \in SearchEntries(h) : ~IsSystem(Real(h, p)) /\ RootsFor(h, p) # {}}

Collapse(roots) == {r \in roots : ~\E q \in roots : q # r /\ Within(r, q)}

(* discover_path_view: the directories of PATH, and those their links to   *)
(* programs lead to.                                                       *)
Discovered(h) ==
    UNION {RootsFor(h, p) \cup UNION {RootsFor(h, x.real) : x \in {y \in Executables : y.at = Real(h, p)}} :
           p \in ToolEntries(h)}

ExplicitRootsOf(h) == Collapse({Real(h, e) : e \in {x \in setup.explicit : Accepts(h, x)}})
ExplicitEntries(h) == UNION {{r} \cup ({Bin(r)} \cap Directories) : r \in ExplicitRootsOf(h)}

(* The PATH of the commands: what is left of the PATH of the start, or the *)
(* default, and the configured directories.                                *)
SandboxPath(h) ==
    LET inherited == SystemEntries(h) \cup {Real(h, p) : p \in ToolEntries(h)}
    IN (IF inherited = {} THEN {Bin(<<"usr">>)} ELSE inherited) \cup ExplicitEntries(h)

(* build_toolchain_exposure_plan: a configured directory that is missing   *)
(* or denied refuses the start; one of PATH is passed over.                *)
Expose ==
    /\ runtime.pc = "start"
    /\ IF \E e \in setup.explicit : ~IsDir(host, e) \/ Denied(Real(host, e))
       THEN runtime' = [runtime EXCEPT !.pc = "refused"]
       ELSE runtime' =
              [pc    |-> "attest",
               roots |-> Collapse(Discovered(host) \cup ExplicitRootsOf(host)),
               path  |-> SandboxPath(host)]
    /\ UNCHANGED <<host, setup, box>>

-----------------------------------------------------------------------------
Mount(at, kind, from) == [at |-> at, kind |-> kind, from |-> from]
Bound(p) == Mount(p, "read", p)
Fresh(p) == Mount(p, "fresh", Nowhere)

(* build_bubblewrap_command: the order of the mounts. The directories that *)
(* lead to a mount are made as it is mounted.                              *)
Mounts(roots, shared, workspace) ==
    [i \in 1..Cardinality(SystemReadRoots) |-> Bound(SetToSeq(SystemReadRoots)[i])]
    \o <<Fresh(<<"tmp">>), Fresh(<<"home", "re-ctm">>)>>
    \o (IF shared /\ setup.resolver = "runtime" THEN <<Bound(Resolver)>> ELSE <<>>)
    \o [i \in 1..Cardinality(roots) |-> Bound(SetToSeq(roots)[i])]
    \o <<Mount(<<"workspace">>, "write", workspace)>>

(* What path p is inside: the last mount above it decides.                 *)
Covering(ms, p) == {i \in DOMAIN ms : Within(p, ms[i].at)}
Inside(h, ms, p) ==
    LET above == Covering(ms, p)
        i == CHOOSE j \in above : \A k \in above : k <= j
        madeSince(n) == \E k \in DOMAIN ms : k >= n /\ Within(ms[k].at, p)
    IN IF above = {} THEN madeSince(1)
       ELSE IF ms[i].kind = "fresh" THEN madeSince(i)
       ELSE IsDir(h, ms[i].from \o SubSeq(p, Len(ms[i].at) + 1, Len(p)))

PlanRefusedByName(h, roots, shared, workspace) ==
    \/ Overlaps(setup.forbidden, workspace)
    \/ \E r \in roots : Real(h, r) = Nowhere
    \/ \E r \in roots : r \in UnsafeExactRoots \/ Overlaps(r, workspace) \/ Overlaps(r, setup.forbidden)
    \/ shared /\ setup.resolver = "elsewhere"

(* validate_helper_roots: the directories are looked up again, one that is *)
(* none or is named twice is dropped.                                      *)
PlannedRoots(h, roots) == {Real(h, r) : r \in {q \in roots : IsDir(h, q)}}
PlanRefused(h, roots, shared, workspace) ==
    \/ Overlaps(setup.forbidden, workspace)
    \/ \E r \in roots : Real(h, r) = Nowhere
    \/ \E r \in PlannedRoots(h, roots) :
          r \in UnsafeExactRoots \/ Overlaps(r, workspace) \/ Overlaps(r, setup.forbidden)
    \/ shared /\ setup.resolver = "elsewhere"

PlanOf(shared, workspace) ==
    [mounts |-> Mounts(PlannedRoots(host, runtime.roots), shared, workspace),
     count  |-> Cardinality(PlannedRoots(host, runtime.roots)),
     shared |-> shared, host |-> host, workspace |-> workspace]

(* The probe looks from inside: the data of the program must not be there, *)
(* all tool directories must.                                              *)
ProbePasses(plan) ==
    /\ ~Inside(host, plan.mounts, setup.forbidden)
    /\ \A r \in runtime.roots : Inside(host, plan.mounts, r)

Attest ==
    /\ runtime.pc = "attest"
    /\ LET plan == PlanOf(TRUE, Workspace)
           passes == /\ ~PlanRefused(host, runtime.roots, TRUE, Workspace)
                     /\ ProbePasses(plan)
                     /\ plan.count = Cardinality(runtime.roots)
       IN runtime' = [runtime EXCEPT !.pc = IF passes THEN "serving" ELSE "refused"]
    /\ UNCHANGED <<host, setup, box>>

-----------------------------------------------------------------------------
(* prepare_authority_exec for a command with the network of the host,      *)
(* run_fixed_helper_in_workspace for one without.                          *)
Prepare(shared, workspace) ==
    /\ runtime.pc = "serving" /\ box.pc = "idle"
    /\ box' = IF PlanRefused(host, runtime.roots, shared, workspace) THEN [pc |-> "refused"]
              ELSE [pc |-> "planned", plan |-> PlanOf(shared, workspace), timedOut |-> FALSE, alive |-> TRUE]
    /\ UNCHANGED <<host, setup, runtime>>

PrepareExec == Prepare(TRUE, Workspace)
PrepareHelper == Prepare(FALSE, Scratch)

Boxed(pc) == box.pc = pc /\ UNCHANGED <<host, setup, runtime>>

(* run_in_sandbox: past the deadline the group is told to end, and killed  *)
(* when it does not.                                                       *)
CommandEnds == Boxed("planned") /\ box' = [box EXCEPT !.pc = "ended", !.alive = FALSE]
Deadline == Boxed("planned") /\ box' = [box EXCEPT !.pc = "term", !.timedOut = TRUE]
EndsLate == Boxed("term") /\ box' = [box EXCEPT !.pc = "ended", !.alive = FALSE]

(* validate_helper_response: the number of tool directories must be the    *)
(* one of the start.                                                       *)
HelperAnswers ==
    /\ Boxed("ended") /\ ~box.plan.shared
    /\ box' = [box EXCEPT !.pc = IF box.plan.count = Cardinality(runtime.roots) THEN "answered" ELSE "rejected"]

(* Others remove a tool directory or put a link in its place.              *)
Moves == Cardinality({q \in Movable : host[q] # q})
HostChange(q, to) ==
    /\ host[q] = q /\ Moves < MaxHostChanges /\ box.pc = "idle"
    /\ host' = [host EXCEPT ![q] = to]
    /\ UNCHANGED <<setup, runtime, box>>

SandboxNext ==
    \/ Expose \/ Attest \/ PrepareExec \/ PrepareHelper
    \/ CommandEnds \/ Deadline \/ EndsLate \/ HelperAnswers
    \/ \E q \in Movable, to \in {Nowhere, UserHome, State, WrapperDir} : HostChange(q, to)

SandboxSpec == SandboxInit /\ [][SandboxNext]_sandboxVars

-----------------------------------------------------------------------------
Planned == box.pc \in {"planned", "term", "ended", "answered", "rejected"}
Plan == box.plan

(* A command sees nothing of the program's own data at any place, and can  *)
(* write to its workspace only, also when a tool directory has become a    *)
(* link since the start (plan_sandbox, attest).                            *)
DataHidden ==
    Planned =>
        /\ \A i \in DOMAIN Plan.mounts :
              Plan.mounts[i].kind # "fresh" => ~Overlaps(Plan.mounts[i].from, setup.forbidden)
        /\ \A i \in DOMAIN Plan.mounts :
              Plan.mounts[i].kind = "write" <=> Plan.mounts[i].from = Plan.workspace

(* What the PATH of the start leads to. The mount of the workspace hides   *)
(* what the host has in a directory of that name, below a tool directory   *)
(* that the probe finds there too.                                         *)
SearchedTools == {Real(host, p) : p \in ToolEntries(host)}
HiddenByWorkspace(p) == Within(p, <<"workspace">>)

(* While the tool directories are what they were at the start, a command   *)
(* finds every directory of the PATH it is given, the programs the links   *)
(* in those of the start's PATH lead to, and the resolver of the host when *)
(* it has its network.                                                     *)
ToolsReachable ==
    Planned /\ Moves = 0 =>
        /\ \A p \in runtime.path : HiddenByWorkspace(p) \/ Inside(host, Plan.mounts, p)
        /\ \A x \in Executables :
              x.at \in SearchedTools /\ RootsFor(host, x.real) # {} => Inside(host, Plan.mounts, x.real)
        /\ Plan.shared /\ setup.resolver = "runtime" => Inside(host, Plan.mounts, Resolver)

(* An answer of the helper comes from a process that is gone and from a    *)
(* sandbox with a directory of its own for each of the tool directories,   *)
(* none of them merged or dropped since the start.                         *)
HelperAnswersComplete ==
    box.pc = "answered" =>
        /\ ~box.alive
        /\ \A r, q \in runtime.roots : r # q => Real(Plan.host, r) # Real(Plan.host, q)
        /\ \A r \in runtime.roots : Inside(Plan.host, Plan.mounts, Real(Plan.host, r))

(* A command in a sandbox sees its tools and its workspace, and nothing of *)
(* the program's data, whatever became of the tool directories.            *)
SandboxSound ==
    /\ DataHidden
    /\ ToolsReachable
    /\ HelperAnswersComplete
=============================================================================
