------------------------------- MODULE MCHost -------------------------------
(***************************************************************************)
(* The components that share no state with each other, checked side by     *)
(* side: a behaviour chooses at the start the one that runs.               *)
(***************************************************************************)
EXTENDS
    NativeExec, CommandFacts, TextEdits, PatchCommit, Deployment,
    WorkspaceReads, SandboxPlan, LatexGate, ReleaseCutover

VARIABLE focus

vars == <<focus, execVars, factsVars, patchVars, editVars, ignoreVars, commitVars,
          deployVars, readVars, searchVars, sandboxVars, latexVars,
          cutoverVars>>

Change(n, k) == [name |-> n, kind |-> k]
MCPatches == {<<Change("a", "write"), Change("b", "create")>>, <<Change("a", "delete"), Change("b", "create")>>,
              <<Change("a", "check"), Change("b", "write")>>, <<Change("a", "write"), Change("b", "write")>>}
MCCommands == {<<"p">>, <<"p", "q">>}
MCLong == {<<"p">>}
MCSearchPaths ==
    {<<>>, <<Bin(<<"usr">>), Bin(Tool)>>, <<WrapperDir>>, <<Kit, Bin(UserHome)>>,
     <<State, Workspace, Bin(Tool), WrapperDir>>}
MCExplicitRoots == {{}, {Tool}, {Product, Kit}, {UserHome}, {WrapperDir}, {<<"workspace">>}}

Init ==
    /\ focus \in {"exec", "facts", "patch", "edits", "ignore", "commit",
                  "deployment", "read", "search", "sandbox", "latex",
                  "cutover"}
    /\ ExecInit
    /\ focus # "exec" => disk = Stocked
    /\ FactsInit
    /\ PatchInit
    /\ EditInit
    /\ focus # "edits" => ends = <<>>
    /\ IgnoreInit
    /\ focus # "ignore" => meta["config"] = 0
    /\ CommitInit
    /\ focus # "commit" => files["b"] = 0
    /\ DeployInit
    /\ focus # "deployment" => selected = [s \in Selectors |-> "file"]
    /\ ReadInit
    /\ focus # "read" => text = <<>>
    /\ SearchInit
    /\ focus # "search" => tree[<<"a">>] = "text0" /\ tree[<<"d">>] = "dir"
    /\ SandboxInit
    /\ focus # "sandbox" => setup = [forbidden |-> State, path |-> <<>>, explicit |-> {}, resolver |-> "file"]
    /\ LatexInit
    /\ CutoverInit

Runs(c) == focus = c /\ UNCHANGED focus

(* Every component but c keeps its state.                                  *)
Rest(c) ==
    /\ IF c = "exec" THEN TRUE ELSE UNCHANGED execVars
    /\ IF c = "facts" THEN TRUE ELSE UNCHANGED factsVars
    /\ IF c = "patch" THEN TRUE ELSE UNCHANGED patchVars
    /\ IF c = "edits" THEN TRUE ELSE UNCHANGED editVars
    /\ IF c = "ignore" THEN TRUE ELSE UNCHANGED ignoreVars
    /\ IF c = "commit" THEN TRUE ELSE UNCHANGED commitVars
    /\ IF c = "deployment" THEN TRUE ELSE UNCHANGED deployVars
    /\ IF c = "read" THEN TRUE ELSE UNCHANGED readVars
    /\ IF c = "search" THEN TRUE ELSE UNCHANGED searchVars
    /\ IF c = "sandbox" THEN TRUE ELSE UNCHANGED sandboxVars
    /\ IF c = "latex" THEN TRUE ELSE UNCHANGED latexVars
    /\ IF c = "cutover" THEN TRUE ELSE UNCHANGED cutoverVars

Next ==
    \/ Runs("exec") /\ ExecNext /\ Rest("exec")
    \/ Runs("facts") /\ FactsNext /\ Rest("facts")
    \/ Runs("patch") /\ PatchNext /\ Rest("patch")
    \/ Runs("edits") /\ EditNext /\ Rest("edits")
    \/ Runs("ignore") /\ IgnoreNext /\ Rest("ignore")
    \/ Runs("commit") /\ CommitNext /\ Rest("commit")
    \/ Runs("deployment") /\ DeployNext /\ Rest("deployment")
    \/ Runs("read") /\ ReadNext /\ Rest("read")
    \/ Runs("search") /\ SearchNext /\ Rest("search")
    \/ Runs("sandbox") /\ SandboxNext /\ Rest("sandbox")
    \/ Runs("latex") /\ LatexNext /\ Rest("latex")
    \/ Runs("cutover") /\ CutoverNext /\ Rest("cutover")

Spec == Init /\ [][Next]_vars

-----------------------------------------------------------------------------
(* The edits of a text do what was asked: a patch and a list of line edits *)
(* change the lines they name and no others.                               *)
EditsExact ==
    /\ focus = "patch" => PatchExact
    /\ focus = "edits" => LineEditsExact

(* A text is judged by what it will do: the candidates of a shell line     *)
(* cover every command it runs, and the LaTeX gate reads a text as TeX     *)
(* does, or refuses it, and passes nothing it or the compiler objects to.  *)
TextsJudged ==
    /\ focus = "facts" => CandidatesCoverRuns
    /\ focus = "latex" => ScanAgrees /\ GateHonest
=============================================================================
