SPECIFICATION Spec
CONSTANTS
  ExecCallers = {e1}
  Programs = {"p", "q"}
  PathEntries = 2
  Commands <- MCCommands
  LongTimeout <- MCLong
  MaxFileChanges = 2
  MaxChunks = 4
  MaxFileLines = 3
  MaxLines = 5
  MaxOriginal = 3
  MaxEdits = 2
  PatchPaths = 2
  MaxAttempts = 3
  MaxMetaChanges = 3
  PatchCalls = {t1, t2}
  Patches <- MCPatches
  MaxOutside = 1
  MaxFaults = 1
  Selectors = {1, 2}
  Releases = {"r1", "r2"}
  Originals = {"missing", "file"}
  MaxFailures = 2
  MaxUserEdits = 1
  MaxChars = 3
  MaxPageBytes = 3
  MaxTextWrites = 1
  SearchCap = 2
  MaxTreeChanges = 2
  SearchPaths <- MCSearchPaths
  ExplicitRoots <- MCExplicitRoots
  MaxHostChanges = 2
  MaxLexemes = 4
  Rollouts = {o1, o2}
  MaxRollouts = 3
  MaxCutFaults = 2
INVARIANTS ExecutionInspected FactsOfOneMoment EditsExact PatchKeepsFiles ReadsExact SandboxSound TextsJudged
PROPERTIES ImplementsSwitch ReleasesHonest
CHECK_DEADLOCK FALSE
