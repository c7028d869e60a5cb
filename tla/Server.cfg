SPECIFICATION Spec
CONSTANTS
  Starters = {t1, t2}
  CreationKeys = {k1}
  CreationInputs = {"p", "q"}
  RunIds = {1, 2}
  InitFiles = {1, 2}
  MaxReceipts = 1
  MaxCreationFaults = 2
  Executors = {x1, x2}
  Proposals = {"p", "q"}
  SlotList <- MCSlots
  MaxEffectEpoch = 1
  MaxStamp = 1
  MaxNotes = 2
  MaxSlots = 2
  TokenHandlers = {h1, h2}
  ClientIds = {1, 2}
  CodeIds = {1, 2}
  Proofs = {"p1", "p2"}
  Origins = {"o1", "o2"}
  FixedOrigin = "none"
  ResourceKinds = {"mcp"}
  MaxClients = 2
  CodeTtl = 0
  TokenTtl = 1
  MaxClock = 1
  McpHandlers = {g1}
  Callers = {c1, c2}
  CommandIds = {1, 2}
  MaxActive = 1
  MaxRetained = 1
  MaxCalls = 3
  Stubborn = {1}
  BufferLimit = 5
  HeadLimit = 2
  StreamEnd = 9
  PreviewLimit = 3
  CharWidth <- MCCharWidth
  RefusedSecond <- MCRefuses
  TunnelOrigins = {"o1", "o2"}
  MaxLines = 3
  MaxStarts = 2
  NativeCallers = {n1, n2}
  Slots = {"s1", "s2", "s3"}
  Works = {"a", "b"}
  ReplayCapacity = 2
  MaxWrites = 3
  Processes = {o1, o2}
  FirstVersions = {0, 1, 2, 7}
  MaxAttempts = 3
  MaxStartFaults = 2
INVARIANTS CreatedOnce RepliesSound OutputExact TunnelEventsOrdered WritesRemembered
PROPERTIES ActionsRepeatable GrantsSound CommandsAccounted
CHECK_DEADLOCK FALSE
