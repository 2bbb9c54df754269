SPECIFICATION MCSpec
CONSTANTS
  Parts <- MCParts
  c1 = c1
  c2 = c2
  Consumers = {c1, c2}
  DataInEdges <- MCDataInEdges
  PullTraces = {t1}
  CacheValues = {1}
  CacheTtl = 0
  BlockTimeout = 1
  VarNodes = {w1}
  IpcCommands = {w2}
  Watchers = {u1}
  VarValues = {0, 1, 2}
  IntValues = {0, 1}
  VarCap = 1
  EventCap = 1
  Instances = {1, 2}
  AskIds = {1, 2}
  AskQueue = 1
  Dispatches = {d1, d2}
  RootCount = 2
  Policies <- MCPolicies
  EdgeCap = 2
  EdgePolicy = "dropNewest"
  StreamCap = 1
  OfferBound = 6
  Stages = {s1, s2}
  RecordBound = 4
  ChannelCap = 2
  FlushCap = 2
  QueryLimit = 3
  IoThreshold = 3
  IoOpenTime = 2
INVARIANTS
  PullSound
  VariablesSound
  ApprovalsSound
  LaneSound
  WindowSound
  RecordsSound
  OutcomesSound
PROPERTIES
  RuntimeAnswers
CHECK_DEADLOCK FALSE
