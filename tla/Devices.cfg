SPECIFICATION MCSpec
CONSTANTS
  Parts <- MCParts
  x = x  y = y  z = z  junk = junk
  Nodes = {n1}
  Hearer = {h1}
  Guards = {g1}
  SessionIds = {1, 2, 3, 4}
  LockIds = {1, 2, 3}
  CanReaders = {"r1", "r2"}
  CanFilterOf <- MCCanFilterOf
  CanSends <- MCCanSends
  CanNoise <- MCCanNoise
  CanLines = 2
  GraphNodes = {"t", "m", "p"}
  Inputs <- MCInputs
  Outputs <- MCOutputs
  EdgeChoices <- MCEdgeChoices
  Triggers = {"t", "m"}
  Base = 4
  Callers = {"k1", "k2"}
  Symbols <- MCSymbols
  Names = {x, y, z}
  CapCalls <- MCCapCalls
  CapVariables <- MCCapVariables
  Units = {1, 2}
  Registers = {0, 1, 2, 3}
  ImageSize = 4
  FlowNode = {"n1", "n2"}
  FlowConfigs <- MCFlowConfigs
  MaxOperations = 4
  MaxIterations = 3
  Spoilt = Spoilt
  SerialConfigs <- MCSerialConfigs
  SerialChunks <- MCSerialChunks
  MaxReceived = 3
  MaxOpens = 2
  ListenConfigs <- MCListenConfigs
  Messages <- MCMessages
  RequestCap = 4
  MaxMessages = 2
INVARIANTS
  SessionSound
  CanSound
  DeploySound
  CallsSound
  FlowSound
  SerialSound
  SignalSound
PROPERTIES
  DevicesAnswer
CHECK_DEADLOCK FALSE
