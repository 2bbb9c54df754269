SPECIFICATION MCSpec
CONSTANTS
  Parts <- MCParts
  level = level  other = other  text = text  s1 = s1  s2 = s2
  Workflows = {f1, f2}
  Commands = {k1, k2}
  DeployBound = 3
  Pids = {1, 2, 3}
  FileCommands = {g1, g2}
  Projects = {j1, j2}
  SpecChoices <- MCSpecs
  CapabilitiesOf <- MCCapabilities
  KnownDevices = {"d1"}
  NameOrder <- MCNameOrder
  SmMessages <- MCMessages
  SmForeign <- MCForeign
  Editors = {e1, e2}
  Tokens = {t1}
  Project = Project  Home = Home
  Kinds = {"device", "capability", "connection"}
  Signals = {s1}
  Links = {l1}
  Asset = a0  Others = {a1}  ForeignVersion = 1
  Drafts <- MCDrafts
  Spoilt = Spoilt  Missing = Missing  NoLink = NoLink  Rejected = Rejected  NoCall = NoCall
  MaxSnapshots = 2
  Lifetime = 1
  MaxCommands = 3
  MaxFaults = 1
INVARIANTS
  ShellSound
  SessionFilesSound
  CompilerSound
  AssetsSound
PROPERTIES
  WorkKept
CHECK_DEADLOCK FALSE
