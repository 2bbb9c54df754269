SPECIFICATION Spec
CONSTANTS
  c1 = c1  c2 = c2  k1 = k1  k2 = k2  p1 = p1  p2 = p2  l1 = l1  l2 = l2
  NoObj = NoObj
  On <- AllOnOne
  Caller = {}
  Poller = {}
  Listener = {l1}
  Conn = {c1, c2}
  Obj = {1, 2, 3}
  Admin = {"upsert", "replace", "idle", "reset", "stop", "invalid"}
  Threshold = 1
  OpenTime = 1
  OpTimeout = 1
  BeatTimeout = 0
  RateMax = 1
  RateWindow = 1
  Cooldown = 1
  Base = 1
  DelayMax = 1
  Interval = 1
  MaxLag = 1
  RetryPause = 1
  MaxHold = 1
INVARIANTS
  TypeOK
  PhaseEnds
