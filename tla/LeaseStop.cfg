SPECIFICATION Spec
CONSTANTS
  c1 = c1  c2 = c2  k1 = k1  k2 = k2  p1 = p1  p2 = p2  l1 = l1  l2 = l2
  NoObj = NoObj
  On <- AllOnOne
  Caller = {k1, k2}
  Poller = {}
  Listener = {l1}
  Conn = {c1}
  Obj = {1}
  Admin = {"stop"}
  Threshold = 2
  OpenTime = 2
  OpTimeout = 2
  BeatTimeout = 1
  RateMax = 2
  RateWindow = 2
  Cooldown = 1
  Base = 1
  DelayMax = 2
  Interval = 1
  MaxLag = 1
  RetryPause = 1
  MaxHold = 1
INVARIANTS
  ExclusiveLease
