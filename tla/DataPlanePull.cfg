SPECIFICATION RunningSpec
CONSTANTS
  a = a  b = b  c = c  p = p  t = t  k1 = k1  p2 = p2
  Sink = Sink  Ingress = Ingress  NoPort = NoPort
  Node = {a, b, p}
  Trigger = {}
  Client = {k1}
  Pure = {p}
  DropEdge = {}
  DataOut = {}
  Data = {1, 2, 3, 4}
  Edge = {1, 2, 3, 4, 5, 6}
  Src <- PullSrc
  Dst <- PullDst
  Port <- PullPort
  Owner <- NoOwner
  Buffer <- Caps1
  MaxOutputs = 1
  Reserve = 0
INVARIANTS
  RunnersAlive
CHECK_DEADLOCK FALSE
