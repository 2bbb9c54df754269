SPECIFICATION Spec
CONSTANTS
  a = a  b = b  c = c  p = p  t = t  k1 = k1  p2 = p2
  Sink = Sink  Ingress = Ingress  NoPort = NoPort
  Node = {a, b, c}
  Trigger = {}
  Client = {k1}
  Pure = {}
  DropEdge = {2}
  DataOut = {}
  Data = {1, 2, 3, 4}
  Edge = {1, 2, 3, 4, 5, 6}
  Src <- FanSrc
  Dst <- FanDst
  Port <- FanPort
  Owner <- NoOwner
  Buffer <- Caps1
  MaxOutputs = 1
  Reserve = 0
INVARIANTS
  QueuedRefReadable
CHECK_DEADLOCK FALSE
