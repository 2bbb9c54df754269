SPECIFICATION StallSpec
CONSTANTS
  a = a  b = b  c = c  p = p  t = t  k1 = k1  p2 = p2
  Sink = Sink  Ingress = Ingress  NoPort = NoPort
  Node = {a, b, c}
  Trigger = {t}
  Client = {k1}
  Pure = {}
  DropEdge = {1}
  DataOut = {a}
  Data = {1, 2, 3, 4}
  Edge = {1, 2, 3, 4, 5, 6}
  Src <- FanSrc
  Dst <- FanDst
  Port <- FanPort
  Owner <- FanOwner
  Buffer <- Caps1
  MaxOutputs = 1
  Reserve = 2
INVARIANTS
  RefsAccounted
PROPERTIES
  ImplementsFanOut
  StallsIsolated
