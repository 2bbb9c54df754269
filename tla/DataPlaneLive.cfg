SPECIFICATION FairSpec
CONSTANTS
  a = a  b = b  c = c  p = p  t = t  k1 = k1  p2 = p2
  Sink = Sink  Ingress = Ingress  NoPort = NoPort
  Node = {a, b}
  Trigger = {t}
  Client = {k1}
  Pure = {}
  DropEdge = {}
  DataOut = {}
  Data = {1, 2, 3, 4, 5}
  Edge = {1, 2, 3, 4}
  Src <- TriggerSrc
  Dst <- TriggerDst
  Port <- TriggerPort
  Owner <- TriggerOwner
  Buffer <- Caps1
  MaxOutputs = 1
  Reserve = 3
PROPERTIES
  FanOutsEnd
  CascadeStops
  DrainsToEmpty
CHECK_DEADLOCK FALSE
