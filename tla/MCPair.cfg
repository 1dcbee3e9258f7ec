\* Two nodes, two individual handles each, one channel, rounds of send/receive.
CONSTANTS
  n1 = n1
  n2 = n2
  h1 = h1
  h2 = h2
  h3 = h3
  h4 = h4
  r1 = r1
  r2 = r2
  r3 = r3
  r4 = r4
  b1 = b1
  b2 = b2
  Node = {n1, n2}
  Handle = {h1, h2, h3, h4}
  Req = {r1, r2, r3, r4}
  Buf = {b1, b2}
  v1 = v1
  v2 = v2
  Data = {v1, v2}
  None = None
  HOwner <- TwoHandles
  ROwner <- TwoRequests
  Neigh <- NoNeigh
  Decls <- OneWay
  Calls = {"change_address"}
  MaxStarts = 2
SPECIFICATION Spec
SYMMETRY PairSymmetry
INVARIANTS
  TypeOK
  DataDelivered
  ChannelsDrain
CHECK_DEADLOCK FALSE
