\* As MCMulti, with QMP_change_address_multiple.
CONSTANTS
  n1 = n1
  n2 = n2
  h1 = h1
  h2 = h2
  h3 = h3
  h4 = h4
  r1 = r1
  r2 = r2
  r3 = r3
  r4 = r4
  b1 = b1
  b2 = b2
  Node = {n1}
  Handle = {h1, h2, h3, h4}
  Req = {r1, r2, r3}
  Buf = {b1, b2}
  v1 = v1
  v2 = v2
  Data = {v1}
  None = None
  HOwner <- AllHandles
  ROwner <- AllRequests
  Neigh <- Ring1
  Decls <- SelfRing
  Calls = {"change_address_multiple"}
  MaxStarts = 2
SPECIFICATION Spec
SYMMETRY SelfSymmetry
PROPERTIES
  StartStartsMembers
CHECK_DEADLOCK FALSE
