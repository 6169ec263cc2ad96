CONSTANTS
  Ids = {i1, i2, i3}
  Clients = {c1, c2}
  NoId = NoId
  MayRemove = FALSE
SPECIFICATION Spec
INVARIANT AtMostOneDefault
