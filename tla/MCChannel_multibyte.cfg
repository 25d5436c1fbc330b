CONSTANTS
  c1 = c1
  c2 = c2
  NULL = NULL
  Names <- MultibyteNames
  Clients = {c1, c2}
  MaxSends = 2
SPECIFICATION Spec
INVARIANTS
  NamesAccepted
