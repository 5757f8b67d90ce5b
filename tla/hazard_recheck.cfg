CONSTANTS
  a = a
  b = b
  Refs = {a, b}
  Pages = {p1, p2, p3}
  Cursors = {c1, c2}
  Evictors = {e1}
  NoRef = NoRef
  NoPage = NoPage
  Parent <- MCParent
SPECIFICATION Spec
SYMMETRY Symm
INVARIANTS HeldPagesStay
CHECK_DEADLOCK FALSE
