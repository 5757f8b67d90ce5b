CONSTANTS
  a = a
  b = b
  Refs = {a, b}
  Pages = {p1, p2, p3}
  Cursors = {c1, c2}
  Evictors = {e1, e2}
  NoRef = NoRef
  NoPage = NoPage
  Parent <- MCParent
SPECIFICATION Spec
SYMMETRY Symm
INVARIANTS IInv HeldPagesStayUnlessRaced ServerPointersLive ParentsInMemory
CONSTRAINT NotRaced
