\* Every command but restore; a removal of a tree takes effect at once.
CONSTANTS
  p1 = p1
  p2 = p2
  c1 = c1
  c2 = c2
  c3 = c3
  None = None
  Procs = {p1, p2}
  Names = {1, 2}
  Containers = {c1, c2, c3}
  Commands <- AllButRestore
  Features = {"fail", "crash"}
  Piecemeal = FALSE
SPECIFICATION Spec
SYMMETRY Symmetry
INVARIANT MarkerTells
PROPERTY NothingLost
