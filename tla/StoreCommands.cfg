\* Every command, failing and dying anywhere, removals entry by entry.
CONSTANTS
  p1 = p1
  p2 = p2
  c1 = c1
  c2 = c2
  c3 = c3
  None = None
  Procs = {p1, p2}
  Names = {1, 2}
  Containers = {c1, c2, c3}
  Commands <- AllCommands
  Features = {"fail", "crash"}
  Piecemeal = TRUE
SPECIFICATION Spec
SYMMETRY Symmetry
INVARIANT TypeOK
PROPERTIES  RefinesCatalog
