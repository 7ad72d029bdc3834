\* Two builds or sweeps, none of which begins a build under a sweep.
CONSTANTS
  p1 = p1
  p2 = p2
  r1 = r1
  r2 = r2
  l1 = l1
  l2 = l2
  l3 = l3
  t1 = t1
  t2 = t2
  None = None
  Procs = {p1, p2}
  Recipes = {r1, r2}
  Layers = {l1, l2, l3}
  Tags = {t1, t2}
  Forms = {"drop", "prune"}
  LateStart = FALSE
  MaxSteps = 2
SPECIFICATION Spec
SYMMETRY Symmetry
INVARIANTS TypeOK ImagesComplete
PROPERTIES RecordedBacked NoUpdateLost
