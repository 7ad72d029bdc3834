CONSTANTS
  p1 = p1
  p2 = p2
  s1 = s1
  s2 = s2
  Procs = {p1}
  Segments = {s1, s2}
  SegLen = 2
  Kinds = {"blob", "file"}
  Features = {"crash", "sigint", "range", "http", "short"}
  MaxRetries = 1
  MaxReconnects = 1
  MaxJunk = 1
  MaxRuns = 2
SPECIFICATION FairSpec
INVARIANTS TypeOK CachedMeansVerified SegmentsInPlace
PROPERTIES ProgressKept DownloadEnds
