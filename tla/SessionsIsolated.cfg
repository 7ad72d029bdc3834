\* Three maximum-isolation sessions that nobody signals, kills or unmounts.
CONSTANTS
  p1 = p1
  p2 = p2
  p3 = p3
  Nobody = Nobody
  Procs = {p1, p2, p3}
  Modes = {"maxiso"}
  Features = {"fail", "background", "chrootcmd"}
  MaxCount = 3
SPECIFICATION Spec
INVARIANTS  LastOutTearsDown
 
SYMMETRY Symmetry
