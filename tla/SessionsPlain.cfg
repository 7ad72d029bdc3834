\* Namespace mode with everything that can happen to it.
CONSTANTS
  p1 = p1
  p2 = p2
  Nobody = Nobody
  Procs = {p1, p2}
  Modes = {"plain"}
  Features = {"fail", "survivors", "background", "chrootcmd", "detach", "sweep", "kill", "unmount", "crash"}
  MaxCount = 3
SPECIFICATION Spec
INVARIANT TypeOK
PROPERTIES  UnmountClean
SYMMETRY Symmetry
