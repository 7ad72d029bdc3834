\* Host mode under fairness: who waits for sessions.lock gets on.
CONSTANTS
  p1 = p1
  p2 = p2
  Nobody = Nobody
  Procs = {p1, p2}
  Modes = {"host"}
  Features = {"fail", "chrootcmd", "kill", "unmount", "crash"}
  MaxCount = 3
SPECIFICATION FairSpec
PROPERTY EveryoneGetsOut
