SPECIFICATION Spec
CONSTANTS
  p1 = p1
  p2 = p2
  Procs = {p1, p2}
  NoProc = NoProc
  r1 = r1
  r2 = r2
  Runs = {r1, r2}
  NoRun = NoRun
  NumClients = 1
  ClientOf <- OneClient
  Keys = {k1}
  Interval = 1
  Timeout = 0
  AgeCap = 1
  MaxDeliveries = 2
INVARIANT SnapshotsOnce
