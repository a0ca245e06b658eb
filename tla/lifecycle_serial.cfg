SPECIFICATION Spec
CONSTANTS
  p1 = p1
  p2 = p2
  Procs = {p1}
  NoProc = NoProc
  r1 = r1
  r2 = r2
  Runs = {r1, r2}
  NoRun = NoRun
  NumClients = 2
  ClientOf <- TwoClients
  Keys = {k1}
  Interval = 1
  Timeout = 1
  AgeCap = 2
  MaxDeliveries = 2
INVARIANTS SnapshotsOnce FailedHasNoTable
PROPERTIES NoRevival LedgerSpec
