SPECIFICATION FairSpec
CONSTANTS
  Devices = {d1, d2}
  IdleDevices = {d2}
  Requests = {q1, q2, q3}
  Completers = {k1, k2, k3, k4}
  NULL = NULL
  MaxOps = 4
  MaxContexts = 3
  StopOnError = FALSE
INVARIANTS ListsSound Isolated
PROPERTIES FlushDrains CallbacksRun
