SPECIFICATION Spec
SYMMETRY Symmetry
CONSTANTS
  Clients = {c1, c2}
  CopyRect = {c1, c2}
  Main = Main
  Worker = Worker
  None = None
  MaxRects = 1
  MaxJobs = 2
  MaxOut = 1
INVARIANTS ClientsOutliveJobs OutputIntact
PROPERTIES ResizeWaits
