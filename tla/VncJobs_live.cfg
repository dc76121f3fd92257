SPECIFICATION FairSpec
CONSTANTS
  Clients = {c1}
  CopyRect = {c1}
  Main = Main
  Worker = Worker
  None = None
  MaxRects = 2
  MaxJobs = 2
  MaxOut = 2
PROPERTIES MainLoopReturns GoneClientsFreed
