SPECIFICATION FairSpec
CONSTANTS
  nic = nic
  nic2 = nic2
  tap = tap
  slirp = slirp
  Hub = Hub
  Clients = {nic, tap, slirp}
  Kind <- KindOf
  Topologies <- OneNic
  MaxRefusals = 2
CHECK_DEADLOCK FALSE
INVARIANTS HandlersSound CallbackExact PairFifo QueuedOwed
PROPERTIES CallbackComes
