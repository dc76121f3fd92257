CHECK_DEADLOCK FALSE
SPECIFICATION MCFairSpec
CONSTANTS
  Threads = {t1, t2, t3, t4}
  None = None
  UseSignal = TRUE
  UseBroadcast = TRUE
INVARIANTS TypeOK WaitersExact Rendezvous
PROPERTIES Refines SignalReturns
