--------------------------- MODULE MCWin32Thread ---------------------------
(* Win32Thread with callers that use one kind of wake-up, either kind, as  *)
(* every condition in the repository is used.                              *)
EXTENDS Win32Thread

VARIABLE kind  \* the kind of wake-up the callers use

Unused == IF kind = "signal" THEN BroadcastPCs ELSE SignalPCs

MCInit == Init /\ kind \in {"signal", "broadcast"}

MCNext ==
  /\ Next
  /\ \A t \in Threads : cpc'[t] \notin Unused
  /\ UNCHANGED kind

MCFairSpec ==
  /\ MCInit /\ [][MCNext]_<<vars, kind>>
  /\ \A t \in Threads : WF_vars(Step(t))
=============================================================================
