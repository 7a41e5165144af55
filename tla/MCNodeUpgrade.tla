--------------------------- MODULE MCNodeUpgrade ---------------------------
(* NodeUpgrade for TLC: two updaters and four processes, or three once two *)
(* daemons have been in acquireLock at the same time.                      *)
EXTENDS NodeUpgrade

Bounded == overlapped => \A p \in 4 .. MaxPid : proc[p].phase = "none"
=============================================================================
