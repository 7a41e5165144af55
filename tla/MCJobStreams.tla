---------------------------- MODULE MCJobStreams ----------------------------
(* Model-checking instance of JobStreams: one client, two jobs so that the *)
(* watched one can be evicted by the other.                                *)
EXTENDS JobStreams, TLC
=============================================================================
