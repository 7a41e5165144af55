--------------------------- MODULE MCFleetRollout ---------------------------
(* FleetRollout for TLC: two attempts of each peer at most, or a third of   *)
(* one peer while nothing but the first call has happened to the fleet.    *)
EXTENDS FleetRollout

Bounded ==
  \A p \in Peers : peer[p].tries > 2 =>
    /\ \A r \in Rollouts \ {1} : call[r] = "none"
    /\ \A q \in Peers \ {p} : peer[q].tries = 1
=============================================================================
