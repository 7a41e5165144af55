---------------------------- MODULE MCDiscovery -----------------------------
(* Two devices that move, one of them to the endpoint the configuration    *)
(* names without a device: three keys for maps of two entries.             *)
EXTENDS Discovery

CONSTANTS d1, d2, e1, e2, e3

MCPlaces == d1 :> {e1, e2} @@ d2 :> {e1, e3}
MCStatics == <<[dev |-> Nobody, at |-> e3]>>
=============================================================================
