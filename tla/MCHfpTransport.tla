--------------------------- MODULE MCHfpTransport ---------------------------
(* Model-checking instance of HfpTransport: two requests at once; event    *)
(* streams with heartbeats, both kinds of line ends, records of several    *)
(* lines, a result before the end, a malformed record between others, no   *)
(* result at all, and one record over the cap.                             *)
EXTENDS HfpTransport

MCStreams == {
  <<"e", "c", "n", "c", "n", "r", "n", "n", "e", "n">>,
  <<"e", "n", "n", "x", "c", "n", "n", "r", "n", "n">>,
  <<":", "n", "c", "e", "n", "e", "n", "e", "n", "n">>,
  <<"e", "e", "n", "e", "e">>}
=============================================================================
