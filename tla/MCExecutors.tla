---------------------------- MODULE MCExecutors ----------------------------
(* Model-checking instance of Executors: small texts and file lists on     *)
(* both sides of every cap, and a file that vanishes under the scan.       *)
EXTENDS Executors

MCReadTexts == UNION {[1 .. n -> 1 .. 3] : n \in 0 .. 2}
MCFiles == [size : 1 .. 3, hits : 0 .. 2, gone : {FALSE}]
             \cup {[size |-> 1, hits |-> 1, gone |-> TRUE]}
MCGrepFiles == UNION {[1 .. n -> MCFiles] : n \in 0 .. 2}
=============================================================================
