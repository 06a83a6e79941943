------------------------------ MODULE MCFiles -------------------------------
(* Three processes with two descriptors each, one file slot and a device;   *)
(* as many threads as processes, so that they run out of either.            *)
EXTENDS Files
=============================================================================
