------------------------------ MODULE MCVioBlk ------------------------------
(* Two threads on a disk of two sectors of two bytes: reads of one and of   *)
(* two sectors, which may run off the end, writes of two, and a write of    *)
(* half a sector, whose byte count wraps around.                            *)
EXTENDS VioBlk
=============================================================================
