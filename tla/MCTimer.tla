------------------------------ MODULE MCTimer ------------------------------
(* Three sleepers and a clock of six instants with a tick every two. The     *)
(* arguments of usleep are one tick (alarms that collide or straddle a       *)
(* tick), one whose wake-up time saturates, and one that wraps to zero.      *)
EXTENDS Timer
=============================================================================
