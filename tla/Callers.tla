------------------------------ MODULE Callers -------------------------------
(***************************************************************************)
(* The threads, as the drivers Uart, VioBlk and Timer know them: by name.  *)
(* NoThread stands for "no thread" where the code has a null pointer, a    *)
(* lock without an owner, or the idle loop.                                *)
(***************************************************************************)
CONSTANTS Thread, NoThread
=============================================================================
