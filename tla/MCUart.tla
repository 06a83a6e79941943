------------------------------- MODULE MCUart -------------------------------
(* Two threads share the port; buffers of two bytes whose positions wrap at *)
(* four, so that both buffers run full, run empty and wrap.                 *)
EXTENDS Uart
=============================================================================
