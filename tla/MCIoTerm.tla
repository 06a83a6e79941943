------------------------------ MODULE MCIoTerm ------------------------------
(* Four bytes typed and four written in chunks of up to three, one byte that *)
(* is not special, and room for two characters in the line editor.           *)
EXTENDS IoTerm
=============================================================================
