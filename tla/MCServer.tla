------------------------------- MODULE MCServer -------------------------------
(* The facade with one request, two attempts of it, and an exit next to the tray. *)
EXTENDS Server
=============================================================================
