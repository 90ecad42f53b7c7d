--------------------------- MODULE MCAppLifecycle ---------------------------
(* The App with all that drives it: the tray, Exit and signals. *)
EXTENDS AppLifecycle
=============================================================================
