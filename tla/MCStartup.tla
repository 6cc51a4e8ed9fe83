------------------------------- MODULE MCStartup ------------------------------
(* Startup as it stands; the constants are in startup.cfg. *)
EXTENDS Startup
===============================================================================
