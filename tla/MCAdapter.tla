------------------------------- MODULE MCAdapter -------------------------------
(* Adapter on small instances; the bounds are in the configurations. *)
EXTENDS Adapter
===============================================================================
