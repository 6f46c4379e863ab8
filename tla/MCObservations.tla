---------------------------- MODULE MCObservations ----------------------------
(* Observations on a small instance. *)
EXTENDS Observations
==============================================================================
