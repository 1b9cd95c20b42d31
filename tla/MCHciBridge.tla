---------------------------- MODULE MCHciBridge -----------------------------
(* Instances of HciBridge for TLC. *)
EXTENDS HciBridge
=============================================================================
