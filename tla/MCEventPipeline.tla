-------------------------- MODULE MCEventPipeline --------------------------
(***************************************************************************)
(* Instances of EventPipeline for TLC.  A run names the events it uses;    *)
(* Pathless, Sensitive and WellFormed are chosen in its configuration.     *)
(***************************************************************************)
EXTENDS EventPipeline

CONSTANTS k1, k2, u1
=============================================================================
