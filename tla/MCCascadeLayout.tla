-------------------------- MODULE MCCascadeLayout --------------------------
(***************************************************************************)
(* Instances of CascadeLayout for TLC; the values are in the .cfg files.   *)
(***************************************************************************)
EXTENDS CascadeLayout
============================================================================
