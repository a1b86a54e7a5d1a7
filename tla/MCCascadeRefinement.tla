------------------------ MODULE MCCascadeRefinement ------------------------
(***************************************************************************)
(* Instances of CascadeRefinement for TLC; the values are in the .cfg      *)
(* files.                                                                  *)
(***************************************************************************)
EXTENDS CascadeRefinement
============================================================================
