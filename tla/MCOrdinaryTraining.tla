------------------------- MODULE MCOrdinaryTraining -------------------------
(***************************************************************************)
(* Instances of OrdinaryTraining for TLC.                                  *)
(***************************************************************************)
EXTENDS OrdinaryTraining

\* Slopes of about 0.1: two of one sign, one of the other.
SomeSlopes == {-900, 0, 600, 1200}
=============================================================================
