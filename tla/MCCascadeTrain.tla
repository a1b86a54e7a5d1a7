--------------------------- MODULE MCCascadeTrain ---------------------------
(* Constants of CascadeTrain a configuration cannot write.                 *)
EXTENDS CascadeTrain

NegativeScore == -1
=============================================================================
