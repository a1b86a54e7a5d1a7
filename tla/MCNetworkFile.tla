--------------------------- MODULE MCNetworkFile ---------------------------
(***************************************************************************)
(* Instances of NetworkFile for TLC.                                       *)
(***************************************************************************)
EXTENDS NetworkFile

Sizes == {<<2, 1>>, <<1, 2>>, <<2, 2, 1>>, <<1, 1, 1>>}

SomeWeights == <<-130, 40, 75, -20, 155>>
=============================================================================
