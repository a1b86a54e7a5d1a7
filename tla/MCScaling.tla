----------------------------- MODULE MCScaling -----------------------------
(***************************************************************************)
(* Instances of Scaling for TLC.                                           *)
(***************************************************************************)
EXTENDS Scaling

\* Deviations 5 and 2, and no rows; what is scaled to <<2, 2>> does not vary
SomeColumns == {<<-4, 6>>, <<5, 1>>, <<>>}

SomeRanges == {<<0, 3>>, <<2, 2>>}
=============================================================================
