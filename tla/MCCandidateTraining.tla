------------------------ MODULE MCCandidateTraining ------------------------
(***************************************************************************)
(* Instances of CandidateTraining for TLC.                                 *)
(***************************************************************************)
EXTENDS CandidateTraining

\* 2 to 5 connections into a candidate, so that the unrolled loop has every
\* remainder; one or two outputs; one hidden neuron or none.
Sizes == {<<1, 2>>, <<3, 1>>, <<4, 1>>, <<2, 2>>, <<1, 1, 1>>}

Bias == {-1, 1}
============================================================================
