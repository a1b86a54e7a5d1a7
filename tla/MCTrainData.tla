---------------------------- MODULE MCTrainData ----------------------------
(***************************************************************************)
(* Instances of TrainData for TLC.                                         *)
(***************************************************************************)
EXTENDS TrainData

\* One is 1.00, and a file has one digit: 0.98 is between two numbers of a file.
SomeExamples ==
  <<[input |-> <<150, -40>>, output |-> <<-200, 60>>],
    [input |-> <<30, 300>>, output |-> <<98, -70>>]>>

Symmetry == Permutations(Objects)

SomeShapes == {<<2, 1>>, <<1, 2>>}
=============================================================================
