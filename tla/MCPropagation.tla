--------------------------- MODULE MCPropagation ---------------------------
(***************************************************************************)
(* Instances of NetworkCreation and Propagation for TLC.                   *)
(***************************************************************************)
EXTENDS Propagation

\* Up to 3 neurons in two layers and 2 in three; 5 and 6 to unroll the loop.
Sizes ==
  [1 .. 2 -> 1 .. 3] \cup {<<1, 2, 1>>, <<2, 1, 2>>, <<2, 2, 1>>}
    \cup {<<4, 1>>, <<5, 1>>, <<4, 1, 1>>, <<1, 1, 1, 1>>}

SmallSizes == {<<2, 1>>, <<1, 2>>, <<2, 2>>, <<2, 2, 1>>}
============================================================================
