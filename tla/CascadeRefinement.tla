------------------------- MODULE CascadeRefinement -------------------------
(***************************************************************************)
(* CascadeLayout implements CascadeNet: the flat arrays, with everything   *)
(* that is moved around in them, are read as a list of neurons that own    *)
(* their weights.                                                          *)
(***************************************************************************)
EXTENDS CascadeLayout, Sequences

(* The weights of the neuron in a slot, without the one it gets while the  *)
(* new neuron is being installed.                                          *)
WeightsOf(slot) ==
  [i \in 1 .. FanIn(slot) |-> weights[neurons[slot].first_con + i - 1]]

(* Until the installation is complete, output j is read where it is now.   *)
OutputSlot(j) ==
  LET slot == total_neurons - NumOutput + j
  IN IF pc = "move_outputs" /\ slot >= move.neuron_it THEN slot + 1 ELSE slot

hidden ==
  [h \in 1 .. NumHidden |->
     [kind |-> neurons[FirstLayer + h - 1].kind,
      weights |-> WeightsOf(FirstLayer + h - 1)]]

outputs ==
  [j \in 0 .. NumOutput - 1 |->
     [kind |-> neurons[OutputSlot(j)].kind, weights |-> WeightsOf(OutputSlot(j))]]

CreatedOutputs ==
  [j \in 0 .. NumOutput - 1 |->
     [kind |-> <<"output", j>>,
      weights |-> [i \in 1 .. FirstLayer |-> NetWeight(j, i - 1)]]]

(* The candidates of this round, as fann_initialize_candidates wrote them. *)
candidates ==
  {[kind |-> CandidateNeuron(k).kind,
    inputs |-> [i \in 1 .. candidate_connections_in |->
                  InWeight(total_neurons, k, i - 1)],
    outputs |-> [j \in 0 .. NumOutput - 1 |-> OutWeight(total_neurons, k, j)]]
   : k \in 0 .. num_candidates - 1}

(* Training pairs output weight j of a candidate with output neuron j      *)
(* (fann_update_candidate_slopes, fann_cascade.c:618-627).                 *)
AsTrained(j) == j

(* Installing it hands the weights out from the last output to the first.  *)
AsInstalled(j) == NumOutput - 1 - j

Promise == INSTANCE CascadeNet WITH
  InitialOutputs <- CreatedOutputs, Pairing <- AsTrained

Built == INSTANCE CascadeNet WITH
  InitialOutputs <- CreatedOutputs, Pairing <- AsInstalled

(* Every weight a neuron has stays with it through all the moves of the    *)
(* arrays, a new neuron gets exactly the input weights and the kind of one *)
(* candidate, and each output one of that candidate's output weights, all  *)
(* of them used.                                                           *)
GrowsTheNetwork == Built!Spec

(* fann_cascade.h:29-31: "a number of candidate neurons are trained [...]  *)
(* then the most promissing of these candidate neurons is inserted into    *)
(* the neural network": inserted as it was trained, so that output j gets  *)
(* the weight that was trained for output j.                               *)
InsertsCandidateAsTrained == Promise!Spec
============================================================================
