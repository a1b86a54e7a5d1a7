---------------------------- MODULE Propagation ----------------------------
(***************************************************************************)
(* Running and training a network that NetworkCreation has built (fann_run *)
(* in fann.c; fann_compute_MSE, fann_backpropagate_MSE,                    *)
(* fann_update_slopes_batch and fann_update_weights in fann_train.c).      *)
(*                                                                         *)
(* Each of these walks the connections in its own way: by position in a    *)
(* fully connected network, through the connection pointers in a sparse    *)
(* one.  Numbers are integers and every neuron is FANN_LINEAR, so that a   *)
(* derivative is a difference and can be compared exactly.                 *)
(***************************************************************************)
EXTENDS NetworkCreation, SequencesExt

CONSTANTS
  Seeds,          \* each gives weights, inputs and desired outputs
  LearningRate, LearningMomentum,
  MaxRounds       \* bound: patterns trained one after the other

ASSUME PropagationAssumption ==
  /\ Seeds \subseteq Nat /\ IsFiniteSet(Seeds)
  /\ LearningRate \in Int /\ LearningMomentum \in Int /\ MaxRounds \in Nat

VARIABLES
  stage,               \* what was last done with the network, or "none"
  weights, steepness,  \* of every connection; of every neuron
  value,               \* of every neuron
  train_errors, train_slopes, prev_weights_deltas,
  desired_output,
  MSE_value, num_MSE,
  rounds

trained == <<weights, prev_weights_deltas, train_slopes>>
net == <<weights, steepness, value, train_errors, train_slopes,
         prev_weights_deltas, desired_output, MSE_value, num_MSE, rounds>>
all == <<vars, stage, net>>

Neurons == DOMAIN first_con
Outputs == layers[num_layers].first .. layers[num_layers].first + num_output - 1
Zero(set) == [x \in set |-> 0]
Weight(seed, i) == ((i + seed) % 3) - 1
Input(seed, i) == 1 + ((i + seed + rounds) % 2)
Desired(seed, k) == (k + seed) % 3

-----------------------------------------------------------------------------
(* Connections, as the loops find them *)

\* Connection i of neuron n by position; a shortcut network starts at neuron 0.
ByPosition(n, i) ==
  i + IF network_type = "SHORTCUT" THEN 0 ELSE layers[LayerOf(layers, n) - 1].first

ByPointer(n, i) == connections[first_con[n] + i]

Source(n, i) ==
  IF connection_rate = Whole THEN ByPosition(n, i) ELSE ByPointer(n, i)

UnrolledFromZero(num) ==  \* a mutant: groups start at zero
  (0 .. (num % 4) - 1) \cup {4 * group + i : group \in 0 .. (num \div 4) - 1, i \in 0 .. 3}

\* Connections the unrolled loop of fann_run visits, of `num`: first the odd ones
\* of a division by four, then groups of four.
Unrolled(num) ==
  (0 .. (num % 4) - 1) \cup
    {(num % 4) + 4 * group + i : group \in 0 .. (num \div 4) - 1, i \in 0 .. 3}

NumConnections(n) == last_con[n] - first_con[n]

-----------------------------------------------------------------------------
(* fann_run *)

Clipped(sum, bound) == Max({-bound, Min({bound, sum})})

\* The value of neuron n after those before it; a bias has no connections.
NeuronValue(w, before, n) ==
  LET indices == Unrolled(NumConnections(n))
      sum == SumFunction([i \in indices |->
                 w[first_con[n] + i] * before[Source(n, i)]])
  IN IF NumConnections(n) = 0 THEN 1
     ELSE Clipped(steepness[n] * sum, 150 \div steepness[n])

\* The input and the bias of the first layer; what the neurons behind it hold is
\* overwritten before it is read.
Entered(input) == [n \in Neurons |-> IF n < num_input THEN input[n] ELSE 1]

\* The neurons behind the first layer, in the order of the loops
Computed == [k \in 1 .. total_neurons - num_input - 1 |-> num_input + k]

Values(w, input) ==
  FoldLeft(LAMBDA v, n : [v EXCEPT ![n] = NeuronValue(w, v, n)],
           Entered(input), Computed)

\* fann_set_weight_array with the connections fann_get_connection_array reports:
\* each entry goes to the slots that have its two ends.
SetWeights(seed) ==
  LET report == fann_get_connection_array
  IN [c \in DOMAIN connections |->
        LET hits == {i \in DOMAIN report : /\ report[i].from_neuron = connections[c]
                                           /\ report[i].to_neuron = Destination(c)}
        IN Weight(seed, Max(hits))]

fann_set_weight_array ==
  \E seed \in Seeds :
    /\ pc = "done" /\ stage = "none"
    /\ stage' = "ready"
    /\ weights' = SetWeights(seed)
    /\ steepness' = [n \in Neurons |-> IF NumConnections(n) = 0 THEN 0 ELSE 1 + ((n + seed) % 2)]
    /\ value' = Zero(Neurons) /\ train_errors' = Zero(Neurons)
    /\ train_slopes' = Zero(DOMAIN connections)
    /\ prev_weights_deltas' = Zero(DOMAIN connections)
    /\ desired_output' = <<>>
    /\ MSE_value' = 0 /\ num_MSE' = 0 /\ rounds' = 0
    /\ UNCHANGED vars

fann_run ==
  \E seed \in Seeds :
    /\ stage = "ready" /\ rounds < MaxRounds
    /\ stage' = "ran"
    /\ value' = Values(weights, [i \in 0 .. num_input - 1 |-> Input(seed, i)])
    /\ desired_output' = [k \in Outputs |-> Desired(seed, k)]
    /\ rounds' = rounds + 1
    /\ UNCHANGED <<vars, steepness, trained, train_errors, MSE_value, num_MSE>>

-----------------------------------------------------------------------------
(* Backpropagation *)

diff(k) == desired_output[k] - value[k]

fann_activation_derived(n) == steepness[n]

fann_compute_MSE ==
  /\ stage = "ran"
  /\ stage' = "compared"
  /\ train_errors' = [n \in Neurons |->
       IF n \in Outputs THEN fann_activation_derived(n) * diff(n) ELSE 0]
  /\ MSE_value' = MSE_value + SumFunction([k \in Outputs |-> diff(k) * diff(k)])
  /\ num_MSE' = num_MSE + num_output
  /\ UNCHANGED <<vars, steepness, value, trained, desired_output, rounds>>

DerivedEachTime(errors, l) ==  \* a mutant: the derivative for all layers before
  LET handed(m) ==
        SumFunction([n \in NeuronsIn(l) |->
          SumFunction([i \in {j \in 0 .. NumConnections(n) - 1 : Source(n, j) = m} |->
            errors[n] * weights[first_con[n] + i]])])
  IN [m \in Neurons |->
        (errors[m] + handed(m))
          * IF m < layers[l].first THEN fann_activation_derived(m) ELSE 1]

\* The neurons of layer l hand their errors on; then those of the layer before
\* are complete and get their derivative.
Backpropagated(errors, l) ==
  LET handed(m) ==
        SumFunction([n \in NeuronsIn(l) |->
          SumFunction([i \in {j \in 0 .. NumConnections(n) - 1 : Source(n, j) = m} |->
            errors[n] * weights[first_con[n] + i]])])
  IN [m \in Neurons |->
        (errors[m] + handed(m))
          * IF m \in NeuronsIn(l - 1) THEN fann_activation_derived(m) ELSE 1]

fann_backpropagate_MSE ==
  /\ stage = "compared"
  /\ stage' = "backpropagated"
  /\ train_errors' = FoldLeft(Backpropagated, train_errors,
                              [k \in 1 .. num_layers - 2 |-> num_layers + 1 - k])
  /\ UNCHANGED <<vars, steepness, value, trained, desired_output, MSE_value,
                 num_MSE, rounds>>

\* What the loops multiply: the error of connection c's neuron and a value.
Slope(c, source(_, _)) ==
  LET n == Destination(c) IN train_errors[n] * value[source(n, c - first_con[n])]

fann_update_slopes_batch ==
  /\ stage = "backpropagated"
  /\ stage' = "ready"
  /\ train_slopes' = [c \in DOMAIN connections |-> train_slopes[c] + Slope(c, Source)]
  /\ UNCHANGED <<vars, steepness, value, train_errors, weights,
                 prev_weights_deltas, desired_output, MSE_value, num_MSE, rounds>>

AlwaysFirst(n, i) == i  \* a mutant: a layered network read like a shortcut one

\* In a sparse network fann_update_weights does not follow the pointers:
\* prev_neurons is the first neuron of the network.
UpdateSource(n, i) == IF connection_rate = Whole THEN ByPosition(n, i) ELSE i

fann_update_weights ==
  LET delta_w == [c \in DOMAIN connections |->
                    LearningRate * Slope(c, UpdateSource)
                      + LearningMomentum * prev_weights_deltas[c]]
  IN /\ stage = "backpropagated"
     /\ stage' = "ready"
     /\ weights' = [c \in DOMAIN connections |-> weights[c] + delta_w[c]]
     /\ prev_weights_deltas' = delta_w
     /\ UNCHANGED <<vars, steepness, value, train_errors, train_slopes,
                    desired_output, MSE_value, num_MSE, rounds>>

-----------------------------------------------------------------------------

Blank ==
  /\ stage = "none"
  /\ weights = <<>> /\ steepness = <<>> /\ value = <<>>
  /\ train_errors = <<>> /\ train_slopes = <<>> /\ prev_weights_deltas = <<>>
  /\ desired_output = <<>> /\ MSE_value = 0 /\ num_MSE = 0 /\ rounds = 0

Forget ==
  /\ stage' = "none"
  /\ weights' = <<>> /\ steepness' = <<>> /\ value' = <<>>
  /\ train_errors' = <<>> /\ train_slopes' = <<>> /\ prev_weights_deltas' = <<>>
  /\ desired_output' = <<>> /\ MSE_value' = 0 /\ num_MSE' = 0 /\ rounds' = 0

Using ==
  \/ fann_set_weight_array
  \/ fann_run
  \/ fann_compute_MSE
  \/ fann_backpropagate_MSE
  \/ fann_update_slopes_batch
  \/ fann_update_weights

PropagationInit == Init /\ Blank

PropagationNext ==
  \/ Creating /\ UNCHANGED <<stage, net>>
  \/ Using
  \/ fann_destroy /\ Forget

PropagationSpec ==
  /\ PropagationInit /\ [][PropagationNext]_all
  /\ WF_all((ConnectBias \/ ConnectInput \/ ConnectRest) /\ UNCHANGED <<stage, net>>)

-----------------------------------------------------------------------------
(* Properties *)

\* What a linear network computes, from the connections on record alone.
LinearValuesFrom(w, input) ==
  LET sum(v, n) == SumFunction([c \in Slots(n) |-> w[c] * v[connections[c]]])
  IN FoldLeft(LAMBDA v, n : [v EXCEPT ![n] =
                 IF n \in Receivers THEN steepness[n] * sum(v, n) ELSE 1],
              Entered(input), Computed)

LinearValues(w) == LinearValuesFrom(w, value)

Unclipped ==
  \A n \in Receivers : value[n] \notin {150 \div steepness[n], -(150 \div steepness[n])}

\* Whichever way fann_run finds them, the values are those of the weighted sums
\* over exactly the connections on record, each used once: the unrolled loop
\* skips none, and counting positions leads to the neurons the pointers name.
RunIsWeightedSum == stage = "ran" /\ Unclipped => value = LinearValues(weights)

\* How much the (halved, negated) squared error changes with weight c.
Gradient(c) ==
  LET changed == LinearValues([weights EXCEPT ![c] = @ + 1])
  IN SumFunction([k \in Outputs |-> diff(k) * (changed[k] - value[k])])

\* Backpropagation computes derivatives: what a pattern adds to the slope of a
\* connection is the derivative of the error by its weight, in layered, shortcut
\* and sparse networks alike (fann_train.c:295, fann_train.c:453).
SlopesAreDerivatives ==
  [][fann_update_slopes_batch /\ Unclipped =>
       \A c \in DOMAIN connections :
         train_slopes'[c] - train_slopes[c] = Gradient(c)]_all

FollowsGradient ==
  \A c \in DOMAIN connections :
    weights'[c] - weights[c] =
      LearningRate * Gradient(c) + LearningMomentum * prev_weights_deltas[c]

\* Incremental training of a fully connected network moves each weight along
\* the derivative, plus its momentum.
IncrementalFollowsGradient ==
  [][fann_update_weights /\ Unclipped /\ connection_rate = Whole => FollowsGradient]_all

\* So does incremental training of a sparse network: FANN_TRAIN_INCREMENTAL is
\* "Standard backpropagation algorithm" for any network (fann_data.h).
SparseFollowsGradient ==
  [][fann_update_weights /\ Unclipped /\ connection_rate < Whole => FollowsGradient]_all
============================================================================
