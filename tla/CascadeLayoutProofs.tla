------------------------ MODULE CascadeLayoutProofs ------------------------
(***************************************************************************)
(* Proofs about CascadeLayout, for every size of the network and every     *)
(* choice of candidates:                                                   *)
(*   - the structure of the network and the sizes on record, whether or    *)
(*     not allocations fail;                                               *)
(*   - the order of the weights, so that connections can be rebuilt, and   *)
(*     as long as every allocation succeeds, that the candidate which is   *)
(*     installed is one that was trained, read before anything is written  *)
(*     over it;                                                            *)
(*   - that it implements CascadeNet: the steps that move neurons and      *)
(*     weights around leave the list of neurons as it is, and the last     *)
(*     step of an installation adds one to it.                             *)
(***************************************************************************)
EXTENDS CascadeRefinement, SequenceTheorems, TLAPS

(* The number of candidates is a natural number.                           *)
LEMMA CandidatesNat ==
  ASSUME settings \in [functions : ListSizes, steepnesses : ListSizes,
                       groups : GroupSizes, max_cand_epochs : CandEpochs]
  PROVE  num_candidates \in Nat
<1> DEFINE f == settings.functions
           t == settings.steepnesses
           g == settings.groups
<1>1. f \in Nat /\ t \in Nat /\ g \in Nat
  BY SizesAssumption
<1>2. \A a, b \in Nat : a * b \in Nat
  BY SMT
<1> HIDE DEF f, t, g
<1>3. f * t \in Nat
  BY <1>1, <1>2
<1>4. (f * t) * g \in Nat
  BY <1>1, <1>2, <1>3
<1>5. QED
  BY <1>4 DEF num_candidates, fann_get_cascade_num_candidates, f, t, g

(* There is an input and a bias, and an output.                            *)
LEMMA SizesNat == FirstLayer \in Nat /\ FirstLayer >= 2 /\ NumOutput \in Nat
                  /\ NumOutput >= 1
BY SizesAssumption DEF FirstLayer

(* The over-allocation is never less than what is needed.                  *)
LEMMA GrownEnough ==
  ASSUME NEW needed \in Nat, NEW extra \in Nat
  PROVE  Grown(needed, extra) \in Nat /\ Grown(needed, extra) >= needed
BY DEF Grown

(* A network fresh from fann_create_shortcut satisfies the invariant.      *)
LEMMA InitLayout == Init => LayoutInv
<1> SUFFICES ASSUME Init PROVE LayoutInv
  OBVIOUS
<1> USE SizesNat
<1>1. TypeOK
  BY SizesAssumption DEF Init, TypeOK, CreatedNeuron, NoBuffer
<1>2. NeuronsPresent /\ RoomHeld
  BY DEF Init, NeuronsPresent, RoomHeld
<1>3. /\ pc = "idle" /\ num_layers = 2 /\ NumHidden = 0
      /\ total_neurons = FirstLayer + NumOutput
      /\ layers[0] = [first |-> 0, last |-> FirstLayer]
      /\ layers[1] = [first |-> FirstLayer, last |-> FirstLayer + NumOutput]
      /\ total_connections = FirstLayer * NumOutput
      /\ \A n \in 0 .. total_neurons - 1 : neurons[n] = CreatedNeuron(n)
  BY DEF Init, NumHidden
<1>4. LayersPartitionNeurons /\ LayersWhileInstalling
  BY <1>3 DEF LayersPartitionNeurons, LayersWhileInstalling, Whole
<1>5. ASSUME NEW n \in FirstLayer .. total_neurons - 1
      PROVE  /\ neurons[n].first_con = (n - FirstLayer) * FirstLayer
             /\ neurons[n].last_con = (n - FirstLayer + 1) * FirstLayer
             /\ FanIn(n) = FirstLayer
  <2>1. neurons[n] = CreatedNeuron(n) /\ ~(n < FirstLayer)
    BY <1>3
  <2>2. QED
    BY <1>3, <2>1 DEF CreatedNeuron, FanIn
<1>6. \A n \in Int : (n + 1 - FirstLayer) * FirstLayer
                   = (n - FirstLayer) * FirstLayer + FirstLayer
  OBVIOUS
<1>7. /\ neurons[FirstLayer].first_con = 0
      /\ neurons[total_neurons - 1].last_con = total_connections
  <2>1. 0 * FirstLayer = 0 /\ NumOutput * FirstLayer = FirstLayer * NumOutput
    OBVIOUS
  <2>2. neurons[total_neurons - 1].last_con
          = (total_neurons - 1 - FirstLayer + 1) * FirstLayer
    BY <1>3, <1>5
  <2>3. total_neurons - 1 - FirstLayer + 1 = NumOutput
    BY <1>3
  <2>4. QED
    BY <1>3, <1>5, <2>1, <2>2, <2>3
<1>8. ASSUME NEW n \in FirstLayer .. total_neurons - 1
      PROVE  neurons[n].last_con = neurons[n].first_con + FanIn(n)
  <2>1. n - FirstLayer + 1 = n + 1 - FirstLayer /\ n \in Int
    BY <1>3
  <2>2. QED
    BY <1>3, <1>5, <1>6, <2>1
<1>9. ASSUME NEW n \in FirstLayer .. total_neurons - 2
      PROVE  neurons[n + 1].first_con = neurons[n].last_con
  <2>1. n - FirstLayer + 1 = n + 1 - FirstLayer
    BY <1>3
  <2>2. QED
    BY <1>3, <1>5, <2>1
<1>10. WeightsPartition /\ WeightsWhileMoving
  BY <1>3, <1>7, <1>8, <1>9 DEF WeightsPartition, WeightsWhileMoving
<1>11. QED
  BY <1>1, <1>2, <1>4, <1>10 DEF LayoutInv

(* A step that leaves the network where it is, between installations.      *)
LEMMA NetworkUntouched ==
  ASSUME LayoutInv, TypeOK', RoomHeld', NeuronsPresent',
         UNCHANGED <<layers, num_layers, neurons, total_neurons,
                     total_connections>>,
         cap'.neurons = cap.neurons,
         pc \notin {"add_neuron", "move_outputs", "undefined"},
         pc' \notin {"add_neuron", "move_outputs", "undefined"}
  PROVE  LayoutInv'
<1>1. LayersPartitionNeurons' /\ LayersWhileInstalling'
  BY DEF LayoutInv, LayersPartitionNeurons, LayersWhileInstalling, Whole, NumHidden
<1>2. WeightsPartition' /\ WeightsWhileMoving'
  BY DEF LayoutInv, WeightsPartition, WeightsWhileMoving, FanIn
<1>3. QED
  BY <1>1, <1>2 DEF LayoutInv

(* Nothing but types is claimed of a run that C gives no meaning.          *)
LEMMA NoMeaning ==
  ASSUME TypeOK', NeuronsPresent', pc' = "undefined"
  PROVE  LayoutInv'
BY DEF LayoutInv, LayersPartitionNeurons, LayersWhileInstalling, Whole,
       WeightsPartition, WeightsWhileMoving, RoomHeld

(* Changing the candidate settings, between trainings or in the callback,  *)
(* does not touch the network.                                             *)
LEMMA SettersKeepLayout ==
  ASSUME LayoutInv,
         NEW which \in {"functions", "steepnesses", "groups", "max_cand_epochs"},
         NEW n,
         which \in {"functions", "steepnesses"} => n \in ListSizes,
         which = "groups" => n \in GroupSizes,
         which = "max_cand_epochs" => n \in CandEpochs,
         CallerRuns, settings' = [settings EXCEPT ![which] = n],
         null_lists' \subseteq {"functions", "steepnesses"},
         pc' \in {pc, "undefined"},
         UNCHANGED <<loop, heap, totals, best, move>>
  PROVE  LayoutInv'
<1> USE DEF heap, totals, best, loop, CallerRuns
<1>1. settings' \in [functions : ListSizes, steepnesses : ListSizes,
                    groups : GroupSizes, max_cand_epochs : CandEpochs]
  BY DEF LayoutInv, TypeOK
<1>2. TypeOK'
  BY <1>1 DEF LayoutInv, TypeOK
<1>3. NeuronsPresent' /\ RoomHeld'
  BY DEF LayoutInv, NeuronsPresent, RoomHeld
<1>4. CASE pc' = pc
  BY <1>2, <1>3, <1>4, NetworkUntouched
<1>5. CASE pc' = "undefined"
  BY <1>2, <1>3, <1>5, NoMeaning
<1>6. QED
  BY <1>4, <1>5

(* Entering the loop, leaving it, and rebuilding the connection pointers   *)
(* at its end leave neurons and weights where they are.                    *)
LEMMA CallsKeepLayout ==
  ASSUME LayoutInv,
         \/ \E m \in 0 .. MaxHidden : StartTraining(m)
         \/ StopGrowing \/ KeepGrowing
         \/ fann_set_shortcut_connections
  PROVE  LayoutInv'
<1> USE DEF heap, totals, choices, best, loop
<1>1. TypeOK'
  <2>1. CASE \E m \in 0 .. MaxHidden : StartTraining(m)
    <3>1. /\ round' \in Nat /\ max_neurons' \in Nat
          /\ pc' \in {"final", "outputs"}
          /\ UNCHANGED <<heap, totals, choices, best, move>>
      BY <2>1, SizesAssumption DEF StartTraining
    <3>2. QED
      BY <3>1 DEF LayoutInv, TypeOK
  <2>2. CASE StopGrowing \/ KeepGrowing
    BY <2>2 DEF LayoutInv, TypeOK, StopGrowing, KeepGrowing
  <2>3. CASE fann_set_shortcut_connections
    <3>1. /\ DOMAIN connections' = DOMAIN connections
          /\ pc' \in {"idle", "undefined"}
          /\ UNCHANGED <<loop, layers, num_layers, neurons, weights, cap, totals,
                         choices, best, move>>
      BY <2>3 DEF fann_set_shortcut_connections
    <3>2. QED
      BY <3>1 DEF LayoutInv, TypeOK
  <2>4. QED
    BY <2>1, <2>2, <2>3
<1>2. /\ UNCHANGED <<layers, num_layers, neurons, total_neurons,
                     total_connections, cap>>
      /\ pc \in {"idle", "report", "connect"}
      /\ pc' \in {"final", "outputs", "candidates", "idle", "undefined"}
  BY DEF StartTraining, StopGrowing, KeepGrowing, fann_set_shortcut_connections
<1>3. NeuronsPresent' /\ RoomHeld'
  BY <1>2 DEF LayoutInv, NeuronsPresent, RoomHeld
<1>4. QED
  BY <1>1, <1>2, <1>3, NetworkUntouched, NoMeaning

(* fann_train_outputs allocates training arrays and moves nothing.         *)
LEMMA TrainOutputsKeepsLayout ==
  ASSUME LayoutInv, TrainOutputs \/ TrainOutputsLastTime
  PROVE  LayoutInv'
<1> USE DEF heap, totals, choices, best, loop
<1>1. PICK from \in {"outputs", "final"}, to \in {"report", "connect"} :
        fann_train_outputs(from, to)
  BY DEF TrainOutputs, TrainOutputsLastTime
<1>2. /\ cap' \in {cap, LazilyAllocated} /\ pc \in {"outputs", "final"}
      /\ pc' = "undefined" \/ (pc' \in {"report", "connect"} /\ cap.neurons > 0)
      /\ UNCHANGED <<layers, num_layers, neurons, total_neurons,
                     total_connections>>
  BY <1>1 DEF fann_train_outputs, NetworkReachable
<1>3. /\ LazilyAllocated.neurons = cap.neurons
      /\ LazilyAllocated.weights = cap.weights
      /\ LazilyAllocated.connections = cap.connections
      /\ LazilyAllocated \in [neurons : Nat, train_errors : Nat,
           connections : Nat, weights : Nat, train_slopes : Nat,
           prev_steps : Nat, prev_train_slopes : Nat]
  BY DEF LayoutInv, TypeOK, LazilyAllocated, OrElse
<1>4. TypeOK'
  BY <1>1, <1>2, <1>3 DEF LayoutInv, TypeOK, fann_train_outputs
<1>5. cap'.neurons = cap.neurons
  BY <1>2, <1>3
<1>6. NeuronsPresent' /\ RoomHeld'
  <2>1. NeuronsPresent /\ total_neurons' = total_neurons
    BY <1>2 DEF LayoutInv
  <2>2. NeuronsPresent'
    BY <1>2, <1>5, <2>1 DEF NeuronsPresent
  <2>3. RoomHeld'
    BY <1>2 DEF RoomHeld
  <2>4. QED
    BY <2>2, <2>3
<1>7. CASE pc' = "undefined"
  BY <1>4, <1>6, <1>7, NoMeaning
<1>8. CASE pc' \in {"report", "connect"}
  BY <1>2, <1>4, <1>5, <1>6, <1>8, NetworkUntouched
<1>9. QED
  BY <1>2, <1>7, <1>8

(* fann_train_candidates picks a number and moves nothing.                 *)
LEMMA TrainCandidatesKeepsLayout ==
  ASSUME LayoutInv, fann_train_candidates
  PROVE  LayoutInv'
<1> USE DEF heap, totals, choices, best, loop
<1>1. /\ pc = "train" /\ pc' \in {"add_layer", "undefined"}
      /\ UNCHANGED <<heap, totals, choices, move, loop>>
  BY DEF fann_train_candidates, TrainingEpochs
<1>2. num_candidates \in Nat
  BY CandidatesNat DEF LayoutInv, TypeOK
<1>3. scores' \in Nat \union {NoBuffer} /\ cascade_best_candidate' \in Nat
  <2>1. scores' \in {scores, num_candidates}
    BY DEF fann_train_candidates
  <2>2. \/ cascade_best_candidate' = cascade_best_candidate
        \/ \E k \in 0 .. num_candidates - 1 :
             cascade_best_candidate' = total_neurons + 1 + k
    <3>1. UNCHANGED cascade_best_candidate \/ ChooseBest
      BY DEF fann_train_candidates, TrainingEpochs
    <3>2. QED
      BY <3>1 DEF ChooseBest, first_candidate_neuron
  <2>3. /\ total_neurons \in Nat /\ cascade_best_candidate \in Nat
        /\ scores \in Nat \union {NoBuffer}
    BY DEF LayoutInv, TypeOK
  <2>4. QED
    BY <1>2, <2>1, <2>2, <2>3
<1>4. TypeOK'
  BY <1>1, <1>3 DEF LayoutInv, TypeOK
<1>5. NeuronsPresent' /\ RoomHeld'
  BY <1>1 DEF LayoutInv, NeuronsPresent, RoomHeld, CandidatesFit, num_neurons,
     num_connections, num_candidates, fann_get_cascade_num_candidates
<1>6. QED
  BY <1>1, <1>4, <1>5, NetworkUntouched, NoMeaning

(* fann_initialize_candidates and the ways it fails enlarge the neuron     *)
(* array at its end, if at all.                                            *)
LEMMA NeuronsKept ==
  ASSUME LayoutInv, TypeOK', RoomHeld', NeuronsPresent',
         UNCHANGED <<layers, num_layers, total_neurons, total_connections>>,
         pc = "candidates", pc' \in {"train", "final", "undefined"},
         cap'.neurons # 0 =>
           \A n \in 0 .. total_neurons - 1 : neurons'[n] = neurons[n]
  PROVE  LayoutInv'
<1>1. LayersPartitionNeurons' /\ LayersWhileInstalling'
  BY DEF LayoutInv, LayersPartitionNeurons, LayersWhileInstalling, Whole, NumHidden
<1>2. WeightsWhileMoving'
  BY DEF WeightsWhileMoving
<1>3. WeightsPartition'
  <2> SUFFICES ASSUME pc' # "undefined", cap'.neurons > 0
               PROVE  WeightsPartition'
    BY DEF WeightsPartition
  <2>1. /\ total_neurons \in Nat /\ total_neurons >= FirstLayer + NumOutput
        /\ cap.neurons \in Nat /\ cap.neurons # 0 /\ cap'.neurons \in Nat
    BY DEF LayoutInv, TypeOK, NeuronsPresent
  <2>2. WeightsPartition /\ cap.neurons > 0
    BY <2>1 DEF LayoutInv
  <2>3. \A n \in FirstLayer .. total_neurons - 1 : neurons'[n] = neurons[n]
    BY <2>1, SizesNat
  <2>4. /\ FirstLayer \in FirstLayer .. total_neurons - 1
        /\ total_neurons - 1 \in FirstLayer .. total_neurons - 1
        /\ \A n \in FirstLayer .. total_neurons - 2 :
             /\ n \in FirstLayer .. total_neurons - 1
             /\ n + 1 \in FirstLayer .. total_neurons - 1
    BY <2>1, SizesNat
  <2>5. QED
    BY <2>2, <2>3, <2>4 DEF WeightsPartition, FanIn
<1>4. QED
  BY <1>1, <1>2, <1>3 DEF LayoutInv

(* What the candidates need, and that what is allocated for them is not    *)
(* less.                                                                   *)
LEMMA NeededNat ==
  ASSUME TypeOK, NeuronsPresent
  PROVE  /\ num_neurons \in Nat /\ num_neurons > total_neurons
         /\ num_connections \in Nat
         /\ num_connections >= total_connections + total_neurons
         /\ neurons_to_allocate \in Nat /\ neurons_to_allocate >= num_neurons
         /\ connections_to_allocate \in Nat
         /\ connections_to_allocate >= num_connections
<1>1. /\ num_candidates \in Nat /\ total_neurons \in Nat
      /\ total_connections \in Nat
  BY CandidatesNat DEF TypeOK
<1>2. num_neurons \in Nat /\ num_neurons > total_neurons
  BY <1>1 DEF num_neurons
<1>3. \A a, b \in Nat : a * b \in Nat /\ a * (b + 1) \in Nat /\ a * (b + 1) >= a
  BY SMT
<1>4. num_connections \in Nat /\ num_connections >= total_connections + total_neurons
  BY <1>1, <1>3 DEF num_connections
<1>5. total_neurons * 10 \in Nat
  BY <1>1
<1>6. QED
  BY <1>2, <1>4, <1>5, GrownEnough DEF neurons_to_allocate, connections_to_allocate

(* Block sizes stay natural numbers whatever is reallocated.               *)
Sizes == [neurons : Nat, train_errors : Nat, connections : Nat, weights : Nat,
          train_slopes : Nat, prev_steps : Nat, prev_train_slopes : Nat]

(* Whichever realloc fails, block sizes are natural numbers, and the neuron *)
(* block is the one fann_reallocate_neurons left.                          *)
LEMMA ReallocSizes ==
  ASSUME TypeOK, NeuronsPresent
  PROVE  /\ MakeRoom \in Sizes
         /\ MakeRoom.neurons = IF NeedNeurons THEN neurons_to_allocate
                                             ELSE cap.neurons
         /\ \A failed \in Int : \A sizes \in Sizes :
              /\ fann_reallocate_connections(sizes, failed) \in Sizes
              /\ fann_reallocate_connections(sizes, failed).neurons = sizes.neurons
<1>1. cap \in Sizes
  BY DEF TypeOK, Sizes
<1>2. MakeRoom \in Sizes /\ MakeRoom.neurons = IF NeedNeurons
                              THEN neurons_to_allocate ELSE cap.neurons
  BY <1>1, NeededNat DEF MakeRoom, fann_reallocate_neurons, Sizes
<1>3. ASSUME NEW failed \in Int, NEW sizes \in Sizes
      PROVE  /\ fann_reallocate_connections(sizes, failed) \in Sizes
             /\ fann_reallocate_connections(sizes, failed).neurons = sizes.neurons
  BY NeededNat DEF fann_reallocate_connections, Sizes
<1>4. QED
  BY <1>2, <1>3

(* fann_initialize_candidates writes behind the network only.              *)
LEMMA InitializeCandidatesKeepsLayout ==
  ASSUME LayoutInv, fann_initialize_candidates
  PROVE  LayoutInv'
<1> USE DEF totals, choices, best, loop
<1>1. TypeOK /\ NeuronsPresent
  BY DEF LayoutInv
<1>2. /\ pc = "candidates" /\ pc' \in {"train", "undefined"}
      /\ pc' = "train" => CandidatesFit(cap')
      /\ UNCHANGED <<loop, layers, num_layers, total_neurons,
                     total_connections, choices, best, move>>
  BY DEF fann_initialize_candidates
<1>3. cap' \in Sizes /\ cap'.neurons = MakeRoom.neurons
  BY <1>1, ReallocSizes DEF fann_initialize_candidates, AllDone
<1>4. /\ cap.neurons # 0 /\ cap.neurons \in Nat /\ cap.neurons >= total_neurons
      /\ total_neurons \in Nat /\ total_neurons >= FirstLayer + NumOutput
  BY <1>1, <1>2 DEF NeuronsPresent, TypeOK
<1>5. cap'.neurons # 0 /\ cap'.neurons \in Nat /\ cap'.neurons >= total_neurons
  BY <1>1, <1>3, <1>4, ReallocSizes, NeededNat, SizesNat
<1>6. \A n \in 0 .. total_neurons - 1 : neurons'[n] = neurons[n]
  <2> TAKE n \in 0 .. total_neurons - 1
  <2>1. n \in 0 .. cap'.neurons - 1 /\ n \in 0 .. cap.neurons - 1
    BY <1>4, <1>5
  <2>2. n \notin first_candidate_neuron .. num_neurons - 1
    BY <1>1, <1>4, NeededNat DEF first_candidate_neuron
  <2>3. n \in DOMAIN neurons
    BY <1>1, <2>1 DEF TypeOK
  <2>4. QED
    BY <2>1, <2>2, <2>3 DEF fann_initialize_candidates
<1>7. /\ total_neurons_allocated' \in Nat /\ total_connections_allocated' \in Nat
  BY <1>1, NeededNat DEF fann_initialize_candidates, TypeOK
<1>8. /\ DOMAIN neurons' = 0 .. cap'.neurons - 1
      /\ DOMAIN weights' = 0 .. cap'.weights - 1
      /\ DOMAIN connections' = 0 .. cap'.connections - 1
  BY DEF fann_initialize_candidates, ResizeArrays
<1>9. ASSUME NEW n \in DOMAIN neurons'
      PROVE  neurons'[n].first_con \in Int /\ neurons'[n].last_con \in Int
  <2>1. n \in Int
    BY <1>5, <1>8
  <2>2. CASE n \in first_candidate_neuron .. num_neurons - 1
    <3>1. neurons'[n] = CandidateNeuron(n - first_candidate_neuron)
      BY <1>8, <2>2 DEF fann_initialize_candidates
    <3>2. n - first_candidate_neuron \in Int
      BY <1>4, <2>1 DEF first_candidate_neuron
    <3>3. \A k \in Int : k * total_neurons \in Int
      BY <1>4
    <3>4. total_connections \in Int /\ NumOutput \in Int
      BY <1>1, SizesNat DEF TypeOK
    <3>5. QED
      BY <1>4, <3>1, <3>2, <3>3, <3>4 DEF CandidateNeuron,
         first_candidate_connection, candidate_connections_in
  <2>3. CASE n \notin first_candidate_neuron .. num_neurons - 1
    <3>1. neurons'[n] = IF n \in DOMAIN neurons THEN neurons[n] ELSE Unset
      BY <1>8, <2>3 DEF fann_initialize_candidates
    <3>2. \A m \in DOMAIN neurons :
            neurons[m].first_con \in Int /\ neurons[m].last_con \in Int
      BY <1>1 DEF TypeOK
    <3>3. QED
      BY <3>1, <3>2 DEF Unset
  <2>4. QED
    BY <2>2, <2>3
<1>10. TypeOK'
  BY <1>1, <1>2, <1>3, <1>7, <1>8, <1>9 DEF TypeOK, Sizes
<1>11. NeuronsPresent'
  BY <1>2, <1>4, <1>5 DEF NeuronsPresent
<1>12. RoomHeld'
  BY <1>2 DEF RoomHeld, CandidatesFit, num_neurons, num_connections,
     num_candidates, fann_get_cascade_num_candidates
<1>13. QED
  BY <1>2, <1>6, <1>10, <1>11, <1>12, NeuronsKept

(* A failed realloc takes away whole blocks or nothing: neurons that are   *)
(* still there are unchanged.                                              *)
LEMMA FailedReallocKeepsLayout ==
  ASSUME LayoutInv, NeuronReallocFails \/ ConnectionReallocFails
  PROVE  LayoutInv'
<1> USE DEF totals, choices, best, loop
<1>1. TypeOK /\ NeuronsPresent
  BY DEF LayoutInv
<1>2. /\ pc = "candidates" /\ pc' = "final"
      /\ UNCHANGED <<loop, layers, num_layers, total_neurons,
                     total_connections, choices, best, move>>
      /\ neurons' = Resize(neurons, cap'.neurons, Unset)
  BY DEF NeuronReallocFails, ConnectionReallocFails
<1>3. /\ cap.neurons # 0 /\ cap.neurons \in Nat /\ cap.neurons >= total_neurons
      /\ total_neurons \in Nat /\ total_neurons >= FirstLayer + NumOutput
      /\ cap \in Sizes
  BY <1>1, <1>2 DEF NeuronsPresent, TypeOK, Sizes
<1>4. /\ cap' \in Sizes
      /\ cap'.neurons \in {0, cap.neurons, neurons_to_allocate}
  <2>1. CASE NeuronReallocFails
    <3>1. \A size \in {0, neurons_to_allocate} :
            /\ [cap EXCEPT !.neurons = size, !.train_errors = 0] \in Sizes
            /\ [cap EXCEPT !.neurons = size, !.train_errors = 0].neurons = size
      <4> TAKE size \in {0, neurons_to_allocate}
      <4>1. size \in Nat
        BY <1>1, NeededNat
      <4>2. QED
        BY <1>3, <4>1 DEF Sizes
    <3>2. \/ cap' = cap
          \/ \E size \in {0, neurons_to_allocate} :
               cap' = [cap EXCEPT !.neurons = size, !.train_errors = 0]
      BY <2>1 DEF NeuronReallocFails
    <3>3. QED
      BY <1>3, <3>1, <3>2
  <2>2. CASE ConnectionReallocFails
    BY <1>1, <2>2, ReallocSizes DEF ConnectionReallocFails, AllDone
  <2>3. QED
    BY <2>1, <2>2
<1>5. cap'.neurons \in Nat /\ (cap'.neurons # 0 => cap'.neurons >= total_neurons)
  BY <1>1, <1>3, <1>4, NeededNat
<1>6. /\ DOMAIN neurons' = 0 .. cap'.neurons - 1
      /\ \A n \in DOMAIN neurons' :
           neurons'[n] = IF n \in DOMAIN neurons THEN neurons[n] ELSE Unset
  BY <1>2 DEF Resize
<1>7. cap'.neurons # 0 =>
        \A n \in 0 .. total_neurons - 1 : neurons'[n] = neurons[n]
  <2>1. DOMAIN neurons = 0 .. cap.neurons - 1
    BY <1>1 DEF TypeOK
  <2>2. QED
    BY <1>3, <1>5, <1>6, <2>1
<1>8. \A n \in DOMAIN neurons' :
        neurons'[n].first_con \in Int /\ neurons'[n].last_con \in Int
  <2>1. \A m \in DOMAIN neurons :
          neurons[m].first_con \in Int /\ neurons[m].last_con \in Int
    BY <1>1 DEF TypeOK
  <2>2. QED
    BY <1>6, <2>1 DEF Unset
<1>9. /\ total_neurons_allocated' \in Nat /\ total_connections_allocated' \in Nat
  BY <1>1, NeededNat DEF NeuronReallocFails, ConnectionReallocFails, TypeOK
<1>10. DOMAIN connections' = 0 .. cap'.connections - 1
  BY DEF NeuronReallocFails, ConnectionReallocFails, ResizeArrays
<1>11. DOMAIN weights' = 0 .. cap'.weights - 1
  <2>1. CASE NeuronReallocFails
    <3>1. UNCHANGED weights /\ cap'.weights = cap.weights
      BY <1>3, <2>1 DEF NeuronReallocFails, Sizes
    <3>2. QED
      BY <1>1, <3>1 DEF TypeOK
  <2>2. CASE ConnectionReallocFails
    BY <2>2 DEF ConnectionReallocFails, Resize
  <2>3. QED
    BY <2>1, <2>2
<1>12. TypeOK'
  BY <1>1, <1>2, <1>4, <1>6, <1>8, <1>9, <1>10, <1>11 DEF TypeOK, Sizes
<1>13. NeuronsPresent'
  BY <1>2, <1>3, <1>5 DEF NeuronsPresent
<1>14. RoomHeld'
  BY <1>2 DEF RoomHeld
<1>15. QED
  BY <1>2, <1>7, <1>12, <1>13, <1>14, NeuronsKept

(* fann_add_layer puts an empty layer before the output layer.             *)
LEMMA AddLayerKeepsLayout ==
  ASSUME LayoutInv, fann_add_layer
  PROVE  LayoutInv'
<1> USE DEF totals, choices, best, loop
<1>1. TypeOK /\ NeuronsPresent
  BY DEF LayoutInv
<1>2. /\ pc = "add_layer" /\ pc' \in {"add_neuron", "undefined"}
      /\ UNCHANGED <<loop, neurons, weights, connections, cap, totals, choices,
                     best>>
  BY DEF fann_add_layer
<1>3. NeuronsPresent' /\ RoomHeld'
  BY <1>1, <1>2 DEF LayoutInv, NeuronsPresent, RoomHeld, CandidatesFit, num_neurons,
     num_connections, num_candidates, fann_get_cascade_num_candidates
<1>4. /\ total_neurons \in Nat /\ NumHidden \in Nat
      /\ total_neurons - NumOutput \in Nat
      /\ num_layers = NumHidden + 2 /\ num_layers \in Nat
      /\ layers \in [0 .. num_layers - 1 -> [first : Nat, last : Nat]]
      /\ layers[0] = [first |-> 0, last |-> FirstLayer]
      /\ \A l \in 1 .. num_layers - 2 :
           layers[l] = [first |-> FirstLayer + l - 1, last |-> FirstLayer + l]
      /\ layers[num_layers - 1] =
           [first |-> total_neurons - NumOutput, last |-> total_neurons]
  <2>1. /\ total_neurons \in Nat /\ total_neurons >= FirstLayer + NumOutput
        /\ num_layers \in Nat
        /\ layers \in [0 .. num_layers - 1 -> [first : Nat, last : Nat]]
    BY <1>1 DEF TypeOK, NeuronsPresent
  <2>2. NumHidden \in Nat /\ total_neurons - NumOutput \in Nat
    BY <2>1, SizesNat DEF NumHidden
  <2>3. LayersPartitionNeurons /\ Whole
    BY <1>2 DEF LayoutInv, Whole
  <2>4. QED
    BY <2>1, <2>2, <2>3 DEF LayersPartitionNeurons
<1>5. CASE pc' = "undefined"
  <2>1. TypeOK'
    BY <1>1, <1>2, <1>5 DEF fann_add_layer, TypeOK
  <2>2. QED
    BY <1>3, <1>5, <2>1, NoMeaning
<1>6. CASE pc' = "add_neuron"
  <2>1. /\ layers' = [l \in 0 .. num_layers |->
             IF l < num_layers - 1 THEN layers[l]
             ELSE IF l = num_layers - 1
             THEN [first |-> layers[num_layers - 1].first,
                   last |-> layers[num_layers - 1].first]
             ELSE layers[l - 1]]
        /\ num_layers' = num_layers + 1
        /\ move' = [move EXCEPT !.layer = num_layers - 1]
    BY <1>6 DEF fann_add_layer
  <2>2. layers' \in [0 .. num_layers' - 1 -> [first : Nat, last : Nat]]
    BY <1>4, <2>1
  <2>3. TypeOK'
    <3>1. num_layers' \in Nat /\ num_layers - 1 \in Nat
      BY <1>4, <2>1
    <3>2. move' \in [layer : Nat, neuron_it : Nat, place : Nat, in : Nat, out : Nat,
                    step : Int, output_weight : Int]
      BY <1>1, <2>1, <3>1 DEF TypeOK
    <3>3. QED
      BY <1>1, <1>2, <1>6, <2>2, <3>1, <3>2 DEF TypeOK
  <2>4. LayersWhileInstalling'
    <3>1. /\ num_layers' = NumHidden' + 3 /\ move'.layer = num_layers' - 2
      <4>1. NumHidden' = NumHidden
        BY <1>2 DEF NumHidden
      <4>2. move'.layer = num_layers - 1
        BY <1>1, <2>1 DEF TypeOK
      <4>3. QED
        BY <1>4, <2>1, <4>1, <4>2
    <3>2. layers'[0] = [first |-> 0, last |-> FirstLayer]
      BY <1>4, <2>1
    <3>3. \A l \in 1 .. num_layers' - 3 :
            layers'[l] = [first |-> FirstLayer + l - 1, last |-> FirstLayer + l]
      BY <1>4, <2>1
    <3>4. /\ layers'[num_layers' - 2] = [first |-> total_neurons - NumOutput,
                                         last |-> total_neurons - NumOutput]
          /\ layers'[num_layers' - 1] = [first |-> total_neurons - NumOutput,
                                         last |-> total_neurons]
      BY <1>4, <2>1
    <3>5. total_neurons - NumOutput + 0 = total_neurons - NumOutput
          /\ total_neurons + 0 = total_neurons
      BY <1>4, SizesNat
    <3>6. QED
      BY <1>2, <1>6, <3>1, <3>2, <3>3, <3>4, <3>5 DEF LayersWhileInstalling
  <2>5. LayersPartitionNeurons' /\ WeightsWhileMoving'
    BY <1>6 DEF LayersPartitionNeurons, Whole, WeightsWhileMoving
  <2>6. WeightsPartition'
    BY <1>2, <1>6 DEF LayoutInv, WeightsPartition, FanIn
  <2>7. QED
    BY <1>3, <2>3, <2>4, <2>5, <2>6 DEF LayoutInv
<1>7. QED
  BY <1>2, <1>5, <1>6

(* The new layer takes the first slot of the output layer, which moves up, *)
(* and the loop over the outputs starts with nothing moved.                *)
LEMMA AddCandidateNeuronKeepsLayout ==
  ASSUME LayoutInv, fann_add_candidate_neuron
  PROVE  LayoutInv'
<1> USE DEF totals, choices, best, loop
<1>1. TypeOK /\ NeuronsPresent
  BY DEF LayoutInv
<1>2. /\ pc = "add_neuron"
      /\ UNCHANGED <<loop, num_layers, neurons, weights, connections, cap, totals,
                     choices, best>>
      /\ IF CandidateUsable THEN pc' = "move_outputs"
         ELSE pc' = "undefined" /\ UNCHANGED <<layers, move>>
  BY DEF fann_add_candidate_neuron
<1>3. NeuronsPresent' /\ RoomHeld'
  BY <1>1, <1>2 DEF LayoutInv, NeuronsPresent, RoomHeld, CandidatesFit, num_neurons,
     num_connections, num_candidates, fann_get_cascade_num_candidates
<1>4. /\ total_neurons \in Nat /\ total_neurons >= FirstLayer + NumOutput
      /\ NumHidden \in Nat /\ total_neurons - NumOutput \in Nat
      /\ num_layers = NumHidden + 3 /\ num_layers \in Nat
      /\ move.layer = num_layers - 2 /\ NumHidden' = NumHidden
      /\ layers \in [0 .. num_layers - 1 -> [first : Nat, last : Nat]]
      /\ layers[0] = [first |-> 0, last |-> FirstLayer]
      /\ \A l \in 1 .. num_layers - 3 :
           layers[l] = [first |-> FirstLayer + l - 1, last |-> FirstLayer + l]
      /\ layers[num_layers - 2] = [first |-> total_neurons - NumOutput,
                                   last |-> total_neurons - NumOutput]
      /\ layers[num_layers - 1] = [first |-> total_neurons - NumOutput,
                                   last |-> total_neurons]
  <2>1. /\ total_neurons \in Nat /\ total_neurons >= FirstLayer + NumOutput
        /\ num_layers \in Nat
        /\ layers \in [0 .. num_layers - 1 -> [first : Nat, last : Nat]]
    BY <1>1 DEF TypeOK, NeuronsPresent
  <2>2. /\ NumHidden \in Nat /\ total_neurons - NumOutput \in Nat
        /\ total_neurons - NumOutput + 0 = total_neurons - NumOutput
        /\ total_neurons + 0 = total_neurons
    BY <2>1, SizesNat DEF NumHidden
  <2>3. NumHidden' = NumHidden
    BY <1>2 DEF NumHidden
  <2>4. LayersWhileInstalling
    BY DEF LayoutInv
  <2>5. QED
    BY <1>2, <2>1, <2>2, <2>3, <2>4 DEF LayersWhileInstalling
<1>5. CASE ~CandidateUsable
  <2>1. TypeOK'
    BY <1>1, <1>2, <1>5 DEF TypeOK
  <2>2. QED
    BY <1>2, <1>3, <1>5, <2>1, NoMeaning
<1>6. CASE CandidateUsable
  <2>1. /\ pc' = "move_outputs"
        /\ layers' = [l \in DOMAIN layers |->
             IF l > num_layers - 2
             THEN [first |-> layers[l].first + 1, last |-> layers[l].last + 1]
             ELSE IF l = num_layers - 2 THEN [layers[l] EXCEPT !.last = @ + 1]
             ELSE layers[l]]
        /\ move' = [layer |-> num_layers - 2, place |-> layers[num_layers - 2].last,
                    neuron_it |-> layers[num_layers - 1].last,
                    in |-> layers[num_layers - 2].first,
                    out |-> layers[num_layers - 1].last
                              - layers[num_layers - 2 + 1].first,
                    step |-> layers[num_layers - 2].first
                      + (layers[num_layers - 1].last
                           - layers[num_layers - 2 + 1].first),
                    output_weight |-> Candidate.last_con]
    BY <1>4, <1>6 DEF fann_add_candidate_neuron, Lifted
  <2>2. /\ layers[num_layers - 2].first = total_neurons - NumOutput
        /\ layers[num_layers - 2].last = total_neurons - NumOutput
        /\ layers[num_layers - 1].last = total_neurons
        /\ layers[num_layers - 2 + 1].first = total_neurons - NumOutput
        /\ total_neurons - (total_neurons - NumOutput) = NumOutput
        /\ total_neurons - NumOutput + NumOutput = total_neurons
    BY <1>4, SizesNat
  <2>3. move' = [layer |-> num_layers - 2, place |-> total_neurons - NumOutput,
                 neuron_it |-> total_neurons, in |-> total_neurons - NumOutput,
                 out |-> NumOutput, step |-> total_neurons,
                 output_weight |-> Candidate.last_con]
    BY <2>1, <2>2
  <2>4. Candidate.last_con \in Int
    BY <1>1, <1>6 DEF CandidateUsable, Candidate, TypeOK
  <2>5. /\ move' \in [layer : Nat, neuron_it : Nat, place : Nat, in : Nat,
                      out : Nat, step : Int, output_weight : Int]
        /\ move'.layer = move.layer /\ move'.in = total_neurons - NumOutput
        /\ move'.out = NumOutput /\ move'.step = total_neurons
        /\ move'.place = total_neurons - NumOutput
        /\ move'.neuron_it = total_neurons
    <3>1. num_layers - 2 \in Nat
      BY <1>4
    <3>2. /\ total_neurons - NumOutput \in Nat /\ total_neurons \in Int
          /\ total_neurons \in Nat /\ NumOutput \in Nat
      BY <1>4, SizesNat
    <3>3. move.layer = num_layers - 2
      BY <1>4
    <3>4. QED
      BY <2>3, <2>4, <3>1, <3>2, <3>3
  <2>6. layers' \in [0 .. num_layers - 1 -> [first : Nat, last : Nat]]
    <3>1. layers' = [l \in 0 .. num_layers - 1 |->
             IF l > num_layers - 2
             THEN [first |-> layers[l].first + 1, last |-> layers[l].last + 1]
             ELSE IF l = num_layers - 2 THEN [layers[l] EXCEPT !.last = @ + 1]
             ELSE layers[l]]
      BY <1>4, <2>1
    <3>2. \A l \in 0 .. num_layers - 1 : layers[l] \in [first : Nat, last : Nat]
      BY <1>4
    <3>3. QED
      BY <3>1, <3>2
  <2>7. TypeOK'
    <3>1. pc' = "move_outputs"
      BY <2>1
    <3>2. move' \in [layer : Nat, neuron_it : Nat, place : Nat, in : Nat,
                    out : Nat, step : Int, output_weight : Int]
      BY <2>5
    <3>3. QED
      BY <1>1, <1>2, <2>6, <3>1, <3>2 DEF TypeOK
  <2>8. LayersWhileInstalling'
    <3>1. layers'[0] = [first |-> 0, last |-> FirstLayer]
      BY <1>4, <2>1
    <3>2. \A l \in 1 .. num_layers - 3 :
            layers'[l] = [first |-> FirstLayer + l - 1, last |-> FirstLayer + l]
      BY SMTT(40), <1>4, <2>1
    <3>3. layers'[num_layers - 2] = [first |-> total_neurons - NumOutput,
                                    last |-> total_neurons - NumOutput + 1]
      BY SMTT(40), <1>4, <2>1
    <3>4. layers'[num_layers - 1] = [first |-> total_neurons - NumOutput + 1,
                                    last |-> total_neurons + 1]
      BY <1>4, <2>1
    <3>5. QED
      BY <1>2, <1>4, <2>1, <2>5, <3>1, <3>2, <3>3, <3>4 DEF LayersWhileInstalling
  <2>9. WeightsWhileMoving'
    <3>1. WeightsPartition /\ cap.neurons > 0 /\ total_connections' = total_connections
      BY SMTT(40), <1>1, <1>2 DEF LayoutInv, NeuronsPresent, TypeOK
    <3>2. /\ neurons[FirstLayer].first_con = 0
          /\ neurons[total_neurons - 1].last_con = total_connections
          /\ \A n \in FirstLayer .. total_neurons - 1 :
               neurons[n].last_con = neurons[n].first_con + FanIn(n)
          /\ \A n \in FirstLayer .. total_neurons - 2 :
               neurons[n + 1].first_con = neurons[n].last_con
      BY <1>2, <3>1 DEF WeightsPartition
    <3>3. /\ total_neurons' = total_neurons /\ neurons' = neurons
          /\ \A n : FanIn(n)' = FanIn(n)
      BY <1>2 DEF FanIn
    <3>4. \A n \in FirstLayer .. total_neurons : ~(n > total_neurons)
      BY <1>4, SizesNat
    <3>5. /\ total_neurons - NumOutput <= total_neurons
          /\ total_neurons <= total_neurons
          /\ \A n \in FirstLayer .. total_neurons - 1 : ~(n > total_neurons)
      BY <1>4, SizesNat
    <3>6. QED
      BY <2>5, <3>1, <3>2, <3>3, <3>4, <3>5 DEF WeightsWhileMoving
  <2>10. LayersPartitionNeurons' /\ WeightsPartition'
    BY <2>1 DEF LayersPartitionNeurons, Whole, WeightsPartition
  <2>11. QED
    BY <1>3, <2>7, <2>8, <2>9, <2>10 DEF LayoutInv
<1>7. QED
  BY <1>5, <1>6

(* One iteration of the loop.  The neuron that leaves slot it - 1 for slot *)
(* it keeps its weights and gets one more behind them; its range then ends *)
(* where the range of the neuron above begins.                             *)
LEMMA MoveOutputKeepsLayout ==
  ASSUME LayoutInv, MoveOutputNeuron
  PROVE  LayoutInv'
<1> USE DEF totals, choices, best, loop
<1> DEFINE it == move.neuron_it
           T == total_neurons
           old == neurons[it - 1]
           new == [old EXCEPT !.first_con = @ + move.step - 1,
                              !.last_con = old.last_con + move.step]
<1>1. TypeOK /\ NeuronsPresent
  BY DEF LayoutInv
<1>2. /\ pc = "move_outputs" /\ it # move.place
      /\ UNCHANGED <<loop, layers, num_layers, connections, cap, totals, choices,
                     best>>
      /\ \/ pc' = "undefined" /\ UNCHANGED <<neurons, weights, move>>
         \/ /\ pc' = pc
            /\ neurons' = [neurons EXCEPT ![it] = new]
            /\ DOMAIN weights' = DOMAIN weights
            /\ move' = [move EXCEPT !.neuron_it = @ - 1, !.step = @ - 1,
                                    !.output_weight = @ + 1]
  BY DEF MoveOutputNeuron, MovedNeuron, WeightAfterMove, MovedUp
<1>3. NeuronsPresent' /\ RoomHeld'
  BY <1>1, <1>2 DEF LayoutInv, NeuronsPresent, RoomHeld, CandidatesFit, num_neurons,
     num_connections, num_candidates, fann_get_cascade_num_candidates
<1>4. CASE pc' = "undefined"
  <2>1. TypeOK'
    BY <1>1, <1>2, <1>4 DEF TypeOK
  <2>2. QED
    BY <1>3, <1>4, <2>1, NoMeaning
<1>5. CASE pc' # "undefined"
  <2>1. /\ pc' = "move_outputs" /\ UNCHANGED <<T, total_connections>>
        /\ neurons' = [neurons EXCEPT ![it] = new]
        /\ move' = [move EXCEPT !.neuron_it = @ - 1, !.step = @ - 1,
                                !.output_weight = @ + 1]
    BY <1>2, <1>5
  <2>2. /\ T \in Nat /\ T >= FirstLayer + NumOutput /\ total_connections \in Int
        /\ DOMAIN neurons = 0 .. cap.neurons - 1 /\ cap.neurons \in Nat
        /\ \A n \in DOMAIN neurons :
             neurons[n].first_con \in Int /\ neurons[n].last_con \in Int
        /\ it \in Nat
        /\ move \in [layer : Nat, neuron_it : Nat, place : Nat, in : Nat,
                     out : Nat, step : Int, output_weight : Int]
    BY <1>1 DEF TypeOK, NeuronsPresent
  <2>3. num_neurons > T /\ num_neurons \in Nat /\ num_neurons <= cap.neurons
    BY <1>1, <1>2, NeededNat DEF LayoutInv, RoomHeld, CandidatesFit
  <2>4. \A n \in 0 .. T : n \in DOMAIN neurons
    BY <2>2, <2>3
  <2>5. WeightsWhileMoving
    BY DEF LayoutInv
  <2>6. /\ move.place = T - NumOutput /\ move.in = T - NumOutput
        /\ move.out = NumOutput /\ move.place <= it /\ it <= T /\ move.step = it
    BY <1>2, <2>5 DEF WeightsWhileMoving
  <2>7. it - 1 \in FirstLayer .. T - 1 /\ it >= 1 /\ it - 1 >= T - NumOutput
        /\ it - 1 \in Nat /\ it \in FirstLayer .. T
    BY SMTT(40), <1>2, <2>2, <2>6, SizesNat
  <2>range. /\ T \in Nat /\ it \in Nat /\ FirstLayer \in Nat /\ NumOutput \in Nat
            /\ FirstLayer <= it - 1 /\ it <= T /\ T - NumOutput <= it - 1
    BY <2>2, <2>7, SizesNat
  <2>8. /\ new.first_con = old.first_con + it - 1
        /\ new.last_con = old.last_con + it
        /\ old.first_con \in Int /\ old.last_con \in Int
    <3>1. it - 1 \in DOMAIN neurons
      BY <2>2, <2>4, <2>7
    <3>2. QED
      BY <2>2, <2>6, <3>1
  <2>9. /\ neurons'[it] = new
        /\ \A n \in DOMAIN neurons : n # it => neurons'[n] = neurons[n]
        /\ DOMAIN neurons' = DOMAIN neurons
    BY <2>1, <2>2, <2>4, <2>7
  <2>10. /\ move' \in [layer : Nat, neuron_it : Nat, place : Nat, in : Nat,
                       out : Nat, step : Int, output_weight : Int]
         /\ move'.neuron_it = it - 1 /\ move'.step = it - 1
         /\ move'.place = move.place /\ move'.in = move.in
         /\ move'.out = move.out /\ move'.layer = move.layer
    <3> DEFINE up == [move EXCEPT !.neuron_it = @ - 1, !.step = @ - 1,
                                  !.output_weight = @ + 1]
    <3>1. /\ move.step \in Int /\ move.output_weight \in Int /\ it - 1 \in Nat
          /\ move.step - 1 \in Int /\ move.output_weight + 1 \in Int
      BY <2>2, <2>7
    <3>2. /\ up \in [layer : Nat, neuron_it : Nat, place : Nat, in : Nat,
                     out : Nat, step : Int, output_weight : Int]
          /\ up.neuron_it = it - 1 /\ up.step = move.step - 1
          /\ up.place = move.place /\ up.in = move.in
          /\ up.out = move.out /\ up.layer = move.layer
      BY <2>2, <3>1
    <3>3. QED
      BY <2>1, <2>6, <3>2
  <2>11. \A n \in DOMAIN neurons' :
           neurons'[n].first_con \in Int /\ neurons'[n].last_con \in Int
    <3> TAKE n \in DOMAIN neurons'
    <3>1. CASE n = it
      <4>1. old.first_con + it - 1 \in Int /\ old.last_con + it \in Int
        <5> HIDE DEF it, T, old, new
        <5>1. it \in Int
          BY <2>2
        <5>2. QED
          BY <2>8, <5>1
      <4>2. QED
        BY <2>8, <2>9, <3>1, <4>1
    <3>2. CASE n # it
      BY <2>2, <2>9, <3>2
    <3>3. QED
      BY <3>1, <3>2
  <2>12. TypeOK'
    <3>1. DOMAIN weights' = DOMAIN weights
      BY <1>2, <1>5
    <3>2. QED
      BY <1>1, <1>2, <2>1, <2>9, <2>10, <2>11, <3>1 DEF TypeOK
  <2>13. LayersWhileInstalling'
    BY <1>2, <2>1, <2>10 DEF LayoutInv, LayersWhileInstalling, NumHidden
  <2>14. WeightsWhileMoving'
    <3>1. /\ neurons[FirstLayer].first_con = 0
          /\ \A n \in FirstLayer .. T - 1 :
               n <= it => neurons[n].last_con = neurons[n].first_con + FanIn(n)
          /\ \A n \in FirstLayer .. T - 2 :
               n < it => neurons[n + 1].first_con = neurons[n].last_con
          /\ \A n \in FirstLayer .. T :
               n > it => neurons[n].last_con = neurons[n].first_con + T - NumOutput + 1
          /\ \A n \in FirstLayer .. T - 1 :
               n > it => neurons[n + 1].first_con = neurons[n].last_con
          /\ it = T => neurons[T - 1].last_con = total_connections
          /\ it # T => /\ neurons[T].last_con = total_connections + T
                      /\ neurons[it + 1].first_con = neurons[it].first_con + it
      BY <1>2, <2>5 DEF WeightsWhileMoving
    <3>2. \A n \in 0 .. T : n # it => neurons'[n] = neurons[n]
      BY <2>4, <2>9
    <3>3. neurons'[FirstLayer].first_con = 0
      <4>1. FirstLayer \in 0 .. T /\ FirstLayer # it
        BY <2>2, <2>7, SizesNat
      <4>2. QED
        BY <3>1, <3>2, <4>1
    <3>4. ASSUME NEW n \in FirstLayer .. T - 1, n <= it - 1
          PROVE  neurons'[n].last_con = neurons'[n].first_con + FanIn(n)
      <4>1. n \in 0 .. T /\ n # it /\ n <= it
        BY <2>range, <3>4
      <4>2. QED
        BY <3>1, <3>2, <4>1
    <3>5. ASSUME NEW n \in FirstLayer .. T - 2, n < it - 1
          PROVE  neurons'[n + 1].first_con = neurons'[n].last_con
      <4>1. n \in 0 .. T /\ n + 1 \in 0 .. T /\ n # it /\ n + 1 # it /\ n < it
        BY <2>range, <3>5
      <4>2. QED
        BY <3>1, <3>2, <4>1
    <3>6. ASSUME NEW n \in FirstLayer .. T, n > it - 1
          PROVE  neurons'[n].last_con = neurons'[n].first_con + T - NumOutput + 1
      <4>1. CASE n = it
        <5>1. FanIn(it - 1) = T - NumOutput
          BY <2>range DEF FanIn
        <5>2. old.last_con = old.first_con + (T - NumOutput)
          <6>1. it - 1 \in FirstLayer .. T - 1 /\ it - 1 <= it
            BY <2>range
          <6>2. QED
            BY <3>1, <5>1, <6>1
        <5>3. QED
          <6>1. \A a, b, c, d \in Int :
                  b = a + (c - d) => b + it = a + it - 1 + c - d + 1
            BY SMTT(40), <2>2
          <6>2. T \in Int /\ NumOutput \in Int
            BY <2>2, SizesNat
          <6>3. old.last_con + it = old.first_con + it - 1 + T - NumOutput + 1
            BY <2>8, <5>2, <6>1, <6>2
          <6>4. QED
            BY <2>8, <2>9, <4>1, <6>3
      <4>2. CASE n # it
        <5>1. n > it /\ n \in 0 .. T
          BY <2>range, <3>6, <4>2
        <5>2. QED
          BY <3>1, <3>2, <4>2, <5>1
      <4>3. QED
        BY <4>1, <4>2
    <3>7. ASSUME NEW n \in FirstLayer .. T - 1, n > it - 1
          PROVE  neurons'[n + 1].first_con = neurons'[n].last_con
      <4>1. CASE n = it
        <5>1. it # T /\ it + 1 \in 0 .. T /\ it + 1 # it
          <6> HIDE DEF it, T, old, new
          <6>1. QED
            BY <2>range, <3>7, <4>1
        <5>2. it - 1 \in FirstLayer .. T - 2 /\ it - 1 < it /\ it - 1 + 1 = it
          <6> HIDE DEF it, T, old, new
          <6>1. QED
            BY <2>range, <5>1
        <5>3. neurons[it].first_con = old.last_con
          BY <3>1, <5>2
        <5>4. QED
          BY ZenonT(40), <2>8, <2>9, <3>1, <3>2, <4>1, <5>1, <5>3
      <4>2. CASE n # it
        <5>1. n > it /\ n \in 0 .. T /\ n + 1 \in 0 .. T /\ n + 1 # it
          BY <2>range, <3>7, <4>2
        <5>2. QED
          BY <3>1, <3>2, <4>2, <5>1
      <4>3. QED
        BY <4>1, <4>2
    <3>8. neurons'[T].last_con = total_connections + T
      <4>1. CASE it = T
        BY <2>8, <2>9, <3>1, <4>1
      <4>2. CASE it # T
        BY SMTT(40), <2>2, <3>1, <3>2, <4>2
      <4>3. QED
        BY <4>1, <4>2
    <3>9. neurons'[it].first_con = neurons'[it - 1].first_con + (it - 1)
      <4>1. neurons'[it - 1] = old
        <5>1. it - 1 \in 0 .. T /\ it - 1 # it
          <6> HIDE DEF it, T, old, new
          <6>1. QED
            BY <2>range
        <5>2. QED
          BY <3>2, <5>1
      <4>2. QED
        <5> HIDE DEF it, T, old, new
        <5>1. it \in Int /\ old.first_con \in Int
          BY <2>2, <2>8
        <5>2. neurons'[it].first_con = old.first_con + it - 1
          BY <2>8, <2>9
        <5>3. neurons'[it - 1].first_con = old.first_con
          BY <4>1
        <5>4. QED
          BY <5>1, <5>2, <5>3
    <3>10. /\ T' = T /\ total_connections' = total_connections
           /\ \A n : FanIn(n)' = FanIn(n)
      BY <2>1 DEF FanIn
    <3>11. /\ it - 1 # T /\ move.place <= it - 1 /\ it - 1 <= T
           /\ it - 1 + 1 = it
      BY <1>2, <2>2, <2>6, <2>7
    <3>12. QED
      BY <2>1, <2>6, <2>10, <3>3, <3>4, <3>5, <3>6, <3>7, <3>8, <3>9, <3>10, <3>11
         DEF WeightsWhileMoving
  <2>15. LayersPartitionNeurons' /\ WeightsPartition'
    BY <2>1 DEF LayersPartitionNeurons, Whole, WeightsPartition
  <2>16. QED
    BY <1>3, <2>12, <2>13, <2>14, <2>15 DEF LayoutInv
<1>6. QED
  BY <1>4, <1>5

(* The hole that is left when all outputs have moved is exactly the size   *)
(* of the new neuron's weights.                                            *)
LEMMA PlaceNeuronKeepsLayout ==
  ASSUME LayoutInv, PlaceNeuron
  PROVE  LayoutInv'
<1> USE DEF totals, choices, best, loop
<1> DEFINE p == move.place
           T == total_neurons
           last == neurons[p + 1].first_con
           new == [first_con |-> last - move.in, last_con |-> last,
                   kind |-> Candidate.kind]
<1>1. TypeOK /\ NeuronsPresent
  BY DEF LayoutInv
<1>2. /\ pc = "move_outputs" /\ move.neuron_it = p
      /\ UNCHANGED <<max_neurons, layers, num_layers, connections, cap,
                     total_neurons_allocated, total_connections_allocated,
                     choices, best, move>>
      /\ \/ pc' = "undefined" /\ UNCHANGED <<neurons, weights, round, T,
                                             total_connections>>
         \/ /\ pc' \in {"outputs", "final"}
            /\ neurons' = [neurons EXCEPT ![p] = new]
            /\ DOMAIN weights' = DOMAIN weights
            /\ T' = T + 1 /\ round' = round + 1
            /\ total_connections' = total_connections + move.in + move.out
  BY DEF PlaceNeuron, Copied
<1>3. CASE pc' = "undefined"
  <2>1. TypeOK'
    BY <1>1, <1>2, <1>3 DEF TypeOK
  <2>2. NeuronsPresent'
    BY <1>1, <1>2, <1>3 DEF NeuronsPresent
  <2>3. QED
    BY <1>3, <2>1, <2>2, NoMeaning
<1>4. CASE pc' # "undefined"
  <2>1. /\ pc' \in {"outputs", "final"}
        /\ neurons' = [neurons EXCEPT ![p] = new]
        /\ T' = T + 1 /\ round' = round + 1
        /\ total_connections' = total_connections + move.in + move.out
    BY <1>2, <1>4
  <2>2. /\ T \in Nat /\ T >= FirstLayer + NumOutput /\ total_connections \in Nat
        /\ DOMAIN neurons = 0 .. cap.neurons - 1 /\ cap.neurons \in Nat
        /\ \A n \in DOMAIN neurons :
             neurons[n].first_con \in Int /\ neurons[n].last_con \in Int
    BY <1>1 DEF TypeOK, NeuronsPresent
  <2>3. num_neurons > T /\ num_neurons \in Nat /\ num_neurons <= cap.neurons
    BY <1>1, <1>2, NeededNat DEF LayoutInv, RoomHeld, CandidatesFit
  <2>4. \A n \in 0 .. T : n \in DOMAIN neurons
    BY <2>2, <2>3
  <2>5. WeightsWhileMoving
    BY DEF LayoutInv
  <2>6. p = T - NumOutput /\ move.in = p /\ move.out = NumOutput
    BY <1>2, <2>5 DEF WeightsWhileMoving
  <2>7. p \in FirstLayer .. T - 1 /\ p # T /\ p + 1 \in 0 .. T /\ p \in 0 .. T
        /\ p + NumOutput = T
    BY <2>2, <2>6, SizesNat
  <2>8. /\ neurons[FirstLayer].first_con = 0
        /\ \A n \in FirstLayer .. T - 1 :
             n <= p => neurons[n].last_con = neurons[n].first_con + FanIn(n)
        /\ \A n \in FirstLayer .. T - 2 :
             n < p => neurons[n + 1].first_con = neurons[n].last_con
        /\ \A n \in FirstLayer .. T :
             n > p => neurons[n].last_con = neurons[n].first_con + T - NumOutput + 1
        /\ \A n \in FirstLayer .. T - 1 :
             n > p => neurons[n + 1].first_con = neurons[n].last_con
        /\ neurons[T].last_con = total_connections + T
        /\ last = neurons[p].first_con + p
    BY <1>2, <2>5, <2>7 DEF WeightsWhileMoving
  <2>9. neurons[p].first_con \in Int /\ last \in Int
    BY <2>2, <2>4, <2>7
  <2>10. new.first_con = neurons[p].first_con /\ new.last_con = neurons[p].first_con + p
    BY <2>6, <2>7, <2>8, <2>9
  <2>11. /\ neurons'[p] = new /\ DOMAIN neurons' = DOMAIN neurons
         /\ \A n \in DOMAIN neurons : n # p => neurons'[n] = neurons[n]
    BY <2>1, <2>4, <2>7
  <2>12. total_connections' = total_connections + T
    BY <2>1, <2>2, <2>6, <2>7, SizesNat
  <2>13. \A n \in DOMAIN neurons' :
           neurons'[n].first_con \in Int /\ neurons'[n].last_con \in Int
    <3> TAKE n \in DOMAIN neurons'
    <3>1. CASE n = p
      <4>1. neurons[p].first_con + p \in Int
        BY <2>7, <2>9
      <4>2. QED
        BY <2>9, <2>10, <2>11, <3>1, <4>1
    <3>2. CASE n # p
      BY <2>2, <2>11, <3>2
    <3>3. QED
      BY <3>1, <3>2
  <2>14. TypeOK'
    <3>0. round \in Nat
      BY <1>1 DEF TypeOK
    <3>1. /\ T' \in Nat /\ total_connections' \in Nat /\ round' \in Nat
      <4>1. T + 1 \in Nat /\ total_connections + T \in Nat /\ round + 1 \in Nat
        BY <2>2, <3>0
      <4>2. QED
        BY <2>1, <2>12, <4>1
    <3>2. DOMAIN weights' = DOMAIN weights
      BY <1>2, <1>4
    <3>3. QED
      BY <1>1, <1>2, <2>1, <2>11, <2>13, <3>1, <3>2 DEF TypeOK
  <2>15. NeuronsPresent' /\ RoomHeld'
    <3>1. T' >= FirstLayer + NumOutput /\ cap'.neurons >= T' /\ cap'.neurons # 0
      BY <1>2, <2>1, <2>2, <2>3, SizesNat
    <3>2. QED
      BY <2>1, <3>1 DEF NeuronsPresent, RoomHeld
  <2>16. LayersPartitionNeurons'
    <3>1. /\ num_layers = NumHidden + 3 /\ layers[0] = [first |-> 0, last |-> FirstLayer]
          /\ \A l \in 1 .. num_layers - 3 :
               layers[l] = [first |-> FirstLayer + l - 1, last |-> FirstLayer + l]
          /\ layers[num_layers - 2] = [first |-> T - NumOutput,
                                       last |-> T - NumOutput + 1]
          /\ layers[num_layers - 1] = [first |-> T - NumOutput + 1, last |-> T + 1]
      BY <1>2 DEF LayoutInv, LayersWhileInstalling
    <3>2. /\ NumHidden \in Nat /\ NumHidden' = NumHidden + 1
          /\ num_layers - 2 = NumHidden + 1 /\ NumHidden + FirstLayer = T - NumOutput
      BY SMTT(40), <2>1, <2>2, <3>1, SizesNat DEF NumHidden
    <3>3. num_layers = NumHidden' + 2
      BY <3>1, <3>2
    <3>4. ASSUME NEW l \in 1 .. num_layers - 2
          PROVE  layers[l] = [first |-> FirstLayer + l - 1, last |-> FirstLayer + l]
      <4>1. CASE l = num_layers - 2
        <5>0. l = NumHidden + 1 /\ NumHidden \in Int
          BY <3>2, <4>1
        <5>1. FirstLayer + l - 1 = T - NumOutput /\ FirstLayer + l = T - NumOutput + 1
          <6>1. FirstLayer \in Int /\ T - NumOutput \in Int
                /\ NumHidden + FirstLayer = T - NumOutput
            BY <2>2, <3>2, SizesNat
          <6>2. FirstLayer + (NumHidden + 1) - 1 = NumHidden + FirstLayer
                /\ FirstLayer + (NumHidden + 1) = NumHidden + FirstLayer + 1
            BY <5>0, <6>1
          <6>3. QED
            BY <5>0, <6>1, <6>2
        <5>2. QED
          BY <3>1, <4>1, <5>1
      <4>2. CASE l # num_layers - 2
        BY <3>1, <3>2, <4>2
      <4>3. QED
        BY <4>1, <4>2
    <3>5. T' - NumOutput = T - NumOutput + 1 /\ T' = T + 1
      BY <2>1, <2>2, SizesNat
    <3>6. layers' = layers /\ num_layers' = num_layers
      BY <1>2
    <3>7. layers[num_layers - 1] = [first |-> T' - NumOutput, last |-> T']
      BY <3>1, <3>5
    <3>8. \A l \in 1 .. num_layers - 2 :
            layers[l] = [first |-> FirstLayer + l - 1, last |-> FirstLayer + l]
      BY <3>4
    <3>9. QED
      BY <3>1, <3>3, <3>6, <3>7, <3>8 DEF LayersPartitionNeurons
  <2>17. WeightsPartition'
    <3>1. \A n \in 0 .. T : n # p => neurons'[n] = neurons[n]
      BY <2>4, <2>11
    <3>2. neurons'[FirstLayer].first_con = 0
      <4>1. CASE FirstLayer = p
        BY <2>8, <2>10, <2>11, <4>1
      <4>2. CASE FirstLayer # p
        <5>1. FirstLayer \in 0 .. T
          BY <2>2, SizesNat
        <5>2. QED
          BY <2>8, <3>1, <4>2, <5>1
      <4>3. QED
        BY <4>1, <4>2
    <3>3. neurons'[T].last_con = total_connections + T
      <4>1. T \in 0 .. T
        BY <2>2
      <4>2. QED
        BY <2>7, <2>8, <3>1, <4>1
    <3>4. ASSUME NEW n \in FirstLayer .. T
          PROVE  neurons'[n].last_con = neurons'[n].first_con + FanIn(n)'
      <4>1. FanIn(n)' = IF n < p + 1 THEN n ELSE p + 1
        <5>1. T' - NumOutput = p + 1
          BY <2>1, <2>2, <2>6, SizesNat
        <5>2. QED
          BY <5>1 DEF FanIn
      <4>2. CASE n = p
        <5>1. FanIn(n)' = p
          BY <2>7, <4>1, <4>2
        <5>2. QED
          BY <2>9, <2>10, <2>11, <4>2, <5>1
      <4>3. CASE n < p
        <5>1. n \in FirstLayer .. T - 1 /\ n <= p /\ n # p /\ n \in 0 .. T
          BY SMTT(40), <2>2, <2>7, <4>3, SizesNat
        <5>2. FanIn(n) = n /\ FanIn(n)' = n
          BY <2>2, <2>6, <2>7, <4>1, <4>3 DEF FanIn
        <5>3. QED
          BY <2>8, <3>1, <5>1, <5>2
      <4>4. CASE n > p
        <5>1. n \in 0 .. T /\ n # p
          BY <2>2, <2>7, <4>4, SizesNat
        <5>2. FanIn(n)' = p + 1
          BY <2>7, <4>1, <4>4, SizesNat
        <5>3. neurons[n].first_con \in Int
          BY <2>2, <2>4, <5>1
        <5>4. neurons[n].last_con = neurons[n].first_con + (p + 1)
          BY <2>2, <2>6, <2>7, <2>8, <4>4, <5>3, SizesNat
        <5>5. QED
          BY <3>1, <5>1, <5>2, <5>4
      <4>5. QED
        BY <2>2, <2>7, <4>2, <4>3, <4>4, SizesNat
    <3>5. ASSUME NEW n \in FirstLayer .. T - 1
          PROVE  neurons'[n + 1].first_con = neurons'[n].last_con
      <4>1. n \in 0 .. T /\ n + 1 \in 0 .. T /\ n + 1 # n
        BY <2>2, SizesNat
      <4>2. CASE n = p
        <5>1. p + 1 # p
          BY <2>7
        <5>2. QED
          BY <2>8, <2>10, <2>11, <3>1, <4>1, <4>2, <5>1
      <4>3. CASE n < p
        <5>1. n \in FirstLayer .. T - 2 /\ n # p
          BY SMTT(40), <2>2, <2>7, <4>3, SizesNat
        <5>2. neurons'[n + 1].first_con = neurons[n + 1].first_con
          BY <2>10, <2>11, <3>1, <4>1
        <5>3. QED
          BY <2>8, <3>1, <4>1, <4>3, <5>1, <5>2
      <4>4. CASE n > p
        <5>1. n # p /\ n + 1 # p
          BY <2>7, <4>4
        <5>2. QED
          BY <2>8, <3>1, <4>1, <4>4, <5>1
      <4>5. QED
        BY <2>2, <2>7, <4>2, <4>3, <4>4, SizesNat
    <3>6. T' - 1 = T /\ T' - 2 = T - 1
      BY <2>1, <2>2
    <3>7. QED
      BY <2>12, <3>2, <3>3, <3>4, <3>5, <3>6 DEF WeightsPartition
  <2>18. LayersWhileInstalling' /\ WeightsWhileMoving'
    BY <2>1 DEF LayersWhileInstalling, WeightsWhileMoving
  <2>19. QED
    BY <2>14, <2>15, <2>16, <2>17, <2>18 DEF LayoutInv
<1>5. QED
  BY <1>3, <1>4

----------------------------------------------------------------------------
(* The theorems.                                                           *)

(* Every call of fann_cascadetrain_on_data, and every setter a caller runs *)
(* in between, keeps the inductive invariant.                              *)
THEOREM LayoutStep == LayoutInv /\ [Next]_vars => LayoutInv'
<1> SUFFICES ASSUME LayoutInv, [Next]_vars PROVE LayoutInv'
  OBVIOUS
<1>1. CASE UNCHANGED vars
  BY ZenonT(40), <1>1 DEF LayoutInv, TypeOK, NeuronsPresent, RoomHeld,
     CandidatesFit, LayersPartitionNeurons, LayersWhileInstalling, WeightsPartition,
     WeightsWhileMoving, Whole, NumHidden, FanIn, num_neurons, num_connections,
     num_candidates, fann_get_cascade_num_candidates,
     vars, loop, heap, totals, choices, best
<1>2. ASSUME NEW which \in {"functions", "steepnesses"}, NEW n \in ListSizes,
             SetCandidateList(which, n)
      PROVE  LayoutInv'
  <2>1. /\ CallerRuns /\ settings' = [settings EXCEPT ![which] = n]
        /\ pc' \in {pc, "undefined"}
        /\ null_lists' \in {null_lists, null_lists \ {which},
                            null_lists \union {which}}
        /\ UNCHANGED <<loop, heap, totals, best, move>>
    BY <1>2 DEF SetCandidateList
  <2>2. null_lists \subseteq {"functions", "steepnesses"}
    BY DEF LayoutInv, TypeOK
  <2>3. null_lists' \subseteq {"functions", "steepnesses"}
    BY <2>1, <2>2
  <2>4. QED
    BY <2>1, <2>3, SettersKeepLayout
<1>3. ASSUME NEW which \in {"groups", "max_cand_epochs"}, NEW n,
             which = "groups" => n \in GroupSizes,
             which = "max_cand_epochs" => n \in CandEpochs,
             SetCandidateScalar(which, n)
      PROVE  LayoutInv'
  <2>1. /\ CallerRuns /\ settings' = [settings EXCEPT ![which] = n]
        /\ pc' = pc /\ null_lists' = null_lists
        /\ UNCHANGED <<loop, heap, totals, best, move>>
    BY <1>3 DEF SetCandidateScalar
  <2>2. null_lists \subseteq {"functions", "steepnesses"}
    BY DEF LayoutInv, TypeOK
  <2>3. QED
    BY <1>3, <2>1, <2>2, SettersKeepLayout
<1>4. CASE \/ \E m \in 0 .. MaxHidden : StartTraining(m)
           \/ StopGrowing \/ KeepGrowing \/ fann_set_shortcut_connections
  BY <1>4, CallsKeepLayout
<1>5. CASE TrainOutputs \/ TrainOutputsLastTime
  BY <1>5, TrainOutputsKeepsLayout
<1>6. CASE fann_initialize_candidates
  BY <1>6, InitializeCandidatesKeepsLayout
<1>7. CASE NeuronReallocFails \/ ConnectionReallocFails
  BY <1>7, FailedReallocKeepsLayout
<1>8. CASE fann_train_candidates
  BY <1>8, TrainCandidatesKeepsLayout
<1>9. CASE fann_add_layer
  BY <1>9, AddLayerKeepsLayout
<1>10. CASE fann_add_candidate_neuron
  BY <1>10, AddCandidateNeuronKeepsLayout
<1>11. CASE MoveOutputNeuron
  BY <1>11, MoveOutputKeepsLayout
<1>12. CASE PlaceNeuron
  BY <1>12, PlaceNeuronKeepsLayout
<1>13. QED
  BY <1>1, <1>2, <1>3, <1>4, <1>5, <1>6, <1>7, <1>8, <1>9, <1>10, <1>11, <1>12
     DEF Next

(* The inductive invariant holds in every reachable state.                 *)
THEOREM LayoutAlways == Spec => []LayoutInv
BY InitLayout, LayoutStep, PTL DEF Spec

(* The variables have their types; above all, the arrays are exactly as    *)
(* long as their heap blocks.                                              *)
THEOREM TypeCorrect == Spec => []TypeOK
<1>1. LayoutInv => TypeOK
  BY DEF LayoutInv
<1>2. QED
  BY <1>1, LayoutAlways, PTL

(* A first layer, hidden layers of one neuron, and an output layer, next   *)
(* to each other, after any number of rounds of fann_cascadetrain_on_data  *)
(* and whatever allocation failed.                                         *)
THEOREM LayersCorrect == Spec => []LayersPartitionNeurons
<1>1. LayoutInv => LayersPartitionNeurons
  BY DEF LayoutInv
<1>2. QED
  BY <1>1, LayoutAlways, PTL

(* fann_add_candidate_neuron leaves every neuron with one weight for each  *)
(* neuron below its layer, and the weight array without a gap.             *)
THEOREM WeightsCorrect == Spec => []WeightsPartition
<1>1. LayoutInv => WeightsPartition
  BY DEF LayoutInv
<1>2. QED
  BY <1>1, LayoutAlways, PTL

----------------------------------------------------------------------------
(* The room for the candidates, as long as allocations succeed.            *)

(* The blocks of a new network have exactly the sizes on record.           *)
LEMMA InitRecord == Init => RecordInv
<1> SUFFICES ASSUME Init PROVE RecordInv
  OBVIOUS
<1>1. \A a, b \in Nat : a >= 1 /\ b >= 1 => a * b \in Nat /\ a * b >= 1
  BY SMT
<1>2. FirstLayer * NumOutput \in Nat /\ FirstLayer * NumOutput >= 1
  BY <1>1, SizesNat
<1>3. FirstLayer + NumOutput \in Nat /\ FirstLayer + NumOutput >= 1
  BY SizesNat
<1>4. /\ total_neurons_allocated = FirstLayer + NumOutput
      /\ total_neurons = FirstLayer + NumOutput
      /\ total_connections_allocated = FirstLayer * NumOutput
      /\ cap = [neurons |-> FirstLayer + NumOutput, train_errors |-> 0,
                connections |-> FirstLayer * NumOutput,
                weights |-> FirstLayer * NumOutput, train_slopes |-> 0,
                prev_steps |-> 0, prev_train_slopes |-> 0]
      /\ pc = "idle"
  BY DEF Init
<1> HIDE DEF Init
<1>5. AllocatedOnRecord
  BY <1>2, <1>3, <1>4 DEF AllocatedOnRecord
<1>6. QED
  BY <1>2, <1>3, <1>4, <1>5 DEF RecordInv

(* Steps that leave the sizes alone.                                       *)
LEMMA RecordUntouched ==
  ASSUME RecordInv,
         UNCHANGED <<cap, total_neurons_allocated, total_connections_allocated>>,
         total_neurons' = total_neurons \/ cap.train_errors # 0,
         \/ pc' \in {"idle", "outputs", "final", "connect", "undefined"}
         \/ pc \notin {"idle", "outputs", "final", "connect", "undefined"}
  PROVE  RecordInv'
BY DEF RecordInv, AllocatedOnRecord

(* What fann_initialize_candidates allocates is at least what is on record *)
(* afterwards, and that is at least what it needs.                         *)
LEMMA RoomEnough ==
  ASSUME LayoutInv, RecordInv, fann_initialize_candidates
  PROVE  CandidatesFit(cap') /\ RecordInv'
<1>1. TypeOK /\ NeuronsPresent
  BY DEF LayoutInv
<1>2. cap \in Sizes /\ total_neurons_allocated \in Nat
      /\ total_connections_allocated \in Nat /\ total_neurons \in Nat
  BY <1>1 DEF TypeOK, Sizes
<1>3. /\ num_neurons \in Nat /\ neurons_to_allocate \in Nat
      /\ num_neurons > total_neurons /\ neurons_to_allocate >= num_neurons
      /\ num_connections \in Nat /\ connections_to_allocate \in Nat
      /\ connections_to_allocate >= num_connections
  BY <1>1, NeededNat
<1>4. /\ pc = "candidates" /\ pc' \in {"train", "undefined"}
      /\ total_neurons' = total_neurons
      /\ cap' = IF NeedConnections
                THEN fann_reallocate_connections(MakeRoom, AllDone) ELSE MakeRoom
      /\ total_neurons_allocated' =
           IF NeedNeurons THEN neurons_to_allocate ELSE total_neurons_allocated
      /\ total_connections_allocated' =
           IF NeedConnections THEN connections_to_allocate
           ELSE total_connections_allocated
  BY DEF fann_initialize_candidates
<1>5. /\ AllocatedOnRecord
      /\ total_neurons_allocated > 0 /\ total_connections_allocated > 0
      /\ cap.train_errors # 0 /\ cap.train_slopes # 0
      /\ cap.prev_steps # 0 /\ cap.prev_train_slopes # 0
  BY <1>4 DEF RecordInv
<1>6. /\ MakeRoom = [cap EXCEPT !.neurons = MakeRoom.neurons,
                                !.train_errors = MakeRoom.train_errors]
      /\ MakeRoom.neurons >= total_neurons_allocated'
      /\ MakeRoom.train_errors >= total_neurons_allocated'
      /\ total_neurons_allocated' >= num_neurons
      /\ total_neurons_allocated' \in Nat
      /\ MakeRoom.neurons \in Nat /\ MakeRoom.train_errors \in Nat
  <2>1. CASE NeedNeurons
    <3>1. MakeRoom = [cap EXCEPT !.neurons = neurons_to_allocate,
                                 !.train_errors = neurons_to_allocate]
      BY <2>1 DEF MakeRoom, fann_reallocate_neurons
    <3>2. MakeRoom.neurons = neurons_to_allocate
          /\ MakeRoom.train_errors = neurons_to_allocate
      BY <1>2, <3>1 DEF Sizes
    <3>3. QED
      BY <1>3, <1>4, <2>1, <3>1, <3>2
  <2>2. CASE ~NeedNeurons
    <3>1. MakeRoom = cap /\ total_neurons_allocated' = total_neurons_allocated
      BY <1>4, <2>2 DEF MakeRoom
    <3>2. total_neurons_allocated >= num_neurons
      BY <1>2, <1>3, <2>2 DEF NeedNeurons
    <3>3. cap = [cap EXCEPT !.neurons = cap.neurons,
                            !.train_errors = cap.train_errors]
      BY <1>2 DEF Sizes
    <3>4. cap.neurons >= total_neurons_allocated
          /\ cap.train_errors >= total_neurons_allocated
          /\ cap.neurons \in Nat /\ cap.train_errors \in Nat
      BY <1>2, <1>5 DEF AllocatedOnRecord, Sizes
    <3>5. QED
      BY <1>2, <3>1, <3>2, <3>3, <3>4
  <2>3. QED
    BY <2>1, <2>2
<1>7. /\ cap'.neurons = MakeRoom.neurons
      /\ cap'.train_errors = MakeRoom.train_errors
      /\ total_connections_allocated' >= num_connections
      /\ total_connections_allocated' \in Nat
      /\ \A size \in {cap'.connections, cap'.weights, cap'.train_slopes,
                      cap'.prev_steps, cap'.prev_train_slopes} :
           size \in Nat /\ size >= total_connections_allocated'
  <2>1. CASE NeedConnections
    <3>1. cap' = [neurons |-> MakeRoom.neurons,
                  train_errors |-> MakeRoom.train_errors,
                  connections |-> connections_to_allocate,
                  weights |-> connections_to_allocate,
                  train_slopes |-> connections_to_allocate,
                  prev_steps |-> connections_to_allocate,
                  prev_train_slopes |-> connections_to_allocate]
      BY <1>4, <2>1 DEF fann_reallocate_connections, AllDone
    <3>2. QED
      BY <1>3, <1>4, <2>1, <3>1
  <2>2. CASE ~NeedConnections
    <3>1. cap' = MakeRoom
          /\ total_connections_allocated' = total_connections_allocated
      BY <1>4, <2>2
    <3>2. total_connections_allocated >= num_connections
      BY <1>2, <1>3, <2>2 DEF NeedConnections
    <3>3. /\ MakeRoom.connections = cap.connections
          /\ MakeRoom.weights = cap.weights
          /\ MakeRoom.train_slopes = cap.train_slopes
          /\ MakeRoom.prev_steps = cap.prev_steps
          /\ MakeRoom.prev_train_slopes = cap.prev_train_slopes
      BY <1>2, <1>6 DEF Sizes
    <3>4. \A size \in {cap.connections, cap.weights, cap.train_slopes,
                       cap.prev_steps, cap.prev_train_slopes} :
            size \in Nat /\ size >= total_connections_allocated
      BY <1>2, <1>5 DEF AllocatedOnRecord, Sizes
    <3>5. QED
      BY <1>2, <3>1, <3>2, <3>3, <3>4
  <2>3. QED
    BY <2>1, <2>2
<1>8. CandidatesFit(cap')
  BY <1>3, <1>6, <1>7 DEF CandidatesFit
<1>9. RecordInv'
  <2>1. AllocatedOnRecord'
    BY <1>6, <1>7 DEF AllocatedOnRecord
  <2>2. total_neurons_allocated' > 0 /\ total_connections_allocated' > 0
    <3>1. total_neurons_allocated' > 0
      BY <1>2, <1>3, <1>6
    <3>2. total_connections \in Nat /\ total_neurons >= 1
      BY SMTT(40), <1>1, SizesNat DEF TypeOK, NeuronsPresent
    <3>3. num_connections >= 1
      BY <1>1, <1>2, <1>3, <3>2, NeededNat
    <3>4. QED
      BY <1>3, <1>7, <3>1, <3>3
  <2>3. /\ cap'.train_errors # 0 /\ cap'.train_slopes # 0
        /\ cap'.prev_steps # 0 /\ cap'.prev_train_slopes # 0
    BY <1>6, <1>7, <2>2
  <2>4. QED
    BY <2>1, <2>2, <2>3 DEF RecordInv
<1>10. QED
  BY <1>8, <1>9

(* The training arrays are allocated with the sizes on record; train_errors *)
(* with the number of neurons, which then is the same.                     *)
LEMMA TrainOutputsKeepsRecord ==
  ASSUME LayoutInv, RecordInv, TrainOutputs \/ TrainOutputsLastTime
  PROVE  RecordInv'
<1>1. /\ pc \in {"outputs", "final"} /\ pc' \in {"report", "connect", "undefined"}
      /\ UNCHANGED <<total_neurons, total_neurons_allocated,
                     total_connections_allocated>>
      /\ \/ cap' = cap /\ pc' = "undefined"
         \/ cap' = LazilyAllocated
  BY DEF TrainOutputs, TrainOutputsLastTime, fann_train_outputs, totals
<1>2. CASE cap' = cap /\ pc' = "undefined"
  BY <1>1, <1>2, RecordUntouched
<1>3. CASE cap' = LazilyAllocated
  <2>1. cap \in Sizes /\ total_neurons_allocated \in Nat
        /\ total_connections_allocated \in Nat /\ total_neurons \in Nat
    BY DEF LayoutInv, TypeOK, Sizes
  <2>2. /\ cap'.neurons = cap.neurons /\ cap'.connections = cap.connections
        /\ cap'.weights = cap.weights
        /\ cap'.train_errors = OrElse(cap.train_errors, total_neurons)
        /\ cap'.train_slopes = OrElse(cap.train_slopes, total_connections_allocated)
        /\ cap'.prev_steps = OrElse(cap.prev_steps, total_connections_allocated)
        /\ cap'.prev_train_slopes =
             OrElse(cap.prev_train_slopes, total_connections_allocated)
    BY <1>3, <2>1 DEF LazilyAllocated, Sizes
  <2>3. /\ AllocatedOnRecord
        /\ total_neurons_allocated > 0 /\ total_connections_allocated > 0
        /\ cap.train_errors = 0 => total_neurons_allocated = total_neurons
    BY DEF RecordInv
  <2>4. /\ cap'.train_errors # 0 /\ cap'.train_slopes # 0
        /\ cap'.prev_steps # 0 /\ cap'.prev_train_slopes # 0
    BY <2>1, <2>2, <2>3 DEF OrElse
  <2>5. AllocatedOnRecord'
    BY <1>1, <2>1, <2>2, <2>3 DEF AllocatedOnRecord, OrElse, Sizes
  <2>6. QED
    BY <1>1, <2>3, <2>4, <2>5 DEF RecordInv
<1>4. QED
  BY <1>1, <1>2, <1>3

(* No step but a failed allocation breaks the record.                      *)
LEMMA RecordStep ==
  ASSUME ~AllocMayFail, LayoutInv, RecordInv, [Next]_vars
  PROVE  RecordInv'
<1> USE DEF loop, heap, totals, choices, best
<1>1. CASE UNCHANGED vars
  BY <1>1 DEF RecordInv, AllocatedOnRecord, vars
<1>2. ASSUME NEW which, NEW n,
             SetCandidateList(which, n) \/ SetCandidateScalar(which, n)
      PROVE  RecordInv'
  <2>1. /\ UNCHANGED <<cap, total_neurons, total_neurons_allocated,
                       total_connections_allocated>>
        /\ pc \in {"idle", "report"} /\ pc' \in {pc, "undefined"}
    BY <1>2 DEF SetCandidateList, SetCandidateScalar, CallerRuns
  <2>2. QED
    BY <2>1, RecordUntouched
<1>3. CASE \/ \E m \in 0 .. MaxHidden : StartTraining(m)
           \/ StopGrowing \/ KeepGrowing \/ fann_set_shortcut_connections
  <2>1. /\ UNCHANGED <<cap, total_neurons, total_neurons_allocated,
                       total_connections_allocated>>
        /\ \/ pc' \in {"idle", "outputs", "final", "undefined"}
           \/ pc = "report"
    BY <1>3 DEF StartTraining, StopGrowing, KeepGrowing,
                fann_set_shortcut_connections
  <2>2. QED
    BY <2>1, RecordUntouched
<1>4. CASE TrainOutputs \/ TrainOutputsLastTime
  BY <1>4, TrainOutputsKeepsRecord
<1>5. CASE fann_initialize_candidates
  BY <1>5, RoomEnough
<1>6. CASE NeuronReallocFails \/ ConnectionReallocFails
  BY <1>6 DEF NeuronReallocFails, ConnectionReallocFails
<1>7. CASE \/ fann_train_candidates \/ fann_add_layer
           \/ fann_add_candidate_neuron \/ MoveOutputNeuron
  <2>1. /\ UNCHANGED <<cap, total_neurons, total_neurons_allocated,
                       total_connections_allocated>>
        /\ pc \in {"train", "add_layer", "add_neuron", "move_outputs"}
    BY <1>7 DEF fann_train_candidates, fann_add_layer,
                fann_add_candidate_neuron, MoveOutputNeuron
  <2>2. QED
    BY <2>1, RecordUntouched
<1>8. CASE PlaceNeuron
  <2>1. /\ UNCHANGED <<cap, total_neurons_allocated,
                       total_connections_allocated>>
        /\ pc = "move_outputs"
        /\ pc' \in {"outputs", "final", "undefined"}
    BY <1>8 DEF PlaceNeuron
  <2>2. cap.train_errors # 0
    BY <2>1 DEF RecordInv
  <2>3. QED
    BY <2>1, <2>2, RecordUntouched
<1>9. QED
  BY <1>1, <1>2, <1>3, <1>4, <1>5, <1>6, <1>7, <1>8 DEF Next

(* As long as every allocation succeeds, the sizes that the network has on *)
(* record never exceed its heap blocks.                                    *)
THEOREM RecordCorrect ==
  ASSUME ~AllocMayFail
  PROVE  Spec => []AllocatedOnRecord
<1>1. RecordInv => AllocatedOnRecord
  BY DEF RecordInv
<1>2. LayoutInv /\ RecordInv /\ [Next]_vars => LayoutInv' /\ RecordInv'
  BY LayoutStep, RecordStep
<1>3. QED
  BY <1>1, <1>2, InitLayout, InitRecord, PTL DEF Spec

(* However often the network has grown and however many candidates there  *)
(* are, fann_initialize_candidates writes them inside every block they     *)
(* index, as long as every allocation succeeds.                            *)
THEOREM RoomCorrect ==
  ASSUME ~AllocMayFail
  PROVE  Spec => RoomIsMade
<1>1. LayoutInv /\ RecordInv /\ [Next]_vars => LayoutInv' /\ RecordInv'
  BY LayoutStep, RecordStep
<1>2. LayoutInv /\ RecordInv =>
        [fann_initialize_candidates => CandidatesFit(cap')]_vars
  BY RoomEnough
<1>3. QED
  BY <1>1, <1>2, InitLayout, InitRecord, PTL DEF Spec, RoomIsMade

----------------------------------------------------------------------------
(* The order of the weights, with or without allocation failures           *)

(* The slots that hold a neuron of the network: while the outputs move,    *)
(* there is one more slot and a hole among them.                           *)
Slots ==
  IF pc = "move_outputs" THEN (FirstLayer .. total_neurons) \ {move.neuron_it}
                         ELSE FirstLayer .. total_neurons - 1

(* Where the weights of the network end, the hole included.                *)
End ==
  IF pc = "move_outputs" THEN total_connections + total_neurons
                         ELSE total_connections

(* WeightsPartition says where the weights of a neuron start when those of *)
(* the neuron before it are known.  That the ranges of any two neurons are *)
(* disjoint takes an induction over the neurons, so it is an invariant of  *)
(* its own.                                                                *)
RangesInOrder ==
  pc # "undefined" /\ cap.neurons > 0 =>
    /\ \A n \in Slots :
         /\ 0 <= neurons[n].first_con
         /\ neurons[n].first_con <= neurons[n].last_con
         /\ neurons[n].last_con <= End
    /\ \A m, n \in Slots :
         m < n => neurons[m].last_con <= neurons[n].first_con

OrderInv == RangesInOrder /\ ConnectionsRestored

(* Output n of a new network follows output m.                             *)
LEMMA MultiplesOrdered ==
  ASSUME NEW size \in Nat, NEW m \in Nat, NEW n \in Nat, m <= n
  PROVE  0 <= m * size /\ m * size <= n * size /\ n * size \in Nat
OBVIOUS

(* Position i of block n, in blocks of one size.                           *)
LEMMA PositionInBlock ==
  ASSUME NEW size \in Nat, NEW n \in Nat, NEW i \in 0 .. size - 1
  PROVE  (n * size + i) % size = i /\ (n * size + i) \div size = n
OBVIOUS

(* The neurons of a new network own consecutive blocks of weights.         *)
LEMMA CreatedInOrder == Init => OrderInv
<1> SUFFICES ASSUME Init PROVE OrderInv
  OBVIOUS
<1> USE SizesNat
<1>1. /\ pc = "idle" /\ total_neurons = FirstLayer + NumOutput
      /\ total_connections = FirstLayer * NumOutput
      /\ connections = [w \in 0 .. FirstLayer * NumOutput - 1 |-> w % FirstLayer]
      /\ \A n \in 0 .. total_neurons - 1 : neurons[n] = CreatedNeuron(n)
  BY DEF Init
<1>2. Slots = FirstLayer .. total_neurons - 1 /\ End = total_connections
  BY <1>1 DEF Slots, End
<1>3. ASSUME NEW n \in FirstLayer .. total_neurons - 1
      PROVE  /\ n - FirstLayer \in Nat /\ n - FirstLayer + 1 \in Nat
             /\ n - FirstLayer + 1 <= NumOutput
             /\ neurons[n].first_con = (n - FirstLayer) * FirstLayer
             /\ neurons[n].last_con = (n - FirstLayer + 1) * FirstLayer
             /\ FanIn(n) = FirstLayer
  <2>1. neurons[n] = CreatedNeuron(n) /\ ~(n < FirstLayer)
    BY <1>1
  <2>2. QED
    BY <1>1, <2>1 DEF CreatedNeuron, FanIn
<1>4. NumOutput * FirstLayer = FirstLayer * NumOutput
  OBVIOUS
<1>5. ASSUME NEW n \in FirstLayer .. total_neurons - 1
      PROVE  /\ 0 <= neurons[n].first_con
             /\ neurons[n].first_con <= neurons[n].last_con
             /\ neurons[n].last_con <= total_connections
  <2> DEFINE j == n - FirstLayer
  <2>1. /\ j \in Nat /\ j + 1 \in Nat /\ j <= j + 1 /\ j + 1 <= NumOutput
        /\ neurons[n].first_con = j * FirstLayer
        /\ neurons[n].last_con = (j + 1) * FirstLayer
    BY <1>3
  <2> HIDE DEF j
  <2>2. 0 <= j * FirstLayer /\ j * FirstLayer <= (j + 1) * FirstLayer
    BY <2>1, MultiplesOrdered
  <2>3. (j + 1) * FirstLayer <= NumOutput * FirstLayer
    BY <2>1, MultiplesOrdered
  <2>4. QED
    BY <1>1, <1>4, <2>1, <2>2, <2>3
<1>6. ASSUME NEW m \in FirstLayer .. total_neurons - 1,
             NEW n \in FirstLayer .. total_neurons - 1, m < n
      PROVE  neurons[m].last_con <= neurons[n].first_con
  <2> DEFINE i == m - FirstLayer + 1
             j == n - FirstLayer
  <2>1. /\ i \in Nat /\ j \in Nat
        /\ neurons[m].last_con = i * FirstLayer
        /\ neurons[n].first_con = j * FirstLayer
    BY <1>3
  <2>2. i <= j
    BY <1>1, <1>6
  <2> HIDE DEF i, j
  <2>3. QED
    BY <2>1, <2>2, MultiplesOrdered
<1>7. RangesInOrder
  BY <1>2, <1>5, <1>6 DEF RangesInOrder
<1>8. ASSUME NEW n \in FirstLayer .. total_neurons - 1, NEW i \in 0 .. FanIn(n) - 1
      PROVE  connections[neurons[n].first_con + i] = i
  <2>1. i \in 0 .. FirstLayer - 1
    BY <1>3
  <2>2. (n - FirstLayer + 1) * FirstLayer = (n - FirstLayer) * FirstLayer + FirstLayer
    BY <1>3
  <2>3. /\ (n - FirstLayer) * FirstLayer \in Nat
        /\ (n - FirstLayer + 1) * FirstLayer <= NumOutput * FirstLayer
        /\ NumOutput * FirstLayer \in Nat
    BY <1>3, MultiplesOrdered
  <2>4. (n - FirstLayer) * FirstLayer + i \in 0 .. FirstLayer * NumOutput - 1
    BY <1>4, <2>1, <2>2, <2>3
  <2>5. ((n - FirstLayer) * FirstLayer + i) % FirstLayer = i
    BY <1>3, <2>1, PositionInBlock
  <2>6. QED
    BY <1>1, <1>3, <2>4, <2>5
<1>9. ConnectionsRestored
  BY <1>8 DEF ConnectionsRestored
<1>10. QED
  BY <1>7, <1>9 DEF OrderInv

(* No step but the last two of an installation moves a neuron of the       *)
(* network, and none of them changes how many there are.                   *)
LEMMA NetworkNeuronsStay ==
  ASSUME LayoutInv, [Next]_vars, pc # "move_outputs"
  PROVE  /\ UNCHANGED <<total_neurons, total_connections>>
         /\ cap'.neurons > 0 =>
              /\ cap.neurons > 0
              /\ \A n \in 0 .. total_neurons - 1 : neurons'[n] = neurons[n]
<1> USE DEF loop, heap, totals, choices, best
<1>1. /\ TypeOK /\ NeuronsPresent
      /\ total_neurons \in Nat /\ cap.neurons \in Nat
      /\ cap \in Sizes /\ DOMAIN neurons = 0 .. cap.neurons - 1
  BY DEF LayoutInv, TypeOK, Sizes
<1>2. CASE \/ UNCHANGED <<total_neurons, total_connections, neurons, cap>>
  BY <1>2
<1>3. CASE TrainOutputs \/ TrainOutputsLastTime
  <2>1. /\ UNCHANGED <<total_neurons, total_connections, neurons>>
        /\ cap' = cap \/ cap' = LazilyAllocated
    BY <1>3 DEF TrainOutputs, TrainOutputsLastTime, fann_train_outputs
  <2>2. LazilyAllocated.neurons = cap.neurons
    BY <1>1 DEF LazilyAllocated, Sizes
  <2>3. QED
    BY <2>1, <2>2
<1>4. CASE pc = "candidates" /\ (\/ fann_initialize_candidates
                                 \/ NeuronReallocFails \/ ConnectionReallocFails)
  <2>1. cap.neurons > 0 /\ cap.neurons >= total_neurons
    BY <1>1, <1>4 DEF NeuronsPresent
  <2>2. UNCHANGED <<total_neurons, total_connections>>
    BY <1>4 DEF fann_initialize_candidates, NeuronReallocFails,
                ConnectionReallocFails
  <2>3. cap'.neurons \in {0, cap.neurons, neurons_to_allocate}
    <3>1. CASE fann_initialize_candidates
      BY <1>1, <3>1, ReallocSizes DEF fann_initialize_candidates, AllDone
    <3>2. CASE NeuronReallocFails
      BY <1>1, <3>2 DEF NeuronReallocFails, Sizes
    <3>3. CASE ConnectionReallocFails
      BY <1>1, <3>3, ReallocSizes DEF ConnectionReallocFails, AllDone
    <3>4. QED
      BY <1>4, <3>1, <3>2, <3>3
  <2>4. neurons_to_allocate \in Nat /\ neurons_to_allocate > total_neurons
        /\ num_neurons \in Nat
    BY <1>1, NeededNat
  <2>5. ASSUME NEW n \in 0 .. total_neurons - 1, cap'.neurons > 0
        PROVE  neurons'[n] = neurons[n]
    <3>1. n \in 0 .. cap'.neurons - 1 /\ n \in DOMAIN neurons
      BY <1>1, <2>1, <2>3, <2>4, <2>5
    <3>2. n \notin first_candidate_neuron .. num_neurons - 1
      BY <1>1, <2>4 DEF first_candidate_neuron
    <3>3. QED
      BY <1>4, <3>1, <3>2 DEF fann_initialize_candidates, NeuronReallocFails,
         ConnectionReallocFails, Resize
  <2>6. QED
    BY <2>1, <2>2, <2>5
<1>5. \/ UNCHANGED <<total_neurons, total_connections, neurons, cap>>
      \/ TrainOutputs \/ TrainOutputsLastTime
      \/ pc = "candidates" /\ (\/ fann_initialize_candidates
                               \/ NeuronReallocFails \/ ConnectionReallocFails)
  BY DEF Next, vars, SetCandidateList, SetCandidateScalar, StartTraining,
     StopGrowing, KeepGrowing, fann_initialize_candidates, NeuronReallocFails,
     ConnectionReallocFails, fann_train_candidates, fann_add_layer,
     fann_add_candidate_neuron, MoveOutputNeuron, PlaceNeuron,
     fann_set_shortcut_connections
<1>6. QED
  BY <1>2, <1>3, <1>4, <1>5

(* The moves start with the last output; what C gives no meaning has no    *)
(* further step.                                                           *)
LEMMA MovesStartAtTheEnd ==
  ASSUME LayoutInv, [Next]_vars, pc # "move_outputs"
  PROVE  /\ pc' = "move_outputs" => move'.neuron_it = total_neurons
         /\ pc' # "undefined" => pc # "undefined"
<1>1. pc' # "undefined" => pc # "undefined"
  BY DEF Next, vars, SetCandidateList, SetCandidateScalar, StartTraining,
     CallerRuns, TrainOutputs, TrainOutputsLastTime, fann_train_outputs,
     StopGrowing, KeepGrowing, fann_initialize_candidates, NeuronReallocFails,
     ConnectionReallocFails, fann_train_candidates, fann_add_layer,
     fann_add_candidate_neuron, MoveOutputNeuron, PlaceNeuron,
     fann_set_shortcut_connections
<1>2. pc' = "move_outputs" => fann_add_candidate_neuron
  BY DEF Next, vars, SetCandidateList, SetCandidateScalar, StartTraining,
     CallerRuns, TrainOutputs, TrainOutputsLastTime, fann_train_outputs,
     StopGrowing, KeepGrowing, fann_initialize_candidates, NeuronReallocFails,
     ConnectionReallocFails, fann_train_candidates, TrainingEpochs,
     fann_add_layer, fann_add_candidate_neuron, MoveOutputNeuron, PlaceNeuron,
     fann_set_shortcut_connections
<1>3. ASSUME fann_add_candidate_neuron, pc' = "move_outputs"
      PROVE  move'.neuron_it = total_neurons
  <2>1. pc = "add_neuron" /\ move'.neuron_it = layers[num_layers - 1].last
    BY <1>3 DEF fann_add_candidate_neuron
  <2>2. /\ layers[num_layers - 1] =
             [first |-> total_neurons - NumOutput, last |-> total_neurons]
    BY <2>1, SizesNat DEF LayoutInv, LayersWhileInstalling, TypeOK
  <2>3. QED
    BY <2>1, <2>2
<1>4. QED
  BY <1>1, <1>2, <1>3

(* While no output is on the move, the order is the one of the neurons     *)
(* that stay where they are.                                               *)
LEMMA OrderUntouched ==
  ASSUME LayoutInv, RangesInOrder, [Next]_vars, pc # "move_outputs"
  PROVE  RangesInOrder'
<1> SUFFICES ASSUME pc' # "undefined", cap'.neurons > 0
             PROVE  RangesInOrder'
  BY DEF RangesInOrder
<1>1. /\ UNCHANGED <<total_neurons, total_connections>>
      /\ cap.neurons > 0 /\ pc # "undefined"
      /\ \A n \in 0 .. total_neurons - 1 : neurons'[n] = neurons[n]
      /\ total_neurons \in Nat /\ total_connections \in Nat
  BY NetworkNeuronsStay, MovesStartAtTheEnd DEF LayoutInv, TypeOK
<1>2. Slots = FirstLayer .. total_neurons - 1 /\ End = total_connections
  BY DEF Slots, End
<1>3. Slots' = Slots
  <2>1. CASE pc' = "move_outputs"
    <3>1. Slots' = (FirstLayer .. total_neurons) \ {total_neurons}
      BY <1>1, <2>1, MovesStartAtTheEnd DEF Slots, FirstLayer
    <3>2. QED
      BY <1>1, <1>2, <3>1, SizesNat
  <2>2. CASE pc' # "move_outputs"
    BY <1>1, <1>2, <2>2 DEF Slots, FirstLayer
  <2>3. QED
    BY <2>1, <2>2
<1>4. End' \in Int /\ End <= End'
  BY <1>1, <1>2 DEF End
<1>5. \A n \in Slots : neurons'[n] = neurons[n] /\ n \in 0 .. total_neurons - 1
  BY <1>1, <1>2, SizesNat
<1>6. \A n \in Slots : neurons[n].first_con \in Int /\ neurons[n].last_con \in Int
  <2>1. cap.neurons >= total_neurons /\ cap.neurons \in Nat
        /\ DOMAIN neurons = 0 .. cap.neurons - 1
    BY <1>1 DEF LayoutInv, NeuronsPresent, TypeOK
  <2>2. \A n \in Slots : n \in DOMAIN neurons
    BY <1>1, <1>2, <2>1, SizesNat
  <2>3. QED
    BY <2>2 DEF LayoutInv, TypeOK
<1>7. ASSUME NEW n \in Slots
      PROVE  /\ 0 <= neurons'[n].first_con
             /\ neurons'[n].first_con <= neurons'[n].last_con
             /\ neurons'[n].last_con <= End'
  <2>1. neurons'[n] = neurons[n] /\ neurons[n].last_con \in Int
    BY <1>5, <1>6
  <2>2. /\ 0 <= neurons[n].first_con
        /\ neurons[n].first_con <= neurons[n].last_con
        /\ neurons[n].last_con <= End /\ End \in Int
    BY <1>1, <1>2 DEF RangesInOrder
  <2>3. QED
    BY <1>4, <2>1, <2>2
<1>8. ASSUME NEW m \in Slots, NEW n \in Slots, m < n
      PROVE  neurons'[m].last_con <= neurons'[n].first_con
  BY <1>1, <1>5, <1>8 DEF RangesInOrder
<1>9. QED
  BY <1>3, <1>7, <1>8 DEF RangesInOrder

(* Where the weight that MovedUp puts in a slot was before.                *)
CameFrom(w, first, last, by) ==
  IF w \in first + by .. last + by - 1 THEN w - by ELSE w

(* What one iteration of the loop over the outputs does, in one place: the *)
(* neuron below the hole moves into it, and its weights move up by as many *)
(* slots as are still missing.                                             *)
LEMMA OneOutputMoves ==
  ASSUME LayoutInv, MoveOutputNeuron, pc' # "undefined"
  PROVE  LET T == total_neurons
             it == move.neuron_it
             old == neurons[it - 1]
         IN
         /\ pc = "move_outputs" /\ pc' = "move_outputs"
         /\ T \in Nat /\ it \in Nat /\ it <= T /\ T - NumOutput <= it - 1
         /\ FirstLayer <= T - NumOutput
         /\ UNCHANGED <<total_neurons, total_connections, cap, settings,
                        connections, cascade_best_candidate>>
         /\ total_connections \in Nat
         /\ move'.neuron_it = it - 1
         /\ move'.output_weight = move.output_weight + 1
         /\ move.output_weight \in Int
         /\ neurons'[it].first_con = old.first_con + it - 1
         /\ neurons'[it].last_con = old.last_con + it
         /\ neurons'[it].kind = old.kind
         /\ \A n \in 0 .. cap.neurons - 1 : n # it => neurons'[n] = neurons[n]
         /\ \A n \in 0 .. cap.neurons - 1 :
              neurons[n].first_con \in Int /\ neurons[n].last_con \in Int
         /\ cap.neurons \in Nat /\ T < cap.neurons
         /\ old.first_con \in Int
         /\ old.last_con = old.first_con + (T - NumOutput)
         /\ it = T => old.last_con = total_connections
         /\ it # T => /\ neurons[it].first_con = old.last_con
                      /\ neurons[it + 1].first_con = old.last_con + it
         /\ DOMAIN weights' = DOMAIN weights
         /\ move.output_weight \in DOMAIN weights
         /\ \A w \in DOMAIN weights :
              weights'[w] =
                weights[CameFrom(IF w = old.last_con + it - 1
                                 THEN move.output_weight ELSE w,
                                 old.first_con, old.last_con, it - 1)]
<1> DEFINE T == total_neurons
           it == move.neuron_it
           old == neurons[it - 1]
<1>1. TypeOK /\ NeuronsPresent /\ WeightsWhileMoving /\ RoomHeld
  BY DEF LayoutInv
<1>2. /\ pc = "move_outputs" /\ it # move.place
      /\ UNCHANGED <<total_neurons, total_connections, cap, settings,
                     connections, cascade_best_candidate>>
  BY DEF MoveOutputNeuron, totals, choices, best
<1>3. /\ pc' = "move_outputs"
      /\ neurons' = [neurons EXCEPT ![it] = MovedNeuron(old)]
      /\ DOMAIN weights' = DOMAIN weights
      /\ move.output_weight \in DOMAIN weights
      /\ \A w \in DOMAIN weights :
           weights'[w] = weights[CameFrom(IF w = (old.last_con + move.step) - 1
                                          THEN move.output_weight ELSE w,
                                 old.first_con, old.last_con, move.step - 1)]
      /\ move' = [move EXCEPT !.neuron_it = @ - 1, !.step = @ - 1,
                              !.output_weight = @ + 1]
  <2>1. move.output_weight \in DOMAIN weights
    BY DEF MoveOutputNeuron
  <2>2. neurons' = [neurons EXCEPT ![it] = MovedNeuron(old)]
    BY <2>1 DEF MoveOutputNeuron
  <2> DEFINE moved == WeightAfterMove(old)
             from(w) == CameFrom(w, old.first_con, old.last_con, move.step - 1)
  <2>3. /\ DOMAIN weights' = DOMAIN weights
        /\ \A w \in DOMAIN weights :
             weights'[w] = weights[from(IF w = (old.last_con + move.step) - 1
                                        THEN move.output_weight ELSE w)]
    <3>1. /\ DOMAIN moved = DOMAIN weights
          /\ \A w \in DOMAIN weights : moved[w] = weights[from(w)]
      BY DEF WeightAfterMove, MovedUp, CameFrom
    <3>2. /\ DOMAIN weights' = DOMAIN moved
          /\ \A w \in DOMAIN moved :
               weights'[w] = moved[IF w = (old.last_con + move.step) - 1
                                   THEN move.output_weight ELSE w]
      <4>1. weights' = [moved EXCEPT ![(old.last_con + move.step) - 1] =
                                        moved[move.output_weight]]
        BY <2>1 DEF MoveOutputNeuron
      <4> HIDE DEF moved, old
      <4>2. QED
        BY <4>1
    <3>3. QED
      BY <2>1, <3>1, <3>2
  <2>4. move' = [move EXCEPT !.neuron_it = @ - 1, !.step = @ - 1,
                             !.output_weight = @ + 1]
    BY <2>1 DEF MoveOutputNeuron
  <2>5. QED
    BY <1>2, <2>1, <2>2, <2>3, <2>4 DEF MoveOutputNeuron
<1>4. /\ T \in Nat /\ T >= FirstLayer + NumOutput /\ total_connections \in Nat
      /\ DOMAIN neurons = 0 .. cap.neurons - 1 /\ cap.neurons \in Nat
      /\ \A n \in DOMAIN neurons :
           neurons[n].first_con \in Int /\ neurons[n].last_con \in Int
      /\ it \in Nat
      /\ move \in [layer : Nat, neuron_it : Nat, place : Nat, in : Nat,
                   out : Nat, step : Int, output_weight : Int]
  BY <1>1 DEF TypeOK, NeuronsPresent
<1>5. num_neurons > T /\ num_neurons \in Nat /\ num_neurons <= cap.neurons
  BY <1>1, <1>2, NeededNat DEF RoomHeld, CandidatesFit
<1>6. /\ move.place = T - NumOutput /\ move.place <= it /\ it <= T
      /\ move.step = it
  BY <1>1, <1>2 DEF WeightsWhileMoving
<1>7. /\ T - NumOutput <= it - 1 /\ FirstLayer <= it - 1 /\ it - 1 \in Nat
      /\ it - 1 \in FirstLayer .. T - 1 /\ FirstLayer <= T - NumOutput
      /\ T < cap.neurons /\ it \in 0 .. cap.neurons - 1
      /\ it - 1 \in 0 .. cap.neurons - 1
  BY SMTT(40), <1>2, <1>4, <1>5, <1>6, SizesNat
<1>8. FanIn(it - 1) = T - NumOutput
  BY SMTT(40), <1>4, <1>7, SizesNat DEF FanIn
<1>9. old.first_con \in Int /\ old.last_con = old.first_con + (T - NumOutput)
  <2>1. old.last_con = old.first_con + FanIn(it - 1)
    BY <1>1, <1>2, <1>7 DEF WeightsWhileMoving
  <2>2. QED
    BY <1>4, <1>7, <1>8, <2>1
<1>10. /\ MovedNeuron(old).first_con = old.first_con + it - 1
       /\ MovedNeuron(old).last_con = old.last_con + it
       /\ MovedNeuron(old).kind = old.kind
  BY <1>6 DEF MovedNeuron
<1>11. /\ neurons'[it] = MovedNeuron(old)
       /\ \A n \in 0 .. cap.neurons - 1 : n # it => neurons'[n] = neurons[n]
  BY <1>3, <1>4, <1>7
<1>12. it = T => old.last_con = total_connections
  BY <1>1, <1>2 DEF WeightsWhileMoving
<1>13. it # T => /\ neurons[it].first_con = old.last_con
                 /\ neurons[it + 1].first_con = old.last_con + it
  <2> SUFFICES ASSUME it # T
               PROVE  /\ neurons[it].first_con = old.last_con
                      /\ neurons[it + 1].first_con = old.last_con + it
    OBVIOUS
  <2>1. it - 1 \in FirstLayer .. T - 2 /\ it - 1 < it /\ it - 1 + 1 = it
    BY SMTT(40), <1>4, <1>6, <1>7, SizesNat
  <2>2. neurons[it - 1 + 1].first_con = neurons[it - 1].last_con
    BY <1>1, <1>2, <2>1 DEF WeightsWhileMoving
  <2>3. neurons[it + 1].first_con = neurons[it].first_con + it
    BY <1>1, <1>2 DEF WeightsWhileMoving
  <2>4. QED
    BY <2>1, <2>2, <2>3
<1>14. move'.neuron_it = it - 1 /\ move'.output_weight = move.output_weight + 1
       /\ move.output_weight \in Int
  BY <1>3, <1>4
<1>15. (old.last_con + move.step) - 1 = old.last_con + it - 1
  BY <1>4, <1>6, <1>9, SizesNat
<1>16. \A w \in DOMAIN weights :
         weights'[w] = weights[CameFrom(IF w = old.last_con + it - 1
                                        THEN move.output_weight ELSE w,
                               old.first_con, old.last_con, it - 1)]
  BY <1>3, <1>6, <1>15
<1>17. QED
  BY <1>2, <1>3, <1>4, <1>6, <1>7, <1>9, <1>10, <1>11, <1>12, <1>13, <1>14,
     <1>16

(* Moving an output up keeps the order: it stays above what is below it,   *)
(* and ends where the output that moved before it starts.                  *)
LEMMA MoveKeepsOrder ==
  ASSUME LayoutInv, RangesInOrder, MoveOutputNeuron
  PROVE  RangesInOrder'
<1> SUFFICES ASSUME pc' # "undefined"
             PROVE  RangesInOrder'
  BY DEF RangesInOrder
<1> DEFINE T == total_neurons
           it == move.neuron_it
           old == neurons[it - 1]
           C == total_connections
<1>1. /\ pc = "move_outputs" /\ pc' = "move_outputs"
      /\ T \in Nat /\ it \in Nat /\ it <= T /\ T - NumOutput <= it - 1
      /\ FirstLayer <= T - NumOutput
      /\ UNCHANGED <<T, C, cap>> /\ C \in Nat
      /\ move'.neuron_it = it - 1
  BY OneOutputMoves
<1>2. /\ neurons'[it].first_con = old.first_con + it - 1
      /\ neurons'[it].last_con = old.last_con + it
      /\ \A n \in 0 .. T : n # it => neurons'[n] = neurons[n]
      /\ \A n \in 0 .. T :
           neurons[n].first_con \in Int /\ neurons[n].last_con \in Int
      /\ cap.neurons > 0
  <2>1. cap.neurons \in Nat /\ T < cap.neurons
        /\ \A n \in 0 .. T : n \in 0 .. cap.neurons - 1
    BY <1>1, OneOutputMoves
  <2>2. QED
    BY <1>1, <2>1, OneOutputMoves
<1>3. /\ old.first_con \in Int /\ old.last_con \in Int
      /\ it = T => old.last_con = C
      /\ it # T => neurons[it + 1].first_con = old.last_con + it
  BY <1>1, OneOutputMoves, SizesNat
<1>4. /\ Slots = (FirstLayer .. T) \ {it} /\ End = C + T
      /\ Slots' = (FirstLayer .. T) \ {it - 1} /\ End' = C + T
  BY <1>1 DEF Slots, End, FirstLayer
<1>5. /\ \A n \in Slots :
           /\ 0 <= neurons[n].first_con
           /\ neurons[n].first_con <= neurons[n].last_con
           /\ neurons[n].last_con <= C + T
      /\ \A m, n \in Slots :
           m < n => neurons[m].last_con <= neurons[n].first_con
  BY <1>1, <1>2, <1>4 DEF RangesInOrder
<1> HIDE DEF T, it, old, C
<1>6. it - 1 \in Slots /\ (it # T => it + 1 \in Slots)
  BY <1>1, <1>4, SizesNat
<1>7. /\ 0 <= old.first_con /\ old.first_con <= old.last_con
      /\ it # T => neurons[it + 1].last_con <= C + T
      /\ it # T => neurons[it + 1].first_con <= neurons[it + 1].last_con
  BY <1>5, <1>6 DEF old
<1>8. old.last_con + it <= C + T
  <2>1. CASE it = T
    BY <1>1, <1>3, <2>1
  <2>2. CASE it # T
    <3>1. it + 1 \in 0 .. T
      BY <1>1, <2>2
    <3>2. QED
      BY <1>1, <1>2, <1>3, <1>7, <2>2, <3>1
  <2>3. QED
    BY <2>1, <2>2
<1>9. ASSUME NEW n \in Slots'
      PROVE  \/ n = it
             \/ n \in Slots /\ n # it /\ n # it - 1 /\ n \in 0 .. T
                /\ neurons'[n] = neurons[n]
  BY <1>1, <1>2, <1>4, SizesNat
<1>10. ASSUME NEW n \in Slots'
       PROVE  /\ 0 <= neurons'[n].first_con
              /\ neurons'[n].first_con <= neurons'[n].last_con
              /\ neurons'[n].last_con <= End'
  <2>1. CASE n = it
    <3>1. /\ old.first_con + it - 1 >= 0
          /\ old.first_con + it - 1 <= old.last_con + it
      BY <1>1, <1>3, <1>7, SizesNat
    <3>2. QED
      BY <1>2, <1>4, <1>8, <2>1, <3>1
  <2>2. CASE n # it
    BY <1>4, <1>5, <1>9, <2>2
  <2>3. QED
    BY <2>1, <2>2
<1>11. ASSUME NEW m \in Slots', NEW n \in Slots', m < n
       PROVE  neurons'[m].last_con <= neurons'[n].first_con
  <2>1. m \in Int /\ n \in Int
    BY <1>4, SizesNat, <1>1
  <2>2. CASE n = it
    <3>1. m # it /\ m < it - 1 /\ m \in Slots /\ m \in 0 .. T
          /\ neurons'[m] = neurons[m]
      BY <1>1, <1>9, <1>11, <2>1, <2>2
    <3>2. neurons[m].last_con <= old.first_con
      BY <1>5, <1>6, <3>1 DEF old
    <3>3. neurons[m].last_con \in Int
      BY <1>2, <3>1
    <3>4. old.first_con <= old.first_con + it - 1
      BY <1>1, <1>3, SizesNat
    <3>5. old.first_con + it - 1 \in Int
      BY <1>1, <1>3
    <3>6. QED
      BY <1>2, <1>3, <2>2, <3>1, <3>2, <3>3, <3>4, <3>5
  <2>3. CASE m = it
    <3>1. n # it /\ n > it /\ n \in Slots /\ n \in 0 .. T
          /\ neurons'[n] = neurons[n] /\ it # T
      BY <1>1, <1>9, <1>11, <2>1, <2>3
    <3>2. neurons[it + 1].first_con <= neurons[n].first_con
      <4>1. CASE n = it + 1
        BY <1>2, <3>1, <4>1
      <4>2. CASE n # it + 1
        <5>1. it + 1 < n /\ it + 1 \in 0 .. T
          BY <1>1, <2>1, <3>1, <4>2
        <5>2. neurons[it + 1].last_con <= neurons[n].first_con
          BY <1>5, <1>6, <3>1, <5>1
        <5>3. /\ neurons[it + 1].first_con \in Int
              /\ neurons[it + 1].last_con \in Int
              /\ neurons[n].first_con \in Int
          BY <1>2, <3>1, <5>1
        <5>4. QED
          BY <1>7, <3>1, <5>2, <5>3
      <4>3. QED
        BY <4>1, <4>2
    <3>3. QED
      BY <1>2, <1>3, <2>3, <3>1, <3>2
  <2>4. CASE m # it /\ n # it
    BY <1>5, <1>9, <1>11, <2>4
  <2>5. QED
    BY <2>2, <2>3, <2>4
<1>12. QED
  BY <1>10, <1>11 DEF RangesInOrder

(* What the end of fann_add_candidate_neuron does: the new neuron gets the *)
(* slot and the weights of the hole, and the candidate's input weights are *)
(* copied there.                                                           *)
LEMMA NewNeuronPlaced ==
  ASSUME LayoutInv, PlaceNeuron, pc' # "undefined"
  PROVE  LET T == total_neurons
             p == move.place
             last == neurons[p + 1].first_con
         IN
         /\ pc = "move_outputs" /\ pc' \in {"outputs", "final"}
         /\ T \in Nat /\ p \in Nat /\ p = T - NumOutput /\ FirstLayer <= p
         /\ move.neuron_it = p
         /\ UNCHANGED <<cap, settings, connections, scores, null_lists>>
         /\ total_neurons' = T + 1
         /\ total_connections \in Nat
         /\ total_connections' = total_connections + T
         /\ cap.neurons \in Nat /\ T < cap.neurons
         /\ neurons'[p] = [first_con |-> last - p, last_con |-> last,
                           kind |-> Candidate.kind]
         /\ \A n \in 0 .. cap.neurons - 1 : n # p => neurons'[n] = neurons[n]
         /\ \A n \in 0 .. cap.neurons - 1 :
              neurons[n].first_con \in Int /\ neurons[n].last_con \in Int
         /\ last = neurons[p].first_con + p
         /\ p # FirstLayer => neurons[p].first_con = neurons[p - 1].last_con
         /\ p = FirstLayer => neurons[p].first_con = 0
         /\ weights' = Copied(weights, Candidate.first_con, last - p, p)
<1> DEFINE T == total_neurons
           p == move.place
           last == neurons[p + 1].first_con
<1>1. TypeOK /\ NeuronsPresent /\ WeightsWhileMoving /\ RoomHeld
  BY DEF LayoutInv
<1>2. /\ pc = "move_outputs" /\ move.neuron_it = p
      /\ UNCHANGED <<cap, settings, connections, scores, null_lists>>
  BY DEF PlaceNeuron, totals, choices, best
<1>3. /\ weights' = Copied(weights, Candidate.first_con, last - move.in, move.in)
      /\ neurons' = [neurons EXCEPT ![p] =
           [first_con |-> last - move.in, last_con |-> last,
            kind |-> Candidate.kind]]
      /\ total_neurons' = total_neurons + 1
      /\ total_connections' = total_connections + move.in + move.out
      /\ pc' \in {"outputs", "final"}
  BY DEF PlaceNeuron
<1>4. /\ T \in Nat /\ T >= FirstLayer + NumOutput /\ total_connections \in Nat
      /\ DOMAIN neurons = 0 .. cap.neurons - 1 /\ cap.neurons \in Nat
      /\ \A n \in DOMAIN neurons :
           neurons[n].first_con \in Int /\ neurons[n].last_con \in Int
      /\ p \in Nat
  BY <1>1 DEF TypeOK, NeuronsPresent
<1>5. T < cap.neurons
  BY <1>1, <1>2, <1>4, NeededNat DEF RoomHeld, CandidatesFit
<1>6. /\ p = T - NumOutput /\ move.in = p /\ move.out = NumOutput
      /\ p # T
  BY <1>1, <1>2, <1>4, SizesNat DEF WeightsWhileMoving
<1>7. FirstLayer <= p /\ p \in 0 .. cap.neurons - 1
  BY <1>4, <1>5, <1>6, SizesNat
<1>8. last = neurons[p].first_con + p
  BY <1>1, <1>2, <1>6 DEF WeightsWhileMoving
<1>9. /\ p # FirstLayer => neurons[p].first_con = neurons[p - 1].last_con
      /\ p = FirstLayer => neurons[p].first_con = 0
  <2>1. p # FirstLayer => /\ p - 1 \in FirstLayer .. T - 2 /\ p - 1 < p
                          /\ p - 1 + 1 = p
    BY <1>4, <1>6, <1>7, SizesNat
  <2>2. /\ neurons[FirstLayer].first_con = 0
        /\ \A n \in FirstLayer .. T - 2 :
             n < p => neurons[n + 1].first_con = neurons[n].last_con
    BY <1>1, <1>2 DEF WeightsWhileMoving
  <2>3. QED
    BY <2>1, <2>2
<1>10. total_connections' = total_connections + T
  BY <1>3, <1>4, <1>6, SizesNat
<1>11. /\ neurons'[p] = [first_con |-> last - p, last_con |-> last,
                         kind |-> Candidate.kind]
       /\ \A n \in 0 .. cap.neurons - 1 : n # p => neurons'[n] = neurons[n]
  BY <1>3, <1>4, <1>6, <1>7
<1>12. weights' = Copied(weights, Candidate.first_con, last - p, p)
  BY <1>3, <1>6
<1>13. QED
  BY <1>2, <1>3, <1>4, <1>5, <1>6, <1>7, <1>8, <1>9, <1>10, <1>11, <1>12

(* The hole lies between the hidden neurons and the outputs, so filling it *)
(* keeps the order.                                                        *)
LEMMA PlacingKeepsOrder ==
  ASSUME LayoutInv, RangesInOrder, PlaceNeuron
  PROVE  RangesInOrder'
<1> SUFFICES ASSUME pc' # "undefined"
             PROVE  RangesInOrder'
  BY DEF RangesInOrder
<1> DEFINE T == total_neurons
           p == move.place
           hole == neurons[p].first_con
           C == total_connections
<1>1. /\ pc = "move_outputs" /\ pc' \in {"outputs", "final"}
      /\ T \in Nat /\ p \in Nat /\ p = T - NumOutput /\ FirstLayer <= p
      /\ p <= T /\ p # T
      /\ move.neuron_it = p /\ T' = T + 1 /\ C' = C + T /\ C \in Nat
  BY NewNeuronPlaced, SizesNat
<1>2. /\ neurons'[p].first_con = hole /\ neurons'[p].last_con = hole + p
      /\ neurons[p + 1].first_con = hole + p
      /\ \A n \in 0 .. T : n # p => neurons'[n] = neurons[n]
      /\ \A n \in 0 .. T :
           neurons[n].first_con \in Int /\ neurons[n].last_con \in Int
      /\ hole \in Int
      /\ cap.neurons > 0
  <2>1. cap.neurons \in Nat /\ T < cap.neurons
        /\ \A n \in 0 .. T : n \in 0 .. cap.neurons - 1
    BY <1>1, NewNeuronPlaced
  <2>2. hole \in Int /\ neurons[p + 1].first_con = hole + p
    BY <1>1, <2>1, NewNeuronPlaced
  <2>3. neurons'[p] = [first_con |-> neurons[p + 1].first_con - p,
                       last_con |-> neurons[p + 1].first_con,
                       kind |-> Candidate.kind]
    BY NewNeuronPlaced
  <2>4. neurons'[p].first_con = hole /\ neurons'[p].last_con = hole + p
    BY <1>1, <2>2, <2>3
  <2>5. QED
    BY <1>1, <2>1, <2>2, <2>4, NewNeuronPlaced
<1>3. /\ p # FirstLayer => hole = neurons[p - 1].last_con
      /\ p = FirstLayer => hole = 0
  BY NewNeuronPlaced
<1>4. /\ Slots = (FirstLayer .. T) \ {p} /\ End = C + T
      /\ Slots' = FirstLayer .. T /\ End' = C + T
  BY <1>1, SizesNat DEF Slots, End, FirstLayer
<1>5. /\ \A n \in Slots :
           /\ 0 <= neurons[n].first_con
           /\ neurons[n].first_con <= neurons[n].last_con
           /\ neurons[n].last_con <= C + T
      /\ \A m, n \in Slots :
           m < n => neurons[m].last_con <= neurons[n].first_con
  BY <1>1, <1>2, <1>4 DEF RangesInOrder
<1> HIDE DEF T, p, hole, C
<1>6. p + 1 \in Slots /\ (p # FirstLayer => p - 1 \in Slots)
  BY <1>1, <1>4, SizesNat
<1>7. 0 <= hole /\ hole + p <= C + T
  <2>1. 0 <= hole
    <3>1. CASE p = FirstLayer
      BY <1>3, <3>1
    <3>2. CASE p # FirstLayer
      <4>1. p - 1 \in 0 .. T
        BY <1>1, <3>2, SizesNat
      <4>2. /\ 0 <= neurons[p - 1].first_con
            /\ neurons[p - 1].first_con <= neurons[p - 1].last_con
            /\ neurons[p - 1].first_con \in Int
            /\ neurons[p - 1].last_con \in Int
        BY <1>2, <1>5, <1>6, <3>2, <4>1
      <4>3. QED
        BY <1>3, <3>2, <4>2
    <3>3. QED
      BY <3>1, <3>2
  <2>2. /\ neurons[p + 1].first_con <= neurons[p + 1].last_con
        /\ neurons[p + 1].last_con <= C + T
        /\ neurons[p + 1].last_con \in Int
    <3>1. p + 1 \in 0 .. T
      BY <1>1
    <3>2. QED
      BY <1>2, <1>5, <1>6, <3>1
  <2>3. QED
    BY <1>1, <1>2, <2>1, <2>2
<1>8. ASSUME NEW n \in Slots'
      PROVE  \/ n = p
             \/ n \in Slots /\ n # p /\ n \in 0 .. T /\ neurons'[n] = neurons[n]
  BY <1>1, <1>2, <1>4, SizesNat
<1>9. ASSUME NEW n \in Slots'
      PROVE  /\ 0 <= neurons'[n].first_con
             /\ neurons'[n].first_con <= neurons'[n].last_con
             /\ neurons'[n].last_con <= End'
  <2>1. CASE n = p
    BY <1>1, <1>2, <1>4, <1>7, <2>1
  <2>2. CASE n # p
    BY <1>4, <1>5, <1>8, <2>2
  <2>3. QED
    BY <2>1, <2>2
<1>10. ASSUME NEW m \in Slots', NEW n \in Slots', m < n
       PROVE  neurons'[m].last_con <= neurons'[n].first_con
  <2>1. m \in Int /\ n \in Int /\ FirstLayer <= m
    BY <1>1, <1>4, SizesNat
  <2>2. CASE n = p
    <3>1. m # p /\ m \in Slots /\ m \in 0 .. T /\ neurons'[m] = neurons[m]
          /\ p # FirstLayer
      BY <1>1, <1>8, <1>10, <2>1, <2>2, SizesNat
    <3>2. CASE m = p - 1
      BY <1>2, <1>3, <2>2, <3>1, <3>2
    <3>3. CASE m # p - 1
      <4>1. m < p - 1 /\ p - 1 \in 0 .. T
        BY <1>1, <1>10, <2>1, <2>2, <3>1, <3>3, SizesNat
      <4>2. /\ neurons[m].last_con <= neurons[p - 1].first_con
            /\ neurons[p - 1].first_con <= neurons[p - 1].last_con
        BY <1>5, <1>6, <3>1, <4>1
      <4>3. /\ neurons[m].last_con \in Int
            /\ neurons[p - 1].first_con \in Int
            /\ neurons[p - 1].last_con \in Int
        BY <1>2, <3>1, <4>1
      <4>4. QED
        BY <1>2, <1>3, <2>2, <3>1, <4>2, <4>3
    <3>4. QED
      BY <3>2, <3>3
  <2>3. CASE m = p
    <3>1. n # p /\ n > p /\ n \in Slots /\ n \in 0 .. T
          /\ neurons'[n] = neurons[n]
      BY <1>1, <1>8, <1>10, <2>1, <2>3
    <3>2. CASE n = p + 1
      BY <1>2, <2>3, <3>1, <3>2
    <3>3. CASE n # p + 1
      <4>1. p + 1 < n /\ p + 1 \in 0 .. T
        BY <1>1, <2>1, <3>1, <3>3
      <4>2. /\ neurons[p + 1].last_con <= neurons[n].first_con
            /\ neurons[p + 1].first_con <= neurons[p + 1].last_con
        BY <1>5, <1>6, <3>1, <4>1
      <4>3. /\ neurons[p + 1].first_con \in Int
            /\ neurons[p + 1].last_con \in Int
            /\ neurons[n].first_con \in Int
        BY <1>2, <3>1, <4>1
      <4>4. QED
        BY <1>2, <2>3, <3>1, <4>2, <4>3
    <3>4. QED
      BY <3>2, <3>3
  <2>4. CASE m # p /\ n # p
    BY <1>5, <1>8, <1>10, <2>4
  <2>5. QED
    BY <2>2, <2>3, <2>4
<1>11. QED
  BY <1>9, <1>10 DEF RangesInOrder

(* No two neurons share a weight, so the source of a connection can be     *)
(* read off the range it lies in.                                          *)
LEMMA SourceFound ==
  ASSUME LayoutInv, RangesInOrder, pc = "connect",
         NEW n \in FirstLayer .. total_neurons - 1, NEW i \in 0 .. FanIn(n) - 1
  PROVE  /\ neurons[n].first_con + i \in 0 .. total_connections - 1
         /\ SourceOf(neurons[n].first_con + i) = i
<1> DEFINE c == neurons[n].first_con + i
           Owns(m) == c \in neurons[m].first_con .. neurons[m].last_con - 1
           owner == CHOOSE m \in FirstLayer .. total_neurons - 1 : Owns(m)
<1>1. /\ total_neurons \in Nat /\ cap.neurons > 0 /\ cap.neurons >= total_neurons
      /\ cap.neurons \in Nat /\ DOMAIN neurons = 0 .. cap.neurons - 1
      /\ NumOutput \in Nat /\ FirstLayer \in Nat
  BY SMTT(40), SizesNat DEF LayoutInv, NeuronsPresent, TypeOK
<1>2. \A m \in FirstLayer .. total_neurons - 1 :
        neurons[m].first_con \in Int /\ neurons[m].last_con \in Int
  <2>1. \A m \in FirstLayer .. total_neurons - 1 : m \in DOMAIN neurons
    BY <1>1
  <2>2. QED
    BY <2>1 DEF LayoutInv, TypeOK
<1>3. /\ Slots = FirstLayer .. total_neurons - 1 /\ End = total_connections
      /\ total_connections \in Int
  BY DEF Slots, End, LayoutInv, TypeOK
<1>4. /\ 0 <= neurons[n].first_con /\ neurons[n].last_con <= total_connections
      /\ \A m \in FirstLayer .. total_neurons - 1 :
           /\ m < n => neurons[m].last_con <= neurons[n].first_con
           /\ n < m => neurons[n].last_con <= neurons[m].first_con
  BY <1>1, <1>3 DEF RangesInOrder
<1>5. neurons[n].last_con = neurons[n].first_con + FanIn(n)
  BY <1>1 DEF LayoutInv, WeightsPartition
<1>6. FanIn(n) \in Int
  BY <1>1 DEF FanIn
<1>7. Owns(n) /\ c \in 0 .. total_connections - 1
  BY SMTT(40), <1>2, <1>3, <1>4, <1>5, <1>6
<1>8. ASSUME NEW m \in FirstLayer .. total_neurons - 1, Owns(m)
      PROVE  m = n
  <2>1. c < neurons[m].last_con /\ neurons[m].first_con <= c /\ c \in Int
        /\ c < neurons[n].last_con /\ neurons[n].first_con <= c
    BY <1>2, <1>7, <1>8
  <2>2. ~(m < n) /\ ~(n < m)
    BY <1>2, <1>4, <2>1
  <2>3. QED
    BY <1>1, <2>2
<1>9. owner \in FirstLayer .. total_neurons - 1 /\ Owns(owner)
  BY <1>7
<1>10. owner = n
  BY <1>8, <1>9
<1>11. SourceOf(c) = c - neurons[owner].first_con
  BY DEF SourceOf
<1> HIDE DEF owner
<1>12. SourceOf(c) = i
  BY <1>2, <1>10, <1>11
<1>13. QED
  BY <1>7, <1>12

(* fann_set_shortcut_connections is the only step that must restore the    *)
(* connections, and the one after it starts another training.              *)
LEMMA ConnectionsStep ==
  ASSUME LayoutInv, OrderInv, [Next]_vars
  PROVE  ConnectionsRestored'
<1> SUFFICES ASSUME pc' = "idle" PROVE ConnectionsRestored'
  BY DEF ConnectionsRestored
<1> USE DEF loop, heap, totals, choices, best
<1>1. \/ /\ pc = "idle"
         /\ UNCHANGED <<neurons, connections, total_neurons>>
      \/ fann_set_shortcut_connections
  BY DEF Next, vars, SetCandidateList, SetCandidateScalar, StartTraining,
     CallerRuns, TrainOutputs, TrainOutputsLastTime, fann_train_outputs,
     StopGrowing, KeepGrowing, fann_initialize_candidates, NeuronReallocFails,
     ConnectionReallocFails, fann_train_candidates, TrainingEpochs,
     fann_add_layer, fann_add_candidate_neuron, MoveOutputNeuron, PlaceNeuron
<1>2. CASE pc = "idle" /\ UNCHANGED <<neurons, connections, total_neurons>>
  BY <1>2 DEF OrderInv, ConnectionsRestored, FanIn
<1>3. CASE fann_set_shortcut_connections
  <2>1. /\ pc = "connect" /\ UNCHANGED <<neurons, total_neurons>>
        /\ total_connections <= cap.connections
        /\ connections' = [c \in DOMAIN connections |->
             IF c < total_connections THEN SourceOf(c) ELSE connections[c]]
    BY <1>3 DEF fann_set_shortcut_connections
  <2>2. /\ DOMAIN connections = 0 .. cap.connections - 1
        /\ total_connections \in Nat /\ cap.connections \in Nat
    BY DEF LayoutInv, TypeOK
  <2>3. ASSUME NEW n \in FirstLayer .. total_neurons - 1,
               NEW i \in 0 .. FanIn(n) - 1
        PROVE  connections'[neurons[n].first_con + i] = i
    <3> DEFINE c == neurons[n].first_con + i
    <3>1. c \in 0 .. total_connections - 1 /\ SourceOf(c) = i
      BY <2>1, SourceFound DEF OrderInv
    <3> HIDE DEF c
    <3>2. c \in DOMAIN connections /\ c < total_connections
      BY <2>1, <2>2, <3>1
    <3>3. connections'[c] = i
      BY <2>1, <3>1, <3>2
    <3>4. QED
      BY <3>3 DEF c
  <2>4. QED
    BY <2>1, <2>3 DEF ConnectionsRestored, FanIn
<1>4. QED
  BY <1>1, <1>2, <1>3

(* The order of the weights and the connections survive every step.        *)
LEMMA OrderStep ==
  ASSUME LayoutInv, OrderInv, [Next]_vars
  PROVE  OrderInv'
<1>1. ConnectionsRestored'
  BY ConnectionsStep
<1>2. CASE pc # "move_outputs"
  BY <1>1, <1>2, OrderUntouched DEF OrderInv
<1>3. CASE pc = "move_outputs"
  <2>1. MoveOutputNeuron \/ PlaceNeuron \/ UNCHANGED vars
    BY <1>3 DEF Next, SetCandidateList, SetCandidateScalar, StartTraining,
       CallerRuns, TrainOutputs, TrainOutputsLastTime, fann_train_outputs,
       StopGrowing, KeepGrowing, fann_initialize_candidates, NeuronReallocFails,
       ConnectionReallocFails, fann_train_candidates, fann_add_layer,
       fann_add_candidate_neuron, fann_set_shortcut_connections
  <2>2. CASE UNCHANGED vars
    BY <1>1, <2>2 DEF OrderInv, RangesInOrder, Slots, End, vars, loop, heap,
       totals, choices, best
  <2>3. QED
    BY <1>1, <2>1, <2>2, MoveKeepsOrder, PlacingKeepsOrder DEF OrderInv
<1>4. QED
  BY <1>2, <1>3

(* The invariant of the order in every reachable state, whichever          *)
(* allocation fails.                                                       *)
THEOREM OrderAlways == Spec => []OrderInv
<1>1. LayoutInv /\ OrderInv /\ [Next]_vars => LayoutInv' /\ OrderInv'
  BY LayoutStep, OrderStep
<1>2. QED
  BY <1>1, InitLayout, CreatedInOrder, PTL DEF Spec

(* When fann_cascadetrain_on_data returns, connection i of every neuron    *)
(* comes from neuron i again, whatever was installed, moved or not         *)
(* allocated in between (fann_cascade.c:45-47).                            *)
THEOREM ConnectionsCorrect == Spec => []ConnectionsRestored
<1>1. OrderInv => ConnectionsRestored
  BY DEF OrderInv
<1>2. QED
  BY <1>1, OrderAlways, PTL

----------------------------------------------------------------------------
(* The choice of a candidate, as long as every allocation succeeds.        *)

(* What the results below assume: allocations succeed, no caller asks for  *)
(* more candidates than the score buffer was made for, and candidates are  *)
(* trained for at least one epoch.                                         *)
NothingFails == ~AllocMayFail /\ ~OutgrowScores /\ 0 \notin CandEpochs

Installing == pc \in {"train", "add_layer", "add_neuron", "move_outputs"}

(* The sizes on record cover the weights of the network and, while there   *)
(* are any, those of the candidates.                                       *)
WeightsRecorded ==
  /\ total_connections <= total_connections_allocated
  /\ Installing => num_connections <= total_connections_allocated

(* From the moment they are written until one is installed, all candidates *)
(* are there, with all their weights: nothing is moved over them.          *)
CandidatesWritten ==
  Installing =>
    /\ \A k \in 0 .. num_candidates - 1 :
         neurons[first_candidate_neuron + k] = CandidateNeuron(k)
    /\ \A w \in first_candidate_connection .. num_connections - 1 :
         weights[w] = CandidateWeight(w)

BestChosen ==
  pc \in {"add_layer", "add_neuron", "move_outputs"} =>
    cascade_best_candidate \in first_candidate_neuron .. num_neurons - 1

(* The output weights of the candidate are handed out in their order, to   *)
(* the outputs from the last one down.                                     *)
WeightsHandedOut ==
  pc = "move_outputs" =>
    /\ move.output_weight = Candidate.last_con + (total_neurons - move.neuron_it)
    /\ \A s \in move.neuron_it + 1 .. total_neurons :
         weights[neurons[s].last_con - 1] =
           OutWeight(total_neurons,
                     cascade_best_candidate - first_candidate_neuron,
                     total_neurons - s)

ScoresSuffice == scores = NoBuffer \/ num_candidates <= scores

ChoiceInv ==
  /\ AlwaysDefined /\ null_lists = {} /\ ScoresSuffice
  /\ WeightsRecorded /\ CandidatesWritten /\ BestChosen /\ WeightsHandedOut

(* Block k of several blocks of one size, and position i in it.            *)
LEMMA BlockInside ==
  ASSUME NEW size \in Nat, NEW count \in Nat, NEW k \in 0 .. count - 1,
         NEW i \in 0 .. size - 1
  PROVE  /\ k * size + i \in Nat /\ k * size + i < size * count
         /\ k * size \in Nat /\ size * count \in Nat
<1>1. k + 1 \in Nat /\ k + 1 <= count /\ k \in Nat
  OBVIOUS
<1>2. (k + 1) * size <= count * size /\ count * size \in Nat
  BY <1>1, MultiplesOrdered
<1>3. (k + 1) * size = k * size + size /\ count * size = size * count
      /\ k * size \in Nat
  BY <1>1
<1> DEFINE a == k * size
           b == size * count
<1>4. a \in Nat /\ a + size <= b /\ b \in Nat
  BY <1>2, <1>3
<1> HIDE DEF a, b
<1>5. a + i \in Nat /\ a + i < b
  BY <1>4
<1>6. QED
  BY <1>4, <1>5 DEF a, b

(* Slot i of candidate k lies in the range of the candidates' weights, and *)
(* holds weight i into it or, behind those, a weight out of it.            *)
LEMMA CandidateSlots ==
  ASSUME TypeOK, NeuronsPresent,
         NEW k \in 0 .. num_candidates - 1, NEW i \in 0 .. total_neurons - 1
  PROVE  LET w == first_candidate_connection + k * total_neurons + i IN
         /\ CandidateNeuron(k).first_con
              = first_candidate_connection + k * total_neurons
         /\ CandidateNeuron(k).first_con \in Nat
         /\ CandidateNeuron(k).first_con >= first_candidate_connection
         /\ CandidateNeuron(k).last_con
              = CandidateNeuron(k).first_con + (total_neurons - NumOutput)
         /\ CandidateNeuron(k).first_con + i = w
         /\ w \in first_candidate_connection .. num_connections - 1
         /\ CandidateWeight(w) = IF i < total_neurons - NumOutput
              THEN InWeight(total_neurons, k, i)
              ELSE OutWeight(total_neurons, k, i - (total_neurons - NumOutput))
<1> DEFINE T == total_neurons
           fcc == first_candidate_connection
           a == k * T
           w == fcc + a + i
<1>1. /\ T \in Nat /\ fcc \in Nat /\ num_candidates \in Nat
      /\ NumOutput \in Nat /\ total_connections \in Nat
  <2>1. num_candidates \in Nat
    BY CandidatesNat DEF TypeOK
  <2>2. T \in Nat /\ total_connections \in Nat
    BY DEF TypeOK
  <2>3. fcc \in Nat
    BY <2>2 DEF first_candidate_connection
  <2>4. QED
    BY <2>1, <2>2, <2>3, SizesNat
<1>2. /\ a + i \in Nat /\ a + i < T * num_candidates
      /\ a \in Nat /\ T * num_candidates \in Nat /\ k \in Nat
  BY <1>1, BlockInside
<1>3. num_connections = fcc + T * num_candidates
  <2>1. T * (num_candidates + 1) = T * num_candidates + T
    BY <1>1
  <2> DEFINE p == T * num_candidates
             q == T * (num_candidates + 1)
  <2>2. q = p + T /\ p \in Nat
    BY <1>2, <2>1
  <2>3. num_connections = total_connections + q /\ fcc = total_connections + T
    BY DEF num_connections, first_candidate_connection
  <2> HIDE DEF p, q, fcc, T
  <2>4. num_connections = fcc + p
    BY <1>1, <2>2, <2>3
  <2>5. QED
    BY <2>4 DEF p, T, fcc
<1>4. (a + i) \div T = k /\ (a + i) % T = i
  BY <1>1, <1>2, PositionInBlock
<1>5. /\ CandidateNeuron(k).first_con = fcc + a
      /\ CandidateNeuron(k).last_con = fcc + a + (T - NumOutput)
  BY DEF CandidateNeuron, candidate_connections_in
<1>6. w - fcc = a + i
  <2> HIDE DEF a, T, fcc
  <2>1. QED
    BY <1>1, <1>2
<1>7. CandidateWeight(w) = IF i < T - NumOutput
                           THEN InWeight(T, k, i)
                           ELSE OutWeight(T, k, i - (T - NumOutput))
  <2> DEFINE c == (w - fcc) \div T
             j == (w - fcc) % T
  <2>1. c = k /\ j = i
    BY <1>4, <1>6
  <2>2. CandidateWeight(w) = IF j < T - NumOutput
                             THEN InWeight(T, c, j)
                             ELSE OutWeight(T, c, j - (T - NumOutput))
    BY DEF CandidateWeight, candidate_connections_in
  <2> HIDE DEF c, j, w, T
  <2>3. QED
    BY <2>1, <2>2
<1>8. w \in fcc .. num_connections - 1 /\ fcc + a \in Nat /\ fcc + a >= fcc
  <2> DEFINE p == T * num_candidates
  <2>1. p \in Nat /\ a + i < p /\ num_connections = fcc + p
    BY <1>2, <1>3
  <2> HIDE DEF a, T, fcc, p
  <2>2. QED
    BY <1>1, <1>2, <2>1
<1> HIDE DEF a, fcc, T
<1>9. /\ CandidateNeuron(k).first_con = fcc + a
      /\ CandidateNeuron(k).first_con \in Nat
      /\ CandidateNeuron(k).first_con >= fcc
      /\ CandidateNeuron(k).last_con
           = CandidateNeuron(k).first_con + (T - NumOutput)
      /\ CandidateNeuron(k).first_con + i = w
  BY <1>5, <1>8
<1> HIDE DEF w
<1>10. QED
  BY <1>7, <1>8, <1>9, Zenon DEF a, w, fcc, T

(* The chosen candidate, and each of its weights, where they were written. *)
LEMMA BestKnown ==
  ASSUME TypeOK, NeuronsPresent, RoomHeld, CandidatesWritten, BestChosen,
         pc \in {"add_layer", "add_neuron", "move_outputs"}
  PROVE  LET k == cascade_best_candidate - first_candidate_neuron
             T == total_neurons
         IN
         /\ k \in 0 .. num_candidates - 1
         /\ Candidate = CandidateNeuron(k)
         /\ cascade_best_candidate \in DOMAIN neurons
         /\ cascade_best_candidate > T
         /\ Candidate.first_con \in Nat
         /\ Candidate.first_con >= first_candidate_connection
         /\ Candidate.last_con = Candidate.first_con + (T - NumOutput)
         /\ \A i \in 0 .. T - 1 :
              /\ Candidate.first_con + i \in
                   first_candidate_connection .. num_connections - 1
              /\ Candidate.first_con + i \in DOMAIN weights
              /\ weights[Candidate.first_con + i] =
                   IF i < T - NumOutput THEN InWeight(T, k, i)
                   ELSE OutWeight(T, k, i - (T - NumOutput))
<1> DEFINE k == cascade_best_candidate - first_candidate_neuron
           T == total_neurons
<1>1. /\ T \in Nat /\ num_candidates \in Nat /\ NumOutput \in Nat /\ T >= 1
      /\ first_candidate_connection \in Nat
  <2>1. num_candidates \in Nat
    BY CandidatesNat DEF TypeOK
  <2>2. total_neurons \in Nat /\ total_connections \in Nat
    BY DEF TypeOK
  <2>3. total_neurons >= FirstLayer + NumOutput
    BY DEF NeuronsPresent
  <2>4. T \in Nat /\ T >= 1
    BY <2>2, <2>3, SizesNat
  <2>5. QED
    BY <2>1, <2>2, <2>4, SizesNat DEF first_candidate_connection
<1>2. /\ num_neurons <= cap.neurons /\ num_connections <= cap.weights
      /\ DOMAIN neurons = 0 .. cap.neurons - 1 /\ cap.neurons \in Nat
      /\ DOMAIN weights = 0 .. cap.weights - 1 /\ cap.weights \in Nat
      /\ num_neurons \in Nat /\ num_connections \in Nat
  BY NeededNat DEF RoomHeld, CandidatesFit, TypeOK
<1>3. cascade_best_candidate \in first_candidate_neuron .. num_neurons - 1
  BY DEF BestChosen
<1>4. /\ k \in 0 .. num_candidates - 1
      /\ first_candidate_neuron + k = cascade_best_candidate
      /\ cascade_best_candidate \in DOMAIN neurons
      /\ cascade_best_candidate > T
  BY <1>1, <1>2, <1>3 DEF first_candidate_neuron, num_neurons
<1>5. Candidate = CandidateNeuron(k)
  <2>1. \A j \in 0 .. num_candidates - 1 :
          neurons[first_candidate_neuron + j] = CandidateNeuron(j)
    BY DEF CandidatesWritten, Installing
  <2> HIDE DEF k
  <2>2. neurons[first_candidate_neuron + k] = CandidateNeuron(k)
    BY <1>4, <2>1
  <2>3. QED
    BY <1>4, <2>2 DEF Candidate
<1>6. 0 \in 0 .. T - 1
  BY <1>1
<1>7. /\ Candidate.first_con \in Nat
      /\ Candidate.first_con >= first_candidate_connection
      /\ Candidate.last_con = Candidate.first_con + (T - NumOutput)
  BY <1>4, <1>5, <1>6, CandidateSlots
<1>8. ASSUME NEW i \in 0 .. T - 1
      PROVE  /\ Candidate.first_con + i \in
                   first_candidate_connection .. num_connections - 1
             /\ Candidate.first_con + i \in DOMAIN weights
             /\ weights[Candidate.first_con + i] =
                   IF i < T - NumOutput THEN InWeight(T, k, i)
                   ELSE OutWeight(T, k, i - (T - NumOutput))
  <2> DEFINE w == Candidate.first_con + i
  <2>1. /\ w \in first_candidate_connection .. num_connections - 1
        /\ CandidateWeight(w) = IF i < T - NumOutput THEN InWeight(T, k, i)
                                ELSE OutWeight(T, k, i - (T - NumOutput))
    BY <1>4, <1>5, CandidateSlots
  <2> HIDE DEF w
  <2>2. weights[w] = CandidateWeight(w)
    BY <2>1 DEF CandidatesWritten, Installing
  <2>3. w \in DOMAIN weights
    BY <1>1, <1>2, <2>1
  <2> HIDE DEF k, T
  <2>4. /\ w \in DOMAIN weights /\ weights[w] = IF i < T - NumOutput
             THEN InWeight(T, k, i) ELSE OutWeight(T, k, i - (T - NumOutput))
    BY <2>1, <2>2, <2>3
  <2>5. QED
    BY <2>1, <2>4 DEF w
<1>9. QED
  BY <1>4, <1>5, <1>7, <1>8

(* A new network, before the first candidate.                              *)
LEMMA InitChoice == Init => ChoiceInv
<1> SUFFICES ASSUME Init PROVE ChoiceInv
  OBVIOUS
<1>1. FirstLayer * NumOutput \in Nat
  BY SizesNat
<1>2. /\ pc = "idle" /\ null_lists = {} /\ scores = NoBuffer
      /\ total_connections = FirstLayer * NumOutput
      /\ total_connections_allocated = FirstLayer * NumOutput
  BY DEF Init
<1>3. WeightsRecorded
  BY <1>1, <1>2 DEF WeightsRecorded, Installing
<1>4. QED
  BY <1>2, <1>3 DEF ChoiceInv, AlwaysDefined, ScoresSuffice, CandidatesWritten,
     BestChosen, WeightsHandedOut, Installing

(* Between installations the invariant says little.                        *)
LEMMA ChoiceOutside ==
  ASSUME pc' \in {"idle", "outputs", "report", "candidates", "final", "connect"},
         null_lists' = {}, ScoresSuffice',
         total_connections' <= total_connections_allocated'
  PROVE  ChoiceInv'
BY DEF ChoiceInv, AlwaysDefined, WeightsRecorded, CandidatesWritten, BestChosen,
       WeightsHandedOut, Installing

(* The setters: no list is lost, and the scores are sufficient for what a  *)
(* caller asks.                                                            *)
LEMMA SettersKeepChoice ==
  ASSUME NothingFails, ChoiceInv, NEW which, NEW n,
         SetCandidateList(which, n) \/ SetCandidateScalar(which, n)
  PROVE  ChoiceInv'
<1> DEFINE s == [settings EXCEPT ![which] = n]
<1>1. /\ pc \in {"idle", "report"} /\ pc' = pc /\ null_lists' = {}
      /\ settings' = s /\ WithinScores(s) /\ UNCHANGED scores
      /\ UNCHANGED <<total_connections, total_connections_allocated>>
  <2>1. CASE SetCandidateList(which, n)
    BY <2>1 DEF SetCandidateList, NothingFails, ChoiceInv, CallerRuns, best, totals
  <2>2. CASE SetCandidateScalar(which, n)
    BY <2>2 DEF SetCandidateScalar, ChoiceInv, CallerRuns, choices, best, totals
  <2>3. QED
    BY <2>1, <2>2
<1> HIDE DEF s
<1>2. num_candidates' = NumCandidatesOf(settings')
  BY DEF num_candidates, fann_get_cascade_num_candidates, NumCandidatesOf
<1>3. ScoresSuffice'
  BY <1>1, <1>2 DEF NothingFails, WithinScores, ScoresSuffice
<1>4. total_connections' <= total_connections_allocated'
  BY <1>1 DEF ChoiceInv, WeightsRecorded
<1>5. QED
  BY <1>1, <1>3, <1>4, ChoiceOutside

(* The loop around the rounds, and training the outputs: the network is    *)
(* there, so nothing is left undefined.                                    *)
LEMMA LoopKeepsChoice ==
  ASSUME NothingFails, LayoutInv, RecordInv, ChoiceInv,
         \/ \E m \in 0 .. MaxHidden : StartTraining(m)
         \/ StopGrowing \/ KeepGrowing \/ fann_set_shortcut_connections
         \/ TrainOutputs \/ TrainOutputsLastTime
  PROVE  ChoiceInv'
<1>1. /\ cap.neurons > 0 /\ cap.weights > 0
      /\ total_connections <= total_connections_allocated
      /\ total_connections <= cap.connections
  <2>1. /\ total_neurons_allocated \in Nat /\ total_connections_allocated \in Nat
        /\ cap.neurons \in Nat /\ cap.weights \in Nat /\ cap.connections \in Nat
        /\ total_connections \in Nat
    BY DEF LayoutInv, TypeOK
  <2>2. /\ total_neurons_allocated > 0 /\ total_connections_allocated > 0
        /\ total_neurons_allocated <= cap.neurons
        /\ total_connections_allocated <= cap.weights
        /\ total_connections_allocated <= cap.connections
        /\ total_connections <= total_connections_allocated
    BY DEF RecordInv, AllocatedOnRecord, ChoiceInv, WeightsRecorded
  <2>3. QED
    BY <2>1, <2>2
<1>2. pc' \in {"idle", "outputs", "report", "candidates", "final", "connect"}
  BY <1>1 DEF StartTraining, StopGrowing, KeepGrowing, NothingFails, Fallible,
     fann_set_shortcut_connections, TrainOutputs, TrainOutputsLastTime,
     fann_train_outputs, NetworkReachable
<1>3. UNCHANGED <<total_connections, total_connections_allocated, settings,
                  null_lists, scores>>
  BY DEF StartTraining, StopGrowing, KeepGrowing,
     fann_set_shortcut_connections, TrainOutputs, TrainOutputsLastTime,
     fann_train_outputs, totals, choices, best
<1>4. null_lists' = {} /\ ScoresSuffice'
  BY <1>3 DEF ChoiceInv, ScoresSuffice, num_candidates,
     fann_get_cascade_num_candidates
<1>5. total_connections' <= total_connections_allocated'
  BY <1>1, <1>3
<1>6. QED
  BY <1>2, <1>4, <1>5, ChoiceOutside

(* fann_initialize_candidates writes every candidate, inside the blocks.   *)
LEMMA InitializeWritesCandidates ==
  ASSUME NothingFails, LayoutInv, RecordInv, ChoiceInv,
         fann_initialize_candidates
  PROVE  ChoiceInv'
<1> DEFINE T == total_neurons
<1>1. TypeOK /\ NeuronsPresent
  BY DEF LayoutInv
<1>2. CandidatesFit(cap')
  BY RoomEnough
<1>3. /\ pc' = "train" /\ null_lists' = {}
      /\ UNCHANGED <<total_neurons, total_connections, settings, scores>>
  BY <1>2 DEF fann_initialize_candidates, ChoiceInv, choices, best
<1>4. /\ T \in Nat /\ num_candidates \in Nat /\ num_neurons \in Nat
      /\ total_connections \in Nat /\ first_candidate_connection \in Nat
      /\ num_connections \in Nat /\ num_connections >= total_connections
      /\ connections_to_allocate \in Nat
      /\ connections_to_allocate >= num_connections
      /\ total_connections_allocated \in Nat
  <2>1. num_candidates \in Nat
    BY <1>1, CandidatesNat DEF TypeOK
  <2>2. T \in Nat /\ total_connections \in Nat
        /\ total_connections_allocated \in Nat
    BY <1>1 DEF TypeOK
  <2>3. first_candidate_connection \in Nat
    BY <2>2 DEF first_candidate_connection
  <2>4. QED
    BY <1>1, <2>1, <2>2, <2>3, NeededNat
<1>5. /\ num_candidates' = num_candidates /\ num_neurons' = num_neurons
      /\ num_connections' = num_connections
      /\ first_candidate_neuron' = first_candidate_neuron
      /\ first_candidate_connection' = first_candidate_connection
      /\ \A k : CandidateNeuron(k)' = CandidateNeuron(k)
      /\ \A w : CandidateWeight(w)' = CandidateWeight(w)
  BY <1>3 DEF num_candidates, fann_get_cascade_num_candidates, num_neurons,
     num_connections, first_candidate_neuron, first_candidate_connection,
     CandidateNeuron, CandidateWeight, candidate_connections_in
<1>6. /\ cap'.neurons \in Nat /\ cap'.weights \in Nat
      /\ num_neurons <= cap'.neurons /\ num_connections <= cap'.weights
  <2>1. TypeOK'
    BY InitializeCandidatesKeepsLayout DEF LayoutInv
  <2>2. QED
    BY <1>2, <2>1 DEF CandidatesFit, TypeOK
<1>7. ASSUME NEW k \in 0 .. num_candidates - 1
      PROVE  neurons'[first_candidate_neuron + k] = CandidateNeuron(k)
  <2> DEFINE n == first_candidate_neuron + k
  <2>1. /\ n \in first_candidate_neuron .. num_neurons - 1
        /\ n \in 0 .. cap'.neurons - 1 /\ n - first_candidate_neuron = k
    BY <1>4, <1>6 DEF first_candidate_neuron, num_neurons
  <2> HIDE DEF n
  <2>2. neurons'[n] = CandidateNeuron(n - first_candidate_neuron)
    BY <2>1 DEF fann_initialize_candidates
  <2>3. QED
    BY <2>1, <2>2 DEF n
<1>8. ASSUME NEW w \in first_candidate_connection .. num_connections - 1
      PROVE  weights'[w] = CandidateWeight(w)
  <2>1. w \in 0 .. cap'.weights - 1
    BY <1>4, <1>6
  <2>2. QED
    BY <2>1 DEF fann_initialize_candidates
<1>9. CandidatesWritten'
  BY <1>5, <1>7, <1>8 DEF CandidatesWritten
<1>10. num_connections <= total_connections_allocated'
       /\ total_connections_allocated' \in Nat
  BY <1>4 DEF fann_initialize_candidates, NeedConnections
<1>11. WeightsRecorded'
  BY <1>3, <1>4, <1>5, <1>10 DEF WeightsRecorded
<1>12. ScoresSuffice'
  BY <1>3, <1>5 DEF ChoiceInv, ScoresSuffice
<1>13. QED
  BY <1>3, <1>9, <1>11, <1>12 DEF ChoiceInv, AlwaysDefined, BestChosen,
     WeightsHandedOut

(* Steps of a round that move no neuron and no weight.                     *)
LEMMA CandidatesLeftAlone ==
  ASSUME ChoiceInv, Installing, UNCHANGED <<heap, totals, choices>>
  PROVE  /\ CandidatesWritten' /\ WeightsRecorded' /\ null_lists' = {}
         /\ num_candidates' = num_candidates /\ num_neurons' = num_neurons
         /\ first_candidate_neuron' = first_candidate_neuron
<1>1. /\ UNCHANGED <<neurons, weights, settings, null_lists, total_neurons,
                     total_connections, total_connections_allocated>>
  BY DEF heap, totals, choices
<1>2. /\ num_candidates' = num_candidates /\ num_neurons' = num_neurons
      /\ num_connections' = num_connections
      /\ first_candidate_neuron' = first_candidate_neuron
      /\ first_candidate_connection' = first_candidate_connection
      /\ \A k : CandidateNeuron(k)' = CandidateNeuron(k)
      /\ \A w : CandidateWeight(w)' = CandidateWeight(w)
  BY <1>1 DEF num_candidates, fann_get_cascade_num_candidates, num_neurons,
     num_connections, first_candidate_neuron, first_candidate_connection,
     CandidateNeuron, CandidateWeight, candidate_connections_in
<1>3. CandidatesWritten'
  BY <1>1, <1>2 DEF ChoiceInv, CandidatesWritten
<1>4. WeightsRecorded'
  BY <1>1, <1>2 DEF ChoiceInv, WeightsRecorded
<1>5. QED
  BY <1>1, <1>2, <1>3, <1>4 DEF ChoiceInv

(* fann_train_candidates picks one of them.                                *)
LEMMA TrainingChooses ==
  ASSUME NothingFails, LayoutInv, ChoiceInv, fann_train_candidates
  PROVE  ChoiceInv'
<1>1. pc = "train" /\ UNCHANGED <<loop, heap, totals, choices, move>>
  BY DEF fann_train_candidates
<1>2. /\ CandidatesWritten' /\ WeightsRecorded' /\ null_lists' = {}
      /\ num_candidates' = num_candidates /\ num_neurons' = num_neurons
      /\ first_candidate_neuron' = first_candidate_neuron
  BY <1>1, CandidatesLeftAlone DEF Installing
<1>3. /\ num_candidates \in Nat /\ settings.max_cand_epochs \in CandEpochs
      /\ scores \in Nat \union {NoBuffer} /\ total_neurons \in Nat
  <2>1. num_candidates \in Nat
    BY CandidatesNat DEF LayoutInv, TypeOK
  <2>2. settings.max_cand_epochs \in CandEpochs
    BY DEF LayoutInv, TypeOK
  <2>3. QED
    BY <2>1, <2>2 DEF LayoutInv, TypeOK
<1>4. scores' = (IF scores = NoBuffer THEN num_candidates ELSE scores)
      /\ TrainingEpochs
  BY DEF fann_train_candidates, NothingFails
<1>5. num_candidates <= scores'
  BY <1>3, <1>4 DEF ChoiceInv, ScoresSuffice
<1>6. ~(num_candidates > scores')
  <2>1. scores' \in Int
    BY <1>3, <1>4 DEF NoBuffer
  <2>2. QED
    BY <1>3, <1>5, <2>1
<1>7. settings.max_cand_epochs # 0
  BY <1>3 DEF NothingFails
<1>8. pc' = "add_layer" /\ ChooseBest
  BY <1>4, <1>6, <1>7 DEF TrainingEpochs
<1>9. BestChosen'
  <2>1. PICK k \in 0 .. num_candidates - 1 :
          cascade_best_candidate' = first_candidate_neuron + k
    BY <1>8 DEF ChooseBest
  <2>2. cascade_best_candidate' \in first_candidate_neuron .. num_neurons - 1
    BY <1>3, <2>1 DEF first_candidate_neuron, num_neurons
  <2>3. QED
    BY <1>2, <2>2 DEF BestChosen
<1>10. ScoresSuffice'
  BY <1>2, <1>5 DEF ScoresSuffice
<1>11. QED
  BY <1>2, <1>8, <1>9, <1>10 DEF ChoiceInv, AlwaysDefined, WeightsHandedOut

(* Adding the layer and making place in it moves no neuron yet.            *)
LEMMA LayerKeepsChoice ==
  ASSUME NothingFails, LayoutInv, ChoiceInv,
         fann_add_layer \/ fann_add_candidate_neuron
  PROVE  ChoiceInv'
<1>1. /\ pc \in {"add_layer", "add_neuron"}
      /\ UNCHANGED <<neurons, weights, totals, choices, best, cap>>
  BY DEF fann_add_layer, fann_add_candidate_neuron
<1>2. /\ UNCHANGED <<neurons, weights, settings, null_lists, total_neurons,
                     scores, cascade_best_candidate,
                     total_connections, total_connections_allocated>>
  BY <1>1 DEF totals, choices, best
<1>3. /\ num_candidates' = num_candidates /\ num_neurons' = num_neurons
      /\ num_connections' = num_connections
      /\ first_candidate_neuron' = first_candidate_neuron
      /\ first_candidate_connection' = first_candidate_connection
      /\ \A k : CandidateNeuron(k)' = CandidateNeuron(k)
      /\ \A w : CandidateWeight(w)' = CandidateWeight(w)
  BY <1>2 DEF num_candidates, fann_get_cascade_num_candidates, num_neurons,
     num_connections, first_candidate_neuron, first_candidate_connection,
     CandidateNeuron, CandidateWeight, candidate_connections_in
<1>4. CandidatesWritten'
  BY <1>1, <1>2, <1>3 DEF ChoiceInv, CandidatesWritten, Installing
<1>5. WeightsRecorded'
  BY <1>1, <1>2, <1>3 DEF ChoiceInv, WeightsRecorded, Installing
<1>6. BestChosen' /\ ScoresSuffice'
  BY <1>1, <1>2, <1>3 DEF ChoiceInv, BestChosen, ScoresSuffice
<1>7. CandidateUsable
  <2>1. /\ Candidate.first_con \in Nat
        /\ cascade_best_candidate \in DOMAIN neurons
    BY <1>1, BestKnown DEF LayoutInv, ChoiceInv
  <2>2. Candidate # Unset
    BY <2>1 DEF Unset
  <2>3. QED
    BY <2>1, <2>2 DEF CandidateUsable
<1>8. pc' \in {"add_neuron", "move_outputs"}
  BY <1>7 DEF fann_add_layer, fann_add_candidate_neuron, NothingFails
<1>9. WeightsHandedOut'
  <2> SUFFICES ASSUME pc' = "move_outputs" PROVE WeightsHandedOut'
    BY DEF WeightsHandedOut
  <2>1. /\ fann_add_candidate_neuron /\ pc = "add_neuron"
        /\ move'.neuron_it = layers[num_layers - 1].last
        /\ move'.output_weight = Candidate.last_con
    BY <1>7 DEF fann_add_layer, fann_add_candidate_neuron
  <2>2. layers[num_layers - 1].last = total_neurons /\ total_neurons \in Nat
    <3>1. layers[num_layers - 1] =
            [first |-> total_neurons - NumOutput, last |-> total_neurons]
      BY <2>1, SizesNat DEF LayoutInv, LayersWhileInstalling, TypeOK
    <3>2. QED
      BY <3>1 DEF LayoutInv, TypeOK
  <2>3. Candidate.last_con \in Int /\ Candidate' = Candidate
    <3>1. /\ Candidate.first_con \in Nat
          /\ Candidate.last_con = Candidate.first_con + (total_neurons - NumOutput)
      BY <1>1, BestKnown DEF LayoutInv, ChoiceInv
    <3>2. QED
      BY <1>2, <2>2, <3>1, SizesNat DEF Candidate
  <2>4. move'.output_weight = Candidate'.last_con + (total_neurons' - move'.neuron_it)
    BY <1>2, <2>1, <2>2, <2>3
  <2>5. move'.neuron_it + 1 .. total_neurons' = {}
    BY <1>2, <2>1, <2>2
  <2>6. QED
    BY <2>4, <2>5 DEF WeightsHandedOut
<1>10. QED
  BY <1>2, <1>4, <1>5, <1>6, <1>8, <1>9 DEF ChoiceInv, AlwaysDefined

(* Which weights one iteration of the loop over the outputs touches: those *)
(* of the output are copied up, the slot behind them gets the new one, and *)
(* everything below and everything above stays.                            *)
LEMMA MoveTouches ==
  ASSUME LayoutInv, RangesInOrder, MoveOutputNeuron, pc' # "undefined"
  PROVE  LET T == total_neurons
             it == move.neuron_it
             old == neurons[it - 1]
             end == old.last_con + it
         IN
         /\ 0 <= old.first_con /\ end <= first_candidate_connection
         /\ end - 1 \in DOMAIN weights
         /\ first_candidate_connection <= num_connections
         /\ \A s \in it + 1 .. T :
              /\ end <= neurons[s].first_con /\ end < neurons[s].last_con
              /\ neurons[s].last_con <= first_candidate_connection
         /\ \A w \in DOMAIN weights :
              w < old.first_con + it - 1 \/ end <= w => weights'[w] = weights[w]
         /\ \A i \in 0 .. T - NumOutput - 1 :
              weights'[old.first_con + it - 1 + i] = weights[old.first_con + i]
         /\ move.output_weight >= end =>
              weights'[end - 1] = weights[move.output_weight]
<1> DEFINE T == total_neurons
           it == move.neuron_it
           old == neurons[it - 1]
           first == old.first_con
           end == old.last_con + it
           C == total_connections
           fcc == first_candidate_connection
<1>1. /\ pc = "move_outputs" /\ pc' = "move_outputs"
      /\ T \in Nat /\ it \in Nat /\ it <= T /\ T - NumOutput <= it - 1
      /\ FirstLayer <= T - NumOutput
      /\ T' = T /\ C' = C /\ cap' = cap /\ C \in Nat
      /\ move'.neuron_it = it - 1
      /\ cap.neurons \in Nat /\ T < cap.neurons
      /\ first \in Int /\ old.last_con = first + (T - NumOutput)
      /\ neurons'[it].last_con = end
      /\ move.output_weight \in Int /\ NumOutput \in Nat /\ NumOutput >= 1
      /\ FirstLayer \in Nat
  BY OneOutputMoves, SizesNat
<1>2. \A n \in 0 .. T : n # it => neurons'[n] = neurons[n]
  BY <1>1, OneOutputMoves
<1>3. \A n \in 0 .. T :
         neurons[n].first_con \in Int /\ neurons[n].last_con \in Int
  BY <1>1, OneOutputMoves
<1>4. /\ DOMAIN weights = 0 .. cap.weights - 1 /\ cap.weights \in Nat
      /\ num_connections <= cap.weights /\ fcc <= num_connections
      /\ num_connections \in Nat /\ fcc = C + T
  <2>1. TypeOK /\ NeuronsPresent /\ RoomHeld
    BY DEF LayoutInv
  <2>2. CandidatesFit(cap)
    BY <1>1, <2>1 DEF RoomHeld
  <2>3. QED
    BY <2>1, <2>2, NeededNat DEF CandidatesFit, TypeOK,
       first_candidate_connection
<1>5. \A w \in DOMAIN weights :
        weights'[w] = weights[CameFrom(IF w = end - 1
                                       THEN move.output_weight ELSE w,
                                       first, old.last_con, it - 1)]
  <2>1. old.last_con + it - 1 = end - 1
    BY <1>1
  <2>2. QED
    BY <2>1, OneOutputMoves
<1>6. /\ Slots = (FirstLayer .. T) \ {it} /\ End = C + T
      /\ Slots' = (FirstLayer .. T) \ {it - 1} /\ End' = C + T
  BY <1>1 DEF Slots, End, FirstLayer
<1>7. it \in Slots' /\ it - 1 \in Slots /\ cap.neurons > 0
  BY <1>1, <1>6
<1>8. /\ \A n \in Slots' : neurons'[n].last_con <= C + T
      /\ \A m, n \in Slots' :
           m < n => neurons'[m].last_con <= neurons'[n].first_con
      /\ \A n \in Slots : 0 <= neurons[n].first_con
  <2>1. RangesInOrder'
    BY MoveKeepsOrder
  <2>2. QED
    BY <1>1, <1>6, <1>7, <2>1 DEF RangesInOrder
<1>9. /\ 0 <= first /\ end <= C + T /\ end \in Int
      /\ end = first + (T - NumOutput) + it
  BY <1>1, <1>7, <1>8
<1>10. ASSUME NEW s \in it + 1 .. T
       PROVE  /\ end <= neurons[s].first_con /\ end < neurons[s].last_con
              /\ neurons[s].last_con <= C + T
  <2>1. s \in Slots' /\ it < s /\ s # it /\ s \in 0 .. T
    BY <1>1, <1>6
  <2>2. end <= neurons[s].first_con /\ neurons[s].last_con <= C + T
    BY <1>1, <1>2, <1>7, <1>8, <2>1
  <2>3. neurons[s].last_con = neurons[s].first_con + T - NumOutput + 1
    <3>1. s \in FirstLayer .. T /\ s > it
      BY <1>1
    <3>2. QED
      BY <1>1, <3>1 DEF LayoutInv, WeightsWhileMoving
  <2>4. neurons[s].first_con \in Int
    BY <1>3, <2>1
  <2> HIDE DEF end, T, it
  <2>5. end < neurons[s].last_con
    BY <1>1, <1>9, <2>2, <2>3, <2>4
  <2>6. QED
    BY <2>2, <2>5
<1> HIDE DEF T, it, old, first, end, C, fcc
<1>11. end - 1 \in DOMAIN weights
  <2>1. end \in Int /\ end >= 1
    BY <1>1, <1>9
  <2>2. end <= cap.weights
    BY <1>1, <1>4, <1>9
  <2>3. QED
    BY <1>4, <2>1, <2>2
<1>12. ASSUME NEW w \in DOMAIN weights, w < first + it - 1 \/ end <= w
       PROVE  weights'[w] = weights[w]
  <2>1. w # end - 1 /\ w \notin first + (it - 1) .. old.last_con + (it - 1) - 1
    BY <1>1, <1>4, <1>9, <1>12
  <2>2. CameFrom(w, first, old.last_con, it - 1) = w
    BY <2>1 DEF CameFrom
  <2>3. QED
    BY <1>5, <2>1, <2>2
<1>13. ASSUME NEW i \in 0 .. T - NumOutput - 1
       PROVE  weights'[first + it - 1 + i] = weights[first + i]
  <2> DEFINE w == first + it - 1 + i
  <2>1. /\ w \in DOMAIN weights /\ w # end - 1 /\ w - (it - 1) = first + i
        /\ w \in first + (it - 1) .. old.last_con + (it - 1) - 1
    BY <1>1, <1>4, <1>9
  <2> HIDE DEF w
  <2>2. CameFrom(w, first, old.last_con, it - 1) = first + i
    BY <2>1 DEF CameFrom
  <2>3. weights'[w] = weights[first + i]
    BY <1>5, <2>1, <2>2
  <2>4. QED
    BY <2>3 DEF w
<1>14. ASSUME move.output_weight >= end
       PROVE  weights'[end - 1] = weights[move.output_weight]
  <2>1. move.output_weight \notin
          first + (it - 1) .. old.last_con + (it - 1) - 1
    BY <1>1, <1>9, <1>14
  <2>2. CameFrom(move.output_weight, first, old.last_con, it - 1)
          = move.output_weight
    BY <2>1 DEF CameFrom
  <2>3. QED
    BY <1>5, <1>11, <2>2
<1>15. end <= fcc /\ fcc <= num_connections
       /\ \A s \in it + 1 .. T :
            end <= neurons[s].first_con /\ neurons[s].last_con <= fcc
  BY <1>4, <1>9, <1>10
<1>16. QED
  BY <1>9, <1>10, <1>11, <1>12, <1>13, <1>14, <1>15
     DEF T, it, old, first, end, C, fcc

(* Moving an output gives it the next output weight of the candidate and   *)
(* writes nothing over the candidates.                                     *)
LEMMA MoveKeepsChoice ==
  ASSUME NothingFails, LayoutInv, OrderInv, ChoiceInv, MoveOutputNeuron
  PROVE  ChoiceInv'
<1> DEFINE T == total_neurons
           it == move.neuron_it
           old == neurons[it - 1]
           end == old.last_con + it
           k == cascade_best_candidate - first_candidate_neuron
           ow == move.output_weight
           fcc == first_candidate_connection
<1>1. /\ pc = "move_outputs" /\ RangesInOrder
      /\ T \in Nat /\ NumOutput \in Nat /\ NumOutput >= 1 /\ it \in Nat
      /\ it <= T /\ T - NumOutput <= it - 1 /\ FirstLayer \in Nat
      /\ FirstLayer <= T - NumOutput /\ fcc \in Nat
  <2>1. pc = "move_outputs" /\ it # move.place
    BY DEF MoveOutputNeuron
  <2>2. /\ T \in Nat /\ it \in Nat /\ total_connections \in Nat
        /\ T >= FirstLayer + NumOutput
    BY DEF LayoutInv, TypeOK, NeuronsPresent
  <2>3. move.place = T - NumOutput /\ move.place <= it /\ it <= T
    BY <2>1 DEF LayoutInv, WeightsWhileMoving
  <2>4. fcc \in Nat
    BY <2>2 DEF first_candidate_connection
  <2>5. QED
    BY <2>1, <2>2, <2>3, <2>4, SizesNat DEF OrderInv
<1>2. /\ Candidate.first_con \in Nat /\ Candidate.first_con >= fcc
      /\ Candidate.last_con = Candidate.first_con + (T - NumOutput)
      /\ cascade_best_candidate > T /\ cascade_best_candidate \in DOMAIN neurons
      /\ \A i \in 0 .. T - 1 :
           /\ Candidate.first_con + i \in DOMAIN weights
           /\ weights[Candidate.first_con + i] =
                IF i < T - NumOutput THEN InWeight(T, k, i)
                ELSE OutWeight(T, k, i - (T - NumOutput))
  BY <1>1, BestKnown DEF LayoutInv, ChoiceInv
<1>3. /\ ow \in DOMAIN weights /\ ow >= fcc /\ ow \in Int
      /\ weights[ow] = OutWeight(T, k, T - it)
      /\ ow = Candidate.last_con + (T - it)
  <2> DEFINE i == (T - NumOutput) + (T - it)
  <2>1. ow = Candidate.last_con + (T - it)
    BY <1>1 DEF ChoiceInv, WeightsHandedOut
  <2> HIDE DEF T, it, fcc, k
  <2>2. /\ i \in 0 .. T - 1 /\ ~(i < T - NumOutput) /\ i - (T - NumOutput) = T - it
        /\ ow = Candidate.first_con + i /\ i >= 0
    BY <1>1, <1>2, <2>1
  <2> HIDE DEF i
  <2>3. /\ ow \in DOMAIN weights
        /\ weights[ow] = OutWeight(T, k, T - it)
    BY <1>2, <2>2
  <2>4. QED
    BY <1>1, <1>2, <2>1, <2>2, <2>3
<1>4. pc' = "move_outputs"
  BY <1>1, <1>3 DEF MoveOutputNeuron
<1>5. /\ UNCHANGED <<total_neurons, total_connections, cap, settings, scores,
                     cascade_best_candidate, null_lists,
                     total_connections_allocated>>
      /\ move'.neuron_it = it - 1 /\ move'.output_weight = ow + 1
      /\ neurons'[it].last_con = end
      /\ \A n \in 0 .. cap.neurons - 1 : n # it => neurons'[n] = neurons[n]
      /\ DOMAIN weights' = DOMAIN weights
      /\ old.last_con \in Int
  <2>1. UNCHANGED <<scores, null_lists, total_connections_allocated>>
    BY DEF MoveOutputNeuron, totals, choices, best
  <2>2. old.last_con \in Int
    BY <1>1, <1>4, OneOutputMoves
  <2>3. QED
    BY <1>4, <2>1, <2>2, OneOutputMoves
<1>6. /\ end <= fcc /\ end - 1 \in DOMAIN weights
      /\ \A s \in it + 1 .. T :
           end < neurons[s].last_con /\ neurons[s].last_con <= fcc
      /\ \A w \in DOMAIN weights : end <= w => weights'[w] = weights[w]
      /\ ow >= end => weights'[end - 1] = weights[ow]
      /\ fcc <= num_connections
  BY <1>1, <1>4, MoveTouches
<1>7. /\ num_candidates' = num_candidates /\ num_neurons' = num_neurons
      /\ num_connections' = num_connections
      /\ first_candidate_neuron' = first_candidate_neuron
      /\ first_candidate_connection' = first_candidate_connection
      /\ \A j : CandidateNeuron(j)' = CandidateNeuron(j)
      /\ \A w : CandidateWeight(w)' = CandidateWeight(w)
  BY <1>5 DEF num_candidates, fann_get_cascade_num_candidates, num_neurons,
     num_connections, first_candidate_neuron, first_candidate_connection,
     CandidateNeuron, CandidateWeight, candidate_connections_in
<1>8. /\ num_neurons <= cap.neurons /\ num_connections <= cap.weights
      /\ cap.neurons \in Nat /\ cap.weights \in Nat
      /\ num_neurons \in Nat /\ num_connections \in Nat
      /\ num_candidates \in Nat
      /\ DOMAIN neurons = 0 .. cap.neurons - 1
      /\ DOMAIN weights = 0 .. cap.weights - 1
  <2>1. TypeOK /\ NeuronsPresent /\ CandidatesFit(cap)
    BY <1>1 DEF LayoutInv, RoomHeld
  <2>2. num_candidates \in Nat
    BY <2>1, CandidatesNat DEF TypeOK
  <2>3. QED
    BY <2>1, <2>2, NeededNat DEF CandidatesFit, TypeOK
<1>9. CandidatesWritten'
  <2>1. ASSUME NEW j \in 0 .. num_candidates - 1
        PROVE  neurons'[first_candidate_neuron + j] = CandidateNeuron(j)
    <3> DEFINE n == first_candidate_neuron + j
    <3>1. n \in 0 .. cap.neurons - 1 /\ n # it
      BY <1>1, <1>8 DEF first_candidate_neuron, num_neurons
    <3>2. neurons[n] = CandidateNeuron(j)
      BY <1>1 DEF ChoiceInv, CandidatesWritten, Installing
    <3> HIDE DEF n
    <3>3. neurons'[n] = CandidateNeuron(j)
      BY <1>5, <3>1, <3>2
    <3>4. QED
      BY <3>3 DEF n
  <2>2. ASSUME NEW w \in fcc .. num_connections - 1
        PROVE  weights'[w] = CandidateWeight(w)
    <3> HIDE DEF fcc, end
    <3>1. w \in DOMAIN weights /\ end <= w
      <4>1. w \in Int /\ fcc <= w /\ w < cap.weights /\ 0 <= w
        BY <1>1, <1>8
      <4>2. end \in Int
        BY <1>1, <1>5 DEF end
      <4>3. QED
        BY <1>1, <1>6, <1>8, <4>1, <4>2
    <3>2. weights[w] = CandidateWeight(w)
      BY <1>1 DEF ChoiceInv, CandidatesWritten, Installing, fcc
    <3>3. QED
      BY <1>6, <3>1, <3>2
  <2>3. QED
    BY <1>7, <2>1, <2>2 DEF CandidatesWritten
<1>10. WeightsRecorded' /\ BestChosen' /\ ScoresSuffice'
  BY <1>1, <1>4, <1>5, <1>7 DEF ChoiceInv, WeightsRecorded, BestChosen,
     ScoresSuffice, Installing
<1>11. Candidate' = Candidate
  <2>1. cascade_best_candidate \in 0 .. cap.neurons - 1
        /\ cascade_best_candidate # it
    BY <1>1, <1>2, <1>8
  <2>2. neurons'[cascade_best_candidate] = neurons[cascade_best_candidate]
    BY <1>5, <2>1
  <2>3. QED
    BY <1>5, <2>2 DEF Candidate
<1>12. move'.output_weight = Candidate.last_con + (T - move'.neuron_it)
  <2> HIDE DEF T, it, ow
  <2>1. Candidate.last_con \in Int
    BY <1>1, <1>2
  <2>2. QED
    BY <1>1, <1>3, <1>5, <2>1
<1>13. ASSUME NEW s \in it .. T
       PROVE  weights'[neurons'[s].last_con - 1] = OutWeight(T, k, T - s)
  <2>1. CASE s = it
    <3>1. ow >= end
      <4> HIDE DEF T, it, ow, fcc, old
      <4>1. end \in Int
        BY <1>1, <1>5
      <4> HIDE DEF end
      <4>2. QED
        BY <1>1, <1>3, <1>6, <4>1
    <3>2. weights'[end - 1] = OutWeight(T, k, T - it)
      BY <1>3, <1>6, <3>1
    <3> HIDE DEF end, it, k, T
    <3>3. QED
      BY <1>5, <2>1, <3>2
  <2>2. CASE s # it
    <3> DEFINE w == neurons[s].last_con - 1
    <3>1. s \in it + 1 .. T /\ s \in 0 .. cap.neurons - 1
      BY SMTT(40), <1>1, <1>8, <2>2, NeededNat DEF LayoutInv, num_neurons
    <3>2. neurons'[s] = neurons[s]
      BY <1>5, <2>2, <3>1
    <3>3. weights[w] = OutWeight(T, k, T - s)
      BY <1>1, <3>1 DEF ChoiceInv, WeightsHandedOut
    <3>4. neurons[s].last_con \in Int
      BY <1>8, <3>1 DEF LayoutInv, TypeOK
    <3>5. end < neurons[s].last_con /\ neurons[s].last_con <= fcc
      BY <1>6, <3>1
    <3>6. 0 <= end
      <4> HIDE DEF end
      <4>1. end - 1 \in 0 .. cap.weights - 1
        BY <1>6, <1>8
      <4>2. end \in Int
        BY <1>1, <1>5 DEF end
      <4>3. QED
        BY <1>8, <4>1, <4>2
    <3> HIDE DEF T, it, old, fcc
    <3>7. end \in Int
      BY <1>1, <1>5
    <3> HIDE DEF end
    <3>8. w \in DOMAIN weights /\ end <= w
      <4> DEFINE l == neurons[s].last_con
      <4>1. l \in Int /\ end < l /\ l <= fcc
        BY <3>4, <3>5
      <4>2. /\ DOMAIN weights = 0 .. cap.weights - 1 /\ cap.weights \in Nat
            /\ num_connections \in Nat /\ num_connections <= cap.weights
        BY <1>8
      <4>3. fcc <= num_connections /\ fcc \in Int
        BY <1>1, <1>6
      <4> HIDE DEF l
      <4>4. l - 1 \in 0 .. cap.weights - 1 /\ end <= l - 1
        BY <3>6, <3>7, <4>1, <4>2, <4>3
      <4>5. QED
        BY <4>2, <4>4 DEF l
    <3> HIDE DEF w
    <3>9. weights'[w] = OutWeight(T, k, T - s)
      BY <1>6, <3>3, <3>8
    <3>10. QED
      BY <3>2, <3>9 DEF w
  <2>3. QED
    BY <2>1, <2>2
<1>14. WeightsHandedOut'
  <2>1. move'.neuron_it + 1 = it
    BY <1>1, <1>5
  <2>2. \A s \in move'.neuron_it + 1 .. T :
          weights'[neurons'[s].last_con - 1] = OutWeight(T, k, T - s)
    BY <1>13, <2>1
  <2>3. QED
    BY <1>5, <1>7, <1>11, <1>12, <2>2 DEF WeightsHandedOut
<1>15. QED
  BY <1>4, <1>5, <1>9, <1>10, <1>14 DEF ChoiceInv, AlwaysDefined

(* The last step of an installation reads the candidate from where it was  *)
(* written; the network then has the room that was made for it.            *)
LEMMA PlacingKeepsChoice ==
  ASSUME NothingFails, LayoutInv, ChoiceInv, PlaceNeuron
  PROVE  ChoiceInv'
<1> DEFINE T == total_neurons
<1>1. pc = "move_outputs" /\ move.neuron_it = move.place
  BY DEF PlaceNeuron
<1>2. /\ T \in Nat /\ NumOutput \in Nat /\ NumOutput >= 1 /\ FirstLayer \in Nat
      /\ FirstLayer >= 2 /\ T >= FirstLayer + NumOutput
      /\ total_connections \in Nat /\ total_connections_allocated \in Nat
      /\ move.in = T - NumOutput
  BY <1>1, SizesNat DEF LayoutInv, TypeOK, NeuronsPresent, WeightsWhileMoving
<1>3. /\ Candidate.first_con \in Nat
      /\ \A i \in 0 .. T - 1 : Candidate.first_con + i \in DOMAIN weights
  BY <1>1, BestKnown DEF LayoutInv, ChoiceInv
<1>4. Candidate.first_con + move.in - 1 \in DOMAIN weights
  <2>1. move.in - 1 \in 0 .. T - 1
    BY <1>2
  <2>2. QED
    BY <1>3, <2>1
<1>5. pc' \in {"outputs", "final"}
  BY <1>1, <1>4 DEF PlaceNeuron
<1>6. /\ total_connections' = total_connections + T
      /\ UNCHANGED <<settings, scores, null_lists, total_connections_allocated>>
  <2>1. total_connections' = total_connections + T
        /\ UNCHANGED <<settings, scores, null_lists>>
    BY <1>5, NewNeuronPlaced
  <2>2. UNCHANGED total_connections_allocated
    BY DEF PlaceNeuron
  <2>3. QED
    BY <2>1, <2>2
<1>7. total_connections' <= total_connections_allocated'
  <2>1. num_connections \in Nat /\ num_connections >= total_connections + T
    BY NeededNat DEF LayoutInv
  <2>2. num_connections <= total_connections_allocated
    BY <1>1 DEF ChoiceInv, WeightsRecorded, Installing
  <2>3. QED
    BY <1>2, <1>6, <2>1, <2>2
<1>8. ScoresSuffice' /\ null_lists' = {}
  BY <1>6 DEF ChoiceInv, ScoresSuffice, num_candidates,
     fann_get_cascade_num_candidates
<1>9. QED
  BY <1>5, <1>7, <1>8, ChoiceOutside

(* Every step keeps the choice.                                            *)
LEMMA ChoiceStep ==
  ASSUME NothingFails, LayoutInv, RecordInv, OrderInv, ChoiceInv, [Next]_vars
  PROVE  ChoiceInv'
<1>1. CASE UNCHANGED vars
  BY <1>1 DEF vars, loop, heap, totals, choices, best, ChoiceInv, AlwaysDefined,
     ScoresSuffice, WeightsRecorded, CandidatesWritten, BestChosen,
     WeightsHandedOut, Installing, num_candidates,
     fann_get_cascade_num_candidates, num_neurons, num_connections,
     first_candidate_neuron, first_candidate_connection, Candidate,
     CandidateNeuron, CandidateWeight, candidate_connections_in
<1>2. CASE NeuronReallocFails \/ ConnectionReallocFails
  BY <1>2 DEF NeuronReallocFails, ConnectionReallocFails, NothingFails
<1>3. QED
  BY <1>1, <1>2, SettersKeepChoice, LoopKeepsChoice, InitializeWritesCandidates,
     TrainingChooses, LayerKeepsChoice, MoveKeepsChoice, PlacingKeepsChoice
     DEF Next

(* The whole inductive invariant, as long as nothing fails.                *)
THEOREM ChoiceAlways ==
  ASSUME NothingFails
  PROVE  Spec => [](LayoutInv /\ RecordInv /\ OrderInv /\ ChoiceInv)
<1>1. /\ LayoutInv /\ RecordInv /\ OrderInv /\ ChoiceInv /\ [Next]_vars
      => LayoutInv' /\ RecordInv' /\ OrderInv' /\ ChoiceInv'
  BY LayoutStep, RecordStep, OrderStep, ChoiceStep DEF NothingFails
<1>2. QED
  BY <1>1, InitLayout, InitRecord, CreatedInOrder, InitChoice, PTL DEF Spec

(* No null pointer and no slot outside its block is ever used by a cascade *)
(* training all of whose allocations succeed.                              *)
THEOREM NothingUndefined ==
  ASSUME NothingFails
  PROVE  Spec => []AlwaysDefined
<1>1. ChoiceInv => AlwaysDefined
  BY DEF ChoiceInv
<1>2. QED
  BY <1>1, ChoiceAlways, PTL

(* However many outputs have moved, what fann_add_candidate_neuron still   *)
(* has to read of the best candidate is as fann_initialize_candidates      *)
(* wrote it (fann_cascade.c:841).                                          *)
THEOREM CandidateIsIntact ==
  ASSUME NothingFails
  PROVE  Spec => []BestCandidateIntact
<1>1. ASSUME LayoutInv, ChoiceInv
      PROVE  BestCandidateIntact
  <2> SUFFICES ASSUME pc = "move_outputs" PROVE BestCandidateIntact
    BY DEF BestCandidateIntact
  <2> DEFINE k == cascade_best_candidate - first_candidate_neuron
             T == total_neurons
             moved == T - move.neuron_it
  <2>1. /\ Candidate = CandidateNeuron(k)
        /\ Candidate.first_con \in Nat
        /\ Candidate.last_con = Candidate.first_con + (T - NumOutput)
        /\ \A i \in 0 .. T - 1 :
             weights[Candidate.first_con + i] =
               IF i < T - NumOutput THEN InWeight(T, k, i)
               ELSE OutWeight(T, k, i - (T - NumOutput))
    BY <1>1, BestKnown DEF LayoutInv, ChoiceInv
  <2>2. /\ T \in Nat /\ NumOutput \in Nat /\ move.in = T - NumOutput
        /\ move.neuron_it \in Nat /\ move.neuron_it <= T /\ T >= NumOutput
    BY <1>1, SizesNat DEF LayoutInv, TypeOK, NeuronsPresent, WeightsWhileMoving
  <2> HIDE DEF k, T
  <2>3. ASSUME NEW i \in 0 .. move.in - 1
        PROVE  weights[Candidate.first_con + i] = InWeight(T, k, i)
    <3>1. i \in 0 .. T - 1 /\ i < T - NumOutput
      BY <2>2
    <3>2. QED
      BY <2>1, <3>1
  <2>4. ASSUME NEW j \in moved .. NumOutput - 1
        PROVE  weights[Candidate.last_con + j] = OutWeight(T, k, j)
    <3> DEFINE i == (T - NumOutput) + j
    <3>1. /\ i \in 0 .. T - 1 /\ ~(i < T - NumOutput) /\ i - (T - NumOutput) = j
          /\ Candidate.first_con + i = Candidate.last_con + j
      BY <2>1, <2>2
    <3> HIDE DEF i
    <3>2. weights[Candidate.first_con + i] = OutWeight(T, k, j)
      BY <2>1, <3>1
    <3>3. QED
      BY <3>1, <3>2
  <2>5. QED
    BY <2>1, <2>3, <2>4 DEF BestCandidateIntact, k, T
<1>2. LayoutInv /\ ChoiceInv => BestCandidateIntact
  BY <1>1
<1>3. QED
  BY <1>2, ChoiceAlways, PTL

----------------------------------------------------------------------------
(* CascadeLayout implements CascadeNet                                     *)

(* A sequence given by its elements, and one more.                         *)
LEMMA AppendedTo ==
  ASSUME NEW n \in Nat, NEW f, f = [i \in 1 .. n |-> f[i]], NEW x
  PROVE  Append(f, x) = [i \in 1 .. n + 1 |-> IF i <= n THEN f[i] ELSE x]
<1> DEFINE S == {f[i] : i \in 1 .. n} \union {x}
<1>1. f \in [1 .. n -> S] /\ x \in S
  OBVIOUS
<1> HIDE DEF S
<1>2. f \in Seq(S)
  BY <1>1, SeqDef
<1>3. Len(f) = n
  BY <1>1, <1>2
<1>4. /\ Append(f, x) \in Seq(S)
      /\ Len(Append(f, x)) = n + 1
      /\ \A i \in 1 .. n : Append(f, x)[i] = f[i]
      /\ Append(f, x)[n + 1] = x
  BY <1>1, <1>2, <1>3, AppendProperties
<1>5. DOMAIN Append(f, x) = 1 .. n + 1
  BY <1>4
<1>6. \A i \in 1 .. n + 1 : Append(f, x)[i] = IF i <= n THEN f[i] ELSE x
  BY <1>4
<1>7. Append(f, x) = [i \in DOMAIN Append(f, x) |-> Append(f, x)[i]]
  BY <1>4
<1>8. QED
  BY <1>5, <1>6, <1>7

(* The invariants of the layout that the steps below rely on.              *)
GrowthInv == LayoutInv /\ RecordInv /\ OrderInv /\ ChoiceInv

(* A new network has no hidden neuron, and outputs with the weights they   *)
(* were created with.                                                      *)
LEMMA StartsEmpty == Init => Built!Init
<1> SUFFICES ASSUME Init PROVE hidden = <<>> /\ outputs = CreatedOutputs
  BY DEF Built!Init
<1> USE SizesNat
<1>1. /\ pc = "idle" /\ total_neurons = FirstLayer + NumOutput
      /\ weights = [w \in 0 .. FirstLayer * NumOutput - 1 |->
                      NetWeight(w \div FirstLayer, w % FirstLayer)]
      /\ \A n \in 0 .. total_neurons - 1 : neurons[n] = CreatedNeuron(n)
  BY DEF Init
<1>2. hidden = <<>>
  <2>1. 1 .. NumHidden = {}
    BY <1>1 DEF NumHidden
  <2>2. QED
    BY <2>1 DEF hidden
<1>3. ASSUME NEW j \in 0 .. NumOutput - 1
      PROVE  /\ neurons[OutputSlot(j)].kind = <<"output", j>>
             /\ neurons[OutputSlot(j)].first_con = j * FirstLayer
             /\ FanIn(OutputSlot(j)) = FirstLayer
  <2> DEFINE slot == FirstLayer + j
  <2>1. OutputSlot(j) = slot
    BY <1>1 DEF OutputSlot
  <2>2. slot \in 0 .. total_neurons - 1 /\ ~(slot < FirstLayer)
        /\ slot - FirstLayer = j /\ slot \in Nat
        /\ total_neurons - NumOutput = FirstLayer
    BY <1>1
  <2> HIDE DEF slot
  <2>3. neurons[slot] = CreatedNeuron(slot)
    BY <1>1, <2>2
  <2>4. neurons[slot].kind = <<"output", j>>
        /\ neurons[slot].first_con = j * FirstLayer
    BY <2>2, <2>3 DEF CreatedNeuron
  <2>5. FanIn(slot) = FirstLayer
    BY <2>2 DEF FanIn
  <2>6. QED
    BY <2>1, <2>4, <2>5
<1>4. ASSUME NEW j \in 0 .. NumOutput - 1, NEW i \in 1 .. FirstLayer
      PROVE  weights[j * FirstLayer + i - 1] = NetWeight(j, i - 1)
  <2> DEFINE a == j * FirstLayer
             b == FirstLayer * NumOutput
             w == a + (i - 1)
  <2>1. i - 1 \in 0 .. FirstLayer - 1 /\ NumOutput \in Nat /\ j \in Nat
    BY <1>1
  <2>2. a + (i - 1) \in Nat /\ a + (i - 1) < b /\ a \in Nat /\ b \in Nat
    BY <2>1, BlockInside
  <2>3. (a + (i - 1)) % FirstLayer = i - 1 /\ (a + (i - 1)) \div FirstLayer = j
    BY <2>1, PositionInBlock
  <2>4. a + i - 1 = w
    <3> HIDE DEF a
    <3>1. QED
      BY <2>1, <2>2
  <2> HIDE DEF b
  <2>5. weights = [v \in 0 .. b - 1 |-> NetWeight(v \div FirstLayer, v % FirstLayer)]
    BY <1>1 DEF b
  <2> HIDE DEF w
  <2>6. w \in 0 .. b - 1 /\ w % FirstLayer = i - 1 /\ w \div FirstLayer = j
    <3>1. w \in Nat /\ w < b
      BY <2>2 DEF w
    <3>2. w % FirstLayer = i - 1 /\ w \div FirstLayer = j
      BY <2>3 DEF w
    <3>3. QED
      BY <2>2, <3>1, <3>2
  <2>7. weights[w] = NetWeight(j, i - 1)
    BY <2>5, <2>6
  <2>8. QED
    BY <2>4, <2>7
<1>5. ASSUME NEW j \in 0 .. NumOutput - 1
      PROVE  WeightsOf(OutputSlot(j)) = [i \in 1 .. FirstLayer |-> NetWeight(j, i - 1)]
  <2>1. \A i \in 1 .. FirstLayer :
          weights[neurons[OutputSlot(j)].first_con + i - 1] = NetWeight(j, i - 1)
    BY <1>3, <1>4
  <2>2. QED
    BY <1>3, <2>1 DEF WeightsOf
<1>6. outputs = CreatedOutputs
  BY <1>3, <1>5 DEF outputs, CreatedOutputs
<1>7. QED
  BY <1>2, <1>6

(* A slot whose neuron and whose weights are left alone is read as before. *)
LEMMA SlotUnchanged ==
  ASSUME NEW n, neurons'[n] = neurons[n], FanIn(n)' = FanIn(n),
         FanIn(n) \in Nat, neurons[n].first_con \in Int,
         \A w \in neurons[n].first_con .. neurons[n].first_con + FanIn(n) - 1 :
           weights'[w] = weights[w]
  PROVE  WeightsOf(n)' = WeightsOf(n)
<1> DEFINE first == neurons[n].first_con
           size == FanIn(n)
<1>1. \A i \in 1 .. size : first + i - 1 \in first .. first + size - 1
  <2> HIDE DEF first, size
  <2>1. first \in Int /\ size \in Nat
    BY DEF first, size
  <2>2. QED
    BY <2>1
<1>2. \A i \in 1 .. size : weights'[first + i - 1] = weights[first + i - 1]
  BY <1>1
<1>3. WeightsOf(n)' = [i \in 1 .. size |-> weights'[first + i - 1]]
  BY DEF WeightsOf
<1>4. WeightsOf(n) = [i \in 1 .. size |-> weights[first + i - 1]]
  BY DEF WeightsOf
<1> HIDE DEF first, size
<1>5. QED
  BY <1>2, <1>3, <1>4

(* The sizes the mapping reads by.                                         *)
LEMMA NetworkSizes ==
  ASSUME GrowthInv
  PROVE  /\ total_neurons \in Nat /\ NumOutput \in Nat /\ NumOutput >= 1
         /\ FirstLayer \in Nat /\ FirstLayer >= 2
         /\ total_neurons >= FirstLayer + NumOutput
         /\ total_connections \in Nat
         /\ cap.neurons \in Nat /\ cap.neurons > 0 /\ cap.neurons >= total_neurons
         /\ cap.weights \in Nat /\ total_connections <= cap.weights
         /\ DOMAIN weights = 0 .. cap.weights - 1
         /\ DOMAIN neurons = 0 .. cap.neurons - 1
         /\ pc # "undefined"
         /\ \A n \in FirstLayer .. total_neurons - 1 : FanIn(n) \in Nat
         /\ \A n \in DOMAIN neurons :
              neurons[n].first_con \in Int /\ neurons[n].last_con \in Int
<1>1. /\ total_neurons \in Nat /\ total_connections \in Nat
      /\ cap.neurons \in Nat /\ cap.weights \in Nat
      /\ DOMAIN weights = 0 .. cap.weights - 1
      /\ DOMAIN neurons = 0 .. cap.neurons - 1
      /\ total_neurons_allocated \in Nat /\ total_connections_allocated \in Nat
      /\ \A n \in DOMAIN neurons :
           neurons[n].first_con \in Int /\ neurons[n].last_con \in Int
  BY DEF GrowthInv, LayoutInv, TypeOK
<1>2. /\ total_neurons >= FirstLayer + NumOutput
      /\ cap.neurons # 0 => cap.neurons >= total_neurons
  BY DEF GrowthInv, LayoutInv, NeuronsPresent
<1>3. /\ total_neurons_allocated > 0 /\ total_neurons_allocated <= cap.neurons
      /\ total_connections_allocated <= cap.weights
  BY DEF GrowthInv, RecordInv, AllocatedOnRecord
<1>4. total_connections <= total_connections_allocated /\ pc # "undefined"
  BY DEF GrowthInv, ChoiceInv, WeightsRecorded, AlwaysDefined
<1>5. cap.neurons > 0 /\ total_connections <= cap.weights
  BY <1>1, <1>3, <1>4
<1>6. \A n \in FirstLayer .. total_neurons - 1 : FanIn(n) \in Nat
  BY <1>1, <1>2, SizesNat DEF FanIn
<1>7. QED
  BY <1>1, <1>2, <1>4, <1>5, <1>6, SizesNat

(* Between two installations every weight a neuron owns is one of the      *)
(* network's.                                                              *)
LEMMA OwnedWeights ==
  ASSUME GrowthInv, pc # "move_outputs",
         NEW n \in FirstLayer .. total_neurons - 1
  PROVE  neurons[n].first_con >= 0
         /\ neurons[n].first_con + FanIn(n) <= total_connections
<1>1. cap.neurons > 0 /\ pc # "undefined"
  BY NetworkSizes
<1>2. Slots = FirstLayer .. total_neurons - 1 /\ End = total_connections
  BY DEF Slots, End
<1>3. 0 <= neurons[n].first_con /\ neurons[n].last_con <= total_connections
  BY <1>1, <1>2 DEF GrowthInv, OrderInv, RangesInOrder
<1>4. neurons[n].last_con = neurons[n].first_con + FanIn(n)
  BY <1>1 DEF GrowthInv, LayoutInv, WeightsPartition
<1>5. QED
  BY <1>3, <1>4

(* No step but those that move the outputs writes a weight of the network. *)
LEMMA NetworkWeightsStay ==
  ASSUME NothingFails, GrowthInv, GrowthInv', [Next]_vars, pc # "move_outputs"
  PROVE  \A w \in 0 .. total_connections - 1 : weights'[w] = weights[w]
<1>1. UNCHANGED weights \/ fann_initialize_candidates
  BY DEF Next, vars, heap, SetCandidateList, SetCandidateScalar, StartTraining,
     TrainOutputs, TrainOutputsLastTime, fann_train_outputs,
     StopGrowing, KeepGrowing, NeuronReallocFails, ConnectionReallocFails,
     NothingFails, fann_train_candidates, fann_add_layer,
     fann_add_candidate_neuron, MoveOutputNeuron, PlaceNeuron,
     fann_set_shortcut_connections
<1>2. CASE fann_initialize_candidates
  <2> TAKE w \in 0 .. total_connections - 1
  <2>1. w \in DOMAIN weights /\ w \in Nat
    BY NetworkSizes
  <2>2. w \notin first_candidate_connection .. num_connections - 1
    BY NetworkSizes DEF first_candidate_connection
  <2>3. w \in 0 .. cap'.weights - 1
    <3>1. total_connections' <= cap'.weights /\ cap'.weights \in Nat
          /\ total_connections \in Nat
      <4>1. /\ total_connections' \in Nat /\ cap'.weights \in Nat
            /\ total_connections_allocated' \in Nat
        BY DEF GrowthInv, LayoutInv, TypeOK
      <4>2. /\ total_connections' <= total_connections_allocated'
            /\ total_connections_allocated' <= cap'.weights
        BY DEF GrowthInv, RecordInv, AllocatedOnRecord, ChoiceInv, WeightsRecorded
      <4>3. QED
        BY SMTT(40), <4>1, <4>2, NetworkSizes
    <3>2. total_connections' = total_connections
      BY <1>2 DEF fann_initialize_candidates
    <3>3. QED
      BY <3>1, <3>2
  <2>4. QED
    BY <1>2, <2>1, <2>2, <2>3 DEF fann_initialize_candidates
<1>3. QED
  BY <1>1, <1>2

(* Where output j is, when no output is on the move.                       *)
LEMMA OutputsInPlace ==
  ASSUME GrowthInv, pc # "move_outputs", NEW j \in 0 .. NumOutput - 1
  PROVE  /\ OutputSlot(j) = total_neurons - NumOutput + j
         /\ OutputSlot(j) \in FirstLayer .. total_neurons - 1
BY SMTT(40), NetworkSizes DEF OutputSlot

(* Training, its callback, making room for candidates, writing and         *)
(* training them, and the first half of their installation: the network is *)
(* the same list of neurons.                                               *)
LEMMA OtherStepsStutter ==
  ASSUME NothingFails, GrowthInv, GrowthInv', [Next]_vars, pc # "move_outputs"
  PROVE  UNCHANGED <<hidden, outputs>>
<1> DEFINE T == total_neurons
<1>1. /\ total_neurons' = T
      /\ \A n \in 0 .. T - 1 : neurons'[n] = neurons[n]
  <2>1. cap'.neurons > 0
    <3>1. cap'.neurons \in Nat /\ total_neurons_allocated' \in Nat
      BY DEF GrowthInv, LayoutInv, TypeOK
    <3>2. total_neurons_allocated' > 0 /\ total_neurons_allocated' <= cap'.neurons
      BY DEF GrowthInv, RecordInv, AllocatedOnRecord
    <3>3. QED
      BY <3>1, <3>2
  <2>2. QED
    BY <2>1, NetworkNeuronsStay DEF GrowthInv
<1>2. /\ T \in Nat /\ NumOutput \in Nat /\ NumOutput >= 1 /\ FirstLayer \in Nat
      /\ T >= FirstLayer + NumOutput /\ FirstLayer >= 2
      /\ total_connections \in Nat
  BY NetworkSizes
<1>3. ASSUME NEW n \in FirstLayer .. T - 1
      PROVE  WeightsOf(n)' = WeightsOf(n) /\ neurons'[n].kind = neurons[n].kind
  <2>1. n \in 0 .. T - 1
    BY <1>2
  <2>2. neurons'[n] = neurons[n] /\ FanIn(n)' = FanIn(n)
    BY <1>1, <2>1 DEF FanIn
  <2>3. n \in DOMAIN neurons
    BY <1>2, <2>1, NetworkSizes
  <2>4. neurons[n].first_con \in Int /\ FanIn(n) \in Nat
    BY <2>3, NetworkSizes
  <2>5. neurons[n].first_con >= 0
        /\ neurons[n].first_con + FanIn(n) <= total_connections
    BY OwnedWeights
  <2>6. \A w \in neurons[n].first_con .. neurons[n].first_con + FanIn(n) - 1 :
          weights'[w] = weights[w]
    <3> TAKE w \in neurons[n].first_con .. neurons[n].first_con + FanIn(n) - 1
    <3>1. w \in 0 .. total_connections - 1
      BY <1>2, <2>4, <2>5
    <3>2. QED
      BY <3>1, NetworkWeightsStay
  <2>7. QED
    BY <2>2, <2>4, <2>6, SlotUnchanged
<1>4. NumHidden' = NumHidden /\ NumHidden \in Nat
  BY <1>1, <1>2 DEF NumHidden, FirstLayer
<1>5. hidden' = hidden
  <2>1. ASSUME NEW h \in 1 .. NumHidden
        PROVE  FirstLayer + h - 1 \in FirstLayer .. T - 1
    BY <1>2 DEF NumHidden
  <2>2. \A h \in 1 .. NumHidden :
          /\ WeightsOf(FirstLayer + h - 1)' = WeightsOf(FirstLayer + h - 1)
          /\ neurons'[FirstLayer + h - 1].kind = neurons[FirstLayer + h - 1].kind
    BY <1>3, <2>1
  <2>3. FirstLayer' = FirstLayer
    BY DEF FirstLayer
  <2>4. QED
    BY <1>4, <2>2, <2>3 DEF hidden
<1>6. outputs' = outputs
  <2>1. ASSUME NEW j \in 0 .. NumOutput - 1
        PROVE  OutputSlot(j)' = OutputSlot(j) /\ OutputSlot(j) \in FirstLayer .. T - 1
    <3>1. OutputSlot(j) = T - NumOutput + j /\ OutputSlot(j) \in FirstLayer .. T - 1
      BY OutputsInPlace
    <3>2. CASE pc' = "move_outputs"
      <4>1. move'.neuron_it = T
        BY <3>2, MovesStartAtTheEnd DEF GrowthInv
      <4>2. QED
        BY <1>1, <1>2, <3>1, <4>1 DEF OutputSlot
    <3>3. CASE pc' # "move_outputs"
      BY <1>1, <3>1, <3>3 DEF OutputSlot
    <3>4. QED
      BY <3>1, <3>2, <3>3
  <2>2. \A j \in 0 .. NumOutput - 1 :
          /\ WeightsOf(OutputSlot(j))' = WeightsOf(OutputSlot(j))
          /\ neurons'[OutputSlot(j)'].kind = neurons[OutputSlot(j)].kind
    BY <1>3, <2>1
  <2>3. QED
    BY <2>2 DEF outputs
<1>7. QED
  BY <1>5, <1>6

(* Moving an output: it is read where it went, with the weights it had;    *)
(* every other neuron is left alone.                                       *)
LEMMA MoveStutters ==
  ASSUME GrowthInv, MoveOutputNeuron, pc' # "undefined"
  PROVE  UNCHANGED <<hidden, outputs>>
<1> DEFINE T == total_neurons
           it == move.neuron_it
           old == neurons[it - 1]
           first == old.first_con
           end == old.last_con + it
           Later(n) == [i \in 1 .. FanIn(n) |-> weights'[neurons'[n].first_con + i - 1]]
<1>1. LayoutInv /\ RangesInOrder
  BY DEF GrowthInv, OrderInv
<1>2. /\ pc = "move_outputs" /\ pc' = "move_outputs"
      /\ T \in Nat /\ it \in Nat /\ it <= T /\ T - NumOutput <= it - 1
      /\ FirstLayer <= T - NumOutput /\ total_neurons' = T
      /\ move'.neuron_it = it - 1
      /\ T < cap.neurons /\ first \in Int
      /\ old.last_con = first + (T - NumOutput)
      /\ neurons'[it].first_con = first + it - 1
      /\ neurons'[it].kind = old.kind
      /\ \A n \in 0 .. cap.neurons - 1 : n # it => neurons'[n] = neurons[n]
  BY <1>1, OneOutputMoves
<1>3. /\ NumOutput \in Nat /\ NumOutput >= 1 /\ FirstLayer \in Nat
      /\ FirstLayer >= 2 /\ cap.neurons \in Nat /\ cap.neurons > 0
      /\ DOMAIN neurons = 0 .. cap.neurons - 1
      /\ DOMAIN weights = 0 .. cap.weights - 1 /\ cap.weights \in Nat
      /\ \A n \in DOMAIN neurons :
           neurons[n].first_con \in Int /\ neurons[n].last_con \in Int
  BY NetworkSizes
<1>4. /\ 0 <= first /\ end - 1 \in DOMAIN weights
      /\ end <= first_candidate_connection
      /\ first_candidate_connection <= num_connections
      /\ \A s \in it + 1 .. T :
           /\ end <= neurons[s].first_con
           /\ neurons[s].last_con <= first_candidate_connection
      /\ \A w \in DOMAIN weights :
           w < first + it - 1 \/ end <= w => weights'[w] = weights[w]
      /\ \A i \in 0 .. T - NumOutput - 1 :
           weights'[first + it - 1 + i] = weights[first + i]
  BY <1>1, <1>2, MoveTouches
<1>5. /\ num_connections <= cap.weights /\ num_connections \in Nat
      /\ first_candidate_connection \in Nat
  <2>1. TypeOK /\ NeuronsPresent /\ RoomHeld
    BY <1>1 DEF LayoutInv
  <2>2. CandidatesFit(cap)
    BY <1>2, <2>1 DEF RoomHeld
  <2>3. num_connections <= cap.weights /\ num_connections \in Nat
    BY <2>1, <2>2, NeededNat DEF CandidatesFit
  <2>4. first_candidate_connection \in Nat
    BY <2>1 DEF TypeOK, first_candidate_connection
  <2>5. QED
    BY <2>3, <2>4
<1>6. Slots = (FirstLayer .. T) \ {it}
  BY <1>2 DEF Slots
<1>7. /\ \A n \in Slots : 0 <= neurons[n].first_con
      /\ \A m, n \in Slots :
           m < n => neurons[m].last_con <= neurons[n].first_con
  BY <1>1, <1>2, <1>3 DEF RangesInOrder
<1>8. \A n : FanIn(n)' = FanIn(n)
  BY <1>2 DEF FanIn
<1>9. ASSUME NEW n \in FirstLayer .. T, n # it, n # it - 1
      PROVE  Later(n) = WeightsOf(n) /\ neurons'[n].kind = neurons[n].kind
  <2> DEFINE from == neurons[n].first_con
             size == FanIn(n)
  <2>1. n \in 0 .. cap.neurons - 1 /\ n \in Slots /\ n \in Nat
    BY <1>2, <1>3, <1>6, <1>9
  <2>2. neurons'[n] = neurons[n]
    BY <1>2, <1>9, <2>1
  <2>3. from \in Int /\ neurons[n].last_con \in Int /\ 0 <= from
    BY <1>3, <1>7, <2>1
  <2>4. size \in Nat
    BY <1>2, <1>3, <2>1 DEF FanIn
  <2>5. ASSUME NEW w \in from .. from + size - 1
        PROVE  weights'[w] = weights[w]
    <3>1. CASE n < it
      <4>1. n < it - 1 /\ it - 1 \in Slots /\ n \in FirstLayer .. T - 1 /\ n <= it
        <5>1. it \in Nat /\ T \in Nat /\ FirstLayer \in Nat /\ it <= T
              /\ FirstLayer <= it - 1 /\ n \in FirstLayer .. T /\ n < it
              /\ n # it - 1
          BY <1>2, <1>3, <1>9, <3>1
        <5> HIDE DEF it, T
        <5>2. n < it - 1 /\ n \in FirstLayer .. T - 1 /\ n <= it
          BY <5>1
        <5>3. it - 1 \in FirstLayer .. T /\ it - 1 # it
          BY <5>1
        <5>4. QED
          BY <1>6, <5>2, <5>3
      <4>2. neurons[n].last_con = from + size
        BY <1>1, <1>2, <4>1 DEF LayoutInv, WeightsWhileMoving
      <4>3. neurons[n].last_con <= first
        BY <1>7, <2>1, <4>1
      <4> HIDE DEF from, size, first, T, it
      <4>4. w \in Int /\ 0 <= w /\ w < first /\ first <= first + it - 1
        <5>1. it >= 1 /\ first \in Int /\ it \in Nat
          BY SMTT(40), <1>2, <1>3 DEF it, T
        <5>2. from \in Int /\ size \in Nat /\ 0 <= from /\ from + size <= first
          BY <2>3, <2>4, <4>2, <4>3
        <5>3. w \in from .. from + size - 1
          OBVIOUS
        <5>4. QED
          BY <5>1, <5>2, <5>3
      <4>5. w \in DOMAIN weights
        <5>1. end \in Int /\ first <= end
          BY SMTT(40), <1>2, <1>3
        <5> HIDE DEF end
        <5>2. QED
          BY <1>2, <1>3, <1>4, <4>4, <5>1
      <4>6. w < first + it - 1
        BY <1>2, <4>4
      <4>7. QED
        BY <1>4, <4>5, <4>6
    <3>2. CASE n > it
      <4>1. n \in it + 1 .. T /\ n \in FirstLayer .. T
        BY <1>2, <1>9, <2>1, <3>2
      <4>2. neurons[n].last_con = from + T - NumOutput + 1
        BY <1>1, <1>2, <3>2, <4>1 DEF LayoutInv, WeightsWhileMoving
      <4>3. size = T - NumOutput
        BY <1>2, <1>3, <2>1, <3>2 DEF FanIn
      <4>4. end <= from /\ neurons[n].last_con <= first_candidate_connection
        BY <1>4, <4>1
      <4>5. end \in Int
        BY SMTT(40), <1>2, <1>3
      <4> HIDE DEF from, size, first, T, it, end
      <4>6. w \in Int /\ end <= w /\ 0 <= w /\ w < neurons[n].last_con
        BY SMTT(40), <1>2, <1>3, <2>3, <2>4, <4>2, <4>3, <4>4, <4>5
      <4>7. w \in DOMAIN weights
        BY SMTT(40), <1>3, <1>4, <1>5, <2>3, <4>4, <4>6
      <4>8. QED
        BY <1>4, <4>6, <4>7
    <3>3. n < it \/ n > it
      BY <1>2, <1>9, <2>1
    <3>4. QED
      BY <3>1, <3>2, <3>3
  <2>6. QED
    <3>1. WeightsOf(n)' = WeightsOf(n)
      BY <1>8, <2>2, <2>3, <2>4, <2>5, SlotUnchanged
    <3>2. WeightsOf(n)' = Later(n)
      BY <1>8 DEF WeightsOf
    <3>3. QED
      BY <2>2, <3>1, <3>2
<1>10. /\ Later(it) = [i \in 1 .. T - NumOutput |-> weights[first + i - 1]]
       /\ WeightsOf(it - 1) = [i \in 1 .. T - NumOutput |-> weights[first + i - 1]]
  <2> DEFINE size == T - NumOutput
             Read(i) == weights[first + i - 1]
  <2>1. it \in Nat /\ it - 1 \in Nat /\ ~(it - 1 < size) /\ size \in Nat
    BY <1>2, <1>3
  <2>2. FanIn(it - 1) = size
    BY <2>1 DEF FanIn
  <2>3. ASSUME NEW i \in 1 .. size
        PROVE  weights'[first + it - 1 + i - 1] = Read(i)
    <3>1. i - 1 \in 0 .. size - 1
      BY <2>1
    <3>2. /\ first + it - 1 + (i - 1) = first + it - 1 + i - 1
          /\ first + (i - 1) = first + i - 1
      <4> HIDE DEF first, it
      <4>1. QED
        BY <1>2
    <3>3. weights'[first + it - 1 + (i - 1)] = weights[first + (i - 1)]
      BY <1>4, <3>1
    <3>4. QED
      BY <3>2, <3>3
  <2>4. WeightsOf(it - 1) = [i \in 1 .. size |-> Read(i)]
    BY <2>2 DEF WeightsOf
  <2>5. neurons'[it].first_con = first + it - 1 /\ FanIn(it) = size
    BY <1>2, <2>1 DEF FanIn
  <2>6. Later(it) = [i \in 1 .. size |-> weights'[first + it - 1 + i - 1]]
    BY <2>5
  <2>7. QED
    BY <2>3, <2>4, <2>6
<1>11. NumHidden' = NumHidden /\ FirstLayer' = FirstLayer
  BY <1>2 DEF NumHidden, FirstLayer
<1>12. hidden' = hidden
  <2>1. ASSUME NEW h \in 1 .. NumHidden
        PROVE  LET n == FirstLayer + h - 1 IN
               n \in FirstLayer .. T /\ n # it /\ n # it - 1
    BY SMTT(40), <1>2, <1>3 DEF NumHidden
  <2>2. \A h \in 1 .. NumHidden :
          /\ WeightsOf(FirstLayer + h - 1)' = WeightsOf(FirstLayer + h - 1)
          /\ neurons'[FirstLayer + h - 1].kind = neurons[FirstLayer + h - 1].kind
    <3> TAKE h \in 1 .. NumHidden
    <3> DEFINE n == FirstLayer + h - 1
    <3>1. Later(n) = WeightsOf(n) /\ neurons'[n].kind = neurons[n].kind
      BY <1>9, <2>1
    <3>2. WeightsOf(n)' = Later(n)
      BY <1>8, <1>11 DEF WeightsOf
    <3>3. QED
      BY <3>1, <3>2
  <2>3. QED
    BY <1>11, <2>2 DEF hidden
<1>13. ASSUME NEW j \in 0 .. NumOutput - 1
       PROVE  /\ WeightsOf(OutputSlot(j))' = WeightsOf(OutputSlot(j))
              /\ neurons'[OutputSlot(j)'].kind = neurons[OutputSlot(j)].kind
  <2> DEFINE slot == T - NumOutput + j
  <2>1. slot \in Nat /\ slot >= FirstLayer /\ slot < T
    BY <1>2, <1>3
  <2>2. /\ OutputSlot(j) = IF slot >= it THEN slot + 1 ELSE slot
        /\ OutputSlot(j)' = IF slot >= it - 1 THEN slot + 1 ELSE slot
    BY <1>2 DEF OutputSlot
  <2> HIDE DEF slot
  <2>3. FanIn(OutputSlot(j))' = FanIn(OutputSlot(j)')
    BY <1>2 DEF FanIn
  <2>4. CASE slot = it - 1
    <3>1. OutputSlot(j) = it - 1 /\ OutputSlot(j)' = it
      BY <1>2, <2>1, <2>2, <2>4
    <3>2. WeightsOf(OutputSlot(j))' = Later(it)
      BY <2>3, <3>1 DEF WeightsOf
    <3>3. Later(it) = WeightsOf(it - 1) /\ neurons'[it].kind = neurons[it - 1].kind
      BY <1>2, <1>10
    <3>4. QED
      BY <3>1, <3>2, <3>3
  <2>5. CASE slot # it - 1
    <3> DEFINE n == IF slot >= it THEN slot + 1 ELSE slot
    <3>1. /\ OutputSlot(j) = n /\ OutputSlot(j)' = n
          /\ n \in FirstLayer .. T /\ n # it /\ n # it - 1
      <4>1. it \in Nat /\ T \in Nat /\ FirstLayer \in Nat
        BY <1>2, <1>3
      <4> HIDE DEF it, T
      <4>2. QED
        BY <2>1, <2>2, <2>5, <4>1
    <3> HIDE DEF n
    <3>2. WeightsOf(OutputSlot(j))' = Later(n)
      BY <2>3, <3>1 DEF WeightsOf
    <3>3. Later(n) = WeightsOf(n) /\ neurons'[n].kind = neurons[n].kind
      BY <1>9, <3>1
    <3>4. QED
      BY <3>1, <3>2, <3>3
  <2>6. QED
    BY <2>4, <2>5
<1>14. outputs' = outputs
  BY <1>13 DEF outputs
<1>15. QED
  BY <1>12, <1>14

(* Placing the new neuron copies the candidate's weights into the hole, in *)
(* their order, and writes nothing else.                                   *)
LEMMA PlacingTouches ==
  ASSUME GrowthInv, PlaceNeuron, pc' # "undefined"
  PROVE  LET p == move.place
             last == neurons[p + 1].first_con
             k == cascade_best_candidate - first_candidate_neuron
         IN
         /\ k \in 0 .. num_candidates - 1
         /\ Candidate = CandidateNeuron(k)
         /\ p + 1 \in 0 .. cap.neurons - 1 /\ last \in Int
         /\ first_candidate_connection \in Nat
         /\ first_candidate_connection <= cap.weights
         /\ \A i \in 0 .. p - 1 :
              weights'[last - p + i] = InWeight(total_neurons, k, i)
         /\ \A w \in DOMAIN weights :
              w < last - p \/ last <= w => weights'[w] = weights[w]
         /\ \A n \in FirstLayer .. p - 1 :
              0 <= neurons[n].first_con /\ neurons[n].last_con <= last - p
         /\ \A n \in p + 1 .. total_neurons :
              /\ 0 <= last /\ last <= neurons[n].first_con
              /\ neurons[n].last_con <= first_candidate_connection
<1> DEFINE T == total_neurons
           p == move.place
           last == neurons[p + 1].first_con
           to == last - p
           k == cascade_best_candidate - first_candidate_neuron
           from == Candidate.first_con
           fcc == first_candidate_connection
<1>1. /\ pc = "move_outputs" /\ pc' \in {"outputs", "final"}
      /\ T \in Nat /\ p \in Nat /\ p = T - NumOutput /\ FirstLayer <= p
      /\ move.neuron_it = p /\ total_neurons' = T + 1
      /\ total_connections \in Nat
      /\ total_connections' = total_connections + T
      /\ cap.neurons \in Nat /\ T < cap.neurons /\ cap' = cap
      /\ neurons'[p] = [first_con |-> last - p, last_con |-> last,
                        kind |-> Candidate.kind]
      /\ weights' = Copied(weights, from, to, p)
  BY NewNeuronPlaced DEF GrowthInv
<1>2. NumOutput \in Nat /\ NumOutput >= 1 /\ FirstLayer \in Nat
      /\ cap.weights \in Nat /\ DOMAIN weights = 0 .. cap.weights - 1
      /\ \A n \in 0 .. cap.neurons - 1 :
           neurons[n].first_con \in Int /\ neurons[n].last_con \in Int
  BY NetworkSizes
<1>3. \A n \in 0 .. cap.neurons - 1 : n # p => neurons'[n] = neurons[n]
  BY NewNeuronPlaced DEF GrowthInv
<1>4. p + 1 \in 0 .. cap.neurons - 1 /\ last \in Int /\ to \in Int
  BY <1>1, <1>2
<1>5. /\ k \in 0 .. num_candidates - 1
      /\ Candidate = CandidateNeuron(k)
      /\ from \in Nat /\ from >= fcc
      /\ \A i \in 0 .. T - 1 :
           /\ from + i \in fcc .. num_connections - 1
           /\ from + i \in DOMAIN weights
           /\ weights[from + i] = IF i < T - NumOutput THEN InWeight(T, k, i)
                                  ELSE OutWeight(T, k, i - (T - NumOutput))
  BY <1>1, BestKnown DEF GrowthInv, LayoutInv, ChoiceInv
<1>6. fcc \in Nat /\ fcc = total_connections + T
  BY <1>1 DEF first_candidate_connection
<1>7. /\ Slots' = FirstLayer .. T /\ End' = fcc
      /\ FirstLayer' = FirstLayer
  BY <1>1, <1>2, <1>6 DEF Slots, End, FirstLayer
<1>8. /\ \A n \in FirstLayer .. T :
           /\ 0 <= neurons'[n].first_con
           /\ neurons'[n].first_con <= neurons'[n].last_con
           /\ neurons'[n].last_con <= fcc
      /\ \A m, n \in FirstLayer .. T :
           m < n => neurons'[m].last_con <= neurons'[n].first_con
  <2>1. RangesInOrder'
    BY PlacingKeepsOrder DEF GrowthInv, OrderInv
  <2>2. pc' # "undefined" /\ cap'.neurons > 0
    BY <1>1
  <2>3. QED
    BY <1>7, <2>1, <2>2 DEF RangesInOrder
<1>9. p \in FirstLayer .. T /\ neurons'[p].first_con = to /\ neurons'[p].last_con = last
  BY <1>1, <1>2
<1>10. 0 <= to /\ to <= last /\ last <= fcc
  BY <1>8, <1>9
<1>11. fcc <= cap.weights
  <2>1. 0 \in 0 .. T - 1
    BY <1>1, <1>2
  <2>2. from + 0 \in 0 .. cap.weights - 1
    BY <1>2, <1>5, <2>1
  <2> HIDE DEF from, fcc
  <2>3. QED
    BY <1>2, <1>5, <1>6, <2>2
<1>12. weights' = [w \in DOMAIN weights |->
                    IF w \in to .. to + p - 1
                    THEN weights[from + ((w - to) % (p + 1))] ELSE weights[w]]
  <2>1. ~(from < to)
    <3> HIDE DEF from, to, fcc, last
    <3>1. QED
      BY <1>4, <1>5, <1>6, <1>10
  <2>2. QED
    BY <1>1, <2>1 DEF Copied
<1>13. ASSUME NEW i \in 0 .. p - 1
       PROVE  weights'[to + i] = InWeight(T, k, i)
  <2>1. i \in 0 .. T - 1 /\ i < T - NumOutput /\ i \in Nat
    BY <1>1, <1>2
  <2>2. weights[from + i] = InWeight(T, k, i)
    BY <1>5, <2>1
  <2>3. to + i \in DOMAIN weights
    <3> HIDE DEF to, fcc, last, p
    <3>1. to + i < last
      BY <1>1, <1>4, <1>10 DEF to
    <3>2. QED
      BY <1>1, <1>2, <1>4, <1>6, <1>10, <1>11, <2>1, <3>1
  <2>4. to + i \in to .. to + p - 1 /\ (to + i) - to = i /\ i % (p + 1) = i
    <3> HIDE DEF to, p
    <3>1. QED
      BY <1>1, <1>4, <2>1
  <2>5. weights'[to + i] = weights[from + (((to + i) - to) % (p + 1))]
    BY <1>12, <2>3, <2>4
  <2>6. QED
    BY <2>2, <2>4, <2>5
<1>14. ASSUME NEW w \in DOMAIN weights, w < to \/ last <= w
       PROVE  weights'[w] = weights[w]
  <2>1. w \notin to .. to + p - 1
    <3>1. w \in Nat
      BY <1>2
    <3> HIDE DEF last, p
    <3>2. QED
      BY <1>1, <1>4, <1>14, <3>1
  <2>2. QED
    BY <1>12, <2>1
<1>15. ASSUME NEW n \in FirstLayer .. p - 1
       PROVE  0 <= neurons[n].first_con /\ neurons[n].last_con <= to
  <2>1. n \in FirstLayer .. T /\ n < p /\ n \in 0 .. cap.neurons - 1 /\ n # p
    BY <1>1, <1>2
  <2>2. QED
    BY <1>3, <1>8, <1>9, <2>1
<1>16. ASSUME NEW n \in p + 1 .. T
       PROVE  /\ 0 <= last /\ last <= neurons[n].first_con
              /\ neurons[n].last_con <= fcc
  <2>1. n \in FirstLayer .. T /\ p < n /\ n \in 0 .. cap.neurons - 1 /\ n # p
    BY <1>1, <1>2
  <2>2. last <= neurons[n].first_con /\ neurons[n].last_con <= fcc
    BY <1>3, <1>8, <1>9, <2>1
  <2>3. 0 <= last
    <3> HIDE DEF last, p
    <3>1. QED
      BY <1>1, <1>4, <1>10
  <2>4. QED
    BY <2>2, <2>3
<1>17. QED
  BY <1>4, <1>5, <1>6, <1>11, <1>13, <1>14, <1>15, <1>16

(* Placing the new neuron completes an installation: the network has one   *)
(* more hidden neuron, made of the chosen candidate, and every output has  *)
(* one more weight, that candidate's.                                      *)
LEMMA PlaceInstalls ==
  ASSUME GrowthInv, PlaceNeuron, pc' # "undefined"
  PROVE  Built!Next
<1> DEFINE T == total_neurons
           p == move.place
           last == neurons[p + 1].first_con
           k == cascade_best_candidate - first_candidate_neuron
           fcc == first_candidate_connection
           c == [kind |-> CandidateNeuron(k).kind,
                 inputs |-> [i \in 1 .. candidate_connections_in |->
                               InWeight(T, k, i - 1)],
                 outputs |-> [j \in 0 .. NumOutput - 1 |-> OutWeight(T, k, j)]]
           Size(n) == IF n < p + 1 THEN n ELSE p + 1
           Later(n) == [i \in 1 .. Size(n) |-> weights'[neurons'[n].first_con + i - 1]]
<1>1. /\ pc = "move_outputs" /\ pc' # "move_outputs"
      /\ T \in Nat /\ p \in Nat /\ p = T - NumOutput /\ FirstLayer <= p
      /\ move.neuron_it = p /\ total_neurons' = T + 1
      /\ cap.neurons \in Nat /\ T < cap.neurons
      /\ neurons'[p] = [first_con |-> last - p, last_con |-> last,
                        kind |-> Candidate.kind]
  BY NewNeuronPlaced DEF GrowthInv
<1>2. NumOutput \in Nat /\ NumOutput >= 1 /\ FirstLayer \in Nat
      /\ cap.weights \in Nat /\ DOMAIN weights = 0 .. cap.weights - 1
      /\ \A n \in 0 .. cap.neurons - 1 :
           neurons[n].first_con \in Int /\ neurons[n].last_con \in Int
  BY NetworkSizes
<1>3. \A n \in 0 .. cap.neurons - 1 : n # p => neurons'[n] = neurons[n]
  BY NewNeuronPlaced DEF GrowthInv
<1>4. /\ k \in 0 .. num_candidates - 1 /\ Candidate = CandidateNeuron(k)
      /\ last \in Int /\ fcc \in Nat /\ fcc <= cap.weights
      /\ \A i \in 0 .. p - 1 : weights'[last - p + i] = InWeight(T, k, i)
      /\ \A w \in DOMAIN weights :
           w < last - p \/ last <= w => weights'[w] = weights[w]
      /\ \A n \in FirstLayer .. p - 1 :
           0 <= neurons[n].first_con /\ neurons[n].last_con <= last - p
      /\ \A n \in p + 1 .. T :
           /\ 0 <= last /\ last <= neurons[n].first_con
           /\ neurons[n].last_con <= fcc
  BY PlacingTouches
<1>5. /\ \A n \in FirstLayer .. p - 1 :
           neurons[n].last_con = neurons[n].first_con + FanIn(n)
      /\ \A n \in p + 1 .. T :
           neurons[n].last_con = neurons[n].first_con + (p + 1)
  <2>1. WeightsWhileMoving
    BY DEF GrowthInv, LayoutInv
  <2>2. \A n \in FirstLayer .. p - 1 :
           neurons[n].last_con = neurons[n].first_con + FanIn(n)
    <3>1. \A n \in FirstLayer .. p - 1 : n \in FirstLayer .. T - 1 /\ n <= p
      BY SMTT(40), <1>1, <1>2
    <3>2. QED
      BY <1>1, <2>1, <3>1 DEF WeightsWhileMoving
  <2>3. ASSUME NEW n \in p + 1 .. T
        PROVE  neurons[n].last_con = neurons[n].first_con + (p + 1)
    <3>1. n \in FirstLayer .. T /\ n > p /\ n \in 0 .. cap.neurons - 1
      BY <1>1, <1>2
    <3>2. neurons[n].last_con = neurons[n].first_con + T - NumOutput + 1
      BY <1>1, <2>1, <3>1 DEF WeightsWhileMoving
    <3>3. neurons[n].first_con \in Int
      BY <1>2, <3>1
    <3>4. QED
      BY <1>1, <1>2, <3>2, <3>3
  <2>4. QED
    BY <2>2, <2>3
<1>6. /\ NumHidden' = NumHidden + 1 /\ NumHidden \in Nat
      /\ FirstLayer + NumHidden = p /\ FirstLayer' = FirstLayer
  BY SMTT(40), <1>1, <1>2 DEF NumHidden, FirstLayer
<1>7. /\ \A n : FanIn(n) = IF n < p THEN n ELSE p
      /\ \A n : FanIn(n)' = Size(n)
  <2>1. total_neurons' - NumOutput = p + 1
    BY <1>1, <1>2
  <2>2. \A n : FanIn(n)' = IF n < total_neurons' - NumOutput THEN n
                           ELSE total_neurons' - NumOutput
    BY DEF FanIn
  <2>3. QED
    BY <1>1, <2>1, <2>2 DEF FanIn
<1>8. ASSUME NEW n \in FirstLayer .. p - 1
      PROVE  Later(n) = WeightsOf(n) /\ neurons'[n].kind = neurons[n].kind
  <2> DEFINE first == neurons[n].first_con
  <2>1. n \in 0 .. cap.neurons - 1 /\ n # p /\ n \in Nat /\ n < p /\ n < p + 1
    BY <1>1, <1>2
  <2>2. neurons'[n] = neurons[n] /\ FanIn(n) = n /\ Size(n) = n
    BY <1>3, <1>7, <2>1
  <2>3. first \in Int /\ 0 <= first /\ first + n <= last - p
    BY <1>2, <1>4, <1>5, <2>1, <2>2
  <2>4. ASSUME NEW i \in 1 .. n
        PROVE  weights'[first + i - 1] = weights[first + i - 1]
    <3>1. last <= fcc
      <4> p + 1 \in p + 1 .. T
        BY SMTT(40), <1>1, <1>2
      <4>1. last <= neurons[p + 1].first_con
            /\ neurons[p + 1].last_con = last + (p + 1)
            /\ neurons[p + 1].last_con <= fcc
        BY <1>4, <1>5
      <4>2. QED
        BY <1>1, <1>4, <4>1
    <3>2. first + i - 1 \in DOMAIN weights /\ first + i - 1 < last - p
      <4>1. /\ last \in Int /\ fcc \in Nat /\ fcc <= cap.weights
            /\ cap.weights \in Nat /\ p \in Nat /\ n \in Nat
            /\ DOMAIN weights = 0 .. cap.weights - 1
        BY <1>1, <1>2, <1>4, <2>1
      <4> HIDE DEF first, last, p, fcc
      <4>2. first + i - 1 \in Int /\ 0 <= first + i - 1 /\ first + i - 1 < last - p
        BY <2>3, <4>1
      <4>3. QED
        BY <3>1, <4>1, <4>2
    <3>3. QED
      BY <1>4, <3>2
  <2>5. QED
    BY <2>2, <2>4 DEF WeightsOf
<1>9. /\ Later(p) = [i \in 1 .. p |-> InWeight(T, k, i - 1)]
      /\ neurons'[p].kind = CandidateNeuron(k).kind
  <2>1. Size(p) = p
    BY <1>1
  <2>2. neurons'[p].first_con = last - p /\ neurons'[p].kind = Candidate.kind
    BY <1>1
  <2>3. ASSUME NEW i \in 1 .. p
        PROVE  weights'[last - p + i - 1] = InWeight(T, k, i - 1)
    <3>1. i - 1 \in 0 .. p - 1
      BY <1>1
    <3>2. last - p + (i - 1) = last - p + i - 1
      <4> HIDE DEF last, p
      <4>1. QED
        BY <1>1, <1>4
    <3>3. QED
      BY <1>4, <3>1, <3>2
  <2>4. QED
    BY <1>4, <2>1, <2>2, <2>3
<1>10. ASSUME NEW n \in p + 1 .. T
       PROVE  /\ Later(n) = Append(WeightsOf(n), OutWeight(T, k, T - n))
              /\ neurons'[n].kind = neurons[n].kind
  <2> DEFINE first == neurons[n].first_con
             new == OutWeight(T, k, T - n)
  <2>1. n \in 0 .. cap.neurons - 1 /\ n # p /\ n \in Nat
        /\ ~(n < p + 1) /\ ~(n < p)
    BY SMTT(40), <1>1, <1>2
  <2>2. neurons'[n] = neurons[n] /\ FanIn(n) = p /\ Size(n) = p + 1
    BY <1>3, <1>7, <2>1
  <2>3. first \in Int /\ 0 <= last /\ last <= first
        /\ neurons[n].last_con = first + (p + 1) /\ first + (p + 1) <= fcc
    BY <1>2, <1>4, <1>5, <2>1
  <2>4. ASSUME NEW i \in 1 .. p + 1
        PROVE  weights'[first + i - 1] = weights[first + i - 1]
    <3>1. first + i - 1 \in DOMAIN weights /\ last <= first + i - 1
      <4> HIDE DEF first, last, p, fcc
      <4>1. QED
        BY SMTT(40), <1>1, <1>2, <1>4, <2>3
    <3>2. QED
      BY <1>4, <3>1
  <2>5. weights[first + (p + 1) - 1] = new
    <3>1. WeightsHandedOut
      BY DEF GrowthInv, ChoiceInv
    <3>2. weights[neurons[n].last_con - 1] = new
      BY <1>1, <3>1 DEF WeightsHandedOut
    <3>3. neurons[n].last_con - 1 = first + (p + 1) - 1
      <4> HIDE DEF first, p
      <4>1. QED
        BY <1>1, <2>3
    <3>4. QED
      BY <3>2, <3>3
  <2>6. WeightsOf(n) = [i \in 1 .. p |-> weights[first + i - 1]]
    BY <2>2 DEF WeightsOf
  <2>7. Append(WeightsOf(n), new) =
          [i \in 1 .. p + 1 |-> IF i <= p THEN WeightsOf(n)[i] ELSE new]
    <3>1. WeightsOf(n) = [i \in 1 .. p |-> WeightsOf(n)[i]]
      BY <2>6
    <3> HIDE DEF p, new
    <3>2. QED
      BY <1>1, <3>1, AppendedTo
  <2>8. \A i \in 1 .. p + 1 : weights'[first + i - 1] =
          IF i <= p THEN WeightsOf(n)[i] ELSE new
    <3> TAKE i \in 1 .. p + 1
    <3>1. CASE i <= p
      BY <1>1, <2>4, <2>6, <3>1
    <3>2. CASE ~(i <= p)
      <4>1. i = p + 1
        BY <1>1, <3>2
      <4>2. QED
        BY <2>4, <2>5, <3>2, <4>1
    <3>3. QED
      BY <3>1, <3>2
  <2>9. QED
    BY <2>2, <2>7, <2>8
<1>11. hidden' = Append(hidden, [kind |-> c.kind, weights |-> c.inputs])
  <2> DEFINE H == NumHidden
             new == [kind |-> c.kind, weights |-> c.inputs]
             Then(h) == [kind |-> neurons'[FirstLayer + h - 1].kind,
                         weights |-> Later(FirstLayer + h - 1)]
  <2>1. hidden' = [h \in 1 .. H + 1 |-> Then(h)]
    <3>1. \A h \in 1 .. H + 1 :
             WeightsOf(FirstLayer + h - 1)' = Later(FirstLayer + h - 1)
      BY <1>6, <1>7 DEF WeightsOf
    <3>2. QED
      BY <1>6, <3>1 DEF hidden
  <2>2. Append(hidden, new) = [h \in 1 .. H + 1 |-> IF h <= H THEN hidden[h] ELSE new]
    <3>1. hidden = [h \in 1 .. H |-> hidden[h]]
      BY DEF hidden
    <3> HIDE DEF new
    <3>2. QED
      BY <1>6, <3>1, AppendedTo
  <2>3. ASSUME NEW h \in 1 .. H + 1
        PROVE  Then(h) = IF h <= H THEN hidden[h] ELSE new
    <3>1. CASE h <= H
      <4>1. FirstLayer + h - 1 \in FirstLayer .. p - 1 /\ h \in 1 .. H
        BY <1>1, <1>2, <1>6, <3>1
      <4>2. hidden[h] = [kind |-> neurons[FirstLayer + h - 1].kind,
                         weights |-> WeightsOf(FirstLayer + h - 1)]
        BY <4>1 DEF hidden
      <4>3. QED
        BY <1>8, <3>1, <4>1, <4>2
    <3>2. CASE ~(h <= H)
      <4>1. FirstLayer + h - 1 = p
        BY <1>1, <1>2, <1>6, <3>2
      <4>2. candidate_connections_in = p
        BY <1>1 DEF candidate_connections_in
      <4>3. QED
        BY <1>9, <3>2, <4>1, <4>2
    <3>3. QED
      BY <3>1, <3>2
  <2>4. QED
    BY ZenonT(40), <2>1, <2>2, <2>3
<1>12. outputs' = [j \in 0 .. NumOutput - 1 |->
          [outputs[j] EXCEPT !.weights = Append(@, c.outputs[AsInstalled(j)])]]
  <2>1. ASSUME NEW j \in 0 .. NumOutput - 1
        PROVE  /\ OutputSlot(j) = p + 1 + j /\ OutputSlot(j)' = p + 1 + j
               /\ p + 1 + j \in p + 1 .. T
               /\ T - (p + 1 + j) = AsInstalled(j)
               /\ AsInstalled(j) \in 0 .. NumOutput - 1
    BY <1>1, <1>2 DEF OutputSlot, AsInstalled
  <2>2. ASSUME NEW j \in 0 .. NumOutput - 1
        PROVE  /\ WeightsOf(OutputSlot(j))' =
                    Append(outputs[j].weights, c.outputs[AsInstalled(j)])
               /\ neurons'[OutputSlot(j)'].kind = outputs[j].kind
               /\ outputs[j] = [kind |-> outputs[j].kind,
                                weights |-> outputs[j].weights]
    <3> DEFINE n == p + 1 + j
    <3>1. outputs[j] = [kind |-> neurons[n].kind, weights |-> WeightsOf(n)]
      BY <2>1 DEF outputs
    <3>2. c.outputs[AsInstalled(j)] = OutWeight(T, k, T - n)
      BY <2>1
    <3>3. FanIn(OutputSlot(j))' = Size(OutputSlot(j)')
      <4>1. total_neurons' - NumOutput = p + 1
        BY <1>1, <1>2
      <4>2. QED
        BY <4>1 DEF FanIn
    <3>4. WeightsOf(OutputSlot(j))' = Later(n)
      BY <2>1, <3>3 DEF WeightsOf
    <3>5. Later(n) = Append(WeightsOf(n), OutWeight(T, k, T - n))
          /\ neurons'[n].kind = neurons[n].kind
      BY <1>10, <2>1
    <3>6. outputs[j].kind = neurons[n].kind /\ outputs[j].weights = WeightsOf(n)
      BY <3>1
    <3>7. neurons'[OutputSlot(j)'].kind = outputs[j].kind
      BY <2>1, <3>5, <3>6
    <3> HIDE DEF c, n, Later
    <3>8. QED
      BY <3>1, <3>2, <3>4, <3>5, <3>6, <3>7
  <2>3. QED
    BY <2>2 DEF outputs
<1>13. c \in candidates
  BY <1>4 DEF candidates
<1>14. QED
  BY <1>11, <1>12, <1>13 DEF Built!Next, Built!Install

(* Every step of the layout is a step of the network it stands for, or     *)
(* leaves that network as it is.                                           *)
LEMMA StepRefines ==
  ASSUME NothingFails, GrowthInv, GrowthInv', [Next]_vars
  PROVE  [Built!Next]_<<hidden, outputs>>
<1>1. CASE pc # "move_outputs"
  BY <1>1, OtherStepsStutter
<1>2. CASE pc = "move_outputs" /\ MoveOutputNeuron
  <2>1. pc' # "undefined"
    BY DEF GrowthInv, ChoiceInv, AlwaysDefined
  <2>2. QED
    BY <1>2, <2>1, MoveStutters
<1>3. CASE pc = "move_outputs" /\ PlaceNeuron
  <2>1. pc' # "undefined"
    BY DEF GrowthInv, ChoiceInv, AlwaysDefined
  <2>2. QED
    BY <1>3, <2>1, PlaceInstalls
<1>4. CASE UNCHANGED vars
  <2>1. UNCHANGED <<pc, neurons, weights, total_neurons, move>>
    BY <1>4 DEF vars, heap, totals
  <2>2. NumHidden' = NumHidden /\ FirstLayer' = FirstLayer
        /\ \A n : FanIn(n)' = FanIn(n)
    BY <2>1 DEF NumHidden, FirstLayer, FanIn
  <2>3. hidden' = hidden
    BY <2>1, <2>2 DEF hidden, WeightsOf
  <2>4. outputs' = outputs
    <3>1. \A j \in 0 .. NumOutput - 1 :
             /\ OutputSlot(j)' = OutputSlot(j)
             /\ FanIn(OutputSlot(j))' = FanIn(OutputSlot(j))
      BY <2>1 DEF OutputSlot, FanIn
    <3>2. QED
      BY <2>1, <3>1 DEF outputs, WeightsOf
  <2>5. QED
    BY <2>3, <2>4
<1>5. QED
  BY <1>1, <1>2, <1>3, <1>4 DEF Next, CallerRuns, SetCandidateList,
     SetCandidateScalar, StartTraining, TrainOutputs, TrainOutputsLastTime,
     fann_train_outputs, StopGrowing, KeepGrowing, fann_initialize_candidates,
     NeuronReallocFails, ConnectionReallocFails, fann_train_candidates,
     fann_add_layer, fann_add_candidate_neuron, fann_set_shortcut_connections

(* fann_cascade.c:950-957: growing the network in place is growing a list  *)
(* of neurons.  Through every move in the two arrays a neuron keeps its    *)
(* weights, and each installation adds one neuron with the weights of one  *)
(* trained candidate, and to every output one of that candidate's.         *)
THEOREM RefinesCascadeNet ==
  ASSUME NothingFails
  PROVE  Spec => GrowsTheNetwork
<1>1. Init => Built!Init
  BY StartsEmpty
<1>2. GrowthInv /\ GrowthInv' /\ [Next]_vars => [Built!Next]_<<hidden, outputs>>
  BY StepRefines
<1>3. Spec => []GrowthInv
  <2>1. Spec => [](LayoutInv /\ RecordInv /\ OrderInv /\ ChoiceInv)
    BY ChoiceAlways
  <2>2. QED
    BY <2>1 DEF GrowthInv
<1>4. QED
  BY <1>1, <1>2, <1>3, PTL DEF Spec, GrowsTheNetwork, Built!Spec
============================================================================
