--------------------------- MODULE CascadeLayout ---------------------------
(***************************************************************************)
(* The memory of a shortcut network while cascade training grows it        *)
(* (fann_cascade.c).  Neurons and weights live in two flat arrays.  Layers *)
(* are ranges of the neuron array, and a neuron owns a range of the weight *)
(* array.  One round of cascade training                                   *)
(*   - makes room, behind the network, for one free neuron and all the     *)
(*     candidate neurons, and for their weights;                           *)
(*   - trains the candidates and picks the best one;                       *)
(*   - adds a layer in front of the output layer, shifts every output      *)
(*     neuron and its weights towards the candidates, and copies the best  *)
(*     candidate into the hole.                                            *)
(*                                                                         *)
(* Indices start at 0, as in the code.  The value of a weight is not       *)
(* modelled: a slot of the weight array holds a token that names the       *)
(* weight stored there, so a weight can be followed when it is moved.      *)
(* Training changes values, not tokens.                                    *)
(***************************************************************************)
EXTENDS Integers, FiniteSets

CONSTANTS
  NumInput, NumOutput,  \* ann->num_input, ann->num_output
  ListSizes,            \* lengths of the two candidate arrays a caller sets
  GroupSizes,           \* values a caller gives cascade_num_candidate_groups
  CandEpochs,           \* values a caller gives cascade_max_cand_epochs
  AllocMayFail,         \* can malloc, calloc and realloc return NULL?
  OutgrowScores,        \* may a caller ask for more candidates than the
                        \* score buffer was allocated for?
  HeapValues,           \* what an uninitialised unsigned int may hold
  MaxHidden             \* bound: no call may take the network beyond this

ASSUME SizesAssumption ==
  /\ NumInput \in Nat \ {0} /\ NumOutput \in Nat \ {0}
  /\ ListSizes \subseteq Nat \ {0} /\ GroupSizes \subseteq Nat \ {0}
  /\ CandEpochs \subseteq Nat /\ HeapValues \subseteq Nat
  /\ ListSizes # {} /\ GroupSizes # {} /\ CandEpochs # {} /\ HeapValues # {}
  /\ MaxHidden \in Nat

ASSUME SwitchesAssumption ==
  AllocMayFail \in BOOLEAN /\ OutgrowScores \in BOOLEAN

VARIABLES
  pc,                     \* the next call of fann_cascadetrain_on_data, or
                          \* "undefined" once C gives the run no meaning
  round, max_neurons,     \* its loop counter i, and its argument
  layers, num_layers,     \* struct fann_layer: the range of its neurons
  neurons,                \* struct fann_neuron: its range of weights, its kind
  weights, connections,   \* the two arrays parallel to the connections
  total_neurons, total_connections,
  total_neurons_allocated, total_connections_allocated,
  cap,                    \* true sizes of the heap blocks, 0 for none
  settings, null_lists,   \* candidate settings; arrays whose realloc failed
  scores,                 \* size of cascade_candidate_scores, NoBuffer at first
  cascade_best_candidate,
  move                    \* the locals of fann_add_candidate_neuron

heap == <<layers, num_layers, neurons, weights, connections, cap>>
totals == <<total_neurons, total_connections,
            total_neurons_allocated, total_connections_allocated>>
choices == <<settings, null_lists>>
best == <<scores, cascade_best_candidate>>
loop == <<round, max_neurons>>
vars == <<pc, loop, heap, totals, choices, best, move>>

NoBuffer == -1
Unset == [first_con |-> -1, last_con |-> -1, kind |-> <<"unset">>]
Garbage == <<"garbage">>
Dangling == -1          \* a pointer into a block that was moved or never set

(* The tokens: a weight of the network as it was created, and the weights  *)
(* into and out of candidate k of the round that starts with n neurons.    *)
NetWeight(j, i)    == <<"net", j, i>>
InWeight(n, k, i)  == <<"in", n, k, i>>
OutWeight(n, k, j) == <<"out", n, k, j>>

(* What realloc makes of an array: the common prefix is kept.              *)
ResizeOneTooMany(array, size, fill) ==
  [i \in 0 .. size |-> IF i \in DOMAIN array THEN array[i] ELSE fill]

Resize(array, size, fill) ==
  [i \in 0 .. size - 1 |-> IF i \in DOMAIN array THEN array[i] ELSE fill]

FirstLayer == NumInput + 1          \* the inputs and their bias neuron
NumHidden == total_neurons - FirstLayer - NumOutput

----------------------------------------------------------------------------
(* fann_create_shortcut(2, NumInput, NumOutput): inputs and a bias, then   *)
(* the outputs, each connected to every neuron of the first layer.         *)

CreatedNeuron(n) ==
  IF n < FirstLayer
  THEN [first_con |-> 0, last_con |-> 0, kind |-> <<"input">>]
  ELSE [first_con |-> (n - FirstLayer) * FirstLayer,
        last_con |-> (n - FirstLayer + 1) * FirstLayer,
        kind |-> <<"output", n - FirstLayer>>]

Init ==
  LET size == FirstLayer + NumOutput
      conn == FirstLayer * NumOutput
  IN /\ layers = [l \in 0 .. 1 |-> IF l = 0
                    THEN [first |-> 0, last |-> FirstLayer]
                    ELSE [first |-> FirstLayer, last |-> size]]
     /\ num_layers = 2
     /\ neurons = [n \in 0 .. size - 1 |-> CreatedNeuron(n)]
     /\ weights = [w \in 0 .. conn - 1 |->
                    NetWeight(w \div FirstLayer, w % FirstLayer)]
     /\ connections = [w \in 0 .. conn - 1 |-> w % FirstLayer]
     /\ total_neurons = size /\ total_neurons_allocated = size
     /\ total_connections = conn /\ total_connections_allocated = conn
     /\ cap = [neurons |-> size, train_errors |-> 0, connections |-> conn,
               weights |-> conn, train_slopes |-> 0, prev_steps |-> 0,
               prev_train_slopes |-> 0]
     /\ settings \in [functions : ListSizes, steepnesses : ListSizes,
                      groups : GroupSizes, max_cand_epochs : CandEpochs]
     /\ null_lists = {}
     /\ scores = NoBuffer
     /\ cascade_best_candidate \in HeapValues
     /\ round = 0 /\ max_neurons = 0
     /\ move = [layer |-> 0, neuron_it |-> 0, place |-> 0, in |-> 0, out |-> 0,
                step |-> 0, output_weight |-> 0]
     /\ pc = "idle"

----------------------------------------------------------------------------
(* Candidate settings.  A caller changes them between two trainings or in  *)
(* the callback of one.                                                    *)

fann_get_cascade_num_candidates ==
  settings.functions * settings.steepnesses * settings.groups

NumCandidatesOf(s) == s.functions * s.steepnesses * s.groups

CallerRuns == pc \in {"idle", "report"}

WithinScores(s) ==
  OutgrowScores \/ scores = NoBuffer \/ NumCandidatesOf(s) <= scores

(* fann_set_cascade_activation_functions and ..._steepnesses: the count    *)
(* changes before the realloc that may fail; memmove needs the array.      *)
SetCandidateList(which, n) ==
  LET s == [settings EXCEPT ![which] = n]
  IN /\ CallerRuns /\ WithinScores(s)
     /\ settings' = s
     /\ \/ /\ n # settings[which]
           /\ null_lists' = null_lists \ {which}
           /\ UNCHANGED pc
        \/ /\ n # settings[which] /\ AllocMayFail
           /\ null_lists' = null_lists \union {which}
           /\ UNCHANGED pc
        \/ /\ n = settings[which]
           /\ UNCHANGED null_lists
           /\ pc' = IF which \in null_lists THEN "undefined" ELSE pc
     /\ UNCHANGED <<loop, heap, totals, best, move>>

SetCandidateScalar(which, n) ==
  LET s == [settings EXCEPT ![which] = n]
  IN /\ CallerRuns /\ WithinScores(s)
     /\ settings' = s
     /\ UNCHANGED <<pc, loop, heap, totals, null_lists, best, move>>

----------------------------------------------------------------------------
(* fann_cascadetrain_on_data: its loop and what it calls, in order.        *)

Fallible == AllocMayFail   \* a step that allocates may fail

StartTraining(m) ==
  /\ pc = "idle"
  /\ NumHidden + m <= MaxHidden
  /\ max_neurons' = m
  /\ round' = 1
  /\ pc' = IF m = 0 THEN "final" ELSE "outputs"
  /\ UNCHANGED <<heap, totals, choices, best, move>>

(* fann_train_outputs reaches every neuron and weight of the network, and  *)
(* allocates the training arrays it misses with the sizes on record.       *)
OrElse(size, otherwise) == IF size = 0 THEN otherwise ELSE size

LazilyAllocated ==
  [cap EXCEPT
     !.train_errors = OrElse(@, total_neurons),
     !.train_slopes = OrElse(@, total_connections_allocated),
     !.prev_steps = OrElse(@, total_connections_allocated),
     !.prev_train_slopes = OrElse(@, total_connections_allocated)]

NetworkReachable == cap.neurons > 0 /\ cap.weights > 0

fann_train_outputs(from, to) ==
  /\ pc = from
  /\ \/ /\ NetworkReachable
        /\ cap' = LazilyAllocated
        /\ pc' = to
     \/ /\ ~NetworkReachable
        /\ cap' = cap /\ pc' = "undefined"
     \/ /\ NetworkReachable /\ Fallible
        /\ cap # LazilyAllocated
        /\ cap' = cap /\ pc' = "undefined"
  /\ UNCHANGED <<loop, layers, num_layers, neurons, weights, connections,
                 totals, choices, best, move>>

TrainOutputs == fann_train_outputs("outputs", "report")
TrainOutputsLastTime == fann_train_outputs("final", "connect")

(* The desired error is reached, or the callback returns -1.               *)
StopGrowing ==
  /\ pc = "report" /\ pc' = "final"
  /\ UNCHANGED <<loop, heap, totals, choices, best, move>>

KeepGrowing ==
  /\ pc = "report" /\ pc' = "candidates"
  /\ UNCHANGED <<loop, heap, totals, choices, best, move>>

----------------------------------------------------------------------------
(* fann_initialize_candidates.                                             *)

num_candidates == fann_get_cascade_num_candidates
candidate_connections_in == total_neurons - NumOutput
first_candidate_neuron == total_neurons + 1
NoFreeConnections == total_connections  \* a mutant
first_candidate_connection == total_connections + total_neurons
num_neurons == total_neurons + num_candidates + 1
num_connections == total_connections + total_neurons * (num_candidates + 1)

(* Half as much again as is needed, and at least `extra' more.             *)
Grown(needed, extra) ==
  IF needed + needed \div 2 < needed + extra
  THEN needed + extra ELSE needed + needed \div 2

NeedCandidatesOnly == num_candidates + 1 > total_neurons_allocated  \* a mutant
NeedNeurons == num_neurons > total_neurons_allocated
NeedConnections == num_connections > total_connections_allocated
neurons_to_allocate == Grown(num_neurons, 10)
connections_to_allocate == Grown(num_connections, total_neurons * 10)

(* fann_reallocate_connections takes five blocks in this order; the sizes  *)
(* when the realloc at position `failed' returns NULL.                     *)
AllDone == 6

StepsNotReallocated(sizes, failed) ==
  [neurons |-> sizes.neurons, train_errors |-> sizes.train_errors,
   connections |-> connections_to_allocate, weights |-> connections_to_allocate,
   train_slopes |-> connections_to_allocate, prev_steps |-> sizes.prev_steps,
   prev_train_slopes |-> connections_to_allocate]

fann_reallocate_connections(sizes, failed) ==
  LET new(pos, size) == IF pos > failed THEN size
                        ELSE IF pos = failed THEN 0 ELSE connections_to_allocate
  IN [neurons |-> sizes.neurons, train_errors |-> sizes.train_errors,
      connections |-> new(1, sizes.connections),
      weights |-> new(2, sizes.weights),
      train_slopes |-> new(3, sizes.train_slopes),
      prev_steps |-> new(4, sizes.prev_steps),
      prev_train_slopes |-> new(5, sizes.prev_train_slopes)]

ErrorsNotReallocated(sizes) ==
  [sizes EXCEPT !.neurons = neurons_to_allocate]

fann_reallocate_neurons(sizes) ==
  [sizes EXCEPT !.neurons = neurons_to_allocate,
                !.train_errors = neurons_to_allocate]

(* Candidate k: functions vary slowest, groups fastest.                    *)
CandidateNeuron(k) ==
  LET first == first_candidate_connection + k * total_neurons
  IN [first_con |-> first,
      last_con |-> first + candidate_connections_in,
      kind |-> <<"hidden",
                 k \div (settings.steepnesses * settings.groups),
                 (k \div settings.groups) % settings.steepnesses>>]

(* Its weights in are followed by its weights out, one for each output.    *)
CandidateWeight(w) ==
  LET k == (w - first_candidate_connection) \div total_neurons
      i == (w - first_candidate_connection) % total_neurons
  IN IF i < candidate_connections_in
     THEN InWeight(total_neurons, k, i)
     ELSE OutWeight(total_neurons, k, i - candidate_connections_in)

CandidatesFit(sizes) ==
  /\ num_neurons <= sizes.neurons /\ num_neurons <= sizes.train_errors
  /\ num_connections <= sizes.weights
  /\ num_connections <= sizes.train_slopes
  /\ num_connections <= sizes.prev_steps
  /\ num_connections <= sizes.prev_train_slopes

(* The arrays in blocks of the sizes cap'.  Pointers to neurons dangle     *)
(* once the neuron block has moved.                                        *)
ResizeArrays(moved) ==
  connections' = [i \in 0 .. cap'.connections - 1 |->
                    IF i \in DOMAIN connections /\ ~moved
                    THEN connections[i] ELSE Dangling]

MakeRoom == IF NeedNeurons THEN fann_reallocate_neurons(cap) ELSE cap

fann_initialize_candidates ==
  /\ pc = "candidates"
  /\ cap' = IF NeedConnections
            THEN fann_reallocate_connections(MakeRoom, AllDone) ELSE MakeRoom
  /\ total_neurons_allocated' =
       IF NeedNeurons THEN neurons_to_allocate ELSE total_neurons_allocated
  /\ total_connections_allocated' =
       IF NeedConnections THEN connections_to_allocate
       ELSE total_connections_allocated
  /\ \E moved \in {FALSE, NeedNeurons} : ResizeArrays(moved)
  /\ neurons' = [n \in 0 .. cap'.neurons - 1 |->
       IF n \in first_candidate_neuron .. num_neurons - 1
       THEN CandidateNeuron(n - first_candidate_neuron)
       ELSE IF n \in DOMAIN neurons THEN neurons[n] ELSE Unset]
  /\ weights' = [w \in 0 .. cap'.weights - 1 |->
       IF w \in first_candidate_connection .. num_connections - 1
       THEN CandidateWeight(w)
       ELSE IF w \in DOMAIN weights THEN weights[w] ELSE Garbage]
  /\ pc' = IF CandidatesFit(cap') /\ null_lists = {} THEN "train" ELSE "undefined"
  /\ UNCHANGED <<loop, layers, num_layers, total_neurons, total_connections,
                 choices, best, move>>

(* No room for the neurons: the count on record has changed already.  When *)
(* train_errors fails, the layers still point at the old neuron block,     *)
(* which is gone if the block has moved (size 0).                          *)
NeuronReallocFails ==
  /\ pc = "candidates" /\ AllocMayFail /\ NeedNeurons
  /\ total_neurons_allocated' = neurons_to_allocate
  /\ \/ cap' = cap
     \/ \E size \in {0, neurons_to_allocate} :
          cap' = [cap EXCEPT !.neurons = size, !.train_errors = 0]
  /\ neurons' = Resize(neurons, cap'.neurons, Unset)
  /\ ResizeArrays(cap'.neurons = 0)
  /\ pc' = "final"
  /\ UNCHANGED <<loop, layers, num_layers, weights, total_neurons,
                 total_connections, total_connections_allocated, choices,
                 best, move>>

(* No room for the connections: the count on record has not changed yet.   *)
ConnectionReallocFails ==
  /\ pc = "candidates" /\ AllocMayFail /\ NeedConnections
  /\ total_neurons_allocated' =
       IF NeedNeurons THEN neurons_to_allocate ELSE total_neurons_allocated
  /\ \E failed \in 1 .. AllDone - 1 :
       cap' = fann_reallocate_connections(MakeRoom, failed)
  /\ neurons' = Resize(neurons, cap'.neurons, Unset)
  /\ weights' = Resize(weights, cap'.weights, Garbage)
  /\ \E moved \in {FALSE, NeedNeurons} : ResizeArrays(moved)
  /\ pc' = "final"
  /\ UNCHANGED <<loop, layers, num_layers, total_neurons, total_connections,
                 total_connections_allocated, choices, best, move>>

----------------------------------------------------------------------------
(* fann_train_candidates.  The score buffer is allocated once.  Without it *)
(* or without an epoch no candidate is chosen, and cascade_best_candidate  *)
(* keeps its value.  Which candidate wins is arbitrary.                    *)

ChooseBest ==
  \E k \in 0 .. num_candidates - 1 :
    cascade_best_candidate' = first_candidate_neuron + k

TrainingEpochs ==
  IF settings.max_cand_epochs = 0
  THEN pc' = "add_layer" /\ UNCHANGED cascade_best_candidate
  ELSE \/ pc' = "add_layer" /\ ChooseBest
       \/ /\ num_candidates > scores'      \* scores written past their buffer
          /\ pc' = "undefined" /\ UNCHANGED cascade_best_candidate

fann_train_candidates ==
  /\ pc = "train"
  /\ \/ /\ scores' = IF scores = NoBuffer THEN num_candidates ELSE scores
        /\ TrainingEpochs
     \/ /\ scores = NoBuffer /\ AllocMayFail
        /\ pc' = "add_layer"
        /\ UNCHANGED best
  /\ UNCHANGED <<loop, heap, totals, choices, move>>

----------------------------------------------------------------------------
(* fann_install_candidate.  First fann_add_layer: an empty layer takes the *)
(* place of the output layer, which moves up by one.  A NULL layer reaches *)
(* fann_add_candidate_neuron unchecked.                                    *)
fann_add_layer ==
  /\ pc = "add_layer"
  /\ \/ LET pos == num_layers - 1
            empty == [first |-> layers[pos].first, last |-> layers[pos].first]
        IN /\ layers' = [l \in 0 .. num_layers |->
                           IF l < pos THEN layers[l]
                           ELSE IF l = pos THEN empty ELSE layers[l - 1]]
           /\ num_layers' = num_layers + 1
           /\ move' = [move EXCEPT !.layer = pos]
           /\ pc' = "add_neuron"
     \/ /\ AllocMayFail
        /\ pc' = "undefined"
        /\ UNCHANGED <<layers, num_layers, move>>
  /\ UNCHANGED <<loop, neurons, weights, connections, cap, totals, choices,
                 best>>

(* fann_add_candidate_neuron, up to its first loop: the output layer moves *)
(* up by one neuron and the new layer gets one.                            *)
Candidate == neurons[cascade_best_candidate]
CandidateUsable ==
  cascade_best_candidate \in DOMAIN neurons /\ Candidate # Unset

LastNeuronOnly(range) == [range EXCEPT !.last = @ + 1]

Lifted(range) == [first |-> range.first + 1, last |-> range.last + 1]

fann_add_candidate_neuron ==
  /\ pc = "add_neuron"
  /\ IF CandidateUsable
     THEN LET new == move.layer
              in == layers[new].first
              out == layers[num_layers - 1].last - layers[new + 1].first
          IN /\ layers' = [l \in DOMAIN layers |->
                  IF l > new THEN Lifted(layers[l])
                  ELSE IF l = new THEN [layers[l] EXCEPT !.last = @ + 1]
                  ELSE layers[l]]
             /\ move' = [layer |-> new, place |-> layers[new].last,
                         neuron_it |-> layers[num_layers - 1].last,
                         in |-> in, out |-> out, step |-> in + out,
                         output_weight |-> Candidate.last_con]
             /\ pc' = "move_outputs"
     ELSE pc' = "undefined" /\ UNCHANGED <<layers, move>>
  /\ UNCHANGED <<loop, num_layers, neurons, weights, connections, cap, totals,
                 choices, best>>

(* The range first .. last - 1 of the array, copied from its upper end     *)
(* down to the place `by' slots higher.                                    *)
MovedButLast(array, first, last, by) ==
  [w \in DOMAIN array |-> IF w \in first + by .. last + by - 2
                          THEN array[w - by] ELSE array[w]]

MovedUp(array, first, last, by) ==
  [w \in DOMAIN array |-> IF w \in first + by .. last + by - 1
                          THEN array[w - by] ELSE array[w]]

WeightAfterMove(n) == MovedUp(weights, n.first_con, n.last_con, move.step - 1)

MovedOneTooFar(n) == [n EXCEPT !.first_con = @ + move.step,
                               !.last_con = @ + move.step]

WithoutNewWeight(n) == [n EXCEPT !.first_con = @ + move.step - 1,
                                 !.last_con = @ + move.step - 1]

MovedNeuron(n) == [n EXCEPT !.first_con = @ + move.step - 1,
                            !.last_con = @ + move.step]

(* One iteration, the last output neuron first: the neuron moves up by one *)
(* place, its weights by move.step - 1, and a weight from the new neuron   *)
(* is put behind them.                                                     *)
MoveOutputNeuron ==
  /\ pc = "move_outputs" /\ move.neuron_it # move.place
  /\ LET n == neurons[move.neuron_it - 1]
         last == n.last_con + move.step
     IN IF move.output_weight \in DOMAIN weights
        THEN /\ neurons' = [neurons EXCEPT ![move.neuron_it] = MovedNeuron(n)]
             /\ weights' = [WeightAfterMove(n) EXCEPT
                   ![last - 1] = WeightAfterMove(n)[move.output_weight]]
             /\ move' = [move EXCEPT !.neuron_it = @ - 1, !.step = @ - 1,
                                     !.output_weight = @ + 1]
             /\ UNCHANGED pc
        ELSE pc' = "undefined" /\ UNCHANGED <<neurons, weights, move>>
  /\ UNCHANGED <<loop, layers, num_layers, connections, cap, totals, choices,
                 best>>

(* The range of `count' slots from `from' on, copied upwards slot by slot  *)
(* to `to': where the ranges overlap, copied slots are copied again.       *)
Copied(array, from, to, count) ==
  LET period == IF from < to THEN to - from ELSE count + 1
  IN [w \in DOMAIN array |-> IF w \in to .. to + count - 1
                             THEN array[from + ((w - to) % period)]
                             ELSE array[w]]

(* The rest of fann_add_candidate_neuron: the new neuron takes the hole    *)
(* that is left, below the lowest output neuron.                           *)
PlaceNeuron ==
  /\ pc = "move_outputs" /\ move.neuron_it = move.place
  /\ LET last == neurons[move.place + 1].first_con
         first == last - move.in
     IN IF Candidate.first_con + move.in - 1 \in DOMAIN weights
        THEN /\ weights' = Copied(weights, Candidate.first_con, first, move.in)
             /\ neurons' = [neurons EXCEPT ![move.place] =
                  [first_con |-> first, last_con |-> last,
                   kind |-> Candidate.kind]]
             /\ total_neurons' = total_neurons + 1
             /\ total_connections' = total_connections + move.in + move.out
             /\ round' = round + 1
             /\ pc' = IF round < max_neurons THEN "outputs" ELSE "final"
        ELSE /\ pc' = "undefined"
             /\ UNCHANGED <<neurons, weights, round, total_neurons,
                            total_connections>>
  /\ UNCHANGED <<max_neurons, layers, num_layers, connections, cap,
                 total_neurons_allocated, total_connections_allocated, choices,
                 best, move>>

(* fann_set_shortcut_connections: connection i of a neuron comes from      *)
(* neuron i, and the neurons' connections follow each other.               *)
SourceFromOne(c) ==
  LET n == CHOOSE m \in FirstLayer .. total_neurons - 1 :
             c \in neurons[m].first_con .. neurons[m].last_con - 1
  IN c - neurons[n].first_con + 1

SourceOf(c) ==
  LET n == CHOOSE m \in FirstLayer .. total_neurons - 1 :
             c \in neurons[m].first_con .. neurons[m].last_con - 1
  IN c - neurons[n].first_con

fann_set_shortcut_connections ==
  /\ pc = "connect"
  /\ IF total_connections <= cap.connections
     THEN /\ connections' = [c \in DOMAIN connections |->
               IF c < total_connections THEN SourceOf(c) ELSE connections[c]]
          /\ pc' = "idle"
     ELSE pc' = "undefined" /\ UNCHANGED connections
  /\ UNCHANGED <<loop, layers, num_layers, neurons, weights, cap, totals,
                 choices, best, move>>

Next ==
  \/ \E which \in {"functions", "steepnesses"}, n \in ListSizes :
       SetCandidateList(which, n)
  \/ \E n \in GroupSizes : SetCandidateScalar("groups", n)
  \/ \E n \in CandEpochs : SetCandidateScalar("max_cand_epochs", n)
  \/ \E m \in 0 .. MaxHidden : StartTraining(m)
  \/ TrainOutputs \/ StopGrowing \/ KeepGrowing
  \/ fann_initialize_candidates
  \/ NeuronReallocFails \/ ConnectionReallocFails
  \/ fann_train_candidates
  \/ fann_add_layer \/ fann_add_candidate_neuron
  \/ MoveOutputNeuron \/ PlaceNeuron
  \/ TrainOutputsLastTime
  \/ fann_set_shortcut_connections

Spec == Init /\ [][Next]_vars

----------------------------------------------------------------------------
(* Properties.                                                             *)

TypeOK ==
  /\ pc \in {"idle", "outputs", "report", "candidates", "train", "add_layer",
             "add_neuron", "move_outputs", "final", "connect", "undefined"}
  /\ round \in Nat /\ max_neurons \in Nat /\ num_layers \in Nat
  /\ layers \in [0 .. num_layers - 1 -> [first : Nat, last : Nat]]
  /\ cap \in [neurons : Nat, train_errors : Nat, connections : Nat,
              weights : Nat, train_slopes : Nat, prev_steps : Nat,
              prev_train_slopes : Nat]
  /\ DOMAIN neurons = 0 .. cap.neurons - 1
  /\ \A n \in DOMAIN neurons :
       neurons[n].first_con \in Int /\ neurons[n].last_con \in Int
  /\ DOMAIN weights = 0 .. cap.weights - 1
  /\ DOMAIN connections = 0 .. cap.connections - 1
  /\ total_neurons \in Nat /\ total_connections \in Nat
  /\ total_neurons_allocated \in Nat /\ total_connections_allocated \in Nat
  /\ settings \in [functions : ListSizes, steepnesses : ListSizes,
                   groups : GroupSizes, max_cand_epochs : CandEpochs]
  /\ null_lists \subseteq {"functions", "steepnesses"}
  /\ scores \in Nat \union {NoBuffer}
  /\ cascade_best_candidate \in Nat
  /\ move \in [layer : Nat, neuron_it : Nat, place : Nat, in : Nat, out : Nat,
               step : Int, output_weight : Int]

Whole == pc \notin {"add_neuron", "move_outputs", "undefined"}

(* fann_cascade.h:31-34: a first layer, hidden layers of one neuron each,  *)
(* and an output layer, next to each other in the neuron array, whatever   *)
(* allocation failed and whichever candidates were installed.              *)
LayersPartitionNeurons ==
  Whole =>
    /\ num_layers = NumHidden + 2
    /\ layers[0] = [first |-> 0, last |-> FirstLayer]
    /\ \A l \in 1 .. num_layers - 2 :
         layers[l] = [first |-> FirstLayer + l - 1, last |-> FirstLayer + l]
    /\ layers[num_layers - 1] =
         [first |-> total_neurons - NumOutput, last |-> total_neurons]

(* The shortcut topology survives every round: each neuron behind the      *)
(* first layer owns one weight for every neuron of the layers below it,    *)
(* and the ranges of the neurons fill the weight array without a gap.      *)
FanIn(n) ==
  IF n < total_neurons - NumOutput THEN n ELSE total_neurons - NumOutput

WeightsPartition ==
  pc \notin {"move_outputs", "undefined"} /\ cap.neurons > 0 =>
    /\ neurons[FirstLayer].first_con = 0
    /\ neurons[total_neurons - 1].last_con = total_connections
    /\ \A n \in FirstLayer .. total_neurons - 1 :
         neurons[n].last_con = neurons[n].first_con + FanIn(n)
    /\ \A n \in FirstLayer .. total_neurons - 2 :
         neurons[n + 1].first_con = neurons[n].last_con

(* fann_cascade.c:379-381 "First make sure that there is enough room, and  *)
(* if not then allocate a bit more": when the candidates are written, they *)
(* lie inside every block that is indexed by them.  The installation       *)
(* relies on it (fann_cascade.c:841).  It fails once an allocation has     *)
(* failed: the count of the neurons is raised all the same (:294).         *)
RoomIsMade == [][fann_initialize_candidates => CandidatesFit(cap')]_vars

(* fann_data.h:682-692: the sizes on record are not larger than the blocks *)
(* themselves.                                                             *)
AllocatedOnRecord ==
  /\ total_neurons_allocated <= cap.neurons
  /\ total_connections_allocated <= cap.connections
  /\ total_connections_allocated <= cap.weights
  /\ cap.train_errors = 0 \/ total_neurons_allocated <= cap.train_errors
  /\ cap.train_slopes = 0 \/ total_connections_allocated <= cap.train_slopes
  /\ cap.prev_steps = 0 \/ total_connections_allocated <= cap.prev_steps
  /\ \/ cap.prev_train_slopes = 0
     \/ total_connections_allocated <= cap.prev_train_slopes

(* Moving the outputs towards the candidates never overwrites what is      *)
(* still to be read of the best candidate.                                 *)
BestCandidateIntact ==
  pc = "move_outputs" =>
    LET k == cascade_best_candidate - first_candidate_neuron
        moved == total_neurons - move.neuron_it
    IN /\ Candidate = CandidateNeuron(k)
       /\ \A i \in 0 .. move.in - 1 :
            weights[Candidate.first_con + i] = InWeight(total_neurons, k, i)
       /\ \A j \in moved .. NumOutput - 1 :
            weights[Candidate.last_con + j] = OutWeight(total_neurons, k, j)

(* fann_cascade.c:45-47: the connection pointers are valid again when the  *)
(* training returns.                                                       *)
ConnectionsRestored ==
  pc = "idle" =>
    \A n \in FirstLayer .. total_neurons - 1 : \A i \in 0 .. FanIn(n) - 1 :
      connections[neurons[n].first_con + i] = i

(* No null pointer and no slot outside its block is used.                      *)
AlwaysDefined == pc # "undefined"

----------------------------------------------------------------------------
(* The two partitions are not inductive: an installation takes them apart  *)
(* and puts them together again.  What holds in between:                   *)

(* The layers after fann_add_layer, and after the new layer got its neuron.*)
LayersWhileInstalling ==
  pc \in {"add_neuron", "move_outputs"} =>
    /\ num_layers = NumHidden + 3
    /\ move.layer = num_layers - 2
    /\ layers[0] = [first |-> 0, last |-> FirstLayer]
    /\ \A l \in 1 .. num_layers - 3 :
         layers[l] = [first |-> FirstLayer + l - 1, last |-> FirstLayer + l]
    /\ LET first == total_neurons - NumOutput
           grown == IF pc = "move_outputs" THEN 1 ELSE 0
       IN /\ layers[num_layers - 2] = [first |-> first, last |-> first + grown]
          /\ layers[num_layers - 1] =
               [first |-> first + grown, last |-> total_neurons + grown]

(* The slots up to move.neuron_it still hold their neurons.  Those above   *)
(* hold outputs that have moved and have their new weight.  Between the    *)
(* two there is a hole for the weights into the new neuron and for one     *)
(* weight to each output that has not moved.                               *)
WeightsWhileMoving ==
  pc = "move_outputs" =>
    LET it == move.neuron_it
    IN /\ move.place = total_neurons - NumOutput
       /\ move.in = total_neurons - NumOutput /\ move.out = NumOutput
       /\ move.place <= it /\ it <= total_neurons /\ move.step = it
       /\ neurons[FirstLayer].first_con = 0
       /\ \A n \in FirstLayer .. total_neurons - 1 :
            n <= it => neurons[n].last_con = neurons[n].first_con + FanIn(n)
       /\ \A n \in FirstLayer .. total_neurons - 2 :
            n < it => neurons[n + 1].first_con = neurons[n].last_con
       /\ \A n \in FirstLayer .. total_neurons :
            n > it => neurons[n].last_con =
                        neurons[n].first_con + total_neurons - NumOutput + 1
       /\ \A n \in FirstLayer .. total_neurons - 1 :
            n > it => neurons[n + 1].first_con = neurons[n].last_con
       /\ IF it = total_neurons
          THEN neurons[total_neurons - 1].last_con = total_connections
          ELSE /\ neurons[total_neurons].last_con =
                    total_connections + total_neurons
               /\ neurons[it + 1].first_con = neurons[it].first_con + it

RoomHeld ==
  pc \in {"train", "add_layer", "add_neuron", "move_outputs"} =>
    CandidatesFit(cap)

NeuronsPresent ==
  /\ total_neurons >= FirstLayer + NumOutput
  /\ cap.neurons = 0 => pc \in {"final", "undefined"}
  /\ cap.neurons # 0 => cap.neurons >= total_neurons

LayoutInv ==
  /\ TypeOK /\ NeuronsPresent /\ RoomHeld
  /\ LayersPartitionNeurons /\ LayersWhileInstalling
  /\ WeightsPartition /\ WeightsWhileMoving

(* Why the record can be trusted as long as allocations succeed: while     *)
(* train_errors is missing, its size still is the one on record; and the   *)
(* candidates are only made after the outputs were trained, when no        *)
(* training array is missing.                                              *)
RecordInv ==
  /\ AllocatedOnRecord
  /\ total_neurons_allocated > 0 /\ total_connections_allocated > 0
  /\ cap.train_errors = 0 => total_neurons_allocated = total_neurons
  /\ pc \notin {"idle", "outputs", "final", "connect", "undefined"} =>
       /\ cap.train_errors # 0 /\ cap.train_slopes # 0
       /\ cap.prev_steps # 0 /\ cap.prev_train_slopes # 0
============================================================================
