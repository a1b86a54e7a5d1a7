---------------------------- MODULE NetworkFile ----------------------------
(***************************************************************************)
(* Saving and loading a network (fann_io.c), with the allocations of a     *)
(* network (fann.c) that may fail while it is loaded.                      *)
(*                                                                         *)
(* A network is built by NetworkCreation, given parameters, saved, and     *)
(* loaded from the file, which may end early.  Parameters and weights are  *)
(* numbers: what "%f" writes are multiples of Grid, what "%.20e" writes is *)
(* exact.                                                                  *)
(***************************************************************************)
EXTENDS NetworkCreation, SequencesExt

CONSTANTS
  Remainders, Grid,    \* of parameters
  Weights, One,        \* a sequence of weights, in units of 1/One
  ListLengths,         \* of the cascade activation functions and steepnesses
  IntWidth,
  AllocMayFail

ASSUME FileAssumption ==
  /\ Remainders \subseteq 0 .. Grid - 1 /\ Grid \in Nat \ {0}
  /\ \E w \in 0 .. Whole : Whole = w * Grid  \* "%f" writes 1.0 as it is
  /\ Weights \in Seq(Int) /\ Weights # <<>> /\ One \in Nat \ {0}
  /\ ListLengths \subseteq Nat /\ IntWidth \in Nat /\ AllocMayFail \in BOOLEAN

VARIABLES
  settings,            \* of the network: [remainder, list, scale]
  file,                \* NotThere, or what has been written
  ann,                 \* the network that was loaded, or why there is none
  lost                 \* no part of the code: blocks nobody can free any more

fileVars == <<settings, file, ann, lost>>

NotThere == [none |-> TRUE]
Without(cause) == [cause |-> cause]
IsLoaded(n) == n # NotThere /\ "weights" \in DOMAIN n

-----------------------------------------------------------------------------
(* The parameters, in the order they are written and read *)

Floats == {"learning_rate", "connection_rate", "learning_momentum",
  "cascade_output_change_fraction", "quickprop_decay", "quickprop_mu",
  "rprop_increase_factor", "rprop_decrease_factor", "rprop_delta_min",
  "rprop_delta_max", "rprop_delta_zero", "cascade_candidate_change_fraction"}

SaveOrder ==
  <<"learning_rate", "connection_rate", "network_type", "learning_momentum",
    "training_algorithm", "train_error_function", "train_stop_function",
    "cascade_output_change_fraction", "quickprop_decay", "quickprop_mu",
    "rprop_increase_factor", "rprop_decrease_factor", "rprop_delta_min",
    "rprop_delta_max", "rprop_delta_zero", "cascade_output_stagnation_epochs",
    "cascade_candidate_change_fraction", "cascade_candidate_stagnation_epochs",
    "cascade_max_out_epochs", "cascade_max_cand_epochs",
    "cascade_num_candidate_groups", "bit_fail_limit", "cascade_candidate_limit",
    "cascade_weight_multiplier">>

LoadOrder ==
  <<"learning_rate", "connection_rate", "network_type", "learning_momentum",
    "training_algorithm", "train_error_function", "train_stop_function",
    "cascade_output_change_fraction", "quickprop_decay", "quickprop_mu",
    "rprop_increase_factor", "rprop_decrease_factor", "rprop_delta_min",
    "rprop_delta_max", "rprop_delta_zero", "cascade_output_stagnation_epochs",
    "cascade_candidate_change_fraction", "cascade_candidate_stagnation_epochs",
    "cascade_max_out_epochs", "cascade_max_cand_epochs",
    "cascade_num_candidate_groups", "bit_fail_limit", "cascade_candidate_limit",
    "cascade_weight_multiplier">>

Printed(name, x) ==
  IF name \in Floats THEN ((2 * x + Grid) \div (2 * Grid)) * Grid ELSE x

-----------------------------------------------------------------------------
(* A network, as far as it is saved *)

Number(name) == CHOOSE k \in DOMAIN SaveOrder : SaveOrder[k] = name

Parameter(name) ==
  IF name = "connection_rate" THEN connection_rate
  ELSE Grid * Number(name) + settings.remainder

Network ==
  [type |-> network_type,
   parameters |-> [name \in Range(SaveOrder) |-> Parameter(name)],
   list |-> settings.list, scale |-> settings.scale,
   layers |-> layers, first_con |-> first_con, last_con |-> last_con,
   num_input |-> num_input, num_output |-> num_output,
   activation |-> [n \in DOMAIN first_con |-> n],
   connections |-> connections,
   weights |-> [c \in DOMAIN connections |-> Weights[1 + (c % Len(Weights))]]]

\* The file of a network, up to stage `end`
Stages == <<"version", "num_layers", "parameters", "lists", "layer_sizes",
            "scale", "neurons", "connections">>
Complete == Len(Stages) + 1

NeuronsSaved(net) ==
  [n \in DOMAIN net.first_con |->
     [num_inputs |-> net.last_con[n] - net.first_con[n],
      activation |-> net.activation[n]]]

Saved(net, end) ==
  [version |-> "FLO_2.1", end |-> end, type |-> net.type,
   parameters |-> [k \in DOMAIN SaveOrder |->
     <<SaveOrder[k], Printed(SaveOrder[k], net.parameters[SaveOrder[k]])>>],
   list |-> net.list,
   layer_sizes |-> [l \in DOMAIN net.layers |-> net.layers[l].last - net.layers[l].first],
   scale |-> IF net.scale = NotThere THEN NotThere
             ELSE [at |-> ((2 * net.scale.at + Grid) \div (2 * Grid)) * Grid],
   neurons |-> NeuronsSaved(net), functions |-> <<>>,
   connections |-> [c \in DOMAIN net.connections |->
                      [from |-> net.connections[c], weight |-> net.weights[c]]]]

-----------------------------------------------------------------------------
(* Loading *)

\* The layers from their sizes, the biases included
LayersFrom(sizes) ==
  LET upTo == [l \in 0 .. Len(sizes) |-> SumFunction([k \in 1 .. l |-> sizes[k]])]
  IN [l \in DOMAIN sizes |-> [first |-> upTo[l - 1], last |-> upTo[l]]]

OutputsWithBias(type, size) == size  \* a mutant

num_outputs(type, size) == IF type = "LAYER" THEN size - 1 ELSE size

\* fann_set_activation_function_hidden and _output, and likewise the steepness
ByLayer(ls, hidden, output) ==
  [n \in 0 .. ls[Len(ls)].last - 1 |-> CASE LayerOf(ls, n) = 1 -> 0
                                         [] LayerOf(ls, n) = Len(ls) -> output
                                         [] OTHER -> hidden]

\* The connections of a neuron begin where those of the one before it end.
Loaded(f) ==
  LET ls == LayersFrom(f.layer_sizes)
      neurons == DOMAIN f.neurons
      upTo == [n \in 0 .. Cardinality(neurons) |->
                 SumFunction([m \in 0 .. n - 1 |-> f.neurons[m].num_inputs])]
      slots == 0 .. upTo[Cardinality(neurons)] - 1
      InFile(name) == {k \in DOMAIN f.parameters : f.parameters[k][1] = name}
      ValueOf(name) == IF InFile(name) = {} THEN 0  \* as fann_allocate_structure left it
                       ELSE f.parameters[Min(InFile(name))][2]
  IN [type |-> f.type,
      parameters |-> [name \in Range(LoadOrder) |-> ValueOf(name)],
      list |-> f.list, scale |-> f.scale,
      layers |-> ls,
      first_con |-> [n \in neurons |-> upTo[n]],
      last_con |-> [n \in neurons |-> upTo[n + 1]],
      num_input |-> f.layer_sizes[1] - 1,
      num_output |-> num_outputs(f.type, f.layer_sizes[Len(f.layer_sizes)]),
      activation |-> IF f.version = "FLO_1.1" THEN ByLayer(ls, f.functions[1], f.functions[2])
                     ELSE [n \in neurons |-> f.neurons[n].activation],
      connections |-> [c \in slots |-> f.connections[c].from],
      weights |-> [c \in slots |-> f.connections[c].weight]]

\* The blocks there are when a stage is read
Structure == {"ann", "functions", "steepnesses", "layers"}
BlocksAt(f, stage) ==
  (IF stage >= 3 THEN Structure ELSE {})
    \cup (IF stage >= 6 /\ f.scale # NotThere THEN {"scales"} ELSE {})
    \cup (IF stage >= 7 THEN {"neurons", "output"} ELSE {})
    \cup (IF stage >= 8 THEN {"weights", "connections"} ELSE {})

FreedButOutput ==  \* a mutant
  Structure \cup {"scales", "neurons", "weights", "connections"}

fann_destroy_frees ==
  Structure \cup {"scales", "neurons", "output", "weights", "connections"}

\* What comes of it: a network or a cause, and what is lost.
Fails(cause, blocks) ==
  [ann |-> Without(cause), lost |-> blocks \ fann_destroy_frees]

\* An allocation failed before the file ended.  The four of
\* fann_allocate_structure: with the last one the lists are forgotten.  realloc
\* leaves the old list where nobody knows it.  fann_allocate_scale destroys the
\* network, and the loader goes on.
NoMemory(f) ==
  IF ~AllocMayFail THEN {}
  ELSE {[ann |-> Without("memory"), lost |-> {}]} \cup
       {[ann |-> Without("memory"), lost |-> blocks] :
          blocks \in (IF f.end > 2 THEN {{"functions", "steepnesses"}} ELSE {})
            \cup (IF f.end > 3 /\ f.version # "FLO_1.1"
                  THEN {{"functions"}, {"steepnesses"}} ELSE {})} \cup
       (IF f.end > 5 /\ f.scale # NotThere
        THEN {[ann |-> Without("undefined"), lost |-> {}]} ELSE {}) \cup
       (IF f.end > 6 THEN {Fails("memory", BlocksAt(f, 6)),
                           Fails("memory", BlocksAt(f, 6) \cup {"neurons"})} ELSE {}) \cup
       (IF f.end > 7 THEN {Fails("memory", BlocksAt(f, 7)),
                           Fails("memory", BlocksAt(f, 7) \cup {"weights"})} ELSE {})

\* A list of no length is reallocated to NULL, which is taken for a failure.
EmptyList(f) == f.version # "FLO_1.1" /\ f.list = <<>>

InOrder(f) ==
  f.version = "FLO_1.1" \/ \A k \in DOMAIN LoadOrder : f.parameters[k][1] = LoadOrder[k]

\* Where the file or what it says of the parameters stops the loader
Stop(f) ==
  IF f.version = "FIX_2.1" THEN 1
  ELSE Min({f.end} \cup (IF InOrder(f) THEN {} ELSE {3})
                   \cup (IF EmptyList(f) THEN {4} ELSE {}))

\* Where it stops: the line on scaling need not be there, so that a file that
\* ends before it is read on, as one without scaling, to the neurons.
Stops(f) ==
  IF Stop(f) # 6 THEN {[end |-> Stop(f), scale |-> f.scale]}
  ELSE {[end |-> 7, scale |-> NotThere]} \cup
       (IF f.scale = NotThere THEN {} ELSE {[end |-> 6, scale |-> f.scale]})

\* fann_create_from_fd and fann_create_from_fd_1_1
Loading(f) ==
  UNION {LET g == [f EXCEPT !.end = s.end, !.scale = s.scale]
         IN NoMemory(g) \cup
            {IF s.end = Complete THEN [ann |-> Loaded(f), lost |-> {}]
             ELSE Fails(IF s.end = 1 THEN "version" ELSE "file", BlocksAt(g, s.end))}
           : s \in Stops(f)}

-----------------------------------------------------------------------------
(* Fixed point *)

\* 1 << n
TwoTo(n) == FoldLeft(LAMBDA power, i : 2 * power, 1, [i \in 1 .. n |-> i])

NeuronWeight(n) ==
  SumFunction([c \in Slots(n) |-> LET w == Weights[1 + (c % Len(Weights))]
                                  IN IF w < 0 THEN -w ELSE w])

bits_used_for_max ==
  LET most == Max({NeuronWeight(n) : n \in DOMAIN first_con})
  IN CHOOSE b \in 0 .. most : most < One * TwoTo(b) /\ (b > 0 => most >= One * TwoTo(b - 1))

NotHalved(bits) == IntWidth - 2 - bits  \* a mutant
Halved(bits) == (IntWidth - 2 - bits) \div 2

\* The difference is a size_t, and negative as an int where that has 64 bits.
decimal_point == Max({0, Halved(bits_used_for_max)})

Fixed(w) == (2 * w * TwoTo(decimal_point) + One) \div (2 * One)

FixedFile ==
  [Saved(Network, Complete) EXCEPT
     !.version = "FIX_2.1", !.scale = NotThere,
     !.connections = [c \in DOMAIN @ |->
       [from |-> @[c].from, weight |-> Fixed(Weights[1 + (c % Len(Weights))])]]]

-----------------------------------------------------------------------------
(* Actions *)

Creation == Creating /\ UNCHANGED fileVars

\* The setters of the parameters, of the lists and of the scaling
Configure ==
  /\ pc = "done" /\ file = NotThere
  /\ \E r \in Remainders, n \in ListLengths, scale \in {NotThere} \cup [at : Remainders] :
       settings' = [remainder |-> r, list |-> [i \in 1 .. n |-> i], scale |-> scale]
  /\ settings' # settings
  /\ UNCHANGED <<vars, file, ann, lost>>

\* Nothing is noticed of a file that could not be written to its end.
fann_save ==
  /\ pc = "done" /\ file = NotThere
  /\ \E end \in 1 .. Complete : file' = Saved(Network, end)
  /\ UNCHANGED <<vars, settings, ann, lost>>

fann_save_to_fixed ==
  /\ pc = "done" /\ file = NotThere
  /\ file' = FixedFile
  /\ UNCHANGED <<vars, settings, ann, lost>>

\* External: what earlier releases have written of such a network, 2.0 without
\* scaling; 1.1 with one function for the hidden neurons and one for the output.
OldFile ==
  /\ pc = "done" /\ file = NotThere
  /\ \/ file' = [Saved(Network, Complete) EXCEPT !.version = "FLO_2.0", !.scale = NotThere]
     \/ \E end \in {1, 2, 5, 7, 8, 9} :
          file' = [Saved(Network, end) EXCEPT
            !.version = "FLO_1.1", !.scale = NotThere, !.list = <<1>>,
            !.parameters = <<@[1], @[2]>>,
            !.functions = <<1, 2>>]
  /\ UNCHANGED <<vars, settings, ann, lost>>

fann_create_from_file ==
  /\ file # NotThere /\ ann = NotThere
  /\ \E r \in Loading(file) : ann' = r.ann /\ lost' = r.lost
  /\ UNCHANGED <<vars, settings, file>>

\* The program goes on with another network.
Another ==
  /\ ann # NotThere
  /\ fann_destroy
  /\ settings' = [remainder |-> 0, list |-> <<1>>, scale |-> NotThere]
  /\ file' = NotThere /\ ann' = NotThere /\ lost' = {}

FileInit ==
  /\ Init
  /\ settings = [remainder |-> 0, list |-> <<1>>, scale |-> NotThere]
  /\ file = NotThere /\ ann = NotThere /\ lost = {}

FileNext ==
  \/ Creation \/ Configure
  \/ fann_save \/ fann_save_to_fixed \/ OldFile \/ fann_create_from_file
  \/ Another

FileSpec == FileInit /\ [][FileNext]_<<vars, fileVars>>

-----------------------------------------------------------------------------
(* Properties *)

SameStructure(n, m) ==
  /\ n.type = m.type /\ n.layers = m.layers
  /\ n.num_input = m.num_input /\ n.num_output = m.num_output
  /\ n.first_con = m.first_con /\ n.last_con = m.last_con
  /\ n.connections = m.connections /\ n.weights = m.weights

\* A network of any topology is loaded as it was saved: what the file does not
\* say, the numbers of inputs and outputs and the range of each neuron's
\* connections, comes out again; the parameters do to six digits, so that a
\* fully connected network stays one, and one that is not is taken for one only
\* if its connection rate is within half a digit of 1; and saving it again
\* writes the same file.  Older files give the same network.
SavedIsLoaded ==
  IsLoaded(ann) =>
    /\ SameStructure(ann, Network)
    /\ connection_rate = Whole => ann.parameters["connection_rate"] = Whole
    /\ 2 * (Whole - connection_rate) > Grid => ann.parameters["connection_rate"] < Whole
    /\ file.version = "FLO_2.1" =>
         /\ Saved(ann, Complete) = file
         /\ ann.activation = Network.activation /\ ann.list = Network.list
         /\ \A name \in Range(SaveOrder) :
              2 * (ann.parameters[name] - Network.parameters[name]) \in -Grid .. Grid

\* A file of a floating point network that was written to its end is refused only
\* for want of memory or an empty list.  Wherever a file ends nothing of the
\* network that was begun is left behind, and wherever an allocation fails no
\* more than the two lists (fann.c:1411-1417, fann_io.c:453-483).
RefusedCleanly ==
  ann # NotThere /\ ~IsLoaded(ann) =>
    /\ file.end = Complete /\ ann.cause # "memory" /\ file.version # "FIX_2.1" =>
         EmptyList(file) \/ ann.cause = "undefined"
    /\ lost \subseteq IF ann.cause = "memory" THEN {"functions", "steepnesses"} ELSE {}

\* The fixed point chosen for a network leaves room for the products that are
\* summed up for a neuron: its inputs are at most 1, in fixed point, and there is
\* a bit for the sign.
FixedPointFits ==
  file # NotThere /\ file.version = "FIX_2.1" =>
    \A n \in DOMAIN first_con :
      SumFunction([c \in Slots(n) |-> LET w == file.connections[c].weight
                                      IN IF w < 0 THEN -w ELSE w])
        * TwoTo(decimal_point) < TwoTo(IntWidth - 1)
=============================================================================
