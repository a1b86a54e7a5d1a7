-------------------------- MODULE NetworkCreation --------------------------
(***************************************************************************)
(* Building a network (fann.c): layers, the division of the connections    *)
(* among the neurons, and which neuron each connection comes from.  A      *)
(* standard network is a sparse one with connection rate 1; a network that *)
(* is not fully connected draws its connections at random.                 *)
(*                                                                         *)
(* Neurons and connections are numbered from 0, as in the code; layers     *)
(* from 1.  A pointer to a neuron is the neuron's number.  Allocations     *)
(* succeed here: see NetworkFile for those that fail.                      *)
(***************************************************************************)
EXTENDS Integers, Sequences, Functions, FiniteSetsExt

CONSTANTS
  LayerSizes,    \* sequences of layer sizes a caller may ask for
  Rates, Whole,  \* the connection rates are Rates / Whole
  UIntModulus    \* 2 ^ the width of an unsigned int

ASSUME CreationAssumption ==
  /\ LayerSizes \subseteq Seq(Nat \ {0})
  /\ \A s \in LayerSizes : Len(s) >= 2
  /\ Whole \in Nat \ {0} /\ Rates \subseteq Nat \ {0}
  /\ UIntModulus \in Nat \ {0}

\* The most connections of a layer are taken as a float (fann.c:175), which has 24
\* bits and counts no further.
ASSUME FloatAssumption ==
  \A s \in LayerSizes : \A l \in 2 .. Len(s) : s[l - 1] * s[l] <= 16777216

VARIABLES
  pc,                  \* what the running fann_create_... does next
  network_type,        \* of struct fann, like the next five
  connection_rate,
  layers,              \* first_layer .. last_layer: [first, last] neurons
  first_con, last_con, \* of every neuron
  connections,         \* the neuron each connection comes from, or NULL
  layer_it, neuron_it, \* loop variables
  asked                \* no part of the code: the sizes asked for

NULL == -1

shape == <<network_type, connection_rate, layers, first_con, last_con, asked>>
vars == <<pc, shape, connections, layer_it, neuron_it>>

Larger(a, b) == Max({a, b})
Smaller(a, b) == Min({a, b})

-----------------------------------------------------------------------------
(* Layers *)

NumNeurons(type, sizes, l) ==
  sizes[l] + IF type = "LAYER" \/ l = 1 THEN 1 ELSE 0

LayersOf(type, sizes) ==
  LET upTo == [l \in 0 .. Len(sizes) |->
                 SumFunction([k \in 1 .. l |-> NumNeurons(type, sizes, k)])]
  IN [l \in DOMAIN sizes |-> [first |-> upTo[l - 1], last |-> upTo[l]]]

num_layers == Len(layers)
total_neurons == layers[num_layers].last
total_connections == Cardinality(DOMAIN connections)
NeuronsIn(l) == layers[l].first .. layers[l].last - 1
Slots(n) == first_con[n] .. last_con[n] - 1
LayerOf(ls, n) == CHOOSE l \in DOMAIN ls : n \in ls[l].first .. ls[l].last - 1
num_input == layers[1].last - layers[1].first - 1
num_output == layers[num_layers].last - layers[num_layers].first
                - IF network_type = "LAYER" THEN 1 ELSE 0

-----------------------------------------------------------------------------
(* How many connections a layer gets, and how they are divided *)

BiasOnlyConnections(in, out) == out  \* a mutant

min_connections(in, out) == Larger(in, out) + out

num_connections(rate, in, out) ==
  Larger(min_connections(in, out),
         (Whole + 2 * rate * in * out) \div (2 * Whole) + out)

\* What the first k neurons of a layer of `out` neurons get of `num` connections.
Allotted(num, out) ==
  LET upTo[k \in 0 .. out] ==
        IF k = 0 THEN 0
        ELSE LET even == upTo[k - 1] + num \div out
             IN IF even < ((num * k) % UIntModulus) \div out
                THEN even + 1 ELSE even
  IN upTo

AllottedEvenly(num, out) ==  \* a mutant: the remainder is lost
  [k \in 0 .. out |-> k * (num \div out)]

Division(num, out) == Allotted(num, out)

ConnectionsBefore(rate, sizes, l) ==
  SumFunction([k \in 2 .. l - 1 |->
                 num_connections(rate, sizes[k - 1], sizes[k])])

\* Where the connections of neuron n begin; those of a bias neuron end there, too.
SparseBegin(rate, sizes, ls, n) ==
  LET l == LayerOf(ls, n)
      num == num_connections(rate, sizes[l - 1], sizes[l])
  IN IF l = 1 THEN 0
     ELSE ConnectionsBefore(rate, sizes, l)
            + Division(num, sizes[l])[n - ls[l].first]

SparseEnd(rate, sizes, ls, n) ==
  LET l == LayerOf(ls, n)
  IN IF l = 1 \/ n = ls[l].last - 1 THEN SparseBegin(rate, sizes, ls, n)
     ELSE SparseBegin(rate, sizes, ls, n + 1)

-----------------------------------------------------------------------------
(* fann_create_sparse_array, and fann_create_standard_array with rate 1 *)

FullyConnected(ls, first, last, c) ==
  LET n == CHOOSE m \in DOMAIN first : c \in first[m] .. last[m] - 1
  IN ls[LayerOf(ls, n) - 1].first + (c - first[n])

AtMostFull(rate) == Smaller(rate, Whole)

fann_create_sparse_array ==
  \E sizes \in LayerSizes, asked_rate \in Rates :
    LET rate == AtMostFull(asked_rate)
        ls == LayersOf("LAYER", sizes)
        neurons == 0 .. ls[Len(sizes)].last - 1
        first == [n \in neurons |-> SparseBegin(rate, sizes, ls, n)]
        last == [n \in neurons |-> SparseEnd(rate, sizes, ls, n)]
        slots == 0 .. ConnectionsBefore(rate, sizes, Len(sizes) + 1) - 1
    IN /\ pc = "start"
       /\ network_type' = "LAYER"
       /\ connection_rate' = rate
       /\ layers' = ls
       /\ first_con' = first /\ last_con' = last
       /\ asked' = sizes
       /\ \/ /\ rate >= Whole
             /\ connections' =
                  [c \in slots |-> FullyConnected(ls, first, last, c)]
             /\ pc' = "done"
          \/ /\ rate < Whole
             /\ connections' = [c \in slots |-> NULL]
             /\ pc' = "bias"
       /\ layer_it' = 2
       /\ UNCHANGED neuron_it

bias_neuron(l) == layers[l - 1].last - 1
LastButBias(l) == layers[l].last - 2

ConnectBias ==
  /\ pc = "bias"
  /\ connections' = [c \in DOMAIN connections |->
       IF \E n \in layers[layer_it].first .. LastButBias(layer_it) : c = first_con[n]
       THEN bias_neuron(layer_it) ELSE connections[c]]
  /\ pc' = "inputs"
  /\ neuron_it' = layers[layer_it - 1].first
  /\ UNCHANGED <<shape, layer_it>>

\* Go on with the next layer once every connection of this one is there.
LayerConnected(conns) ==
  \A n \in NeuronsIn(layer_it) : \A c \in Slots(n) : conns[c] # NULL

AfterConnecting(conns) ==
  IF ~LayerConnected(conns) THEN pc' = "fill" /\ UNCHANGED layer_it
  ELSE IF layer_it = num_layers THEN pc' = "done" /\ UNCHANGED layer_it
       ELSE pc' = "bias" /\ layer_it' = layer_it + 1

\* Room is left for another input when the last place is free.
HasRoom(n) == connections[last_con[n] - 1] = NULL

\* Each input neuron gets an output neuron, drawn until one has room.
ConnectInput ==
  /\ pc = "inputs"
  /\ \E random_neuron \in layers[layer_it].first .. LastButBias(layer_it) :
      LET free == {c \in Slots(random_neuron) : connections[c] = NULL}
          conns == [c \in DOMAIN connections |->
                      IF c \in free /\ c = Min(free) THEN neuron_it ELSE connections[c]]
      IN /\ HasRoom(random_neuron)
         /\ connections' = conns
         /\ neuron_it' = neuron_it + 1
         /\ IF neuron_it < bias_neuron(layer_it) - 1
            THEN UNCHANGED <<pc, layer_it>>
            ELSE AfterConnecting(conns)
         /\ UNCHANGED shape

NewToPrevious(n, random_neuron, i) ==  \* a mutant: one connection is compared
  connections[i - 1] # random_neuron

\* The other connections get an input neuron each, drawn until it is a new one.
IsNew(n, random_neuron, i) ==
  \A j \in first_con[n] .. i - 1 : connections[j] # random_neuron

ConnectRest ==
  /\ pc = "fill"
  /\ \E random_neuron \in layers[layer_it - 1].first .. LastButBias(layer_it - 1) :
      LET n == Min({m \in NeuronsIn(layer_it) :
                           \E c \in Slots(m) : connections[c] = NULL})
          i == Min({c \in Slots(n) : connections[c] = NULL})
          conns == [connections EXCEPT ![i] = random_neuron]
      IN /\ IsNew(n, random_neuron, i)
         /\ connections' = conns
         /\ AfterConnecting(conns)
         /\ UNCHANGED <<shape, neuron_it>>

-----------------------------------------------------------------------------
(* fann_create_shortcut_array *)

\* Every neuron is connected to all neurons of all layers before its own.
ShortcutBegin(ls, n) ==
  SumFunction([m \in ls[1].last .. n - 1 |-> ls[LayerOf(ls, m)].first])

fann_create_shortcut_array ==
  \E sizes \in LayerSizes :
    LET ls == LayersOf("SHORTCUT", sizes)
        neurons == 0 .. ls[Len(sizes)].last - 1
        first == [n \in neurons |-> IF n < ls[1].last THEN 0 ELSE ShortcutBegin(ls, n)]
        last == [n \in neurons |-> IF n < ls[1].last THEN 0 ELSE ShortcutBegin(ls, n + 1)]
    IN /\ pc = "start"
       /\ network_type' = "SHORTCUT"
       /\ connection_rate' = Whole
       /\ layers' = ls
       /\ first_con' = first /\ last_con' = last
       /\ asked' = sizes
       /\ connections' =
            [c \in 0 .. ShortcutBegin(ls, ls[Len(sizes)].last) - 1 |->
               c - first[CHOOSE m \in neurons : c \in first[m] .. last[m] - 1]]
       /\ pc' = "done"
       /\ UNCHANGED <<layer_it, neuron_it>>

\* The caller drops the network and may build another one.
fann_destroy ==
  /\ pc = "done"
  /\ pc' = "start"
  /\ connections' = <<>>
  /\ UNCHANGED <<shape, layer_it, neuron_it>>

Init ==
  /\ pc = "start"
  /\ network_type = "LAYER" /\ connection_rate = Whole
  /\ layers = <<>> /\ asked = <<>>
  /\ first_con = <<>> /\ last_con = <<>> /\ connections = <<>>
  /\ layer_it = 2 /\ neuron_it = 0

Creating ==
  \/ fann_create_sparse_array
  \/ fann_create_shortcut_array
  \/ ConnectBias
  \/ ConnectInput
  \/ ConnectRest

Next == Creating \/ fann_destroy

Spec == Init /\ [][Next]_vars

\* A random number generator that keeps missing what it can draw is none; the
\* call itself runs to its end.
FairSpec == Spec /\ WF_vars(ConnectBias \/ ConnectInput \/ ConnectRest)

-----------------------------------------------------------------------------
(* What the caller is told about a network *)

fann_get_total_neurons ==
  IF network_type = "SHORTCUT" THEN total_neurons ELSE total_neurons - 1

fann_get_layer_array ==
  [l \in DOMAIN layers |->
     layers[l].last - layers[l].first
       - IF network_type = "LAYER" \/ l = 1 THEN 1 ELSE 0]

BiasInEveryLayer ==  \* a mutant: the unused bias of the last layer is reported
  [l \in DOMAIN layers |-> IF network_type = "LAYER" \/ l = 1 THEN 1 ELSE 0]

fann_get_bias_array ==
  [l \in DOMAIN layers |->
     IF \/ network_type = "LAYER" /\ l # num_layers
        \/ network_type = "SHORTCUT" /\ l = 1
     THEN 1 ELSE 0]

\* The walk numbers connections one after the other, and neurons likewise; slot
\* number i of the walk is reported with neuron Destination(i).
Destination(source_index) ==
  Min({n \in 0 .. total_neurons - 1 :
         source_index <
           SumFunction([m \in 0 .. n |-> last_con[m] - first_con[m]])})

fann_get_connection_array ==
  [i \in 0 .. SumFunction([n \in DOMAIN last_con |-> last_con[n] - first_con[n]]) - 1 |->
     [from_neuron |-> connections[i], to_neuron |-> Destination(i)]]

\* fann_print_connections: the columns it has room for
PrintedNeurons == 0 .. fann_get_total_neurons - num_output - 1

\* fann_init_weights
InitBias(l) ==
  IF network_type = "LAYER" THEN layers[l - 1].last - 1 ELSE layers[1].last - 1

BiasSlots(n) ==
  {c \in Slots(n) : connections[c] = InitBias(LayerOf(layers, n))}

-----------------------------------------------------------------------------
(* Properties *)

Receivers == {n \in DOMAIN first_con : first_con[n] < last_con[n]}

\* All neurons of the layer(s) a neuron may be connected to
Sources(n) ==
  IF network_type = "LAYER" THEN NeuronsIn(LayerOf(layers, n) - 1)
  ELSE 0 .. layers[LayerOf(layers, n)].first - 1

\* The division of the connections loses none and invents none: every
\* connection on record belongs to exactly one neuron, and a neuron has no more
\* of them than there are sources for it (fann.c, the rounded splitting).
ConnectionsShared ==
  pc # "start" =>
    /\ \A c \in DOMAIN connections :
         Cardinality({n \in DOMAIN first_con : c \in Slots(n)}) = 1
    /\ \A n \in Receivers :
         /\ Slots(n) \subseteq DOMAIN connections
         /\ Cardinality(Slots(n)) <= Cardinality(Sources(n))

\* However the random numbers fall, each neuron ends up connected to the bias
\* once, to at least one other neuron, to none twice and to none outside the
\* layers before; every neuron before the last layer is used; and
\* fann_init_weights, which tells a bias connection by its source alone, finds
\* exactly one in every neuron (fann.c:263, fann.c:948).
WellConnected ==
  pc = "done" =>
    /\ \A n \in Receivers :
         /\ {connections[c] : c \in Slots(n)} \subseteq Sources(n)
         /\ \A c, d \in Slots(n) : connections[c] = connections[d] => c = d
         /\ Cardinality(BiasSlots(n)) = 1
         /\ Cardinality(Slots(n)) >= 2
    /\ \A l \in 1 .. num_layers - 1 : \A m \in NeuronsIn(l) :
         \E c \in DOMAIN connections : connections[c] = m

\* What the caller is told agrees with what was asked for and with itself: the
\* layers without their biases, the totals, and the destination the connection
\* walk counts up to instead of looking it up; the printed matrix has a column
\* for every source.
ReportsMatch ==
  pc = "done" =>
    /\ fann_get_layer_array = asked
    /\ SumFunction(fann_get_layer_array) + SumFunction(fann_get_bias_array)
         = fann_get_total_neurons
    /\ DOMAIN fann_get_connection_array = DOMAIN connections
    /\ \A c \in DOMAIN connections :
         /\ c \in Slots(fann_get_connection_array[c].to_neuron)
         /\ connections[c] \in PrintedNeurons

\* The draws end: whatever was drawn before, some number still to be drawn
\* leads on, in each of the two loops that repeat until one does.
RandomDrawsEnd == pc # "start" ~> pc = "done"
============================================================================
