------------------------- MODULE PropagationProofs -------------------------
(***************************************************************************)
(* Proofs about Propagation, for every network that can be built, every    *)
(* set of patterns and all weights: running a network gives weighted sums, *)
(* backpropagation gives derivatives, and incremental training adds to the *)
(* weights what follows them.  And about CandidateTraining, which trains   *)
(* candidates for such networks, any number of them: the score of one is   *)
(* the error it takes away, and the epochs follow the error.               *)
(***************************************************************************)
EXTENDS CandidateTraining, NetworkProofs

-----------------------------------------------------------------------------
(* The network                                                             *)

(* What the loops of training use of a network that is done.               *)
LayersInARow ==
  /\ total_neurons \in Nat /\ Neurons = 0 .. total_neurons - 1
  /\ num_input \in Nat /\ num_input < total_neurons
  /\ num_layers \in Nat /\ num_layers >= 2
  /\ \A l \in 1 .. num_layers : /\ layers[l].first \in Nat /\ layers[l].last \in Nat
                                /\ layers[l].first < layers[l].last
  /\ layers[1].first = 0 /\ layers[1].last = num_input + 1
  /\ layers[num_layers].last = total_neurons
  /\ \A l \in 1 .. num_layers - 1 : layers[l + 1].first = layers[l].last
  /\ \A l, m \in 1 .. num_layers : l < m => layers[l].last <= layers[m].first
  /\ num_output \in Nat /\ Outputs \subseteq NeuronsIn(num_layers)
  /\ \A n \in Neurons : /\ LayerOf(layers, n) \in 1 .. num_layers
                        /\ n \in NeuronsIn(LayerOf(layers, n))
  /\ \A l \in 1 .. num_layers : \A n \in NeuronsIn(l) :
       n \in Neurons /\ LayerOf(layers, n) = l

LayerStart(n) == layers[LayerOf(layers, n)].first

ConnectionsInPlace ==
  /\ \E total \in Nat : DOMAIN connections = 0 .. total - 1
  /\ \A n \in Neurons : /\ first_con[n] \in Nat /\ last_con[n] \in Nat
                        /\ first_con[n] <= last_con[n]
                        /\ Slots(n) \subseteq DOMAIN connections
  /\ \A n \in 0 .. num_input : NumConnections(n) = 0
  /\ \A c \in DOMAIN connections : /\ Destination(c) \in Neurons
                                   /\ c \in Slots(Destination(c))
  /\ \A n \in Neurons : \A c \in Slots(n) : Destination(c) = n
  /\ \A n \in Neurons : \A c \in Slots(n) :
       connections[c] \in Neurons /\ connections[c] < LayerStart(n)
  /\ \A n \in Neurons : \A i \in 0 .. NumConnections(n) - 1 :
       Source(n, i) = connections[first_con[n] + i]

(* A network NetworkCreation has described has its layers in a row, and    *)
(* nothing goes into its first layer.                                      *)
LEMMA LayersOfDone ==
  ASSUME NEW L, NEW N, NEW total, NetworkOf(L, N, total),
         FansIn(network_type, connection_rate, layers, first_con, last_con)
  PROVE  /\ LayersInARow /\ L = num_layers /\ N = total_neurons
         /\ \A n \in 0 .. num_input : NumConnections(n) = 0
<1>1. /\ L \in Nat /\ L >= 2 /\ N \in Nat /\ N = layers[L].last
      /\ DOMAIN layers = 1 .. L /\ Len(layers) = L /\ layers[1].first = 0
      /\ \A l \in 1 .. L : /\ layers[l].first \in Nat /\ layers[l].last \in Nat
                           /\ layers[l].first < layers[l].last
      /\ \A l \in 1 .. L - 1 : layers[l + 1].first = layers[l].last
      /\ \A l, m \in 1 .. L : l < m => layers[l].last <= layers[m].first
      /\ \A l \in 1 .. L : \A n \in layers[l].first .. layers[l].last - 1 :
           LayerOf(layers, n) = l /\ n \in 0 .. N - 1
      /\ \A n \in 0 .. N - 1 :
           /\ LayerOf(layers, n) \in 1 .. L
           /\ n \in layers[LayerOf(layers, n)].first .. layers[LayerOf(layers, n)].last - 1
  BY DEF NetworkOf, Layered
<1>2. num_layers = L /\ total_neurons = N
  BY <1>1 DEF num_layers, total_neurons
<1>3. Neurons = 0 .. N - 1
  BY DEF Neurons, NetworkOf, Ranges
<1>4. /\ network_type \in {"LAYER", "SHORTCUT"}
      /\ \A l \in 1 .. L : asked[l] \in Nat /\ asked[l] >= 1
      /\ \A l \in 1 .. L : layers[l].last = layers[l].first + NumNeurons(network_type, asked, l)
  BY DEF NetworkOf
<1>5. 1 \in 1 .. L /\ 2 \in 1 .. L /\ L \in 1 .. L
  BY <1>1
<1>6. num_input = asked[1] /\ layers[1].last = num_input + 1
  <2>1. layers[1].last = layers[1].first + (asked[1] + 1)
    <3>1. NumNeurons(network_type, asked, 1) = asked[1] + 1
      BY DEF NumNeurons
    <3>2. QED
      BY <1>4, <1>5, <3>1
  <2>2. asked[1] \in Nat
    BY <1>4, <1>5
  <2>3. layers[1].first = 0 /\ num_input = layers[1].last - layers[1].first - 1
    BY <1>1 DEF num_input
  <2>4. QED
    BY <2>1, <2>2, <2>3
<1>7. num_input < N
  <2>1. layers[1].last <= layers[L].first /\ layers[L].first < layers[L].last
    BY <1>1, <1>5
  <2>2. num_input \in Nat /\ layers[L].first \in Nat /\ layers[L].last \in Nat
    BY <1>1, <1>4, <1>5, <1>6
  <2>3. QED
    BY <1>1, <1>6, <2>1, <2>2
<1>8. num_output = asked[L] /\ Outputs \subseteq layers[L].first .. layers[L].last - 1
  <2> DEFINE f == layers[L].first
             e == layers[L].last
             a == asked[L]
  <2>1. f \in Nat /\ e \in Nat /\ a \in Nat
    BY <1>1, <1>4, <1>5
  <2>2. e = f + (a + IF network_type = "LAYER" THEN 1 ELSE 0)
    BY <1>1, <1>4, <1>5 DEF NumNeurons
  <2>3. num_output = (e - f) - IF network_type = "LAYER" THEN 1 ELSE 0
    BY <1>2 DEF num_output
  <2>4. Outputs = f .. f + num_output - 1
    BY <1>2 DEF Outputs
  <2> HIDE DEF f, e, a
  <2>5. num_output = a /\ a <= e - f
    <3>1. CASE network_type = "LAYER"
      BY <2>1, <2>2, <2>3, <3>1
    <3>2. CASE network_type # "LAYER"
      BY <2>1, <2>2, <2>3, <3>2
    <3>3. QED
      BY <3>1, <3>2
  <2>6. \A x \in f .. f + a - 1 : x \in f .. e - 1
    BY <2>1, <2>5
  <2>7. Outputs \subseteq f .. e - 1
    BY <2>4, <2>5, <2>6
  <2>8. QED
    BY <2>5, <2>7 DEF f, e, a
<1>9. LayersInARow
  <2>1. num_input \in Nat /\ num_output \in Nat
    BY <1>4, <1>5, <1>6, <1>8
  <2>2. \A l \in 1 .. L : NeuronsIn(l) = layers[l].first .. layers[l].last - 1
    BY DEF NeuronsIn
  <2>3. \A n \in Neurons : /\ LayerOf(layers, n) \in 1 .. num_layers
                           /\ n \in NeuronsIn(LayerOf(layers, n))
    BY <1>1, <1>2, <1>3, <2>2
  <2>4. \A l \in 1 .. num_layers : \A n \in NeuronsIn(l) :
          n \in Neurons /\ LayerOf(layers, n) = l
    BY <1>1, <1>2, <1>3, <2>2
  <2>5. Outputs \subseteq NeuronsIn(num_layers)
    BY <1>2, <1>5, <1>8, <2>2
  <2>6. QED
    BY <1>1, <1>2, <1>3, <1>6, <1>7, <2>1, <2>3, <2>4, <2>5 DEF LayersInARow
<1>10. ASSUME NEW n \in 0 .. num_input
       PROVE  NumConnections(n) = 0
  <2>1. n \in layers[1].first .. layers[1].last - 1
    BY <1>1, <1>4, <1>5, <1>6
  <2>2. last_con[n] - first_con[n] \in Fan(network_type, connection_rate, layers, 1, n)
    BY <1>1, <1>5, <2>1 DEF FansIn
  <2>3. QED
    BY <2>2 DEF Fan, NumConnections
<1>11. QED
  BY <1>2, <1>9, <1>10

(* In a fully connected network, the neuron a position leads to is the one *)
(* on record.                                                              *)
LEMMA PositionsArePointers ==
  ASSUME DividedInv, WiringInv, pc = "done", NEW L, NEW N, NEW total,
         NetworkOf(L, N, total), LayersInARow, L = num_layers,
         NEW n \in Neurons, first_con[n] \in Nat, last_con[n] \in Nat,
         NEW i \in 0 .. NumConnections(n) - 1, LayerOf(layers, n) # 1
  PROVE  Source(n, i) = connections[first_con[n] + i]
<1> DEFINE l == LayerOf(layers, n)
           a == first_con[n]
           c == a + i
<1>1. l \in 2 .. L /\ n \in layers[l].first .. layers[l].last - 1
  BY DEF LayersInARow, NeuronsIn
<1>2. /\ i \in Int /\ a \in Nat /\ c \in Int /\ c - a = i
      /\ c \in Places(first_con, last_con, n)
  BY DEF Places, NumConnections
<1>3. /\ network_type \in {"LAYER", "SHORTCUT"}
      /\ connection_rate \in Nat /\ connection_rate <= Whole
      /\ (network_type = "SHORTCUT" => connection_rate = Whole)
  BY DEF DividedInv, Divided
<1>4. CASE connection_rate = Whole
  <2>1. ~(connection_rate < Whole)
    BY <1>3, <1>4
  <2>2. StraightIn(layers, first_con, last_con, connections, network_type, L)
    BY <2>1 DEF WiringInv, NetworkOf
  <2>3. connections[c]
          = (c - a) + IF network_type = "LAYER" THEN layers[l - 1].first ELSE 0
    <3> HIDE DEF c, a, l
    <3>1. QED
      BY <1>1, <1>2, <2>2 DEF StraightIn, a
  <2>4. ByPosition(n, i) = i + IF network_type = "SHORTCUT" THEN 0 ELSE layers[l - 1].first
    BY DEF ByPosition
  <2>5. Source(n, i) = ByPosition(n, i)
    BY <1>4 DEF Source
  <2> HIDE DEF c, a, l
  <2>6. QED
    BY <1>2, <1>3, <2>3, <2>4, <2>5 DEF c, a
<1>5. CASE connection_rate # Whole
  BY <1>5 DEF Source, ByPointer
<1>6. QED
  BY <1>4, <1>5

(* A network that is done has its layers and its connections in place.     *)
LEMMA DoneInPlace ==
  ASSUME DividedInv, WiringInv, pc = "done"
  PROVE  LayersInARow /\ ConnectionsInPlace
<1>1. PICK L, N, total :
        /\ NetworkOf(L, N, total)
        /\ FansIn(network_type, connection_rate, layers, first_con, last_con)
  BY NetworkDone
<1>2. /\ LayersInARow /\ L = num_layers /\ N = total_neurons
      /\ \A n \in 0 .. num_input : NumConnections(n) = 0
  BY <1>1, LayersOfDone
<1>3. WellConnected
  BY DoneAndWell
<1>4. Neurons = 0 .. N - 1 /\ total \in Nat /\ DOMAIN connections = 0 .. total - 1
      /\ Ranges(first_con, last_con, N, total)
  BY <1>1, <1>2 DEF LayersInARow, NetworkOf
<1>5. /\ \A n \in Neurons :
           /\ first_con[n] \in Nat /\ last_con[n] \in Nat /\ first_con[n] <= last_con[n]
           /\ Slots(n) \subseteq DOMAIN connections
      /\ \A n, m \in Neurons : \A c \in Slots(n) : c \in Slots(m) => n = m
  BY <1>4, PlacesGiven DEF Slots, Places
<1>6. \A c \in DOMAIN connections : /\ Destination(c) \in Neurons
                                    /\ c \in Slots(Destination(c))
  BY <1>2, <1>4, DestinationHasIt
<1>7. \A n \in Neurons : \A c \in Slots(n) : Destination(c) = n
  BY <1>5, <1>6
<1>8. ASSUME NEW n \in Neurons, NEW c \in Slots(n)
      PROVE  /\ n \in Receivers /\ LayerOf(layers, n) # 1
             /\ connections[c] \in Neurons /\ connections[c] < LayerStart(n)
  <2> DEFINE l == LayerOf(layers, n)
  <2>1. first_con[n] \in Nat /\ last_con[n] \in Nat /\ first_con[n] < last_con[n]
    BY <1>5, <1>8 DEF Slots
  <2>2. n \in Receivers
    BY <2>1 DEF Receivers, Neurons
  <2>3. l \in 2 .. L /\ l - 1 \in 1 .. L
    BY <1>1, <2>2, ReceiverPlace
  <2>4. connections[c] \in Sources(n)
    BY <1>3, <2>2 DEF WellConnected
  <2>5. /\ L \in Nat /\ L = num_layers /\ layers[l - 1].last = layers[l].first
        /\ layers[l].first \in Nat /\ layers[l - 1].first \in Nat
        /\ layers[l].first < layers[l].last /\ l \in 1 .. L
    <3>1. l - 1 \in 1 .. L - 1 /\ (l - 1) + 1 = l /\ l \in 1 .. L
      BY <1>2, <2>3 DEF LayersInARow
    <3> HIDE DEF l
    <3>2. QED
      BY <1>2, <2>3, <3>1 DEF LayersInARow
  <2>6. \A m \in Int : m >= 0 /\ m < layers[l].first => m \in Neurons
    <3>1. layers[l].first <= n /\ n \in 0 .. N - 1
      BY <1>2, <1>4 DEF LayersInARow, NeuronsIn
    <3>2. N \in Nat
      BY <1>2 DEF LayersInARow
    <3> HIDE DEF l
    <3>3. QED
      BY <1>4, <2>5, <3>1, <3>2 DEF l
  <2>7. connections[c] \in Int /\ connections[c] >= 0 /\ connections[c] < layers[l].first
    <3>1. CASE network_type = "LAYER"
      <4>1. connections[c] \in layers[l - 1].first .. layers[l - 1].last - 1
        BY <2>4, <3>1 DEF Sources, NeuronsIn
      <4> HIDE DEF l
      <4>2. QED
        BY <2>5, <4>1
    <3>2. CASE network_type # "LAYER"
      <4>1. connections[c] \in 0 .. layers[l].first - 1
        BY <2>4, <3>2 DEF Sources
      <4> HIDE DEF l
      <4>2. QED
        BY <2>5, <4>1
    <3>3. QED
      BY <3>1, <3>2
  <2>8. QED
    BY <2>2, <2>3, <2>6, <2>7 DEF LayerStart
<1>9. ASSUME NEW n \in Neurons, NEW i \in 0 .. NumConnections(n) - 1
      PROVE  Source(n, i) = connections[first_con[n] + i]
  <2>1. first_con[n] + i \in Slots(n) /\ first_con[n] \in Nat /\ last_con[n] \in Nat
    BY <1>5 DEF Slots, NumConnections
  <2>2. LayerOf(layers, n) # 1
    BY <1>8, <2>1
  <2>3. QED
    BY <1>1, <1>2, <2>1, <2>2, PositionsArePointers
<1>10. QED
  BY <1>2, <1>4, <1>5, <1>6, <1>7, <1>8, <1>9 DEF ConnectionsInPlace

-----------------------------------------------------------------------------
(* Running a network                                                       *)

(* What a walk through the neurons leaves, if it writes each of them once  *)
(* and reads those before it.                                              *)
Reached(N) == [0 .. N - 1 -> Int]

ReadsBefore(G, N) ==
  \A u, v \in Reached(N), n \in 0 .. N - 1 :
    (\A m \in 0 .. n - 1 : u[m] = v[m]) => G[<<u, n>>] = G[<<v, n>>]

IsRun(R, base, G, K, N) ==
  /\ R \in Reached(N)
  /\ \A m \in 0 .. K : R[m] = base[m]
  /\ \A n \in K + 1 .. N - 1 : R[n] = G[<<R, n>>]

(* If a step reads only what comes before, a run is the only one from      *)
(* where it began.                                                         *)
LEMMA RunsAgree ==
  ASSUME NEW N \in Nat, NEW K \in Nat, K < N, NEW base, NEW G, ReadsBefore(G, N),
         NEW R, IsRun(R, base, G, K, N), NEW Q, IsRun(Q, base, G, K, N)
  PROVE  R = Q
<1> DEFINE T == {n \in 0 .. N : \A m \in 0 .. n - 1 : R[m] = Q[m]}
<1>1. 0 \in T
  OBVIOUS
<1>2. ASSUME NEW n \in 0 .. N - 1, n \in T
      PROVE  n + 1 \in T
  <2>1. \A m \in 0 .. n - 1 : R[m] = Q[m]
    BY <1>2
  <2>2. R[n] = Q[n]
    <3>1. CASE n <= K
      <4>1. n \in 0 .. K
        BY <3>1
      <4>2. QED
        BY <4>1 DEF IsRun
    <3>2. CASE ~(n <= K)
      <4>1. n \in K + 1 .. N - 1
        BY <3>2
      <4>2. R[n] = G[<<R, n>>] /\ Q[n] = G[<<Q, n>>]
        BY <4>1 DEF IsRun
      <4>3. R \in Reached(N) /\ Q \in Reached(N)
        BY DEF IsRun
      <4>4. G[<<R, n>>] = G[<<Q, n>>]
        BY <2>1, <4>3 DEF ReadsBefore
      <4>5. QED
        BY <4>2, <4>4
    <3>3. QED
      BY <3>1, <3>2
  <2>3. \A m \in 0 .. (n + 1) - 1 : m = n \/ m \in 0 .. n - 1
    OBVIOUS
  <2>4. QED
    BY <2>1, <2>2, <2>3
<1> HIDE DEF T
<1>3. \A n \in 0 .. N : n \in T
  BY <1>1, <1>2, CountingUp
<1>4. \A m \in 0 .. N - 1 : R[m] = Q[m]
  BY <1>3 DEF T
<1>5. QED
  BY <1>4 DEF IsRun, Reached

(* The values of the fold with which Values and LinearValuesFrom walk.     *)
Walks(f, base, G, K, M) ==
  f = [s \in SUBSET (1 .. M) |->
         IF s = {} THEN base
         ELSE [f[s \ {Max(s)}] EXCEPT ![K + Max(s)]
                 = G[<<f[s \ {Max(s)}], K + Max(s)>>]]]

(* Running neuron after neuron leads somewhere, whatever a step is, if it  *)
(* gives numbers.                                                          *)
LEMMA WalkExists ==
  ASSUME NEW N \in Nat, NEW K \in Nat, NEW M \in Nat, M = N - K - 1,
         NEW base \in Reached(N),
         NEW G, \A v \in Reached(N), n \in 0 .. N - 1 : G[<<v, n>>] \in Int
  PROVE  \E f \in [SUBSET (1 .. M) -> Reached(N)] : Walks(f, base, G, K, M)
<1> DEFINE V == Reached(N)
           step == [p \in V \X (1 .. M) |-> [p[1] EXCEPT ![K + p[2]] = G[<<p[1], K + p[2]>>]]]
<1>1. \A v \in V, k \in 1 .. M : [v EXCEPT ![K + k] = G[<<v, K + k>>]] \in V
  <2> TAKE v \in V, k \in 1 .. M
  <2>1. K + k \in 0 .. N - 1
    OBVIOUS
  <2>2. G[<<v, K + k>>] \in Int
    BY <2>1
  <2>3. QED
    BY <2>2 DEF Reached
<1>2. step \in [V \X (1 .. M) -> V]
  BY <1>1
<1>3. \A v \in V, k \in 1 .. M : step[<<v, k>>] = [v EXCEPT ![K + k] = G[<<v, K + k>>]]
  OBVIOUS
<1>4. base \in V
  OBVIOUS
<1> HIDE DEF step, V
<1>5. PICK f \in [SUBSET (1 .. M) -> V] : FoldsTo(f, M, base, step)
  BY <1>2, <1>4, FoldExists
<1>6. ASSUME NEW s \in SUBSET (1 .. M), s # {}
      PROVE  step[<<f[s \ {Max(s)}], Max(s)>>]
               = [f[s \ {Max(s)}] EXCEPT ![K + Max(s)]
                    = G[<<f[s \ {Max(s)}], K + Max(s)>>]]
  <2>1. Max(s) \in 1 .. M /\ s \ {Max(s)} \in SUBSET (1 .. M)
    BY <1>6, GreatestNumber
  <2>2. QED
    BY <1>3, <2>1
<1>7. Walks(f, base, G, K, M)
  BY <1>5, <1>6 DEF FoldsTo, Walks
<1>8. QED
  BY <1>5, <1>7 DEF V

GoesOn(f, base, G, K, M, N) ==
  /\ f[1 .. 0] = base
  /\ \A k \in 0 .. M - 1 : f[1 .. k] \in Reached(N) =>
       f[1 .. k + 1] = [f[1 .. k] EXCEPT ![K + (k + 1)] = G[<<f[1 .. k], K + (k + 1)>>]]

(* Where it leads is a run: a value once set is not changed and was        *)
(* computed from final ones.                                               *)
LEMMA WalkIsRun ==
  ASSUME NEW N \in Nat, NEW K \in Nat, K < N, NEW M \in Nat, M = N - K - 1,
         NEW base \in Reached(N),
         NEW G, \A v \in Reached(N), n \in 0 .. N - 1 : G[<<v, n>>] \in Int,
         ReadsBefore(G, N), NEW f, GoesOn(f, base, G, K, M, N)
  PROVE  IsRun(f[1 .. M], base, G, K, N)
<1> DEFINE Done(k) ==
             /\ f[1 .. k] \in Reached(N)
             /\ \A m \in 0 .. K : f[1 .. k][m] = base[m]
             /\ \A n \in K + 1 .. K + k : f[1 .. k][n] = G[<<f[1 .. k], n>>]
           T == {k \in 0 .. M : Done(k)}
<1>1. f[1 .. 0] = base
  BY DEF GoesOn
<1>2. 0 \in T
  <2>1. K + 1 .. K + 0 = {}
    OBVIOUS
  <2>2. Done(0)
    BY <1>1, <2>1
  <2> HIDE DEF Done
  <2>3. QED
    BY <2>2
<1>3. ASSUME NEW k \in 0 .. M - 1, k \in T
      PROVE  k + 1 \in T
  <2> DEFINE u == f[1 .. k]
             v == f[1 .. k + 1]
             n == K + (k + 1)
  <2>1. /\ u \in Reached(N) /\ \A m \in 0 .. K : u[m] = base[m]
        /\ \A m \in K + 1 .. K + k : u[m] = G[<<u, m>>]
    <3>1. Done(k)
      <4> HIDE DEF Done
      <4>1. QED
        BY <1>3
    <3>2. QED
      BY <3>1
  <2>2. v = [u EXCEPT ![n] = G[<<u, n>>]]
    BY <2>1 DEF GoesOn
  <2>3. n \in 0 .. N - 1 /\ n \in Nat /\ n > K /\ n = K + k + 1
    OBVIOUS
  <2> HIDE DEF u, v, n
  <2>4. /\ v \in Reached(N) /\ v[n] = G[<<u, n>>]
        /\ \A m \in 0 .. N - 1 : m # n => v[m] = u[m]
    <3>1. G[<<u, n>>] \in Int
      BY <2>1, <2>3
    <3>2. QED
      BY <2>1, <2>2, <2>3, <3>1 DEF Reached
  <2>5. \A m \in 0 .. K : v[m] = base[m]
    <3> TAKE m \in 0 .. K
    <3>1. m \in 0 .. N - 1 /\ m # n
      BY <2>3
    <3>2. QED
      BY <2>1, <2>4, <3>1
  <2>6. ASSUME NEW m \in K + 1 .. n
        PROVE  v[m] = G[<<v, m>>]
    <3>1. m \in 0 .. N - 1 /\ \A j \in 0 .. m - 1 : j \in 0 .. N - 1 /\ j # n
      BY <2>3
    <3>2. \A j \in 0 .. m - 1 : u[j] = v[j]
      BY <2>4, <3>1
    <3>3. G[<<u, m>>] = G[<<v, m>>]
      BY <2>1, <2>4, <3>1, <3>2 DEF ReadsBefore
    <3>4. CASE m = n
      BY <2>4, <3>3, <3>4
    <3>5. CASE m # n
      <4>1. m \in K + 1 .. K + k
        BY <2>3, <3>5
      <4>2. QED
        BY <2>1, <2>4, <3>1, <3>3, <3>5, <4>1
    <3>6. QED
      BY <3>4, <3>5
  <2>7. Done(k + 1)
    BY <2>4, <2>5, <2>6 DEF v, n
  <2>8. k + 1 \in 0 .. M
    OBVIOUS
  <2> HIDE DEF Done
  <2>9. QED
    BY <2>7, <2>8
<1> HIDE DEF T
<1>4. M \in T
  BY <1>2, <1>3, CountingUp
<1>5. Done(M)
  <2> HIDE DEF Done
  <2>1. QED
    BY <1>4 DEF T
<1>6. K + M = N - 1
  OBVIOUS
<1>7. QED
  BY <1>5, <1>6 DEF IsRun

(* The unrolled loop visits each connection once.                          *)
LEMMA UnrolledVisitsAll ==
  ASSUME NEW num \in Nat
  PROVE  Unrolled(num) = 0 .. num - 1
<1> DEFINE r == num % 4
           q == num \div 4
<1>1. r \in 0 .. 3 /\ q \in Nat /\ num = 4 * q + r
  BY SMT
<1>2. Unrolled(num) = (0 .. r - 1) \cup {r + 4 * group + i : group \in 0 .. q - 1, i \in 0 .. 3}
  BY DEF Unrolled
<1> HIDE DEF r, q
<1>3. ASSUME NEW x \in 0 .. num - 1, x \notin 0 .. r - 1
      PROVE  \E group \in 0 .. q - 1, i \in 0 .. 3 : x = r + 4 * group + i
  <2> DEFINE y == x - r
             g == y \div 4
             i == y % 4
  <2>1. y \in Nat /\ y < 4 * q
    BY <1>1, <1>3
  <2> HIDE DEF y
  <2>2. g \in Nat /\ i \in 0 .. 3 /\ y = 4 * g + i
    BY <2>1
  <2> HIDE DEF g, i
  <2>3. g < q
    BY <1>1, <2>1, <2>2
  <2>4. g \in 0 .. q - 1 /\ x = r + 4 * g + i
    BY <1>1, <2>2, <2>3 DEF y
  <2>5. QED
    BY <2>2, <2>4
<1>4. \A x \in 0 .. r - 1 : x \in 0 .. num - 1
  BY <1>1
<1>5. \A group \in 0 .. q - 1, i \in 0 .. 3 : r + 4 * group + i \in 0 .. num - 1
  BY <1>1
<1>6. QED
  BY <1>2, <1>3, <1>4, <1>5

WeightedSum(w, v, n) == SumFunction([c \in Slots(n) |-> w[c] * v[connections[c]]])

(* There are finitely many connections.                                    *)
LEMMA FiniteSlots ==
  ASSUME ConnectionsInPlace
  PROVE  /\ IsFiniteSet(DOMAIN connections)
         /\ \A n \in Neurons : IsFiniteSet(Slots(n))
<1>1. PICK total \in Nat : DOMAIN connections = 0 .. total - 1
  BY DEF ConnectionsInPlace
<1>2. IsFiniteSet(DOMAIN connections)
  BY <1>1, FS_Interval
<1>3. \A n \in Neurons : Slots(n) \in SUBSET DOMAIN connections
  BY DEF ConnectionsInPlace
<1>4. QED
  BY <1>2, <1>3, FS_Subset

Products(w, v) == [c \in DOMAIN connections |-> w[c] * v[connections[c]]]

(* A weighted sum is the total of integers.                                *)
LEMMA ProductsOfSlots ==
  ASSUME ConnectionsInPlace, NEW w, IntsOn(w, DOMAIN connections),
         NEW v, IntsOn(v, Neurons), NEW n \in Neurons
  PROVE  /\ IntsOn(Products(w, v), Slots(n))
         /\ WeightedSum(w, v, n) = Total(Products(w, v), Slots(n))
         /\ WeightedSum(w, v, n) \in Int
<1>1. \A c \in Slots(n) : c \in DOMAIN connections /\ connections[c] \in Neurons
  BY DEF ConnectionsInPlace
<1>2. \A c \in Slots(n) : /\ Products(w, v)[c] = w[c] * v[connections[c]]
                          /\ w[c] \in Int /\ v[connections[c]] \in Int
  BY <1>1 DEF Products, IntsOn
<1>3. IntsOn(Products(w, v), Slots(n))
  BY <1>2 DEF IntsOn
<1>4. [c \in Slots(n) |-> w[c] * v[connections[c]]]
        = [c \in Slots(n) |-> Products(w, v)[c]]
  BY <1>2
<1>5. WeightedSum(w, v, n) = Total(Products(w, v), Slots(n))
  BY <1>4 DEF WeightedSum, Total
<1>6. Total(Products(w, v), Slots(n)) \in Int
  BY <1>3, FiniteSlots, TotalIsInt
<1>7. QED
  BY <1>3, <1>5, <1>6

(* fann_run adds up by the place in the row of a neuron: the same weighted *)
(* sum as over its slots.                                                  *)
LEMMA SumByIndex ==
  ASSUME ConnectionsInPlace, NEW w, IntsOn(w, DOMAIN connections),
         NEW v, IntsOn(v, Neurons), NEW n \in Neurons
  PROVE  SumFunction([i \in Unrolled(NumConnections(n)) |->
                        w[first_con[n] + i] * v[Source(n, i)]])
           = WeightedSum(w, v, n)
<1> DEFINE a == first_con[n]
           num == NumConnections(n)
           S == 0 .. num - 1
           F == [i \in S |-> w[a + i] * v[Source(n, i)]]
           h == [i \in S |-> a + i]
<1>1. a \in Nat /\ num \in Nat /\ Slots(n) = a .. (a + num) - 1
  <2>1. a \in Nat /\ last_con[n] \in Nat /\ a <= last_con[n]
    BY DEF ConnectionsInPlace
  <2>2. num = last_con[n] - a /\ Slots(n) = a .. last_con[n] - 1
    BY DEF NumConnections, Slots
  <2>3. QED
    BY <2>1, <2>2
<1>2. \A i \in S : Source(n, i) = connections[a + i]
  BY DEF ConnectionsInPlace
<1>3. h \in [S -> Slots(n)] /\ \A i, j \in S : h[i] = h[j] => i = j
  BY <1>1
<1>4. ASSUME NEW c \in Slots(n) PROVE \E i \in S : h[i] = c
  <2>1. c - a \in S /\ h[c - a] = c
    BY <1>1
  <2>2. QED
    BY <2>1
<1>5. \A i \in S : F[i] = Products(w, v)[h[i]]
  <2> TAKE i \in S
  <2>1. a + i \in DOMAIN connections
    BY <1>3 DEF ConnectionsInPlace
  <2>2. QED
    BY <1>2, <2>1 DEF Products
<1>6. IsFiniteSet(S) /\ IsFiniteSet(Slots(n)) /\ IntsOn(Products(w, v), Slots(n))
  BY <1>1, FS_Interval, FiniteSlots, ProductsOfSlots
<1>7. [i \in S |-> F[i]] = [i \in S |-> w[a + i] * v[Source(n, i)]]
  OBVIOUS
<1>8. Unrolled(num) = S
  BY <1>1, UnrolledVisitsAll
<1> HIDE DEF F, h, S
<1>9. Total(F, S) = Total(Products(w, v), Slots(n))
  BY <1>3, <1>4, <1>5, <1>6, TotalRenamed
<1>10. WeightedSum(w, v, n) = Total(F, S)
  BY <1>9, ProductsOfSlots
<1>11. QED
  BY <1>7, <1>8, <1>10 DEF Total

(* The two walks, with the sums of the positions and of the record.        *)
RunStep(w) ==
  [p \in Reached(total_neurons) \X (0 .. total_neurons - 1) |-> NeuronValue(w, p[1], p[2])]

LinearStep(w) ==
  [p \in Reached(total_neurons) \X (0 .. total_neurons - 1) |->
     IF p[2] \in Receivers THEN steepness[p[2]] * WeightedSum(w, p[1], p[2]) ELSE 1]

Steep(n) == steepness[n] \in Nat /\ (n \in Receivers => steepness[n] >= 1)

(* fann_run cuts a sum off at a bound; one within the bound stays as it    *)
(* is.                                                                     *)
LEMMA ClippedSum ==
  ASSUME NEW x \in Int, NEW b \in Nat
  PROVE  /\ Clipped(x, b) \in Int /\ -b <= Clipped(x, b) /\ Clipped(x, b) <= b
         /\ Clipped(x, b) \notin {b, -b} => Clipped(x, b) = x
         /\ -b <= x /\ x <= b => Clipped(x, b) = x
<1>1. Min({b, x}) = IF b <= x THEN b ELSE x
  BY DEF Min
<1> DEFINE y == Min({b, x})
<1>2. y \in Int /\ y <= b /\ (y # b => y = x) /\ (x <= b => y = x)
  <2>1. CASE b <= x
    BY <1>1, <2>1
  <2>2. CASE ~(b <= x)
    BY <1>1, <2>2
  <2>3. QED
    BY <2>1, <2>2
<1> HIDE DEF y
<1> DEFINE z == Max({-b, y})
<1>3. z = IF -b >= y THEN -b ELSE y
  BY <1>2 DEF Max
<1>4. Clipped(x, b) = z
  BY DEF Clipped, y
<1> HIDE DEF z
<1>5. QED
  BY <1>2, <1>3, <1>4

(* What the walks take for granted: the network, integer weights, and a    *)
(* steepness for every neuron that has connections.                        *)
Runs(w) ==
  /\ LayersInARow /\ ConnectionsInPlace
  /\ IntsOn(w, DOMAIN connections) /\ \A n \in Neurons : Steep(n)

(* Connections come from neurons before the one they go into.              *)
LEMMA SourcesComeBefore ==
  ASSUME LayersInARow, ConnectionsInPlace, NEW n \in Neurons, NEW c \in Slots(n)
  PROVE  connections[c] \in 0 .. n - 1 /\ n \in Receivers /\ num_input < n
<1>1. /\ n \in 0 .. total_neurons - 1 /\ total_neurons \in Nat
      /\ LayerOf(layers, n) \in 1 .. num_layers
      /\ n \in layers[LayerOf(layers, n)].first .. layers[LayerOf(layers, n)].last - 1
  BY DEF LayersInARow, NeuronsIn
<1>2. layers[LayerOf(layers, n)].first \in Nat
  BY <1>1 DEF LayersInARow
<1>3. /\ connections[c] \in 0 .. total_neurons - 1
      /\ connections[c] < layers[LayerOf(layers, n)].first
  BY <1>1 DEF ConnectionsInPlace, LayerStart, LayersInARow
<1>4. first_con[n] \in Nat /\ last_con[n] \in Nat /\ first_con[n] < last_con[n]
  BY DEF ConnectionsInPlace, Slots
<1>5. NumConnections(n) # 0
  BY <1>4 DEF NumConnections
<1>6. num_input < n
  <2>1. n \notin 0 .. num_input
    BY <1>5 DEF ConnectionsInPlace
  <2>2. num_input \in Nat
    BY DEF LayersInARow
  <2>3. QED
    BY <1>1, <2>1, <2>2
<1>7. n \in Receivers
  BY <1>4 DEF Receivers, Neurons
<1>8. connections[c] \in 0 .. n - 1
  <2> DEFINE f == layers[LayerOf(layers, n)].first
  <2>1. f \in Nat /\ f <= n /\ connections[c] \in Nat /\ connections[c] < f /\ n \in Nat
    BY <1>1, <1>2, <1>3
  <2> HIDE DEF f
  <2>2. QED
    BY <2>1
<1>9. QED
  BY <1>6, <1>7, <1>8

(* So a weighted sum depends on the values of neurons before.              *)
LEMMA SumReadsBefore ==
  ASSUME NEW w, Runs(w), NEW u, NEW v, NEW n \in Neurons,
         \A m \in 0 .. n - 1 : u[m] = v[m]
  PROVE  WeightedSum(w, u, n) = WeightedSum(w, v, n)
<1>1. \A c \in Slots(n) : u[connections[c]] = v[connections[c]]
  BY SourcesComeBefore DEF Runs
<1>2. [c \in Slots(n) |-> w[c] * u[connections[c]]]
        = [c \in Slots(n) |-> w[c] * v[connections[c]]]
  BY <1>1
<1>3. QED
  BY <1>2 DEF WeightedSum

(* What fann_run makes of one neuron: its weighted sum, cut off.           *)
LEMMA ValueOfNeuron ==
  ASSUME NEW w, Runs(w), NEW v \in Reached(total_neurons), NEW n \in Neurons
  PROVE  /\ n \notin Receivers => NeuronValue(w, v, n) = 1
         /\ n \in Receivers =>
              /\ NeuronValue(w, v, n)
                   = Clipped(steepness[n] * WeightedSum(w, v, n), 150 \div steepness[n])
              /\ steepness[n] * WeightedSum(w, v, n) \in Int
              /\ steepness[n] \in Nat /\ 150 \div steepness[n] \in Nat
<1>1. /\ first_con[n] \in Nat /\ last_con[n] \in Nat /\ first_con[n] <= last_con[n]
      /\ n \in DOMAIN first_con
  BY DEF Runs, ConnectionsInPlace, Neurons
<1>2. n \in Receivers <=> NumConnections(n) # 0
  BY <1>1 DEF Receivers, NumConnections
<1>3. IntsOn(v, Neurons)
  BY DEF Reached, IntsOn, Runs, LayersInARow
<1>4. /\ SumFunction([i \in Unrolled(NumConnections(n)) |->
                        w[first_con[n] + i] * v[Source(n, i)]]) = WeightedSum(w, v, n)
      /\ WeightedSum(w, v, n) \in Int
  BY <1>3, SumByIndex, ProductsOfSlots DEF Runs
<1>5. CASE n \in Receivers
  <2>1. steepness[n] \in Nat /\ steepness[n] >= 1
    BY <1>5 DEF Runs, Steep
  <2>2. \A s \in Nat : s >= 1 => 150 \div s \in Nat
    BY SMT
  <2>3. \A s \in Nat, x \in Int : s * x \in Int
    BY SMT
  <2>4. QED
    BY <1>2, <1>4, <1>5, <2>1, <2>2, <2>3 DEF NeuronValue
<1>6. CASE n \notin Receivers
  BY <1>2, <1>6 DEF NeuronValue
<1>7. QED
  BY <1>5, <1>6

(* A step of fann_run reads only values before and gives a number,         *)
LEMMA RunStepIsGood ==
  ASSUME NEW w, Runs(w)
  PROVE  /\ \A v \in Reached(total_neurons), n \in 0 .. total_neurons - 1 :
              RunStep(w)[<<v, n>>] = NeuronValue(w, v, n) /\ RunStep(w)[<<v, n>>] \in Int
         /\ ReadsBefore(RunStep(w), total_neurons)
<1> DEFINE N == total_neurons
           G == RunStep(w)
<1>1. \A v \in Reached(N), n \in 0 .. N - 1 : G[<<v, n>>] = NeuronValue(w, v, n)
  BY DEF RunStep
<1>2. Neurons = 0 .. N - 1
  BY DEF Runs, LayersInARow
<1> HIDE DEF G, N
<1>3. ASSUME NEW v \in Reached(N), NEW n \in 0 .. N - 1
      PROVE  NeuronValue(w, v, n) \in Int
  <2>1. CASE n \in Receivers
    <3>1. /\ NeuronValue(w, v, n)
              = Clipped(steepness[n] * WeightedSum(w, v, n), 150 \div steepness[n])
          /\ steepness[n] * WeightedSum(w, v, n) \in Int
          /\ 150 \div steepness[n] \in Nat
      BY <1>2, <2>1, ValueOfNeuron DEF N
    <3> DEFINE x == steepness[n] * WeightedSum(w, v, n)
               b == 150 \div steepness[n]
    <3>2. x \in Int /\ b \in Nat /\ NeuronValue(w, v, n) = Clipped(x, b)
      BY <3>1
    <3> HIDE DEF x, b
    <3>3. Clipped(x, b) \in Int
      BY <3>2, ClippedSum
    <3>4. QED
      BY <3>2, <3>3
  <2>2. CASE n \notin Receivers
    BY <1>2, <2>2, ValueOfNeuron DEF N
  <2>3. QED
    BY <2>1, <2>2
<1>4. ASSUME NEW u \in Reached(N), NEW v \in Reached(N), NEW n \in 0 .. N - 1,
             \A m \in 0 .. n - 1 : u[m] = v[m]
      PROVE  NeuronValue(w, u, n) = NeuronValue(w, v, n)
  <2>1. WeightedSum(w, u, n) = WeightedSum(w, v, n)
    BY <1>2, <1>4, SumReadsBefore
  <2>2. CASE n \in Receivers
    BY <1>2, <2>1, <2>2, ValueOfNeuron DEF N
  <2>3. CASE n \notin Receivers
    BY <1>2, <2>3, ValueOfNeuron DEF N
  <2>4. QED
    BY <2>2, <2>3
<1>5. ReadsBefore(G, N)
  BY <1>1, <1>4 DEF ReadsBefore
<1>6. QED
  BY <1>1, <1>3, <1>5 DEF G, N

(* and so does one that cuts nothing off.                                  *)
LEMMA LinearStepIsGood ==
  ASSUME NEW w, Runs(w)
  PROVE  /\ \A v \in Reached(total_neurons), n \in 0 .. total_neurons - 1 :
              /\ LinearStep(w)[<<v, n>>]
                   = IF n \in Receivers THEN steepness[n] * WeightedSum(w, v, n) ELSE 1
              /\ LinearStep(w)[<<v, n>>] \in Int
         /\ ReadsBefore(LinearStep(w), total_neurons)
<1> DEFINE N == total_neurons
           G == LinearStep(w)
<1>1. \A v \in Reached(N), n \in 0 .. N - 1 :
        G[<<v, n>>] = IF n \in Receivers THEN steepness[n] * WeightedSum(w, v, n) ELSE 1
  BY DEF LinearStep
<1>2. Neurons = 0 .. N - 1
  BY DEF Runs, LayersInARow
<1> HIDE DEF G, N
<1>3. ASSUME NEW v \in Reached(N), NEW n \in 0 .. N - 1
      PROVE  G[<<v, n>>] \in Int
  <2>1. n \in Receivers => steepness[n] * WeightedSum(w, v, n) \in Int
    BY <1>2, ValueOfNeuron DEF N
  <2>2. QED
    BY <1>1, <2>1
<1>4. ASSUME NEW u \in Reached(N), NEW v \in Reached(N), NEW n \in 0 .. N - 1,
             \A m \in 0 .. n - 1 : u[m] = v[m]
      PROVE  G[<<u, n>>] = G[<<v, n>>]
  <2>1. WeightedSum(w, u, n) = WeightedSum(w, v, n)
    BY <1>2, <1>4, SumReadsBefore
  <2>2. QED
    BY <1>1, <2>1
<1>5. ReadsBefore(G, N)
  BY <1>4 DEF ReadsBefore
<1>6. QED
  BY <1>1, <1>3, <1>5 DEF G, N

(* What is entered: numbers for the inputs, a 1 for the bias.              *)
LEMMA EnteredIsReached ==
  ASSUME LayersInARow, NEW input, \A i \in 0 .. num_input - 1 : input[i] \in Int
  PROVE  /\ Entered(input) \in Reached(total_neurons)
         /\ \A i \in 0 .. num_input - 1 : Entered(input)[i] = input[i]
         /\ Entered(input)[num_input] = 1
<1>1. /\ Neurons = 0 .. total_neurons - 1 /\ num_input \in Nat
      /\ num_input < total_neurons /\ total_neurons \in Nat
  BY DEF LayersInARow
<1> DEFINE e == [n \in Neurons |-> IF n < num_input THEN input[n] ELSE 1]
<1>2. Entered(input) = e
  BY DEF Entered
<1>3. \A n \in Neurons : (IF n < num_input THEN input[n] ELSE 1) \in Int
  <2> TAKE n \in Neurons
  <2>1. n < num_input => n \in 0 .. num_input - 1
    BY <1>1
  <2>2. QED
    BY <2>1
<1>4. e \in Reached(total_neurons)
  BY <1>1, <1>3 DEF Reached
<1>5. \A i \in 0 .. num_input - 1 : i \in Neurons /\ i < num_input
  BY <1>1
<1>6. num_input \in Neurons /\ ~(num_input < num_input)
  BY <1>1
<1>7. QED
  BY <1>2, <1>4, <1>5, <1>6

(* The loops of fann_run visit the neurons behind the first layer in the   *)
(* order they lie in.                                                      *)
LEMMA WalkOrder ==
  ASSUME LayersInARow
  PROVE  /\ total_neurons \in Nat /\ num_input \in Nat /\ num_input < total_neurons
         /\ total_neurons - num_input - 1 \in Nat
         /\ DOMAIN Computed = 1 .. total_neurons - num_input - 1
         /\ \A k \in 1 .. total_neurons - num_input - 1 : Computed[k] = num_input + k
  BY DEF LayersInARow, Computed

(* What fann_run leaves in the neurons is a run of its steps,              *)
LEMMA ValuesAreRun ==
  ASSUME NEW w, Runs(w), NEW input, Entered(input) \in Reached(total_neurons)
  PROVE  IsRun(Values(w, input), Entered(input), RunStep(w), num_input, total_neurons)
<1> DEFINE N == total_neurons
           K == num_input
           M == N - K - 1
           base == Entered(input)
           G == RunStep(w)
           q == Computed
           Folds(f) ==
             f = [s \in SUBSET (1 .. M) |->
                    IF s = {} THEN base
                    ELSE [f[s \ {Max(s)}] EXCEPT ![q[Max(s)]]
                            = NeuronValue(w, f[s \ {Max(s)}], q[Max(s)])]]
<1>1. N \in Nat /\ K \in Nat /\ K < N /\ M \in Nat /\ DOMAIN q = 1 .. M
      /\ \A k \in 1 .. M : q[k] = K + k
  BY WalkOrder DEF Runs
<1>2. Values(w, input) = (CHOOSE f : Folds(f))[1 .. M]
  BY <1>1 DEF Values, FoldLeft, MapThenFoldSet
<1>3. /\ \A v \in Reached(N), n \in 0 .. N - 1 :
           G[<<v, n>>] = NeuronValue(w, v, n) /\ G[<<v, n>>] \in Int
      /\ ReadsBefore(G, N)
  BY RunStepIsGood
<1>4. base \in Reached(N) /\ M = N - K - 1
  OBVIOUS
<1> HIDE DEF N, K, M, base, G, q
<1>5. PICK g \in [SUBSET (1 .. M) -> Reached(N)] : Walks(g, base, G, K, M)
  BY <1>1, <1>3, <1>4, WalkExists
<1>7. Folds(g)
  <2>2. ASSUME NEW s \in SUBSET (1 .. M), s # {}
        PROVE  /\ q[Max(s)] = K + Max(s)
               /\ NeuronValue(w, g[s \ {Max(s)}], q[Max(s)])
                    = G[<<g[s \ {Max(s)}], K + Max(s)>>]
    <3>1. Max(s) \in 1 .. M /\ s \ {Max(s)} \in SUBSET (1 .. M)
      BY <1>1, <2>2, GreatestNumber
    <3>2. K + Max(s) \in 0 .. N - 1 /\ q[Max(s)] = K + Max(s)
      BY <1>1, <1>4, <3>1
    <3>3. g[s \ {Max(s)}] \in Reached(N)
      BY <1>5, <3>1
    <3>4. QED
      BY <1>3, <3>2, <3>3
  <2>3. QED
    BY <1>5, <2>2 DEF Walks
<1> DEFINE f == CHOOSE f : Folds(f)
<1>8. Folds(f)
  BY <1>7
<1> HIDE DEF f
<1>9. GoesOn(f, base, G, K, M, N)
  <2>1. f[1 .. 0] = base
    <3>1. 1 .. 0 = {} /\ 1 .. 0 \in SUBSET (1 .. M)
      OBVIOUS
    <3>2. QED
      BY <1>8, <3>1
  <2>2. ASSUME NEW k \in 0 .. M - 1, f[1 .. k] \in Reached(N)
        PROVE  f[1 .. k + 1]
                 = [f[1 .. k] EXCEPT ![K + (k + 1)] = G[<<f[1 .. k], K + (k + 1)>>]]
    <3> DEFINE s == 1 .. k + 1
    <3>1. /\ s \in SUBSET (1 .. M) /\ s # {} /\ Max(s) = k + 1
          /\ s \ {Max(s)} = 1 .. k
      BY <1>1, UpToNext
    <3> HIDE DEF s
    <3>2. f[s] = [f[1 .. k] EXCEPT ![q[k + 1]] = NeuronValue(w, f[1 .. k], q[k + 1])]
      BY <1>8, <3>1
    <3>3. k + 1 \in 1 .. M /\ K + (k + 1) \in 0 .. N - 1
      BY <1>1, <1>4
    <3>4. q[k + 1] = K + (k + 1)
      BY <1>1, <3>3
    <3>5. NeuronValue(w, f[1 .. k], K + (k + 1)) = G[<<f[1 .. k], K + (k + 1)>>]
      BY <1>3, <2>2, <3>3
    <3>6. QED
      BY <3>2, <3>4, <3>5 DEF s
  <2>3. QED
    BY <2>1, <2>2 DEF GoesOn
<1>10. IsRun(f[1 .. M], base, G, K, N)
  BY <1>1, <1>3, <1>4, <1>9, WalkIsRun
<1>11. QED
  BY <1>2, <1>10 DEF N, K, base, G, f

(* and what it would leave without cutting off one of the others.          *)
LEMMA LinearIsRun ==
  ASSUME NEW w, Runs(w), NEW input, Entered(input) \in Reached(total_neurons)
  PROVE  IsRun(LinearValuesFrom(w, input), Entered(input), LinearStep(w), num_input, total_neurons)
<1> DEFINE N == total_neurons
           K == num_input
           M == N - K - 1
           base == Entered(input)
           G == LinearStep(w)
           q == Computed
           Linear(v, n) == IF n \in Receivers THEN steepness[n] * WeightedSum(w, v, n) ELSE 1
           Folds(f) ==
             f = [s \in SUBSET (1 .. M) |->
                    IF s = {} THEN base
                    ELSE [f[s \ {Max(s)}] EXCEPT ![q[Max(s)]]
                            = Linear(f[s \ {Max(s)}], q[Max(s)])]]
<1>1. N \in Nat /\ K \in Nat /\ K < N /\ M \in Nat /\ DOMAIN q = 1 .. M
      /\ \A k \in 1 .. M : q[k] = K + k
  BY WalkOrder DEF Runs
<1>2. LinearValuesFrom(w, input) = (CHOOSE f : Folds(f))[1 .. M]
  BY <1>1 DEF LinearValuesFrom, WeightedSum, FoldLeft, MapThenFoldSet
<1>3. /\ \A v \in Reached(N), n \in 0 .. N - 1 :
           G[<<v, n>>] = Linear(v, n) /\ G[<<v, n>>] \in Int
      /\ ReadsBefore(G, N)
  BY LinearStepIsGood
<1>4. base \in Reached(N) /\ M = N - K - 1
  OBVIOUS
<1> HIDE DEF N, K, M, base, G, q, Linear
<1>5. PICK g \in [SUBSET (1 .. M) -> Reached(N)] : Walks(g, base, G, K, M)
  BY <1>1, <1>3, <1>4, WalkExists
<1>7. Folds(g)
  <2>2. ASSUME NEW s \in SUBSET (1 .. M), s # {}
        PROVE  /\ q[Max(s)] = K + Max(s)
               /\ Linear(g[s \ {Max(s)}], q[Max(s)])
                    = G[<<g[s \ {Max(s)}], K + Max(s)>>]
    <3>1. Max(s) \in 1 .. M /\ s \ {Max(s)} \in SUBSET (1 .. M)
      BY <1>1, <2>2, GreatestNumber
    <3>2. K + Max(s) \in 0 .. N - 1 /\ q[Max(s)] = K + Max(s)
      BY <1>1, <1>4, <3>1
    <3>3. g[s \ {Max(s)}] \in Reached(N)
      BY <1>5, <3>1
    <3>4. QED
      BY <1>3, <3>2, <3>3
  <2>3. QED
    BY <1>5, <2>2 DEF Walks
<1> DEFINE f == CHOOSE f : Folds(f)
<1>8. Folds(f)
  BY <1>7
<1> HIDE DEF f
<1>9. GoesOn(f, base, G, K, M, N)
  <2>1. f[1 .. 0] = base
    <3>1. 1 .. 0 = {} /\ 1 .. 0 \in SUBSET (1 .. M)
      OBVIOUS
    <3>2. QED
      BY <1>8, <3>1
  <2>2. ASSUME NEW k \in 0 .. M - 1, f[1 .. k] \in Reached(N)
        PROVE  f[1 .. k + 1]
                 = [f[1 .. k] EXCEPT ![K + (k + 1)] = G[<<f[1 .. k], K + (k + 1)>>]]
    <3> DEFINE s == 1 .. k + 1
    <3>1. /\ s \in SUBSET (1 .. M) /\ s # {} /\ Max(s) = k + 1
          /\ s \ {Max(s)} = 1 .. k
      BY <1>1, UpToNext
    <3> HIDE DEF s
    <3>2. f[s] = [f[1 .. k] EXCEPT ![q[k + 1]] = Linear(f[1 .. k], q[k + 1])]
      BY <1>8, <3>1
    <3>3. k + 1 \in 1 .. M /\ K + (k + 1) \in 0 .. N - 1
      BY <1>1, <1>4
    <3>4. q[k + 1] = K + (k + 1)
      BY <1>1, <3>3
    <3>5. Linear(f[1 .. k], K + (k + 1)) = G[<<f[1 .. k], K + (k + 1)>>]
      BY <1>3, <2>2, <3>3
    <3>6. QED
      BY <3>2, <3>4, <3>5 DEF s
  <2>3. QED
    BY <2>1, <2>2 DEF GoesOn
<1>10. IsRun(f[1 .. M], base, G, K, N)
  BY <1>1, <1>3, <1>4, <1>9, WalkIsRun
<1>11. QED
  BY <1>2, <1>10 DEF N, K, base, G, f

(* Running a network gives the sums over the record, if none is cut off.   *)
LEMMA RunIsLinear ==
  ASSUME NEW w, Runs(w), NEW input, \A i \in 0 .. num_input - 1 : input[i] \in Int,
         value = Values(w, input), Unclipped
  PROVE  value = LinearValues(w)
<1> DEFINE N == total_neurons
           K == num_input
           base == Entered(input)
<1>1. N \in Nat /\ K \in Nat /\ K < N /\ Neurons = 0 .. N - 1
  BY WalkOrder DEF Runs, LayersInARow
<1>2. base \in Reached(N) /\ base[K] = 1
  BY EnteredIsReached DEF Runs
<1>3. IsRun(value, base, RunStep(w), K, N)
  BY <1>2, ValuesAreRun
<1>4. value \in Reached(N) /\ \A m \in 0 .. K : value[m] = base[m]
  BY <1>3 DEF IsRun
<1>5. \A i \in 0 .. K - 1 : value[i] \in Int
  BY <1>1, <1>4 DEF Reached
<1>6. /\ Entered(value) \in Reached(N)
      /\ \A i \in 0 .. K - 1 : Entered(value)[i] = value[i]
      /\ Entered(value)[K] = 1
  BY <1>5, EnteredIsReached DEF Runs
<1>7. \A m \in 0 .. K : value[m] = Entered(value)[m]
  <2> TAKE m \in 0 .. K
  <2>1. K \in 0 .. K
    BY <1>1
  <2>2. CASE m = K
    BY <1>2, <1>4, <1>6, <2>1, <2>2
  <2>3. CASE m # K
    <3>1. m \in 0 .. K - 1
      BY <1>1, <2>3
    <3>2. QED
      BY <1>6, <3>1
  <2>4. QED
    BY <2>2, <2>3
<1>8. ASSUME NEW n \in K + 1 .. N - 1
      PROVE  value[n] = LinearStep(w)[<<value, n>>]
  <2>1. n \in 0 .. N - 1 /\ n \in Neurons
    BY <1>1
  <2>2. value[n] = NeuronValue(w, value, n)
    <3>1. value[n] = RunStep(w)[<<value, n>>]
      BY <1>3 DEF IsRun
    <3>2. QED
      BY <1>4, <2>1, <3>1, RunStepIsGood
  <2>3. LinearStep(w)[<<value, n>>]
          = IF n \in Receivers THEN steepness[n] * WeightedSum(w, value, n) ELSE 1
    BY <1>4, <2>1, LinearStepIsGood
  <2>4. CASE n \in Receivers
    <3> DEFINE x == steepness[n] * WeightedSum(w, value, n)
               b == 150 \div steepness[n]
    <3>1. value[n] = Clipped(x, b) /\ x \in Int /\ b \in Nat
      BY <1>4, <2>1, <2>2, <2>4, ValueOfNeuron
    <3>2. value[n] \notin {b, -b}
      BY <2>4 DEF Unclipped
    <3>3. LinearStep(w)[<<value, n>>] = x
      BY <2>3, <2>4
    <3> HIDE DEF x, b
    <3>4. Clipped(x, b) = x
      BY <3>1, <3>2, ClippedSum
    <3>5. QED
      BY <3>1, <3>3, <3>4
  <2>5. CASE n \notin Receivers
    BY <1>4, <2>1, <2>2, <2>3, <2>5, ValueOfNeuron
  <2>6. QED
    BY <2>4, <2>5
<1>9. IsRun(value, Entered(value), LinearStep(w), K, N)
  BY <1>4, <1>7, <1>8 DEF IsRun
<1>10. IsRun(LinearValuesFrom(w, value), Entered(value), LinearStep(w), K, N)
  BY <1>6, LinearIsRun
<1>11. ReadsBefore(LinearStep(w), N)
  BY LinearStepIsGood
<1> HIDE DEF N, K, base
<1>12. value = LinearValuesFrom(w, value)
  BY <1>1, <1>9, <1>10, <1>11, RunsAgree
<1>13. QED
  BY <1>12 DEF LinearValues

-----------------------------------------------------------------------------
(* Derivatives                                                             *)

(* Values that fit the weights.                                            *)
Solves(v, w) ==
  /\ v \in Reached(total_neurons)
  /\ \A n \in Receivers : v[n] = steepness[n] * WeightedSum(w, v, n)

(* Without cutting off, every value is its weighted sum over final values. *)
LEMMA LinearSolves ==
  ASSUME NEW w, Runs(w), NEW input, \A i \in 0 .. num_input - 1 : input[i] \in Int
  PROVE  /\ Solves(LinearValuesFrom(w, input), w)
         /\ \A n \in Neurons : n \notin Receivers =>
              LinearValuesFrom(w, input)[n] = IF n < num_input THEN input[n] ELSE 1
<1> DEFINE N == total_neurons
           K == num_input
           v == LinearValuesFrom(w, input)
<1>1. N \in Nat /\ K \in Nat /\ K < N /\ Neurons = 0 .. N - 1
  BY WalkOrder DEF Runs, LayersInARow
<1>2. /\ Entered(input) \in Reached(N)
      /\ \A i \in 0 .. K - 1 : Entered(input)[i] = input[i]
      /\ Entered(input)[K] = 1
  BY EnteredIsReached DEF Runs
<1>3. IsRun(v, Entered(input), LinearStep(w), K, N)
  BY <1>2, LinearIsRun
<1>4. /\ v \in Reached(N) /\ \A m \in 0 .. K : v[m] = Entered(input)[m]
      /\ \A n \in K + 1 .. N - 1 : v[n] = LinearStep(w)[<<v, n>>]
  BY <1>3 DEF IsRun
<1>5. \A n \in K + 1 .. N - 1 :
        v[n] = IF n \in Receivers THEN steepness[n] * WeightedSum(w, v, n) ELSE 1
  <2> TAKE n \in K + 1 .. N - 1
  <2>1. n \in 0 .. N - 1
    BY <1>1
  <2>2. LinearStep(w)[<<v, n>>]
          = IF n \in Receivers THEN steepness[n] * WeightedSum(w, v, n) ELSE 1
    BY <1>4, <2>1, LinearStepIsGood
  <2>3. QED
    BY <1>4, <2>2
<1> HIDE DEF v
<1>6. \A n \in Receivers : n \in K + 1 .. N - 1
  <2> TAKE n \in Receivers
  <2>1. n \in Neurons /\ first_con[n] < last_con[n]
    BY DEF Receivers, Neurons
  <2>2. first_con[n] \in Slots(n)
    BY <2>1 DEF Slots, Runs, ConnectionsInPlace
  <2>3. K < n
    BY <2>1, <2>2, SourcesComeBefore DEF Runs
  <2>4. QED
    BY <1>1, <2>1, <2>3
<1>7. Solves(v, w)
  BY <1>4, <1>5, <1>6 DEF Solves
<1>8. ASSUME NEW n \in Neurons, n \notin Receivers
      PROVE  v[n] = IF n < K THEN input[n] ELSE 1
  <2>1. CASE n < K
    <3>1. n \in 0 .. K - 1 /\ n \in 0 .. K
      BY <1>1, <2>1
    <3>2. QED
      BY <1>2, <1>4, <2>1, <3>1
  <2>2. CASE n = K
    <3>1. n \in 0 .. K /\ ~(n < K)
      BY <1>1, <2>2
    <3>2. QED
      BY <1>2, <1>4, <2>2, <3>1
  <2>3. CASE n > K
    <3>1. n \in K + 1 .. N - 1 /\ ~(n < K)
      BY <1>1, <2>3
    <3>2. QED
      BY <1>5, <1>8, <3>1
  <2>4. QED
    BY <1>1, <2>1, <2>2, <2>3
<1>9. QED
  BY <1>7, <1>8 DEF v

ReceiverFacts(n) == n \in Neurons /\ steepness[n] \in Nat /\ IsFiniteSet(Slots(n))

(* What is known of a neuron that receives.                                *)
LEMMA ReceiversAre ==
  ASSUME NEW w, Runs(w), NEW n \in Receivers
  PROVE  ReceiverFacts(n)
<1>1. n \in Neurons
  BY DEF Receivers, Neurons
<1>2. QED
  BY <1>1, FiniteSlots DEF ReceiverFacts, Runs, Steep

(* What one more on connection c does to the values.                       *)
Spike(c, x) == [n \in Neurons |-> IF n = Destination(c) THEN x ELSE 0]

(* Moving one weight moves the sum it is in.                               *)
LEMMA SpikeAdds ==
  ASSUME NEW w, Runs(w), NEW c \in DOMAIN connections, NEW a \in Int,
         NEW wa, \A d \in DOMAIN connections : wa[d] = IF d = c THEN w[d] + a ELSE w[d],
         NEW u \in Reached(total_neurons), NEW n \in Neurons
  PROVE  WeightedSum(wa, u, n)
           = WeightedSum(w, u, n) + Spike(c, a * u[connections[c]])[n]
<1> DEFINE P == Products(w, u)
           Q == Products(wa, u)
           x == a * u[connections[c]]
           S == [d \in DOMAIN connections |-> IF d = c THEN x ELSE 0]
<1>1. LayersInARow /\ ConnectionsInPlace /\ IntsOn(w, DOMAIN connections)
  BY DEF Runs
<1>2. IntsOn(wa, DOMAIN connections)
  <2>1. \A d \in DOMAIN connections : w[d] \in Int /\ w[d] + a \in Int
    BY <1>1 DEF IntsOn
  <2>2. QED
    BY <2>1 DEF IntsOn
<1>3. IntsOn(u, Neurons)
  BY <1>1 DEF Reached, IntsOn, LayersInARow
<1>4. /\ IntsOn(P, Slots(n)) /\ WeightedSum(w, u, n) = Total(P, Slots(n))
      /\ WeightedSum(wa, u, n) = Total(Q, Slots(n))
      /\ IsFiniteSet(Slots(n)) /\ Slots(n) \subseteq DOMAIN connections
  BY <1>1, <1>2, <1>3, ProductsOfSlots, FiniteSlots DEF ConnectionsInPlace
<1>5. \A d \in Slots(n) : connections[d] \in Neurons
  BY <1>1 DEF ConnectionsInPlace
<1>6. connections[c] \in Neurons
  BY <1>1 DEF ConnectionsInPlace
<1>7. x \in Int
  <2>1. u[connections[c]] \in Int
    BY <1>3, <1>6 DEF IntsOn
  <2>2. QED
    BY <2>1
<1>8. \A d \in Slots(n) : Q[d] = P[d] + S[d]
  <2> TAKE d \in Slots(n)
  <2>1. d \in DOMAIN connections /\ w[d] \in Int /\ u[connections[d]] \in Int
    BY <1>1, <1>3, <1>4, <1>5 DEF IntsOn
  <2>2. Q[d] = wa[d] * u[connections[d]] /\ P[d] = w[d] * u[connections[d]]
    BY <2>1 DEF Products
  <2>3. CASE d = c
    <3>1. Q[d] = (w[d] + a) * u[connections[d]] /\ S[d] = a * u[connections[d]]
      BY <2>1, <2>2, <2>3
    <3>2. \A p, q \in Int : (p + a) * q = p * q + a * q
      BY SMT
    <3>3. QED
      BY <2>1, <2>2, <3>1, <3>2
  <2>4. CASE d # c
    <3>1. Q[d] = P[d] /\ S[d] = 0 /\ P[d] \in Int
      BY <2>1, <2>2, <2>4
    <3>2. QED
      BY <3>1
  <2>5. QED
    BY <2>3, <2>4
<1>9. IntsOn(S, Slots(n)) /\ \A d \in Slots(n) : S[d] = IF d = c THEN x ELSE 0
  BY <1>4, <1>7 DEF IntsOn
<1> HIDE DEF P, Q, S, x
<1>10. Total(Q, Slots(n)) = Total(P, Slots(n)) + Total(S, Slots(n))
  BY <1>4, <1>8, <1>9, TotalsAdd
<1>11. Total(S, Slots(n)) = Spike(c, x)[n]
  <2>1. Spike(c, x)[n] = IF n = Destination(c) THEN x ELSE 0
    BY DEF Spike
  <2>2. c \in Slots(n) <=> n = Destination(c)
    BY <1>1 DEF ConnectionsInPlace
  <2>3. CASE c \in Slots(n)
    <3>1. S[c] = x /\ \A d \in Slots(n) : d # c => S[d] = 0
      BY <1>9, <2>3
    <3>2. Total(S, Slots(n)) = S[c]
      BY <1>4, <1>7, <2>3, <3>1, TotalOfOne
    <3>3. QED
      BY <2>1, <2>2, <2>3, <3>1, <3>2
  <2>4. CASE c \notin Slots(n)
    <3>1. \A d \in Slots(n) : S[d] = 0
      BY <1>9, <2>4
    <3>2. Total(S, Slots(n)) = 0
      BY <1>4, <3>1, TotalOfZeros
    <3>3. QED
      BY <2>1, <2>2, <2>4, <3>2
  <2>5. QED
    BY <2>3, <2>4
<1>12. QED
  BY <1>4, <1>10, <1>11 DEF x

(* Nothing changes before the neuron of the connection.                    *)
LEMMA SameBefore ==
  ASSUME NEW w, Runs(w), NEW c \in DOMAIN connections, NEW a \in Int,
         NEW wa, \A d \in DOMAIN connections : wa[d] = IF d = c THEN w[d] + a ELSE w[d],
         NEW v, Solves(v, w), NEW u, Solves(u, wa),
         \A n \in Neurons : n \notin Receivers => u[n] = v[n]
  PROVE  \A m \in 0 .. Destination(c) - 1 : u[m] = v[m]
<1> DEFINE d == Destination(c)
           T == {n \in 0 .. d : \A m \in 0 .. n - 1 : u[m] = v[m]}
<1>1. d \in Neurons /\ Neurons = 0 .. total_neurons - 1 /\ total_neurons \in Nat
      /\ d \in Nat
  BY DEF Runs, LayersInARow, ConnectionsInPlace
<1>2. 0 \in T
  BY <1>1
<1>3. ASSUME NEW n \in 0 .. d - 1, n \in T
      PROVE  n + 1 \in T
  <2>1. n \in Neurons /\ n # d /\ n \in Nat
    BY <1>1
  <2>2. \A m \in 0 .. n - 1 : u[m] = v[m]
    BY <1>3
  <2>3. u[n] = v[n]
    <3>1. CASE n \in Receivers
      <4>1. u \in Reached(total_neurons) /\ u[n] = steepness[n] * WeightedSum(wa, u, n)
            /\ v[n] = steepness[n] * WeightedSum(w, v, n)
        BY <3>1 DEF Solves
      <4>2. \A e \in Slots(n) : e \in DOMAIN connections /\ e # c
        BY <2>1 DEF Runs, ConnectionsInPlace
      <4>3. \A e \in Slots(n) : wa[e] = w[e]
        BY <4>2
      <4>4. [e \in Slots(n) |-> wa[e] * u[connections[e]]]
              = [e \in Slots(n) |-> w[e] * u[connections[e]]]
        BY <4>3
      <4>5. WeightedSum(wa, u, n) = WeightedSum(w, u, n)
        BY <4>4 DEF WeightedSum
      <4>6. WeightedSum(w, u, n) = WeightedSum(w, v, n)
        BY <2>1, <2>2, SumReadsBefore
      <4>7. QED
        BY <4>1, <4>5, <4>6
    <3>2. CASE n \notin Receivers
      BY <2>1, <3>2
    <3>3. QED
      BY <3>1, <3>2
  <2>4. \A m \in 0 .. (n + 1) - 1 : m = n \/ m \in 0 .. n - 1
    BY <2>1
  <2>5. n + 1 \in 0 .. d
    BY <1>1
  <2>6. QED
    BY <2>2, <2>3, <2>4, <2>5
<1> HIDE DEF T
<1>4. d \in T
  BY <1>1, <1>2, <1>3, CountingUp
<1>5. QED
  BY <1>4 DEF T

Change(u, v) == [n \in Neurons |-> u[n] - v[n]]

(* A change is handed on by the weights, and begins at the connection.     *)
HandsOn(D, w, S) ==
  /\ D \in [Neurons -> Int] /\ S \in [Neurons -> Int]
  /\ \A n \in Neurons : n \notin Receivers => D[n] = 0 /\ S[n] = 0
  /\ \A n \in Receivers : D[n] = steepness[n] * (WeightedSum(w, D, n) + S[n])

(* So the change in the values is handed forward from there by the         *)
(* weights.                                                                *)
LEMMA ChangeHandsOn ==
  ASSUME NEW w, Runs(w), NEW c \in DOMAIN connections, NEW a \in Int,
         NEW wa, \A d \in DOMAIN connections : wa[d] = IF d = c THEN w[d] + a ELSE w[d],
         NEW v, Solves(v, w), NEW u, Solves(u, wa),
         \A n \in Neurons : n \notin Receivers => u[n] = v[n]
  PROVE  HandsOn(Change(u, v), w, Spike(c, a * v[connections[c]]))
<1> DEFINE D == Change(u, v)
           x == a * v[connections[c]]
           d == Destination(c)
<1>1. /\ u \in Reached(total_neurons) /\ v \in Reached(total_neurons)
      /\ Neurons = 0 .. total_neurons - 1
  BY DEF Solves, Runs, LayersInARow
<1>2. \A n \in Neurons : u[n] \in Int /\ v[n] \in Int
  BY <1>1 DEF Reached
<1>3. D \in [Neurons -> Int] /\ \A n \in Neurons : D[n] = u[n] - v[n]
  BY <1>2 DEF Change
<1>4. /\ d \in Neurons /\ c \in Slots(d) /\ connections[c] \in Neurons
      /\ connections[c] \in 0 .. d - 1 /\ d \in Receivers
  <2>1. d \in Neurons /\ c \in Slots(d)
    BY DEF Runs, ConnectionsInPlace
  <2>2. connections[c] \in Neurons
    BY <2>1 DEF Runs, ConnectionsInPlace
  <2>3. connections[c] \in 0 .. d - 1 /\ d \in Receivers
    BY <2>1, SourcesComeBefore DEF Runs
  <2>4. QED
    BY <2>1, <2>2, <2>3
<1>5. u[connections[c]] = v[connections[c]]
  BY <1>4, SameBefore
<1>6. x \in Int
  <2>1. v[connections[c]] \in Int
    BY <1>2, <1>4
  <2>2. QED
    BY <2>1
<1>7. /\ Spike(c, x) \in [Neurons -> Int]
      /\ \A n \in Neurons : n \notin Receivers => Spike(c, x)[n] = 0
  BY <1>4, <1>6 DEF Spike
<1>8. ASSUME NEW n \in Neurons, n \notin Receivers
      PROVE  D[n] = 0
  <2>1. u[n] = v[n] /\ u[n] \in Int
    BY <1>2, <1>8
  <2> HIDE DEF D
  <2>2. QED
    BY <1>3, <2>1
<1>9. ASSUME NEW n \in Receivers
      PROVE  D[n] = steepness[n] * (WeightedSum(w, D, n) + Spike(c, x)[n])
  <2>1. n \in Neurons /\ steepness[n] \in Nat /\ IsFiniteSet(Slots(n))
    BY ReceiversAre DEF ReceiverFacts
  <2>2. WeightedSum(wa, u, n) = WeightedSum(w, u, n) + Spike(c, x)[n]
    BY <1>1, <1>5, <2>1, SpikeAdds
  <2>3. /\ IntsOn(u, Neurons) /\ IntsOn(v, Neurons) /\ IntsOn(D, Neurons)
        /\ IntsOn(w, DOMAIN connections) /\ ConnectionsInPlace
    BY <1>2, <1>3 DEF IntsOn, Runs
  <2> HIDE DEF D, x
  <2>4. /\ IntsOn(Products(w, u), Slots(n))
        /\ WeightedSum(w, u, n) = Total(Products(w, u), Slots(n))
        /\ IntsOn(Products(w, v), Slots(n))
        /\ WeightedSum(w, v, n) = Total(Products(w, v), Slots(n))
        /\ IntsOn(Products(w, D), Slots(n))
        /\ WeightedSum(w, D, n) = Total(Products(w, D), Slots(n))
        /\ WeightedSum(w, u, n) \in Int /\ WeightedSum(w, v, n) \in Int
        /\ WeightedSum(w, D, n) \in Int
    BY <2>1, <2>3, ProductsOfSlots
  <2>5. ASSUME NEW e \in Slots(n)
        PROVE  Products(w, u)[e] = Products(w, D)[e] + Products(w, v)[e]
    <3>1. e \in DOMAIN connections /\ connections[e] \in Neurons
      BY <2>1 DEF Runs, ConnectionsInPlace
    <3>2. /\ w[e] \in Int /\ u[connections[e]] \in Int /\ v[connections[e]] \in Int
          /\ D[connections[e]] = u[connections[e]] - v[connections[e]]
      BY <1>2, <1>3, <2>3, <3>1 DEF IntsOn
    <3>3. /\ Products(w, u)[e] = w[e] * u[connections[e]]
          /\ Products(w, v)[e] = w[e] * v[connections[e]]
          /\ Products(w, D)[e] = w[e] * D[connections[e]]
      BY <3>1 DEF Products
    <3>4. \A p, q, r \in Int : p * q = p * (q - r) + p * r
      BY SMT
    <3>5. QED
      BY <3>2, <3>3, <3>4
  <2>6. WeightedSum(w, u, n) = WeightedSum(w, D, n) + WeightedSum(w, v, n)
    BY <2>1, <2>4, <2>5, TotalsAdd
  <2>7. /\ u[n] = steepness[n] * WeightedSum(wa, u, n)
        /\ v[n] = steepness[n] * WeightedSum(w, v, n)
        /\ D[n] = u[n] - v[n]
    BY <1>3, <2>1 DEF Solves
  <2>8. Spike(c, x)[n] \in Int
    BY <1>7, <2>1
  <2>9. \A s, p, q, r \in Int : s * ((p + q) + r) - s * q = s * (p + r)
    BY SMT
  <2>10. QED
    BY <2>1, <2>2, <2>4, <2>6, <2>7, <2>8, <2>9
<1>10. QED
  BY <1>3, <1>7, <1>8, <1>9 DEF HandsOn

(* Errors are handed back by the same weights: what a neuron gets from     *)
(* those it is connected to.                                               *)
HandedTo(e, w, n) ==
  [d \in DOMAIN connections |->
     IF connections[d] = n THEN e[Destination(d)] * w[d] ELSE 0]

HandsBack(e, w, g) ==
  /\ e \in [Neurons -> Int] /\ g \in [Neurons -> Int]
  /\ \A n \in Receivers :
       e[n] = steepness[n] * (g[n] + Total(HandedTo(e, w, n), DOMAIN connections))

(* A change measured where it begins, by the errors there, is the change   *)
(* measured at the outputs.                                                *)
LEMMA BackIsForth ==
  ASSUME NEW w, Runs(w), NEW D, NEW S, HandsOn(D, w, S),
         NEW e, NEW g, HandsBack(e, w, g)
  PROVE  Total([n \in Neurons |-> e[n] * S[n]], Neurons)
           = Total([n \in Neurons |-> g[n] * D[n]], Neurons)
<1> DEFINE C == DOMAIN connections
           dest == [c \in C |-> Destination(c)]
           P == [c \in C |-> e[Destination(c)] * (w[c] * D[connections[c]])]
           A == PartTotals(P, C, dest, Neurons)
           B == PartTotals(P, C, connections, Neurons)
           X == [n \in Neurons |-> e[n] * S[n]]
           Y == [n \in Neurons |-> g[n] * D[n]]
<1>1. /\ IsFiniteSet(C) /\ IsFiniteSet(Neurons)
      /\ \A c \in C : dest[c] \in Neurons /\ connections[c] \in Neurons
                      /\ w[c] \in Int /\ c \in Slots(dest[c])
  <2>1. LayersInARow /\ ConnectionsInPlace /\ IntsOn(w, C)
    BY DEF Runs
  <2>2. IsFiniteSet(Neurons)
    BY <2>1, FS_Interval DEF LayersInARow
  <2>3. \A c \in C : Destination(c) \in Neurons /\ c \in Slots(Destination(c))
    BY <2>1 DEF ConnectionsInPlace
  <2>4. \A c \in C : connections[c] \in Neurons
    BY <2>1, <2>3 DEF ConnectionsInPlace
  <2>5. QED
    BY <2>1, <2>2, <2>3, <2>4, FiniteSlots DEF IntsOn
<1>2. /\ \A n \in Neurons : e[n] \in Int /\ g[n] \in Int /\ D[n] \in Int /\ S[n] \in Int
      /\ D \in [Neurons -> Int]
  BY DEF HandsOn, HandsBack
<1>3. IntsOn(P, C)
  <2>1. \A p, q, r \in Int : p * (q * r) \in Int
    BY SMT
  <2>2. \A c \in C : e[dest[c]] * (w[c] * D[connections[c]]) \in Int
    BY <1>1, <1>2, <2>1
  <2>3. QED
    BY <2>2 DEF IntsOn
<1>4. /\ Total(A, Neurons) = Total(P, C) /\ IntsOn(A, Neurons)
      /\ Total(B, Neurons) = Total(P, C) /\ IntsOn(B, Neurons)
  <2> HIDE DEF C, P, dest
  <2>1. QED
    BY <1>1, <1>3, TotalByParts
<1>5. ASSUME NEW n \in Neurons
      PROVE  A[n] = e[n] * WeightedSum(w, D, n) /\ WeightedSum(w, D, n) \in Int
  <2> DEFINE F == [c \in C |-> IF dest[c] = n THEN P[c] ELSE 0]
             G == [c \in C |-> IF c \in Slots(n) THEN P[c] ELSE 0]
  <2>1. A[n] = Total(F, C)
    BY DEF PartTotals
  <2>2. \A c \in C : dest[c] = n <=> c \in Slots(n)
    BY <1>1 DEF Runs, ConnectionsInPlace
  <2>3. F = G
    BY <2>2
  <2>4. /\ Slots(n) \in SUBSET C /\ IsFiniteSet(Slots(n))
        /\ IntsOn(Products(w, D), Slots(n))
        /\ WeightedSum(w, D, n) = Total(Products(w, D), Slots(n))
        /\ WeightedSum(w, D, n) \in Int
    <3>1. ConnectionsInPlace /\ IntsOn(w, C) /\ IntsOn(D, Neurons)
      BY <1>1, <1>2 DEF Runs, IntsOn
    <3>2. QED
      BY <3>1, ProductsOfSlots, FiniteSlots DEF ConnectionsInPlace
  <2>5. \A c \in Slots(n) : P[c] = e[n] * Products(w, D)[c]
    <3> TAKE c \in Slots(n)
    <3>1. c \in C /\ Destination(c) = n
      BY <2>2, <2>4
    <3>2. QED
      BY <3>1 DEF Products
  <2>6. \A c \in C : G[c] = IF c \in Slots(n) THEN P[c] ELSE 0
    OBVIOUS
  <2>7. IntsOn(P, Slots(n))
    BY <1>3, <2>4 DEF IntsOn
  <2> HIDE DEF G, P, C, A, F
  <2>8. Total(P, Slots(n)) = Total(G, C)
    BY <1>1, <2>4, <2>6, <2>7, TotalOfPart
  <2>9. Total(P, Slots(n)) = e[n] * Total(Products(w, D), Slots(n))
    BY <1>2, <2>4, <2>5, TotalTimes
  <2>10. QED
    BY <2>1, <2>3, <2>4, <2>8, <2>9
<1>6. ASSUME NEW n \in Neurons
      PROVE  /\ B[n] = D[n] * Total(HandedTo(e, w, n), C)
             /\ Total(HandedTo(e, w, n), C) \in Int
  <2> DEFINE F == [c \in C |-> IF connections[c] = n THEN P[c] ELSE 0]
             H == HandedTo(e, w, n)
  <2>1. B[n] = Total(F, C)
    BY DEF PartTotals
  <2>2. ASSUME NEW c \in C
        PROVE  F[c] = D[n] * H[c] /\ H[c] \in Int
    <3>1. e[Destination(c)] \in Int /\ w[c] \in Int /\ D[n] \in Int
      BY <1>1, <1>2
    <3>2. \A p, q, r \in Int : p * (q * r) = r * (p * q) /\ p * q \in Int /\ r * 0 = 0
      BY SMT
    <3>3. CASE connections[c] = n
      <4>1. /\ F[c] = e[Destination(c)] * (w[c] * D[n])
            /\ H[c] = e[Destination(c)] * w[c]
        BY <3>3 DEF HandedTo
      <4>2. QED
        BY <3>1, <3>2, <4>1
    <3>4. CASE connections[c] # n
      <4>1. F[c] = 0 /\ H[c] = 0
        BY <3>4 DEF HandedTo
      <4>2. QED
        BY <3>1, <3>2, <4>1
    <3>5. QED
      BY <3>3, <3>4
  <2>3. IntsOn(H, C) /\ D[n] \in Int
    BY <1>2, <2>2 DEF IntsOn
  <2> HIDE DEF F, H, C, B
  <2>4. Total(F, C) = D[n] * Total(H, C)
    BY <1>1, <2>2, <2>3, TotalTimes
  <2>5. Total(H, C) \in Int
    BY <1>1, <2>3, TotalIsInt
  <2>6. QED
    BY <2>1, <2>4, <2>5 DEF H
<1>7. ASSUME NEW n \in Neurons
      PROVE  A[n] + X[n] = Y[n] + B[n]
  <2> DEFINE W == WeightedSum(w, D, n)
             H == Total(HandedTo(e, w, n), C)
  <2>1. W \in Int /\ H \in Int /\ A[n] = e[n] * W /\ B[n] = D[n] * H
    BY <1>5, <1>6
  <2>2. X[n] = e[n] * S[n] /\ Y[n] = g[n] * D[n]
    OBVIOUS
  <2> HIDE DEF A, B, X, Y
  <2>3. CASE n \in Receivers
    <3>1. steepness[n] \in Int
      BY <2>3, ReceiversAre DEF ReceiverFacts
    <3>2. D[n] = steepness[n] * (W + S[n]) /\ e[n] = steepness[n] * (g[n] + H)
      BY <2>3 DEF HandsOn, HandsBack
    <3>3. \A s, gg, hh, ww, ss \in Int :
            (s * (gg + hh)) * ww + (s * (gg + hh)) * ss
              = gg * (s * (ww + ss)) + (s * (ww + ss)) * hh
      BY SMT
    <3> HIDE DEF W, H
    <3>4. QED
      BY <1>2, <2>1, <2>2, <3>1, <3>2, <3>3
  <2>4. CASE n \notin Receivers
    <3>1. D[n] = 0 /\ S[n] = 0
      BY <2>4 DEF HandsOn
    <3>2. W = 0
      <4>1. \A c \in Slots(n) : FALSE
        BY <2>4, SourcesComeBefore DEF Runs
      <4>2. DOMAIN [c \in Slots(n) |-> w[c] * D[connections[c]]] = {}
        BY <4>1
      <4>3. QED
        BY <4>2, SumOfNone DEF WeightedSum
    <3> HIDE DEF W, H
    <3>3. \A p \in Int : p * 0 = 0 /\ 0 * p = 0
      BY SMT
    <3>4. A[n] = 0 /\ X[n] = 0 /\ Y[n] = 0 /\ B[n] = 0
      BY <1>2, <2>1, <2>2, <3>1, <3>2, <3>3
    <3>5. QED
      BY <3>4
  <2>5. QED
    BY <2>3, <2>4
<1>8. IntsOn(X, Neurons) /\ IntsOn(Y, Neurons)
  <2>1. \A p, q \in Int : p * q \in Int
    BY SMT
  <2>2. \A n \in Neurons : e[n] * S[n] \in Int /\ g[n] * D[n] \in Int
    BY <1>2, <2>1
  <2>3. QED
    BY <2>2 DEF IntsOn
<1> DEFINE Z == [n \in Neurons |-> A[n] + X[n]]
<1>9. \A n \in Neurons : Z[n] = A[n] + X[n] /\ Z[n] = Y[n] + B[n]
  BY <1>7
<1> HIDE DEF A, B, X, Y, Z, P, C
<1>10. Total(Z, Neurons) = Total(A, Neurons) + Total(X, Neurons)
  BY <1>1, <1>4, <1>8, <1>9, TotalsAdd
<1>11. Total(Z, Neurons) = Total(Y, Neurons) + Total(B, Neurons)
  BY <1>1, <1>4, <1>8, <1>9, TotalsAdd
<1>12. /\ Total(A, Neurons) \in Int /\ Total(B, Neurons) \in Int
       /\ Total(X, Neurons) \in Int /\ Total(Y, Neurons) \in Int
  BY <1>1, <1>4, <1>8, TotalIsInt
<1>13. Total(X, Neurons) = Total(Y, Neurons)
  BY <1>4, <1>10, <1>11, <1>12
<1>14. QED
  BY <1>13 DEF X, Y

-----------------------------------------------------------------------------
(* Backpropagation                                                         *)

(* What neuron m gets from the neurons of layer l, and from those that     *)
(* begin with neuron f.                                                    *)
HandedBy(e, w, m, l) ==
  [d \in DOMAIN connections |->
     IF connections[d] = m /\ Destination(d) \in NeuronsIn(l)
     THEN e[Destination(d)] * w[d] ELSE 0]

HandedFrom(e, w, m, f) ==
  [d \in DOMAIN connections |->
     IF connections[d] = m /\ Destination(d) >= f
     THEN e[Destination(d)] * w[d] ELSE 0]

NumbersOnly(F, e, w) ==
  \A d \in DOMAIN connections : F[d] \in {0, e[Destination(d)] * w[d]}

(* Terms that are zero or a weight times an error have a total.            *)
LEMMA HandedAreNumbers ==
  ASSUME NEW w, Runs(w), NEW e \in [Neurons -> Int], NEW F, NumbersOnly(F, e, w)
  PROVE  IntsOn(F, DOMAIN connections) /\ Total(F, DOMAIN connections) \in Int
<1>1. ASSUME NEW d \in DOMAIN connections
      PROVE  F[d] \in Int
  <2>1. w[d] \in Int /\ Destination(d) \in Neurons
    BY DEF Runs, IntsOn, ConnectionsInPlace
  <2>2. e[Destination(d)] \in Int
    BY <2>1
  <2>3. e[Destination(d)] * w[d] \in Int /\ 0 \in Int
    BY <2>1, <2>2
  <2>4. QED
    BY <2>3 DEF NumbersOnly
<1>2. IntsOn(F, DOMAIN connections)
  BY <1>1 DEF IntsOn
<1>3. QED
  BY <1>2, FiniteSlots, TotalIsInt DEF Runs

(* What is handed to a neuron, by a layer, or from some layer on is of     *)
(* such terms.                                                             *)
LEMMA AllAreNumbers ==
  ASSUME NEW w, NEW e, NEW m
  PROVE  /\ NumbersOnly(HandedTo(e, w, m), e, w)
         /\ \A l : NumbersOnly(HandedBy(e, w, m, l), e, w)
         /\ \A f : NumbersOnly(HandedFrom(e, w, m, f), e, w)
<1>1. NumbersOnly(HandedTo(e, w, m), e, w)
  BY DEF NumbersOnly, HandedTo
<1>2. \A l : NumbersOnly(HandedBy(e, w, m, l), e, w)
  BY DEF NumbersOnly, HandedBy
<1>3. \A f : NumbersOnly(HandedFrom(e, w, m, f), e, w)
  BY DEF NumbersOnly, HandedFrom
<1>4. QED
  BY <1>1, <1>2, <1>3

(* The two loops of fann_backpropagate_MSE over a layer.                   *)
HandedIn(e, n, m) ==
  SumFunction([i \in {j \in 0 .. NumConnections(n) - 1 : Source(n, j) = m} |->
                 e[n] * weights[first_con[n] + i]])

(* What a neuron hands back is a total over all the connections.           *)
LEMMA HandedByNeuron ==
  ASSUME Runs(weights), NEW e \in [Neurons -> Int], NEW n \in Neurons, NEW m
  PROVE  HandedIn(e, n, m)
           = Total([d \in DOMAIN connections |->
                      IF Destination(d) = n THEN HandedTo(e, weights, m)[d] ELSE 0],
                   DOMAIN connections)
<1> DEFINE a == first_con[n]
           C == DOMAIN connections
           I == {j \in 0 .. NumConnections(n) - 1 : Source(n, j) = m}
           R == {c \in Slots(n) : connections[c] = m}
           F == [i \in I |-> e[n] * weights[a + i]]
           G == [c \in R |-> e[n] * weights[c]]
           h == [i \in I |-> a + i]
           Z == [d \in C |-> IF Destination(d) = n THEN HandedTo(e, weights, m)[d] ELSE 0]
<1>1. /\ a \in Nat /\ last_con[n] \in Nat /\ a <= last_con[n]
      /\ NumConnections(n) = last_con[n] - a /\ Slots(n) = a .. last_con[n] - 1
      /\ Slots(n) \subseteq C /\ IsFiniteSet(C) /\ IsFiniteSet(Slots(n))
      /\ \A c \in C : c \in Slots(n) <=> Destination(c) = n
      /\ \A i \in 0 .. NumConnections(n) - 1 : Source(n, i) = connections[a + i]
  BY FiniteSlots DEF Runs, ConnectionsInPlace, NumConnections, Slots
<1> DEFINE num == NumConnections(n)
<1>2. num \in Nat /\ num = last_con[n] - a
  BY <1>1
<1> HIDE DEF num, a
<1>3. IsFiniteSet(I) /\ IsFiniteSet(R) /\ R \in SUBSET C
  <2>1. IsFiniteSet(0 .. num - 1)
    BY <1>2, FS_Interval
  <2>2. I \in SUBSET (0 .. num - 1) /\ R \in SUBSET Slots(n)
    BY DEF num
  <2>3. QED
    BY <1>1, <2>1, <2>2, FS_Subset
<1>4. \A i \in I : i \in 0 .. num - 1 /\ connections[a + i] = m
  BY <1>1 DEF num
<1>13. h \in [I -> R] /\ \A i, j \in I : h[i] = h[j] => i = j
  <2>1. \A i \in I : a + i \in R
    BY <1>1, <1>2, <1>4
  <2>2. \A i \in I : i \in Int
    BY <1>2, <1>4
  <2>3. QED
    BY <1>1, <2>1, <2>2
<1>14. ASSUME NEW c \in R PROVE \E i \in I : h[i] = c
  <2>1. c \in a .. last_con[n] - 1 /\ connections[c] = m
    BY <1>1
  <2>2. c - a \in 0 .. num - 1 /\ a + (c - a) = c
    BY <1>1, <1>2, <2>1
  <2>3. Source(n, c - a) = m
    BY <1>1, <2>1, <2>2 DEF num
  <2>4. c - a \in I
    BY <2>2, <2>3 DEF num
  <2>5. QED
    BY <2>2, <2>4
<1>5. \A i \in I : F[i] = G[h[i]]
  BY <1>13
<1>6. \A c \in R : G[c] \in Int
  <2> TAKE c \in R
  <2>1. e[n] \in Int /\ weights[c] \in Int
    BY <1>1 DEF Runs, IntsOn
  <2>2. e[n] * weights[c] \in Int
    BY <2>1
  <2>3. QED
    BY <2>2
<1>7. \A c \in C : Z[c] = IF c \in R THEN G[c] ELSE 0
  <2> TAKE c \in C
  <2>1. HandedTo(e, weights, m)[c]
          = IF connections[c] = m THEN e[Destination(c)] * weights[c] ELSE 0
    BY DEF HandedTo
  <2>2. QED
    BY <1>1, <2>1
<1>8. HandedIn(e, n, m) = Total(F, I)
  <2>1. [i \in I |-> F[i]] = [i \in I |-> e[n] * weights[a + i]]
    OBVIOUS
  <2>2. QED
    BY <2>1 DEF HandedIn, Total, a
<1> HIDE DEF F, G, h, I, R, Z, C
<1>9. IntsOn(G, R)
  BY <1>6 DEF IntsOn
<1>10. Total(F, I) = Total(G, R)
  BY <1>3, <1>13, <1>14, <1>5, <1>9, TotalRenamed
<1>11. Total(G, R) = Total(Z, C)
  BY <1>1, <1>3, <1>7, <1>9, TotalOfPart
<1>12. QED
  BY <1>8, <1>10, <1>11 DEF Z, C

(* What a layer hands back is one, too.                                    *)
LEMMA HandedByLayer ==
  ASSUME Runs(weights), NEW e \in [Neurons -> Int], NEW l \in 1 .. num_layers, NEW m
  PROVE  SumFunction([n \in NeuronsIn(l) |-> HandedIn(e, n, m)])
           = Total(HandedBy(e, weights, m, l), DOMAIN connections)
<1> DEFINE C == DOMAIN connections
           dest == [d \in C |-> Destination(d)]
           H == HandedTo(e, weights, m)
           B == HandedBy(e, weights, m, l)
           F == [n \in Neurons |-> HandedIn(e, n, m)]
           P == PartTotals(B, C, dest, Neurons)
           L == NeuronsIn(l)
<1>1. /\ IsFiniteSet(C) /\ IsFiniteSet(Neurons) /\ L \in SUBSET Neurons
      /\ \A d \in C : dest[d] \in Neurons /\ dest[d] = Destination(d)
  <2>1. IsFiniteSet(Neurons)
    BY FS_Interval DEF Runs, LayersInARow
  <2>2. \A n \in L : n \in Neurons
    BY DEF Runs, LayersInARow
  <2>3. \A d \in C : Destination(d) \in Neurons
    BY DEF Runs, ConnectionsInPlace
  <2>4. QED
    BY <2>1, <2>2, <2>3, FiniteSlots DEF Runs
<1>2. IntsOn(H, C) /\ IntsOn(B, C)
  BY HandedAreNumbers, AllAreNumbers
<1>3. \A n \in Neurons : F[n] = Total([d \in C |-> IF dest[d] = n THEN H[d] ELSE 0], C)
  <2> TAKE n \in Neurons
  <2>1. [d \in C |-> IF dest[d] = n THEN H[d] ELSE 0]
          = [d \in C |-> IF Destination(d) = n THEN H[d] ELSE 0]
    OBVIOUS
  <2>2. QED
    BY <2>1, HandedByNeuron
<1>4. ASSUME NEW n \in Neurons
      PROVE  P[n] = IF n \in L THEN F[n] ELSE 0
  <2> DEFINE p == [d \in C |-> IF dest[d] = n THEN B[d] ELSE 0]
             q == [d \in C |-> IF dest[d] = n THEN H[d] ELSE 0]
  <2>1. P[n] = Total(p, C)
    BY DEF PartTotals
  <2>2. \A d \in C : B[d] = IF dest[d] \in L THEN H[d] ELSE 0
    BY DEF HandedBy, HandedTo
  <2>3. CASE n \in L
    <3>1. p = q
      BY <2>2, <2>3
    <3>2. F[n] = Total(q, C)
      BY <1>3
    <3>3. QED
      BY <2>1, <2>3, <3>1, <3>2
  <2>4. CASE n \notin L
    <3>1. \A d \in C : p[d] = 0
      BY <2>2, <2>4
    <3> HIDE DEF p
    <3>2. Total(p, C) = 0
      BY <1>1, <3>1, TotalOfZeros
    <3>3. QED
      BY <2>1, <2>4, <3>2
  <2>5. QED
    BY <2>3, <2>4
<1>5. [n \in L |-> HandedIn(e, n, m)] = [n \in L |-> F[n]]
  BY <1>1
<1> HIDE DEF C, dest, H, B, F, L
<1>6. Total(P, Neurons) = Total(B, C) /\ IntsOn(P, Neurons)
  BY <1>1, <1>2, TotalByParts
<1> HIDE DEF P
<1>7. IntsOn(F, L)
  <2>1. \A n \in L : n \in Neurons /\ P[n] \in Int /\ P[n] = F[n]
    BY <1>1, <1>4, <1>6 DEF IntsOn
  <2>2. QED
    BY <2>1 DEF IntsOn
<1>8. Total(F, L) = Total(P, Neurons)
  BY <1>1, <1>4, <1>7, TotalOfPart
<1>9. QED
  BY <1>5, <1>6, <1>8 DEF Total, L, B, C

(* One turn of the loop in fann_backpropagate_MSE: every neuron gets what  *)
(* the layer hands to it, and the layer before is multiplied by its        *)
(* derivatives.                                                            *)
LEMMA LayerHandsBack ==
  ASSUME Runs(weights), NEW e \in [Neurons -> Int], NEW l \in 2 .. num_layers
  PROVE  /\ Backpropagated(e, l) \in [Neurons -> Int]
         /\ \A m \in Neurons :
              Backpropagated(e, l)[m]
                = (e[m] + Total(HandedBy(e, weights, m, l), DOMAIN connections))
                    * IF m \in NeuronsIn(l - 1) THEN steepness[m] ELSE 1
<1> DEFINE T(m) == Total(HandedBy(e, weights, m, l), DOMAIN connections)
           v(m) == (e[m] + T(m)) * IF m \in NeuronsIn(l - 1) THEN steepness[m] ELSE 1
<1>1. l \in 1 .. num_layers
  BY DEF Runs, LayersInARow
<1>2. \A m \in Neurons : SumFunction([n \in NeuronsIn(l) |-> HandedIn(e, n, m)]) = T(m)
  BY <1>1, HandedByLayer
<1>3. Backpropagated(e, l) = [m \in Neurons |-> v(m)]
  BY <1>2 DEF Backpropagated, HandedIn, fann_activation_derived
<1>4. \A m \in Neurons : v(m) \in Int
  <2> TAKE m \in Neurons
  <2>1. T(m) \in Int
    BY HandedAreNumbers, AllAreNumbers
  <2>2. e[m] \in Int /\ steepness[m] \in Int
    BY DEF Runs, Steep
  <2> HIDE DEF T
  <2>3. \A s \in Int : (e[m] + T(m)) * s \in Int
    BY <2>1, <2>2
  <2>4. QED
    BY <2>2, <2>3
<1> HIDE DEF v
<1>5. QED
  BY <1>3, <1>4 DEF v

(* A connection leads from a layer to a later one.                         *)
LEMMA LeadsOn ==
  ASSUME LayersInARow, ConnectionsInPlace, NEW d \in DOMAIN connections,
         NEW q \in 2 .. num_layers
  PROVE  /\ connections[d] >= layers[q - 1].first => Destination(d) >= layers[q].first
         /\ Destination(d) \in NeuronsIn(q) =>
              Destination(d) >= layers[q].first /\ connections[d] < layers[q].first
         /\ Destination(d) \in NeuronsIn(q) <=>
              Destination(d) >= layers[q].first /\ ~(Destination(d) >= layers[q].last)
         /\ connections[d] < layers[num_layers].first
         /\ ~(Destination(d) >= layers[num_layers].last)
<1> DEFINE n == Destination(d)
           l == LayerOf(layers, n)
           f(m) == layers[m].first
           e(m) == layers[m].last
           L == num_layers
<1>1. /\ n \in Neurons /\ d \in Slots(n)
      /\ connections[d] \in Neurons /\ connections[d] < f(l)
  BY DEF ConnectionsInPlace, LayerStart
<1>2. /\ l \in 1 .. L /\ n \in NeuronsIn(l)
      /\ L \in Nat /\ \A m \in 1 .. L : f(m) \in Nat /\ e(m) \in Nat /\ f(m) < e(m)
      /\ \A a, b \in 1 .. L : a < b => e(a) <= f(b)
      /\ n \in Nat /\ connections[d] \in Int /\ e(L) = total_neurons /\ total_neurons \in Nat
      /\ n < total_neurons
      /\ \A m \in 1 .. L : \A x \in NeuronsIn(m) : LayerOf(layers, x) = m
  BY <1>1 DEF LayersInARow
<1>3. \A m : NeuronsIn(m) = f(m) .. e(m) - 1
  BY DEF NeuronsIn
<1>4. q - 1 \in 1 .. L /\ q \in 1 .. L /\ L \in 1 .. L /\ q \in Int /\ q - 1 < q
  BY <1>2
<1> HIDE DEF n, l, f, e, L
<1>11. /\ f(l) \in Int /\ e(l) \in Int /\ f(l) <= n /\ n < e(l)
       /\ f(q) \in Int /\ e(q) \in Int
  <2>1. f(l) \in Nat /\ e(l) \in Nat /\ f(q) \in Nat /\ e(q) \in Nat
    BY <1>2, <1>4
  <2>2. n \in f(l) .. e(l) - 1
    BY <1>2, <1>3
  <2>3. QED
    BY <2>1, <2>2
<1>5. connections[d] >= f(q - 1) => n >= f(q)
  <2> SUFFICES ASSUME connections[d] >= f(q - 1) PROVE n >= f(q)
    OBVIOUS
  <2>1. l > q - 1
    <3>1. CASE l < q - 1
      <4>1. e(l) <= f(q - 1) /\ f(l) < e(l)
        BY <1>2, <1>4, <3>1
      <4>2. QED
        BY <1>1, <1>2, <1>4, <4>1
    <3>2. CASE l = q - 1
      BY <1>1, <1>2, <1>4, <3>2
    <3>3. QED
      BY <1>2, <1>4, <3>1, <3>2
  <2>2. CASE l = q
    BY <1>2, <1>11, <2>2
  <2>3. CASE l > q
    <3>1. e(q) <= f(l) /\ f(q) < e(q)
      BY <1>2, <1>4, <2>3
    <3>2. n \in Int
      BY <1>2
    <3>3. QED
      BY <1>11, <3>1, <3>2
  <2>4. QED
    BY <1>2, <1>4, <2>1, <2>2, <2>3
<1>6. n \in NeuronsIn(q) => n >= f(q) /\ connections[d] < f(q)
  <2> SUFFICES ASSUME n \in NeuronsIn(q) PROVE n >= f(q) /\ connections[d] < f(q)
    OBVIOUS
  <2>1. l = q
    BY <1>2, <1>4 DEF l
  <2>2. QED
    BY <1>1, <1>2, <1>3, <1>4, <2>1
<1>7. n \in NeuronsIn(q) <=> n >= f(q) /\ ~(n >= e(q))
  <2>1. NeuronsIn(q) = f(q) .. e(q) - 1 /\ n \in Int
    BY <1>2, <1>3
  <2>2. QED
    BY <1>11, <2>1
<1>8. connections[d] < f(L)
  <2>1. CASE l = L
    BY <1>1, <2>1
  <2>2. CASE l < L
    <3>1. e(l) <= f(L) /\ f(l) < e(l)
      BY <1>2, <1>4, <2>2
    <3>2. QED
      BY <1>1, <1>2, <1>4, <3>1
  <2>3. QED
    BY <1>2, <2>1, <2>2
<1>9. ~(n >= e(L))
  BY <1>2
<1>10. QED
  BY <1>5, <1>6, <1>7, <1>8, <1>9 DEF n, f, e, L

(* When the layers behind q have handed back all they had, and q has not.  *)
BackInv(E, g, q) ==
  /\ E \in [Neurons -> Int]
  /\ \A n \in Neurons : n >= layers[q].first =>
       E[n] = steepness[n] * (g[n] + Total(HandedTo(E, weights, n), DOMAIN connections))
  /\ \A n \in Neurons : n < layers[q].first =>
       E[n] = Total(HandedFrom(E, weights, n, layers[q].last), DOMAIN connections)

(* The invariant of that loop holds before its first turn,                 *)
LEMMA BackBegins ==
  ASSUME Runs(weights), NEW g \in [Neurons -> Int],
         \A n \in Neurons : n < layers[num_layers].first => g[n] = 0
  PROVE  BackInv([n \in Neurons |-> steepness[n] * g[n]], g, num_layers)
<1> DEFINE E == [n \in Neurons |-> steepness[n] * g[n]]
           C == DOMAIN connections
           L == num_layers
           f == layers[L].first
<1>1. /\ LayersInARow /\ ConnectionsInPlace /\ IsFiniteSet(C)
      /\ \A n \in Neurons : steepness[n] \in Int /\ g[n] \in Int /\ n \in Int
      /\ f \in Int /\ L \in 2 .. L
  BY FiniteSlots DEF Runs, Steep, LayersInARow
<1>2. E \in [Neurons -> Int]
  <2>1. \A n \in Neurons : steepness[n] * g[n] \in Int
    BY <1>1
  <2>2. QED
    BY <2>1
<1>3. \A d \in C : connections[d] < f /\ ~(Destination(d) >= layers[L].last)
  BY <1>1, LeadsOn
<1>4. ASSUME NEW n \in Neurons, n >= f
      PROVE  E[n] = steepness[n] * (g[n] + Total(HandedTo(E, weights, n), C))
  <2>1. \A d \in C : HandedTo(E, weights, n)[d] = 0
    <3>1. \A d \in C : connections[d] # n
      BY <1>1, <1>3, <1>4
    <3>2. QED
      BY <3>1 DEF HandedTo
  <2>2. Total(HandedTo(E, weights, n), C) = 0
    BY <1>1, <2>1, TotalOfZeros
  <2>3. g[n] + 0 = g[n]
    BY <1>1
  <2>4. QED
    BY <2>2, <2>3
<1>5. ASSUME NEW n \in Neurons, n < f
      PROVE  E[n] = Total(HandedFrom(E, weights, n, layers[L].last), C)
  <2>1. \A d \in C : HandedFrom(E, weights, n, layers[L].last)[d] = 0
    BY <1>3 DEF HandedFrom
  <2>2. Total(HandedFrom(E, weights, n, layers[L].last), C) = 0
    BY <1>1, <2>1, TotalOfZeros
  <2>3. E[n] = 0
    BY <1>1, <1>5
  <2>4. QED
    BY <2>2, <2>3
<1>6. QED
  BY <1>2, <1>4, <1>5 DEF BackInv

(* and from one turn to the next.                                          *)
LEMMA BackGoesOn ==
  ASSUME Runs(weights), NEW g \in [Neurons -> Int],
         \A n \in Neurons : n < layers[num_layers].first => g[n] = 0,
         NEW q \in 3 .. num_layers, NEW E, BackInv(E, g, q)
  PROVE  BackInv(Backpropagated(E, q), g, q - 1)
<1> DEFINE C == DOMAIN connections
           B == Backpropagated(E, q)
           f == layers[q].first
           p == layers[q - 1].first
           T(n) == Total(HandedBy(E, weights, n, q), C)
<1>1. /\ LayersInARow /\ ConnectionsInPlace /\ IsFiniteSet(C)
      /\ \A n \in Neurons : steepness[n] \in Int /\ g[n] \in Int /\ n \in Int
      /\ q \in 2 .. num_layers /\ q \in 1 .. num_layers /\ q - 1 \in 1 .. num_layers
      /\ E \in [Neurons -> Int]
  <2>1. LayersInARow /\ ConnectionsInPlace /\ E \in [Neurons -> Int]
    BY DEF Runs, BackInv
  <2>2. num_layers \in Nat /\ \A n \in Neurons : n \in Int
    BY <2>1 DEF LayersInARow
  <2>3. \A n \in Neurons : steepness[n] \in Int
    BY DEF Runs, Steep
  <2>4. IsFiniteSet(C)
    BY <2>1, FiniteSlots
  <2>5. QED
    BY <2>1, <2>2, <2>3, <2>4
<1>2. /\ layers[q - 1].last = f /\ f \in Int /\ p \in Int /\ p < f
      /\ f <= layers[num_layers].first /\ layers[num_layers].first \in Int
  <2>1. /\ q - 1 \in 1 .. num_layers - 1 /\ (q - 1) + 1 = q /\ num_layers \in 1 .. num_layers
        /\ q \in Int /\ num_layers \in Int /\ q <= num_layers
    BY <1>1 DEF LayersInARow
  <2>2. /\ \A l \in 1 .. num_layers : /\ layers[l].first \in Nat /\ layers[l].last \in Nat
                                      /\ layers[l].first < layers[l].last
        /\ \A l \in 1 .. num_layers - 1 : layers[l + 1].first = layers[l].last
        /\ \A l, m \in 1 .. num_layers : l < m => layers[l].last <= layers[m].first
    BY <1>1 DEF LayersInARow
  <2>3. layers[q - 1].last = f
    <3>1. layers[(q - 1) + 1].first = layers[q - 1].last
      BY <2>1, <2>2
    <3>2. QED
      BY <2>1, <3>1
  <2> HIDE DEF f, p
  <2>4. f \in Nat /\ p \in Nat /\ p < f /\ layers[num_layers].first \in Nat
    <3>1. f \in Nat /\ layers[num_layers].first \in Nat
      BY <1>1, <2>1, <2>2 DEF f
    <3>2. p \in Nat /\ p < layers[q - 1].last
      BY <1>1, <2>2 DEF p
    <3>3. QED
      BY <2>3, <3>1, <3>2
  <2>5. f <= layers[num_layers].first
    <3>1. CASE q = num_layers
      BY <2>4, <3>1 DEF f
    <3>2. CASE q < num_layers
      <4>1. layers[q].last <= layers[num_layers].first
        BY <1>1, <2>1, <2>2, <3>2
      <4>2. f < layers[q].last /\ layers[q].last \in Nat
        BY <1>1, <2>2 DEF f
      <4>3. QED
        BY <2>4, <4>1, <4>2
    <3>3. QED
      BY <2>1, <3>1, <3>2
  <2>6. QED
    BY <2>3, <2>4, <2>5
<1>3. \A d \in C : /\ connections[d] >= p => Destination(d) >= f
                   /\ Destination(d) \in NeuronsIn(q) =>
                        Destination(d) >= f /\ connections[d] < f
                   /\ Destination(d) \in NeuronsIn(q) <=>
                        Destination(d) >= f /\ ~(Destination(d) >= layers[q].last)
                   /\ Destination(d) \in Neurons /\ connections[d] \in Neurons
  <2>1. \A d \in C : Destination(d) \in Neurons /\ connections[d] \in Neurons
    BY <1>1 DEF ConnectionsInPlace
  <2>2. QED
    BY <1>1, <2>1, LeadsOn
<1>4. /\ B \in [Neurons -> Int]
      /\ \A m \in Neurons :
           B[m] = (E[m] + T(m)) * IF m \in NeuronsIn(q - 1) THEN steepness[m] ELSE 1
  BY <1>1, LayerHandsBack
<1>5. \A m \in Neurons : m \in NeuronsIn(q - 1) <=> m >= p /\ m < f
  BY <1>1, <1>2 DEF NeuronsIn
<1>6. \A m \in Neurons : T(m) \in Int /\ E[m] \in Int
  BY <1>1, HandedAreNumbers, AllAreNumbers
<1>7. ASSUME NEW m \in Neurons, m >= f
      PROVE  B[m] = E[m]
  <2>1. \A d \in C : HandedBy(E, weights, m, q)[d] = 0
    <3>1. \A d \in C : connections[d] = m => ~(Destination(d) \in NeuronsIn(q))
      BY <1>1, <1>2, <1>3, <1>7
    <3>2. QED
      BY <3>1 DEF HandedBy
  <2>2. T(m) = 0
    BY <1>1, <2>1, TotalOfZeros
  <2>3. m \notin NeuronsIn(q - 1)
    BY <1>1, <1>2, <1>5, <1>7
  <2> HIDE DEF T, B
  <2>4. B[m] = (E[m] + 0) * 1
    BY <1>4, <2>2, <2>3
  <2>5. QED
    BY <1>6, <2>4
<1> DEFINE D(m) == Total(HandedFrom(E, weights, m, f), C)
<1>8. ASSUME NEW m \in Neurons, m < f
      PROVE  E[m] + T(m) = D(m)
  <2> DEFINE X == HandedFrom(E, weights, m, layers[q].last)
             Y == HandedBy(E, weights, m, q)
             Z == HandedFrom(E, weights, m, f)
  <2>1. IntsOn(X, C) /\ IntsOn(Y, C)
    BY <1>1, HandedAreNumbers, AllAreNumbers
  <2>2. ASSUME NEW d \in C PROVE Z[d] = X[d] + Y[d]
    <3> DEFINE n == Destination(d)
               x == E[n] * weights[d]
    <3>1. /\ X[d] = IF connections[d] = m /\ n >= layers[q].last THEN x ELSE 0
          /\ Y[d] = IF connections[d] = m /\ n \in NeuronsIn(q) THEN x ELSE 0
          /\ Z[d] = IF connections[d] = m /\ n >= f THEN x ELSE 0
      BY DEF HandedFrom, HandedBy
    <3>2. x \in Int
      <4>1. E[n] \in Int /\ weights[d] \in Int
        BY <1>1, <1>3 DEF Runs, IntsOn
      <4>2. QED
        BY <4>1
    <3>3. n >= layers[q].last => n >= f
      <4>1. layers[q].last \in Int /\ f < layers[q].last
        <5>1. \A l \in 1 .. num_layers : layers[l].last \in Nat /\ layers[l].first < layers[l].last
          BY <1>1 DEF LayersInARow
        <5>2. QED
          BY <1>1, <5>1
      <4>3. n \in Int
        BY <1>1, <1>3
      <4>2. QED
        BY <1>2, <4>1, <4>3
    <3>4. n \in NeuronsIn(q) <=> n >= f /\ ~(n >= layers[q].last)
      BY <1>3
    <3> HIDE DEF X, Y, Z, n, x
    <3>5. QED
      BY <3>1, <3>2, <3>3, <3>4
  <2> HIDE DEF X, Y, Z
  <2>3. Total(Z, C) = Total(X, C) + Total(Y, C)
    BY <1>1, <2>1, <2>2, TotalsAdd
  <2>4. E[m] = Total(X, C)
    BY <1>8 DEF BackInv, X
  <2>5. QED
    BY <2>3, <2>4 DEF Y, Z
<1>9. ASSUME NEW m \in Neurons, m >= p
      PROVE  Total(HandedTo(B, weights, m), C) = Total(HandedTo(E, weights, m), C)
  <2>1. \A d \in C : HandedTo(B, weights, m)[d] = HandedTo(E, weights, m)[d]
    <3>1. \A d \in C : connections[d] = m => B[Destination(d)] = E[Destination(d)]
      BY <1>3, <1>7, <1>9
    <3>2. QED
      BY <3>1 DEF HandedTo
  <2>2. QED
    BY <2>1, TotalOfSame
<1>10. ASSUME NEW m \in Neurons, m >= p
       PROVE  B[m] = steepness[m] * (g[m] + Total(HandedTo(B, weights, m), C))
  <2>1. CASE m >= f
    BY <1>7, <1>9, <1>10, <2>1 DEF BackInv
  <2>2. CASE ~(m >= f)
    <3>1. m < f /\ m < layers[num_layers].first
      BY <1>1, <1>2, <2>2
    <3>2. B[m] = D(m) * steepness[m]
      <4>1. m \in NeuronsIn(q - 1)
        BY <1>5, <1>10, <3>1
      <4>2. QED
        BY <1>4, <1>8, <3>1, <4>1
    <3>3. D(m) = Total(HandedTo(E, weights, m), C)
      <4>1. \A d \in C : HandedFrom(E, weights, m, f)[d] = HandedTo(E, weights, m)[d]
        BY <1>3, <1>10 DEF HandedFrom, HandedTo
      <4>2. QED
        BY <4>1, TotalOfSame
    <3>4. g[m] = 0
      BY <3>1
    <3>5. D(m) \in Int
      BY <1>1, HandedAreNumbers, AllAreNumbers
    <3> HIDE DEF D, B
    <3>6. D(m) * steepness[m] = steepness[m] * (0 + D(m))
      BY <1>1, <3>5
    <3>7. QED
      BY <1>9, <1>10, <3>2, <3>3, <3>4, <3>6
  <2>3. QED
    BY <2>1, <2>2
<1>11. ASSUME NEW m \in Neurons, m < p
       PROVE  B[m] = Total(HandedFrom(B, weights, m, layers[q - 1].last), C)
  <2>1. m < f /\ m \notin NeuronsIn(q - 1)
    BY <1>1, <1>2, <1>5, <1>11
  <2>2. B[m] = D(m) * 1
    BY <1>4, <1>8, <2>1
  <2>3. D(m) \in Int
    BY <1>1, HandedAreNumbers, AllAreNumbers
  <2>4. D(m) = Total(HandedFrom(B, weights, m, f), C)
    <3>1. \A d \in C : HandedFrom(E, weights, m, f)[d] = HandedFrom(B, weights, m, f)[d]
      <4>1. \A d \in C : Destination(d) >= f => B[Destination(d)] = E[Destination(d)]
        BY <1>3, <1>7
      <4>2. QED
        BY <4>1 DEF HandedFrom
    <3>2. QED
      BY <3>1, TotalOfSame
  <2> HIDE DEF D, B
  <2>5. QED
    BY <1>2, <2>2, <2>3, <2>4
<1>12. QED
  BY <1>4, <1>10, <1>11 DEF BackInv

(* The loop of fann_backpropagate_MSE, from the last layer to the second.  *)
Backwards == [k \in 1 .. num_layers - 2 |-> num_layers + 1 - k]

(* So fann_backpropagate_MSE hands back over all the connections what the  *)
(* outputs lack.                                                           *)
LEMMA BackpropagationHandsBack ==
  ASSUME Runs(weights), NEW g \in [Neurons -> Int],
         \A n \in Neurons : n < layers[num_layers].first => g[n] = 0
  PROVE  HandsBack(FoldLeft(Backpropagated, [n \in Neurons |-> steepness[n] * g[n]],
                            [k \in 1 .. num_layers - 2 |-> num_layers + 1 - k]),
                   weights, g)
<1> DEFINE L == num_layers
           M == L - 2
           base == [n \in Neurons |-> steepness[n] * g[n]]
           q == Backwards
           V == [Neurons -> Int]
           step == [x \in V \X (1 .. M) |-> Backpropagated(x[1], q[x[2]])]
           Folds(f) ==
             f = [s \in SUBSET (1 .. M) |->
                    IF s = {} THEN base
                    ELSE Backpropagated(f[s \ {Max(s)}], q[Max(s)])]
<1>1. /\ L \in Nat /\ L >= 2 /\ M \in Nat /\ DOMAIN q = 1 .. M
      /\ \A k \in 1 .. M : q[k] = L + 1 - k
  BY DEF Runs, LayersInARow, Backwards
<1>2. FoldLeft(Backpropagated, base, q) = (CHOOSE f : Folds(f))[1 .. M]
  BY <1>1 DEF FoldLeft, MapThenFoldSet
<1>3. BackInv(base, g, L)
  BY BackBegins
<1>4. \A v \in V, k \in 1 .. M : Backpropagated(v, q[k]) \in V
  <2> TAKE v \in V, k \in 1 .. M
  <2>1. q[k] \in 2 .. num_layers
    BY <1>1
  <2>2. QED
    BY <2>1, LayerHandsBack
<1>5. step \in [V \X (1 .. M) -> V] /\ base \in V
  BY <1>3, <1>4 DEF BackInv
<1>6. \A v \in V, k \in 1 .. M : step[<<v, k>>] = Backpropagated(v, q[k])
  OBVIOUS
<1>7. \A E : BackInv(E, g, L) => E \in V
  BY DEF BackInv
<1> HIDE DEF step, base, q, V, M
<1>8. PICK h \in [SUBSET (1 .. M) -> V] : FoldsTo(h, M, base, step)
  BY <1>1, <1>5, FoldExists
<1>9. Folds(h)
  <2>1. ASSUME NEW s \in SUBSET (1 .. M), s # {}
        PROVE  step[<<h[s \ {Max(s)}], Max(s)>>] = Backpropagated(h[s \ {Max(s)}], q[Max(s)])
    <3>1. Max(s) \in 1 .. M /\ s \ {Max(s)} \in SUBSET (1 .. M)
      BY <1>1, <2>1, GreatestNumber
    <3>2. h[s \ {Max(s)}] \in V
      BY <1>8, <3>1
    <3>3. QED
      BY <1>6, <3>1, <3>2
  <2>2. QED
    BY <1>8, <2>1 DEF FoldsTo
<1> DEFINE f == CHOOSE f : Folds(f)
<1>10. Folds(f)
  BY <1>9
<1> HIDE DEF f
<1> DEFINE T == {k \in 0 .. M : BackInv(f[1 .. k], g, L - k)}
<1>11. 0 \in T
  <2>1. f[1 .. 0] = base
    <3>1. 1 .. 0 = {} /\ 1 .. 0 \in SUBSET (1 .. M)
      OBVIOUS
    <3>2. QED
      BY <1>10, <3>1
  <2>2. L - 0 = L
    BY <1>1
  <2>3. QED
    BY <1>1, <1>3, <2>1, <2>2
<1>12. ASSUME NEW k \in 0 .. M - 1, k \in T
       PROVE  k + 1 \in T
  <2> DEFINE s == 1 .. k + 1
  <2>1. /\ s \in SUBSET (1 .. M) /\ s # {} /\ Max(s) = k + 1
        /\ s \ {Max(s)} = 1 .. k
    BY <1>1, UpToNext
  <2> HIDE DEF s
  <2>2. f[s] = Backpropagated(f[1 .. k], q[k + 1])
    BY <1>10, <2>1
  <2>3. k + 1 \in 1 .. M /\ q[k + 1] = L - k /\ L - k \in 3 .. num_layers
        /\ (L - k) - 1 = L - (k + 1) /\ k + 1 \in 0 .. M
    <3>1. k + 1 \in 1 .. M /\ k \in Int
      BY <1>1
    <3>2. q[k + 1] = L + 1 - (k + 1)
      BY <1>1, <3>1
    <3>3. M = L - 2
      BY DEF M
    <3>4. QED
      BY <1>1, <3>1, <3>2, <3>3
  <2> DEFINE r == L - k
  <2>4. BackInv(f[1 .. k], g, r)
    BY <1>12
  <2> HIDE DEF r
  <2>5. BackInv(Backpropagated(f[1 .. k], r), g, r - 1)
    BY <2>3, <2>4, BackGoesOn DEF r
  <2>6. f[1 .. k + 1] = Backpropagated(f[1 .. k], r) /\ r - 1 = L - (k + 1)
    BY <2>2, <2>3 DEF r, s
  <2>7. QED
    BY <2>3, <2>5, <2>6
<1> HIDE DEF T
<1>13. \A k \in 0 .. M : k \in T
  BY <1>1, <1>11, <1>12, CountingUp
<1>14. BackInv(f[1 .. M], g, 2)
  <2>1. M \in T /\ L - M = 2
    BY <1>1, <1>13 DEF M
  <2>2. QED
    BY <2>1 DEF T
<1>15. ASSUME NEW E, BackInv(E, g, 2)
       PROVE  HandsBack(E, weights, g)
  <2>1. layers[2].first = num_input + 1
    <3>1. 1 \in 1 .. num_layers - 1 /\ 1 + 1 = 2
      BY <1>1
    <3>2. layers[2].first = layers[1].last
      BY <3>1 DEF Runs, LayersInARow
    <3>3. QED
      BY <3>2 DEF Runs, LayersInARow
  <2>2. ASSUME NEW n \in Receivers
        PROVE  n \in Neurons /\ n >= layers[2].first
    <3>1. n \in Neurons /\ n \in Int /\ first_con[n] < last_con[n]
      BY DEF Receivers, Neurons, Runs, LayersInARow
    <3>2. first_con[n] \in Slots(n)
      BY <3>1 DEF Slots, Runs, ConnectionsInPlace
    <3>5. LayersInARow /\ ConnectionsInPlace
      BY DEF Runs
    <3>6. num_input < n
      BY <3>1, <3>2, <3>5, SourcesComeBefore
    <3>3. num_input < n /\ num_input \in Int
      BY <3>5, <3>6 DEF LayersInARow
    <3>4. QED
      BY <2>1, <3>1, <3>3
  <2>3. QED
    BY <1>15, <2>2 DEF BackInv, HandsBack
<1>16. HandsBack(f[1 .. M], weights, g)
  BY <1>14, <1>15
<1>17. FoldLeft(Backpropagated, base, q) = f[1 .. M]
  BY <1>2 DEF f
<1>18. HandsBack(FoldLeft(Backpropagated, base, q), weights, g)
  BY <1>16, <1>17
<1>19. QED
  BY <1>18 DEF base, q, Backwards, L

-----------------------------------------------------------------------------
(* The derivative of the error                                             *)

(* What the outputs are wrong by, and what is behind the first layer.      *)
OutputDiff == [n \in Neurons |-> IF n \in Outputs THEN diff(n) ELSE 0]

DifferencesKnown ==
  /\ \A n \in Neurons : value[n] \in Int
  /\ \A k \in Outputs : desired_output[k] \in Int

(* The differences at the outputs are numbers, and there are none          *)
(* elsewhere.                                                              *)
LEMMA DifferencesAreNumbers ==
  ASSUME LayersInARow, DifferencesKnown
  PROVE  /\ \A k \in Outputs : k \in Neurons /\ diff(k) \in Int
         /\ OutputDiff \in [Neurons -> Int]
         /\ \A n \in Neurons : n < layers[num_layers].first => OutputDiff[n] = 0
<1>1. num_layers \in 1 .. num_layers
  BY DEF LayersInARow
<1>2. \A k \in Outputs : k \in NeuronsIn(num_layers)
  BY DEF LayersInARow
<1>3. \A k \in Outputs : k \in Neurons /\ k >= layers[num_layers].first /\ k \in Int
  <2>1. \A k \in Outputs : k \in Neurons
    BY <1>1, <1>2 DEF LayersInARow
  <2>2. layers[num_layers].first \in Int /\ layers[num_layers].last \in Int
    BY <1>1 DEF LayersInARow
  <2>3. QED
    BY <1>2, <2>1, <2>2 DEF NeuronsIn
<1>4. \A k \in Outputs : diff(k) \in Int
  BY <1>3 DEF DifferencesKnown, diff
<1>5. OutputDiff \in [Neurons -> Int]
  BY <1>4 DEF OutputDiff
<1>6. ASSUME NEW n \in Neurons, n < layers[num_layers].first
      PROVE  OutputDiff[n] = 0
  <2>1. layers[num_layers].first \in Int /\ n \in Int
    BY <1>1 DEF LayersInARow
  <2>2. n \notin Outputs
    BY <1>3, <1>6, <2>1
  <2>3. QED
    BY <2>2 DEF OutputDiff
<1>7. QED
  BY <1>3, <1>4, <1>5, <1>6

(* The connection a slope is added for is the one whose weight is changed. *)
LEMMA SourceOfConnection ==
  ASSUME ConnectionsInPlace, NEW c \in DOMAIN connections
  PROVE  Source(Destination(c), c - first_con[Destination(c)]) = connections[c]
<1> DEFINE n == Destination(c)
           a == first_con[n]
<1>1. n \in Neurons /\ c \in Slots(n) /\ a \in Nat /\ last_con[n] \in Nat
  BY DEF ConnectionsInPlace
<1>2. c \in a .. last_con[n] - 1
  BY <1>1 DEF Slots
<1>3. NumConnections(n) = last_con[n] - a
  BY DEF NumConnections
<1>4. \A i \in 0 .. NumConnections(n) - 1 : Source(n, i) = connections[a + i]
  BY <1>1 DEF ConnectionsInPlace
<1> HIDE DEF n, a
<1>5. c - a \in 0 .. NumConnections(n) - 1 /\ a + (c - a) = c
  BY <1>1, <1>2, <1>3
<1>6. Source(n, c - a) = connections[c]
  BY <1>4, <1>5
<1>7. QED
  BY <1>6 DEF n, a

(* fann_update_slopes_batch multiplies the error of a neuron by the value  *)
(* the connection brings.                                                  *)
LEMMA SlopeOfConnection ==
  ASSUME ConnectionsInPlace, NEW c \in DOMAIN connections
  PROVE  Slope(c, Source) = train_errors[Destination(c)] * value[connections[c]]
BY SourceOfConnection DEF Slope

(* Errors that are handed back give the derivative by every weight.        *)
LEMMA SlopeIsGradient ==
  ASSUME weights \in [DOMAIN connections -> Int], Runs(weights), DifferencesKnown,
         value = LinearValues(weights), HandsBack(train_errors, weights, OutputDiff),
         NEW c \in DOMAIN connections
  PROVE  Gradient(c) = train_errors[Destination(c)] * value[connections[c]]
<1> DEFINE one == 1
           wa == [weights EXCEPT ![c] = @ + one]
           u == LinearValues(wa)
           D == Change(u, value)
           x == value[connections[c]]
           S == Spike(c, one * x)
           d == Destination(c)
           g == OutputDiff
           e == train_errors
<1>1. /\ LayersInARow /\ ConnectionsInPlace /\ IsFiniteSet(Neurons)
      /\ d \in Neurons /\ connections[c] \in Neurons /\ c \in Slots(d)
      /\ weights[c] \in Int /\ x \in Int /\ one \in Int
      /\ num_input \in Nat /\ num_input < total_neurons /\ Neurons = 0 .. total_neurons - 1
      /\ total_neurons \in Nat
  <2>1. LayersInARow /\ ConnectionsInPlace
    BY DEF Runs
  <2>2. d \in Neurons /\ c \in Slots(d)
    BY <2>1 DEF ConnectionsInPlace
  <2>3. connections[c] \in Neurons
    BY <2>1, <2>2 DEF ConnectionsInPlace
  <2>4. IsFiniteSet(Neurons)
    BY <2>1, FS_Interval DEF LayersInARow
  <2>5. weights[c] \in Int /\ x \in Int /\ one \in Int
    BY <2>3 DEF DifferencesKnown
  <2>6. num_input \in Nat /\ num_input < total_neurons /\ Neurons = 0 .. total_neurons - 1
        /\ total_neurons \in Nat
    BY <2>1 DEF LayersInARow
  <2>7. QED
    BY <2>1, <2>2, <2>3, <2>4, <2>5, <2>6
<1>2. /\ wa \in [DOMAIN connections -> Int]
      /\ \A b \in DOMAIN connections : wa[b] = IF b = c THEN weights[b] + one ELSE weights[b]
  BY <1>1
<1>3. Gradient(c) = SumFunction([k \in Outputs |-> diff(k) * (u[k] - value[k])])
  BY DEF Gradient
<1>4. one = 1
  OBVIOUS
<1> HIDE DEF one, wa
<1>5. Runs(wa)
  BY <1>2 DEF Runs, IntsOn
<1>6. \A i \in 0 .. num_input - 1 : value[i] \in Int
  <2>1. \A i \in 0 .. num_input - 1 : i \in Neurons
    BY <1>1
  <2>2. QED
    BY <2>1 DEF DifferencesKnown
<1>7. /\ Solves(u, wa) /\ Solves(value, weights)
      /\ \A n \in Neurons : n \notin Receivers => u[n] = value[n]
  <2>1. \A n \in Neurons : n \notin Receivers =>
          u[n] = (IF n < num_input THEN value[n] ELSE 1)
    BY <1>5, <1>6, LinearSolves DEF LinearValues
  <2>2. \A n \in Neurons : n \notin Receivers =>
          LinearValues(weights)[n] = (IF n < num_input THEN value[n] ELSE 1)
    BY <1>6, LinearSolves DEF LinearValues
  <2>3. Solves(u, wa) /\ Solves(LinearValues(weights), weights)
    BY <1>5, <1>6, LinearSolves DEF LinearValues
  <2> HIDE DEF u
  <2>4. QED
    BY <2>1, <2>2, <2>3
<1> HIDE DEF u
<1>8. HandsOn(D, weights, S)
  BY <1>1, <1>2, <1>7, ChangeHandsOn
<1>9. Total([n \in Neurons |-> e[n] * S[n]], Neurons)
        = Total([n \in Neurons |-> g[n] * D[n]], Neurons)
  BY <1>8, BackIsForth
<1>10. e \in [Neurons -> Int] /\ D \in [Neurons -> Int]
  BY <1>8 DEF HandsBack, HandsOn
<1>11. Total([n \in Neurons |-> e[n] * S[n]], Neurons) = e[d] * x
  <2> DEFINE F == [n \in Neurons |-> e[n] * S[n]]
  <2>1. \A n \in Neurons : S[n] = IF n = d THEN x ELSE 0
    BY <1>1, <1>4 DEF Spike
  <2>2. e[d] * x \in Int /\ \A n \in Neurons : e[n] * 0 = 0
    BY <1>1, <1>10
  <2>3. F[d] = e[d] * x
    BY <1>1, <2>1
  <2>4. \A n \in Neurons : n # d => F[n] = 0
    BY <2>1, <2>2
  <2> HIDE DEF F, d
  <2>7. d \in Neurons /\ F[d] \in Int
    BY <1>1, <2>2, <2>3
  <2>5. Total(F, Neurons) = F[d]
    BY <1>1, <2>4, <2>7, TotalOfOne
  <2>6. QED
    BY <2>3, <2>5 DEF F
<1>12. Total([n \in Neurons |-> g[n] * D[n]], Neurons)
         = SumFunction([k \in Outputs |-> diff(k) * (u[k] - value[k])])
  <2> DEFINE F == [k \in Outputs |-> diff(k) * (u[k] - value[k])]
             G == [n \in Neurons |-> g[n] * D[n]]
  <2>1. \A k \in Outputs : k \in Neurons /\ diff(k) \in Int
    BY <1>1, DifferencesAreNumbers
  <2>2. \A n \in Neurons : D[n] = u[n] - value[n] /\ D[n] \in Int /\ 0 * D[n] = 0
    BY <1>10 DEF Change
  <2>3. \A n \in Neurons : g[n] = IF n \in Outputs THEN diff(n) ELSE 0
    BY DEF OutputDiff
  <2>4. IntsOn(F, Outputs)
    <3>1. ASSUME NEW k \in Outputs PROVE F[k] \in Int
      <4>1. F[k] = diff(k) * D[k] /\ diff(k) \in Int /\ D[k] \in Int
        BY <2>1, <2>2
      <4> HIDE DEF F
      <4>2. QED
        BY <4>1
    <3>2. QED
      BY <3>1 DEF IntsOn
  <2>5. \A n \in Neurons : G[n] = IF n \in Outputs THEN F[n] ELSE 0
    BY <2>2, <2>3
  <2>6. Outputs \in SUBSET Neurons /\ [k \in Outputs |-> F[k]] = F
    BY <2>1
  <2> DEFINE R == Outputs
  <2> HIDE DEF F, G, R
  <2>9. R \in SUBSET Neurons /\ IntsOn(F, R)
        /\ \A n \in Neurons : G[n] = IF n \in R THEN F[n] ELSE 0
    BY <2>4, <2>5, <2>6 DEF R
  <2>10. IsFiniteSet(Neurons)
    BY <1>1
  <2>7. Total(F, R) = Total(G, Neurons)
    BY <2>9, <2>10, TotalOfPart
  <2>8. QED
    BY <2>6, <2>7 DEF F, G, Total, R
<1>13. QED
  BY <1>3, <1>9, <1>11, <1>12

-----------------------------------------------------------------------------
(* What is known of a network between the calls                            *)

Numbers(f) == f \in [DOMAIN connections -> Int]

(* The network has been run on some pattern.                               *)
HasRun ==
  /\ \E input : /\ \A i \in 0 .. num_input - 1 : input[i] \in Int
                /\ IsRun(value, Entered(input), RunStep(weights), num_input, total_neurons)
  /\ \A k \in Outputs : desired_output[k] \in Int

NetInv ==
  stage # "none" =>
    /\ pc = "done" /\ rounds \in Nat
    /\ Numbers(weights) /\ Numbers(prev_weights_deltas) /\ Numbers(train_slopes)
    /\ \A n \in Neurons : Steep(n)
    /\ stage \in {"ran", "compared", "backpropagated"} => HasRun
    /\ stage = "compared" =>
         train_errors = [n \in Neurons |-> steepness[n] * OutputDiff[n]]
    /\ stage = "backpropagated" => HandsBack(train_errors, weights, OutputDiff)

Built == DividedInv /\ WiringInv

(* A network in use is one that runs.                                      *)
LEMMA NetRuns ==
  ASSUME Built, NetInv, stage # "none"
  PROVE  Runs(weights)
<1>1. LayersInARow /\ ConnectionsInPlace
  BY DoneInPlace DEF Built, NetInv
<1>2. QED
  BY <1>1 DEF NetInv, Runs, Numbers, IntsOn

(* After a run the differences at its outputs are those of its values.     *)
LEMMA RunKnown ==
  ASSUME Built, NetInv, stage \in {"ran", "compared", "backpropagated"}
  PROVE  DifferencesKnown
<1>1. LayersInARow
  BY NetRuns DEF Runs
<1>2. value \in Reached(total_neurons)
  BY DEF NetInv, HasRun, IsRun
<1>3. \A n \in Neurons : value[n] \in Int
  BY <1>1, <1>2 DEF Reached, LayersInARow
<1>4. QED
  BY <1>3 DEF NetInv, HasRun, DifferencesKnown

(* If nothing was cut off, the values are the weighted sums.               *)
LEMMA RunAndLinear ==
  ASSUME Built, NetInv, stage \in {"ran", "compared", "backpropagated"}, Unclipped
  PROVE  value = LinearValues(weights)
<1>1. Runs(weights) /\ LayersInARow
  BY NetRuns DEF Runs
<1>2. PICK input :
        /\ \A i \in 0 .. num_input - 1 : input[i] \in Int
        /\ IsRun(value, Entered(input), RunStep(weights), num_input, total_neurons)
  BY DEF NetInv, HasRun
<1>3. Entered(input) \in Reached(total_neurons)
  BY <1>1, <1>2, EnteredIsReached
<1>4. IsRun(Values(weights, input), Entered(input), RunStep(weights), num_input,
            total_neurons)
  BY <1>1, <1>3, ValuesAreRun
<1>5. ReadsBefore(RunStep(weights), total_neurons)
  BY <1>1, RunStepIsGood
<1>6. total_neurons \in Nat /\ num_input \in Nat /\ num_input < total_neurons
  BY <1>1, WalkOrder
<1>7. value = Values(weights, input)
  BY <1>2, <1>4, <1>5, <1>6, RunsAgree
<1>8. QED
  BY <1>1, <1>2, <1>7, RunIsLinear

(* The connections reported are all there is to set weights for.           *)
LEMMA WeightsAreSet ==
  ASSUME Built, pc = "done", NEW seed \in Nat
  PROVE  SetWeights(seed) \in [DOMAIN connections -> Int]
<1>1. LayersInARow /\ ConnectionsInPlace /\ ReportsMatch
  BY DoneInPlace, DoneAndReported DEF Built
<1>2. PICK total \in Nat : DOMAIN connections = 0 .. total - 1
  BY <1>1 DEF ConnectionsInPlace
<1>3. DOMAIN fann_get_connection_array = 0 .. total - 1
  BY <1>1, <1>2 DEF ReportsMatch
<1>4. \A c \in 0 .. total - 1 :
        /\ fann_get_connection_array[c].from_neuron = connections[c]
        /\ fann_get_connection_array[c].to_neuron = Destination(c)
  BY <1>3 DEF fann_get_connection_array
<1> DEFINE report == fann_get_connection_array
           hits(c) == {i \in DOMAIN report : /\ report[i].from_neuron = connections[c]
                                             /\ report[i].to_neuron = Destination(c)}
<1>5. ASSUME NEW c \in DOMAIN connections
      PROVE  Max(hits(c)) \in Int
  <2>1. hits(c) \in SUBSET (0 .. total - 1) /\ c \in hits(c)
    BY <1>2, <1>3, <1>4
  <2> HIDE DEF hits
  <2>2. hits(c) # {}
    BY <2>1
  <2>3. Max(hits(c)) \in hits(c)
    BY <2>1, <2>2, GreatestPlace
  <2>4. QED
    BY <2>1, <2>3
<1>6. \A x \in Int : Weight(seed, x) \in Int
  BY DEF Weight
<1>7. SetWeights(seed) = [c \in DOMAIN connections |-> Weight(seed, Max(hits(c)))]
  BY DEF SetWeights
<1> HIDE DEF hits, report
<1>8. QED
  BY <1>5, <1>6, <1>7

(* The network itself stays as it was built.                               *)
LEMMA SameNetwork ==
  ASSUME UNCHANGED vars
  PROVE  /\ pc' = pc /\ layers' = layers /\ connections' = connections
         /\ first_con' = first_con /\ last_con' = last_con
         /\ Neurons' = Neurons /\ Outputs' = Outputs /\ Receivers' = Receivers
         /\ num_input' = num_input /\ num_layers' = num_layers
         /\ total_neurons' = total_neurons
         /\ \A c : Destination(c)' = Destination(c)
         /\ \A n : Slots(n)' = Slots(n)
<1>1. /\ pc' = pc /\ layers' = layers /\ connections' = connections
      /\ first_con' = first_con /\ last_con' = last_con /\ network_type' = network_type
  BY DEF vars, shape
<1>2. /\ num_layers' = num_layers /\ num_input' = num_input
      /\ total_neurons' = total_neurons
  BY <1>1 DEF num_layers, num_input, total_neurons
<1>3. num_output' = num_output
  BY <1>1, <1>2 DEF num_output
<1>4. Neurons' = Neurons /\ Outputs' = Outputs /\ Receivers' = Receivers
  BY <1>1, <1>2, <1>3 DEF Neurons, Outputs, Receivers
<1>5. \A c : Destination(c)' = Destination(c)
  BY <1>1, <1>2 DEF Destination
<1>6. \A n : Slots(n)' = Slots(n)
  BY <1>1 DEF Slots
<1>7. QED
  BY <1>1, <1>2, <1>4, <1>5, <1>6

(* The steps of a run depend on the network and its weights alone.         *)
LEMMA SameRun ==
  ASSUME UNCHANGED vars, steepness' = steepness
  PROVE  /\ \A input : Entered(input)' = Entered(input)
         /\ weights' = weights => RunStep(weights)' = RunStep(weights)
<1>1. /\ layers' = layers /\ connections' = connections /\ network_type' = network_type
      /\ connection_rate' = connection_rate
      /\ first_con' = first_con /\ last_con' = last_con
  BY DEF vars, shape
<1>2. /\ total_neurons' = total_neurons /\ num_input' = num_input /\ Neurons' = Neurons
  BY SameNetwork
<1>3. \A input : Entered(input)' = Entered(input)
  BY <1>2 DEF Entered
<1>4. \A n : NumConnections(n)' = NumConnections(n)
  BY <1>1 DEF NumConnections
<1>5. \A n, i : Source(n, i)' = Source(n, i)
  BY <1>1 DEF Source, ByPosition, ByPointer
<1>6. ASSUME weights' = weights
      PROVE  \A v, n : NeuronValue(weights, v, n)' = NeuronValue(weights, v, n)
  BY <1>1, <1>4, <1>5, <1>6 DEF NeuronValue
<1>7. ASSUME weights' = weights
      PROVE  RunStep(weights)' = RunStep(weights)
  BY <1>2, <1>6, <1>7 DEF RunStep
<1>8. QED
  BY <1>3, <1>7


(* A weight is added what its slope and its last change say.               *)
LEMMA SlopesAreNumbers ==
  ASSUME Built, NetInv, stage = "backpropagated", NEW c \in DOMAIN connections
  PROVE  Slope(c, Source) \in Int
<1>1. LayersInARow /\ ConnectionsInPlace
  BY NetRuns DEF Runs
<1>2. train_errors \in [Neurons -> Int] /\ \A n \in Neurons : value[n] \in Int
  BY RunKnown DEF NetInv, HandsBack, DifferencesKnown
<1>3. Destination(c) \in Neurons /\ connections[c] \in Neurons
  BY <1>1 DEF ConnectionsInPlace
<1>4. \A x, y \in Int : x * y \in Int
  OBVIOUS
<1>5. Slope(c, Source) = train_errors[Destination(c)] * value[connections[c]]
  BY <1>1, SlopeOfConnection
<1>6. train_errors[Destination(c)] \in Int /\ value[connections[c]] \in Int
  BY <1>2, <1>3
<1>7. QED
  BY <1>4, <1>5, <1>6

(* Connections come from neurons.                                          *)
LEMMA SourcesAreNeurons ==
  ASSUME LayersInARow, ConnectionsInPlace, NEW n \in Neurons, NEW c \in Slots(n)
  PROVE  Sources(n) \in SUBSET Neurons
<1> DEFINE l == LayerOf(layers, n)
           f == layers[l].first
<1>1. num_input < n /\ n \in Nat /\ num_input \in Nat /\ total_neurons \in Nat
      /\ Neurons = 0 .. total_neurons - 1
  BY SourcesComeBefore DEF LayersInARow
<1>2. /\ l \in 1 .. num_layers /\ num_layers \in Nat
      /\ n \in layers[l].first .. layers[l].last - 1
      /\ f \in Nat /\ layers[1].last = num_input + 1 /\ layers[1].first = 0
  BY DEF LayersInARow, NeuronsIn
<1>3. l # 1
  BY <1>1, <1>2
<1> HIDE DEF l
<1>4. l - 1 \in 1 .. num_layers
  BY <1>2, <1>3
<1>5. CASE network_type = "LAYER"
  <2>1. \A m \in NeuronsIn(l - 1) : m \in Neurons
    BY <1>4 DEF LayersInARow
  <2>2. QED
    BY <1>5, <2>1 DEF Sources, l
<1>6. CASE network_type # "LAYER"
  <2>1. f <= n
    BY <1>1, <1>2
  <2> HIDE DEF f
  <2>2. 0 .. f - 1 \in SUBSET Neurons
    BY <1>1, <1>2, <2>1
  <2>3. QED
    BY <1>6, <2>2 DEF Sources, f, l
<1>7. QED
  BY <1>5, <1>6

(* What fann_update_weights reads in a sparse network is in the network:   *)
(* no neuron has more connections than there are neurons.                  *)
LEMMA UpdatesAreNumbers ==
  ASSUME Built, NetInv, stage = "backpropagated", NEW c \in DOMAIN connections
  PROVE  Slope(c, UpdateSource) \in Int
<1> DEFINE n == Destination(c)
           a == first_con[n]
           b == last_con[n]
<1>1. LayersInARow /\ ConnectionsInPlace /\ ConnectionsShared
  BY NetRuns, SharedByAll DEF Runs, Built
<1>2. train_errors \in [Neurons -> Int] /\ \A m \in Neurons : value[m] \in Int
  BY RunKnown DEF NetInv, HandsBack, DifferencesKnown
<1>3. n \in Neurons /\ c \in Slots(n) /\ a \in Nat /\ b \in Nat
  BY <1>1 DEF ConnectionsInPlace
<1>4. CASE connection_rate = Whole
  <2>1. \A m, i : UpdateSource(m, i) = Source(m, i)
    BY <1>4 DEF UpdateSource, Source
  <2>2. Slope(c, UpdateSource) = Slope(c, Source)
    BY <2>1 DEF Slope
  <2>3. QED
    BY <2>2, SlopesAreNumbers
<1>5. CASE connection_rate # Whole
  <2>1. UpdateSource(n, c - a) = c - a
    BY <1>5 DEF UpdateSource
  <2>2. Slope(c, UpdateSource) = train_errors[n] * value[c - a]
    BY <2>1 DEF Slope
  <2>3. Cardinality(Slots(n)) <= Cardinality(Sources(n)) /\ n \in Receivers
    <3>1. n \in Receivers
      BY <1>1, <1>3, SourcesComeBefore
    <3>2. pc # "start"
      BY DEF NetInv
    <3>3. QED
      BY <1>1, <3>1, <3>2 DEF ConnectionsShared
  <2> HIDE DEF n, a, b
  <2>4. Slots(n) = a .. b - 1 /\ c \in a .. b - 1
    BY <1>3 DEF Slots, a, b
  <2>5. Cardinality(Slots(n)) = b - a
    <3>1. a <= b - 1 /\ b - 1 \in Int
      BY <1>3, <2>4
    <3>2. Cardinality(a .. b - 1) = (b - 1) - a + 1
      BY <1>3, <3>1, FS_Interval
    <3>3. QED
      BY <1>3, <2>4, <3>2
  <2>6. Sources(n) \in SUBSET Neurons
    BY <1>1, <1>3, SourcesAreNeurons DEF n
  <2>7. IsFiniteSet(Neurons) /\ Cardinality(Neurons) = total_neurons /\ total_neurons \in Nat
        /\ Neurons = 0 .. total_neurons - 1
    <3>1. total_neurons \in Nat /\ total_neurons > 0 /\ Neurons = 0 .. total_neurons - 1
      BY <1>1 DEF LayersInARow
    <3>2. Cardinality(0 .. total_neurons - 1) = (total_neurons - 1) - 0 + 1
      BY <3>1, FS_Interval
    <3>3. QED
      BY <3>1, <3>2, FS_Interval
  <2>8. Cardinality(Sources(n)) <= total_neurons /\ Cardinality(Sources(n)) \in Nat
    BY <2>6, <2>7, FS_Subset, FS_CardinalityType
  <2>9. c - a \in Neurons
    BY <1>3, <2>3, <2>4, <2>5, <2>7, <2>8
  <2>10. \A x, y \in Int : x * y \in Int
    OBVIOUS
  <2>11. train_errors[n] \in Int /\ value[c - a] \in Int
    BY <1>2, <1>3, <2>9
  <2>12. QED
    BY <2>2, <2>10, <2>11
<1>6. QED
  BY <1>4, <1>5

-----------------------------------------------------------------------------
(* The calls keep what is known                                            *)

LEMMA SetWeightsKeeps ==
  ASSUME Built, NetInv, PropagationAssumption, fann_set_weight_array
  PROVE  NetInv'
<1>1. PICK seed \in Seeds :
        /\ pc = "done" /\ stage' = "ready"
        /\ weights' = SetWeights(seed)
        /\ steepness' = [n \in Neurons |->
                           IF NumConnections(n) = 0 THEN 0 ELSE 1 + ((n + seed) % 2)]
        /\ train_slopes' = Zero(DOMAIN connections)
        /\ prev_weights_deltas' = Zero(DOMAIN connections)
        /\ rounds' = 0 /\ UNCHANGED vars
  BY DEF fann_set_weight_array
<1>2. seed \in Nat
  BY DEF PropagationAssumption
<1>3. /\ pc' = "done" /\ connections' = connections /\ Neurons' = Neurons
      /\ Receivers' = Receivers
  BY <1>1, SameNetwork
<1>4. Numbers(weights)' /\ Numbers(train_slopes)' /\ Numbers(prev_weights_deltas)'
  BY <1>1, <1>2, <1>3, WeightsAreSet DEF Numbers, Zero
<1>5. LayersInARow /\ ConnectionsInPlace
  BY <1>1, DoneInPlace DEF Built
<1>6. ASSUME NEW n \in Neurons
      PROVE  steepness'[n] \in Nat /\ (n \in Receivers => steepness'[n] >= 1)
  <2>1. n \in Int /\ first_con[n] \in Nat /\ last_con[n] \in Nat
    BY <1>5 DEF LayersInARow, ConnectionsInPlace
  <2>2. n \in Receivers => NumConnections(n) # 0
    BY <2>1 DEF Receivers, NumConnections
  <2>3. (n + seed) % 2 \in 0 .. 1
    BY <1>2, <2>1
  <2>4. steepness'[n] = IF NumConnections(n) = 0 THEN 0 ELSE 1 + ((n + seed) % 2)
    BY <1>1
  <2>5. QED
    BY <2>2, <2>3, <2>4
<1>7. \A n \in Neurons' : Steep(n)'
  BY <1>3, <1>6 DEF Steep
<1>8. QED
  BY <1>1, <1>3, <1>4, <1>7 DEF NetInv

(* Each operation keeps the invariant: fann_run,                           *)
LEMMA RunKeeps ==
  ASSUME Built, NetInv, PropagationAssumption, fann_run
  PROVE  NetInv'
<1>1. PICK seed \in Seeds :
        /\ stage = "ready" /\ stage' = "ran"
        /\ value' = Values(weights, [i \in 0 .. num_input - 1 |-> Input(seed, i)])
        /\ desired_output' = [k \in Outputs |-> Desired(seed, k)]
        /\ rounds' = rounds + 1
        /\ UNCHANGED <<vars, steepness, trained>>
  BY DEF fann_run
<1> DEFINE input == [i \in 0 .. num_input - 1 |-> Input(seed, i)]
<1>2. seed \in Nat /\ rounds \in Nat /\ Runs(weights) /\ LayersInARow
  BY <1>1, NetRuns DEF PropagationAssumption, NetInv, Runs
<1>3. /\ pc' = pc /\ connections' = connections /\ Neurons' = Neurons
      /\ Outputs' = Outputs /\ Receivers' = Receivers /\ num_input' = num_input
      /\ total_neurons' = total_neurons
  BY <1>1, SameNetwork
<1>4. /\ weights' = weights /\ steepness' = steepness /\ train_slopes' = train_slopes
      /\ prev_weights_deltas' = prev_weights_deltas
  BY <1>1 DEF trained
<1>5. \A i \in 0 .. num_input - 1 : input[i] \in Int
  <2>1. num_input \in Nat
    BY <1>2 DEF LayersInARow
  <2>2. ASSUME NEW i \in 0 .. num_input - 1 PROVE Input(seed, i) \in Int
    <3>1. i \in Int /\ i + seed + rounds \in Int
      BY <1>2, <2>1
    <3>2. QED
      BY <3>1 DEF Input
  <2>3. QED
    BY <2>2
<1> HIDE DEF input
<1>6. Entered(input) \in Reached(total_neurons)
  BY <1>2, <1>5, EnteredIsReached
<1>7. IsRun(value', Entered(input), RunStep(weights), num_input, total_neurons)
  BY <1>1, <1>2, <1>6, ValuesAreRun DEF input
<1>14. PICK given : /\ \A i \in 0 .. num_input - 1 : given[i] \in Int
                    /\ IsRun(value', Entered(given), RunStep(weights), num_input, total_neurons)
  BY <1>5, <1>7
<1>8. RunStep(weights)' = RunStep(weights) /\ Entered(given)' = Entered(given)
  BY <1>1, <1>4, SameRun
<1>9. \A k \in Outputs : desired_output'[k] \in Int
  <2>1. \A k \in Outputs : k \in Int
    BY <1>2 DEF LayersInARow, NeuronsIn
  <2>2. ASSUME NEW k \in Outputs PROVE Desired(seed, k) \in Int
    BY <1>2, <2>1 DEF Desired
  <2>3. QED
    BY <1>1, <2>2
<1>10. HasRun'
  BY <1>3, <1>14, <1>8, <1>9 DEF HasRun
<1>11. \A n \in Neurons' : Steep(n)'
  BY <1>1, <1>3, <1>4 DEF Steep, NetInv
<1>12. Numbers(weights)' /\ Numbers(train_slopes)' /\ Numbers(prev_weights_deltas)'
  BY <1>1, <1>3, <1>4 DEF Numbers, NetInv
<1>13. QED
  BY <1>1, <1>2, <1>3, <1>10, <1>11, <1>12 DEF NetInv

(* fann_compute_MSE,                                                       *)
LEMMA ComparingKeeps ==
  ASSUME Built, NetInv, fann_compute_MSE
  PROVE  NetInv'
<1>1. /\ stage = "ran" /\ stage' = "compared"
      /\ train_errors' = [n \in Neurons |->
           IF n \in Outputs THEN fann_activation_derived(n) * diff(n) ELSE 0]
      /\ UNCHANGED <<vars, steepness, value, trained, desired_output, rounds>>
  BY DEF fann_compute_MSE
<1>2. Runs(weights) /\ LayersInARow /\ DifferencesKnown
  BY <1>1, NetRuns, RunKnown DEF Runs
<1>3. /\ pc' = pc /\ connections' = connections /\ Neurons' = Neurons
      /\ Outputs' = Outputs /\ Receivers' = Receivers /\ num_input' = num_input
      /\ total_neurons' = total_neurons
  BY <1>1, SameNetwork
<1>4. /\ weights' = weights /\ steepness' = steepness /\ train_slopes' = train_slopes
      /\ prev_weights_deltas' = prev_weights_deltas /\ value' = value
      /\ desired_output' = desired_output /\ rounds' = rounds
  BY <1>1 DEF trained
<1>5. OutputDiff' = OutputDiff
  BY <1>3, <1>4 DEF OutputDiff, diff
<1>6. train_errors' = [n \in Neurons |-> steepness[n] * OutputDiff[n]]
  <2>1. \A n \in Neurons : steepness[n] * 0 = 0
    BY <1>2 DEF Runs, Steep
  <2>2. \A n \in Neurons : (IF n \in Outputs THEN steepness[n] * diff(n) ELSE 0)
                             = steepness[n] * OutputDiff[n]
    BY <2>1 DEF OutputDiff
  <2>3. QED
    BY <1>1, <2>2 DEF fann_activation_derived
<1>7. HasRun'
  <2>1. RunStep(weights)' = RunStep(weights) /\ \A input : Entered(input)' = Entered(input)
    BY <1>1, <1>4, SameRun
  <2>2. HasRun
    BY <1>1 DEF NetInv
  <2>3. QED
    BY <1>3, <1>4, <2>1, <2>2 DEF HasRun
<1>8. \A n \in Neurons' : Steep(n)'
  BY <1>1, <1>3, <1>4 DEF Steep, NetInv
<1>9. Numbers(weights)' /\ Numbers(train_slopes)' /\ Numbers(prev_weights_deltas)'
  BY <1>1, <1>3, <1>4 DEF Numbers, NetInv
<1>10. QED
  BY <1>1, <1>3, <1>4, <1>5, <1>6, <1>7, <1>8, <1>9 DEF NetInv

(* fann_backpropagate_MSE,                                                 *)
LEMMA BackpropagatingKeeps ==
  ASSUME Built, NetInv, fann_backpropagate_MSE
  PROVE  NetInv'
<1>1. /\ stage = "compared" /\ stage' = "backpropagated"
      /\ train_errors' = FoldLeft(Backpropagated, train_errors,
                                  [k \in 1 .. num_layers - 2 |-> num_layers + 1 - k])
      /\ UNCHANGED <<vars, steepness, value, trained, desired_output, rounds>>
  BY DEF fann_backpropagate_MSE
<1>2. Runs(weights) /\ LayersInARow /\ DifferencesKnown
  BY <1>1, NetRuns, RunKnown DEF Runs
<1>3. /\ pc' = pc /\ connections' = connections /\ Neurons' = Neurons
      /\ Outputs' = Outputs /\ Receivers' = Receivers /\ num_input' = num_input
      /\ total_neurons' = total_neurons
      /\ \A c : Destination(c)' = Destination(c)
  BY <1>1, SameNetwork
<1>4. /\ weights' = weights /\ steepness' = steepness /\ train_slopes' = train_slopes
      /\ prev_weights_deltas' = prev_weights_deltas /\ value' = value
      /\ desired_output' = desired_output /\ rounds' = rounds
  BY <1>1 DEF trained
<1>5. OutputDiff' = OutputDiff
  BY <1>3, <1>4 DEF OutputDiff, diff
<1>6. HandsBack(train_errors', weights, OutputDiff)
  <2>1. train_errors = [n \in Neurons |-> steepness[n] * OutputDiff[n]]
    BY <1>1 DEF NetInv
  <2>2. /\ OutputDiff \in [Neurons -> Int]
        /\ \A n \in Neurons : n < layers[num_layers].first => OutputDiff[n] = 0
    BY <1>2, DifferencesAreNumbers
  <2>3. QED
    BY <1>1, <1>2, <2>1, <2>2, BackpropagationHandsBack
<1>7. HandsBack(train_errors, weights, OutputDiff)'
  <2>1. ASSUME NEW n
        PROVE  HandedTo(train_errors, weights, n)' = HandedTo(train_errors', weights, n)
    BY <1>3, <1>4 DEF HandedTo
  <2>2. QED
    BY <1>3, <1>4, <1>5, <1>6, <2>1 DEF HandsBack
<1>8. HasRun'
  <2>1. RunStep(weights)' = RunStep(weights) /\ \A input : Entered(input)' = Entered(input)
    BY <1>1, <1>4, SameRun
  <2>2. HasRun
    BY <1>1 DEF NetInv
  <2>3. QED
    BY <1>3, <1>4, <2>1, <2>2 DEF HasRun
<1>9. \A n \in Neurons' : Steep(n)'
  BY <1>1, <1>3, <1>4 DEF Steep, NetInv
<1>10. Numbers(weights)' /\ Numbers(train_slopes)' /\ Numbers(prev_weights_deltas)'
  BY <1>1, <1>3, <1>4 DEF Numbers, NetInv
<1>11. QED
  BY <1>1, <1>3, <1>4, <1>7, <1>8, <1>9, <1>10 DEF NetInv

(* fann_update_slopes_batch and fann_update_weights.                       *)
LEMMA UpdatesKeep ==
  ASSUME Built, NetInv, PropagationAssumption,
         fann_update_slopes_batch \/ fann_update_weights
  PROVE  NetInv'
<1>1. /\ stage = "backpropagated" /\ stage' = "ready"
      /\ UNCHANGED <<vars, steepness, rounds>>
  BY DEF fann_update_slopes_batch, fann_update_weights
<1>2. /\ pc' = pc /\ connections' = connections /\ Neurons' = Neurons
      /\ Receivers' = Receivers
  BY <1>1, SameNetwork
<1>3. Numbers(weights) /\ Numbers(train_slopes) /\ Numbers(prev_weights_deltas)
  BY <1>1 DEF NetInv
<1>4. \A n \in Neurons' : Steep(n)'
  BY <1>1, <1>2 DEF Steep, NetInv
<1>5. Numbers(weights)' /\ Numbers(train_slopes)' /\ Numbers(prev_weights_deltas)'
  <2>1. CASE fann_update_slopes_batch
    <3>1. /\ train_slopes' = [c \in DOMAIN connections |-> train_slopes[c] + Slope(c, Source)]
          /\ weights' = weights /\ prev_weights_deltas' = prev_weights_deltas
      BY <2>1 DEF fann_update_slopes_batch
    <3>2. \A c \in DOMAIN connections : Slope(c, Source) \in Int /\ train_slopes[c] \in Int
      BY <1>1, <1>3, SlopesAreNumbers DEF Numbers
    <3>3. QED
      BY <1>2, <1>3, <3>1, <3>2 DEF Numbers
  <2>2. CASE fann_update_weights
    <3> DEFINE delta(c) == LearningRate * Slope(c, UpdateSource)
                             + LearningMomentum * prev_weights_deltas[c]
    <3>1. /\ weights' = [c \in DOMAIN connections |->
               weights[c] + [d \in DOMAIN connections |-> delta(d)][c]]
          /\ prev_weights_deltas' = [c \in DOMAIN connections |-> delta(c)]
          /\ train_slopes' = train_slopes
      BY <2>2 DEF fann_update_weights
    <3>2. ASSUME NEW c \in DOMAIN connections
          PROVE  delta(c) \in Int /\ weights[c] \in Int
      <4>1. Slope(c, UpdateSource) \in Int /\ prev_weights_deltas[c] \in Int
            /\ weights[c] \in Int
        BY <1>1, <1>3, UpdatesAreNumbers DEF Numbers
      <4>2. LearningRate \in Int /\ LearningMomentum \in Int
        BY DEF PropagationAssumption
      <4>3. \A r, m, x, y \in Int : r * x + m * y \in Int
        OBVIOUS
      <4>4. QED
        BY <4>1, <4>2, <4>3
    <3> HIDE DEF delta
    <3>3. QED
      BY <1>2, <1>3, <3>1, <3>2 DEF Numbers
  <2>3. QED
    BY <2>1, <2>2
<1>6. QED
  BY <1>1, <1>2, <1>4, <1>5 DEF NetInv

(* Every step keeps it.                                                    *)
LEMMA NetSteps ==
  ASSUME Built, NetInv, PropagationAssumption, [PropagationNext]_all
  PROVE  NetInv'
<1>1. CASE Creating /\ UNCHANGED <<stage, net>>
  <2>1. pc # "done"
    <3>1. fann_create_sparse_array => pc = "start"
      BY DEF fann_create_sparse_array
    <3>2. fann_create_shortcut_array => pc = "start"
      BY DEF fann_create_shortcut_array
    <3>3. ConnectBias => pc = "bias"
      BY DEF ConnectBias
    <3>4. ConnectInput => pc = "inputs"
      BY DEF ConnectInput
    <3>5. ConnectRest => pc = "fill"
      BY DEF ConnectRest
    <3>6. QED
      BY <1>1, <3>1, <3>2, <3>3, <3>4, <3>5 DEF Creating
  <2>2. stage' = "none"
    BY <1>1, <2>1 DEF NetInv
  <2>3. QED
    BY <2>2 DEF NetInv
<1>2. CASE Using
  BY <1>2, SetWeightsKeeps, RunKeeps, ComparingKeeps, BackpropagatingKeeps, UpdatesKeep
     DEF Using
<1>3. CASE fann_destroy /\ Forget
  BY <1>3 DEF Forget, NetInv
<1>4. CASE UNCHANGED all
  <2>1. UNCHANGED vars /\ UNCHANGED net /\ stage' = stage
    BY <1>4 DEF all
  <2>2. CASE stage = "none"
    BY <2>1, <2>2 DEF NetInv
  <2>3. CASE stage # "none"
    <3>1. /\ pc' = pc /\ connections' = connections /\ Neurons' = Neurons
          /\ Outputs' = Outputs /\ Receivers' = Receivers /\ num_input' = num_input
          /\ total_neurons' = total_neurons
          /\ \A c : Destination(c)' = Destination(c)
      BY <2>1, SameNetwork
    <3>2. /\ weights' = weights /\ steepness' = steepness /\ train_slopes' = train_slopes
          /\ prev_weights_deltas' = prev_weights_deltas /\ value' = value
          /\ train_errors' = train_errors
          /\ desired_output' = desired_output /\ rounds' = rounds
      BY <2>1 DEF net
    <3>3. OutputDiff' = OutputDiff
      BY <3>1, <3>2 DEF OutputDiff, diff
    <3>4. RunStep(weights)' = RunStep(weights) /\ \A input : Entered(input)' = Entered(input)
      BY <2>1, <3>2, SameRun
    <3>5. HasRun => HasRun'
      BY <3>1, <3>2, <3>4 DEF HasRun
    <3>6. HandsBack(train_errors, weights, OutputDiff)
            => HandsBack(train_errors, weights, OutputDiff)'
      <4>1. \A n : HandedTo(train_errors, weights, n)' = HandedTo(train_errors, weights, n)
        BY <3>1, <3>2 DEF HandedTo
      <4>2. QED
        BY <3>1, <3>2, <3>3, <4>1 DEF HandsBack
    <3>7. \A n \in Neurons' : Steep(n)'
      BY <2>3, <3>1, <3>2 DEF Steep, NetInv
    <3>8. Numbers(weights)' /\ Numbers(train_slopes)' /\ Numbers(prev_weights_deltas)'
      BY <2>3, <3>1, <3>2 DEF Numbers, NetInv
    <3>9. stage = "compared" =>
            train_errors' = [n \in Neurons' |-> steepness'[n] * (OutputDiff')[n]]
      BY <2>3, <3>1, <3>2, <3>3 DEF NetInv
    <3>10. QED
      BY <2>1, <2>3, <3>1, <3>2, <3>5, <3>6, <3>7, <3>8, <3>9 DEF NetInv
  <2>4. QED
    BY <2>2, <2>3
<1>5. QED
  BY <1>1, <1>2, <1>3, <1>4 DEF PropagationNext

(* Using a network is no part of building it: all that is proved of the    *)
(* networks NetworkCreation builds holds of those that are run and trained.*)
THEOREM TrainedNetworksAreBuilt == PropagationSpec => Spec
<1>1. PropagationInit => Init
  BY DEF PropagationInit
<1>2. [PropagationNext]_all => [Next]_vars
  <2> SUFFICES ASSUME [PropagationNext]_all PROVE [Next]_vars
    OBVIOUS
  <2>1. CASE Using
    <3>1. UNCHANGED vars
      BY <2>1 DEF Using, fann_set_weight_array, fann_run, fann_compute_MSE,
         fann_backpropagate_MSE, fann_update_slopes_batch, fann_update_weights
    <3>2. QED
      BY <3>1
  <2>2. CASE Creating
    BY <2>2 DEF Next
  <2>3. CASE fann_destroy
    BY <2>3 DEF Next
  <2>4. CASE UNCHANGED all
    BY <2>4 DEF all
  <2>5. QED
    BY <2>1, <2>2, <2>3, <2>4 DEF PropagationNext
<1>3. QED
  BY <1>1, <1>2, PTL DEF PropagationSpec, Spec

(* Between the operations every connection has an integer weight and       *)
(* slope, and the values and errors are what fann_run, fann_compute_MSE    *)
(* and fann_backpropagate_MSE made of the weights.                         *)
THEOREM NetInvariant ==
  ASSUME ProductsFit
  PROVE  PropagationSpec => [](Built /\ NetInv)
<1>1. PropagationInit => NetInv
  BY DEF PropagationInit, Blank, NetInv
<1>2. Built /\ NetInv /\ [PropagationNext]_all => NetInv'
  BY NetSteps, PropagationAssumption
<1>3. Spec => []Built
  <2>1. Spec => [](DividedInv /\ WiringInv)
    BY NetworkInvariant
  <2>2. DividedInv /\ WiringInv => Built
    BY DEF Built
  <2>3. QED
    BY <2>1, <2>2, PTL
<1>4. PropagationSpec => Spec
  BY TrainedNetworksAreBuilt
<1>5. QED
  BY <1>1, <1>2, <1>3, <1>4, PTL DEF PropagationSpec

(* fann_run computes, for every network that can be built and whatever its *)
(* weights, the weighted sums over the connections on record, if none is   *)
(* cut off.                                                                *)
THEOREM RunsAreWeightedSums ==
  ASSUME ProductsFit
  PROVE  PropagationSpec => []RunIsWeightedSum
<1>1. Built /\ NetInv => RunIsWeightedSum
  BY RunAndLinear DEF RunIsWeightedSum
<1>2. PropagationSpec => [](Built /\ NetInv)
  BY NetInvariant
<1>3. QED
  BY <1>1, <1>2, PTL

(* After backpropagation the slope of each connection is the derivative.   *)
LEMMA SlopesAreGradients ==
  ASSUME Built, NetInv, stage = "backpropagated", Unclipped,
         NEW c \in DOMAIN connections
  PROVE  Slope(c, Source) = Gradient(c) /\ Gradient(c) \in Int
<1>1. Runs(weights) /\ ConnectionsInPlace /\ DifferencesKnown
  BY NetRuns, RunKnown DEF Runs
<1>2. value = LinearValues(weights)
  BY RunAndLinear
<1>3. weights \in [DOMAIN connections -> Int] /\ HandsBack(train_errors, weights, OutputDiff)
  BY DEF NetInv, Numbers
<1>4. Gradient(c) = train_errors[Destination(c)] * value[connections[c]]
  BY <1>1, <1>2, <1>3, SlopeIsGradient
<1>5. Slope(c, Source) = train_errors[Destination(c)] * value[connections[c]]
  BY <1>1, SlopeOfConnection
<1>6. Slope(c, Source) \in Int
  BY SlopesAreNumbers
<1>7. QED
  BY <1>4, <1>5, <1>6

(* fann_backpropagate_MSE and fann_update_slopes_batch add to the slope of *)
(* each connection the derivative of the error by its weight: in networks  *)
(* of any depth, layered, shortcut or sparse.                              *)
THEOREM BackpropagationIsDerivative ==
  ASSUME ProductsFit
  PROVE  PropagationSpec => SlopesAreDerivatives
<1>1. Built /\ NetInv
        => (fann_update_slopes_batch /\ Unclipped =>
              \A c \in DOMAIN connections : train_slopes'[c] - train_slopes[c] = Gradient(c))
  <2> SUFFICES ASSUME Built, NetInv, fann_update_slopes_batch, Unclipped,
                      NEW c \in DOMAIN connections
               PROVE  train_slopes'[c] - train_slopes[c] = Gradient(c)
    OBVIOUS
  <2>1. /\ stage = "backpropagated"
        /\ train_slopes' = [d \in DOMAIN connections |-> train_slopes[d] + Slope(d, Source)]
    BY DEF fann_update_slopes_batch
  <2>2. Slope(c, Source) = Gradient(c) /\ Gradient(c) \in Int
    BY <2>1, SlopesAreGradients
  <2>3. train_slopes[c] \in Int
    BY <2>1 DEF NetInv, Numbers
  <2>4. train_slopes'[c] = train_slopes[c] + Gradient(c)
    BY <2>1, <2>2
  <2>5. QED
    BY <2>2, <2>3, <2>4
<1>2. PropagationSpec => [](Built /\ NetInv)
  BY NetInvariant
<1>3. QED
  BY <1>1, <1>2, PTL DEF SlopesAreDerivatives

(* Incremental training of a fully connected network moves each weight     *)
(* along that derivative (fann_update_weights).                            *)
THEOREM IncrementalIsDescent ==
  ASSUME ProductsFit
  PROVE  PropagationSpec => IncrementalFollowsGradient
<1>1. Built /\ NetInv
        => (fann_update_weights /\ Unclipped /\ connection_rate = Whole => FollowsGradient)
  <2> SUFFICES ASSUME Built, NetInv, fann_update_weights, Unclipped,
                      connection_rate = Whole, NEW c \in DOMAIN connections
               PROVE  weights'[c] - weights[c] =
                        LearningRate * Gradient(c) + LearningMomentum * prev_weights_deltas[c]
    BY DEF FollowsGradient
  <2> DEFINE delta(d) == LearningRate * Slope(d, UpdateSource)
                           + LearningMomentum * prev_weights_deltas[d]
  <2>1. /\ stage = "backpropagated"
        /\ weights' = [d \in DOMAIN connections |->
             weights[d] + [b \in DOMAIN connections |-> delta(b)][d]]
    BY DEF fann_update_weights
  <2>2. Slope(c, UpdateSource) = Gradient(c) /\ Gradient(c) \in Int
    <3>1. \A n, i : UpdateSource(n, i) = Source(n, i)
      BY DEF UpdateSource, Source
    <3>2. Slope(c, UpdateSource) = Slope(c, Source)
      BY <3>1 DEF Slope
    <3>3. QED
      BY <2>1, <3>2, SlopesAreGradients
  <2>3. weights[c] \in Int /\ prev_weights_deltas[c] \in Int
    BY <2>1 DEF NetInv, Numbers
  <2>4. LearningRate \in Int /\ LearningMomentum \in Int
    BY PropagationAssumption
  <2>5. delta(c) \in Int
    <3>1. \A r, m, x, y \in Int : r * x + m * y \in Int
      OBVIOUS
    <3>2. QED
      BY <2>2, <2>3, <2>4, <3>1
  <2>6. weights'[c] = weights[c] + delta(c)
    BY <2>1
  <2>7. delta(c) = LearningRate * Gradient(c) + LearningMomentum * prev_weights_deltas[c]
    BY <2>2
  <2> HIDE DEF delta
  <2>8. weights'[c] - weights[c] = delta(c)
    BY <2>3, <2>5, <2>6
  <2>9. QED
    BY <2>7, <2>8
<1>2. PropagationSpec => [](Built /\ NetInv)
  BY NetInvariant
<1>3. QED
  BY <1>1, <1>2, PTL DEF IncrementalFollowsGradient


-----------------------------------------------------------------------------
(* Shortcut networks, and runs in which nothing is cut off                 *)

(* The last layer of a shortcut network is its outputs, and they have the  *)
(* last of the connections.                                                *)
OutputsAtEnd ==
  /\ connection_rate = Whole
  /\ FirstOutput \in Nat /\ num_input < FirstOutput /\ FirstOutput < total_neurons
  /\ FirstOutput = total_neurons - num_output /\ num_output \in Nat
  /\ Outputs = FirstOutput .. total_neurons - 1
  /\ total_connections \in Nat /\ DOMAIN connections = 0 .. total_connections - 1
  /\ first_con[FirstOutput] \in Nat
  /\ \A c \in DOMAIN connections :
       /\ c >= first_con[FirstOutput] <=> Destination(c) >= FirstOutput
       /\ Destination(c) >= FirstOutput <=> Destination(c) \in Outputs

(* Every shortcut network that is done is like that.                       *)
LEMMA ShortcutsEndInOutputs ==
  ASSUME Built, pc = "done", network_type = "SHORTCUT"
  PROVE  OutputsAtEnd
<1>1. PICK L, N, total :
        /\ NetworkOf(L, N, total)
        /\ FansIn(network_type, connection_rate, layers, first_con, last_con)
  BY NetworkDone DEF Built
<1>2. LayersInARow /\ ConnectionsInPlace
  BY DoneInPlace DEF Built
<1> DEFINE f == FirstOutput
           at == Begins(first_con, N, total)
<1>3. L = num_layers /\ N = total_neurons
  BY <1>1, LayersOfDone
<1>4. /\ N \in Nat /\ total \in Nat /\ DOMAIN connections = 0 .. total - 1
      /\ Row(at, N) /\ \A n \in 0 .. N - 1 : last_con[n] = at[n + 1]
  BY <1>1 DEF NetworkOf, Ranges
<1>5. total_connections = total
  <2>1. Cardinality(0 .. total - 1) = total - 0
    <3>1. 0 \in Int /\ total \in Int /\ 0 <= total
      BY <1>4
    <3>2. QED
      BY <3>1, Distance
  <2>2. QED
    BY <1>4, <2>1 DEF total_connections
<1>6. /\ f \in Nat /\ num_input < f /\ f < N /\ f = N - num_output /\ num_output \in Nat
      /\ Outputs = f .. N - 1
  <2>1. /\ layers[num_layers].last = N /\ f \in Nat /\ f < N
        /\ layers[1].last <= f /\ layers[1].last = num_input + 1 /\ num_input \in Nat
    <3>1. 1 \in 1 .. num_layers /\ num_layers \in 1 .. num_layers /\ 1 < num_layers
      BY <1>2 DEF LayersInARow
    <3>2. QED
      BY <1>2, <1>3, <3>1 DEF LayersInARow, FirstOutput
  <2>2. num_output = N - f
    BY <2>1, <1>4 DEF num_output, FirstOutput
  <2>3. Outputs = f .. f + num_output - 1
    BY DEF Outputs, FirstOutput
  <2> HIDE DEF f
  <2>4. QED
    BY <1>4, <2>1, <2>2, <2>3
<1>7. connection_rate = Whole
  BY DEF Built, DividedInv, Divided
<1>8. at[f] = first_con[f] /\ first_con[f] \in Nat
  <2>1. f \in 0 .. N /\ f < N
    BY <1>4, <1>6
  <2>2. at[f] = first_con[f]
    BY <2>1 DEF Begins
  <2> HIDE DEF at, f
  <2>3. at[f] \in Nat
    BY <1>4, <2>1 DEF Row
  <2>4. QED
    BY <2>2, <2>3
<1>9. ASSUME NEW c \in DOMAIN connections
      PROVE  /\ c >= first_con[f] <=> Destination(c) >= f
             /\ Destination(c) >= f <=> Destination(c) \in Outputs
  <2> DEFINE d == Destination(c)
  <2>1. d \in 0 .. N - 1 /\ c \in Slots(d)
    BY <1>2, <1>3 DEF ConnectionsInPlace, LayersInARow
  <2>2. c \in first_con[d] .. last_con[d] - 1
    BY <2>1 DEF Slots
  <2> HIDE DEF d
  <2>3. first_con[d] = at[d] /\ last_con[d] = at[d + 1]
    BY <1>4, <2>1 DEF Begins
  <2> HIDE DEF at, f
  <2>4. \A a, b \in 0 .. N : a <= b => at[a] <= at[b]
    BY <1>4, RowGrows
  <2>5. /\ d \in 0 .. N /\ d + 1 \in 0 .. N /\ f \in 0 .. N /\ d \in Int /\ f \in Int
        /\ (f <= d \/ d + 1 <= f)
    BY <1>4, <1>6, <2>1
  <2>6. at[d] \in Nat /\ at[d + 1] \in Nat
    BY <1>4, <2>5 DEF Row
  <2>7. c \in Int /\ at[d] <= c /\ c < at[d + 1]
    BY <2>2, <2>3, <2>6
  <2>8. d >= f => c >= at[f]
    <3>1. d >= f => at[f] <= at[d]
      BY <2>4, <2>5
    <3>2. QED
      BY <1>8, <2>6, <2>7, <3>1
  <2>9. ~(d >= f) => ~(c >= at[f])
    <3>1. ~(d >= f) => at[d + 1] <= at[f]
      BY <2>4, <2>5
    <3>2. QED
      BY <1>8, <2>6, <2>7, <3>1
  <2>10. d >= f <=> d \in Outputs
    BY <1>4, <1>6, <2>1
  <2>11. QED
    BY <1>8, <2>8, <2>9, <2>10 DEF d
<1>10. QED
  BY <1>3, <1>4, <1>5, <1>6, <1>7, <1>8, <1>9 DEF OutputsAtEnd

(* If no sum of the linear network is cut off, fann_run computes it.       *)
LEMMA NothingCutOff ==
  ASSUME NEW w, Runs(w), NEW input, \A i \in 0 .. num_input - 1 : input[i] \in Int,
         \A n \in Receivers : Within(LinearValuesFrom(w, input)[n], steepness[n])
  PROVE  Values(w, input) = LinearValuesFrom(w, input)
<1> DEFINE v == LinearValuesFrom(w, input)
           N == total_neurons
           K == num_input
<1>1. /\ LayersInARow /\ N \in Nat /\ K \in Nat /\ K < N /\ Neurons = 0 .. N - 1
  BY WalkOrder DEF Runs, LayersInARow
<1>2. Entered(input) \in Reached(N)
  BY <1>1, EnteredIsReached
<1>3. /\ IsRun(v, Entered(input), LinearStep(w), K, N)
      /\ IsRun(Values(w, input), Entered(input), RunStep(w), K, N)
      /\ ReadsBefore(RunStep(w), N)
  BY <1>2, LinearIsRun, ValuesAreRun, RunStepIsGood
<1>4. v \in Reached(N)
  BY <1>3 DEF IsRun
<1>5. ASSUME NEW n \in K + 1 .. N - 1
      PROVE  v[n] = RunStep(w)[<<v, n>>]
  <2>1. n \in 0 .. N - 1 /\ n \in Neurons
    BY <1>1
  <2>2. v[n] = LinearStep(w)[<<v, n>>]
    BY <1>3 DEF IsRun
  <2>3. LinearStep(w)[<<v, n>>]
          = IF n \in Receivers THEN steepness[n] * WeightedSum(w, v, n) ELSE 1
    BY <1>4, <2>1, LinearStepIsGood
  <2>4. RunStep(w)[<<v, n>>] = NeuronValue(w, v, n)
    BY <1>4, <2>1, RunStepIsGood
  <2>5. CASE n \notin Receivers
    <3>1. NeuronValue(w, v, n) = 1
      BY <1>4, <2>1, <2>5, ValueOfNeuron
    <3>2. QED
      BY <2>2, <2>3, <2>4, <2>5, <3>1
  <2>6. CASE n \in Receivers
    <3> DEFINE x == steepness[n] * WeightedSum(w, v, n)
               b == 150 \div steepness[n]
    <3>1. NeuronValue(w, v, n) = Clipped(x, b) /\ x \in Int /\ b \in Nat
      BY <1>4, <2>1, <2>6, ValueOfNeuron
    <3>2. v[n] = x
      BY <2>2, <2>3, <2>6
    <3>3. Within(v[n], steepness[n])
      BY <2>6
    <3> HIDE DEF v
    <3>4. -b < v[n] /\ v[n] < b
      BY <3>3 DEF Within
    <3> HIDE DEF x, b
    <3>5. Clipped(x, b) = x
      BY <3>1, <3>2, <3>4, ClippedSum
    <3>6. QED
      BY <2>4, <3>1, <3>2, <3>5
  <2>7. QED
    BY <2>5, <2>6
<1> HIDE DEF v
<1>6. IsRun(v, Entered(input), RunStep(w), K, N)
  BY <1>3, <1>5 DEF IsRun
<1>7. Values(w, input) = v
  BY <1>1, <1>3, <1>6, RunsAgree
<1>8. QED
  BY <1>7 DEF v

(* Weights behind those of the network's connections are not part of it.   *)
LEMMA OthersDoNotMatter ==
  ASSUME NEW w, Runs(w), NEW wa, \A c \in DOMAIN connections : wa[c] = w[c],
         NEW input, \A i \in 0 .. num_input - 1 : input[i] \in Int
  PROVE  LinearValuesFrom(wa, input) = LinearValuesFrom(w, input)
<1>1. /\ LayersInARow /\ ConnectionsInPlace /\ Runs(wa)
      /\ total_neurons \in Nat /\ num_input \in Nat /\ num_input < total_neurons
      /\ Neurons = 0 .. total_neurons - 1
  BY WalkOrder DEF Runs, LayersInARow, IntsOn
<1>2. \A v, n : n \in Neurons => WeightedSum(wa, v, n) = WeightedSum(w, v, n)
  <2> TAKE v, n
  <2> HAVE n \in Neurons
  <2>1. \A c \in Slots(n) : c \in DOMAIN connections
    BY <1>1 DEF ConnectionsInPlace
  <2>2. [c \in Slots(n) |-> wa[c] * v[connections[c]]]
          = [c \in Slots(n) |-> w[c] * v[connections[c]]]
    BY <2>1
  <2>3. QED
    BY <2>2 DEF WeightedSum
<1>3. LinearStep(wa) = LinearStep(w)
  <2>1. \A p \in Reached(total_neurons) \X (0 .. total_neurons - 1) :
          (IF p[2] \in Receivers THEN steepness[p[2]] * WeightedSum(wa, p[1], p[2]) ELSE 1)
            = (IF p[2] \in Receivers THEN steepness[p[2]] * WeightedSum(w, p[1], p[2]) ELSE 1)
    BY <1>1, <1>2
  <2>2. QED
    BY <2>1 DEF LinearStep
<1>4. Entered(input) \in Reached(total_neurons)
  BY <1>1, EnteredIsReached
<1>5. /\ IsRun(LinearValuesFrom(w, input), Entered(input), LinearStep(w), num_input,
               total_neurons)
      /\ IsRun(LinearValuesFrom(wa, input), Entered(input), LinearStep(w), num_input,
               total_neurons)
      /\ ReadsBefore(LinearStep(w), total_neurons)
  BY <1>1, <1>3, <1>4, LinearIsRun, LinearStepIsGood
<1>6. QED
  BY <1>1, <1>5, RunsAgree

(* What a change of an output's weight does to the values: nothing, but to *)
(* that output.                                                            *)
LEMMA OutputChange ==
  ASSUME NEW w, Runs(w), OutputsAtEnd, num_layers \in 1 .. num_layers,
         NEW c \in DOMAIN connections, Destination(c) \in Outputs, NEW a \in Int,
         NEW wa, \A d \in DOMAIN connections : wa[d] = IF d = c THEN w[d] + a ELSE w[d],
         NEW v, Solves(v, w), NEW u, Solves(u, wa),
         \A n \in Neurons : n \notin Receivers => u[n] = v[n]
  PROVE  \A n \in Outputs :
           u[n] = v[n] + IF n = Destination(c)
                         THEN steepness[n] * (a * v[connections[c]]) ELSE 0
<1> DEFINE x == a * v[connections[c]]
           S == Spike(c, x)
           D == Change(u, v)
           f == FirstOutput
           d == Destination(c)
<1>1. /\ LayersInARow /\ ConnectionsInPlace /\ Neurons = 0 .. total_neurons - 1
      /\ total_neurons \in Nat /\ f \in Nat /\ Outputs = f .. total_neurons - 1
      /\ d >= f /\ d \in Neurons
  BY DEF Runs, LayersInARow, ConnectionsInPlace, OutputsAtEnd
<1>2. HandsOn(D, w, S)
  BY ChangeHandsOn
<1>3. /\ D \in [Neurons -> Int] /\ S \in [Neurons -> Int]
      /\ \A n \in Neurons : n \notin Receivers => D[n] = 0 /\ S[n] = 0
      /\ \A n \in Receivers : D[n] = steepness[n] * (WeightedSum(w, D, n) + S[n])
  BY <1>2 DEF HandsOn
<1>4. \A m \in 0 .. d - 1 : u[m] = v[m]
  BY SameBefore
<1>5. \A n \in Neurons : D[n] = u[n] - v[n] /\ u[n] \in Int /\ v[n] \in Int
  BY <1>1 DEF Change, Solves, Reached
<1>6. \A n \in Neurons : S[n] = IF n = d THEN x ELSE 0
  BY DEF Spike
<1> HIDE DEF D, S
<1>7. \A m \in Neurons : m < f => D[m] = 0
  <2> SUFFICES ASSUME NEW m \in Neurons, m < f PROVE D[m] = 0
    OBVIOUS
  <2>1. m \in 0 .. d - 1
    BY <1>1
  <2>2. QED
    BY <1>4, <1>5, <2>1
<1>8. ASSUME NEW n \in Outputs
      PROVE  D[n] = IF n = d THEN steepness[n] * x ELSE 0
  <2>1. n \in Neurons /\ n \in Int
    BY <1>1
  <2>2. CASE n \notin Receivers
    <3>1. D[n] = 0 /\ S[n] = 0
      BY <1>3, <2>1, <2>2
    <3>2. n = d => x = 0
      BY <1>6, <2>1, <3>1
    <3>3. steepness[n] * 0 = 0
      BY <2>1 DEF Runs, Steep
    <3>4. QED
      BY <3>1, <3>2, <3>3
  <2>3. CASE n \in Receivers
    <3>1. WeightedSum(w, D, n) = 0
      <4>1. IsFiniteSet(Slots(n))
        BY <1>1, <2>1, FiniteSlots
      <4>2. WeightedSum(w, D, n) = Total(Products(w, D), Slots(n))
        BY <1>1, <1>3, <2>1, ProductsOfSlots DEF Runs, IntsOn
      <4>3. ASSUME NEW b \in Slots(n) PROVE Products(w, D)[b] = 0
        <5>1. b \in DOMAIN connections /\ connections[b] \in Neurons /\ w[b] \in Int
          BY <1>1, <2>1 DEF ConnectionsInPlace, Runs, IntsOn
        <5>2. connections[b] < f
          <6>1. LayerStart(n) = f
            <7>1. n \in NeuronsIn(num_layers)
              BY <1>1 DEF LayersInARow
            <7>2. LayerOf(layers, n) = num_layers
              BY <1>1, <7>1 DEF LayersInARow
            <7>3. QED
              BY <7>2 DEF LayerStart, FirstOutput
          <6>2. connections[b] < LayerStart(n)
            BY <1>1, <2>1 DEF ConnectionsInPlace
          <6>3. QED
            BY <6>1, <6>2
        <5>3. Products(w, D)[b] = w[b] * D[connections[b]]
          BY <5>1 DEF Products
        <5>4. D[connections[b]] = 0 /\ w[b] * 0 = 0
          BY <1>7, <5>1, <5>2
        <5>5. QED
          BY <5>3, <5>4
      <4>4. QED
        BY <4>1, <4>2, <4>3, TotalOfZeros
    <3>2. D[n] = steepness[n] * (0 + S[n]) /\ S[n] \in Int
      BY <1>3, <2>1, <2>3, <3>1
    <3>3. 0 + S[n] = S[n] /\ steepness[n] * 0 = 0
      BY <2>1, <3>2 DEF Runs, Steep
    <3>4. D[n] = steepness[n] * S[n]
      BY <3>2, <3>3
    <3>5. S[n] = IF n = d THEN x ELSE 0
      BY <1>6, <2>1
    <3>6. QED
      BY <3>3, <3>4, <3>5
  <2>4. QED
    BY <2>2, <2>3
<1>9. ASSUME NEW n \in Outputs
      PROVE  u[n] = v[n] + IF n = d THEN steepness[n] * x ELSE 0
  <2>1. n \in Neurons
    BY <1>1
  <2>2. D[n] = u[n] - v[n] /\ u[n] \in Int /\ v[n] \in Int
    BY <1>5, <2>1
  <2> DEFINE y == IF n = d THEN steepness[n] * x ELSE 0
  <2>3. D[n] = y
    BY <1>8
  <2> HIDE DEF y
  <2>4. u[n] = v[n] + y
    BY <2>2, <2>3
  <2>5. QED
    BY <2>4 DEF y
<1>10. QED
  BY <1>9

-----------------------------------------------------------------------------
(* How a sum of squares changes                                            *)

(* By what squares differ if something is taken from, and added to, what   *)
(* is squared.                                                             *)
LEMMA SquaresDiffer ==
  ASSUME NEW S, IsFiniteSet(S), NEW e, IntsOn(e, S), NEW b, IntsOn(b, S),
         NEW P, \A x \in S : P[x] = (e[x] - b[x]) * (e[x] - b[x]),
         NEW Q, \A x \in S : Q[x] = (e[x] + b[x]) * (e[x] + b[x]),
         NEW G, \A x \in S : G[x] = e[x] * b[x]
  PROVE  /\ Total(P, S) = (-4) * Total(G, S) + Total(Q, S)
         /\ IntsOn(P, S) /\ IntsOn(Q, S) /\ IntsOn(G, S)
<1>1. \A x \in S : e[x] \in Int /\ b[x] \in Int
  BY DEF IntsOn
<1>2. \A p, q \in Int : /\ (p - q) * (p - q) = (-4) * (p * q) + (p + q) * (p + q)
                        /\ (p - q) * (p - q) \in Int
                        /\ (p + q) * (p + q) \in Int /\ p * q \in Int
  BY SMT
<1>3. \A x \in S : /\ P[x] = (-4) * G[x] + Q[x]
                   /\ P[x] \in Int /\ Q[x] \in Int /\ G[x] \in Int
  BY <1>1, <1>2
<1>4. IntsOn(P, S) /\ IntsOn(Q, S) /\ IntsOn(G, S)
  BY <1>3 DEF IntsOn
<1> DEFINE a == -4
<1>5. a \in Int /\ \A x \in S : P[x] = a * G[x] + Q[x]
  BY <1>3
<1> HIDE DEF a
<1>6. Total(P, S) = a * Total(G, S) + Total(Q, S)
  BY <1>4, <1>5, TotalsCombine
<1>7. QED
  BY <1>4, <1>6 DEF a

(* A weight that is moved by the sign of its slope follows the error, if   *)
(* the error rises against the slope.                                      *)
LEMMA MovesAgainstRise ==
  ASSUME NEW w \in Int, NEW prev \in Int, NEW slope \in Int, NEW rise,
         rise = -4 * slope \/ rise = -2 * slope
  PROVE  Moved(w, SlopeUsed(prev, slope))
           = w + (IF rise > 0 /\ prev * rise <= 0 THEN -1 ELSE 1)
<1> DEFINE x == prev * slope
           y == prev * rise
<1>1. rise \in Int /\ (rise > 0 <=> slope < 0)
  OBVIOUS
<1>2. x \in Int
  BY SMT
<1>3. y <= 0 <=> x >= 0
  <2>1. CASE rise = -4 * slope
    <3>1. \A p, s \in Int : p * (-4 * s) = -4 * (p * s)
      BY SMT
    <3>2. y = -4 * x
      BY <2>1, <3>1
    <3> HIDE DEF x, y
    <3>3. QED
      BY <1>2, <3>2
  <2>2. CASE rise = -2 * slope
    <3>1. \A p, s \in Int : p * (-2 * s) = -2 * (p * s)
      BY SMT
    <3>2. y = -2 * x
      BY <2>2, <3>1
    <3> HIDE DEF x, y
    <3>3. QED
      BY <1>2, <3>2
  <2>3. QED
    BY <2>1, <2>2
<1>4. SlopeUsed(prev, slope) = IF x >= 0 THEN slope ELSE 0
  BY DEF SlopeUsed
<1> HIDE DEF x, y
<1>5. Moved(w, SlopeUsed(prev, slope)) = w + (IF rise > 0 /\ y <= 0 THEN -1 ELSE 1)
  BY <1>1, <1>2, <1>3, <1>4 DEF Moved
<1>6. QED
  BY <1>5 DEF y

-----------------------------------------------------------------------------
(* What is known between the epochs                                        *)

SlotSpace == IF num_cand = 0 THEN DOMAIN connections ELSE 0 .. FirstCon(num_cand) - 1

CandInv ==
  /\ stage = "none" => num_cand = 0
  /\ stage # "none" =>
       /\ stage = "ready" /\ pc = "done" /\ network_type = "SHORTCUT"
       /\ rounds \in Nat /\ num_cand \in Nat /\ MSE_value \in Int
       /\ weights \in [SlotSpace -> Int] /\ prev_train_slopes \in [SlotSpace -> Int]
       /\ train_slopes = [c \in SlotSpace |-> 0]
       /\ \A n \in Neurons : Steep(n)

(* The network of the epochs, and what it gives for a pattern.             *)
LEMMA EpochNetwork ==
  ASSUME Built, CandInv, stage # "none"
  PROVE  /\ Runs(weights) /\ OutputsAtEnd /\ LayersInARow /\ ConnectionsInPlace
         /\ total_neurons \in Nat /\ Neurons = 0 .. total_neurons - 1
         /\ num_layers \in 1 .. num_layers
         /\ \A c \in DOMAIN connections : c \in SlotSpace
<1>1. LayersInARow /\ ConnectionsInPlace /\ OutputsAtEnd
  BY DoneInPlace, ShortcutsEndInOutputs DEF Built, CandInv
<1>2. /\ total_neurons \in Nat /\ Neurons = 0 .. total_neurons - 1
      /\ num_layers \in 1 .. num_layers
  BY <1>1 DEF LayersInARow
<1>3. ASSUME NEW c \in DOMAIN connections PROVE c \in SlotSpace
  <2>1. CASE num_cand = 0
    BY <2>1 DEF SlotSpace
  <2>2. CASE num_cand # 0
    <3> DEFINE m == total_neurons * (num_cand + 1)
    <3>1. num_cand \in Nat /\ total_connections \in Nat /\ c \in 0 .. total_connections - 1
      BY <1>1 DEF CandInv, OutputsAtEnd
    <3>2. m \in Nat
      BY <1>2, <3>1, SMT
    <3>3. FirstCon(num_cand) = total_connections + m
      BY DEF FirstCon
    <3> HIDE DEF m
    <3>4. c \in 0 .. FirstCon(num_cand) - 1
      BY <3>1, <3>2, <3>3
    <3>5. QED
      BY <2>2, <3>4 DEF SlotSpace
  <2>3. QED
    BY <2>1, <2>2
<1>4. Runs(weights)
  BY <1>1, <1>3 DEF Runs, CandInv, IntsOn
<1>5. QED
  BY <1>1, <1>2, <1>3, <1>4

(* Running a pattern gives numbers, and so does comparing it.              *)
LEMMA PatternsRun ==
  ASSUME Built, CandInv, stage # "none", PropagationAssumption, NEW p \in Patterns
  PROVE  /\ \A i \in 0 .. num_input - 1 : InputOf(p)[i] \in Int
         /\ \A n \in Neurons : ValuesOf(p)[n] \in Int
         /\ \A j \in OutputIndex : ErrorOf(p, j) \in Int
         /\ \A n \in Outputs : Desired(p, n) \in Int
         /\ IsFiniteSet(Patterns) /\ IsFiniteSet(Outputs) /\ IsFiniteSet(OutputIndex)
<1>1. /\ Runs(weights) /\ OutputsAtEnd /\ LayersInARow /\ total_neurons \in Nat
      /\ Neurons = 0 .. total_neurons - 1 /\ num_input \in Nat
  BY EpochNetwork DEF LayersInARow
<1>2. p \in Nat /\ rounds \in Nat /\ IsFiniteSet(Patterns)
  BY DEF Patterns, PropagationAssumption, CandInv
<1>3. \A i \in 0 .. num_input - 1 : InputOf(p)[i] \in Int
  <2>1. \A i \in 0 .. num_input - 1 : Input(p, i) \in Int
    BY <1>1, <1>2 DEF Input
  <2>2. QED
    BY <2>1 DEF InputOf
<1>4. Entered(InputOf(p)) \in Reached(total_neurons)
  BY <1>1, <1>3, EnteredIsReached
<1>5. ValuesOf(p) \in Reached(total_neurons)
  BY <1>1, <1>4, ValuesAreRun DEF ValuesOf, IsRun
<1>6. \A n \in Neurons : ValuesOf(p)[n] \in Int
  BY <1>1, <1>5 DEF Reached
<1>7. /\ FirstOutput \in Nat /\ num_output \in Nat
      /\ FirstOutput = total_neurons - num_output /\ Outputs = FirstOutput .. total_neurons - 1
  BY <1>1 DEF OutputsAtEnd
<1>8. \A n \in Outputs : n \in Neurons /\ n \in Int /\ Desired(p, n) \in Int
  BY <1>1, <1>2, <1>7 DEF Desired
<1>9. \A j \in OutputIndex : ErrorOf(p, j) \in Int
  <2> TAKE j \in OutputIndex
  <2>1. FirstOutput + j \in Outputs
    BY <1>1, <1>7 DEF OutputIndex
  <2>2. ValuesOf(p)[FirstOutput + j] \in Int /\ Desired(p, FirstOutput + j) \in Int
    BY <1>6, <1>8, <2>1
  <2>3. QED
    BY <2>2 DEF ErrorOf
<1>10. IsFiniteSet(Outputs) /\ IsFiniteSet(OutputIndex)
  BY <1>1, <1>7, FS_Interval DEF OutputIndex
<1>11. QED
  BY <1>2, <1>3, <1>6, <1>8, <1>9, <1>10

(* The same, when no sum is cut off.                                       *)
LinearOf(p) == LinearValuesFrom(weights, InputOf(p))

(* If nothing is cut off, the values are the weighted sums.                *)
LEMMA PatternsRunLinear ==
  ASSUME Built, CandInv, stage # "none", PropagationAssumption, NothingClipped,
         NEW p \in Patterns
  PROVE  ValuesOf(p) = LinearOf(p)
<1>1. Runs(weights) /\ \A i \in 0 .. num_input - 1 : InputOf(p)[i] \in Int
  BY EpochNetwork, PatternsRun
<1>2. \A n \in Receivers : Within(LinearValuesFrom(weights, InputOf(p))[n], steepness[n])
  BY DEF NothingClipped
<1> DEFINE input == InputOf(p)
<1>3. \A i \in 0 .. num_input - 1 : input[i] \in Int
  BY <1>1
<1>4. \A n \in Receivers : Within(LinearValuesFrom(weights, input)[n], steepness[n])
  BY <1>2
<1> HIDE DEF input
<1>5. Values(weights, input) = LinearValuesFrom(weights, input)
  BY <1>1, <1>3, <1>4, NothingCutOff
<1>6. QED
  BY <1>5 DEF ValuesOf, LinearOf, input

(* The error of an output, with the outputs counted from 0 or not.         *)
LEMMA ErrorsAgree ==
  ASSUME Built, CandInv, stage # "none", PropagationAssumption, NothingClipped,
         NEW p \in Patterns
  PROVE  /\ \A n \in Outputs : /\ n - FirstOutput \in OutputIndex
                               /\ ErrorOf(p, n - FirstOutput) = ErrorAt(p, n, LinearOf(p))
                               /\ ErrorAt(p, n, LinearOf(p)) \in Int
         /\ \A n \in Neurons : LinearOf(p)[n] \in Int
         /\ \A j \in OutputIndex : FirstOutput + j \in Outputs
                                   /\ (FirstOutput + j) - FirstOutput = j
<1>1. /\ OutputsAtEnd /\ total_neurons \in Nat /\ Neurons = 0 .. total_neurons - 1
  BY EpochNetwork
<1>2. /\ FirstOutput \in Nat /\ num_output \in Nat
      /\ FirstOutput = total_neurons - num_output /\ Outputs = FirstOutput .. total_neurons - 1
  BY <1>1 DEF OutputsAtEnd
<1>3. ValuesOf(p) = LinearOf(p)
  BY PatternsRunLinear
<1>4. \A n \in Neurons : LinearOf(p)[n] \in Int
  BY <1>3, PatternsRun
<1>5. \A j \in OutputIndex : FirstOutput + j \in Outputs /\ (FirstOutput + j) - FirstOutput = j
  BY <1>1, <1>2 DEF OutputIndex
<1>6. ASSUME NEW n \in Outputs
      PROVE  /\ n - FirstOutput \in OutputIndex
             /\ ErrorOf(p, n - FirstOutput) = ErrorAt(p, n, LinearOf(p))
             /\ ErrorAt(p, n, LinearOf(p)) \in Int
  <2>1. n \in Int /\ n - FirstOutput \in OutputIndex /\ FirstOutput + (n - FirstOutput) = n
    BY <1>1, <1>2 DEF OutputIndex
  <2>2. ErrorOf(p, n - FirstOutput) = Desired(p, n) - LinearOf(p)[n]
    BY <1>3, <2>1 DEF ErrorOf
  <2>3. ErrorOf(p, n - FirstOutput) \in Int
    BY <2>1, PatternsRun
  <2>4. QED
    BY <2>1, <2>2, <2>3 DEF ErrorAt
<1>7. QED
  BY <1>4, <1>5, <1>6

-----------------------------------------------------------------------------
(* The connections of the candidates                                       *)

(* Blocks of one size, one after the other.                                *)
LEMMA PlacesInBlocks ==
  ASSUME NEW size \in Nat, size > 0, NEW m \in Nat,
         NEW B \in [0 .. m -> Nat], \A k \in 0 .. m : B[k] = B[0] + size * k
  PROVE  /\ \A k \in 0 .. m - 1, c \in Nat :
              B[k] <= c /\ c < B[k] + size =>
                (c - B[0]) \div size = k /\ B[0] <= c /\ c < B[m]
         /\ \A c \in Nat :
              B[0] <= c /\ c < B[m] =>
                \E k \in 0 .. m - 1 : /\ k = (c - B[0]) \div size
                                      /\ B[k] <= c /\ c < B[k] + size
<1>1. \A x \in Nat : size * x \in Nat /\ size * (x + 1) = size * x + size
  BY SMT
<1>2. \A x, y \in Nat : x <= y => size * x <= size * y
  BY SMT
<1>3. m \in 0 .. m /\ 0 \in 0 .. m /\ B[0] \in Nat /\ B[m] = B[0] + size * m
      /\ size * m \in Nat
  BY <1>1
<1>4. ASSUME NEW k \in 0 .. m - 1, NEW c \in Nat, B[k] <= c, c < B[k] + size
      PROVE  (c - B[0]) \div size = k /\ B[0] <= c /\ c < B[m]
  <2> DEFINE x == size * k
             first == B[k]
             start == B[0]
             z == c - start
             end == B[m]
             whole == size * m
  <2>1. k \in Nat /\ k + 1 \in Nat /\ m \in Nat /\ k + 1 <= m /\ k \in 0 .. m
    OBVIOUS
  <2>2. x \in Nat /\ size * (k + 1) = x + size /\ size * (k + 1) <= whole
    BY <1>1, <1>2, <2>1
  <2>3. /\ first = start + x /\ first \in Nat /\ start \in Nat
        /\ end = start + whole /\ whole \in Nat
    BY <1>3, <2>1
  <2>4. k * size = x /\ (k + 1) * size = x + size
    BY <2>1, <2>2, SMT
  <2>5. first <= c /\ c < first + size
    BY <1>4
  <2> HIDE DEF x, first, start, end, whole
  <2>6. z \in Nat /\ x <= z /\ z < x + size
    BY <2>2, <2>3, <2>5
  <2> HIDE DEF z
  <2>7. z \div size = k
    BY <2>1, <2>4, <2>6, Quotient
  <2>8. start <= c /\ c < end
    BY <2>2, <2>3, <2>5
  <2>9. QED
    BY <2>7, <2>8 DEF z, start, end
<1>5. ASSUME NEW c \in Nat, B[0] <= c, c < B[m]
      PROVE  \E k \in 0 .. m - 1 : /\ k = (c - B[0]) \div size
                                   /\ B[k] <= c /\ c < B[k] + size
  <2> DEFINE z == c - B[0]
             k == z \div size
             x == size * k
             start == B[0]
             whole == size * m
  <2>1. start \in Nat /\ start <= c /\ c < start + whole /\ whole \in Nat
    BY <1>3, <1>5
  <2> HIDE DEF start, whole
  <2>2. z \in Nat /\ c = start + z /\ z < whole
    BY <2>1 DEF start
  <2> HIDE DEF z
  <2>3. k \in Nat /\ k * size <= z /\ z < (k + 1) * size
    BY <2>2, Divides
  <2> HIDE DEF k
  <2>4. k * size = x /\ (k + 1) * size = x + size /\ x \in Nat
    BY <2>3, SMT
  <2>5. m <= k => whole <= x
    BY <1>2, <2>3 DEF whole
  <2> HIDE DEF x
  <2>6. k < m
    BY <2>2, <2>3, <2>4, <2>5, <2>1
  <2> DEFINE first == B[k]
  <2>7. first = start + x
    BY <2>3, <2>6 DEF x, start
  <2> HIDE DEF first
  <2>8. first <= c /\ c < first + size
    BY <2>1, <2>2, <2>3, <2>4, <2>7
  <2>9. k = (c - B[0]) \div size /\ k \in 0 .. m - 1
    BY <2>3, <2>6 DEF k, z
  <2>10. B[k] <= c /\ c < B[k] + size
    BY <2>8 DEF first
  <2>11. QED
    BY <2>9, <2>10, Zenon
<1>6. QED
  BY <1>4, <1>5

(* Each candidate has a slot for every neuron before the outputs, and one  *)
(* for each output, in a block of its own behind the connections.          *)
CandidateSlots ==
  /\ total_connections \in Nat /\ total_neurons \in Nat /\ FirstOutput \in Nat
  /\ num_output \in Nat /\ FirstOutput + num_output = total_neurons
  /\ connections_in = FirstOutput
  /\ FirstCon(0) \in Nat /\ total_connections <= FirstCon(0) /\ FirstCon(0) <= PastEnd
  /\ PastEnd = FirstCon(num_cand) /\ SlotSpace = 0 .. PastEnd - 1
  /\ DOMAIN connections = 0 .. total_connections - 1
  /\ \A k \in Candidates :
       /\ k \in Nat /\ FirstCon(k) \in Nat /\ LastCon(k) = FirstCon(k) + FirstOutput
       /\ SlotsOf(k) = FirstCon(k) .. FirstCon(k) + total_neurons - 1
       /\ \A c \in SlotsOf(k) : /\ FirstCon(0) <= c /\ c < PastEnd
                                /\ (c - FirstCon(0)) \div total_neurons = k
  /\ \A c \in FirstCon(0) .. PastEnd - 1 :
       LET k == (c - FirstCon(0)) \div total_neurons
       IN k \in Candidates /\ c \in SlotsOf(k)

(* Where the weights of the candidates are, between the epochs.            *)
LEMMA SlotsOfCandidates ==
  ASSUME Built, CandInv, stage # "none", num_cand # 0
  PROVE  CandidateSlots
<1> DEFINE T == total_connections
           N == total_neurons
           f == FirstOutput
           o == num_output
<1>1. /\ T \in Nat /\ N \in Nat /\ f \in Nat /\ o \in Nat /\ f = N - o /\ f < N
      /\ DOMAIN connections = 0 .. T - 1
  BY EpochNetwork DEF OutputsAtEnd
<1>2. num_cand \in Nat /\ num_cand > 0
  BY DEF CandInv
<1>3. connections_in = f
  BY <1>1 DEF connections_in
<1>4. \A x, y \in Nat : x * y \in Nat /\ x * 0 + x = x /\ x * (y + 1) = x * y + x
  BY SMT
<1>5. \A k : FirstCon(k) = T + N * (k + 1)
  BY DEF FirstCon
<1>6. FirstCon(0) = T + N * 1 /\ N * 1 = N
  BY <1>1, <1>5
<1>7. ASSUME NEW k \in Candidates
      PROVE  /\ k \in Nat /\ FirstCon(k) \in Nat /\ LastCon(k) = FirstCon(k) + f
             /\ SlotsOf(k) = FirstCon(k) .. FirstCon(k) + N - 1
  <2>1. k \in Nat
    BY <1>2 DEF Candidates
  <2>2. N * (k + 1) \in Nat
    BY <1>1, <1>4, <2>1
  <2> DEFINE a == FirstCon(k)
  <2>3. a \in Nat
    BY <1>1, <1>5, <2>2
  <2>4. LastCon(k) = a + f
    BY <1>3 DEF LastCon
  <2>5. SlotsOf(k) = a .. LastCon(k) + o - 1
    BY DEF SlotsOf
  <2> HIDE DEF a
  <2>6. LastCon(k) + o - 1 = a + N - 1
    BY <1>1, <2>3, <2>4
  <2>7. QED
    BY <2>1, <2>3, <2>4, <2>5, <2>6 DEF a
<1>8. PastEnd = FirstCon(num_cand)
  <2> DEFINE k == num_cand - 1
             x == N * num_cand
  <2>1. k \in Nat /\ k + 1 = num_cand
    BY <1>2
  <2>2. x \in Nat /\ N * (num_cand + 1) = x + N
    BY <1>1, <1>2, <1>4
  <2>3. FirstCon(k) = T + x
    BY <1>5, <2>1
  <2>4. PastEnd = FirstCon(k) + f + o
    BY <1>3 DEF PastEnd, LastCon
  <2>5. FirstCon(num_cand) = T + (x + N)
    BY <1>5, <2>2
  <2> HIDE DEF x, k
  <2>6. QED
    BY <1>1, <2>2, <2>3, <2>4, <2>5
<1>9. SlotSpace = 0 .. PastEnd - 1
  BY <1>2, <1>8 DEF SlotSpace
<1>10. /\ \A k \in 0 .. num_cand - 1, c \in Nat :
            FirstCon(k) <= c /\ c < FirstCon(k) + N =>
              /\ (c - FirstCon(0)) \div N = k
              /\ FirstCon(0) <= c /\ c < FirstCon(num_cand)
       /\ \A c \in Nat :
            FirstCon(0) <= c /\ c < FirstCon(num_cand) =>
              \E k \in 0 .. num_cand - 1 :
                /\ k = (c - FirstCon(0)) \div N
                /\ FirstCon(k) <= c /\ c < FirstCon(k) + N
  <2> DEFINE B == [k \in 0 .. num_cand |-> FirstCon(k)]
  <2>1. ASSUME NEW k \in 0 .. num_cand
        PROVE  FirstCon(k) \in Nat /\ FirstCon(k) = FirstCon(0) + N * k
    <3> DEFINE x == N * k
    <3>1. x \in Nat /\ N * (k + 1) = x + N
      BY <1>1, <1>4
    <3>2. FirstCon(k) = T + (x + N) /\ FirstCon(0) = T + N
      BY <1>5, <1>6, <3>1
    <3> HIDE DEF x
    <3>3. FirstCon(k) \in Nat /\ FirstCon(k) = FirstCon(0) + x
      BY <1>1, <3>1, <3>2
    <3>4. QED
      BY <3>3 DEF x
  <2>2. /\ B \in [0 .. num_cand -> Nat] /\ 0 \in 0 .. num_cand /\ num_cand \in 0 .. num_cand
        /\ \A k \in 0 .. num_cand : B[k] = FirstCon(k)
    BY <1>2, <2>1
  <2>3. \A k \in 0 .. num_cand : B[k] = B[0] + N * k
    BY <2>1, <2>2
  <2>4. N > 0
    BY <1>1
  <2> HIDE DEF B
  <2>5. /\ \A k \in 0 .. num_cand - 1, c \in Nat :
              B[k] <= c /\ c < B[k] + N =>
                (c - B[0]) \div N = k /\ B[0] <= c /\ c < B[num_cand]
        /\ \A c \in Nat :
              B[0] <= c /\ c < B[num_cand] =>
                \E k \in 0 .. num_cand - 1 : /\ k = (c - B[0]) \div N
                                             /\ B[k] <= c /\ c < B[k] + N
    <3>1. N \in Nat /\ num_cand \in Nat
      BY <1>1, <1>2
    <3>2. B \in [0 .. num_cand -> Nat]
      BY <2>2
    <3>3. QED
      BY <3>1, <3>2, <2>3, <2>4, PlacesInBlocks
  <2>6. B[0] = FirstCon(0) /\ B[num_cand] = FirstCon(num_cand)
        /\ \A k \in 0 .. num_cand - 1 : k \in 0 .. num_cand
    BY <1>2, <2>2
  <2>7. \A k \in 0 .. num_cand - 1 : B[k] = FirstCon(k)
    BY <2>2, <2>6
  <2>8. QED
    BY <2>5, <2>6, <2>7, Zenon
<1>11. ASSUME NEW k \in Candidates, NEW c \in SlotsOf(k)
       PROVE  FirstCon(0) <= c /\ c < PastEnd /\ (c - FirstCon(0)) \div N = k
  <2>1. FirstCon(k) \in Nat /\ c \in FirstCon(k) .. FirstCon(k) + N - 1
    BY <1>7
  <2>2. c \in Nat /\ FirstCon(k) <= c /\ c < FirstCon(k) + N
    BY <1>1, <2>1
  <2>3. QED
    BY <1>8, <1>10, <2>2 DEF Candidates
<1>12. ASSUME NEW c \in FirstCon(0) .. PastEnd - 1
       PROVE  LET k == (c - FirstCon(0)) \div N
              IN k \in Candidates /\ c \in SlotsOf(k)
  <2>1. c \in Nat /\ FirstCon(0) <= c /\ c < FirstCon(num_cand)
    <3>1. FirstCon(0) \in Nat /\ PastEnd \in Int
      BY <1>1, <1>2, <1>4, <1>5, <1>6, <1>8
    <3>2. QED
      BY <1>8, <3>1
  <2>2. PICK k \in 0 .. num_cand - 1 :
          /\ k = (c - FirstCon(0)) \div N
          /\ FirstCon(k) <= c /\ c < FirstCon(k) + N
    BY <1>10, <2>1
  <2>3. k \in Candidates
    BY DEF Candidates
  <2>4. FirstCon(k) \in Nat /\ SlotsOf(k) = FirstCon(k) .. FirstCon(k) + N - 1
    BY <1>7, <2>3
  <2>5. c \in SlotsOf(k)
    BY <1>1, <2>1, <2>2, <2>4
  <2>6. QED
    BY <2>2, <2>3, <2>5
<1>13. FirstCon(0) \in Nat /\ T <= FirstCon(0) /\ FirstCon(0) <= PastEnd
  <2> DEFINE x == N * num_cand
  <2>1. x \in Nat /\ N * (num_cand + 1) = x + N
    BY <1>1, <1>2, <1>4
  <2>2. PastEnd = T + (x + N)
    BY <1>5, <1>8, <2>1
  <2> HIDE DEF x
  <2>3. QED
    BY <1>1, <1>6, <2>1, <2>2
<1>14. f + o = N
  BY <1>1
<1>15. QED
  BY <1>1, <1>3, <1>7, <1>8, <1>9, <1>11, <1>12, <1>13, <1>14 DEF CandidateSlots

-----------------------------------------------------------------------------
(* What a candidate answers                                                *)

(* The weights of a candidate are slots the network has, behind its own.    *)
LEMMA SlotsInSpace ==
  ASSUME Built, CandInv, stage # "none", num_cand # 0,
         NEW k \in Candidates, NEW c \in SlotsOf(k)
  PROVE  c \in SlotSpace /\ weights[c] \in Int
<1>1. /\ CandidateSlots /\ total_neurons \in Nat /\ Neurons = 0 .. total_neurons - 1
      /\ FirstOutput \in Nat /\ FirstOutput <= total_neurons
  BY SlotsOfCandidates, EpochNetwork DEF CandidateSlots
<1>2. /\ k \in Nat /\ FirstCon(k) \in Nat /\ PastEnd \in Int
      /\ SlotsOf(k) = FirstCon(k) .. FirstCon(k) + total_neurons - 1
      /\ \A d \in SlotsOf(k) : FirstCon(0) <= d /\ d < PastEnd
      /\ FirstCon(0) \in Nat /\ SlotSpace = 0 .. PastEnd - 1
  <2>1. FirstCon(k) \in Nat /\ FirstCon(num_cand) \in Int
    <3>1. num_cand \in Nat /\ total_connections \in Nat
      BY <1>1 DEF CandInv, CandidateSlots
    <3>2. total_neurons * (num_cand + 1) \in Int
      BY <1>1, <3>1, SMT
    <3>3. QED
      BY <1>1, <3>1, <3>2 DEF FirstCon, CandidateSlots
  <2>2. QED
    BY <1>1, <2>1 DEF CandidateSlots
<1>3. FirstCon(0) <= c /\ c < PastEnd /\ c \in Int
  BY <1>1, <1>2
<1>4. c \in SlotSpace
  BY <1>2, <1>3
<1>5. weights \in [SlotSpace -> Int]
  BY DEF CandInv
<1>6. QED
  BY <1>4, <1>5

(* Its weighted sum, before it is cut off.                                 *)
CandidateSum(k, v) ==
  SumFunction([i \in 0 .. FirstOutput - 1 |-> weights[FirstCon(k) + i] * v[i]])

(* fann_update_candidate_slopes sums up what a candidate gets, and cuts it *)
(* off.                                                                    *)
LEMMA CandidateSums ==
  ASSUME Built, CandInv, stage # "none", num_cand # 0, PropagationAssumption,
         NEW k \in Candidates, NEW p \in Patterns
  PROVE  /\ CandidateSum(k, ValuesOf(p)) \in Int
         /\ Activation(k, p) = steepness_of(k) *
              Clipped(CandidateSum(k, ValuesOf(p)), 150 \div steepness_of(k))
         /\ steepness_of(k) \in {1, 2} /\ Activation(k, p) \in Int
         /\ \A c \in SlotsOf(k) : c \in SlotSpace /\ weights[c] \in Int
<1>1. /\ CandidateSlots /\ total_neurons \in Nat /\ Neurons = 0 .. total_neurons - 1
      /\ FirstOutput \in Nat /\ FirstOutput <= total_neurons
  BY SlotsOfCandidates, EpochNetwork DEF CandidateSlots
<1>2. /\ k \in Nat
      /\ SlotsOf(k) = FirstCon(k) .. FirstCon(k) + total_neurons - 1
      /\ FirstCon(k) \in Nat
  BY <1>1 DEF CandidateSlots
<1>3. \A c \in SlotsOf(k) : c \in SlotSpace /\ weights[c] \in Int
  BY SlotsInSpace
<1> DEFINE v == ValuesOf(p)
           F == [i \in 0 .. FirstOutput - 1 |-> weights[FirstCon(k) + i] * v[i]]
           s == steepness_of(k)
           sum == CandidateSum(k, v)
<1>4. \A i \in 0 .. FirstOutput - 1 : weights[FirstCon(k) + i] \in Int /\ v[i] \in Int
  <2> TAKE i \in 0 .. FirstOutput - 1
  <2>1. FirstCon(k) + i \in SlotsOf(k) /\ i \in Neurons
    BY <1>1, <1>2
  <2>2. QED
    BY <1>3, <2>1, PatternsRun
<1>5. sum \in Int
  <2>1. IsFiniteSet(0 .. FirstOutput - 1)
    BY <1>1, FS_Interval
  <2>2. \A x, y \in Int : x * y \in Int
    OBVIOUS
  <2> HIDE DEF v
  <2>3. IntsOn(F, 0 .. FirstOutput - 1)
    BY <1>4, <2>2 DEF IntsOn
  <2>4. Total(F, 0 .. FirstOutput - 1) = sum
    <3>1. [i \in 0 .. FirstOutput - 1 |-> F[i]] = F
      OBVIOUS
    <3>2. QED
      BY <3>1 DEF Total, CandidateSum
  <2> HIDE DEF F, sum
  <2>5. QED
    BY <2>1, <2>3, <2>4, TotalIsInt
<1>6. Activation(k, p) = s * Clipped(sum, 150 \div s)
  <2>1. Unrolled(connections_in) = 0 .. FirstOutput - 1
    BY <1>1, UnrolledVisitsAll DEF CandidateSlots
  <2>2. QED
    BY <2>1 DEF Activation, CandidateSum
<1>7. s \in {1, 2}
  <2>1. k % 2 \in 0 .. 1
    BY <1>2
  <2>2. s = 1 + (k % 2)
    BY DEF steepness_of
  <2>3. QED
    BY <2>1, <2>2
<1>8. s * Clipped(sum, 150 \div s) \in Int
  <2>1. 150 \div 1 \in Nat /\ 150 \div 2 \in Nat
    BY SMT
  <2> HIDE DEF s, sum
  <2>2. 150 \div s \in Nat
    BY <1>7, <2>1
  <2>3. Clipped(sum, 150 \div s) \in Int
    BY <1>5, <2>2, ClippedSum
  <2>4. QED
    BY <1>7, <2>3
<1>9. QED
  BY <1>3, <1>5, <1>6, <1>7, <1>8

(* If nothing is cut off, that is its answer.                              *)
LEMMA ActivationIsAnswer ==
  ASSUME Built, CandInv, stage # "none", num_cand # 0, PropagationAssumption,
         NothingClipped, NEW k \in Candidates, NEW p \in Patterns
  PROVE  Activation(k, p) = CandidateAnswer(k, weights, LinearOf(p))
<1> DEFINE v == ValuesOf(p)
           s == steepness_of(k)
           sum == CandidateSum(k, v)
<1>1. /\ sum \in Int /\ s \in {1, 2}
      /\ Activation(k, p) = s * Clipped(sum, 150 \div s)
  BY CandidateSums
<1>2. v = LinearOf(p)
  BY PatternsRunLinear
<1>3. CandidateAnswer(k, weights, LinearOf(p)) = s * sum
  BY <1>2 DEF CandidateAnswer, CandidateSum
<1>4. Within(CandidateAnswer(k, weights, LinearOf(p)), 1)
  BY DEF NothingClipped, LinearOf
<1>5. 150 \div 1 = 150 /\ 150 \div 2 = 75
  BY SMT
<1> HIDE DEF s, sum
<1>6. -150 < s * sum /\ s * sum < 150
  BY <1>3, <1>4, <1>5 DEF Within
<1>7. Clipped(sum, 150 \div s) = sum
  <2>1. 150 \div s \in Nat /\ -(150 \div s) <= sum /\ sum <= 150 \div s
    <3>1. CASE s = 1
      BY <1>1, <1>5, <1>6, <3>1
    <3>2. CASE s = 2
      BY <1>1, <1>5, <1>6, <3>2
    <3>3. QED
      BY <1>1, <3>1, <3>2
  <2>2. QED
    BY <1>1, <2>1, ClippedSum
<1>8. QED
  BY <1>1, <1>3, <1>7

-----------------------------------------------------------------------------
(* The score of a candidate                                                *)

(* What output n would still lack of the desired value.                    *)
Lacking(k, w, p, n) ==
  ErrorAt(p, n, LinearValuesFrom(w, InputOf(p)))
    - w[LastCon(k) + n - FirstOutput]
        * CandidateAnswer(k, w, LinearValuesFrom(w, InputOf(p)))

(* The error left with a candidate is the squares of what is lacking.      *)
LEMMA ErrorIsOfLacking ==
  ASSUME NEW k, NEW w
  PROVE  ErrorWith(k, w) =
           SumFunction([p \in Patterns |->
             SumFunction([n \in Outputs |-> Lacking(k, w, p, n) * Lacking(k, w, p, n)])])
BY DEF ErrorWith, Lacking

(* fann_update_candidate_slopes computes that, with the sign turned.       *)
LEMMA DiffIsLacking ==
  ASSUME Built, CandInv, stage # "none", num_cand # 0, PropagationAssumption,
         NothingClipped, NEW k \in Candidates, NEW p \in Patterns
  PROVE  /\ \A j \in OutputIndex :
              CandidateDiff(k, p, j) = -Lacking(k, weights, p, FirstOutput + j)
         /\ \A n \in Outputs : Lacking(k, weights, p, n) \in Int
<1> DEFINE A == Activation(k, p)
           v == LinearValuesFrom(weights, InputOf(p))
<1>1. A = CandidateAnswer(k, weights, v) /\ A \in Int
      /\ \A c \in SlotsOf(k) : weights[c] \in Int
  BY ActivationIsAnswer, CandidateSums DEF LinearOf
<1>2. /\ \A n \in Outputs : /\ n - FirstOutput \in OutputIndex
                            /\ ErrorOf(p, n - FirstOutput) = ErrorAt(p, n, v)
                            /\ ErrorAt(p, n, v) \in Int
      /\ \A j \in OutputIndex : FirstOutput + j \in Outputs
                                /\ (FirstOutput + j) - FirstOutput = j
  BY ErrorsAgree DEF LinearOf
<1>3. /\ FirstOutput \in Nat /\ num_output \in Nat /\ LastCon(k) \in Nat /\ FirstCon(k) \in Nat
      /\ LastCon(k) = FirstCon(k) + FirstOutput
      /\ FirstOutput + num_output = total_neurons
      /\ SlotsOf(k) = FirstCon(k) .. FirstCon(k) + total_neurons - 1
  BY SlotsOfCandidates DEF CandidateSlots
<1> HIDE DEF A, v
<1>4. ASSUME NEW n \in Outputs
      PROVE  /\ n \in Int
             /\ LastCon(k) + n - FirstOutput = LastCon(k) + (n - FirstOutput)
             /\ weights[LastCon(k) + n - FirstOutput] \in Int
             /\ Lacking(k, weights, p, n) =
                  ErrorAt(p, n, v) - weights[LastCon(k) + n - FirstOutput] * A
             /\ Lacking(k, weights, p, n) \in Int
  <2> DEFINE c == LastCon(k) + n - FirstOutput
  <2>1. n \in Int /\ n - FirstOutput \in 0 .. num_output - 1
    <3>1. OutputsAtEnd /\ total_neurons \in Nat
      BY EpochNetwork
    <3>2. n \in Int
      BY <3>1, <1>3 DEF OutputsAtEnd
    <3>3. QED
      BY <1>2, <3>2 DEF OutputIndex
  <2>2. c = LastCon(k) + (n - FirstOutput) /\ c \in SlotsOf(k)
    BY <1>3, <2>1
  <2>3. Lacking(k, weights, p, n) = ErrorAt(p, n, v) - weights[c] * A
    BY <1>1 DEF Lacking, v
  <2>4. weights[c] \in Int /\ ErrorAt(p, n, v) \in Int
    BY <1>1, <1>2, <2>2
  <2> HIDE DEF c
  <2>5. \A x, y, z \in Int : x - y * z \in Int
    BY SMT
  <2>6. Lacking(k, weights, p, n) \in Int
    BY <1>1, <2>3, <2>4, <2>5
  <2>7. QED
    BY <2>1, <2>2, <2>3, <2>4, <2>6 DEF c
<1>5. ASSUME NEW j \in OutputIndex
      PROVE  CandidateDiff(k, p, j) = -Lacking(k, weights, p, FirstOutput + j)
  <2> DEFINE n == FirstOutput + j
             x == weights[LastCon(k) + j]
             e == ErrorAt(p, n, v)
  <2>1. n \in Outputs /\ n - FirstOutput = j
    BY <1>2
  <2>2. LastCon(k) + n - FirstOutput = LastCon(k) + j
    BY <1>4, <2>1
  <2>3. CandidateDiff(k, p, j) = A * x - e
    BY <1>2, <2>1 DEF CandidateDiff, A
  <2>4. Lacking(k, weights, p, n) = e - x * A
    BY <1>4, <2>1, <2>2
  <2>5. x \in Int /\ e \in Int
    BY <1>2, <1>4, <2>1, <2>2
  <2> HIDE DEF x, e, n
  <2>6. \A a, b, d \in Int : a * b - d = -(d - b * a)
    BY SMT
  <2>7. CandidateDiff(k, p, j) = -Lacking(k, weights, p, n)
    BY <1>1, <2>3, <2>4, <2>5, <2>6
  <2>8. QED
    BY <2>7 DEF n
<1>6. QED
  BY <1>4, <1>5

(* A sum over the outputs, counted from 0 or not.                          *)
LEMMA OutputsRenamed ==
  ASSUME Built, CandInv, stage # "none", NEW G, IntsOn(G, Outputs),
         NEW F, \A j \in OutputIndex : F[j] = G[FirstOutput + j]
  PROVE  Total(F, OutputIndex) = Total(G, Outputs)
<1> DEFINE h == [j \in OutputIndex |-> FirstOutput + j]
<1>1. /\ OutputsAtEnd /\ total_neurons \in Nat
      /\ FirstOutput \in Nat /\ num_output \in Nat
      /\ FirstOutput = total_neurons - num_output /\ Outputs = FirstOutput .. total_neurons - 1
  BY EpochNetwork DEF OutputsAtEnd
<1>2. IsFiniteSet(Outputs) /\ IsFiniteSet(OutputIndex)
  <2>1. total_neurons - 1 \in Int /\ num_output - 1 \in Int /\ 0 \in Int /\ FirstOutput \in Int
    BY <1>1
  <2>2. QED
    BY <1>1, <2>1, FS_Interval DEF OutputIndex
<1>3. /\ h \in [OutputIndex -> Outputs]
      /\ \A x, y \in OutputIndex : h[x] = h[y] => x = y
  <2>1. \A j \in OutputIndex : /\ h[j] = FirstOutput + j /\ j \in Int
                               /\ FirstOutput + j \in Outputs
    BY <1>1 DEF OutputIndex
  <2>2. h \in [OutputIndex -> Outputs]
    BY <2>1
  <2> HIDE DEF h
  <2>3. QED
    BY <1>1, <2>1, <2>2
<1>4. ASSUME NEW n \in Outputs PROVE \E j \in OutputIndex : h[j] = n
  <2>1. n \in Int /\ FirstOutput <= n /\ n <= total_neurons - 1
    BY <1>1
  <2>2. n - FirstOutput \in OutputIndex /\ FirstOutput + (n - FirstOutput) = n
    <3>1. \A x, y, z, w \in Int :
            x = w - z /\ x <= y /\ y <= w - 1 => y - x \in 0 .. z - 1 /\ x + (y - x) = y
      BY SMT
    <3>2. /\ FirstOutput \in Int /\ num_output \in Int /\ total_neurons \in Int
          /\ FirstOutput = total_neurons - num_output
      BY <1>1
    <3>3. QED
      BY <2>1, <3>1, <3>2 DEF OutputIndex
  <2>3. QED
    BY <2>2
<1>5. \A j \in OutputIndex : F[j] = G[h[j]]
  OBVIOUS
<1> HIDE DEF h
<1>6. QED
  BY <1>2, <1>3, <1>4, <1>5, TotalRenamed

(* So the score is the error before less the error with the candidate.     *)
LEMMA ScoresAreErrors ==
  ASSUME Built, CandInv, stage # "none", num_cand # 0, PropagationAssumption,
         NothingClipped, NEW k \in Candidates
  PROVE  Score(k) = MSE_value - ErrorWith(k, weights) /\ ErrorWith(k, weights) \in Int
<1> DEFINE left(p) == [n \in Outputs |-> Lacking(k, weights, p, n) * Lacking(k, weights, p, n)]
           found(p) == [j \in OutputIndex |-> CandidateDiff(k, p, j) * CandidateDiff(k, p, j)]
           L == [p \in Patterns |-> SumFunction(left(p))]
<1>1. IsFiniteSet(Patterns)
  BY DEF Patterns, PropagationAssumption
<1>2. ASSUME NEW p \in Patterns
      PROVE  SumFunction(found(p)) = SumFunction(left(p)) /\ SumFunction(left(p)) \in Int
  <2>1. /\ \A j \in OutputIndex :
             CandidateDiff(k, p, j) = -Lacking(k, weights, p, FirstOutput + j)
        /\ \A n \in Outputs : Lacking(k, weights, p, n) \in Int
        /\ \A j \in OutputIndex : FirstOutput + j \in Outputs
    BY DiffIsLacking, ErrorsAgree
  <2>2. \A x \in Int : (-x) * (-x) = x * x /\ x * x \in Int
    BY SMT
  <2>3. IntsOn(left(p), Outputs)
    BY <2>1, <2>2 DEF IntsOn
  <2>4. \A j \in OutputIndex : found(p)[j] = left(p)[FirstOutput + j]
    BY <2>1, <2>2
  <2>5. Total(found(p), OutputIndex) = SumFunction(found(p))
        /\ Total(left(p), Outputs) = SumFunction(left(p))
    <3>1. [n \in Outputs |-> left(p)[n]] = left(p)
          /\ [j \in OutputIndex |-> found(p)[j]] = found(p)
      OBVIOUS
    <3>2. QED
      BY <3>1 DEF Total
  <2> HIDE DEF found, left
  <2>6. Total(found(p), OutputIndex) = Total(left(p), Outputs)
    BY <2>3, <2>4, OutputsRenamed
  <2>7. IsFiniteSet(Outputs)
    BY PatternsRun
  <2>8. QED
    BY <2>3, <2>5, <2>6, <2>7, TotalIsInt
<1>3. [p \in Patterns |-> SumFunction(found(p))] = L
  <2> HIDE DEF found, left
  <2>1. QED
    BY <1>2
<1>4. Score(k) = MSE_value - SumFunction(L)
  BY <1>3 DEF Score, StartScore
<1>5. ErrorWith(k, weights) = SumFunction(L)
  BY ErrorIsOfLacking
<1> HIDE DEF left
<1>6. SumFunction(L) \in Int
  <2>1. DOMAIN L = Patterns /\ \A p \in DOMAIN L : L[p] \in Int
    BY <1>2
  <2> HIDE DEF L
  <2>2. QED
    BY <1>1, <2>1, SumIsInt
<1>7. QED
  BY <1>4, <1>5, <1>6

(* The first of the greatest scores.                                       *)
LEMMA GreatestScore ==
  ASSUME NEW n \in Nat, n > 0, NEW f, \A k \in 0 .. n - 1 : f[k] \in Int
  PROVE  LET best == Min({k \in 0 .. n - 1 : \A l \in 0 .. n - 1 : f[l] <= f[k]})
         IN best \in 0 .. n - 1 /\ \A l \in 0 .. n - 1 : f[l] <= f[best]
<1> DEFINE T == {m \in 0 .. n - 1 : \E k \in 0 .. m : \A l \in 0 .. m : f[l] <= f[k]}
           S == {k \in 0 .. n - 1 : \A l \in 0 .. n - 1 : f[l] <= f[k]}
<1>1. n - 1 \in Nat /\ 0 \in 0 .. n - 1
  OBVIOUS
<1>2. 0 \in T
  <2>1. \A l \in 0 .. 0 : l = 0
    OBVIOUS
  <2>2. f[0] \in Int
    BY <1>1
  <2>3. 0 \in 0 .. 0 /\ \A l \in 0 .. 0 : f[l] <= f[0]
    BY <2>1, <2>2
  <2>4. QED
    BY <1>1, <2>3
<1>3. ASSUME NEW m \in 0 .. (n - 1) - 1, m \in T PROVE m + 1 \in T
  <2>1. PICK k \in 0 .. m : \A l \in 0 .. m : f[l] <= f[k]
    BY <1>3
  <2>2. /\ m + 1 \in 0 .. n - 1 /\ k \in 0 .. m + 1 /\ m + 1 \in 0 .. m + 1
        /\ \A l \in 0 .. m + 1 : l \in 0 .. m \/ l = m + 1
        /\ \A l \in 0 .. m + 1 : l \in 0 .. n - 1
    OBVIOUS
  <2>3. f[k] \in Int /\ f[m + 1] \in Int /\ \A l \in 0 .. m : f[l] \in Int
    BY <2>2
  <2>4. CASE f[m + 1] <= f[k]
    <3>1. \A l \in 0 .. m + 1 : f[l] <= f[k]
      BY <2>1, <2>2, <2>4
    <3>2. QED
      BY <2>2, <3>1
  <2>5. CASE f[k] <= f[m + 1]
    <3>1. \A l \in 0 .. m : f[l] <= f[m + 1]
      BY <2>1, <2>3, <2>5
    <3>2. f[m + 1] <= f[m + 1]
      BY <2>3
    <3>3. \A l \in 0 .. m + 1 : f[l] <= f[m + 1]
      BY <2>2, <3>1, <3>2
    <3>4. QED
      BY <2>2, <3>3
  <2>6. QED
    BY <2>3, <2>4, <2>5
<1>4. n - 1 \in T
  <2> HIDE DEF T
  <2>1. \A m \in 0 .. n - 1 : m \in T
    BY <1>1, <1>2, <1>3, CountingUp
  <2>2. QED
    BY <1>1, <2>1
<1>5. S \in SUBSET Nat /\ S # {}
  BY <1>4
<1> HIDE DEF S, T
<1>6. \E x \in S : \A y \in S : x <= y
  BY <1>5, LeastNumber
<1>7. Min(S) \in S
  BY <1>6 DEF Min
<1>8. QED
  BY <1>7 DEF S

(* The greatest score belongs to the candidate that leaves the least       *)
(* error.                                                                  *)
LEMMA BestHasLeastError ==
  ASSUME Built, CandInv, PropagationAssumption, fann_train_candidates_epoch, NothingClipped
  PROVE  LET best == cascade_best_candidate' - total_neurons - 1
         IN /\ \A k \in Candidates :
                 cascade_candidate_scores'[k] = MSE_value - ErrorWith(k, weights)
            /\ \A k \in Candidates : ErrorWith(best, weights) <= ErrorWith(k, weights)
<1> DEFINE scores == [k \in Candidates |-> Score(k)]
           first == Min({k \in Candidates : \A l \in Candidates : scores[l] <= scores[k]})
           best == cascade_best_candidate' - total_neurons - 1
<1>1. /\ num_cand > 0 /\ cascade_candidate_scores' = scores
      /\ cascade_best_candidate' = total_neurons + 1 + first
  BY Zenon DEF fann_train_candidates_epoch
<1>2. stage # "none" /\ num_cand # 0 /\ num_cand \in Nat /\ MSE_value \in Int
  BY <1>1 DEF CandInv
<1>3. \A k \in Candidates : /\ scores[k] = MSE_value - ErrorWith(k, weights)
                            /\ ErrorWith(k, weights) \in Int /\ scores[k] \in Int
  BY <1>2, ScoresAreErrors
<1> HIDE DEF scores
<1>4. first \in Candidates /\ \A l \in Candidates : scores[l] <= scores[first]
  BY <1>1, <1>2, <1>3, GreatestScore DEF Candidates
<1> HIDE DEF first
<1>5. best = first
  <2>1. total_neurons \in Nat /\ first \in Int
    BY <1>2, <1>4, EpochNetwork DEF Candidates
  <2>2. QED
    BY <1>1, <2>1
<1>6. \A k \in Candidates : ErrorWith(first, weights) <= ErrorWith(k, weights)
  <2> TAKE k \in Candidates
  <2>1. scores[k] <= scores[first]
    BY <1>4
  <2>2. QED
    BY <1>2, <1>3, <1>4, <2>1
<1>7. QED
  BY <1>1, <1>3, <1>5, <1>6

-----------------------------------------------------------------------------
(* The epochs keep what is known                                           *)

LEMMA SumOfInts ==
  ASSUME NEW S, IsFiniteSet(S), NEW f, DOMAIN f = S, \A x \in S : f[x] \in Int
  PROVE  SumFunction(f) \in Int
BY SumIsInt

(* Slopes are integers, and those of neurons before the outputs are zero.  *)
LEMMA OutputSlopes ==
  ASSUME Built, CandInv, stage # "none", PropagationAssumption,
         NEW c \in DOMAIN connections
  PROVE  /\ OutputSlope(c) \in Int
         /\ Destination(c) < FirstOutput => OutputSlope(c) = 0
<1> DEFINE n == Destination(c)
           F == [p \in Patterns |->
                   fann_activation_derived(n) * ErrorOf(p, n - FirstOutput)
                     * ValuesOf(p)[Source(n, c - first_con[n])]]
<1>1. /\ Runs(weights) /\ OutputsAtEnd /\ LayersInARow /\ ConnectionsInPlace
      /\ total_neurons \in Nat /\ Neurons = 0 .. total_neurons - 1
  BY EpochNetwork
<1>2. n \in Neurons /\ c \in Slots(n) /\ connections[c] \in Neurons
  BY <1>1 DEF ConnectionsInPlace
<1>3. Source(n, c - first_con[n]) = connections[c]
  BY <1>1, SourceOfConnection
<1>4. CASE n < FirstOutput
  BY <1>4 DEF OutputSlope
<1>5. CASE ~(n < FirstOutput)
  <2>1. /\ FirstOutput \in Nat /\ num_output \in Nat
        /\ FirstOutput = total_neurons - num_output
    BY <1>1 DEF OutputsAtEnd
  <2>2. n - FirstOutput \in OutputIndex
    BY <1>1, <1>2, <1>5, <2>1 DEF OutputIndex
  <2>3. steepness[n] \in Nat
    BY <1>1, <1>2 DEF Runs, Steep
  <2>4. \A x, y, z \in Int : x * y * z \in Int
    BY SMT
  <2>5. ASSUME NEW p \in Patterns PROVE F[p] \in Int
    <3>1. ErrorOf(p, n - FirstOutput) \in Int /\ ValuesOf(p)[connections[c]] \in Int
      BY <1>2, <2>2, PatternsRun
    <3>2. F[p] = steepness[n] * ErrorOf(p, n - FirstOutput) * ValuesOf(p)[connections[c]]
      BY <1>3 DEF fann_activation_derived
    <3> HIDE DEF F, n
    <3>3. QED
      BY <2>3, <2>4, <3>1, <3>2
  <2>6. IsFiniteSet(Patterns)
    BY DEF Patterns, PropagationAssumption
  <2>7. DOMAIN F = Patterns
    OBVIOUS
  <2>8. OutputSlope(c) = SumFunction(F)
    BY <1>5 DEF OutputSlope
  <2> HIDE DEF F
  <2>9. QED
    BY <1>5, <2>5, <2>6, <2>7, <2>8, SumOfInts
<1>6. QED
  BY <1>4, <1>5

(* A slope of a candidate is a number.                                     *)
LEMMA CandidateSlopes ==
  ASSUME Built, CandInv, stage # "none", num_cand # 0, PropagationAssumption,
         NEW k \in Candidates, NEW c \in SlotsOf(k)
  PROVE  CandidateSlope(k, c) \in Int
<1>1. /\ CandidateSlots /\ total_neurons \in Nat /\ Neurons = 0 .. total_neurons - 1
  BY SlotsOfCandidates, EpochNetwork
<1>2. /\ FirstOutput \in Nat /\ num_output \in Nat /\ FirstOutput + num_output = total_neurons
      /\ FirstCon(k) \in Nat /\ LastCon(k) = FirstCon(k) + FirstOutput
      /\ SlotsOf(k) = FirstCon(k) .. FirstCon(k) + total_neurons - 1
  BY <1>1 DEF CandidateSlots
<1>3. IsFiniteSet(Patterns)
  BY DEF Patterns, PropagationAssumption
<1>4. \A x, y, z \in Int : /\ x * y - z \in Int /\ x * y \in Int /\ -2 * x * y \in Int
                           /\ -x * y * z \in Int
  BY SMT
<1>5. ASSUME NEW p \in Patterns, NEW j \in OutputIndex
      PROVE  weights[LastCon(k) + j] \in Int /\ CandidateDiff(k, p, j) \in Int
  <2>1. LastCon(k) + j \in SlotsOf(k)
    BY <1>2 DEF OutputIndex
  <2>2. /\ weights[LastCon(k) + j] \in Int /\ Activation(k, p) \in Int
        /\ ErrorOf(p, j) \in Int
    BY <2>1, CandidateSums, PatternsRun
  <2>3. QED
    BY <1>4, <2>2 DEF CandidateDiff
<1> DEFINE handed(p) == [j \in OutputIndex |->
                           CandidateDiff(k, p, j) * weights[LastCon(k) + j]]
           term(p) == IF c >= LastCon(k)
                      THEN -2 * CandidateDiff(k, p, c - LastCon(k)) * Activation(k, p)
                      ELSE -steepness_of(k) * ValuesOf(p)[c - FirstCon(k)]
                             * SumFunction(handed(p))
           F == [p \in Patterns |-> term(p)]
<1>6. ASSUME NEW p \in Patterns PROVE term(p) \in Int
  <2>1. CASE c >= LastCon(k)
    <3>1. c - LastCon(k) \in OutputIndex
      BY <1>2, <2>1 DEF OutputIndex
    <3>2. CandidateDiff(k, p, c - LastCon(k)) \in Int /\ Activation(k, p) \in Int
      BY <1>5, <3>1, CandidateSums
    <3>3. QED
      BY <1>4, <2>1, <3>2
  <2>2. CASE ~(c >= LastCon(k))
    <3>1. c - FirstCon(k) \in Neurons
      BY <1>1, <1>2, <2>2
    <3>2. ValuesOf(p)[c - FirstCon(k)] \in Int /\ steepness_of(k) \in Int
      BY <3>1, PatternsRun, CandidateSums
    <3>3. SumFunction(handed(p)) \in Int
      <4>1. IsFiniteSet(OutputIndex)
        BY PatternsRun
      <4>2. DOMAIN handed(p) = OutputIndex /\ \A j \in OutputIndex : handed(p)[j] \in Int
        BY <1>4, <1>5
      <4> HIDE DEF handed
      <4>3. QED
        BY <4>1, <4>2, SumOfInts
    <3> HIDE DEF handed
    <3>4. QED
      BY <1>4, <2>2, <3>2, <3>3
  <2>3. QED
    BY <2>1, <2>2
<1>7. CandidateSlope(k, c) = SumFunction(F)
  BY DEF CandidateSlope
<1> HIDE DEF term
<1>8. DOMAIN F = Patterns /\ \A p \in Patterns : F[p] \in Int
  BY <1>6
<1> HIDE DEF F
<1>9. QED
  BY <1>3, <1>7, <1>8, SumOfInts

(* Every weight between first and past_end is moved by its slope, and the  *)
(* slopes are zero again.                                                  *)
LEMMA IrpropmMoves ==
  ASSUME NEW S, NEW slopes, \A c \in S : slopes[c] \in Int, NEW first, NEW past_end,
         weights \in [S -> Int], prev_train_slopes \in [S -> Int],
         \A c \in S : c \notin first .. past_end - 1 => slopes[c] = 0,
         \A c \in first .. past_end - 1 : c \in S,
         fann_update_weights_irpropm(slopes, first, past_end)
  PROVE  /\ weights' \in [S -> Int] /\ prev_train_slopes' \in [S -> Int]
         /\ train_slopes' = [c \in S |-> 0]
         /\ \A c \in S : weights'[c] =
              IF c \in first .. past_end - 1
              THEN Moved(weights[c], SlopeUsed(prev_train_slopes[c], slopes[c]))
              ELSE weights[c]
<1> DEFINE R == first .. past_end - 1
           used == [c \in R |-> SlopeUsed(prev_train_slopes[c], slopes[c])]
<1>1. DOMAIN weights = S /\ DOMAIN used = R
  OBVIOUS
<1>2. /\ weights' = [c \in S |-> IF c \in R THEN Moved(weights[c], used[c]) ELSE weights[c]]
      /\ prev_train_slopes' = [c \in S |-> IF c \in R THEN used[c] ELSE prev_train_slopes[c]]
      /\ train_slopes' = [c \in S |-> IF c \in R THEN 0 ELSE slopes[c]]
  BY <1>1 DEF fann_update_weights_irpropm
<1>3. \A x, y \in Int : SlopeUsed(x, y) \in Int /\ Moved(x, y) \in Int
  BY DEF SlopeUsed, Moved
<1>4. ASSUME NEW c \in R
      PROVE  /\ used[c] = SlopeUsed(prev_train_slopes[c], slopes[c])
             /\ used[c] \in Int /\ Moved(weights[c], used[c]) \in Int
  <2>1. c \in S /\ used[c] = SlopeUsed(prev_train_slopes[c], slopes[c])
    OBVIOUS
  <2> HIDE DEF used
  <2>2. weights[c] \in Int /\ prev_train_slopes[c] \in Int /\ slopes[c] \in Int
    BY <2>1
  <2>3. QED
    BY <1>3, <2>1, <2>2
<1> HIDE DEF used, R
<1>5. weights' \in [S -> Int] /\ prev_train_slopes' \in [S -> Int]
  BY <1>2, <1>4
<1>6. \A c \in S : c \notin R => slopes[c] = 0
  BY DEF R
<1>7. train_slopes' = [c \in S |-> 0]
  BY <1>2, <1>6
<1>8. \A c \in S : weights'[c] =
        IF c \in R THEN Moved(weights[c], SlopeUsed(prev_train_slopes[c], slopes[c]))
        ELSE weights[c]
  BY <1>2, <1>4
<1>9. QED
  BY <1>5, <1>7, <1>8 DEF R

-----------------------------------------------------------------------------
(* What is known stays so                                                  *)

LEMMA SameSlots ==
  ASSUME UNCHANGED vars
  PROVE  /\ network_type' = network_type /\ FirstOutput' = FirstOutput
         /\ total_connections' = total_connections
         /\ SlotSpace' = IF num_cand' = 0 THEN DOMAIN connections
                         ELSE 0 .. FirstCon(num_cand') - 1
<1>1. /\ layers' = layers /\ connections' = connections /\ num_layers' = num_layers
      /\ total_neurons' = total_neurons /\ network_type' = network_type
  BY SameNetwork DEF vars, shape
<1>2. FirstOutput' = FirstOutput /\ total_connections' = total_connections
  BY <1>1 DEF FirstOutput, total_connections
<1>3. SlotSpace' = IF num_cand' = 0 THEN DOMAIN connections
                   ELSE 0 .. FirstCon(num_cand') - 1
  BY <1>1, <1>2 DEF SlotSpace, FirstCon
<1>4. QED
  BY <1>1, <1>2, <1>3

(* The part that is the same for all of them: only the weights are new.    *)
LEMMA CandInvAgain ==
  ASSUME Built, CandInv, stage # "none", UNCHANGED <<vars, stage, steepness, rounds>>,
         num_cand' \in Nat, MSE_value' \in Int,
         NEW S, S = IF num_cand' = 0 THEN DOMAIN connections ELSE 0 .. FirstCon(num_cand') - 1,
         weights' \in [S -> Int], prev_train_slopes' \in [S -> Int],
         train_slopes' = [c \in S |-> 0]
  PROVE  CandInv'
<1>1. /\ pc' = pc /\ Neurons' = Neurons /\ Receivers' = Receivers
      /\ network_type' = network_type /\ SlotSpace' = S
  BY SameNetwork, SameSlots
<1>2. \A n \in Neurons' : Steep(n)'
  BY <1>1 DEF Steep, CandInv
<1>3. /\ stage' = "ready" /\ pc' = "done" /\ network_type' = "SHORTCUT" /\ rounds' \in Nat
  BY <1>1 DEF CandInv
<1>4. QED
  BY <1>1, <1>2, <1>3 DEF CandInv

(* Each operation keeps the invariant: choosing weights,                   *)
LEMMA PrepareKeeps ==
  ASSUME Built, CandInv, PropagationAssumption, Prepare
  PROVE  CandInv'
<1>1. /\ fann_set_weight_array /\ network_type = "SHORTCUT"
      /\ prev_train_slopes' = Zero(DOMAIN connections) /\ num_cand' = num_cand
  BY DEF Prepare
<1>2. /\ pc = "done" /\ stage = "none" /\ stage' = "ready" /\ MSE_value' = 0 /\ rounds' = 0
      /\ train_slopes' = Zero(DOMAIN connections) /\ UNCHANGED vars
  BY <1>1 DEF fann_set_weight_array
<1>3. NetInv'
  <2>1. NetInv
    BY <1>2 DEF NetInv
  <2>2. QED
    BY <1>1, <2>1, SetWeightsKeeps
<1>4. num_cand' = 0
  BY <1>1, <1>2 DEF CandInv
<1>5. /\ pc' = pc /\ connections' = connections /\ network_type' = network_type
      /\ SlotSpace' = DOMAIN connections
  BY <1>2, <1>4, SameNetwork, SameSlots
<1>6. weights' \in [DOMAIN connections -> Int] /\ \A n \in Neurons' : Steep(n)'
  BY <1>2, <1>3, <1>5 DEF NetInv, Numbers
<1>7. QED
  BY <1>1, <1>2, <1>4, <1>5, <1>6 DEF CandInv, Zero

(* fann_set_activation_steepness_output,                                   *)
LEMMA SteepnessKeeps ==
  ASSUME Built, CandInv, fann_set_activation_steepness_output
  PROVE  CandInv'
<1>1. /\ stage = "ready"
      /\ steepness' = [n \in Neurons |-> IF n >= FirstOutput THEN 1 ELSE steepness[n]]
      /\ UNCHANGED <<vars, stage, weights, train_slopes, MSE_value, rounds, cascade>>
  BY DEF fann_set_activation_steepness_output
<1>2. num_cand' = num_cand /\ prev_train_slopes' = prev_train_slopes
  BY <1>1 DEF cascade
<1>3. /\ pc' = pc /\ connections' = connections /\ network_type' = network_type
      /\ Neurons' = Neurons /\ Receivers' = Receivers
  BY <1>1, SameNetwork, SameSlots
<1>4. SlotSpace' = SlotSpace
  BY <1>1, <1>2, SameSlots DEF SlotSpace
<1>5. \A n \in Neurons' : Steep(n)'
  <2>1. \A n \in Neurons : Steep(n)
    BY <1>1 DEF CandInv
  <2>2. QED
    BY <1>1, <1>3, <2>1 DEF Steep
<1>6. QED
  BY <1>1, <1>2, <1>3, <1>4, <1>5 DEF CandInv

(* An epoch of the outputs moves their weights, and no others.             *)
LEMMA OutputsEpoch ==
  ASSUME Built, CandInv, PropagationAssumption, fann_train_outputs_epoch
  PROVE  /\ CandInv'
         /\ \A c \in DOMAIN connections : weights'[c] =
              IF Destination(c) >= FirstOutput
              THEN Moved(weights[c], SlopeUsed(prev_train_slopes[c], OutputSlope(c)))
              ELSE weights[c]
<1> DEFINE slopes == [c \in DOMAIN connections |-> train_slopes[c] + OutputSlope(c)]
           first == first_con[FirstOutput]
           S == DOMAIN connections
<1>1. /\ stage = "ready" /\ num_cand = 0 /\ num_cand' = num_cand
      /\ UNCHANGED <<vars, stage, steepness, rounds>>
  BY DEF fann_train_outputs_epoch, untouched
<1>2. fann_update_weights_irpropm(slopes, first, total_connections)
  BY DEF fann_train_outputs_epoch
<1>3. MSE_value' = SumFunction([p \in Patterns |->
        SumFunction([j \in OutputIndex |-> ErrorOf(p, j) * ErrorOf(p, j)])])
  BY DEF fann_train_outputs_epoch
<1>4. SlotSpace = S
  BY <1>1 DEF SlotSpace
<1>5. /\ weights \in [S -> Int] /\ prev_train_slopes \in [S -> Int]
      /\ train_slopes = [c \in S |-> 0]
  BY <1>1, <1>4 DEF CandInv
<1>6. /\ S = 0 .. total_connections - 1 /\ total_connections \in Nat /\ first \in Nat
      /\ FirstOutput \in Nat
      /\ \A c \in S : /\ c >= first <=> Destination(c) >= FirstOutput
                      /\ Destination(c) \in Nat
  BY <1>1, EpochNetwork DEF OutputsAtEnd, ConnectionsInPlace
<1>7. \A c \in S : slopes[c] = OutputSlope(c) /\ slopes[c] \in Int
                   /\ (Destination(c) < FirstOutput => slopes[c] = 0)
  <2> TAKE c \in S
  <2>1. slopes[c] = 0 + OutputSlope(c)
    BY <1>5
  <2>2. OutputSlope(c) \in Int /\ (Destination(c) < FirstOutput => OutputSlope(c) = 0)
    BY <1>1, OutputSlopes
  <2> HIDE DEF slopes
  <2>3. QED
    BY <2>1, <2>2
<1> HIDE DEF slopes, first
<1>8. /\ \A c \in S : c \in first .. total_connections - 1 <=> Destination(c) >= FirstOutput
      /\ \A c \in S : c \notin first .. total_connections - 1 => slopes[c] = 0
      /\ \A c \in first .. total_connections - 1 : c \in S
  BY <1>6, <1>7
<1>9. /\ weights' \in [S -> Int] /\ prev_train_slopes' \in [S -> Int]
      /\ train_slopes' = [c \in S |-> 0]
      /\ \A c \in S : weights'[c] =
           IF c \in first .. total_connections - 1
           THEN Moved(weights[c], SlopeUsed(prev_train_slopes[c], slopes[c]))
           ELSE weights[c]
  BY <1>2, <1>5, <1>7, <1>8, IrpropmMoves
<1>10. MSE_value' \in Int
  <2> DEFINE squares(p) == [j \in OutputIndex |-> ErrorOf(p, j) * ErrorOf(p, j)]
             F == [p \in Patterns |-> SumFunction(squares(p))]
  <2>1. ASSUME NEW p \in Patterns PROVE SumFunction(squares(p)) \in Int
    <3>1. IsFiniteSet(OutputIndex) /\ \A j \in OutputIndex : ErrorOf(p, j) \in Int
      BY <1>1, PatternsRun
    <3>2. \A x \in Int : x * x \in Int
      BY SMT
    <3>3. DOMAIN squares(p) = OutputIndex /\ \A j \in OutputIndex : squares(p)[j] \in Int
      BY <3>1, <3>2
    <3> HIDE DEF squares
    <3>4. QED
      BY <3>1, <3>3, SumOfInts
  <2>2. IsFiniteSet(Patterns)
    BY DEF Patterns, PropagationAssumption
  <2> HIDE DEF squares
  <2>3. DOMAIN F = Patterns /\ \A p \in Patterns : F[p] \in Int
    BY <2>1
  <2>4. MSE_value' = SumFunction(F)
    BY <1>3 DEF squares
  <2> HIDE DEF F
  <2>5. QED
    BY <2>2, <2>3, <2>4, SumOfInts
<1>11. CandInv'
  <2>1. num_cand' \in Nat /\ S = IF num_cand' = 0 THEN DOMAIN connections
                                 ELSE 0 .. FirstCon(num_cand') - 1
    BY <1>1
  <2> HIDE DEF S
  <2>2. QED
    BY <1>1, <1>9, <1>10, <2>1, CandInvAgain
<1>12. QED
  BY <1>7, <1>8, <1>9, <1>11

(* An epoch of the candidates moves all of their weights, and no others.   *)
LEMMA CandidatesEpoch ==
  ASSUME Built, CandInv, PropagationAssumption, fann_train_candidates_epoch
  PROVE  /\ CandInv' /\ num_cand # 0 /\ stage # "none" /\ CandidateSlots
         /\ \A c \in 0 .. FirstCon(0) - 1 : weights'[c] = weights[c]
         /\ \A k \in Candidates : \A c \in SlotsOf(k) : weights'[c] =
              Moved(weights[c], SlopeUsed(prev_train_slopes[c], CandidateSlope(k, c)))
<1> DEFINE slopes == [c \in DOMAIN weights |->
             IF c < FirstCon(0) THEN train_slopes[c]
             ELSE train_slopes[c]
                    + CandidateSlope((c - FirstCon(0)) \div total_neurons, c)]
           S == SlotSpace
           first == FirstCon(0)
<1>1. num_cand > 0 /\ fann_update_weights_irpropm(slopes, FirstCon(0), PastEnd)
  BY Zenon DEF fann_train_candidates_epoch
<1>2. /\ num_cand' = num_cand /\ MSE_value' = MSE_value
      /\ UNCHANGED <<vars, stage, steepness, rounds>>
  BY Zenon DEF fann_train_candidates_epoch, untouched
<1>3. stage # "none" /\ num_cand # 0 /\ num_cand \in Nat /\ MSE_value \in Int
  BY <1>1 DEF CandInv
<1>4. CandidateSlots
  BY <1>3, SlotsOfCandidates
<1>5. /\ weights \in [S -> Int] /\ prev_train_slopes \in [S -> Int]
      /\ train_slopes = [c \in S |-> 0] /\ DOMAIN weights = S
  BY <1>3 DEF CandInv
<1>6. /\ S = 0 .. PastEnd - 1 /\ first \in Nat /\ first <= PastEnd /\ PastEnd \in Int
  <2>1. PastEnd = FirstCon(num_cand) /\ total_neurons \in Nat /\ total_connections \in Nat
    BY <1>4 DEF CandidateSlots
  <2>2. total_neurons * (num_cand + 1) \in Int
    BY <1>3, <2>1, SMT
  <2>3. FirstCon(num_cand) \in Int
    BY <2>1, <2>2 DEF FirstCon
  <2>4. QED
    BY <1>4, <2>1, <2>3 DEF CandidateSlots
<1>7. ASSUME NEW c \in S
      PROVE  /\ slopes[c] = IF c < first THEN 0
                            ELSE CandidateSlope((c - first) \div total_neurons, c)
             /\ slopes[c] \in Int
  <2>1. train_slopes[c] = 0 /\ c \in DOMAIN weights
    BY <1>5
  <2> DEFINE x == CandidateSlope((c - first) \div total_neurons, c)
  <2>2. slopes[c] = IF c < first THEN 0 ELSE 0 + x
    BY <2>1, <1>5
  <2>3. ~(c < first) => x \in Int
    <3> SUFFICES ASSUME ~(c < first) PROVE x \in Int
      OBVIOUS
    <3>1. c \in FirstCon(0) .. PastEnd - 1
      BY <1>6
    <3>2. (c - first) \div total_neurons \in Candidates
          /\ c \in SlotsOf((c - first) \div total_neurons)
      BY <1>4, <3>1 DEF CandidateSlots
    <3>3. QED
      BY <1>3, <3>2, CandidateSlopes
  <2> HIDE DEF x, slopes
  <2>4. slopes[c] = IF c < first THEN 0 ELSE x
    BY <2>2, <2>3
  <2>5. slopes[c] \in Int
    BY <2>3, <2>4
  <2>6. QED
    BY <2>4, <2>5 DEF x
<1> HIDE DEF slopes, S
<1>8. /\ \A c \in S : c \in first .. PastEnd - 1 <=> ~(c < first)
      /\ \A c \in first .. PastEnd - 1 : c \in S
      /\ \A c \in 0 .. first - 1 : c \in S /\ c < first
  BY <1>6
<1>9. \A c \in S : c \notin first .. PastEnd - 1 => slopes[c] = 0
  BY <1>7, <1>8
<1>10. /\ weights' \in [S -> Int] /\ prev_train_slopes' \in [S -> Int]
       /\ train_slopes' = [c \in S |-> 0]
       /\ \A c \in S : weights'[c] =
            IF c \in first .. PastEnd - 1
            THEN Moved(weights[c], SlopeUsed(prev_train_slopes[c], slopes[c]))
            ELSE weights[c]
  <2>1. \A c \in S : slopes[c] \in Int
    BY <1>7
  <2>2. QED
    BY <1>1, <1>5, <1>8, <1>9, <2>1, IrpropmMoves
<1>11. CandInv'
  <2>1. num_cand' \in Nat /\ MSE_value' \in Int
        /\ S = IF num_cand' = 0 THEN DOMAIN connections ELSE 0 .. FirstCon(num_cand') - 1
    BY <1>2, <1>3 DEF S, SlotSpace
  <2>2. QED
    BY <1>2, <1>3, <1>10, <2>1, CandInvAgain
<1>12. \A c \in 0 .. FirstCon(0) - 1 : weights'[c] = weights[c]
  BY <1>8, <1>10
<1>13. ASSUME NEW k \in Candidates, NEW c \in SlotsOf(k)
       PROVE  weights'[c] =
                Moved(weights[c], SlopeUsed(prev_train_slopes[c], CandidateSlope(k, c)))
  <2>1. /\ first <= c /\ c < PastEnd /\ (c - first) \div total_neurons = k
        /\ FirstCon(k) \in Nat /\ total_neurons \in Nat
        /\ SlotsOf(k) = FirstCon(k) .. FirstCon(k) + total_neurons - 1
    BY <1>4 DEF CandidateSlots
  <2>2. c \in Int
    BY <2>1
  <2>3. c \in first .. PastEnd - 1 /\ ~(c < first)
    BY <1>6, <2>1, <2>2
  <2>4. c \in S
    BY <1>8, <2>3
  <2>5. slopes[c] = CandidateSlope(k, c)
    BY <1>7, <2>1, <2>3, <2>4
  <2>6. QED
    BY <1>10, <2>3, <2>4, <2>5
<1>14. QED
  BY <1>3, <1>4, <1>11, <1>12, <1>13

(* and fann_initialize_candidates.                                         *)
LEMMA InitializeKeeps ==
  ASSUME Built, CandInv, CandidatesAssumption, fann_initialize_candidates
  PROVE  CandInv'
<1> DEFINE N == total_neurons
           T == total_connections
           S == 0 .. FirstCon(num_cand') - 1
<1>1. /\ stage = "ready" /\ num_cand = 0 /\ num_cand' \in CandidateCounts
      /\ MSE_value' = MSE_value /\ UNCHANGED <<vars, stage, steepness, rounds>>
  BY DEF fann_initialize_candidates, untouched
<1>2. PICK seed \in CandidateSeeds, bias \in RandomBias :
        weights' = [c \in S |->
          IF c \in DOMAIN connections THEN weights[c]
          ELSE IF c < FirstCon(0) THEN 0
          ELSE LET i == (c - T) % N
                   k == (c - FirstCon(0)) \div N
               IN IF i = num_input THEN bias ELSE RandomWeight(seed, i, k)]
  BY DEF fann_initialize_candidates
<1>3. DOMAIN weights' = S
  BY <1>2
<1>4. /\ train_slopes' = [c \in S |-> IF c \in DOMAIN train_slopes THEN train_slopes[c] ELSE 0]
      /\ prev_train_slopes' = [c \in S |->
           IF c \in DOMAIN prev_train_slopes THEN prev_train_slopes[c] ELSE 0]
  BY <1>3 DEF fann_initialize_candidates
<1>5. /\ weights \in [DOMAIN connections -> Int]
      /\ prev_train_slopes \in [DOMAIN connections -> Int]
      /\ train_slopes = [c \in DOMAIN connections |-> 0] /\ MSE_value \in Int
  BY <1>1 DEF CandInv, SlotSpace
<1>6. num_cand' \in Nat /\ num_cand' # 0 /\ seed \in Nat /\ bias \in Int
  BY <1>1 DEF CandidatesAssumption
<1>7. /\ N \in Nat /\ N > 0 /\ T \in Nat /\ FirstCon(0) = T + N
  <2>1. N \in Nat /\ T \in Nat /\ FirstOutput \in Nat /\ FirstOutput < N
    BY <1>1, EpochNetwork DEF OutputsAtEnd
  <2>2. N * (0 + 1) = N
    BY <2>1
  <2>3. QED
    BY <2>1, <2>2 DEF FirstCon
<1>8. weights' \in [S -> Int]
  <2>1. ASSUME NEW c \in S, ~(c < FirstCon(0))
        PROVE  RandomWeight(seed, (c - T) % N, (c - FirstCon(0)) \div N) \in Int
    <3> DEFINE i == (c - T) % N
               k == (c - FirstCon(0)) \div N
    <3>1. c \in Nat /\ c - T \in Nat /\ c - FirstCon(0) \in Nat
      BY <1>7, <2>1
    <3>2. i \in Nat
      BY <1>7, <3>1, SMT
    <3>3. k \in Nat
      BY <1>7, <3>1, Divides
    <3> HIDE DEF i, k
    <3>4. 1 + k \in Nat /\ 1 + k > 0
      BY <3>3
    <3>5. i \div (1 + k) \in Nat
      BY <3>2, <3>4, Divides
    <3>6. (i \div (1 + k) + seed) % 3 \in Int
      <4> DEFINE q == i \div (1 + k)
      <4>1. q \in Nat
        BY <3>5
      <4> HIDE DEF q
      <4>2. (q + seed) % 3 \in Int
        BY <1>6, <4>1
      <4>3. QED
        BY <4>2 DEF q
    <3>7. QED
      BY <3>6 DEF RandomWeight, i, k
  <2>2. ASSUME NEW c \in S PROVE weights'[c] \in Int
    <3>1. weights'[c] = IF c \in DOMAIN connections THEN weights[c]
            ELSE IF c < FirstCon(0) THEN 0
            ELSE IF (c - T) % N = num_input THEN bias
            ELSE RandomWeight(seed, (c - T) % N, (c - FirstCon(0)) \div N)
      BY <1>2
    <3>2. ~(c < FirstCon(0)) =>
            RandomWeight(seed, (c - T) % N, (c - FirstCon(0)) \div N) \in Int
      BY <2>1
    <3>3. c \in DOMAIN connections => weights[c] \in Int
      BY <1>5
    <3> DEFINE x == RandomWeight(seed, (c - T) % N, (c - FirstCon(0)) \div N)
    <3>4. weights'[c] \in {weights[c], 0, bias, x} /\ (c \notin DOMAIN connections =>
            weights'[c] \in {0, bias} \/ (weights'[c] = x /\ ~(c < FirstCon(0))))
      BY <3>1, Zenon
    <3>5. ~(c < FirstCon(0)) => x \in Int
      BY <3>2
    <3>6. c \in DOMAIN connections => weights'[c] = weights[c]
      BY <3>1, Zenon
    <3> HIDE DEF x
    <3>7. QED
      BY <1>6, <3>3, <3>4, <3>5, <3>6
  <2>3. weights' = [c \in S |-> weights'[c]]
    BY <1>2
  <2>4. QED
    BY <2>2, <2>3
<1>9. /\ prev_train_slopes' \in [S -> Int] /\ train_slopes' = [c \in S |-> 0]
  BY <1>4, <1>5
<1>10. S = IF num_cand' = 0 THEN DOMAIN connections ELSE 0 .. FirstCon(num_cand') - 1
  BY <1>6
<1> HIDE DEF S
<1>11. stage # "none"
  BY <1>1
<1>12. QED
  BY <1>1, <1>5, <1>6, <1>8, <1>9, <1>10, <1>11, CandInvAgain

(* Every step keeps it.                                                    *)
LEMMA CandidateSteps ==
  ASSUME Built, CandInv, PropagationAssumption, CandidatesAssumption,
         [CandidateNext]_<<all, cascade>>
  PROVE  CandInv'
<1>1. CASE fann_create_shortcut_array /\ UNCHANGED <<stage, net, cascade>>
  <2>1. pc = "start" /\ stage' = stage /\ num_cand' = num_cand
    BY <1>1 DEF fann_create_shortcut_array, cascade
  <2>2. stage = "none"
    BY <2>1 DEF CandInv
  <2>3. QED
    BY <2>1, <2>2 DEF CandInv
<1>2. CASE Prepare
  BY <1>2, PrepareKeeps
<1>3. CASE fann_set_activation_steepness_output
  BY <1>3, SteepnessKeeps
<1>4. CASE fann_train_outputs_epoch
  BY <1>4, OutputsEpoch
<1>5. CASE fann_initialize_candidates
  BY <1>5, InitializeKeeps
<1>6. CASE fann_train_candidates_epoch
  BY <1>6, CandidatesEpoch
<1>7. CASE fann_destroy /\ Forget /\ NoCandidates
  <2>1. stage' = "none" /\ num_cand' = 0
    BY <1>7 DEF Forget, NoCandidates
  <2>2. QED
    BY <2>1 DEF CandInv
<1>8. CASE UNCHANGED <<all, cascade>>
  <2>1. /\ UNCHANGED vars /\ UNCHANGED net /\ stage' = stage /\ num_cand' = num_cand
        /\ prev_train_slopes' = prev_train_slopes
    BY <1>8 DEF all, cascade
  <2>2. CASE stage = "none"
    BY <2>1, <2>2 DEF CandInv
  <2>3. CASE stage # "none"
    <3>1. /\ UNCHANGED <<vars, stage, steepness, rounds>> /\ MSE_value' = MSE_value
          /\ weights' = weights /\ train_slopes' = train_slopes
      BY <2>1 DEF net
    <3>2. /\ num_cand \in Nat /\ MSE_value \in Int
          /\ weights \in [SlotSpace -> Int] /\ prev_train_slopes \in [SlotSpace -> Int]
          /\ train_slopes = [c \in SlotSpace |-> 0]
      BY <2>3 DEF CandInv
    <3>3. SlotSpace = IF num_cand' = 0 THEN DOMAIN connections
                      ELSE 0 .. FirstCon(num_cand') - 1
      BY <2>1 DEF SlotSpace
    <3>4. QED
      BY <2>1, <2>3, <3>1, <3>2, <3>3, CandInvAgain
  <2>4. QED
    BY <2>2, <2>3
<1>9. QED
  BY <1>1, <1>2, <1>3, <1>4, <1>5, <1>6, <1>7, <1>8 DEF CandidateNext

(* The epochs of cascade training change nothing of the network they are   *)
(* for but its weights: it remains one that NetworkCreation has built.     *)
THEOREM EpochsAreOfBuiltNetworks == CandidateSpec => Spec
<1>1. CandidateInit => Init
  BY DEF CandidateInit, PropagationInit
<1>2. [CandidateNext]_<<all, cascade>> => [Next]_vars
  <2> SUFFICES ASSUME [CandidateNext]_<<all, cascade>> PROVE [Next]_vars
    OBVIOUS
  <2>1. CASE fann_create_shortcut_array
    BY <2>1 DEF Next, Creating
  <2>2. CASE \/ Prepare \/ fann_set_activation_steepness_output \/ fann_train_outputs_epoch
             \/ fann_initialize_candidates \/ fann_train_candidates_epoch
    <3>1. CASE Prepare
      BY <3>1 DEF Prepare, fann_set_weight_array
    <3>2. CASE fann_set_activation_steepness_output
      BY <3>2 DEF fann_set_activation_steepness_output
    <3>3. CASE fann_train_outputs_epoch
      BY <3>3, Zenon DEF fann_train_outputs_epoch, untouched
    <3>4. CASE fann_initialize_candidates
      BY <3>4, Zenon DEF fann_initialize_candidates, untouched
    <3>5. CASE fann_train_candidates_epoch
      BY <3>5, Zenon DEF fann_train_candidates_epoch, untouched
    <3>6. QED
      BY <2>2, <3>1, <3>2, <3>3, <3>4, <3>5
  <2>3. CASE fann_destroy
    BY <2>3 DEF Next
  <2>4. CASE UNCHANGED <<all, cascade>>
    BY <2>4 DEF all
  <2>5. QED
    BY <2>1, <2>2, <2>3, <2>4 DEF CandidateNext
<1>3. QED
  BY <1>1, <1>2, PTL DEF CandidateSpec, Spec

(* Between the epochs every connection, and every slot of a candidate, has *)
(* a weight and a last slope, and no slope is left over from before        *)
(* (fann_cascade.c).                                                       *)
THEOREM EpochInvariant ==
  ASSUME ProductsFit
  PROVE  CandidateSpec => [](Built /\ CandInv)
<1>1. CandidateInit => CandInv
  BY DEF CandidateInit, PropagationInit, Blank, CandInv
<1>2. Built /\ CandInv /\ [CandidateNext]_<<all, cascade>> => CandInv'
  BY CandidateSteps, PropagationAssumption, CandidatesAssumption
<1>3. Spec => []Built
  <2>1. Spec => [](DividedInv /\ WiringInv)
    BY NetworkInvariant
  <2>2. DividedInv /\ WiringInv => Built
    BY DEF Built
  <2>3. QED
    BY <2>1, <2>2, PTL
<1>4. CandidateSpec => Spec
  BY EpochsAreOfBuiltNetworks
<1>5. QED
  BY <1>1, <1>2, <1>3, <1>4, PTL DEF CandidateSpec

(* fann_update_candidate_slopes and fann_train_candidates_epoch: the score *)
(* of a candidate is the squared error it would take away, and the best    *)
(* candidate leaves the least of it, for any network, any patterns and any *)
(* number of candidates.                                                   *)
THEOREM ScoresAreErrorRemoved ==
  ASSUME ProductsFit
  PROVE  CandidateSpec => ScoreIsErrorRemoved
<1> DEFINE Step == fann_train_candidates_epoch /\ NothingClipped
                     /\ (\A n \in Outputs : steepness[n] = 1) =>
             /\ \A k \in Candidates :
                  cascade_candidate_scores'[k] = MSE_value - ErrorWith(k, weights)
             /\ \A k \in Candidates :
                  ErrorWith(cascade_best_candidate' - total_neurons - 1, weights)
                    <= ErrorWith(k, weights)
<1>1. Built /\ CandInv => Step
  BY BestHasLeastError, PropagationAssumption
<1>2. CandidateSpec => [](Built /\ CandInv)
  BY EpochInvariant
<1>3. QED
  BY <1>1, <1>2, PTL DEF ScoreIsErrorRemoved

-----------------------------------------------------------------------------
(* How the error changes with a weight of the outputs                      *)

Up(c) == [weights EXCEPT ![c] = @ + 1]
Down(c) == [weights EXCEPT ![c] = @ - 1]

(* The weights with one of them a step up or down.                         *)
LEMMA UpAndDown ==
  ASSUME CandInv, stage # "none", NEW c \in SlotSpace
  PROVE  \A d \in SlotSpace : /\ weights[d] \in Int
                              /\ Up(c)[d] = IF d = c THEN weights[d] + 1 ELSE weights[d]
                              /\ Down(c)[d] = IF d = c THEN weights[d] + (-1) ELSE weights[d]
<1>1. weights \in [SlotSpace -> Int]
  BY DEF CandInv
<1>2. \A x \in Int : x - 1 = x + (-1)
  OBVIOUS
<1>3. QED
  BY <1>1, <1>2 DEF Up, Down

(* Moving a weight of an output moves the value of that output alone.      *)
LEMMA OutputAfter ==
  ASSUME Built, CandInv, stage # "none", PropagationAssumption, NothingClipped,
         NEW p \in Patterns, NEW c \in DOMAIN connections, Destination(c) \in Outputs,
         NEW a \in Int,
         NEW wa, \A d \in DOMAIN connections :
                   wa[d] = IF d = c THEN weights[d] + a ELSE weights[d]
  PROVE  \A n \in Outputs :
           LinearValuesFrom(wa, InputOf(p))[n] = LinearOf(p)[n]
             + IF n = Destination(c)
               THEN steepness[n] * (a * LinearOf(p)[connections[c]]) ELSE 0
<1> DEFINE input == InputOf(p)
           v == LinearValuesFrom(weights, input)
           u == LinearValuesFrom(wa, input)
<1>1. /\ Runs(weights) /\ OutputsAtEnd /\ num_layers \in 1 .. num_layers
      /\ \A i \in 0 .. num_input - 1 : input[i] \in Int
  BY EpochNetwork, PatternsRun
<1>2. Runs(wa)
  BY <1>1 DEF Runs, IntsOn
<1> HIDE DEF input
<1>3. /\ Solves(v, weights) /\ Solves(u, wa)
      /\ \A n \in Neurons : n \notin Receivers => u[n] = v[n]
  BY <1>1, <1>2, LinearSolves
<1> HIDE DEF u, v
<1>4. \A n \in Outputs :
        u[n] = v[n] + IF n = Destination(c)
                      THEN steepness[n] * (a * v[connections[c]]) ELSE 0
  BY <1>1, <1>3, OutputChange
<1>5. QED
  BY <1>4 DEF u, v, input, LinearOf

(* One pattern: what it adds to the slope is a quarter of the fall of its  *)
(* squared error from one weight below to one above.                       *)
SquaredError(p, w) ==
  SumFunction([n \in Outputs |->
    ErrorAt(p, n, LinearValuesFrom(w, InputOf(p)))
      * ErrorAt(p, n, LinearValuesFrom(w, InputOf(p)))])

OutputPart(p, c) ==
  LET n == Destination(c)
  IN fann_activation_derived(n) * ErrorOf(p, n - FirstOutput)
       * ValuesOf(p)[Source(n, c - first_con[n])]

(* What one pattern adds to the slope of a weight of an output: a fourth   *)
(* of the rise of its error, the other way.                                *)
LEMMA OutputPartIsRise ==
  ASSUME Built, CandInv, stage # "none", PropagationAssumption, NothingClipped,
         NEW p \in Patterns, NEW c \in DOMAIN connections, Destination(c) \in Outputs
  PROVE  /\ SquaredError(p, Up(c)) = (-4) * OutputPart(p, c) + SquaredError(p, Down(c))
         /\ SquaredError(p, Up(c)) \in Int /\ SquaredError(p, Down(c)) \in Int
         /\ OutputPart(p, c) \in Int
<1> DEFINE d == Destination(c)
           v == LinearOf(p)
           up == LinearValuesFrom(Up(c), InputOf(p))
           down == LinearValuesFrom(Down(c), InputOf(p))
           x == steepness[d] * v[connections[c]]
           e == [n \in Outputs |-> ErrorAt(p, n, v)]
           b == [n \in Outputs |-> IF n = d THEN x ELSE 0]
           P == [n \in Outputs |-> ErrorAt(p, n, up) * ErrorAt(p, n, up)]
           Q == [n \in Outputs |-> ErrorAt(p, n, down) * ErrorAt(p, n, down)]
           G == [n \in Outputs |-> e[n] * b[n]]
<1>1. /\ Runs(weights) /\ ConnectionsInPlace
      /\ \A k \in DOMAIN connections : k \in SlotSpace
      /\ total_neurons \in Nat /\ Neurons = 0 .. total_neurons - 1
  BY EpochNetwork
<1>2. /\ \A n \in Outputs : Desired(p, n) \in Int
      /\ IsFiniteSet(Outputs)
      /\ \A n \in Outputs : /\ ErrorOf(p, n - FirstOutput) = ErrorAt(p, n, v)
                            /\ ErrorAt(p, n, v) \in Int
      /\ \A n \in Neurons : v[n] \in Int
  BY PatternsRun, ErrorsAgree
<1>3. /\ d \in Neurons /\ connections[c] \in Neurons
      /\ Source(d, c - first_con[d]) = connections[c]
  <2>1. d \in Neurons /\ c \in Slots(d)
    BY <1>1 DEF ConnectionsInPlace
  <2>2. connections[c] \in Neurons
    BY <1>1, <2>1 DEF ConnectionsInPlace
  <2>3. QED
    BY <1>1, <2>1, <2>2, SourceOfConnection
<1>4. steepness[d] \in Int /\ v[connections[c]] \in Int /\ x \in Int
  <2>1. steepness[d] \in Nat
    BY <1>1, <1>3 DEF Runs, Steep
  <2>2. v[connections[c]] \in Int
    BY <1>2, <1>3
  <2>3. \A r, s \in Int : r * s \in Int
    BY SMT
  <2>4. QED
    BY <2>1, <2>2, <2>3
<1>5. ASSUME NEW n \in Outputs
      PROVE  ErrorAt(p, n, up) = e[n] - b[n] /\ ErrorAt(p, n, down) = e[n] + b[n]
             /\ e[n] \in Int /\ b[n] \in Int
  <2> DEFINE des == Desired(p, n)
             y == v[connections[c]]
             s == steepness[d]
  <2>1. /\ \A k \in DOMAIN connections :
             /\ Up(c)[k] = IF k = c THEN weights[k] + 1 ELSE weights[k]
             /\ Down(c)[k] = IF k = c THEN weights[k] + (-1) ELSE weights[k]
    BY <1>1, UpAndDown
  <2>2. up[n] = v[n] + IF n = d THEN steepness[n] * (1 * y) ELSE 0
    BY <2>1, OutputAfter
  <2>3. down[n] = v[n] + IF n = d THEN steepness[n] * ((-1) * y) ELSE 0
    <3>1. -1 \in Int
      OBVIOUS
    <3>2. QED
      BY <2>1, <3>1, OutputAfter
  <2>4. des \in Int /\ v[n] \in Int /\ e[n] = des - v[n]
    <3>1. n \in Neurons
      <4>1. OutputsAtEnd
        BY EpochNetwork
      <4>2. FirstOutput \in Nat /\ Outputs = FirstOutput .. total_neurons - 1
        BY <4>1 DEF OutputsAtEnd
      <4>3. QED
        BY <1>1, <4>2
    <3>2. QED
      BY <1>2, <3>1 DEF ErrorAt
  <2>5. ErrorAt(p, n, up) = des - up[n] /\ ErrorAt(p, n, down) = des - down[n]
    BY DEF ErrorAt
  <2>6. s \in Int /\ y \in Int /\ x = s * y /\ b[n] = IF n = d THEN x ELSE 0
    BY <1>4
  <2>7. \A r, t \in Int : r * (1 * t) = r * t /\ r * ((-1) * t) = -(r * t)
    BY SMT
  <2>8. n = d => steepness[n] * (1 * y) = x /\ steepness[n] * ((-1) * y) = -x
    BY <2>6, <2>7
  <2> HIDE DEF des, x, y, s, e, b, up, down, v
  <2>9. up[n] = v[n] + b[n] /\ down[n] = v[n] - b[n] /\ b[n] \in Int
    <3>1. CASE n = d
      BY <1>4, <2>2, <2>3, <2>4, <2>6, <2>8, <3>1
    <3>2. CASE n # d
      BY <2>2, <2>3, <2>4, <2>6, <3>2
    <3>3. QED
      BY <3>1, <3>2
  <2>10. QED
    BY <2>4, <2>5, <2>9
<1>6. Total(P, Outputs) = SquaredError(p, Up(c)) /\ Total(Q, Outputs) = SquaredError(p, Down(c))
  <2>1. SquaredError(p, Up(c)) = SumFunction(P) /\ SquaredError(p, Down(c)) = SumFunction(Q)
    BY DEF SquaredError
  <2>2. [n \in Outputs |-> P[n]] = P /\ [n \in Outputs |-> Q[n]] = Q
    OBVIOUS
  <2>3. QED
    BY <2>1, <2>2 DEF Total
<1>7. Total(G, Outputs) = OutputPart(p, c)
  <2>1. G[d] = e[d] * x /\ \A n \in Outputs : n # d => G[n] = e[n] * 0
    OBVIOUS
  <2>2. \A n \in Outputs : e[n] \in Int
    BY <1>5
  <2>3. OutputPart(p, c) = steepness[d] * ErrorOf(p, d - FirstOutput) * v[connections[c]]
    <3>1. ValuesOf(p) = v
      BY PatternsRunLinear
    <3>2. QED
      BY <1>3, <3>1 DEF OutputPart, fann_activation_derived
  <2>4. OutputPart(p, c) = steepness[d] * e[d] * v[connections[c]]
    BY <1>2, <2>3
  <2>5. \A q, r, t \in Int : r * q * t = q * (r * t) /\ q * (r * t) \in Int /\ q * 0 = 0
    BY SMT
  <2> HIDE DEF G, e
  <2>6. e[d] * x = OutputPart(p, c) /\ e[d] * x \in Int
    BY <1>4, <2>2, <2>4, <2>5
  <2>7. \A n \in Outputs : n # d => G[n] = 0
    BY <2>1, <2>2, <2>5
  <2> HIDE DEF x, d
  <2>8. Total(G, Outputs) = G[d]
    BY <1>2, <2>1, <2>6, <2>7, TotalOfOne DEF d
  <2>9. QED
    BY <2>1, <2>6, <2>8
<1>8. IntsOn(e, Outputs) /\ IntsOn(b, Outputs)
  BY <1>5 DEF IntsOn
<1>9. /\ \A n \in Outputs : P[n] = (e[n] - b[n]) * (e[n] - b[n])
      /\ \A n \in Outputs : Q[n] = (e[n] + b[n]) * (e[n] + b[n])
      /\ \A n \in Outputs : G[n] = e[n] * b[n]
  <2> HIDE DEF e, b, up, down
  <2>1. QED
    BY <1>5
<1> HIDE DEF e, b, P, Q, G
<1>10. /\ Total(P, Outputs) = (-4) * Total(G, Outputs) + Total(Q, Outputs)
       /\ IntsOn(P, Outputs) /\ IntsOn(Q, Outputs) /\ IntsOn(G, Outputs)
  BY <1>2, <1>8, <1>9, SquaresDiffer
<1>11. Total(P, Outputs) \in Int /\ Total(Q, Outputs) \in Int /\ Total(G, Outputs) \in Int
  BY <1>2, <1>10, TotalIsInt
<1>12. QED
  BY <1>6, <1>7, <1>10, <1>11

(* What holds of each pattern holds of their sum.                          *)
LEMMA RisesAddUp ==
  ASSUME NEW S, IsFiniteSet(S), NEW a \in Int, NEW U, NEW D, NEW G,
         \A p \in S : /\ U[p] = a * G[p] + D[p]
                      /\ U[p] \in Int /\ D[p] \in Int /\ G[p] \in Int
  PROVE  /\ Total(U, S) - Total(D, S) = a * Total(G, S)
         /\ Total(G, S) \in Int
<1>1. IntsOn(U, S) /\ IntsOn(D, S) /\ IntsOn(G, S)
  BY DEF IntsOn
<1>2. Total(U, S) = a * Total(G, S) + Total(D, S)
  BY <1>1, TotalsCombine
<1>3. Total(D, S) \in Int /\ Total(G, S) \in Int
  BY <1>1, TotalIsInt
<1>4. a * Total(G, S) \in Int
  BY <1>3, SMT
<1> DEFINE x == a * Total(G, S)
<1> HIDE DEF x
<1>5. x \in Int /\ Total(U, S) = x + Total(D, S)
  BY <1>2, <1>4 DEF x
<1>6. Total(U, S) - Total(D, S) = x
  BY <1>3, <1>5
<1>7. QED
  BY <1>3, <1>6 DEF x

(* fann_train_outputs_epoch moves such a weight against the rise of the    *)
(* error.                                                                  *)
LEMMA OutputsFollowError ==
  ASSUME Built, CandInv, PropagationAssumption, fann_train_outputs_epoch, NothingClipped,
         NEW c \in DOMAIN connections, Destination(c) \in Outputs
  PROVE  FollowsError(NetworkError, c)
<1> DEFINE U == [p \in Patterns |-> SquaredError(p, Up(c))]
           D == [p \in Patterns |-> SquaredError(p, Down(c))]
           G == [p \in Patterns |-> OutputPart(p, c)]
           rise == NetworkError(Up(c)) - NetworkError(Down(c))
<1>1. stage # "none" /\ num_cand = 0 /\ stage = "ready"
  BY DEF fann_train_outputs_epoch
<1>2. /\ Destination(c) >= FirstOutput /\ ~(Destination(c) < FirstOutput) /\ c \in SlotSpace
  <2>1. OutputsAtEnd /\ ConnectionsInPlace /\ total_neurons \in Nat
        /\ Neurons = 0 .. total_neurons - 1
    BY <1>1, EpochNetwork
  <2>2. Destination(c) \in Nat /\ FirstOutput \in Nat /\ Destination(c) >= FirstOutput
    BY <2>1 DEF OutputsAtEnd, ConnectionsInPlace
  <2>3. QED
    BY <1>1, <2>2, EpochNetwork
<1>3. \A p \in Patterns : /\ U[p] = (-4) * G[p] + D[p]
                          /\ U[p] \in Int /\ D[p] \in Int /\ G[p] \in Int
  BY <1>1, OutputPartIsRise
<1>4. /\ Total(U, Patterns) = NetworkError(Up(c))
      /\ Total(D, Patterns) = NetworkError(Down(c))
  <2>1. NetworkError(Up(c)) = SumFunction(U) /\ NetworkError(Down(c)) = SumFunction(D)
    BY DEF NetworkError, SquaredError
  <2>2. [p \in Patterns |-> U[p]] = U /\ [p \in Patterns |-> D[p]] = D
    OBVIOUS
  <2>3. QED
    BY <2>1, <2>2 DEF Total
<1>5. Total(G, Patterns) = OutputSlope(c)
  <2>1. OutputSlope(c) = SumFunction(G)
    BY <1>2 DEF OutputSlope, OutputPart
  <2>2. [p \in Patterns |-> G[p]] = G
    OBVIOUS
  <2>3. QED
    BY <2>1, <2>2 DEF Total
<1> HIDE DEF U, D, G
<1>6. rise = -4 * OutputSlope(c) /\ OutputSlope(c) \in Int
  <2>1. IsFiniteSet(Patterns) /\ -4 \in Int
    BY DEF Patterns, PropagationAssumption
  <2>2. /\ Total(U, Patterns) - Total(D, Patterns) = (-4) * Total(G, Patterns)
        /\ Total(G, Patterns) \in Int
    BY <1>3, <2>1, RisesAddUp
  <2>3. QED
    BY <1>4, <1>5, <2>2
<1>7. weights'[c] = Moved(weights[c], SlopeUsed(prev_train_slopes[c], OutputSlope(c)))
  BY <1>2, OutputsEpoch
<1>8. weights[c] \in Int /\ prev_train_slopes[c] \in Int
  BY <1>1, <1>2 DEF CandInv
<1>9. Rise(NetworkError, c) = rise
  BY DEF Rise, Up, Down
<1> HIDE DEF rise
<1>10. Moved(weights[c], SlopeUsed(prev_train_slopes[c], OutputSlope(c)))
        = weights[c] + (IF rise > 0 /\ prev_train_slopes[c] * rise <= 0 THEN -1 ELSE 1)
  BY <1>6, <1>8, MovesAgainstRise
<1>11. QED
  BY <1>7, <1>9, <1>10 DEF FollowsError

-----------------------------------------------------------------------------
(* How the error changes with a weight of a candidate                      *)

SquaredLack(k, w, p) ==
  SumFunction([n \in Outputs |-> Lacking(k, w, p, n) * Lacking(k, w, p, n)])

CandidatePart(k, c, p) ==
  IF c >= LastCon(k) THEN -2 * CandidateDiff(k, p, c - LastCon(k)) * Activation(k, p)
  ELSE -steepness_of(k) * ValuesOf(p)[c - FirstCon(k)]
         * SumFunction([j \in OutputIndex |->
                          CandidateDiff(k, p, j) * weights[LastCon(k) + j]])

(* The weights of a candidate are none of the network.                     *)
LEMMA SlotsBehindNetwork ==
  ASSUME Built, CandInv, stage # "none", num_cand # 0, PropagationAssumption,
         NEW k \in Candidates, NEW c \in SlotsOf(k), NEW p \in Patterns
  PROVE  /\ c \in SlotSpace /\ c \in Int /\ \A d \in SlotsOf(k) : d \in SlotSpace
         /\ LinearValuesFrom(Up(c), InputOf(p)) = LinearOf(p)
         /\ LinearValuesFrom(Down(c), InputOf(p)) = LinearOf(p)
         /\ FirstOutput \in Nat /\ num_output \in Nat /\ FirstCon(k) \in Nat
         /\ LastCon(k) = FirstCon(k) + FirstOutput
         /\ \A i \in 0 .. FirstOutput - 1 :
              FirstCon(k) + i \in SlotsOf(k) /\ i \in Neurons
         /\ \A n \in Outputs : /\ n \in Int
                               /\ n - FirstOutput \in 0 .. num_output - 1
                               /\ LastCon(k) + n - FirstOutput \in SlotsOf(k)
         /\ c < LastCon(k) => c - FirstCon(k) \in 0 .. FirstOutput - 1
         /\ c >= LastCon(k) => c - LastCon(k) \in OutputIndex
<1>1. /\ CandidateSlots /\ Runs(weights) /\ OutputsAtEnd
      /\ total_neurons \in Nat /\ Neurons = 0 .. total_neurons - 1
      /\ \A d \in DOMAIN connections : d \in SlotSpace
      /\ \A i \in 0 .. num_input - 1 : InputOf(p)[i] \in Int
  BY SlotsOfCandidates, EpochNetwork, PatternsRun
<1>2. /\ total_connections \in Nat /\ FirstOutput \in Nat /\ num_output \in Nat
      /\ FirstOutput + num_output = total_neurons
      /\ FirstCon(0) \in Nat /\ total_connections <= FirstCon(0)
      /\ DOMAIN connections = 0 .. total_connections - 1
      /\ FirstCon(k) \in Nat /\ LastCon(k) = FirstCon(k) + FirstOutput
      /\ SlotsOf(k) = FirstCon(k) .. FirstCon(k) + total_neurons - 1
      /\ FirstCon(0) <= c
  BY <1>1 DEF CandidateSlots
<1>3. c \in Int /\ c \notin DOMAIN connections
  BY <1>2
<1>4. \A d \in SlotsOf(k) : d \in SlotSpace
  BY CandidateSums
<1>5. \A d \in DOMAIN connections : Up(c)[d] = weights[d] /\ Down(c)[d] = weights[d]
  BY <1>1, <1>3, <1>4, UpAndDown
<1>6. /\ LinearValuesFrom(Up(c), InputOf(p)) = LinearOf(p)
      /\ LinearValuesFrom(Down(c), InputOf(p)) = LinearOf(p)
  <2> DEFINE input == InputOf(p)
  <2>1. \A i \in 0 .. num_input - 1 : input[i] \in Int
    BY <1>1
  <2> HIDE DEF input
  <2>2. /\ LinearValuesFrom(Up(c), input) = LinearValuesFrom(weights, input)
        /\ LinearValuesFrom(Down(c), input) = LinearValuesFrom(weights, input)
    BY <1>1, <1>5, <2>1, OthersDoNotMatter
  <2>3. QED
    BY <2>2 DEF input, LinearOf
<1>7. \A i \in 0 .. FirstOutput - 1 : FirstCon(k) + i \in SlotsOf(k) /\ i \in Neurons
  BY <1>1, <1>2
<1>8. Outputs = FirstOutput .. total_neurons - 1
  BY <1>1 DEF OutputsAtEnd
<1>9. ASSUME NEW n \in Outputs
      PROVE  /\ n \in Int /\ n - FirstOutput \in 0 .. num_output - 1
             /\ LastCon(k) + n - FirstOutput \in SlotsOf(k)
  BY <1>1, <1>2, <1>8
<1>10. /\ c < LastCon(k) => c - FirstCon(k) \in 0 .. FirstOutput - 1
       /\ c >= LastCon(k) => c - LastCon(k) \in OutputIndex
  <2> DEFINE a == FirstCon(k)
             f == FirstOutput
  <2>1. /\ a \in Nat /\ f \in Nat /\ num_output \in Nat /\ c \in Int
        /\ LastCon(k) = a + f /\ a <= c /\ c < a + (f + num_output)
    <3>1. c \in a .. a + total_neurons - 1
      BY <1>2
    <3>2. QED
      BY <1>1, <1>2, <1>3, <3>1
  <2> HIDE DEF a, f
  <2>2. /\ c < LastCon(k) => c - a \in 0 .. f - 1
        /\ c >= LastCon(k) => c - LastCon(k) \in 0 .. num_output - 1
    BY <2>1
  <2>3. QED
    BY <2>2 DEF a, f, OutputIndex
<1>11. QED
  BY <1>2, <1>3, <1>4, <1>6, <1>7, <1>9, <1>10

(* A weight from the candidate to an output.                               *)
LEMMA OutputWeightIsRise ==
  ASSUME Built, CandInv, stage # "none", num_cand # 0, PropagationAssumption,
         NothingClipped, NEW k \in Candidates, NEW c \in SlotsOf(k), NEW p \in Patterns,
         c >= LastCon(k)
  PROVE  /\ SquaredLack(k, Up(c), p) = (-2) * CandidatePart(k, c, p)
                                         + SquaredLack(k, Down(c), p)
         /\ SquaredLack(k, Up(c), p) \in Int /\ SquaredLack(k, Down(c), p) \in Int
         /\ CandidatePart(k, c, p) \in Int
<1> DEFINE v == LinearOf(p)
           A == Activation(k, p)
           j == c - LastCon(k)
           d == FirstOutput + j
           at(n) == LastCon(k) + n - FirstOutput
           e == [n \in Outputs |-> Lacking(k, weights, p, n)]
           b == [n \in Outputs |-> IF n = d THEN A ELSE 0]
           P == [n \in Outputs |-> Lacking(k, Up(c), p, n) * Lacking(k, Up(c), p, n)]
           Q == [n \in Outputs |-> Lacking(k, Down(c), p, n) * Lacking(k, Down(c), p, n)]
           G == [n \in Outputs |-> e[n] * b[n]]
<1>1. /\ c \in SlotSpace /\ c \in Int /\ \A i \in SlotsOf(k) : i \in SlotSpace
      /\ LinearValuesFrom(Up(c), InputOf(p)) = v
      /\ LinearValuesFrom(Down(c), InputOf(p)) = v
      /\ FirstOutput \in Nat /\ num_output \in Nat /\ FirstCon(k) \in Nat
      /\ LastCon(k) = FirstCon(k) + FirstOutput
      /\ \A i \in 0 .. FirstOutput - 1 : FirstCon(k) + i \in SlotsOf(k)
      /\ \A n \in Outputs : n \in Int /\ n - FirstOutput \in 0 .. num_output - 1
                            /\ at(n) \in SlotsOf(k)
      /\ j \in OutputIndex
  BY SlotsBehindNetwork
<1>2. /\ \A i \in OutputIndex : FirstOutput + i \in Outputs
      /\ \A n \in Outputs : ErrorAt(p, n, v) \in Int
      /\ CandidateDiff(k, p, j) = -Lacking(k, weights, p, d)
      /\ \A n \in Outputs : e[n] \in Int
      /\ IsFiniteSet(Outputs)
  BY <1>1, ErrorsAgree, DiffIsLacking, PatternsRun
<1>3. /\ A = CandidateAnswer(k, weights, v) /\ A \in Int
      /\ \A i \in SlotsOf(k) : weights[i] \in Int
  BY ActivationIsAnswer, CandidateSums
<1>4. \A i \in SlotSpace : /\ weights[i] \in Int
                           /\ Up(c)[i] = IF i = c THEN weights[i] + 1 ELSE weights[i]
                           /\ Down(c)[i] = IF i = c THEN weights[i] + (-1) ELSE weights[i]
  BY <1>1, UpAndDown
<1>5. CandidateAnswer(k, Up(c), v) = A /\ CandidateAnswer(k, Down(c), v) = A
  <2>1. ASSUME NEW i \in 0 .. FirstOutput - 1
        PROVE  /\ Up(c)[FirstCon(k) + i] = weights[FirstCon(k) + i]
               /\ Down(c)[FirstCon(k) + i] = weights[FirstCon(k) + i]
    <3>1. FirstCon(k) + i # c /\ FirstCon(k) + i \in SlotSpace
      BY <1>1
    <3>2. QED
      BY <1>4, <3>1
  <2> DEFINE F(w) == [i \in 0 .. FirstOutput - 1 |-> w[FirstCon(k) + i] * v[i]]
  <2>2. F(Up(c)) = F(weights) /\ F(Down(c)) = F(weights)
    BY <2>1
  <2>3. QED
    BY <1>3, <2>2 DEF CandidateAnswer
<1>6. ASSUME NEW n \in Outputs
      PROVE  /\ Lacking(k, Up(c), p, n) = e[n] - b[n]
             /\ Lacking(k, Down(c), p, n) = e[n] + b[n]
             /\ e[n] \in Int /\ b[n] \in Int
  <2> DEFINE q == at(n)
             r == ErrorAt(p, n, v)
  <2>1. /\ Lacking(k, Up(c), p, n) = r - Up(c)[q] * A
        /\ Lacking(k, Down(c), p, n) = r - Down(c)[q] * A
    BY <1>1, <1>5 DEF Lacking
  <2>2. e[n] = r - weights[q] * A
    BY <1>3 DEF Lacking, LinearOf
  <2>3. q \in SlotSpace /\ r \in Int /\ weights[q] \in Int /\ A \in Int /\ e[n] \in Int
    BY <1>1, <1>2, <1>3, <1>4
  <2>4. q = c <=> n = d
    BY <1>1
  <2>5. b[n] = IF n = d THEN A ELSE 0
    OBVIOUS
  <2>6. /\ Up(c)[q] = IF n = d THEN weights[q] + 1 ELSE weights[q]
        /\ Down(c)[q] = IF n = d THEN weights[q] + (-1) ELSE weights[q]
    BY <1>4, <2>3, <2>4
  <2> HIDE DEF q, r, e, b, A, d
  <2>7. \A x, y, z \in Int : /\ x - (y + 1) * z = (x - y * z) - z
                             /\ x - (y + (-1)) * z = (x - y * z) + z
    BY SMT
  <2>8. CASE n = d
    BY <2>1, <2>2, <2>3, <2>5, <2>6, <2>7, <2>8
  <2>9. CASE n # d
    BY <2>1, <2>2, <2>3, <2>5, <2>6, <2>9
  <2>10. QED
    BY <2>8, <2>9
<1>7. Total(P, Outputs) = SquaredLack(k, Up(c), p)
      /\ Total(Q, Outputs) = SquaredLack(k, Down(c), p)
  <2>1. /\ SquaredLack(k, Up(c), p) = SumFunction(P)
        /\ SquaredLack(k, Down(c), p) = SumFunction(Q)
    BY DEF SquaredLack
  <2>2. [n \in Outputs |-> P[n]] = P /\ [n \in Outputs |-> Q[n]] = Q
    OBVIOUS
  <2>3. QED
    BY <2>1, <2>2 DEF Total
<1>8. CandidatePart(k, c, p) = 2 * Total(G, Outputs) /\ Total(G, Outputs) \in Int
  <2>1. d \in Outputs /\ e[d] = Lacking(k, weights, p, d) /\ e[d] \in Int
    BY <1>1, <1>2
  <2>2. CandidatePart(k, c, p) = -2 * CandidateDiff(k, p, j) * A
    BY DEF CandidatePart
  <2>3. CandidateDiff(k, p, j) = -e[d]
    BY <1>2, <2>1
  <2>4. G[d] = e[d] * A /\ \A n \in Outputs : n # d => G[n] = e[n] * 0
    BY <2>1
  <2>5. \A x, y \in Int : /\ -2 * (-x) * y = 2 * (x * y) /\ x * y \in Int /\ x * 0 = 0
    BY SMT
  <2> HIDE DEF G, e, d, A, j
  <2>6. G[d] \in Int /\ \A n \in Outputs : n # d => G[n] = 0
    BY <1>2, <1>3, <2>1, <2>4, <2>5
  <2>7. Total(G, Outputs) = G[d]
    BY <1>2, <2>1, <2>6, TotalOfOne
  <2>8. QED
    BY <1>3, <2>1, <2>2, <2>3, <2>4, <2>5, <2>6, <2>7
<1>9. IntsOn(e, Outputs) /\ IntsOn(b, Outputs)
  BY <1>6 DEF IntsOn
<1>10. /\ \A n \in Outputs : P[n] = (e[n] - b[n]) * (e[n] - b[n])
       /\ \A n \in Outputs : Q[n] = (e[n] + b[n]) * (e[n] + b[n])
       /\ \A n \in Outputs : G[n] = e[n] * b[n]
  <2> HIDE DEF e, b
  <2>1. QED
    BY <1>6
<1> HIDE DEF e, b, P, Q, G
<1>11. /\ Total(P, Outputs) = (-4) * Total(G, Outputs) + Total(Q, Outputs)
       /\ IntsOn(P, Outputs) /\ IntsOn(Q, Outputs) /\ IntsOn(G, Outputs)
  BY <1>2, <1>9, <1>10, SquaresDiffer
<1>12. Total(P, Outputs) \in Int /\ Total(Q, Outputs) \in Int
  BY <1>2, <1>11, TotalIsInt
<1>13. QED
  BY <1>7, <1>8, <1>11, <1>12

(* A weight of the candidate itself.                                       *)
LEMMA AnswerAfter ==
  ASSUME Built, CandInv, stage # "none", num_cand # 0, PropagationAssumption,
         NothingClipped, NEW k \in Candidates, NEW c \in SlotsOf(k), NEW p \in Patterns,
         c < LastCon(k), NEW a \in Int,
         NEW wa, \A d \in SlotSpace : wa[d] = IF d = c THEN weights[d] + a ELSE weights[d]
  PROVE  CandidateAnswer(k, wa, LinearOf(p)) =
           CandidateAnswer(k, weights, LinearOf(p))
             + steepness_of(k) * (a * LinearOf(p)[c - FirstCon(k)])
<1> DEFINE v == LinearOf(p)
           S == 0 .. FirstOutput - 1
           z == c - FirstCon(k)
           x == a * v[z]
           F == [i \in S |-> weights[FirstCon(k) + i] * v[i]]
           B == [i \in S |-> IF i = z THEN x ELSE 0]
           H == [i \in S |-> wa[FirstCon(k) + i] * v[i]]
<1>1. /\ \A d \in SlotsOf(k) : d \in SlotSpace
      /\ FirstOutput \in Nat /\ FirstCon(k) \in Nat /\ c \in Int
      /\ \A i \in S : FirstCon(k) + i \in SlotsOf(k) /\ i \in Neurons
      /\ z \in S /\ IsFiniteSet(S)
  <2>1. /\ \A d \in SlotsOf(k) : d \in SlotSpace
        /\ FirstOutput \in Nat /\ FirstCon(k) \in Nat /\ c \in Int
        /\ \A i \in S : FirstCon(k) + i \in SlotsOf(k) /\ i \in Neurons
        /\ z \in S
    BY SlotsBehindNetwork
  <2>2. IsFiniteSet(S)
    <3>1. FirstOutput - 1 \in Int /\ 0 \in Int
      BY <2>1
    <3>2. QED
      BY <3>1, FS_Interval
  <2>3. QED
    BY <2>1, <2>2
<1>2. /\ \A d \in SlotsOf(k) : weights[d] \in Int
      /\ \A n \in Neurons : v[n] \in Int
      /\ steepness_of(k) \in Int
  BY CandidateSums, ErrorsAgree
<1>3. \A q, r \in Int : q * r \in Int
  BY SMT
<1>4. v[z] \in Int /\ x \in Int
  BY <1>1, <1>2, <1>3
<1>5. ASSUME NEW i \in S
      PROVE  /\ F[i] = weights[FirstCon(k) + i] * v[i] /\ F[i] \in Int
             /\ B[i] = (IF i = z THEN x ELSE 0) /\ B[i] \in Int
             /\ H[i] = F[i] + B[i]
  <2> DEFINE d == FirstCon(k) + i
  <2>1. /\ d \in SlotsOf(k) /\ d \in SlotSpace /\ v[i] \in Int /\ weights[d] \in Int
        /\ (d = c <=> i = z)
    BY <1>1, <1>2
  <2>2. wa[d] = IF i = z THEN weights[d] + a ELSE weights[d]
    BY <2>1
  <2>3. H[i] = wa[d] * v[i] /\ F[i] = weights[d] * v[i] /\ B[i] = IF i = z THEN x ELSE 0
    OBVIOUS
  <2> HIDE DEF d, F, B, H
  <2>4. \A q, r \in Int : (q + a) * r = q * r + a * r
    BY SMT
  <2>5. F[i] \in Int /\ B[i] \in Int
    BY <1>3, <1>4, <2>1, <2>3
  <2>6. CASE i = z
    <3>1. H[i] = (weights[d] + a) * v[i] /\ B[i] = a * v[i]
      BY <2>2, <2>3, <2>6
    <3>2. QED
      BY <2>1, <2>3, <2>4, <2>5, <3>1 DEF d
  <2>7. CASE i # z
    BY <2>2, <2>3, <2>5, <2>7 DEF d
  <2>8. QED
    BY <2>3, <2>5, <2>6, <2>7 DEF d
<1>6. /\ CandidateAnswer(k, weights, v) = steepness_of(k) * Total(F, S)
      /\ CandidateAnswer(k, wa, v) = steepness_of(k) * Total(H, S)
  <2>1. [i \in S |-> F[i]] = F /\ [i \in S |-> H[i]] = H
    OBVIOUS
  <2>2. QED
    BY <2>1 DEF CandidateAnswer, Total
<1> HIDE DEF F, B, H, S
<1>7. IntsOn(F, S) /\ IntsOn(B, S)
  BY <1>5 DEF IntsOn
<1>8. Total(H, S) = Total(F, S) + Total(B, S)
  BY <1>1, <1>5, <1>7, TotalsAdd
<1> HIDE DEF x, z
<1>9. Total(B, S) = x
  <2>1. B[z] = x /\ \A i \in S : i # z => B[i] = 0
    BY <1>1, <1>5
  <2>2. QED
    BY <1>1, <1>4, <2>1, TotalOfOne
<1>10. Total(F, S) \in Int
  BY <1>1, <1>7, TotalIsInt
<1>11. \A q, r, s \in Int : s * (q + r) = s * q + s * r
  BY SMT
<1>12. CandidateAnswer(k, wa, v) = CandidateAnswer(k, weights, v) + steepness_of(k) * x
  BY <1>2, <1>4, <1>6, <1>8, <1>9, <1>10, <1>11
<1>13. QED
  BY <1>12 DEF x, z

(* For a weight between an earlier neuron and a candidate, it is a fourth  *)
(* of the rise.                                                            *)
LEMMA InputWeightIsRise ==
  ASSUME Built, CandInv, stage # "none", num_cand # 0, PropagationAssumption,
         NothingClipped, NEW k \in Candidates, NEW c \in SlotsOf(k), NEW p \in Patterns,
         c < LastCon(k)
  PROVE  /\ SquaredLack(k, Up(c), p) = (-4) * CandidatePart(k, c, p)
                                         + SquaredLack(k, Down(c), p)
         /\ SquaredLack(k, Up(c), p) \in Int /\ SquaredLack(k, Down(c), p) \in Int
         /\ CandidatePart(k, c, p) \in Int
<1> DEFINE v == LinearOf(p)
           A == Activation(k, p)
           s == steepness_of(k)
           y == v[c - FirstCon(k)]
           g == s * y
           at(n) == LastCon(k) + n - FirstOutput
           e == [n \in Outputs |-> Lacking(k, weights, p, n)]
           b == [n \in Outputs |-> weights[at(n)] * g]
           P == [n \in Outputs |-> Lacking(k, Up(c), p, n) * Lacking(k, Up(c), p, n)]
           Q == [n \in Outputs |-> Lacking(k, Down(c), p, n) * Lacking(k, Down(c), p, n)]
           G == [n \in Outputs |-> e[n] * b[n]]
           H == [n \in Outputs |-> e[n] * weights[at(n)]]
           M == [n \in Outputs |-> (-1) * H[n]]
           F == [j \in OutputIndex |-> CandidateDiff(k, p, j) * weights[LastCon(k) + j]]
<1>1. /\ c \in SlotSpace /\ c \in Int /\ \A i \in SlotsOf(k) : i \in SlotSpace
      /\ LinearValuesFrom(Up(c), InputOf(p)) = v
      /\ LinearValuesFrom(Down(c), InputOf(p)) = v
      /\ FirstOutput \in Nat /\ num_output \in Nat /\ FirstCon(k) \in Nat
      /\ LastCon(k) = FirstCon(k) + FirstOutput
      /\ \A i \in 0 .. FirstOutput - 1 : i \in Neurons
      /\ \A n \in Outputs : n \in Int /\ n - FirstOutput \in 0 .. num_output - 1
                            /\ at(n) \in SlotsOf(k)
      /\ c - FirstCon(k) \in 0 .. FirstOutput - 1
  BY SlotsBehindNetwork
<1>2. /\ \A j \in OutputIndex : /\ FirstOutput + j \in Outputs
                                /\ CandidateDiff(k, p, j) = -Lacking(k, weights, p, FirstOutput + j)
      /\ \A n \in Outputs : ErrorAt(p, n, v) \in Int
      /\ \A n \in Outputs : e[n] \in Int
      /\ \A n \in Neurons : v[n] \in Int
      /\ ValuesOf(p) = v
      /\ IsFiniteSet(Outputs)
  BY ErrorsAgree, DiffIsLacking, PatternsRun, PatternsRunLinear
<1>3. /\ A = CandidateAnswer(k, weights, v) /\ A \in Int /\ s \in Int
      /\ \A i \in SlotsOf(k) : weights[i] \in Int
  BY ActivationIsAnswer, CandidateSums
<1>4. \A i \in SlotSpace : /\ weights[i] \in Int
                           /\ Up(c)[i] = IF i = c THEN weights[i] + 1 ELSE weights[i]
                           /\ Down(c)[i] = IF i = c THEN weights[i] + (-1) ELSE weights[i]
  BY <1>1, UpAndDown
<1>5. \A q, r \in Int : q * r \in Int
  BY SMT
<1>6. y \in Int /\ g \in Int
  BY <1>1, <1>2, <1>3, <1>5
<1>7. CandidateAnswer(k, Up(c), v) = A + g /\ CandidateAnswer(k, Down(c), v) = A - g
  <2>1. CandidateAnswer(k, Up(c), v) = A + s * (1 * y)
    BY <1>3, <1>4, AnswerAfter
  <2>2. CandidateAnswer(k, Down(c), v) = A + s * ((-1) * y)
    <3>1. -1 \in Int
      OBVIOUS
    <3>2. QED
      BY <1>3, <1>4, <3>1, AnswerAfter
  <2>3. \A q, r \in Int : r * (1 * q) = r * q /\ r * ((-1) * q) = -(r * q)
    BY SMT
  <2> HIDE DEF A, s, y
  <2>4. s * (1 * y) = g /\ s * ((-1) * y) = -g
    BY <1>3, <1>6, <2>3
  <2>5. A + (-g) = A - g
    BY <1>3, <1>6
  <2>6. QED
    BY <2>1, <2>2, <2>4, <2>5
<1> HIDE DEF A, s, y, g, v
<1>8. ASSUME NEW n \in Outputs
      PROVE  /\ Lacking(k, Up(c), p, n) = e[n] - b[n]
             /\ Lacking(k, Down(c), p, n) = e[n] + b[n]
             /\ e[n] \in Int /\ b[n] \in Int /\ weights[at(n)] \in Int
             /\ b[n] = weights[at(n)] * g
  <2> DEFINE q == at(n)
             r == ErrorAt(p, n, v)
  <2>1. q \in SlotSpace /\ q # c /\ weights[q] \in Int
    BY <1>1, <1>3
  <2>2. /\ Lacking(k, Up(c), p, n) = r - Up(c)[q] * (A + g)
        /\ Lacking(k, Down(c), p, n) = r - Down(c)[q] * (A - g)
    BY <1>1, <1>7 DEF Lacking
  <2>3. e[n] = r - weights[q] * A
    BY <1>3 DEF Lacking, LinearOf, v
  <2>4. Up(c)[q] = weights[q] /\ Down(c)[q] = weights[q]
    BY <1>4, <2>1
  <2>5. r \in Int /\ A \in Int /\ g \in Int /\ e[n] \in Int
    BY <1>2, <1>3, <1>6
  <2>6. b[n] = weights[q] * g
    OBVIOUS
  <2> HIDE DEF q, r, e, b
  <2>7. \A x, t, z, i \in Int : /\ x - t * (z + i) = (x - t * z) - t * i
                                /\ x - t * (z - i) = (x - t * z) + t * i
                                /\ t * i \in Int
    BY SMT
  <2>8. QED
    BY <2>1, <2>2, <2>3, <2>4, <2>5, <2>6, <2>7 DEF q
<1>9. /\ Total(P, Outputs) = SquaredLack(k, Up(c), p)
      /\ Total(Q, Outputs) = SquaredLack(k, Down(c), p)
      /\ Total(F, OutputIndex) = SumFunction(F)
  <2>1. /\ SquaredLack(k, Up(c), p) = SumFunction(P)
        /\ SquaredLack(k, Down(c), p) = SumFunction(Q)
    BY DEF SquaredLack
  <2>2. /\ [n \in Outputs |-> P[n]] = P /\ [n \in Outputs |-> Q[n]] = Q
        /\ [j \in OutputIndex |-> F[j]] = F
    OBVIOUS
  <2>3. QED
    BY <2>1, <2>2 DEF Total
<1>10. ASSUME NEW n \in Outputs
       PROVE  /\ H[n] = e[n] * weights[at(n)] /\ H[n] \in Int
              /\ G[n] = g * H[n] /\ M[n] = (-1) * H[n] /\ M[n] \in Int
  <2>1. e[n] \in Int /\ weights[at(n)] \in Int /\ b[n] = weights[at(n)] * g /\ g \in Int
    BY <1>6, <1>8
  <2>2. H[n] = e[n] * weights[at(n)] /\ G[n] = e[n] * b[n] /\ M[n] = (-1) * H[n]
    OBVIOUS
  <2> HIDE DEF e, b, H, G, M, at
  <2>3. \A q, r, t \in Int : q * (r * t) = t * (q * r) /\ q * r \in Int /\ (-1) * q \in Int
    BY SMT
  <2>4. QED
    BY <2>1, <2>2, <2>3
<1>11. IntsOn(e, Outputs) /\ IntsOn(b, Outputs) /\ IntsOn(H, Outputs) /\ IntsOn(M, Outputs)
  <2> HIDE DEF e, b, H, M
  <2>1. QED
    BY <1>8, <1>10 DEF IntsOn
<1>12. \A j \in OutputIndex : F[j] = M[FirstOutput + j]
  <2> TAKE j \in OutputIndex
  <2> DEFINE n == FirstOutput + j
  <2>1. n \in Outputs /\ CandidateDiff(k, p, j) = -e[n]
    BY <1>2
  <2>2. at(n) = LastCon(k) + j
    <3>1. j \in Int
      BY <1>1 DEF OutputIndex
    <3>2. QED
      BY <1>1, <3>1
  <2>3. F[j] = (-e[n]) * weights[at(n)]
    BY <2>1, <2>2
  <2>4. e[n] \in Int /\ weights[at(n)] \in Int /\ M[n] = (-1) * H[n]
        /\ H[n] = e[n] * weights[at(n)]
    BY <1>8, <1>10, <2>1
  <2> HIDE DEF F, M, H, e, n, at
  <2>5. \A q, r \in Int : (-q) * r = (-1) * (q * r)
    BY SMT
  <2>6. F[j] = M[n]
    BY <2>3, <2>4, <2>5
  <2>7. QED
    BY <2>6 DEF n
<1>13. /\ \A n \in Outputs : P[n] = (e[n] - b[n]) * (e[n] - b[n])
       /\ \A n \in Outputs : Q[n] = (e[n] + b[n]) * (e[n] + b[n])
       /\ \A n \in Outputs : G[n] = e[n] * b[n]
  <2> HIDE DEF e, b
  <2>1. QED
    BY <1>8
<1>14. CandidatePart(k, c, p) = -s * y * SumFunction(F)
  <2>1. ~(c >= LastCon(k))
    BY <1>1
  <2>2. QED
    BY <1>2, <2>1 DEF CandidatePart, s, y
<1> HIDE DEF e, b, P, Q, G, H, M, F
<1>15. /\ Total(P, Outputs) = (-4) * Total(G, Outputs) + Total(Q, Outputs)
       /\ IntsOn(P, Outputs) /\ IntsOn(Q, Outputs) /\ IntsOn(G, Outputs)
  BY <1>2, <1>11, <1>13, SquaresDiffer
<1>16. /\ Total(P, Outputs) \in Int /\ Total(Q, Outputs) \in Int
       /\ Total(G, Outputs) \in Int /\ Total(H, Outputs) \in Int
  BY <1>2, <1>11, <1>15, TotalIsInt
<1>17. Total(F, OutputIndex) = Total(M, Outputs)
  BY <1>11, <1>12, OutputsRenamed
<1>18. Total(M, Outputs) = (-1) * Total(H, Outputs)
  <2> DEFINE a == -1
  <2>1. a \in Int /\ \A n \in Outputs : M[n] = a * H[n]
    BY <1>10
  <2> HIDE DEF a
  <2>2. Total(M, Outputs) = a * Total(H, Outputs)
    BY <1>2, <1>11, <2>1, TotalTimes
  <2>3. QED
    BY <2>2 DEF a
<1>19. Total(G, Outputs) = g * Total(H, Outputs)
  BY <1>2, <1>6, <1>10, <1>11, TotalTimes
<1>20. CandidatePart(k, c, p) = Total(G, Outputs)
  <2>1. \A q, r, t \in Int : -q * r * ((-1) * t) = (q * r) * t
    BY SMT
  <2>2. CandidatePart(k, c, p) = -s * y * ((-1) * Total(H, Outputs))
    BY <1>9, <1>14, <1>17, <1>18
  <2>3. CandidatePart(k, c, p) = (s * y) * Total(H, Outputs)
    BY <1>3, <1>6, <1>16, <2>1, <2>2
  <2>4. QED
    BY <1>19, <2>3 DEF g
<1>21. QED
  BY <1>9, <1>15, <1>16, <1>20

(* fann_train_candidates_epoch moves every weight of a candidate against   *)
(* the rise of the error left with it.                                     *)
LEMMA CandidatesFollowError ==
  ASSUME Built, CandInv, PropagationAssumption, fann_train_candidates_epoch,
         NothingClipped, NEW k \in Candidates, NEW c \in SlotsOf(k)
  PROVE  FollowsError(LAMBDA w : ErrorWith(k, w), c)
<1> DEFINE U == [p \in Patterns |-> SquaredLack(k, Up(c), p)]
           D == [p \in Patterns |-> SquaredLack(k, Down(c), p)]
           G == [p \in Patterns |-> CandidatePart(k, c, p)]
           slope == CandidateSlope(k, c)
           rise == ErrorWith(k, Up(c)) - ErrorWith(k, Down(c))
<1>1. /\ stage # "none" /\ num_cand # 0
      /\ weights'[c] = Moved(weights[c], SlopeUsed(prev_train_slopes[c], slope))
  BY CandidatesEpoch
<1>2. /\ IsFiniteSet(Patterns)
      /\ c < LastCon(k) \/ c >= LastCon(k)
  <2>1. IsFiniteSet(Patterns)
    BY DEF Patterns, PropagationAssumption
  <2>2. c \in Int /\ LastCon(k) \in Int
    <3>1. CandidateSlots
      BY <1>1, SlotsOfCandidates
    <3>2. /\ FirstCon(k) \in Nat /\ FirstOutput \in Nat /\ total_neurons \in Nat
          /\ LastCon(k) = FirstCon(k) + FirstOutput
          /\ SlotsOf(k) = FirstCon(k) .. FirstCon(k) + total_neurons - 1
      BY <3>1 DEF CandidateSlots
    <3>3. QED
      BY <3>2
  <2>3. QED
    BY <2>1, <2>2
<1>3. /\ Total(U, Patterns) = ErrorWith(k, Up(c))
      /\ Total(D, Patterns) = ErrorWith(k, Down(c))
  <2>1. /\ ErrorWith(k, Up(c)) = SumFunction(U)
        /\ ErrorWith(k, Down(c)) = SumFunction(D)
    BY ErrorIsOfLacking DEF SquaredLack
  <2>2. [p \in Patterns |-> U[p]] = U /\ [p \in Patterns |-> D[p]] = D
    OBVIOUS
  <2>3. QED
    BY <2>1, <2>2 DEF Total
<1>4. Total(G, Patterns) = slope
  <2>1. slope = SumFunction(G)
    BY DEF CandidateSlope, CandidatePart
  <2>2. [p \in Patterns |-> G[p]] = G
    OBVIOUS
  <2>3. QED
    BY <2>1, <2>2 DEF Total
<1>5. (rise = -4 * slope \/ rise = -2 * slope) /\ slope \in Int
  <2>1. CASE c < LastCon(k)
    <3>1. \A p \in Patterns : /\ U[p] = (-4) * G[p] + D[p]
                              /\ U[p] \in Int /\ D[p] \in Int /\ G[p] \in Int
      BY <1>1, <2>1, InputWeightIsRise
    <3>2. -4 \in Int
      OBVIOUS
    <3> HIDE DEF U, D, G
    <3>3. /\ Total(U, Patterns) - Total(D, Patterns) = (-4) * Total(G, Patterns)
          /\ Total(G, Patterns) \in Int
      BY <1>2, <3>1, <3>2, RisesAddUp
    <3> HIDE DEF slope
    <3>4. QED
      BY <1>3, <1>4, <3>3
  <2>2. CASE c >= LastCon(k)
    <3>1. \A p \in Patterns : /\ U[p] = (-2) * G[p] + D[p]
                              /\ U[p] \in Int /\ D[p] \in Int /\ G[p] \in Int
      BY <1>1, <2>2, OutputWeightIsRise
    <3>2. -2 \in Int
      OBVIOUS
    <3> HIDE DEF U, D, G
    <3>3. /\ Total(U, Patterns) - Total(D, Patterns) = (-2) * Total(G, Patterns)
          /\ Total(G, Patterns) \in Int
      BY <1>2, <3>1, <3>2, RisesAddUp
    <3> HIDE DEF slope
    <3>4. QED
      BY <1>3, <1>4, <3>3
  <2>3. QED
    BY <1>2, <2>1, <2>2
<1>6. weights[c] \in Int /\ prev_train_slopes[c] \in Int
  <2>1. c \in SlotSpace
    BY <1>1, SlotsInSpace
  <2>2. QED
    BY <1>1, <2>1 DEF CandInv
<1> HIDE DEF slope
<1>7. Rise(LAMBDA w : ErrorWith(k, w), c) = rise
  BY DEF Rise, Up, Down
<1> HIDE DEF rise
<1>8. Moved(weights[c], SlopeUsed(prev_train_slopes[c], slope))
        = weights[c] + (IF rise > 0 /\ prev_train_slopes[c] * rise <= 0 THEN -1 ELSE 1)
  BY <1>5, <1>6, MovesAgainstRise
<1>9. QED
  BY <1>1, <1>7, <1>8 DEF FollowsError

(* fann_train_outputs_epoch and fann_train_candidates_epoch: whatever the  *)
(* network, the patterns, the candidates and the weights, each weight that *)
(* is trained moves along the derivative of the error it is trained for,   *)
(* and the others stand still.                                             *)
THEOREM EpochsAreDescents ==
  ASSUME ProductsFit
  PROVE  CandidateSpec => EpochsFollowError
<1> DEFINE Step ==
      /\ fann_train_outputs_epoch /\ NothingClipped =>
           \A c \in DOMAIN weights :
             IF Destination(c) \in Outputs THEN FollowsError(NetworkError, c)
             ELSE weights'[c] = weights[c]
      /\ fann_train_candidates_epoch /\ NothingClipped =>
           /\ \A c \in 0 .. FirstCon(0) - 1 : weights'[c] = weights[c]
           /\ \A k \in Candidates : \A c \in SlotsOf(k) :
                FollowsError(LAMBDA w : ErrorWith(k, w), c)
<1>1. ASSUME Built, CandInv, fann_train_outputs_epoch, NothingClipped,
             NEW c \in DOMAIN weights
      PROVE  IF Destination(c) \in Outputs THEN FollowsError(NetworkError, c)
             ELSE weights'[c] = weights[c]
  <2>1. stage = "ready" /\ num_cand = 0
    BY <1>1 DEF fann_train_outputs_epoch
  <2>2. c \in DOMAIN connections
    BY <1>1, <2>1 DEF CandInv, SlotSpace
  <2>3. Destination(c) >= FirstOutput <=> Destination(c) \in Outputs
    BY <1>1, <2>1, <2>2, EpochNetwork DEF OutputsAtEnd
  <2>4. CASE Destination(c) \in Outputs
    BY <1>1, <2>2, <2>4, OutputsFollowError, PropagationAssumption
  <2>5. CASE Destination(c) \notin Outputs
    BY <1>1, <2>2, <2>3, <2>5, OutputsEpoch, PropagationAssumption
  <2>6. QED
    BY <2>4, <2>5
<1>2. ASSUME Built, CandInv, fann_train_candidates_epoch, NothingClipped
      PROVE  /\ \A c \in 0 .. FirstCon(0) - 1 : weights'[c] = weights[c]
             /\ \A k \in Candidates : \A c \in SlotsOf(k) :
                  FollowsError(LAMBDA w : ErrorWith(k, w), c)
  BY <1>2, CandidatesEpoch, CandidatesFollowError, PropagationAssumption
<1>3. Built /\ CandInv => Step
  BY <1>1, <1>2
<1>4. CandidateSpec => [](Built /\ CandInv)
  BY EpochInvariant
<1>5. QED
  BY <1>3, <1>4, PTL DEF EpochsFollowError
=============================================================================
