---------------------------- MODULE NetworkProofs ----------------------------
(***************************************************************************)
(* Proofs about building a network (NetworkCreation) and about saving and  *)
(* loading it (NetworkFile), for all layer sizes and connection rates, all *)
(* random numbers and all places where a file may end.                     *)
(*                                                                         *)
(* A network is built in two parts, each with an invariant: how the        *)
(* connections are divided (DividedInv), which the first step does, and    *)
(* which neurons they come from (WiringInv), layer by layer.               *)
(***************************************************************************)
EXTENDS NetworkFile, DataInduction, SequenceTheorems

(* Places in a row, none before the one before it: the neurons where the   *)
(* layers begin, and the connections where those of the neurons do.        *)
Row(at, n) ==
  /\ at[0] = 0
  /\ \A k \in 0 .. n : at[k] \in Nat
  /\ \A k \in 0 .. n - 1 : at[k] <= at[k + 1]

LEMMA RowGrows ==
  ASSUME NEW n \in Nat, NEW at, Row(at, n)
  PROVE  \A a, b \in 0 .. n : a <= b => at[a] <= at[b]
<1> SUFFICES ASSUME NEW a \in 0 .. n
             PROVE  \A b \in 0 .. n : a <= b => at[a] <= at[b]
  OBVIOUS
<1> DEFINE T == {b \in 0 .. n : a <= b => at[a] <= at[b]}
<1>1. 0 \in T
  BY DEF Row
<1>2. ASSUME NEW k \in 0 .. n - 1, k \in T PROVE k + 1 \in T
  <2>1. /\ at[k] <= at[k + 1] /\ at[k] \in Nat /\ at[k + 1] \in Nat /\ at[a] \in Nat
        /\ k + 1 \in 0 .. n
    BY DEF Row
  <2>2. CASE a <= k
    BY <1>2, <2>1, <2>2
  <2>3. CASE ~(a <= k)
    <3>1. a <= k + 1 => a = k + 1
      BY <2>3
    <3>2. QED
      BY <2>1, <3>1
  <2>4. QED
    BY <2>2, <2>3
<1> HIDE DEF T
<1>3. \A k \in 0 .. n : k \in T
  BY <1>1, <1>2, CountingUp
<1>4. QED
  BY <1>3 DEF T

(* Each place before the last lies in the part of exactly one of them.     *)
LEMMA RowParts ==
  ASSUME NEW n \in Nat, NEW at, Row(at, n), NEW c \in 0 .. at[n] - 1
  PROVE  /\ \E k \in 0 .. n - 1 : c \in at[k] .. at[k + 1] - 1
         /\ \A j, k \in 0 .. n - 1 :
              /\ c \in at[j] .. at[j + 1] - 1
              /\ c \in at[k] .. at[k + 1] - 1
              => j = k
<1>1. \A k \in 0 .. n : at[k] \in Nat
  BY DEF Row
<1>2. \E k \in 0 .. n - 1 : c \in at[k] .. at[k + 1] - 1
  <2> DEFINE Behind == {k \in Nat : k <= n /\ c < at[k]}
  <2>1. Behind \in SUBSET Nat /\ n \in Behind
    BY <1>1
  <2>2. PICK x \in Behind : \A y \in Behind : x <= y
    BY <2>1, LeastNumber
  <2>3. x \in Nat /\ x <= n /\ c < at[x]
    OBVIOUS
  <2>4. x # 0
    BY <2>3 DEF Row
  <2>5. x - 1 \in 0 .. n - 1 /\ (x - 1) + 1 = x /\ x - 1 \notin Behind
    BY <2>2, <2>3, <2>4
  <2>6. at[x - 1] <= c
    <3>1. ~(c < at[x - 1]) /\ at[x - 1] \in Nat
      BY <1>1, <2>5
    <3>2. QED
      BY <3>1
  <2>7. c \in at[x - 1] .. at[(x - 1) + 1] - 1
    BY <1>1, <2>3, <2>5, <2>6
  <2>8. QED
    BY <2>5, <2>7
<1>3. ASSUME NEW j \in 0 .. n - 1, NEW k \in 0 .. n - 1, j < k,
             c \in at[j] .. at[j + 1] - 1, c \in at[k] .. at[k + 1] - 1
      PROVE  FALSE
  <2>1. at[j + 1] <= at[k]
    BY <1>3, RowGrows
  <2>2. at[j + 1] \in Nat /\ at[k] \in Nat /\ at[k + 1] \in Nat /\ at[j] \in Nat
    BY <1>1
  <2>3. QED
    BY <1>3, <2>1, <2>2
<1>4. ASSUME NEW j \in 0 .. n - 1, NEW k \in 0 .. n - 1,
             c \in at[j] .. at[j + 1] - 1, c \in at[k] .. at[k + 1] - 1
      PROVE  j = k
  <2>1. ~(j < k) /\ ~(k < j)
    BY <1>3, <1>4
  <2>2. QED
    BY <2>1
<1>5. QED
  BY <1>2, <1>4

-----------------------------------------------------------------------------
(* Layers                                                                  *)

(* Layers one behind the other, layer l with count[l] neurons.             *)
AreLayers(ls, L, count) ==
  /\ DOMAIN ls = 1 .. L
  /\ ls[1].first = 0
  /\ \A l \in 1 .. L : /\ ls[l].first \in Nat /\ ls[l].last \in Nat
                       /\ ls[l].last = ls[l].first + count[l]
  /\ \A l \in 1 .. L - 1 : ls[l + 1].first = ls[l].last

Counts(type, sizes) == [l \in 1 .. Len(sizes) |-> NumNeurons(type, sizes, l)]

LEMMA SizesOfLayers ==
  ASSUME NEW sizes \in LayerSizes
  PROVE  /\ Len(sizes) \in Nat /\ Len(sizes) >= 2 /\ DOMAIN sizes = 1 .. Len(sizes)
         /\ \A l \in 1 .. Len(sizes) : sizes[l] \in Nat /\ sizes[l] >= 1
<1>1. sizes \in Seq(Nat \ {0}) /\ Len(sizes) >= 2
  BY CreationAssumption
<1>2. Len(sizes) \in Nat /\ DOMAIN sizes = 1 .. Len(sizes)
      /\ \A l \in 1 .. Len(sizes) : sizes[l] \in Nat \ {0}
  BY <1>1, LenProperties, ElementOfSeq
<1>3. QED
  BY <1>1, <1>2

(* A sum over 1 .. l is where the layer after l begins.                    *)
LEMMA LayersFromCounts ==
  ASSUME NEW L \in Nat, L >= 1, NEW count, \A l \in 1 .. L : count[l] \in Nat,
         NEW ls, NEW upTo,
         upTo = [l \in 0 .. L |-> SumOver(count, 1, l)],
         ls = [l \in 1 .. L |-> [first |-> upTo[l - 1], last |-> upTo[l]]]
  PROVE  AreLayers(ls, L, count)
<1>1. upTo[0] = 0
  <2>1. DOMAIN [k \in 1 .. 0 |-> count[k]] = {}
    OBVIOUS
  <2>2. SumOver(count, 1, 0) = 0
    BY <2>1, SumOfNone DEF SumOver
  <2>3. QED
    BY <2>2
<1>2. ASSUME NEW l \in 0 .. L - 1 PROVE upTo[l + 1] = upTo[l] + count[l + 1]
  <2>1. \A x \in 1 .. l + 1 : count[x] \in Int
    OBVIOUS
  <2>2. SumOver(count, 1, l + 1) = SumOver(count, 1, l) + count[l + 1]
    BY <2>1, SumsInARow
  <2>3. l + 1 \in 0 .. L /\ l \in 0 .. L
    OBVIOUS
  <2>4. QED
    BY <2>2, <2>3
<1> DEFINE T == {l \in 0 .. L : upTo[l] \in Nat}
<1>3. 0 \in T
  BY <1>1
<1>4. ASSUME NEW l \in 0 .. L - 1, l \in T PROVE l + 1 \in T
  <2>1. upTo[l] \in Nat /\ l + 1 \in 0 .. L /\ l + 1 \in 1 .. L
    BY <1>4
  <2>2. upTo[l + 1] = upTo[l] + count[l + 1] /\ count[l + 1] \in Nat
    BY <1>2, <2>1
  <2>3. upTo[l + 1] \in Nat
    BY <2>1, <2>2
  <2>4. QED
    BY <2>1, <2>3
<1>5. \A l \in 0 .. L : upTo[l] \in Nat
  <2> HIDE DEF T
  <2>1. \A l \in 0 .. L : l \in T
    BY <1>3, <1>4, CountingUp
  <2>2. QED
    BY <2>1 DEF T
<1>6. \A l \in 1 .. L : upTo[l] = upTo[l - 1] + count[l]
  <2> TAKE l \in 1 .. L
  <2>1. l - 1 \in 0 .. L - 1 /\ (l - 1) + 1 = l
    OBVIOUS
  <2>2. QED
    BY <1>2, <2>1
<1> HIDE DEF T
<1>7. \A l \in 1 .. L : ls[l].first = upTo[l - 1] /\ ls[l].last = upTo[l]
                        /\ l - 1 \in 0 .. L /\ l \in 0 .. L
  <2> TAKE l \in 1 .. L
  <2>1. l - 1 \in 0 .. L /\ l \in 0 .. L
    OBVIOUS
  <2>2. ls[l] = [first |-> upTo[l - 1], last |-> upTo[l]]
    OBVIOUS
  <2>3. QED
    BY <2>1, <2>2
<1>8. \A l \in 1 .. L - 1 : l + 1 \in 1 .. L /\ (l + 1) - 1 = l /\ l \in 1 .. L
  OBVIOUS
<1>9. DOMAIN ls = 1 .. L /\ 1 \in 1 .. L /\ 1 - 1 = 0
  OBVIOUS
<1>10. ls[1].first = 0
  BY <1>1, <1>7, <1>9
<1>11. \A l \in 1 .. L - 1 : ls[l + 1].first = ls[l].last
  BY <1>7, <1>8
<1>12. QED
  BY <1>5, <1>6, <1>7, <1>9, <1>10, <1>11 DEF AreLayers

(* The layers that are made have the sizes that were asked for.            *)
LEMMA LayersAreMade ==
  ASSUME NEW sizes \in LayerSizes, NEW type
  PROVE  AreLayers(LayersOf(type, sizes), Len(sizes), Counts(type, sizes))
<1> DEFINE L == Len(sizes)
           count == Counts(type, sizes)
           upTo == [l \in 0 .. L |-> SumOver(count, 1, l)]
<1>1. \A l \in 1 .. L : count[l] = NumNeurons(type, sizes, l) /\ count[l] \in Nat
  BY SizesOfLayers DEF Counts, NumNeurons
<1>2. \A l \in 0 .. L : [k \in 1 .. l |-> count[k]]
                          = [k \in 1 .. l |-> NumNeurons(type, sizes, k)]
  <2> TAKE l \in 0 .. L
  <2>1. \A k \in 1 .. l : k \in 1 .. L
    BY SizesOfLayers
  <2>2. QED
    BY <1>1, <2>1
<1>3. LayersOf(type, sizes)
        = [l \in 1 .. L |-> [first |-> upTo[l - 1], last |-> upTo[l]]]
  BY <1>2, SizesOfLayers DEF LayersOf, SumOver
<1>4. L \in Nat /\ L >= 1
  BY SizesOfLayers
<1> DEFINE u == upTo
<1>5. u = upTo
  OBVIOUS
<1> HIDE DEF L, count, u
<1>6. QED
  BY <1>1, <1>3, <1>4, <1>5, LayersFromCounts DEF L, count

(* Where in a row of layers a neuron is.                                   *)
LEMMA LayersInOrder ==
  ASSUME NEW L \in Nat, L >= 1, NEW ls, NEW count, AreLayers(ls, L, count),
         \A l \in 1 .. L : count[l] \in Nat
  PROVE  /\ \A l, m \in 1 .. L : l < m => ls[l].last <= ls[m].first
         /\ \A l, m \in 1 .. L : l <= m => /\ ls[l].first <= ls[m].first
                                           /\ ls[l].last <= ls[m].last
<1> DEFINE at == [k \in 0 .. L |-> IF k = 0 THEN 0 ELSE ls[k].last]
<1>1. /\ \A l \in 1 .. L : /\ ls[l].first \in Nat /\ ls[l].last \in Nat
                           /\ ls[l].first <= ls[l].last
                           /\ at[l] = ls[l].last
                           /\ at[l - 1] = ls[l].first
      /\ at[0] = 0
  <2>1. at[0] = 0 /\ \A l \in 1 .. L : at[l] = ls[l].last
    OBVIOUS
  <2>2. ASSUME NEW l \in 1 .. L PROVE at[l - 1] = ls[l].first
    <3>1. CASE l = 1
      BY <3>1, <2>1 DEF AreLayers
    <3>2. CASE l # 1
      <4>1. l - 1 \in 1 .. L - 1 /\ l - 1 \in 1 .. L /\ (l - 1) + 1 = l
        BY <3>2
      <4>2. ls[(l - 1) + 1].first = ls[l - 1].last
        BY <4>1 DEF AreLayers
      <4>3. QED
        BY <2>1, <4>1, <4>2
    <3>3. QED
      BY <3>1, <3>2
  <2>3. ASSUME NEW l \in 1 .. L PROVE /\ ls[l].first \in Nat /\ ls[l].last \in Nat
                                      /\ ls[l].first <= ls[l].last
    <3>1. /\ ls[l].first \in Nat /\ ls[l].last = ls[l].first + count[l]
          /\ count[l] \in Nat
      BY DEF AreLayers
    <3>2. QED
      BY <3>1
  <2>4. QED
    BY <2>1, <2>2, <2>3
<1> HIDE DEF at
<1>2. Row(at, L)
  <2>1. \A k \in 0 .. L : at[k] \in Nat
    BY <1>1
  <2>2. ASSUME NEW k \in 0 .. L - 1 PROVE at[k] <= at[k + 1]
    <3>1. k + 1 \in 1 .. L /\ (k + 1) - 1 = k
      OBVIOUS
    <3>2. QED
      BY <1>1, <3>1
  <2>3. QED
    BY <1>1, <2>1, <2>2 DEF Row
<1>3. \A a, b \in 0 .. L : a <= b => at[a] <= at[b]
  BY <1>2, RowGrows
<1>4. ASSUME NEW l \in 1 .. L, NEW m \in 1 .. L, l < m
      PROVE  ls[l].last <= ls[m].first
  <2>1. l \in 0 .. L /\ m - 1 \in 0 .. L /\ l <= m - 1
    BY <1>4
  <2>2. QED
    BY <1>1, <1>3, <2>1
<1>5. ASSUME NEW l \in 1 .. L, NEW m \in 1 .. L, l <= m
      PROVE  ls[l].first <= ls[m].first /\ ls[l].last <= ls[m].last
  <2>1. l - 1 \in 0 .. L /\ m - 1 \in 0 .. L /\ l - 1 <= m - 1
        /\ l \in 0 .. L /\ m \in 0 .. L
    BY <1>5
  <2>2. QED
    BY <1>1, <1>3, <1>5, <2>1
<1>6. QED
  BY <1>4, <1>5

LEMMA LayerLookup ==
  ASSUME NEW L \in Nat, L >= 1, NEW ls, NEW count, AreLayers(ls, L, count),
         \A l \in 1 .. L : count[l] \in Nat
  PROVE  /\ \A n \in 0 .. ls[L].last - 1 :
              /\ LayerOf(ls, n) \in 1 .. L
              /\ n \in ls[LayerOf(ls, n)].first .. ls[LayerOf(ls, n)].last - 1
         /\ \A l \in 1 .. L : \A n \in ls[l].first .. ls[l].last - 1 :
              LayerOf(ls, n) = l /\ n \in 0 .. ls[L].last - 1
<1>1. /\ DOMAIN ls = 1 .. L /\ ls[1].first = 0
      /\ \A l \in 1 .. L : ls[l].first \in Nat /\ ls[l].last \in Nat
      /\ \A l \in 1 .. L - 1 : ls[l + 1].first = ls[l].last
  BY DEF AreLayers
<1>2. /\ \A l, m \in 1 .. L : l < m => ls[l].last <= ls[m].first
      /\ \A l, m \in 1 .. L : l <= m => ls[l].last <= ls[m].last
  BY LayersInOrder
<1>3. ASSUME NEW l \in 1 .. L, NEW n \in ls[l].first .. ls[l].last - 1
      PROVE  LayerOf(ls, n) = l /\ n \in 0 .. ls[L].last - 1
  <2>1. ASSUME NEW m \in 1 .. L, n \in ls[m].first .. ls[m].last - 1
        PROVE  m = l
    <3>1. /\ ls[m].first \in Nat /\ ls[m].last \in Nat /\ ls[l].first \in Nat
          /\ ls[l].last \in Nat
      BY <1>1
    <3>2. ~(m < l) /\ ~(l < m)
      <4>1. m < l => ls[m].last <= ls[l].first
        BY <1>2
      <4>2. l < m => ls[l].last <= ls[m].first
        BY <1>2
      <4>3. QED
        BY <2>1, <3>1, <4>1, <4>2
    <3>3. QED
      BY <3>2
  <2>2. LayerOf(ls, n) = l
    BY <1>1, <2>1 DEF LayerOf
  <2>3. ls[l].last <= ls[L].last /\ ls[l].last \in Nat /\ ls[L].last \in Nat
        /\ ls[l].first \in Nat
    BY <1>1, <1>2
  <2>4. QED
    BY <2>2, <2>3
<1>4. ASSUME NEW n \in 0 .. ls[L].last - 1
      PROVE  \E l \in 1 .. L : n \in ls[l].first .. ls[l].last - 1
  <2> DEFINE Behind == {l \in Nat : l \in 1 .. L /\ n < ls[l].last}
  <2>1. Behind \in SUBSET Nat /\ L \in Behind
    BY <1>1
  <2>2. PICK l \in Behind : \A m \in Behind : l <= m
    BY <2>1, LeastNumber
  <2>3. l \in 1 .. L /\ n < ls[l].last
    OBVIOUS
  <2>4. ls[l].first <= n
    <3>1. CASE l = 1
      BY <1>1, <3>1
    <3>2. CASE l # 1
      <4>1. l - 1 \in 1 .. L - 1 /\ l - 1 \in 1 .. L /\ (l - 1) + 1 = l
            /\ l - 1 \notin Behind
        BY <2>2, <2>3, <3>2
      <4>2. ~(n < ls[l - 1].last) /\ ls[l - 1].last \in Nat
        BY <1>1, <4>1
      <4>3. ls[l].first = ls[l - 1].last
        BY <1>1, <4>1
      <4>4. QED
        BY <4>2, <4>3
    <3>3. QED
      BY <3>1, <3>2
  <2>5. ls[l].first \in Nat /\ ls[l].last \in Nat
    BY <1>1, <2>3
  <2>6. n \in ls[l].first .. ls[l].last - 1
    BY <2>3, <2>4, <2>5
  <2>7. QED
    BY <2>3, <2>6
<1>5. QED
  BY <1>3, <1>4

-----------------------------------------------------------------------------
(* The division of the connections                                         *)

LEMMA ProductsGrow ==
  /\ \A x, y, z \in Nat : x <= y => x * z <= y * z
  /\ \A x, y, z \in Nat : x < y /\ z > 0 => x * z < y * z
  /\ \A x, z \in Nat : x * z \in Nat
BY SMT

LEMMA Divides ==
  ASSUME NEW z \in Nat, NEW b \in Nat, b > 0
  PROVE  /\ z \div b \in Nat
         /\ (z \div b) * b <= z /\ z < ((z \div b) + 1) * b
<1> DEFINE q == z \div b
           r == z % b
<1>1. q \in Int /\ r \in 0 .. b - 1 /\ z = b * q + r
  BY SMT
<1> HIDE DEF q, r
<1>2. b * q = q * b /\ (q + 1) * b = q * b + b /\ q * b \in Int
  BY <1>1, SMT
<1>3. q * b <= z /\ z < (q + 1) * b
  BY <1>1, <1>2
<1>4. q >= 0
  <2> SUFFICES ASSUME q < 0 PROVE FALSE
    BY <1>1
  <2>1. q + 1 <= 0 /\ q + 1 \in Int
    BY <1>1
  <2>2. \A x \in Int : x <= 0 => x * b <= 0
    BY SMT
  <2>3. (q + 1) * b <= 0
    BY <2>1, <2>2
  <2>4. QED
    BY <1>1, <1>2, <1>3, <2>3
<1>5. QED
  BY <1>1, <1>3, <1>4 DEF q

(* Adding c divisors or more, or at most, to what is divided.              *)
LEMMA DividesMore ==
  ASSUME NEW x \in Nat, NEW y \in Nat, NEW b \in Nat, b > 0, NEW c \in Nat
  PROVE  /\ y <= c * b => (x + y) \div b <= (x \div b) + c
         /\ c * b <= y => (x \div b) + c <= (x + y) \div b
<1> DEFINE q == x \div b
           t == (x + y) \div b
<1>1. /\ q \in Nat /\ q * b <= x /\ x < (q + 1) * b
      /\ t \in Nat /\ t * b <= x + y /\ x + y < (t + 1) * b
  BY Divides
<1> HIDE DEF q, t
<1>2. /\ (q + 1) * b = q * b + b /\ ((q + c) + 1) * b = (q * b + c * b) + b
      /\ (q + c) * b = q * b + c * b
      /\ q * b \in Nat /\ c * b \in Nat /\ t * b \in Nat /\ (t + 1) * b \in Nat
  BY <1>1, SMT
<1>3. ASSUME y <= c * b PROVE t <= q + c
  <2> SUFFICES ASSUME ~(t <= q + c) PROVE FALSE
    OBVIOUS
  <2>1. (q + c) + 1 <= t /\ (q + c) + 1 \in Nat
    BY <1>1
  <2>2. ((q + c) + 1) * b <= t * b
    BY <1>1, <2>1, ProductsGrow
  <2>3. QED
    BY <1>1, <1>2, <1>3, <2>2
<1>4. ASSUME c * b <= y PROVE q + c <= t
  <2> SUFFICES ASSUME ~(q + c <= t) PROVE FALSE
    OBVIOUS
  <2>1. t + 1 <= q + c /\ t + 1 \in Nat /\ q + c \in Nat
    BY <1>1
  <2>2. (t + 1) * b <= (q + c) * b
    BY <1>1, <2>1, ProductsGrow
  <2>3. QED
    BY <1>1, <1>2, <1>4, <2>2
<1>5. QED
  BY <1>3, <1>4 DEF q, t

LEMMA GreaterNumber ==
  ASSUME NEW a \in Nat, NEW b \in Nat
  PROVE  /\ Max({a, b}) \in Nat /\ a <= Max({a, b}) /\ b <= Max({a, b})
         /\ Max({a, b}) \in {a, b}
<1>1. \E x \in {a, b} : \A y \in {a, b} : x >= y
  <2>1. CASE a <= b
    BY <2>1
  <2>2. CASE ~(a <= b)
    BY <2>2
  <2>3. QED
    BY <2>1, <2>2
<1>2. Max({a, b}) \in {a, b} /\ \A y \in {a, b} : Max({a, b}) >= y
  BY <1>1 DEF Max
<1>3. QED
  BY <1>2

(* A layer has a bias and another connection for each of its neurons, and  *)
(* not more of them than the layer before has neurons; exactly as many if  *)
(* the network is fully connected.                                         *)
LEMMA ConnectionsOfLayer ==
  ASSUME NEW rate \in Nat, rate <= Whole,
         NEW in \in Nat, in >= 1, NEW out \in Nat, out >= 1
  PROVE  /\ num_connections(rate, in, out) \in Nat
         /\ 2 * out <= num_connections(rate, in, out)
         /\ num_connections(rate, in, out) <= (in + 1) * out
         /\ rate = Whole => num_connections(rate, in, out) = (in + 1) * out
<1> DEFINE x == in * out
           least == min_connections(in, out)
           z == Whole + 2 * rate * in * out
           b == 2 * Whole
           q == z \div b
<1>1. Whole \in Nat /\ Whole > 0 /\ b \in Nat /\ b > 0
  BY CreationAssumption
<1>2. /\ x \in Nat /\ in <= x /\ out <= x /\ (in + 1) * out = x + out
      /\ 2 * out = out + out
  <2>1. x \in Nat /\ 1 * out <= in * out /\ 1 * in <= out * in
    BY ProductsGrow
  <2>2. 1 * out = out /\ 1 * in = in /\ out * in = in * out
        /\ (in + 1) * out = in * out + out
    BY SMT
  <2>3. QED
    BY <2>1, <2>2
<1>3. least \in Nat /\ out + out <= least /\ least <= x + out
  <2>1. /\ Max({in, out}) \in Nat /\ out <= Max({in, out})
        /\ Max({in, out}) \in {in, out}
    BY GreaterNumber
  <2>2. least = Max({in, out}) + out
    BY DEF min_connections, Larger
  <2> HIDE DEF least, x
  <2>3. QED
    BY <1>2, <2>1, <2>2
<1>4. /\ rate * x \in Nat /\ Whole * x \in Nat /\ rate * x <= Whole * x
      /\ z = Whole + 2 * (rate * x)
      /\ (x + 1) * b = 2 * (Whole * x) + 2 * Whole
  <2>1. rate * x \in Nat /\ Whole * x \in Nat /\ rate * x <= Whole * x
    BY <1>1, <1>2, ProductsGrow
  <2>2. 2 * rate * in * out = 2 * (rate * (in * out))
    BY SMT
  <2> HIDE DEF x
  <2>3. (x + 1) * b = 2 * (Whole * x) + 2 * Whole
    BY <1>1, <1>2, SMT
  <2>4. QED
    BY <2>1, <2>2, <2>3 DEF x
<1>5. z \in Nat /\ z < (x + 1) * b
  <2> HIDE DEF x, z, b
  <2>1. QED
    BY <1>1, <1>4
<1>6. q \in Nat /\ q * b <= z /\ z < (q + 1) * b
  <2> HIDE DEF z, b
  <2>1. QED
    BY <1>1, <1>5, Divides
<1> HIDE DEF x, z, b, q
<1>7. q <= x
  <2> SUFFICES ASSUME ~(q <= x) PROVE FALSE
    OBVIOUS
  <2>1. x + 1 <= q /\ x + 1 \in Nat
    BY <1>2, <1>6
  <2>2. (x + 1) * b <= q * b
    BY <1>1, <1>6, <2>1, ProductsGrow
  <2>3. q * b \in Nat /\ (x + 1) * b \in Nat
    BY <1>1, <1>2, <1>6, <2>1, ProductsGrow
  <2>4. QED
    BY <1>5, <1>6, <2>2, <2>3
<1>8. ASSUME rate = Whole PROVE q = x
  <2> SUFFICES ASSUME q < x PROVE FALSE
    BY <1>2, <1>6, <1>7
  <2>1. q + 1 <= x /\ q + 1 \in Nat
    BY <1>2, <1>6
  <2>2. (q + 1) * b <= x * b /\ x * b = 2 * (Whole * x)
    <3>1. x * b = 2 * (Whole * x)
      BY <1>1, <1>2, SMT DEF b
    <3>2. QED
      BY <1>1, <1>2, <2>1, <3>1, ProductsGrow
  <2>3. z = Whole + 2 * (Whole * x)
    BY <1>4, <1>8
  <2>4. (q + 1) * b \in Nat /\ Whole * x \in Nat
    BY <1>1, <1>4, <2>1, ProductsGrow
  <2>5. QED
    BY <1>1, <1>6, <2>2, <2>3, <2>4
<1>9. num_connections(rate, in, out) = Max({least, q + out})
  BY DEF num_connections, Larger, q, z, b
<1> HIDE DEF least
<1>10. /\ Max({least, q + out}) \in Nat /\ least <= Max({least, q + out})
       /\ q + out <= Max({least, q + out})
       /\ Max({least, q + out}) \in {least, q + out}
  <2>1. q + out \in Nat
    BY <1>6
  <2>2. QED
    BY <1>3, <2>1, GreaterNumber
<1> DEFINE num == Max({least, q + out})
<1> HIDE DEF num
<1>11. /\ num \in Nat /\ least <= num /\ q + out <= num /\ num \in {least, q + out}
       /\ num_connections(rate, in, out) = num
  BY <1>9, <1>10 DEF num
<1>12. QED
  BY <1>2, <1>3, <1>6, <1>7, <1>8, <1>11

(* Neuron k of a layer gets what the first k of them leave, so that it has *)
(* at least as many as c if there are c for each, and at most as many.     *)
IsAllotted(at, num, out) ==
  /\ at[0] = 0 /\ at[out] = num
  /\ \A k \in 0 .. out : at[k] \in Nat
  /\ \A c \in Nat : \A k \in 0 .. out - 1 :
       /\ c * out <= num => at[k] + c <= at[k + 1]
       /\ num <= c * out => at[k + 1] <= at[k] + c

(* The loop over the neurons of a layer gives neuron k the rounded share,  *)
(* as long as the product it divides does not wrap or the division is      *)
(* exact.                                                                  *)
LEMMA Allotment ==
  ASSUME NEW num \in Nat, NEW out \in Nat, out >= 1,
         \/ num * out < UIntModulus
         \/ \E c \in Nat : num = c * out
  PROVE  IsAllotted(Division(num, out), num, out)
<1> DEFINE d == num \div out
           Given(at, k) ==
             IF k = 0 THEN 0
             ELSE IF at[k - 1] + d < ((num * k) % UIntModulus) \div out
                  THEN (at[k - 1] + d) + 1 ELSE at[k - 1] + d
           Follows(at) == at = [k \in 0 .. out |-> Given(at, k)]
           w == [k \in 0 .. out |-> (num * k) \div out]
<1>1. Division(num, out) = CHOOSE at : Follows(at)
  BY DEF Division, Allotted
<1>2. \A k \in 0 .. out : num * k \in Nat /\ w[k] \in Nat
  <2> TAKE k \in 0 .. out
  <2>1. num * k \in Nat
    BY ProductsGrow
  <2>2. (num * k) \div out \in Nat
    BY <2>1, Divides
  <2>3. QED
    BY <2>1, <2>2
<1>3. d \in Nat /\ d * out <= num /\ num <= (d + 1) * out
  <2>1. d \in Nat /\ d * out <= num /\ num < (d + 1) * out
    BY Divides
  <2> HIDE DEF d
  <2>2. (d + 1) * out \in Nat
    BY <2>1, ProductsGrow
  <2>3. QED
    BY <2>1, <2>2
<1>4. ASSUME NEW k \in 0 .. out - 1, NEW c \in Nat
      PROVE  /\ c * out <= num => w[k] + c <= w[k + 1]
             /\ num <= c * out => w[k + 1] <= w[k] + c
  <2>1. num * (k + 1) = num * k + num /\ k \in 0 .. out /\ k + 1 \in 0 .. out
        /\ num * k \in Nat
    BY <1>2, SMT
  <2>2. w[k] = (num * k) \div out /\ w[k + 1] = (num * k + num) \div out
    BY <2>1
  <2> HIDE DEF w
  <2>3. QED
    BY <2>1, <2>2, DividesMore

<1>5. w[0] = 0 /\ w[out] = num
  <2>1. 0 \in 0 .. out /\ out \in 0 .. out /\ num * 0 = 0 /\ num * out \in Nat
    BY <1>2
  <2>2. ASSUME NEW v \in Nat PROVE (v * out) \div out = v
    <3> DEFINE q == (v * out) \div out
    <3>1. v * out \in Nat
      BY ProductsGrow
    <3>2. q \in Nat /\ q * out <= v * out /\ v * out < (q + 1) * out
      <4> DEFINE y == v * out
      <4>1. y \in Nat
        BY <3>1
      <4> HIDE DEF y
      <4>2. y \div out \in Nat /\ (y \div out) * out <= y /\ y < ((y \div out) + 1) * out
        BY <4>1, Divides
      <4>3. QED
        BY <4>2 DEF y
    <3> HIDE DEF q
    <3>3. ~(v < q)
      <4>1. v < q => v * out < q * out
        BY <3>2, ProductsGrow
      <4>2. q * out \in Nat
        BY <3>2, ProductsGrow
      <4>3. QED
        BY <3>1, <3>2, <4>1, <4>2
    <3>4. ~(q < v)
      <4>1. q < v => (q + 1) * out <= v * out
        BY <3>2, ProductsGrow
      <4>2. (q + 1) * out \in Nat
        BY <3>2, ProductsGrow
      <4>3. QED
        BY <3>1, <3>2, <4>1, <4>2
    <3>5. QED
      BY <3>2, <3>3, <3>4 DEF q
  <2>3. 0 * out = 0
    OBVIOUS
  <2>4. 0 \div out = 0 /\ (num * out) \div out = num
    BY <2>2, <2>3
  <2>5. QED
    BY <2>1, <2>4
<1>6. ASSUME NEW k \in 1 .. out PROVE Given(w, k) = w[k]
  <2>1. k - 1 \in 0 .. out - 1 /\ (k - 1) + 1 = k /\ k # 0 /\ k \in 0 .. out
        /\ k - 1 \in 0 .. out /\ d + 1 \in Nat
    BY <1>3
  <2>2. /\ w[k - 1] + d <= w[k] /\ w[k] <= w[k - 1] + (d + 1)
        /\ num <= d * out => w[k] <= w[k - 1] + d
    BY <1>3, <1>4, <2>1
  <2>3. w[k - 1] \in Nat /\ w[k] \in Nat /\ w[k] = (num * k) \div out
        /\ num * k \in Nat
    BY <1>2, <2>1
  <2> DEFINE r == (num * k) % UIntModulus
             t == r \div out
  <2>4. Given(w, k) = IF w[k - 1] + d < t THEN (w[k - 1] + d) + 1 ELSE w[k - 1] + d
    BY <2>1
  <2>5. CASE num * out < UIntModulus
    <3>1. r = num * k
      <4> DEFINE x == num * k
                 y == num * out
      <4>1. x <= y /\ y \in Nat /\ x \in Nat /\ UIntModulus \in Nat
        <5>1. k * num <= out * num /\ k * num = num * k /\ out * num = num * out
          BY ProductsGrow
        <5>2. QED
          BY <2>1, <2>3, <5>1, ProductsGrow, CreationAssumption
      <4>2. y < UIntModulus
        BY <2>5
      <4> HIDE DEF x, y
      <4>3. x % UIntModulus = x
        BY <4>1, <4>2
      <4>4. QED
        BY <4>3 DEF x
    <3>2. t = w[k]
      BY <2>3, <3>1
    <3> HIDE DEF t, r, w, d
    <3>3. QED
      BY <1>3, <2>2, <2>3, <2>4, <3>2
  <2>6. CASE \E c \in Nat : num = c * out
    <3>1. PICK c \in Nat : num = c * out
      BY <2>6
    <3>2. num <= d * out
      <4>1. ~(d < c)
        <5>1. d < c => (d + 1) * out <= c * out
          BY <1>3, ProductsGrow
        <5>2. num < (d + 1) * out /\ (d + 1) * out \in Nat
          BY <1>3, Divides, ProductsGrow
        <5> HIDE DEF d
        <5>3. QED
          BY <3>1, <5>1, <5>2
      <4>2. c <= d
        BY <1>3, <4>1
      <4> HIDE DEF d
      <4>3. QED
        BY <1>3, <3>1, <4>2, ProductsGrow
    <3>3. w[k] = w[k - 1] + d
      <4> HIDE DEF w, d
      <4>1. QED
        BY <1>3, <2>2, <2>3, <3>2
    <3>4. t <= w[k]
      <4>1. r \in Nat /\ r <= num * k
        <5> DEFINE x == num * k
        <5>1. x \in Nat /\ UIntModulus \in Nat /\ UIntModulus > 0
          BY <2>3, CreationAssumption
        <5> HIDE DEF x
        <5>2. x % UIntModulus \in Nat /\ x % UIntModulus <= x
          BY <5>1, SMT
        <5>3. QED
          BY <5>2 DEF x
      <4> DEFINE x == num * k
                 y == x - r
      <4>2. y \in Nat /\ r + y = x /\ 0 \in Nat /\ 0 * out <= y
        <5> HIDE DEF r
        <5>1. QED
          BY <2>3, <4>1
      <4> HIDE DEF y, r, x
      <4>3. (r \div out) + 0 <= (r + y) \div out
        BY <4>1, <4>2, DividesMore
      <4>4. r \div out \in Nat
        BY <4>1, Divides
      <4>5. w[k] = x \div out
        <5> HIDE DEF w
        <5>1. QED
          BY <2>3 DEF x
      <4>6. QED
        BY <4>2, <4>3, <4>4, <4>5
    <3>5. t \in Nat
      <4>1. r \in Nat
        BY <2>3, CreationAssumption, SMT
      <4> HIDE DEF r
      <4>2. QED
        BY <4>1, Divides
    <3> HIDE DEF t, r, w, d
    <3>6. QED
      BY <1>3, <2>3, <2>4, <3>3, <3>4, <3>5
  <2>7. QED
    BY <2>5, <2>6
<1>7. Follows(w)
  <2>1. ASSUME NEW k \in 0 .. out PROVE w[k] = Given(w, k)
    <3>1. CASE k = 0
      <4>1. Given(w, 0) = 0
        OBVIOUS
      <4> HIDE DEF Given, w
      <4>2. QED
        BY <1>5, <3>1, <4>1
    <3>2. CASE k # 0
      <4> HIDE DEF Given, w
      <4>1. k \in 1 .. out
        BY <3>2
      <4>2. QED
        BY <1>6, <4>1
    <3>3. QED
      BY <3>1, <3>2
  <2>2. w = [k \in 0 .. out |-> w[k]]
    OBVIOUS
  <2> HIDE DEF w, Given
  <2>3. QED
    BY <2>1, <2>2
<1> DEFINE at == CHOOSE at : Follows(at)
<1>8. Follows(at)
  <2> HIDE DEF w, Follows
  <2>1. QED
    BY <1>7
<1> HIDE DEF at
<1>9. \A k \in 0 .. out : at[k] = w[k]
  <2> DEFINE T == {k \in 0 .. out : at[k] = w[k]}
  <2>1. at[0] = 0 /\ \A k \in 1 .. out : at[k] = Given(at, k)
    <3> HIDE DEF w, d
    <3>1. QED
      BY <1>8
  <2>2. 0 \in T
    BY <1>5, <2>1
  <2>3. ASSUME NEW k \in 0 .. out - 1, k \in T PROVE k + 1 \in T
    <3>1. k + 1 \in 1 .. out /\ k + 1 \in 0 .. out /\ (k + 1) - 1 = k /\ k + 1 # 0
      OBVIOUS
    <3>2. at[k] = w[k]
      BY <2>3
    <3> DEFINE v == w
    <3> HIDE DEF v
    <3>3. Given(at, k + 1) = Given(w, k + 1)
      <4> HIDE DEF w, d
      <4>1. QED
        BY <3>1, <3>2
    <3>4. at[k + 1] = w[k + 1]
      <4> HIDE DEF w, Given
      <4>1. QED
        BY <1>6, <2>1, <3>1, <3>3
    <3>5. QED
      BY <3>1, <3>4
  <2> HIDE DEF T
  <2>4. \A k \in 0 .. out : k \in T
    BY <2>2, <2>3, CountingUp
  <2>5. QED
    BY <2>4 DEF T
<1>10. \A k \in 0 .. out - 1 : k \in 0 .. out /\ k + 1 \in 0 .. out
  OBVIOUS
<1> HIDE DEF w, Given
<1>11. IsAllotted(at, num, out)
  <2>1. 0 \in 0 .. out /\ out \in 0 .. out
    OBVIOUS
  <2>2. QED
    BY <1>2, <1>4, <1>5, <1>9, <1>10, <2>1 DEF IsAllotted
<1>12. QED
  BY <1>1, <1>11 DEF at

-----------------------------------------------------------------------------
(* Which connections belong to which neuron                                *)

(* No product of the division wraps: a network that is not fully connected *)
(* has less than UIntModulus / out connections into a layer of out neurons.*)
ProductsFit ==
  \A sizes \in LayerSizes, rate \in Rates : rate < Whole =>
    \A l \in 2 .. Len(sizes) :
      num_connections(rate, sizes[l - 1], sizes[l]) * sizes[l] < UIntModulus

Begins(first, N, total) == [n \in 0 .. N |-> IF n < N THEN first[n] ELSE total]

(* The connections of a neuron end where those of the next one begin.      *)
Ranges(first, last, N, total) ==
  /\ N \in Nat /\ total \in Nat
  /\ DOMAIN first = 0 .. N - 1 /\ DOMAIN last = 0 .. N - 1
  /\ Row(Begins(first, N, total), N)
  /\ \A n \in 0 .. N - 1 : last[n] = Begins(first, N, total)[n + 1]

(* How many connections neuron n of layer l may have.                      *)
Fan(type, rate, ls, l, n) ==
  IF l = 1 \/ (type = "LAYER" /\ n = ls[l].last - 1) THEN {0}
  ELSE IF type = "SHORTCUT" THEN {ls[l].first}
       ELSE IF rate < Whole THEN 2 .. ls[l - 1].last - ls[l - 1].first
            ELSE {ls[l - 1].last - ls[l - 1].first}

FansIn(type, rate, ls, first, last) ==
  \A l \in DOMAIN ls : \A n \in ls[l].first .. ls[l].last - 1 :
    last[n] - first[n] \in Fan(type, rate, ls, l, n)

(* A rate above 1 is a rate of 1.                                          *)
LEMMA RatesInRange ==
  ASSUME NEW asked_rate \in Rates
  PROVE  /\ AtMostFull(asked_rate) \in Nat /\ AtMostFull(asked_rate) <= Whole
         /\ AtMostFull(asked_rate) \in {asked_rate, Whole}
<1>1. asked_rate \in Nat /\ Whole \in Nat
  BY CreationAssumption
<1>2. /\ Min({asked_rate, Whole}) \in Nat /\ Min({asked_rate, Whole}) <= Whole
      /\ Min({asked_rate, Whole}) \in {asked_rate, Whole}
  BY <1>1, LesserNumber
<1>3. QED
  BY <1>2 DEF AtMostFull, Smaller

(* Connections of the layers before l, and what layer l adds to them.      *)
LEMMA ConnectionsAddUp ==
  ASSUME NEW sizes \in LayerSizes, NEW rate \in Nat, rate <= Whole
  PROVE  /\ ConnectionsBefore(rate, sizes, 2) = 0
         /\ \A l \in 2 .. Len(sizes) :
              /\ ConnectionsBefore(rate, sizes, l) \in Nat
              /\ ConnectionsBefore(rate, sizes, l + 1)
                   = ConnectionsBefore(rate, sizes, l)
                       + num_connections(rate, sizes[l - 1], sizes[l])
              /\ ConnectionsBefore(rate, sizes, l + 1) \in Nat
<1> DEFINE L == Len(sizes)
           F == [k \in 2 .. L |-> num_connections(rate, sizes[k - 1], sizes[k])]
           B(l) == ConnectionsBefore(rate, sizes, l)
<1>1. L \in Nat /\ L >= 2 /\ \A l \in 1 .. L : sizes[l] \in Nat /\ sizes[l] >= 1
  BY SizesOfLayers
<1>2. \A k \in 2 .. L : F[k] \in Nat
                        /\ F[k] = num_connections(rate, sizes[k - 1], sizes[k])
  <2> TAKE k \in 2 .. L
  <2>1. k \in 1 .. L /\ k - 1 \in 1 .. L
    BY <1>1
  <2>2. num_connections(rate, sizes[k - 1], sizes[k]) \in Nat
    BY <1>1, <2>1, ConnectionsOfLayer
  <2>3. QED
    BY <2>2
<1> HIDE DEF F
<1>3. \A l \in 2 .. L + 1 : B(l) = SumOver(F, 2, l - 1)
  <2> TAKE l \in 2 .. L + 1
  <2>1. \A k \in 2 .. l - 1 : k \in 2 .. L
    BY <1>1
  <2>2. [k \in 2 .. l - 1 |-> num_connections(rate, sizes[k - 1], sizes[k])]
          = [k \in 2 .. l - 1 |-> F[k]]
    BY <1>2, <2>1
  <2>3. QED
    BY <2>2 DEF SumOver, ConnectionsBefore
<1>4. B(2) = 0
  <2>1. DOMAIN [k \in 2 .. 1 |-> F[k]] = {}
    OBVIOUS
  <2>2. SumOver(F, 2, 1) = 0
    BY <2>1, SumOfNone DEF SumOver
  <2>3. 2 \in 2 .. L + 1 /\ 2 - 1 = 1
    BY <1>1
  <2> HIDE DEF B
  <2>4. QED
    BY <1>3, <2>2, <2>3
<1> HIDE DEF B
<1>5. ASSUME NEW l \in 2 .. L PROVE B(l + 1) = B(l) + F[l]
  <2>1. /\ l - 1 \in Int /\ 2 <= (l - 1) + 1 /\ (l - 1) + 1 = l /\ (l + 1) - 1 = l
        /\ l \in 2 .. L + 1 /\ l + 1 \in 2 .. L + 1
        /\ \A x \in 2 .. (l - 1) + 1 : x \in 2 .. L
    BY <1>1
  <2>2. \A x \in 2 .. (l - 1) + 1 : F[x] \in Int
    BY <1>2, <2>1
  <2>3. SumOver(F, 2, (l - 1) + 1) = SumOver(F, 2, l - 1) + F[(l - 1) + 1]
    <3> DEFINE b == l - 1
    <3>1. b \in Int /\ 2 \in Int /\ 2 <= b + 1 /\ \A x \in 2 .. b + 1 : F[x] \in Int
      BY <2>1, <2>2
    <3> HIDE DEF b
    <3>2. SumOver(F, 2, b + 1) = SumOver(F, 2, b) + F[b + 1]
      BY <3>1, SumsInARow
    <3>3. QED
      BY <3>2 DEF b
  <2>4. QED
    BY <1>3, <2>1, <2>3
<1> DEFINE T == {k \in 0 .. L - 1 : B(k + 2) \in Nat}
<1>6. 0 \in T
  BY <1>1, <1>4
<1>7. ASSUME NEW k \in 0 .. (L - 1) - 1, k \in T PROVE k + 1 \in T
  <2>1. k + 2 \in 2 .. L /\ (k + 1) + 2 = (k + 2) + 1 /\ k + 1 \in 0 .. L - 1
    BY <1>1
  <2>2. B((k + 2) + 1) = B(k + 2) + F[k + 2] /\ F[k + 2] \in Nat
    BY <1>2, <1>5, <2>1
  <2>3. B(k + 2) \in Nat
    BY <1>7
  <2>4. QED
    BY <2>1, <2>2, <2>3
<1>8. \A l \in 2 .. L + 1 : B(l) \in Nat
  <2>1. L - 1 \in Nat
    BY <1>1
  <2> HIDE DEF T
  <2>2. \A k \in 0 .. L - 1 : k \in T
    BY <1>6, <1>7, <2>1, CountingUp
  <2> USE DEF T
  <2>3. ASSUME NEW l \in 2 .. L + 1 PROVE B(l) \in Nat
    <3>1. l - 2 \in 0 .. L - 1 /\ (l - 2) + 2 = l
      BY <1>1
    <3>2. QED
      BY <2>2, <3>1
  <2>4. QED
    BY <2>3
<1>9. \A l \in 2 .. L : l \in 2 .. L + 1 /\ l + 1 \in 2 .. L + 1
  BY <1>1
<1>10. QED
  BY <1>2, <1>4, <1>5, <1>8, <1>9 DEF B

(* Each neuron's connections are as many as they may be, and end where the *)
(* next neuron's begin.                                                    *)
ShapedAt(type, rate, ls, first, last, N, total) ==
  \A l \in DOMAIN ls : \A n \in ls[l].first .. ls[l].last - 1 :
    /\ first[n] \in Nat
    /\ last[n] = Begins(first, N, total)[n + 1]
    /\ last[n] - first[n] \in Fan(type, rate, ls, l, n)
    /\ first[n] <= last[n]

LEMMA ShapedByNeuron ==
  ASSUME NEW type, NEW rate, NEW L \in Nat, L >= 1, NEW ls, NEW count,
         AreLayers(ls, L, count), \A l \in 1 .. L : count[l] \in Nat,
         count[1] >= 1, NEW total \in Nat, NEW first, NEW last, NEW N,
         N = ls[L].last,
         DOMAIN first = 0 .. N - 1, DOMAIN last = 0 .. N - 1, first[0] = 0,
         ShapedAt(type, rate, ls, first, last, N, total)
  PROVE  Ranges(first, last, N, total) /\ FansIn(type, rate, ls, first, last)
<1> DEFINE at == Begins(first, N, total)
<1>1. /\ DOMAIN ls = 1 .. L /\ ls[1].first = 0
      /\ \A l \in 1 .. L : ls[l].first \in Nat /\ ls[l].last \in Nat
      /\ ls[1].last = ls[1].first + count[1] /\ L \in 1 .. L /\ 1 \in 1 .. L
  BY DEF AreLayers
<1>2. ls[1].last <= ls[L].last
  BY <1>1, LayersInOrder
<1>3. N \in Nat /\ N >= 1
  BY <1>1, <1>2
<1>4. \A n \in 0 .. N - 1 : first[n] \in Nat /\ last[n] = at[n + 1] /\ first[n] <= last[n]
  <2> TAKE n \in 0 .. N - 1
  <2>1. /\ LayerOf(ls, n) \in 1 .. L
        /\ n \in ls[LayerOf(ls, n)].first .. ls[LayerOf(ls, n)].last - 1
    BY LayerLookup
  <2>2. QED
    BY <1>1, <2>1 DEF ShapedAt
<1>5. /\ \A n \in 0 .. N - 1 : at[n] = first[n]
      /\ at[N] = total
  BY <1>3 DEF Begins
<1> HIDE DEF at
<1>6. Row(at, N)
  <2>1. at[0] = 0
    BY <1>3, <1>5
  <2>2. \A n \in 0 .. N : at[n] \in Nat
    <3>1. \A n \in 0 .. N : n \in 0 .. N - 1 \/ n = N
      BY <1>3
    <3>2. QED
      BY <1>4, <1>5, <3>1
  <2>3. \A n \in 0 .. N - 1 : at[n] <= at[n + 1]
    BY <1>4, <1>5
  <2>4. QED
    BY <2>1, <2>2, <2>3 DEF Row
<1>7. Ranges(first, last, N, total)
  BY <1>3, <1>4, <1>6 DEF Ranges, at
<1>8. FansIn(type, rate, ls, first, last)
  BY <1>1 DEF FansIn, ShapedAt
<1>9. QED
  BY <1>7, <1>8

(* The connections of a layer of a sparse network are shared by its neurons*)
(* but the bias, if no product of the division wraps.                      *)
LEMMA LayerShared ==
  ASSUME ProductsFit, NEW sizes \in LayerSizes, NEW asked_rate \in Rates,
         NEW l \in 2 .. Len(sizes)
  PROVE  LET num == num_connections(AtMostFull(asked_rate), sizes[l - 1], sizes[l])
             at == Division(num, sizes[l])
         IN /\ IsAllotted(at, num, sizes[l])
            /\ \A k \in 0 .. sizes[l] - 1 :
                 /\ at[k] + 2 <= at[k + 1]
                 /\ at[k + 1] <= at[k] + (sizes[l - 1] + 1)
                 /\ AtMostFull(asked_rate) = Whole =>
                      at[k + 1] = at[k] + (sizes[l - 1] + 1)
<1> DEFINE rate == AtMostFull(asked_rate)
           in == sizes[l - 1]
           out == sizes[l]
           num == num_connections(rate, in, out)
           at == Division(num, out)
<1>1. in \in Nat /\ in >= 1 /\ out \in Nat /\ out >= 1
  <2>1. l - 1 \in 1 .. Len(sizes) /\ l \in 1 .. Len(sizes)
    BY SizesOfLayers
  <2>2. QED
    BY <2>1, SizesOfLayers
<1>2. rate \in Nat /\ rate <= Whole /\ rate \in {asked_rate, Whole} /\ Whole \in Nat
  BY RatesInRange, CreationAssumption
<1>3. rate < Whole => num * out < UIntModulus
  <2> SUFFICES ASSUME rate < Whole PROVE num * out < UIntModulus
    OBVIOUS
  <2>1. rate \in Rates
    BY <1>2
  <2> HIDE DEF rate
  <2>2. QED
    BY <2>1 DEF ProductsFit
<1> HIDE DEF rate, in, out
<1>4. /\ num \in Nat /\ 2 * out <= num /\ num <= (in + 1) * out
      /\ rate = Whole => num = (in + 1) * out
  BY <1>1, <1>2, ConnectionsOfLayer
<1> HIDE DEF num
<1>5. IsAllotted(at, num, out)
  <2>1. num * out < UIntModulus \/ \E c \in Nat : num = c * out
    <3>1. CASE rate < Whole
      BY <1>3, <3>1
    <3>2. CASE rate = Whole
      <4>1. in + 1 \in Nat /\ num = (in + 1) * out
        BY <1>1, <1>4, <3>2
      <4>2. QED
        BY <4>1
    <3>3. QED
      BY <1>2, <3>1, <3>2
  <2>2. QED
    BY <1>1, <1>4, <2>1, Allotment
<1> HIDE DEF at
<1>6. ASSUME NEW k \in 0 .. out - 1
      PROVE  /\ at[k] + 2 <= at[k + 1]
             /\ at[k + 1] <= at[k] + (in + 1)
             /\ rate = Whole => at[k + 1] = at[k] + (in + 1)
  <2>1. /\ at[k] + 2 <= at[k + 1]
        /\ at[k + 1] <= at[k] + (in + 1)
        /\ rate = Whole => at[k] + (in + 1) <= at[k + 1]
    <3>1. /\ \A c \in Nat : /\ c * out <= num => at[k] + c <= at[k + 1]
                            /\ num <= c * out => at[k + 1] <= at[k] + c
      BY <1>5 DEF IsAllotted
    <3>2. 2 \in Nat /\ in + 1 \in Nat
      BY <1>1
    <3>3. at[k] + 2 <= at[k + 1]
      BY <1>4, <3>1, <3>2
    <3>4. at[k + 1] <= at[k] + (in + 1)
      BY <1>4, <3>1, <3>2
    <3>5. ASSUME rate = Whole PROVE at[k] + (in + 1) <= at[k + 1]
      <4> DEFINE c == in + 1
      <4>1. num = c * out /\ c \in Nat /\ c * out \in Nat
        BY <1>4, <3>2, <3>5
      <4> HIDE DEF c
      <4>2. c * out <= num
        BY <4>1
      <4>3. at[k] + c <= at[k + 1]
        BY <3>1, <4>1, <4>2
      <4>4. QED
        BY <4>3 DEF c
    <3>6. QED
      BY <3>3, <3>4, <3>5
  <2>2. at[k] \in Nat /\ at[k + 1] \in Nat
    <3>1. k \in 0 .. out /\ k + 1 \in 0 .. out
      BY <1>1
    <3>2. QED
      BY <1>5, <3>1 DEF IsAllotted
  <2>3. QED
    BY <1>1, <2>1, <2>2
<1>7. QED
  BY <1>5, <1>6 DEF at, num, in, out, rate

LEMMA SparseBeginsAt ==
  ASSUME NEW rate, NEW sizes, NEW ls, NEW n, LayerOf(ls, n) # 1
  PROVE  LET l == LayerOf(ls, n)
         IN SparseBegin(rate, sizes, ls, n)
              = ConnectionsBefore(rate, sizes, l)
                  + Division(num_connections(rate, sizes[l - 1], sizes[l]), sizes[l])
                      [n - ls[l].first]
  BY DEF SparseBegin

IsSparse(rate, sizes, ls, first, last, N) ==
  /\ \E asked_rate \in Rates : rate = AtMostFull(asked_rate)
  /\ ls = LayersOf("LAYER", sizes) /\ N = ls[Len(sizes)].last
  /\ first = [n \in 0 .. N - 1 |-> SparseBegin(rate, sizes, ls, n)]
  /\ last = [n \in 0 .. N - 1 |-> SparseEnd(rate, sizes, ls, n)]

(* A sparse network is divided as it should be.                            *)
LEMMA SparseShape ==
  ASSUME ProductsFit, NEW sizes \in LayerSizes, NEW rate, NEW ls,
         NEW first, NEW last, NEW N, IsSparse(rate, sizes, ls, first, last, N)
  PROVE  LET total == ConnectionsBefore(rate, sizes, Len(sizes) + 1)
         IN /\ total \in Nat
            /\ Ranges(first, last, N, total)
            /\ FansIn("LAYER", rate, ls, first, last)
<1> DEFINE L == Len(sizes)
           count == Counts("LAYER", sizes)
           B(l) == ConnectionsBefore(rate, sizes, l)
           total == B(L + 1)
           num(l) == num_connections(rate, sizes[l - 1], sizes[l])
           A(l) == Division(num(l), sizes[l])
           at == Begins(first, N, total)
<1>1. L \in Nat /\ L >= 2 /\ \A l \in 1 .. L : sizes[l] \in Nat /\ sizes[l] >= 1
  BY SizesOfLayers
<1>2. AreLayers(ls, L, count)
      /\ \A l \in 1 .. L : count[l] = sizes[l] + 1 /\ count[l] \in Nat
  <2>1. \A l \in 1 .. L : count[l] = sizes[l] + 1
    BY DEF Counts, NumNeurons
  <2>2. ls = LayersOf("LAYER", sizes)
    BY DEF IsSparse
  <2>3. AreLayers(ls, L, count)
    BY <2>2, LayersAreMade
  <2> HIDE DEF count
  <2>4. QED
    BY <1>1, <2>1, <2>3
<1>3. rate \in Nat /\ rate <= Whole /\ Whole \in Nat
  BY RatesInRange, CreationAssumption DEF IsSparse
<1>4. /\ B(2) = 0
      /\ \A l \in 2 .. L : B(l) \in Nat /\ B(l + 1) = B(l) + num(l) /\ B(l + 1) \in Nat
  BY <1>3, ConnectionsAddUp
<1>5. \A l \in 2 .. L :
        /\ IsAllotted(A(l), num(l), sizes[l])
        /\ \A k \in 0 .. sizes[l] - 1 :
             /\ A(l)[k] + 2 <= A(l)[k + 1]
             /\ A(l)[k + 1] <= A(l)[k] + (sizes[l - 1] + 1)
             /\ rate = Whole => A(l)[k + 1] = A(l)[k] + (sizes[l - 1] + 1)
  BY LayerShared DEF IsSparse
<1>6. \A n \in 0 .. N - 1 : /\ first[n] = SparseBegin(rate, sizes, ls, n)
                            /\ last[n] = SparseEnd(rate, sizes, ls, n)
  BY DEF IsSparse
<1>7. /\ \A l \in 1 .. L : \A n \in ls[l].first .. ls[l].last - 1 :
           LayerOf(ls, n) = l /\ n \in 0 .. N - 1
      /\ \A l \in 1 .. L : ls[l].first \in Nat /\ ls[l].last \in Nat
                           /\ ls[l].last = ls[l].first + (sizes[l] + 1)
      /\ \A l \in 1 .. L - 1 : ls[l + 1].first = ls[l].last
      /\ ls[1].first = 0 /\ DOMAIN ls = 1 .. L /\ N = ls[L].last
  <2>1. \A l \in 1 .. L : \A n \in ls[l].first .. ls[l].last - 1 :
          LayerOf(ls, n) = l /\ n \in 0 .. N - 1
    <3>1. L >= 1 /\ \A l \in 1 .. L : count[l] \in Nat
      BY <1>1, <1>2
    <3> HIDE DEF L, count
    <3>2. \A l \in 1 .. L : \A n \in ls[l].first .. ls[l].last - 1 :
            LayerOf(ls, n) = l /\ n \in 0 .. ls[L].last - 1
      BY <1>1, <1>2, <3>1, LayerLookup
    <3>3. N = ls[L].last
      BY DEF IsSparse, L
    <3>4. QED
      BY <3>2, <3>3
  <2>2. N = ls[L].last
    BY DEF IsSparse
  <2>3. QED
    BY <1>2, <2>1, <2>2 DEF AreLayers
<1>8. DOMAIN first = 0 .. N - 1 /\ DOMAIN last = 0 .. N - 1
  BY DEF IsSparse
<1>9. /\ \A n \in 0 .. N - 1 : at[n] = first[n]
      /\ at[N] = total
  <2>1. N \in Nat
    BY <1>1, <1>7
  <2>2. QED
    BY <2>1 DEF Begins
<1> HIDE DEF L, count, B, A, num, at, total
(* Where the connections of a neuron begin and end.                        *)
<1>10. ASSUME NEW n \in ls[1].first .. ls[1].last - 1
       PROVE  first[n] = 0 /\ last[n] = 0
  <2>1. LayerOf(ls, n) = 1 /\ n \in 0 .. N - 1
    <3>1. 1 \in 1 .. L
      BY <1>1
    <3>2. QED
      BY <1>7, <3>1
  <2>2. QED
    BY <1>6, <2>1 DEF SparseBegin, SparseEnd
<1>11. ASSUME NEW l \in 2 .. L, NEW n \in ls[l].first .. ls[l].last - 1
       PROVE  first[n] = B(l) + A(l)[n - ls[l].first]
  <2>1. LayerOf(ls, n) = l /\ n \in 0 .. N - 1 /\ l # 1
    BY <1>1, <1>7
  <2>2. QED
    BY <1>6, <2>1, SparseBeginsAt DEF B, A, num
<1>12. ASSUME NEW l \in 2 .. L, NEW n \in ls[l].first .. ls[l].last - 1
       PROVE  last[n] = IF n = ls[l].last - 1 THEN first[n] ELSE first[n + 1]
  <2>1. LayerOf(ls, n) = l /\ n \in 0 .. N - 1 /\ l # 1
    BY <1>1, <1>7
  <2>2. n # ls[l].last - 1 => n + 1 \in 0 .. N - 1
    <3>1. l \in 1 .. L
      BY <1>1
    <3>2. n # ls[l].last - 1 => n + 1 \in ls[l].first .. ls[l].last - 1
      BY <1>7, <3>1
    <3>3. QED
      BY <1>7, <3>1, <3>2
  <2>3. QED
    BY <1>6, <2>1, <2>2 DEF SparseEnd
(* The first neuron of the next layer goes on where a layer ends.          *)
<1>13. ASSUME NEW l \in 1 .. L PROVE at[ls[l].last] = B(l + 1)
  <2>1. CASE l = L
    BY <1>7, <1>9, <2>1 DEF total
  <2>2. CASE l # L
    <3> DEFINE m == l + 1
               n == ls[l].last
    <3>1. m \in 2 .. L /\ m \in 1 .. L /\ l \in 1 .. L - 1
      BY <1>1, <2>2
    <3>2. ls[m].first = n
      BY <1>7, <3>1
    <3>3. n \in ls[m].first .. ls[m].last - 1 /\ n - ls[m].first = 0
      <4> HIDE DEF n, m
      <4>1. /\ ls[m].first \in Nat /\ sizes[m] \in Nat
            /\ ls[m].last = ls[m].first + (sizes[m] + 1)
        BY <1>1, <1>7, <3>1
      <4>2. QED
        BY <3>2, <4>1
    <3>4. n \in 0 .. N - 1
      BY <1>7, <3>1, <3>3
    <3> HIDE DEF n, m
    <3>5. A(m)[0] = 0 /\ B(m) \in Nat
      BY <1>4, <1>5, <3>1 DEF IsAllotted
    <3>6. first[n] = B(m) + A(m)[0]
      <4>1. first[n] = B(m) + A(m)[n - ls[m].first]
        BY <1>11, <3>1, <3>3
      <4>2. QED
        BY <3>3, <4>1
    <3>7. at[n] = B(m)
      BY <1>9, <3>4, <3>5, <3>6
    <3>8. QED
      BY <3>7 DEF n, m
  <2>3. QED
    BY <2>1, <2>2
<1>14. ASSUME NEW l \in 1 .. L, NEW n \in ls[l].first .. ls[l].last - 1
       PROVE  /\ first[n] \in Nat /\ last[n] = at[n + 1]
              /\ last[n] - first[n] \in Fan("LAYER", rate, ls, l, n)
              /\ first[n] <= last[n]
  <2>1. CASE l = 1
    <3>1. first[n] = 0 /\ last[n] = 0
      BY <1>10, <2>1
    <3>2. last[n] - first[n] \in Fan("LAYER", rate, ls, l, n)
      BY <2>1, <3>1 DEF Fan
    <3>3. at[n + 1] = 0
      <4>1. CASE n + 1 = ls[1].last
        BY <1>1, <1>4, <1>13, <2>1, <4>1
      <4>2. CASE n + 1 # ls[1].last
        <5>1. n + 1 \in ls[1].first .. ls[1].last - 1
          BY <1>1, <1>7, <2>1, <4>2
        <5>2. n + 1 \in 0 .. N - 1 /\ first[n + 1] = 0
          <6> DEFINE m == n + 1
          <6>1. m \in ls[1].first .. ls[1].last - 1 /\ 1 \in 1 .. L
            BY <1>1, <5>1
          <6> HIDE DEF m
          <6>2. m \in 0 .. N - 1 /\ first[m] = 0
            BY <1>7, <1>10, <6>1
          <6>3. QED
            BY <6>2 DEF m
        <5>3. QED
          BY <1>9, <5>2
      <4>3. QED
        BY <4>1, <4>2
    <3>4. QED
      BY <3>1, <3>2, <3>3
  <2>2. CASE l # 1
    <3> DEFINE k == n - ls[l].first
    <3>1. /\ l \in 2 .. L /\ l - 1 \in 1 .. L /\ l - 1 \in 1 .. L - 1
          /\ (l - 1) + 1 = l
      BY <1>1, <2>2
    <3>2. /\ k \in 0 .. sizes[l] /\ sizes[l] \in Nat
          /\ (n + 1) - ls[l].first = k + 1
          /\ n = ls[l].last - 1 <=> k = sizes[l]
          /\ n \in Int /\ n + 1 \in Int
      <4>1. sizes[l] \in Nat /\ ls[l].first \in Nat /\ ls[l].last \in Nat
            /\ ls[l].last = ls[l].first + (sizes[l] + 1)
        BY <1>1, <1>7
      <4>2. QED
        BY <4>1
    <3>3. /\ B(l) \in Nat /\ A(l)[k] \in Nat /\ B(l + 1) = B(l) + num(l)
          /\ A(l)[sizes[l]] = num(l)
      BY <1>4, <1>5, <3>1, <3>2 DEF IsAllotted
    <3>4. first[n] = B(l) + A(l)[k]
      BY <1>11, <3>1
    <3>9. n - ls[l].first = k
      OBVIOUS
    <3> HIDE DEF k
    <3>5. CASE n = ls[l].last - 1
      <4>1. last[n] = first[n]
        BY <1>12, <3>1, <3>5
      <4>2. n + 1 = ls[l].last
        BY <1>7, <3>1, <3>5
      <4>3. first[n] = B(l + 1)
        BY <3>2, <3>3, <3>4, <3>5
      <4>4. last[n] - first[n] \in Fan("LAYER", rate, ls, l, n)
        BY <3>3, <3>4, <3>5, <4>1 DEF Fan
      <4>5. QED
        BY <1>13, <3>3, <3>4, <4>1, <4>2, <4>3, <4>4
    <3>6. CASE n # ls[l].last - 1
      <4>1. last[n] = first[n + 1]
        BY <1>12, <3>1, <3>6
      <4>2. n + 1 \in ls[l].first .. ls[l].last - 1 /\ k \in 0 .. sizes[l] - 1
        <5>1. ls[l].first \in Nat /\ ls[l].last \in Nat
          BY <1>7
        <5>2. QED
          BY <3>2, <3>6, <5>1
      <4>3. n + 1 \in 0 .. N - 1
        BY <1>7, <4>2
      <4>4. first[n + 1] = B(l) + A(l)[k + 1]
        <5>1. first[n + 1] = B(l) + A(l)[(n + 1) - ls[l].first]
          <6> DEFINE m == n + 1
          <6>1. m \in ls[l].first .. ls[l].last - 1
            BY <4>2
          <6> HIDE DEF m
          <6>2. first[m] = B(l) + A(l)[m - ls[l].first]
            BY <1>11, <3>1, <6>1
          <6>3. QED
            BY <6>2 DEF m
        <5>2. QED
          BY <3>2, <5>1
      <4>5. /\ A(l)[k] + 2 <= A(l)[k + 1]
            /\ A(l)[k + 1] <= A(l)[k] + (sizes[l - 1] + 1)
            /\ rate = Whole => A(l)[k + 1] = A(l)[k] + (sizes[l - 1] + 1)
            /\ A(l)[k + 1] \in Nat
        <5>1. k + 1 \in 0 .. sizes[l]
          BY <3>2, <4>2
        <5>2. QED
          BY <1>5, <3>1, <4>2, <5>1 DEF IsAllotted
      <4>6. ls[l - 1].last - ls[l - 1].first = sizes[l - 1] + 1 /\ sizes[l - 1] \in Nat
        <5>1. sizes[l - 1] \in Nat /\ ls[l - 1].first \in Nat
              /\ ls[l - 1].last = ls[l - 1].first + (sizes[l - 1] + 1)
          BY <1>1, <1>7, <3>1
        <5>2. QED
          BY <5>1
      <4> DEFINE d == last[n] - first[n]
                 in == sizes[l - 1] + 1
      <4>7. d = A(l)[k + 1] - A(l)[k] /\ d \in Int /\ in \in Nat
        BY <3>3, <3>4, <4>1, <4>4, <4>5, <4>6
      <4>8. 2 <= d /\ d <= in /\ (rate = Whole => d = in)
        BY <3>3, <4>5, <4>6, <4>7
      <4>9. d \in Fan("LAYER", rate, ls, l, n)
        <5> HIDE DEF d, in
        <5>1. rate < Whole => d \in 2 .. in
          BY <4>7, <4>8
        <5>2. ~(rate < Whole) => d \in {in}
          BY <1>3, <4>8
        <5>3. ls[l - 1].last - ls[l - 1].first = in
          BY <4>6 DEF in
        <5>4. QED
          BY <2>2, <3>6, <5>1, <5>2, <5>3 DEF Fan
      <4>10. first[n] \in Nat /\ first[n + 1] \in Nat
        BY <3>3, <3>4, <4>4, <4>5
      <4>11. QED
        BY <1>9, <4>1, <4>3, <4>8, <4>9, <4>10
    <3>7. QED
      BY <3>5, <3>6
  <2>3. QED
    BY <2>1, <2>2
<1>15. total \in Nat
  <2>1. L \in 2 .. L
    BY <1>1
  <2>2. QED
    BY <1>4, <2>1 DEF total
<1>16. first[0] = 0
  <2>1. 0 \in ls[1].first .. ls[1].last - 1
    BY <1>1, <1>7
  <2>2. QED
    BY <1>10, <2>1
<1>17. L >= 1 /\ count[1] >= 1
  BY <1>1, <1>2
<1>18. ShapedAt("LAYER", rate, ls, first, last, N, total)
  BY <1>7, <1>14 DEF at, ShapedAt
<1>19. Ranges(first, last, N, total) /\ FansIn("LAYER", rate, ls, first, last)
  <2>1. L \in Nat /\ L >= 1 /\ N = ls[L].last /\ \A l \in 1 .. L : count[l] \in Nat
    BY <1>1, <1>2, <1>7
  <2>2. QED
    BY <1>2, <1>8, <1>15, <1>16, <1>17, <1>18, <2>1, ShapedByNeuron
<1>20. QED
  BY <1>15, <1>19 DEF total, L, B

(* A neuron of a shortcut network is connected to all those before its     *)
(* layer.                                                                  *)
IsShortcut(sizes, ls, first, last, N) ==
  /\ ls = LayersOf("SHORTCUT", sizes) /\ N = ls[Len(sizes)].last
  /\ first = [n \in 0 .. N - 1 |-> IF n < ls[1].last THEN 0 ELSE ShortcutBegin(ls, n)]
  /\ last = [n \in 0 .. N - 1 |-> IF n < ls[1].last THEN 0 ELSE ShortcutBegin(ls, n + 1)]

LEMMA ShortcutsAddUp ==
  ASSUME NEW L \in Nat, L >= 1, NEW ls, NEW count, AreLayers(ls, L, count),
         \A l \in 1 .. L : count[l] \in Nat, NEW N, N = ls[L].last
  PROVE  /\ ShortcutBegin(ls, ls[1].last) = 0
         /\ \A n \in ls[1].last .. N - 1 :
              ShortcutBegin(ls, n + 1) = ShortcutBegin(ls, n) + ls[LayerOf(ls, n)].first
         /\ \A n \in ls[1].last .. N : ShortcutBegin(ls, n) \in Nat
<1> DEFINE F == ls[1].last
           G == [n \in 0 .. N - 1 |-> ls[LayerOf(ls, n)].first]
           B(n) == ShortcutBegin(ls, n)
<1>1. /\ F \in Nat /\ N \in Nat /\ F <= N
      /\ \A l \in 1 .. L : ls[l].first \in Nat
  <2>1. /\ \A l \in 1 .. L : ls[l].first \in Nat /\ ls[l].last \in Nat
        /\ L \in 1 .. L /\ 1 \in 1 .. L /\ 1 <= L
    BY DEF AreLayers
  <2>2. ls[1].last <= ls[L].last
    BY <2>1, LayersInOrder
  <2>3. QED
    BY <2>1, <2>2
<1>2. \A n \in 0 .. N - 1 : G[n] \in Nat /\ G[n] = ls[LayerOf(ls, n)].first
  BY <1>1, LayerLookup
<1> HIDE DEF G
<1>3. \A n \in F .. N : B(n) = SumOver(G, F, n - 1)
  <2> TAKE n \in F .. N
  <2>1. \A m \in F .. n - 1 : m \in 0 .. N - 1
    <3> HIDE DEF F
    <3>1. QED
      BY <1>1
  <2>2. [m \in F .. n - 1 |-> ls[LayerOf(ls, m)].first] = [m \in F .. n - 1 |-> G[m]]
    BY <1>2, <2>1
  <2>3. QED
    BY <2>2 DEF SumOver, ShortcutBegin
<1> HIDE DEF F, B
<1>4. B(F) = 0
  <2>1. DOMAIN [m \in F .. F - 1 |-> G[m]] = {}
    BY <1>1
  <2>2. SumOver(G, F, F - 1) = 0
    BY <2>1, SumOfNone DEF SumOver
  <2>3. F \in F .. N
    BY <1>1
  <2>4. QED
    BY <1>3, <2>2, <2>3
<1>5. ASSUME NEW n \in F .. N - 1 PROVE B(n + 1) = B(n) + G[n] /\ G[n] \in Nat
  <2> DEFINE b == n - 1
  <2>1. /\ b \in Int /\ F \in Int /\ F <= b + 1 /\ b + 1 = n
        /\ \A m \in F .. b + 1 : m \in 0 .. N - 1
        /\ n \in F .. N /\ n + 1 \in F .. N /\ (n + 1) - 1 = n /\ n \in 0 .. N - 1
    BY <1>1
  <2>2. \A m \in F .. b + 1 : G[m] \in Int
    BY <1>2, <2>1
  <2>3. B(n) = SumOver(G, F, b) /\ B(n + 1) = SumOver(G, F, n)
    BY <1>3, <2>1
  <2> HIDE DEF b
  <2>4. SumOver(G, F, b + 1) = SumOver(G, F, b) + G[b + 1]
    BY <2>1, <2>2, SumsInARow
  <2>5. QED
    BY <1>2, <2>1, <2>3, <2>4
<1> DEFINE M == N - F
           T == {k \in 0 .. M : B(F + k) \in Nat}
<1>6. 0 \in T
  BY <1>1, <1>4
<1>7. ASSUME NEW k \in 0 .. M - 1, k \in T PROVE k + 1 \in T
  <2>1. F + k \in F .. N - 1 /\ (F + k) + 1 = F + (k + 1) /\ k + 1 \in 0 .. M
    BY <1>1
  <2>2. B((F + k) + 1) = B(F + k) + G[F + k] /\ G[F + k] \in Nat
    BY <1>5, <2>1
  <2>3. B(F + k) \in Nat
    BY <1>7
  <2>4. QED
    BY <2>1, <2>2, <2>3
<1>8. \A k \in 0 .. M : B(F + k) \in Nat
  <2>1. M \in Nat
    BY <1>1
  <2> HIDE DEF T, M
  <2>2. \A k \in 0 .. M : k \in T
    BY <1>6, <1>7, <2>1, CountingUp
  <2>3. QED
    BY <2>2 DEF T
<1>9. \A n \in F .. N : B(n) \in Nat
  <2> TAKE n \in F .. N
  <2>1. n - F \in 0 .. M /\ F + (n - F) = n
    BY <1>1
  <2>2. QED
    BY <1>8, <2>1
<1>10. \A n \in F .. N - 1 : B(n + 1) = B(n) + ls[LayerOf(ls, n)].first
  <2>1. \A n \in F .. N - 1 : n \in 0 .. N - 1
    BY <1>1
  <2>2. QED
    BY <1>2, <1>5, <2>1
<1>11. QED
  BY <1>4, <1>9, <1>10 DEF F, B

(* So is a shortcut network.                                               *)
LEMMA ShortcutShape ==
  ASSUME NEW sizes \in LayerSizes, NEW ls, NEW first, NEW last, NEW N,
         IsShortcut(sizes, ls, first, last, N)
  PROVE  /\ ShortcutBegin(ls, N) \in Nat
         /\ Ranges(first, last, N, ShortcutBegin(ls, N))
         /\ FansIn("SHORTCUT", Whole, ls, first, last)
<1> DEFINE L == Len(sizes)
           count == Counts("SHORTCUT", sizes)
           B(n) == ShortcutBegin(ls, n)
           total == B(N)
           at == Begins(first, N, total)
           F == ls[1].last
<1>1. L \in Nat /\ L >= 1 /\ L >= 2 /\ \A l \in 1 .. L : sizes[l] \in Nat /\ sizes[l] >= 1
  BY SizesOfLayers
<1>2. AreLayers(ls, L, count)
      /\ \A l \in 1 .. L : count[l] \in Nat /\ count[l] >= 1
  <2>1. \A l \in 1 .. L : count[l] = sizes[l] + IF l = 1 THEN 1 ELSE 0
    BY DEF Counts, NumNeurons
  <2>2. ls = LayersOf("SHORTCUT", sizes)
    BY DEF IsShortcut
  <2>3. AreLayers(ls, L, count)
    BY <2>2, LayersAreMade
  <2> HIDE DEF count
  <2>4. QED
    BY <1>1, <2>1, <2>3
<1>3. /\ \A n \in 0 .. N - 1 :
           /\ first[n] = IF n < F THEN 0 ELSE B(n)
           /\ last[n] = IF n < F THEN 0 ELSE B(n + 1)
      /\ DOMAIN first = 0 .. N - 1 /\ DOMAIN last = 0 .. N - 1
      /\ N = ls[L].last
  BY DEF IsShortcut
<1> HIDE DEF L, count
<1>4. /\ \A l \in 1 .. L : \A n \in ls[l].first .. ls[l].last - 1 :
           LayerOf(ls, n) = l /\ n \in 0 .. N - 1
      /\ \A l, m \in 1 .. L : l <= m => ls[l].last <= ls[m].last
      /\ \A l, m \in 1 .. L : l < m => ls[l].last <= ls[m].first
  BY <1>1, <1>2, <1>3, LayerLookup, LayersInOrder
<1>5. /\ ls[1].first = 0 /\ F \in Nat /\ N \in Nat /\ F <= N
      /\ F >= 1 /\ F < N /\ DOMAIN ls = 1 .. L
      /\ \A l \in 1 .. L : ls[l].first \in Nat /\ ls[l].last \in Nat
  <2>1. /\ \A l \in 1 .. L : /\ ls[l].first \in Nat /\ ls[l].last \in Nat
                             /\ ls[l].last = ls[l].first + count[l]
        /\ L \in 1 .. L /\ 1 \in 1 .. L /\ 1 < L /\ ls[1].first = 0
        /\ DOMAIN ls = 1 .. L
    BY <1>1, <1>2 DEF AreLayers
  <2>2. F <= ls[L].first /\ N = ls[L].first + count[L] /\ F = 0 + count[1]
    BY <1>3, <1>4, <2>1
  <2> HIDE DEF F
  <2>3. QED
    BY <1>2, <2>1, <2>2
<1>6. /\ B(F) = 0
      /\ \A n \in F .. N - 1 : B(n + 1) = B(n) + ls[LayerOf(ls, n)].first
      /\ \A n \in F .. N : B(n) \in Nat
  BY <1>1, <1>2, <1>3, ShortcutsAddUp
<1>7. /\ \A n \in 0 .. N - 1 : at[n] = first[n]
      /\ at[N] = total
  BY <1>5 DEF Begins
<1>8. total \in Nat /\ total = B(N)
  BY <1>5, <1>6
<1> HIDE DEF B, at, total
<1>9. ASSUME NEW l \in 1 .. L, NEW n \in ls[l].first .. ls[l].last - 1
      PROVE  /\ first[n] \in Nat /\ last[n] = at[n + 1]
             /\ last[n] - first[n] \in Fan("SHORTCUT", Whole, ls, l, n)
             /\ first[n] <= last[n]
  <2>1. LayerOf(ls, n) = l /\ n \in 0 .. N - 1 /\ ls[l].first \in Nat
    BY <1>4, <1>5
  <2>2. CASE l = 1
    <3>1. n < F
      BY <1>5, <2>2
    <3>2. first[n] = 0 /\ last[n] = 0
      BY <1>3, <2>1, <3>1
    <3>3. n + 1 \in 0 .. N - 1 /\ (n + 1 < F \/ n + 1 = F)
      <4> HIDE DEF F
      <4>1. QED
        BY <1>5, <2>1, <3>1
    <3>4. at[n + 1] = 0
      <4>1. first[n + 1] = IF n + 1 < F THEN 0 ELSE B(n + 1)
        BY <1>3, <3>3
      <4> HIDE DEF F
      <4>2. QED
        BY <1>5, <1>6, <1>7, <3>3, <4>1
    <3>5. last[n] - first[n] \in Fan("SHORTCUT", Whole, ls, l, n)
      BY <2>2, <3>2 DEF Fan
    <3>6. QED
      BY <3>2, <3>4, <3>5
  <2>3. CASE l # 1
    <3>1. 1 \in 1 .. L /\ 1 < l
      BY <1>1, <2>3
    <3>2. F <= ls[l].first
      BY <1>4, <3>1
    <3>3. n \in F .. N - 1 /\ n \in F .. N /\ ~(n < F) /\ n + 1 \in F .. N
          /\ (n + 1 = N \/ (n + 1 \in 0 .. N - 1 /\ ~(n + 1 < F)))
      <4> HIDE DEF F
      <4>1. QED
        BY <1>5, <2>1, <3>2
    <3>4. first[n] = B(n) /\ last[n] = B(n + 1)
      BY <1>3, <2>1, <3>3
    <3>5. at[n + 1] = B(n + 1)
      BY <1>3, <1>7, <1>8, <3>3
    <3>6. B(n + 1) = B(n) + ls[l].first /\ B(n) \in Nat
      BY <1>6, <2>1, <3>3
    <3>7. last[n] - first[n] = ls[l].first
      BY <2>1, <3>4, <3>6
    <3>8. last[n] - first[n] \in Fan("SHORTCUT", Whole, ls, l, n)
      BY <2>3, <3>7 DEF Fan
    <3>9. first[n] <= last[n]
      BY <2>1, <3>4, <3>6
    <3>10. QED
      BY <3>4, <3>5, <3>6, <3>8, <3>9
  <2>4. QED
    BY <2>2, <2>3
<1>10. first[0] = 0
  <2>1. 0 \in 0 .. N - 1 /\ 0 < F
    BY <1>5
  <2>2. QED
    BY <1>3, <2>1
<1>11. ShapedAt("SHORTCUT", Whole, ls, first, last, N, total)
  BY <1>5, <1>9 DEF at, ShapedAt
<1>12. count[1] >= 1 /\ \A l \in 1 .. L : count[l] \in Nat
  BY <1>1, <1>2
<1>13. /\ Ranges(first, last, N, total)
       /\ FansIn("SHORTCUT", Whole, ls, first, last)
  BY <1>1, <1>2, <1>3, <1>8, <1>10, <1>11, <1>12, ShapedByNeuron
<1>14. QED
  BY <1>8, <1>13 DEF total, B

(* The network being built has the layers asked for, and its connections   *)
(* are divided among its neurons.                                          *)
Places(first, last, n) == first[n] .. last[n] - 1

Divided(ls, first, last, conns, type, rate, sizes) ==
  /\ sizes \in LayerSizes /\ type \in {"LAYER", "SHORTCUT"}
  /\ rate \in Nat /\ rate <= Whole /\ (type = "SHORTCUT" => rate = Whole)
  /\ ls = LayersOf(type, sizes)
  /\ \E total \in Nat : /\ DOMAIN conns = 0 .. total - 1
                        /\ Ranges(first, last, ls[Len(sizes)].last, total)
  /\ FansIn(type, rate, ls, first, last)

(* A layer of a sparse network with the bias connected and some of the     *)
(* other places filled, each neuron's from the front.                      *)
PartlyWired(ls, first, last, conns, l) ==
  \A n \in ls[l].first .. ls[l].last - 2 :
    /\ conns[first[n]] = ls[l - 1].last - 1
    /\ \A c \in Places(first, last, n) :
         conns[c] = NULL \/ conns[c] \in ls[l - 1].first .. ls[l - 1].last - 1
    /\ \A c, d \in Places(first, last, n) : c < d /\ conns[c] = NULL => conns[d] = NULL
    /\ \A c, d \in Places(first, last, n) : conns[c] = conns[d] /\ conns[c] # NULL => c = d

Uses(ls, first, last, conns, l, m) ==
  \E n \in ls[l].first .. ls[l].last - 2 : \E c \in Places(first, last, n) : conns[c] = m

Untouched(ls, first, last, conns, l) ==
  \A n \in ls[l].first .. ls[l].last - 2 : \A c \in Places(first, last, n) : conns[c] = NULL

Filled(ls, first, last, conns, l) ==
  \A n \in ls[l].first .. ls[l].last - 2 : \A c \in Places(first, last, n) : conns[c] # NULL

Wired(ls, first, last, conns, l) ==
  /\ PartlyWired(ls, first, last, conns, l) /\ Filled(ls, first, last, conns, l)
  /\ \A m \in ls[l - 1].first .. ls[l - 1].last - 1 : Uses(ls, first, last, conns, l, m)

InputsWired(ls, first, last, conns, l, m) ==
  /\ m \in ls[l - 1].first .. ls[l - 1].last - 2
  /\ \A n \in ls[l].first .. ls[l].last - 2 : \A c \in Places(first, last, n) :
       conns[c] \in {NULL, ls[l - 1].last - 1} \/ conns[c] < m
  /\ \A k \in ls[l - 1].first .. m - 1 : Uses(ls, first, last, conns, l, k)

WiringOf(ls, first, last, conns, at, L, l, m) ==
  /\ at \in {"bias", "inputs", "fill", "done"} /\ l \in 2 .. L
  /\ \A k \in 2 .. L : k < l \/ at = "done" => Wired(ls, first, last, conns, k)
  /\ at # "done" => \A k \in l + 1 .. L : Untouched(ls, first, last, conns, k)
  /\ at = "bias" => Untouched(ls, first, last, conns, l)
  /\ at \in {"inputs", "fill"} => PartlyWired(ls, first, last, conns, l)
  /\ at = "inputs" => InputsWired(ls, first, last, conns, l, m)
  /\ at = "fill" =>
       /\ ~Filled(ls, first, last, conns, l)
       /\ \A k \in ls[l - 1].first .. ls[l - 1].last - 1 : Uses(ls, first, last, conns, l, k)

(* Fully connected networks are built in one step.                         *)
StraightIn(ls, first, last, conns, type, L) ==
  \A l \in 2 .. L : \A n \in ls[l].first .. ls[l].last - 1 :
    \A c \in Places(first, last, n) :
      conns[c] = (c - first[n]) + IF type = "LAYER" THEN ls[l - 1].first ELSE 0

DividedInv ==
  pc # "start" => Divided(layers, first_con, last_con, connections,
                          network_type, connection_rate, asked)

WiringInv ==
  pc # "start" =>
    IF network_type = "LAYER" /\ connection_rate < Whole
    THEN WiringOf(layers, first_con, last_con, connections, pc, Len(asked),
                  layer_it, neuron_it)
    ELSE pc = "done" /\ StraightIn(layers, first_con, last_con, connections,
                                   network_type, Len(asked))

Layered(ls, L, N) ==
  /\ L \in Nat /\ L >= 2 /\ N \in Nat /\ N = ls[L].last
  /\ DOMAIN ls = 1 .. L /\ Len(ls) = L /\ ls[1].first = 0
  /\ \A l \in 1 .. L : /\ ls[l].first \in Nat /\ ls[l].last \in Nat
                       /\ ls[l].first < ls[l].last
  /\ \A l \in 1 .. L - 1 : ls[l + 1].first = ls[l].last
  /\ \A l, m \in 1 .. L : l < m => ls[l].last <= ls[m].first
  /\ \A l \in 1 .. L : \A n \in ls[l].first .. ls[l].last - 1 :
       LayerOf(ls, n) = l /\ n \in 0 .. N - 1
  /\ \A n \in 0 .. N - 1 : /\ LayerOf(ls, n) \in 1 .. L
                           /\ n \in ls[LayerOf(ls, n)].first .. ls[LayerOf(ls, n)].last - 1

(* What is known of the layers of any network.                             *)
LEMMA LayeredAsAsked ==
  ASSUME NEW sizes \in LayerSizes, NEW type
  PROVE  LET ls == LayersOf(type, sizes)
         IN /\ Layered(ls, Len(sizes), ls[Len(sizes)].last)
            /\ \A l \in 1 .. Len(sizes) : ls[l].last = ls[l].first + NumNeurons(type, sizes, l)
            /\ \A l \in 1 .. Len(sizes) : /\ sizes[l] \in Nat /\ sizes[l] >= 1
                                          /\ NumNeurons(type, sizes, l) \in Nat
                                          /\ NumNeurons(type, sizes, l) >= sizes[l]
<1> DEFINE L == Len(sizes)
           count == Counts(type, sizes)
           ls == LayersOf(type, sizes)
<1>1. L \in Nat /\ L >= 2 /\ L >= 1 /\ \A l \in 1 .. L : sizes[l] \in Nat /\ sizes[l] >= 1
  BY SizesOfLayers
<1>2. \A l \in 1 .. L : count[l] = NumNeurons(type, sizes, l)
                        /\ count[l] \in Nat /\ count[l] >= sizes[l]
  <2>1. \A l \in 1 .. L : count[l] = NumNeurons(type, sizes, l)
    BY DEF Counts
  <2>2. \A l \in 1 .. L : NumNeurons(type, sizes, l) \in {sizes[l], sizes[l] + 1}
    BY <1>1 DEF NumNeurons
  <2> HIDE DEF count, L
  <2>3. QED
    BY <1>1, <2>1, <2>2
<1>3. AreLayers(ls, L, count)
  BY LayersAreMade
<1>4. Len(ls) = L
  <2>1. ls = [l \in 1 .. L |-> ls[l]]
    BY SizesOfLayers DEF LayersOf
  <2> HIDE DEF ls, L
  <2>2. QED
    BY <1>1, <2>1
<1> HIDE DEF L, count, ls
<1>5. /\ DOMAIN ls = 1 .. L /\ ls[1].first = 0
      /\ \A l \in 1 .. L : /\ ls[l].first \in Nat /\ ls[l].last \in Nat
                           /\ ls[l].last = ls[l].first + count[l]
      /\ \A l \in 1 .. L - 1 : ls[l + 1].first = ls[l].last
  BY <1>3 DEF AreLayers
<1>6. \A l \in 1 .. L : ls[l].first < ls[l].last
  <2> TAKE l \in 1 .. L
  <2>1. /\ count[l] \in Nat /\ count[l] >= sizes[l] /\ sizes[l] \in Nat /\ sizes[l] >= 1
        /\ ls[l].first \in Nat /\ ls[l].last = ls[l].first + count[l]
    BY <1>1, <1>2, <1>5
  <2>2. QED
    BY <2>1
<1>7. \A l, m \in 1 .. L : l < m => ls[l].last <= ls[m].first
  BY <1>1, <1>2, <1>3, LayersInOrder
<1> DEFINE N == ls[L].last
<1>8. N \in Nat
  BY <1>1, <1>5
<1>9. /\ \A n \in 0 .. N - 1 :
           /\ LayerOf(ls, n) \in 1 .. L
           /\ n \in ls[LayerOf(ls, n)].first .. ls[LayerOf(ls, n)].last - 1
      /\ \A l \in 1 .. L : \A n \in ls[l].first .. ls[l].last - 1 :
           LayerOf(ls, n) = l /\ n \in 0 .. N - 1
  BY <1>1, <1>2, <1>3, LayerLookup
<1>10. Layered(ls, L, N)
  <2>1. N = ls[L].last
    OBVIOUS
  <2> HIDE DEF N
  <2>2. QED
    BY <1>1, <1>4, <1>5, <1>6, <1>7, <1>8, <1>9, <2>1 DEF Layered
<1>11. QED
  BY <1>1, <1>2, <1>5, <1>10 DEF ls, L

(* Each place belongs to exactly one neuron.                               *)
LEMMA PlacesGiven ==
  ASSUME NEW N, NEW total, NEW first, NEW last, Ranges(first, last, N, total)
  PROVE  /\ N \in Nat /\ total \in Nat
         /\ \A n \in 0 .. N - 1 :
              /\ first[n] \in Nat /\ last[n] \in Nat /\ first[n] <= last[n]
              /\ Places(first, last, n) \subseteq 0 .. total - 1
         /\ \A n, m \in 0 .. N - 1 : \A c \in Places(first, last, n) :
              c \in Places(first, last, m) => n = m
         /\ \A c \in 0 .. total - 1 : \E n \in 0 .. N - 1 : c \in Places(first, last, n)
<1> DEFINE at == Begins(first, N, total)
<1>1. /\ N \in Nat /\ total \in Nat /\ Row(at, N)
      /\ \A n \in 0 .. N - 1 : last[n] = at[n + 1]
  BY DEF Ranges
<1>2. at[N] = total /\ \A n \in 0 .. N - 1 : at[n] = first[n]
  BY <1>1 DEF Begins
<1> HIDE DEF at
<1>3. \A n \in 0 .. N - 1 : Places(first, last, n) = at[n] .. at[n + 1] - 1
  BY <1>1, <1>2 DEF Places
<1>4. \A a, b \in 0 .. N : a <= b => at[a] <= at[b]
  BY <1>1, RowGrows
<1>5. \A k \in 0 .. N : at[k] \in Nat
  BY <1>1 DEF Row
<1>6. ASSUME NEW n \in 0 .. N - 1
      PROVE  /\ first[n] \in Nat /\ last[n] \in Nat /\ first[n] <= last[n]
             /\ at[n] .. at[n + 1] - 1 \subseteq 0 .. total - 1
  <2>1. n \in 0 .. N /\ n + 1 \in 0 .. N /\ n <= n + 1 /\ n + 1 <= N /\ N \in 0 .. N
    BY <1>1
  <2>2. at[n] <= at[n + 1] /\ at[n + 1] <= total
    BY <1>2, <1>4, <2>1
  <2>3. at[n] \in Nat /\ at[n + 1] \in Nat
    BY <1>5, <2>1
  <2>4. QED
    BY <1>1, <1>2, <2>2, <2>3
<1>7. ASSUME NEW c \in 0 .. total - 1
      PROVE  /\ \E k \in 0 .. N - 1 : c \in at[k] .. at[k + 1] - 1
             /\ \A j, k \in 0 .. N - 1 :
                  /\ c \in at[j] .. at[j + 1] - 1
                  /\ c \in at[k] .. at[k + 1] - 1
                  => j = k
  BY <1>1, <1>2, RowParts
<1>8. ASSUME NEW n \in 0 .. N - 1, NEW m \in 0 .. N - 1,
             NEW c \in Places(first, last, n), c \in Places(first, last, m)
      PROVE  n = m
  <2>1. c \in 0 .. total - 1 /\ c \in at[n] .. at[n + 1] - 1 /\ c \in at[m] .. at[m + 1] - 1
    BY <1>3, <1>6, <1>8
  <2>2. QED
    BY <1>7, <2>1
<1>9. \A n \in 0 .. N - 1 : /\ first[n] \in Nat /\ last[n] \in Nat /\ first[n] <= last[n]
                            /\ Places(first, last, n) \subseteq 0 .. total - 1
  BY <1>3, <1>6
<1>10. \A c \in 0 .. total - 1 : \E n \in 0 .. N - 1 : c \in Places(first, last, n)
  BY <1>3, <1>7, ZenonT(60)
<1>11. QED
  BY <1>1, <1>8, <1>9, <1>10

(* How many places there are.                                              *)
LEMMA Distance ==
  ASSUME NEW a \in Int, NEW b \in Int, a <= b
  PROVE  IsFiniteSet(a .. b - 1) /\ Cardinality(a .. b - 1) = b - a
<1>1. IsFiniteSet(a .. b - 1)
      /\ Cardinality(a .. b - 1) = IF a > b - 1 THEN 0 ELSE (b - 1) - a + 1
  BY FS_Interval
<1>2. QED
  BY <1>1

(* The connections are divided as soon as a network is created, and no     *)
(* later step changes that.                                                *)
LEMMA DividedWhenCreated ==
  ASSUME ProductsFit, fann_create_sparse_array \/ fann_create_shortcut_array
  PROVE  DividedInv'
<1>1. CASE fann_create_sparse_array
  <2> DEFINE rate(r) == AtMostFull(r)
             ls(s) == LayersOf("LAYER", s)
             neurons(s) == 0 .. ls(s)[Len(s)].last - 1
             total(s, r) == ConnectionsBefore(rate(r), s, Len(s) + 1)
  <2>1. PICK sizes \in LayerSizes, asked_rate \in Rates :
          /\ network_type' = "LAYER" /\ connection_rate' = rate(asked_rate)
          /\ layers' = ls(sizes) /\ asked' = sizes
          /\ first_con' = [n \in neurons(sizes) |->
               SparseBegin(rate(asked_rate), sizes, ls(sizes), n)]
          /\ last_con' = [n \in neurons(sizes) |->
               SparseEnd(rate(asked_rate), sizes, ls(sizes), n)]
          /\ DOMAIN connections' = 0 .. total(sizes, asked_rate) - 1
    <3>1. PICK sizes \in LayerSizes, asked_rate \in Rates :
            LET first == [n \in neurons(sizes) |->
                            SparseBegin(rate(asked_rate), sizes, ls(sizes), n)]
                last == [n \in neurons(sizes) |->
                           SparseEnd(rate(asked_rate), sizes, ls(sizes), n)]
                slots == 0 .. total(sizes, asked_rate) - 1
            IN /\ network_type' = "LAYER" /\ connection_rate' = rate(asked_rate)
               /\ layers' = ls(sizes) /\ asked' = sizes
               /\ first_con' = first /\ last_con' = last
               /\ \/ connections' = [c \in slots |-> FullyConnected(ls(sizes), first, last, c)]
                  \/ connections' = [c \in slots |-> NULL]
      BY <1>1 DEF fann_create_sparse_array
    <3> HIDE DEF rate, ls, neurons, total
    <3>2. DOMAIN connections' = 0 .. total(sizes, asked_rate) - 1
      BY <3>1
    <3>3. QED
      BY <3>1, <3>2
  <2> DEFINE N == layers'[Len(sizes)].last
  <2>2. IsSparse(connection_rate', sizes, layers', first_con', last_con', N)
    BY <2>1 DEF IsSparse
  <2>3. /\ total(sizes, asked_rate) \in Nat
        /\ Ranges(first_con', last_con', N, total(sizes, asked_rate))
        /\ FansIn("LAYER", connection_rate', layers', first_con', last_con')
    <3> HIDE DEF N
    <3>1. LET t == ConnectionsBefore(connection_rate', sizes, Len(sizes) + 1)
          IN /\ t \in Nat
             /\ Ranges(first_con', last_con', N, t)
             /\ FansIn("LAYER", connection_rate', layers', first_con', last_con')
      BY <2>2, SparseShape
    <3>2. total(sizes, asked_rate) = ConnectionsBefore(connection_rate', sizes, Len(sizes) + 1)
      BY <2>1
    <3>3. QED
      BY <3>1, <3>2
  <2>4. connection_rate' \in Nat /\ connection_rate' <= Whole
    BY <2>1, RatesInRange
  <2> HIDE DEF total, neurons, rate
  <2>5. QED
    BY <2>1, <2>3, <2>4 DEF DividedInv, Divided
<1>2. CASE fann_create_shortcut_array
  <2> DEFINE ls(s) == LayersOf("SHORTCUT", s)
             N(s) == ls(s)[Len(s)].last
             neurons(s) == 0 .. N(s) - 1
             total(s) == ShortcutBegin(ls(s), N(s))
  <2>1. PICK sizes \in LayerSizes :
          /\ network_type' = "SHORTCUT" /\ connection_rate' = Whole
          /\ layers' = ls(sizes) /\ asked' = sizes
          /\ first_con' = [n \in neurons(sizes) |->
               IF n < ls(sizes)[1].last THEN 0 ELSE ShortcutBegin(ls(sizes), n)]
          /\ last_con' = [n \in neurons(sizes) |->
               IF n < ls(sizes)[1].last THEN 0 ELSE ShortcutBegin(ls(sizes), n + 1)]
          /\ DOMAIN connections' = 0 .. total(sizes) - 1
    BY <1>2, Zenon DEF fann_create_shortcut_array
  <2>2. IsShortcut(sizes, layers', first_con', last_con', N(sizes))
    BY <2>1 DEF IsShortcut
  <2>3. /\ total(sizes) \in Nat
        /\ Ranges(first_con', last_con', N(sizes), total(sizes))
        /\ FansIn("SHORTCUT", Whole, layers', first_con', last_con')
    <3> DEFINE M == N(sizes)
    <3>1. total(sizes) = ShortcutBegin(layers', M)
      BY <2>1
    <3>2. IsShortcut(sizes, layers', first_con', last_con', M)
      BY <2>2
    <3> HIDE DEF M
    <3>3. /\ ShortcutBegin(layers', M) \in Nat
          /\ Ranges(first_con', last_con', M, ShortcutBegin(layers', M))
          /\ FansIn("SHORTCUT", Whole, layers', first_con', last_con')
      BY <3>2, ShortcutShape
    <3>4. QED
      BY <3>1, <3>3 DEF M
  <2>4. Whole \in Nat
    BY CreationAssumption
  <2>5. N(sizes) = layers'[Len(sizes)].last
    BY <2>1
  <2> HIDE DEF total, neurons, N
  <2>6. QED
    BY <2>1, <2>3, <2>4, <2>5 DEF DividedInv, Divided
<1>3. QED
  BY <1>1, <1>2

LEMMA SameDivision ==
  ASSUME DividedInv, pc # "start", UNCHANGED shape, DOMAIN connections' = DOMAIN connections
  PROVE  DividedInv'
  BY DEF DividedInv, Divided, shape

LEMMA WiringKeepsDomain ==
  ASSUME ConnectBias \/ ConnectInput \/ ConnectRest
  PROVE  pc # "start" /\ UNCHANGED shape /\ DOMAIN connections' = DOMAIN connections
<1>1. CASE ConnectBias
  BY <1>1 DEF ConnectBias
<1>2. CASE ConnectInput
  <2>1. pc # "start" /\ UNCHANGED shape
    BY <1>2 DEF ConnectInput
  <2>2. DOMAIN connections' = DOMAIN connections
    BY <1>2 DEF ConnectInput
  <2>3. QED
    BY <2>1, <2>2
<1>3. CASE ConnectRest
  <2>1. pc # "start" /\ UNCHANGED shape
    BY <1>3 DEF ConnectRest
  <2>2. DOMAIN connections' = DOMAIN connections
    BY <1>3 DEF ConnectRest
  <2>3. QED
    BY <2>1, <2>2
<1>4. QED
  BY <1>1, <1>2, <1>3

(* Each step keeps the division.                                           *)
LEMMA DividedSteps ==
  ASSUME ProductsFit, DividedInv, Next \/ UNCHANGED vars
  PROVE  DividedInv'
<1>1. CASE fann_create_sparse_array \/ fann_create_shortcut_array
  BY <1>1, DividedWhenCreated
<1>2. CASE ConnectBias \/ ConnectInput \/ ConnectRest
  BY <1>2, WiringKeepsDomain, SameDivision
<1>3. CASE fann_destroy
  BY <1>3 DEF fann_destroy, DividedInv
<1>4. CASE UNCHANGED vars
  <2>1. UNCHANGED shape /\ pc' = pc /\ connections' = connections
    BY <1>4 DEF vars
  <2>2. CASE pc = "start"
    BY <2>1, <2>2 DEF DividedInv
  <2>3. CASE pc # "start"
    BY <2>1, <2>3, SameDivision
  <2>4. QED
    BY <2>2, <2>3
<1>5. QED
  BY <1>1, <1>2, <1>3, <1>4 DEF Next, Creating

(* What follows from the division: the property.                           *)
LEMMA SharedByAll ==
  ASSUME DividedInv
  PROVE  ConnectionsShared
<1> SUFFICES ASSUME pc # "start" PROVE ConnectionsShared
  BY DEF ConnectionsShared
<1> DEFINE L == Len(asked)
           N == layers[L].last
<1>1. /\ asked \in LayerSizes /\ network_type \in {"LAYER", "SHORTCUT"}
      /\ connection_rate \in Nat /\ connection_rate <= Whole /\ Whole \in Nat
      /\ network_type = "SHORTCUT" => connection_rate = Whole
      /\ layers = LayersOf(network_type, asked)
      /\ FansIn(network_type, connection_rate, layers, first_con, last_con)
  BY CreationAssumption DEF DividedInv, Divided
<1>2. PICK total \in Nat : /\ DOMAIN connections = 0 .. total - 1
                           /\ Ranges(first_con, last_con, N, total)
  BY DEF DividedInv, Divided
<1>3. Layered(layers, L, N)
  BY <1>1, LayeredAsAsked
<1> HIDE DEF L, N
<1>4. /\ N \in Nat
      /\ \A n \in 0 .. N - 1 :
           /\ first_con[n] \in Nat /\ last_con[n] \in Nat /\ first_con[n] <= last_con[n]
           /\ Slots(n) \subseteq 0 .. total - 1
      /\ \A n, m \in 0 .. N - 1 : \A c \in Slots(n) : c \in Slots(m) => n = m
      /\ \A c \in 0 .. total - 1 : \E n \in 0 .. N - 1 : c \in Slots(n)
  <2>1. /\ N \in Nat
        /\ \A n \in 0 .. N - 1 :
             /\ first_con[n] \in Nat /\ last_con[n] \in Nat /\ first_con[n] <= last_con[n]
             /\ Places(first_con, last_con, n) \subseteq 0 .. total - 1
        /\ \A n, m \in 0 .. N - 1 : \A c \in Places(first_con, last_con, n) :
             c \in Places(first_con, last_con, m) => n = m
        /\ \A c \in 0 .. total - 1 : \E n \in 0 .. N - 1 : c \in Places(first_con, last_con, n)
    BY <1>2, PlacesGiven
  <2>2. \A n : Places(first_con, last_con, n) = Slots(n)
    BY DEF Places, Slots
  <2>3. QED
    BY <2>1, <2>2
<1>5. DOMAIN first_con = 0 .. N - 1
  BY <1>2 DEF Ranges
<1>6. ASSUME NEW c \in DOMAIN connections
      PROVE  Cardinality({n \in DOMAIN first_con : c \in Slots(n)}) = 1
  <2>1. PICK n \in 0 .. N - 1 : c \in Slots(n)
    BY <1>2, <1>4
  <2>2. {m \in DOMAIN first_con : c \in Slots(m)} = {n}
    BY <1>4, <1>5, <2>1
  <2>3. QED
    BY <2>2, FS_Singleton
<1>7. ASSUME NEW n \in Receivers
      PROVE  /\ Slots(n) \subseteq DOMAIN connections
             /\ Cardinality(Slots(n)) <= Cardinality(Sources(n))
  <2>1. n \in 0 .. N - 1 /\ first_con[n] < last_con[n]
    BY <1>5 DEF Receivers
  <2> DEFINE l == LayerOf(layers, n)
             d == last_con[n] - first_con[n]
  <2>2. Slots(n) \subseteq DOMAIN connections
    BY <1>2, <1>4, <2>1
  <2>3. Cardinality(Slots(n)) = d /\ d \in Nat /\ d > 0
    <3>1. first_con[n] \in Int /\ last_con[n] \in Int /\ first_con[n] <= last_con[n]
      BY <1>4, <2>1
    <3>2. Cardinality(first_con[n] .. last_con[n] - 1) = d
      BY <3>1, Distance
    <3>3. QED
      BY <2>1, <3>1, <3>2 DEF Slots
  <2>4. l \in 1 .. L /\ n \in layers[l].first .. layers[l].last - 1 /\ DOMAIN layers = 1 .. L
    BY <1>3, <2>1 DEF Layered
  <2> HIDE DEF l, d
  <2>5. d \in Fan(network_type, connection_rate, layers, l, n)
    BY <1>1, <2>4 DEF FansIn, d
  <2>6. l # 1
    BY <2>3, <2>5 DEF Fan
  <2>7. l - 1 \in 1 .. L /\ \A k \in 1 .. L : /\ layers[k].first \in Nat /\ layers[k].last \in Nat
                                              /\ layers[k].first < layers[k].last
    BY <1>3, <2>4, <2>6 DEF Layered
  <2>8. CASE network_type = "LAYER"
    <3> DEFINE a == layers[l - 1].first
               b == layers[l - 1].last
    <3>1. a \in Int /\ b \in Int /\ a <= b
      BY <2>7
    <3>2. d <= b - a
      <4>1. d \in {0} \cup 2 .. b - a \cup {b - a}
        BY <2>5, <2>8 DEF Fan
      <4> HIDE DEF a, b
      <4>2. QED
        BY <2>3, <3>1, <4>1
    <3> HIDE DEF a, b
    <3>3. Cardinality(a .. b - 1) = b - a
      BY <3>1, Distance
    <3>4. Sources(n) = a .. b - 1
      BY <2>8 DEF Sources, NeuronsIn, a, b, l
    <3>5. QED
      BY <2>2, <2>3, <3>2, <3>3, <3>4
  <2>9. CASE network_type = "SHORTCUT"
    <3> DEFINE b == layers[l].first
    <3>1. b \in Int /\ 0 <= b
      BY <2>4, <2>7
    <3>2. d = b
      BY <2>5, <2>6, <2>9 DEF Fan
    <3> HIDE DEF b
    <3>3. Cardinality(0 .. b - 1) = b - 0
      BY <3>1, Distance
    <3>4. Sources(n) = 0 .. b - 1
      BY <2>9 DEF Sources, b, l
    <3>5. QED
      BY <2>2, <2>3, <3>1, <3>2, <3>3, <3>4
  <2>10. QED
    BY <1>1, <2>8, <2>9
<1>8. QED
  BY <1>6, <1>7 DEF ConnectionsShared

-----------------------------------------------------------------------------
(* Filling the places of a sparse network                                  *)

(* What the wiring of a sparse network needs to know of its division.      *)
SparseLayers(ls, first, last, conns, L) ==
  /\ L \in Nat /\ L >= 2
  /\ \A l \in 1 .. L : /\ ls[l].first \in Nat /\ ls[l].last \in Nat
                       /\ ls[l].first + 2 <= ls[l].last
  /\ \A l \in 2 .. L : \A n \in ls[l].first .. ls[l].last - 2 :
       /\ first[n] \in Nat /\ last[n] \in Nat /\ first[n] + 2 <= last[n]
       /\ Places(first, last, n) \subseteq DOMAIN conns
  /\ \A l \in 2 .. L : Places(first, last, ls[l].last - 1) = {}
  /\ \A l, k \in 2 .. L :
       \A n \in ls[l].first .. ls[l].last - 2, m \in ls[k].first .. ls[k].last - 2 :
         \A c \in Places(first, last, n) :
           c \in Places(first, last, m) => n = m /\ l = k

(* A divided sparse network is one whose layers can be wired.              *)
LEMMA SparseFacts ==
  ASSUME NEW ls, NEW first, NEW last, NEW conns, NEW rate, rate < Whole, NEW sizes,
         Divided(ls, first, last, conns, "LAYER", rate, sizes)
  PROVE  SparseLayers(ls, first, last, conns, Len(sizes))
<1> DEFINE type == "LAYER"
           L == Len(sizes)
           N == ls[L].last
<1>1. /\ sizes \in LayerSizes /\ ls = LayersOf(type, sizes)
      /\ FansIn(type, rate, ls, first, last)
  BY DEF Divided
<1>2. PICK total \in Nat : /\ DOMAIN conns = 0 .. total - 1
                           /\ Ranges(first, last, N, total)
  BY DEF Divided
<1>3. /\ Layered(ls, L, N)
      /\ \A l \in 1 .. L : /\ sizes[l] \in Nat /\ sizes[l] >= 1
                           /\ ls[l].last = ls[l].first + NumNeurons(type, sizes, l)
  <2> HIDE DEF type
  <2>1. QED
    BY <1>1, LayeredAsAsked
<1> HIDE DEF L, N
<1>4. /\ L \in Nat /\ L >= 2 /\ DOMAIN ls = 1 .. L
      /\ \A l \in 1 .. L : /\ ls[l].first \in Nat /\ ls[l].last \in Nat
      /\ \A l \in 1 .. L : \A n \in ls[l].first .. ls[l].last - 1 :
           LayerOf(ls, n) = l /\ n \in 0 .. N - 1
  BY <1>3 DEF Layered
<1>5. ASSUME NEW l \in 1 .. L PROVE ls[l].first + 2 <= ls[l].last
  <2>1. ls[l].last = ls[l].first + (sizes[l] + 1)
    BY <1>3 DEF NumNeurons
  <2>2. QED
    BY <1>3, <1>4, <2>1
<1>6. /\ \A n \in 0 .. N - 1 :
           /\ first[n] \in Nat /\ last[n] \in Nat /\ first[n] <= last[n]
           /\ Places(first, last, n) \subseteq 0 .. total - 1
      /\ \A n, m \in 0 .. N - 1 : \A c \in Places(first, last, n) :
           c \in Places(first, last, m) => n = m
  BY <1>2, PlacesGiven
<1>7. ASSUME NEW l \in 2 .. L, NEW n \in ls[l].first .. ls[l].last - 2
      PROVE  /\ LayerOf(ls, n) = l /\ n \in 0 .. N - 1
             /\ first[n] + 2 <= last[n]
  <2>1. l \in 1 .. L /\ l # 1
    BY <1>4
  <2>2. n \in ls[l].first .. ls[l].last - 1 /\ n # ls[l].last - 1
    BY <1>4, <2>1
  <2>3. last[n] - first[n] \in Fan(type, rate, ls, l, n)
    BY <1>1, <1>4, <2>1, <2>2 DEF FansIn
  <2> DEFINE w == ls[l - 1].last - ls[l - 1].first
             d == last[n] - first[n]
  <2>4. d \in 2 .. w
    BY <2>1, <2>2, <2>3 DEF Fan
  <2>5. n \in 0 .. N - 1 /\ LayerOf(ls, n) = l
    BY <1>4, <2>1, <2>2
  <2>6. first[n] \in Nat /\ last[n] \in Nat
    BY <1>6, <2>5
  <2> HIDE DEF w
  <2>7. d >= 2
    BY <2>4
  <2>8. QED
    BY <2>5, <2>6, <2>7
<1>8. ASSUME NEW l \in 2 .. L PROVE Places(first, last, ls[l].last - 1) = {}
  <2> DEFINE n == ls[l].last - 1
  <2>1. l \in 1 .. L /\ l # 1
    BY <1>4
  <2>2. n \in ls[l].first .. ls[l].last - 1
    BY <1>4, <1>5, <2>1
  <2>3. n \in 0 .. N - 1 /\ n = ls[l].last - 1
    BY <1>4, <2>1, <2>2
  <2> HIDE DEF n
  <2>4. last[n] - first[n] \in {0}
    BY <1>1, <1>4, <2>1, <2>2, <2>3 DEF FansIn, Fan
  <2>5. first[n] \in Nat /\ last[n] \in Nat
    BY <1>6, <2>3
  <2>6. Places(first, last, n) = {}
    BY <2>4, <2>5 DEF Places
  <2>7. QED
    BY <2>3, <2>6
<1>9. \A l \in 2 .. L : \A n \in ls[l].first .. ls[l].last - 2 :
        /\ first[n] \in Nat /\ last[n] \in Nat /\ first[n] + 2 <= last[n]
        /\ Places(first, last, n) \subseteq DOMAIN conns
  BY <1>2, <1>6, <1>7
<1>10. ASSUME NEW l \in 2 .. L, NEW k \in 2 .. L,
              NEW n \in ls[l].first .. ls[l].last - 2,
              NEW m \in ls[k].first .. ls[k].last - 2,
              NEW c \in Places(first, last, n), c \in Places(first, last, m)
       PROVE  n = m /\ l = k
  <2>1. n \in 0 .. N - 1 /\ m \in 0 .. N - 1 /\ LayerOf(ls, n) = l /\ LayerOf(ls, m) = k
    BY <1>7
  <2>2. n = m
    BY <1>6, <1>10, <2>1
  <2>3. QED
    BY <2>1, <2>2
<1>11. SparseLayers(ls, first, last, conns, L)
  BY <1>4, <1>5, <1>8, <1>9, <1>10 DEF SparseLayers
<1>12. QED
  BY <1>11 DEF L

(* A layer none of whose connections change stays as it is.                *)
SameIn(ls, first, last, conns, other, l) ==
  \A n \in ls[l].first .. ls[l].last - 2 : \A c \in Places(first, last, n) :
    other[c] = conns[c]

LEMMA LayerKept ==
  ASSUME NEW ls, NEW first, NEW last, NEW conns, NEW L,
         SparseLayers(ls, first, last, conns, L), NEW l \in 2 .. L, NEW other,
         SameIn(ls, first, last, conns, other, l)
  PROVE  /\ Untouched(ls, first, last, conns, l) => Untouched(ls, first, last, other, l)
         /\ Wired(ls, first, last, conns, l) => Wired(ls, first, last, other, l)
<1>1. \A n \in ls[l].first .. ls[l].last - 2 :
        first[n] \in Places(first, last, n)
        /\ \A c \in Places(first, last, n) : other[c] = conns[c]
  <2> TAKE n \in ls[l].first .. ls[l].last - 2
  <2>1. first[n] \in Nat /\ last[n] \in Nat /\ first[n] + 2 <= last[n]
    BY DEF SparseLayers
  <2>2. QED
    BY <2>1 DEF Places, SameIn
<1>2. Untouched(ls, first, last, conns, l) => Untouched(ls, first, last, other, l)
  BY <1>1 DEF Untouched
<1>3. PartlyWired(ls, first, last, conns, l) => PartlyWired(ls, first, last, other, l)
  <2> SUFFICES ASSUME PartlyWired(ls, first, last, conns, l),
                      NEW n \in ls[l].first .. ls[l].last - 2
               PROVE
    /\ other[first[n]] = ls[l - 1].last - 1
    /\ \A c \in Places(first, last, n) :
         other[c] = NULL \/ other[c] \in ls[l - 1].first .. ls[l - 1].last - 1
    /\ \A c, d \in Places(first, last, n) : c < d /\ other[c] = NULL => other[d] = NULL
    /\ \A c, d \in Places(first, last, n) : other[c] = other[d] /\ other[c] # NULL => c = d
    BY DEF PartlyWired
  <2> DEFINE P == Places(first, last, n)
             S == ls[l - 1].first .. ls[l - 1].last - 1
  <2>1. /\ conns[first[n]] = ls[l - 1].last - 1
        /\ \A c \in P : conns[c] = NULL \/ conns[c] \in S
        /\ \A c, d \in P : c < d /\ conns[c] = NULL => conns[d] = NULL
        /\ \A c, d \in P : conns[c] = conns[d] /\ conns[c] # NULL => c = d
    BY DEF PartlyWired
  <2>2. first[n] \in P /\ \A c \in P : other[c] = conns[c]
    BY <1>1
  <2> HIDE DEF P, S
  <2>3. /\ other[first[n]] = ls[l - 1].last - 1
        /\ \A c \in P : other[c] = NULL \/ other[c] \in S
        /\ \A c, d \in P : c < d /\ other[c] = NULL => other[d] = NULL
        /\ \A c, d \in P : other[c] = other[d] /\ other[c] # NULL => c = d
    BY <2>1, <2>2
  <2>4. QED
    BY <2>3 DEF P, S
<1>4. Filled(ls, first, last, conns, l) => Filled(ls, first, last, other, l)
  BY <1>1 DEF Filled
<1>5. \A m : Uses(ls, first, last, conns, l, m) => Uses(ls, first, last, other, l, m)
  BY <1>1 DEF Uses
<1>6. QED
  BY <1>2, <1>3, <1>4, <1>5 DEF Wired

(* The bias is connected to each neuron of a layer.                        *)
LEMMA BiasWired ==
  ASSUME NEW ls, NEW first, NEW last, NEW conns, NEW L,
         SparseLayers(ls, first, last, conns, L), NEW l \in 2 .. L,
         Untouched(ls, first, last, conns, l), NEW other,
         other = [c \in DOMAIN conns |->
                    IF \E n \in ls[l].first .. ls[l].last - 2 : c = first[n]
                    THEN ls[l - 1].last - 1 ELSE conns[c]]
  PROVE  /\ PartlyWired(ls, first, last, other, l)
         /\ InputsWired(ls, first, last, other, l, ls[l - 1].first)
         /\ \A k \in 2 .. L : k # l => SameIn(ls, first, last, conns, other, k)
<1> DEFINE bias == ls[l - 1].last - 1
           lo == ls[l - 1].first
<1>1. lo \in Nat /\ bias \in Nat /\ lo <= bias - 1 /\ bias - 1 = ls[l - 1].last - 2
  <2>1. l - 1 \in 1 .. L
    BY DEF SparseLayers
  <2>2. ls[l - 1].first \in Nat /\ ls[l - 1].last \in Nat /\ ls[l - 1].first + 2 <= ls[l - 1].last
    BY <2>1 DEF SparseLayers
  <2>3. QED
    BY <2>2
<1>2. \A k \in 2 .. L : \A n \in ls[k].first .. ls[k].last - 2 :
        /\ first[n] \in Nat /\ last[n] \in Nat /\ first[n] + 2 <= last[n]
        /\ first[n] \in Places(first, last, n)
        /\ Places(first, last, n) \subseteq DOMAIN conns
  <2> TAKE k \in 2 .. L
  <2> TAKE n \in ls[k].first .. ls[k].last - 2
  <2>1. /\ first[n] \in Nat /\ last[n] \in Nat /\ first[n] + 2 <= last[n]
        /\ Places(first, last, n) \subseteq DOMAIN conns
    BY DEF SparseLayers
  <2>2. QED
    BY <2>1 DEF Places
<1>3. ASSUME NEW k \in 2 .. L, NEW n \in ls[k].first .. ls[k].last - 2,
             NEW c \in Places(first, last, n)
      PROVE  /\ k # l => other[c] = conns[c]
             /\ k = l => other[c] = IF c = first[n] THEN bias ELSE NULL
  <2>1. ASSUME NEW m \in ls[l].first .. ls[l].last - 2, c = first[m]
        PROVE  n = m /\ k = l
    <3>1. c \in Places(first, last, m)
      BY <1>2, <2>1
    <3>2. QED
      BY <3>1 DEF SparseLayers
  <2>2. c \in DOMAIN conns
    BY <1>2
  <2>3. k = l => conns[c] = NULL
    BY DEF Untouched
  <2>4. k = l => ((\E m \in ls[l].first .. ls[l].last - 2 : c = first[m]) <=> c = first[n])
    BY <2>1
  <2>5. k # l => ~\E m \in ls[l].first .. ls[l].last - 2 : c = first[m]
    BY <2>1
  <2>6. other[c] = IF \E m \in ls[l].first .. ls[l].last - 2 : c = first[m]
                   THEN bias ELSE conns[c]
    BY <2>2
  <2> HIDE DEF bias
  <2>7. QED
    BY <2>3, <2>4, <2>5, <2>6
<1>4. \A k \in 2 .. L : k # l => SameIn(ls, first, last, conns, other, k)
  BY <1>3 DEF SameIn
<1>5. ASSUME NEW n \in ls[l].first .. ls[l].last - 2
      PROVE
    /\ other[first[n]] = ls[l - 1].last - 1
    /\ \A c \in Places(first, last, n) :
         other[c] = NULL \/ other[c] \in ls[l - 1].first .. ls[l - 1].last - 1
    /\ \A c, d \in Places(first, last, n) : c < d /\ other[c] = NULL => other[d] = NULL
    /\ \A c, d \in Places(first, last, n) : other[c] = other[d] /\ other[c] # NULL => c = d
  <2> DEFINE P == Places(first, last, n)
  <2>1. \A c \in P : other[c] = IF c = first[n] THEN bias ELSE NULL
    BY <1>3, SMTT(40)
  <2>2. first[n] \in P /\ \A c \in P : c \in Nat /\ first[n] <= c
    BY <1>2 DEF Places
  <2>3. bias # NULL /\ bias \in lo .. bias
    <3> HIDE DEF bias, lo
    <3>1. QED
      BY <1>1 DEF NULL
  <2>4. lo .. bias = ls[l - 1].first .. ls[l - 1].last - 1
    OBVIOUS
  <2> HIDE DEF P, bias, lo
  <2>5. other[first[n]] = bias
    BY <2>1, <2>2
  <2>6. \A c \in P : other[c] = NULL \/ other[c] \in lo .. bias
    BY <2>1, <2>3
  <2>7. \A c, d \in P : c < d /\ other[c] = NULL => other[d] = NULL
    BY <1>2, <2>1, <2>2
  <2>8. \A c, d \in P : other[c] = other[d] /\ other[c] # NULL => c = d
    BY <2>1, <2>3
  <2>9. QED
    BY <2>4, <2>5, <2>6, <2>7, <2>8 DEF P, bias
<1>6. PartlyWired(ls, first, last, other, l)
  BY <1>5 DEF PartlyWired
<1>7. InputsWired(ls, first, last, other, l, lo)
  <2>1. lo \in lo .. ls[l - 1].last - 2
    <3> HIDE DEF lo, bias
    <3>1. QED
      BY <1>1
  <2>2. \A n \in ls[l].first .. ls[l].last - 2 : \A c \in Places(first, last, n) :
          other[c] \in {NULL, bias}
    <3> HIDE DEF bias
    <3>1. \A n \in ls[l].first .. ls[l].last - 2 : \A c \in Places(first, last, n) :
            other[c] = IF c = first[n] THEN bias ELSE NULL
      BY <1>3
    <3>2. QED
      BY <3>1
  <2>3. \A k \in lo .. lo - 1 : FALSE
    BY <1>1
  <2>4. QED
    BY <2>1, <2>2, <2>3 DEF InputsWired
<1>8. QED
  BY <1>4, <1>6, <1>7

(* The least of a set of numbers.                                          *)
LEMMA LeastElement ==
  ASSUME NEW T \in SUBSET Nat, T # {}
  PROVE  Min(T) \in T /\ \A y \in T : Min(T) <= y
<1>1. \E x \in T : \A y \in T : x <= y
  BY LeastNumber
<1>2. QED
  BY <1>1 DEF Min

(* A neuron's first free place is given to a source that is new to it.     *)
FirstFreePlace(first, last, conns, n, i) ==
  /\ i \in Places(first, last, n) /\ conns[i] = NULL
  /\ \A c \in Places(first, last, n) : conns[c] = NULL => i <= c

FillsPlace(conns, other, i, m) == other = [conns EXCEPT ![i] = m]

LEMMA PlaceTaken ==
  ASSUME NEW ls, NEW first, NEW last, NEW conns, NEW L,
         SparseLayers(ls, first, last, conns, L), NEW l \in 2 .. L,
         PartlyWired(ls, first, last, conns, l),
         NEW n \in ls[l].first .. ls[l].last - 2,
         NEW i, FirstFreePlace(first, last, conns, n, i),
         NEW m \in ls[l - 1].first .. ls[l - 1].last - 1,
         \A c \in Places(first, last, n) : conns[c] # m,
         NEW other, FillsPlace(conns, other, i, m)
  PROVE  /\ PartlyWired(ls, first, last, other, l)
         /\ \A k \in 2 .. L : k # l => SameIn(ls, first, last, conns, other, k)
         /\ \A x \in Nat : Uses(ls, first, last, conns, l, x) => Uses(ls, first, last, other, l, x)
         /\ Uses(ls, first, last, other, l, m)
<1>1. m \in Nat /\ m # NULL
  <2>1. l - 1 \in 1 .. L
    BY DEF SparseLayers
  <2>2. ls[l - 1].first \in Nat /\ ls[l - 1].last \in Nat
    BY <2>1 DEF SparseLayers
  <2>3. QED
    BY <2>2 DEF NULL
<1>2. /\ i \in Places(first, last, n) /\ conns[i] = NULL
      /\ \A c \in Places(first, last, n) : conns[c] = NULL => i <= c
      /\ i \in DOMAIN conns /\ other[i] = m
      /\ other = [conns EXCEPT ![i] = m]
  BY DEF SparseLayers, FirstFreePlace, FillsPlace
<1>3. \A k \in 2 .. L : \A j \in ls[k].first .. ls[k].last - 2 :
        \A c \in Places(first, last, j) :
          /\ other[c] = IF c = i THEN m ELSE conns[c]
          /\ c = i => j = n /\ k = l
  <2> TAKE k \in 2 .. L
  <2> TAKE j \in ls[k].first .. ls[k].last - 2
  <2> TAKE c \in Places(first, last, j)
  <2>1. c \in DOMAIN conns
    BY DEF SparseLayers
  <2>2. c = i => n = j /\ l = k
    BY <1>2 DEF SparseLayers
  <2>3. QED
    BY <1>2, <2>1, <2>2
<1>4. \A k \in 2 .. L : k # l => SameIn(ls, first, last, conns, other, k)
  BY <1>3 DEF SameIn
<1>5. ASSUME NEW j \in ls[l].first .. ls[l].last - 2
      PROVE
    /\ other[first[j]] = ls[l - 1].last - 1
    /\ \A c \in Places(first, last, j) :
         other[c] = NULL \/ other[c] \in ls[l - 1].first .. ls[l - 1].last - 1
    /\ \A c, d \in Places(first, last, j) : c < d /\ other[c] = NULL => other[d] = NULL
    /\ \A c, d \in Places(first, last, j) : other[c] = other[d] /\ other[c] # NULL => c = d
  <2> DEFINE P == Places(first, last, j)
             S == ls[l - 1].first .. ls[l - 1].last - 1
             bias == ls[l - 1].last - 1
  <2>1. /\ conns[first[j]] = bias
        /\ \A c \in P : conns[c] = NULL \/ conns[c] \in S
        /\ \A c, d \in P : c < d /\ conns[c] = NULL => conns[d] = NULL
        /\ \A c, d \in P : conns[c] = conns[d] /\ conns[c] # NULL => c = d
    BY DEF PartlyWired
  <2>2. first[j] \in P /\ \A c \in P : c \in Nat
    <3>1. first[j] \in Nat /\ last[j] \in Nat /\ first[j] + 2 <= last[j]
      BY DEF SparseLayers
    <3>2. QED
      BY <3>1 DEF Places
  <2>3. bias # NULL
    <3>1. l - 1 \in 1 .. L
      BY DEF SparseLayers
    <3>2. ls[l - 1].first \in Nat /\ ls[l - 1].last \in Nat /\ ls[l - 1].first + 2 <= ls[l - 1].last
      BY <3>1 DEF SparseLayers
    <3>3. QED
      BY <3>2 DEF NULL
  <2>4. /\ \A c \in P : other[c] = IF c = i THEN m ELSE conns[c]
        /\ i \in P => n = j
    BY <1>3
  <2>5. m \in S
    OBVIOUS
  <2>6. i \in P => /\ \A c \in P : conns[c] = NULL => i <= c
                   /\ \A c \in P : conns[c] # m
    BY <1>2, <2>4
  <2>7. i \in Nat
    <3>1. first[n] \in Nat /\ last[n] \in Nat
      BY DEF SparseLayers
    <3>2. QED
      BY <1>2, <3>1 DEF Places
  <2> HIDE DEF P, S, bias
  <2>8. other[first[j]] = bias
    BY <1>2, <2>1, <2>2, <2>3, <2>4
  <2>9. \A c \in P : other[c] = NULL \/ other[c] \in S
    BY <2>1, <2>4, <2>5
  <2>10. ASSUME NEW c \in P, NEW d \in P, c < d, other[c] = NULL
         PROVE  other[d] = NULL
    <3>1. c # i /\ conns[c] = NULL
      BY <1>1, <2>4, <2>10
    <3>2. conns[d] = NULL
      BY <2>1, <2>10, <3>1
    <3>3. d # i
      <4>1. d = i => i <= c
        BY <2>6, <3>1
      <4>2. QED
        BY <2>2, <2>7, <2>10, <4>1
    <3>4. QED
      BY <2>4, <3>2, <3>3
  <2>11. ASSUME NEW c \in P, NEW d \in P, other[c] = other[d], other[c] # NULL
         PROVE  c = d
    BY <2>1, <2>4, <2>6, <2>11
  <2>12. QED
    BY <2>8, <2>9, <2>10, <2>11 DEF P, S, bias
<1>6. PartlyWired(ls, first, last, other, l)
  BY <1>5 DEF PartlyWired
<1>7. ASSUME NEW x \in Nat, Uses(ls, first, last, conns, l, x)
      PROVE  Uses(ls, first, last, other, l, x)
  <2>1. PICK j \in ls[l].first .. ls[l].last - 2 :
          \E c \in Places(first, last, j) : conns[c] = x
    BY <1>7 DEF Uses
  <2>2. PICK c \in Places(first, last, j) : conns[c] = x
    BY <2>1
  <2>3. c # i
    BY <1>2, <2>2 DEF NULL
  <2>4. other[c] = x
    BY <1>3, <2>2, <2>3
  <2>5. QED
    BY <2>4 DEF Uses
<1>8. Uses(ls, first, last, other, l, m)
  BY <1>2 DEF Uses
<1>9. QED
  BY <1>4, <1>6, <1>7, <1>8

(* A layer whose inputs are all used is done when no place is free; then   *)
(* the next one is begun, or the network is done.                          *)
LEMMA LayerDone ==
  ASSUME NEW ls, NEW first, NEW last, NEW conns, NEW L,
         SparseLayers(ls, first, last, conns, L), NEW l \in 2 .. L,
         \A k \in 2 .. L : k < l => Wired(ls, first, last, conns, k),
         \A k \in l + 1 .. L : Untouched(ls, first, last, conns, k),
         PartlyWired(ls, first, last, conns, l),
         \A k \in ls[l - 1].first .. ls[l - 1].last - 1 : Uses(ls, first, last, conns, l, k),
         NEW at, NEW next, NEW m,
         IF ~Filled(ls, first, last, conns, l) THEN at = "fill" /\ next = l
         ELSE IF l = L THEN at = "done" /\ next = l ELSE at = "bias" /\ next = l + 1
  PROVE  WiringOf(ls, first, last, conns, at, L, next, m)
<1>1. L \in Nat /\ L >= 2
  BY DEF SparseLayers
<1>2. CASE ~Filled(ls, first, last, conns, l)
  BY <1>2 DEF WiringOf
<1>3. CASE Filled(ls, first, last, conns, l)
  <2>1. Wired(ls, first, last, conns, l)
    BY <1>3 DEF Wired
  <2>2. CASE l = L
    <3>1. at = "done" /\ next = l
      BY <1>3, <2>2
    <3>2. \A k \in 2 .. L : Wired(ls, first, last, conns, k)
      <4>1. \A k \in 2 .. L : k < l \/ k = l
        BY <1>1, <2>2
      <4>2. QED
        BY <2>1, <4>1
    <3>3. QED
      BY <3>1, <3>2 DEF WiringOf
  <2>3. CASE l # L
    <3>1. at = "bias" /\ next = l + 1 /\ l + 1 \in l + 1 .. L /\ l + 1 \in 2 .. L
      BY <1>1, <1>3, <2>3
    <3>2. \A k \in 2 .. L : k < l + 1 => Wired(ls, first, last, conns, k)
      <4>1. \A k \in 2 .. L : k < l + 1 => k < l \/ k = l
        BY <1>1
      <4>2. QED
        BY <2>1, <4>1
    <3>3. \A k \in (l + 1) + 1 .. L : Untouched(ls, first, last, conns, k)
      <4>1. \A k \in (l + 1) + 1 .. L : k \in l + 1 .. L
        BY <1>1
      <4>2. QED
        BY <4>1
    <3>4. QED
      BY <3>1, <3>2, <3>3 DEF WiringOf
  <2>4. QED
    BY <2>2, <2>3
<1>4. QED
  BY <1>2, <1>3

(* The bias of the layer before is used.                                   *)
LEMMA BiasUsed ==
  ASSUME NEW ls, NEW first, NEW last, NEW conns, NEW L,
         SparseLayers(ls, first, last, conns, L), NEW l \in 2 .. L,
         PartlyWired(ls, first, last, conns, l)
  PROVE  Uses(ls, first, last, conns, l, ls[l - 1].last - 1)
<1> DEFINE n == ls[l].first
<1>1. n \in ls[l].first .. ls[l].last - 2
  <2>1. l \in 1 .. L
    BY DEF SparseLayers
  <2>2. ls[l].first \in Nat /\ ls[l].last \in Nat /\ ls[l].first + 2 <= ls[l].last
    BY <2>1 DEF SparseLayers
  <2>3. QED
    BY <2>2
<1> HIDE DEF n
<1>2. first[n] \in Nat /\ last[n] \in Nat /\ first[n] + 2 <= last[n]
  BY <1>1 DEF SparseLayers
<1>3. first[n] \in Places(first, last, n)
  BY <1>2 DEF Places
<1>4. conns[first[n]] = ls[l - 1].last - 1
  BY <1>1 DEF PartlyWired
<1>5. QED
  BY <1>1, <1>3, <1>4 DEF Uses

(* The next input neuron is connected; after the last one, each is used.   *)
LEMMA InputTaken ==
  ASSUME NEW ls, NEW first, NEW last, NEW conns, NEW L,
         SparseLayers(ls, first, last, conns, L), NEW l \in 2 .. L,
         PartlyWired(ls, first, last, conns, l), NEW m,
         InputsWired(ls, first, last, conns, l, m),
         NEW n \in ls[l].first .. ls[l].last - 2,
         NEW i, FirstFreePlace(first, last, conns, n, i),
         NEW other, FillsPlace(conns, other, i, m)
  PROVE  /\ PartlyWired(ls, first, last, other, l)
         /\ \A k \in 2 .. L : k # l => SameIn(ls, first, last, conns, other, k)
         /\ m < ls[l - 1].last - 2 => InputsWired(ls, first, last, other, l, m + 1)
         /\ ~(m < ls[l - 1].last - 2) =>
              \A k \in ls[l - 1].first .. ls[l - 1].last - 1 : Uses(ls, first, last, other, l, k)
<1> DEFINE lo == ls[l - 1].first
           bias == ls[l - 1].last - 1
<1>1. lo \in Nat /\ bias \in Nat /\ m \in lo .. bias - 1 /\ m \in Nat /\ m # NULL
      /\ ls[l - 1].last - 2 = bias - 1
  <2>1. l - 1 \in 1 .. L
    BY DEF SparseLayers
  <2>2. ls[l - 1].first \in Nat /\ ls[l - 1].last \in Nat /\ ls[l - 1].first + 2 <= ls[l - 1].last
    BY <2>1 DEF SparseLayers
  <2>3. m \in ls[l - 1].first .. ls[l - 1].last - 2
    BY DEF InputsWired
  <2>4. QED
    BY <2>2, <2>3 DEF NULL
<1>2. /\ \A j \in ls[l].first .. ls[l].last - 2 : \A c \in Places(first, last, j) :
           conns[c] \in {NULL, bias} \/ conns[c] < m
      /\ \A k \in lo .. m - 1 : Uses(ls, first, last, conns, l, k)
  BY DEF InputsWired
<1>3. m \in ls[l - 1].first .. ls[l - 1].last - 1
  <2>1. ls[l - 1].last - 1 = bias /\ ls[l - 1].first = lo
    OBVIOUS
  <2> HIDE DEF lo, bias
  <2>2. QED
    BY <1>1, <2>1
<1>4. \A c \in Places(first, last, n) : conns[c] # m
  <2> HIDE DEF lo, bias
  <2>1. m # bias /\ ~(m < m)
    BY <1>1
  <2>2. QED
    BY <1>1, <1>2, <2>1
<1>5. /\ PartlyWired(ls, first, last, other, l)
      /\ \A k \in 2 .. L : k # l => SameIn(ls, first, last, conns, other, k)
      /\ \A x \in Nat : Uses(ls, first, last, conns, l, x) => Uses(ls, first, last, other, l, x)
      /\ Uses(ls, first, last, other, l, m)
  <2> HIDE DEF lo, bias
  <2>1. QED
    BY <1>3, <1>4, PlaceTaken
<1>6. Uses(ls, first, last, other, l, bias)
  <2>1. DOMAIN other = DOMAIN conns
    BY DEF FillsPlace
  <2>2. SparseLayers(ls, first, last, other, L)
    BY <2>1 DEF SparseLayers
  <2>3. QED
    BY <1>5, <2>2, BiasUsed
<1> HIDE DEF lo, bias
<1>7. \A k \in lo .. m : Uses(ls, first, last, other, l, k)
  <2> TAKE k \in lo .. m
  <2>1. k \in Nat /\ (k \in lo .. m - 1 \/ k = m)
    BY <1>1
  <2>2. QED
    BY <1>2, <1>5, <2>1
<1>8. ASSUME m < bias - 1 PROVE InputsWired(ls, first, last, other, l, m + 1)
  <2>1. \A j \in ls[l].first .. ls[l].last - 2 : \A c \in Places(first, last, j) :
          other[c] \in {NULL, bias} \/ other[c] < m + 1
    <3> TAKE j \in ls[l].first .. ls[l].last - 2
    <3> TAKE c \in Places(first, last, j)
    <3>1. c \in DOMAIN conns
      BY DEF SparseLayers
    <3>2. other[c] = IF c = i THEN m ELSE conns[c]
      BY <3>1 DEF FillsPlace
    <3>3. conns[c] \in {NULL, bias} \/ (conns[c] < m /\ conns[c] # NULL)
      BY <1>2
    <3>4. conns[c] = NULL \/ conns[c] \in Nat
      <4>1. conns[c] = NULL \/ conns[c] \in ls[l - 1].first .. ls[l - 1].last - 1
        BY DEF PartlyWired
      <4>2. ls[l - 1].last - 1 = bias /\ ls[l - 1].first = lo
        BY DEF bias, lo
      <4>3. QED
        BY <1>1, <4>1, <4>2
    <3>5. QED
      BY <1>1, <3>2, <3>3, <3>4
  <2>2. m + 1 \in lo .. bias - 1 /\ (m + 1) - 1 = m
    BY <1>1, <1>8
  <2>3. \A k \in lo .. (m + 1) - 1 : Uses(ls, first, last, other, l, k)
    BY <1>7, <2>2
  <2>4. m + 1 \in ls[l - 1].first .. ls[l - 1].last - 2
    BY <1>1, <2>2 DEF lo
  <2>5. QED
    BY <2>1, <2>3, <2>4 DEF InputsWired, bias, lo
<1>9. ASSUME ~(m < bias - 1)
      PROVE  \A k \in lo .. bias : Uses(ls, first, last, other, l, k)
  <2> TAKE k \in lo .. bias
  <2>1. k \in lo .. m \/ k = bias
    BY <1>1, <1>9
  <2>2. QED
    BY <1>6, <1>7, <2>1
<1>10. ls[l - 1].last - 2 = bias - 1 /\ ls[l - 1].last - 1 = bias /\ ls[l - 1].first = lo
  BY <1>1 DEF bias, lo
<1>11. QED
  BY <1>5, <1>8, <1>9, <1>10

-----------------------------------------------------------------------------
(* The actions                                                             *)

(* What a step of the three passes finds.                                  *)
LEMMA NetworkFacts ==
  ASSUME DividedInv, WiringInv, pc \in {"bias", "inputs", "fill"}
  PROVE  /\ network_type = "LAYER" /\ connection_rate < Whole
         /\ SparseLayers(layers, first_con, last_con, connections, Len(asked))
         /\ WiringOf(layers, first_con, last_con, connections, pc, Len(asked),
                     layer_it, neuron_it)
         /\ layer_it \in 2 .. Len(asked) /\ num_layers = Len(asked)
<1>1. pc # "start" /\ pc # "done"
  OBVIOUS
<1>2. /\ network_type = "LAYER" /\ connection_rate < Whole
      /\ WiringOf(layers, first_con, last_con, connections, pc, Len(asked),
                  layer_it, neuron_it)
  BY <1>1 DEF WiringInv
<1>3. Divided(layers, first_con, last_con, connections, "LAYER", connection_rate, asked)
  BY <1>1, <1>2 DEF DividedInv
<1>4. SparseLayers(layers, first_con, last_con, connections, Len(asked))
  BY <1>2, <1>3, SparseFacts
<1>5. Layered(layers, Len(asked), layers[Len(asked)].last)
  BY <1>3, LayeredAsAsked DEF Divided
<1>6. num_layers = Len(asked)
  BY <1>5 DEF Layered, num_layers
<1>7. QED
  BY <1>2, <1>4, <1>6 DEF WiringOf

LEMMA WiringGoesOn ==
  ASSUME network_type = "LAYER", connection_rate < Whole, UNCHANGED shape,
         WiringOf(layers, first_con, last_con, connections', pc', Len(asked),
                  layer_it', neuron_it')
  PROVE  WiringInv'
  BY DEF WiringInv, shape

LEMMA BiasStep ==
  ASSUME DividedInv, WiringInv, ConnectBias
  PROVE  WiringInv'
<1> DEFINE L == Len(asked)
           l == layer_it
<1>1. /\ pc = "bias" /\ pc' = "inputs" /\ layer_it' = l /\ UNCHANGED shape
      /\ neuron_it' = layers[l - 1].first
      /\ connections' = [c \in DOMAIN connections |->
           IF \E n \in layers[l].first .. layers[l].last - 2 : c = first_con[n]
           THEN layers[l - 1].last - 1 ELSE connections[c]]
  BY DEF ConnectBias, bias_neuron, LastButBias
<1>2. /\ network_type = "LAYER" /\ connection_rate < Whole
      /\ SparseLayers(layers, first_con, last_con, connections, L)
      /\ WiringOf(layers, first_con, last_con, connections, "bias", L, l, neuron_it)
      /\ l \in 2 .. L
  BY <1>1, NetworkFacts
<1> HIDE DEF L, l
<1>3. /\ \A k \in 2 .. L : k < l => Wired(layers, first_con, last_con, connections, k)
      /\ \A k \in l + 1 .. L : Untouched(layers, first_con, last_con, connections, k)
      /\ Untouched(layers, first_con, last_con, connections, l)
  BY <1>2 DEF WiringOf
<1> DEFINE other == connections'
<1>4. /\ PartlyWired(layers, first_con, last_con, other, l)
      /\ InputsWired(layers, first_con, last_con, other, l, layers[l - 1].first)
      /\ \A k \in 2 .. L : k # l => SameIn(layers, first_con, last_con, connections, other, k)
  BY <1>1, <1>2, <1>3, BiasWired
<1> HIDE DEF other
<1>5. /\ \A k \in 2 .. L : k < l => Wired(layers, first_con, last_con, other, k)
      /\ \A k \in l + 1 .. L : Untouched(layers, first_con, last_con, other, k)
  <2>1. L \in Nat /\ l \in Nat
    BY <1>2 DEF SparseLayers
  <2>2. \A k \in 2 .. L : k < l => k # l
    BY <2>1
  <2>3. \A k \in l + 1 .. L : k # l /\ k \in 2 .. L
    BY <1>2, <2>1
  <2>4. \A k \in 2 .. L : k # l =>
          /\ Untouched(layers, first_con, last_con, connections, k)
               => Untouched(layers, first_con, last_con, other, k)
          /\ Wired(layers, first_con, last_con, connections, k)
               => Wired(layers, first_con, last_con, other, k)
    BY <1>2, <1>4, LayerKept
  <2>5. QED
    BY <1>3, <2>2, <2>3, <2>4
<1>6. WiringOf(layers, first_con, last_con, other, "inputs", L, l, layers[l - 1].first)
  BY <1>2, <1>4, <1>5 DEF WiringOf
<1>7. QED
  BY <1>1, <1>2, <1>6, WiringGoesOn DEF other, L

(* The test at the end of a pass sees what the invariant speaks of.        *)
LEMMA FilledLayer ==
  ASSUME NEW conns, NEW L, NEW some, SparseLayers(layers, first_con, last_con, some, L),
         layer_it \in 2 .. L
  PROVE  LayerConnected(conns) <=> Filled(layers, first_con, last_con, conns, layer_it)
<1> DEFINE l == layer_it
<1>1. l \in 1 .. L /\ L \in Nat
  BY DEF SparseLayers
<1>2. layers[l].first \in Nat /\ layers[l].last \in Nat /\ layers[l].first + 2 <= layers[l].last
  BY <1>1 DEF SparseLayers
<1>3. Slots(layers[l].last - 1) = {}
  BY DEF SparseLayers, Places, Slots
<1>4. \A n : n \in NeuronsIn(l) <=> \/ n \in layers[l].first .. layers[l].last - 2
                                    \/ n = layers[l].last - 1
  <2> DEFINE a == layers[l].first
             b == layers[l].last
  <2>1. \A n : n \in a .. b - 1 <=> n \in a .. b - 2 \/ n = b - 1
    <3> HIDE DEF a, b
    <3>1. a \in Nat /\ b \in Nat /\ a + 2 <= b
      BY <1>2 DEF a, b
    <3>2. QED
      BY <3>1
  <2>2. QED
    BY <2>1 DEF NeuronsIn
<1>5. \A n : Places(first_con, last_con, n) = Slots(n)
  BY DEF Places, Slots
<1> HIDE DEF l
<1>6. (\A n \in NeuronsIn(l) : \A c \in Slots(n) : conns[c] # NULL)
        <=> Filled(layers, first_con, last_con, conns, l)
  BY <1>3, <1>4, <1>5 DEF Filled
<1>7. QED
  BY <1>6 DEF LayerConnected, l

(* A step that fills one place of the layer at hand.                       *)
LEMMA OtherLayersKept ==
  ASSUME NEW ls, NEW first, NEW last, NEW conns, NEW L,
         SparseLayers(ls, first, last, conns, L), NEW l \in 2 .. L,
         \A k \in 2 .. L : k < l => Wired(ls, first, last, conns, k),
         \A k \in l + 1 .. L : Untouched(ls, first, last, conns, k), NEW other,
         \A k \in 2 .. L : k # l => SameIn(ls, first, last, conns, other, k)
  PROVE  /\ \A k \in 2 .. L : k < l => Wired(ls, first, last, other, k)
         /\ \A k \in l + 1 .. L : Untouched(ls, first, last, other, k)
<1>1. L \in Nat /\ l \in Nat
  BY DEF SparseLayers
<1>2. /\ \A k \in 2 .. L : k < l => k # l
      /\ \A k \in l + 1 .. L : k # l /\ k \in 2 .. L
  BY <1>1
<1>3. \A k \in 2 .. L : k # l =>
        /\ Untouched(ls, first, last, conns, k) => Untouched(ls, first, last, other, k)
        /\ Wired(ls, first, last, conns, k) => Wired(ls, first, last, other, k)
  BY LayerKept
<1>4. QED
  BY <1>2, <1>3

LEMMA AfterFilling ==
  ASSUME NEW L, SparseLayers(layers, first_con, last_con, connections, L),
         network_type = "LAYER", connection_rate < Whole, UNCHANGED shape,
         L = Len(asked), L = num_layers, layer_it \in 2 .. L,
         DOMAIN connections' = DOMAIN connections,
         \A k \in 2 .. L : k < layer_it => Wired(layers, first_con, last_con, connections', k),
         \A k \in layer_it + 1 .. L : Untouched(layers, first_con, last_con, connections', k),
         PartlyWired(layers, first_con, last_con, connections', layer_it),
         \A k \in layers[layer_it - 1].first .. layers[layer_it - 1].last - 1 :
           Uses(layers, first_con, last_con, connections', layer_it, k),
         AfterConnecting(connections')
  PROVE  WiringInv'
<1>1. SparseLayers(layers, first_con, last_con, connections', L)
  BY DEF SparseLayers
<1>2. LayerConnected(connections')
        <=> Filled(layers, first_con, last_con, connections', layer_it)
  BY FilledLayer
<1>3. IF ~Filled(layers, first_con, last_con, connections', layer_it)
      THEN pc' = "fill" /\ layer_it' = layer_it
      ELSE IF layer_it = L THEN pc' = "done" /\ layer_it' = layer_it
           ELSE pc' = "bias" /\ layer_it' = layer_it + 1
  BY <1>2 DEF AfterConnecting
<1>4. WiringOf(layers, first_con, last_con, connections', pc', L, layer_it', neuron_it')
  BY <1>1, <1>3, LayerDone
<1>5. QED
  BY <1>4, WiringGoesOn

(* The place a neuron fills is its first free one.                         *)
LEMMA FirstFree ==
  ASSUME NEW L, SparseLayers(layers, first_con, last_con, connections, L),
         NEW l \in 2 .. L, NEW n \in layers[l].first .. layers[l].last - 2,
         \E c \in Slots(n) : connections[c] = NULL
  PROVE  LET free == {c \in Slots(n) : connections[c] = NULL}
         IN /\ Min(free) \in free
            /\ Min(free) \in DOMAIN connections
            /\ FirstFreePlace(first_con, last_con, connections, n, Min(free))
<1> DEFINE free == {c \in Slots(n) : connections[c] = NULL}
<1>1. first_con[n] \in Nat /\ last_con[n] \in Nat
      /\ Places(first_con, last_con, n) \subseteq DOMAIN connections
  BY DEF SparseLayers
<1>2. Slots(n) = Places(first_con, last_con, n)
  BY DEF Slots, Places
<1>3. Slots(n) \subseteq Nat
  BY <1>1 DEF Slots
<1>4. free \in SUBSET Nat /\ free # {}
  BY <1>3
<1>5. Min(free) \in free /\ \A y \in free : Min(free) <= y
  <2> HIDE DEF free
  <2>1. QED
    BY <1>4, LeastElement
<1>6. QED
  BY <1>1, <1>2, <1>5 DEF FirstFreePlace

LEMMA InputStep ==
  ASSUME DividedInv, WiringInv, ConnectInput
  PROVE  WiringInv'
<1> DEFINE L == Len(asked)
           l == layer_it
           m == neuron_it
           Free(n) == {c \in Slots(n) : connections[c] = NULL}
<1>1. PICK n \in layers[l].first .. layers[l].last - 2 :
        /\ HasRoom(n)
        /\ connections' = [c \in DOMAIN connections |->
             IF c \in Free(n) /\ c = Min(Free(n)) THEN m ELSE connections[c]]
        /\ IF m < bias_neuron(l) - 1 THEN UNCHANGED <<pc, layer_it>>
           ELSE AfterConnecting(connections')
  BY DEF ConnectInput, LastButBias
<1>2. pc = "inputs" /\ neuron_it' = m + 1 /\ UNCHANGED shape
  BY DEF ConnectInput
<1>3. /\ network_type = "LAYER" /\ connection_rate < Whole
      /\ SparseLayers(layers, first_con, last_con, connections, L)
      /\ WiringOf(layers, first_con, last_con, connections, "inputs", L, l, m)
      /\ l \in 2 .. L /\ L = num_layers
  BY <1>2, NetworkFacts
<1>4. L = Len(asked) /\ l = layer_it /\ m = neuron_it
  OBVIOUS
<1> HIDE DEF L, l, m
<1>5. /\ \A k \in 2 .. L : k < l => Wired(layers, first_con, last_con, connections, k)
      /\ \A k \in l + 1 .. L : Untouched(layers, first_con, last_con, connections, k)
      /\ PartlyWired(layers, first_con, last_con, connections, l)
      /\ InputsWired(layers, first_con, last_con, connections, l, m)
  BY <1>3 DEF WiringOf
<1> DEFINE i == Min(Free(n))
<1>6. /\ i \in Free(n) /\ i \in DOMAIN connections
      /\ FirstFreePlace(first_con, last_con, connections, n, i)
  <2>1. \E c \in Slots(n) : connections[c] = NULL
    <3>1. first_con[n] \in Nat /\ last_con[n] \in Nat /\ first_con[n] + 2 <= last_con[n]
      BY <1>3 DEF SparseLayers
    <3>2. last_con[n] - 1 \in Slots(n)
      BY <3>1 DEF Slots
    <3>3. QED
      BY <1>1, <3>2 DEF HasRoom
  <2>2. QED
    BY <1>3, <2>1, FirstFree
<1> HIDE DEF i
<1>7. connections' = [connections EXCEPT ![i] = m]
  <2>1. connections' = [c \in DOMAIN connections |->
                          IF c \in Free(n) /\ c = i THEN m ELSE connections[c]]
    BY <1>1 DEF i
  <2> HIDE DEF Free
  <2>2. QED
    BY <1>6, <2>1
<1> DEFINE other == connections'
<1>8. /\ PartlyWired(layers, first_con, last_con, other, l)
      /\ \A k \in 2 .. L : k # l => SameIn(layers, first_con, last_con, connections, other, k)
      /\ m < layers[l - 1].last - 2 => InputsWired(layers, first_con, last_con, other, l, m + 1)
      /\ ~(m < layers[l - 1].last - 2) =>
           \A k \in layers[l - 1].first .. layers[l - 1].last - 1 :
             Uses(layers, first_con, last_con, other, l, k)
  <2>1. FillsPlace(connections, other, i, m)
    BY <1>7 DEF FillsPlace
  <2> HIDE DEF other
  <2>2. QED
    BY <1>3, <1>5, <1>6, <2>1, InputTaken
<1> HIDE DEF other, Free
<1>9. /\ \A k \in 2 .. L : k < l => Wired(layers, first_con, last_con, other, k)
      /\ \A k \in l + 1 .. L : Untouched(layers, first_con, last_con, other, k)
  BY <1>3, <1>5, <1>8, OtherLayersKept
<1>10. bias_neuron(l) - 1 = layers[l - 1].last - 2
  <2>1. layers[l - 1].last \in Nat
    <3>1. l - 1 \in 1 .. L
      BY <1>3 DEF SparseLayers
    <3>2. QED
      BY <1>3, <3>1 DEF SparseLayers
  <2>2. QED
    BY <2>1 DEF bias_neuron
<1>11. CASE m < layers[l - 1].last - 2
  <2>1. pc' = "inputs" /\ layer_it' = l
    BY <1>1, <1>2, <1>4, <1>10, <1>11
  <2>2. WiringOf(layers, first_con, last_con, other, "inputs", L, l, m + 1)
    BY <1>3, <1>8, <1>9, <1>11 DEF WiringOf
  <2>3. QED
    BY <1>2, <1>3, <1>4, <2>1, <2>2, WiringGoesOn DEF other
<1>12. CASE ~(m < layers[l - 1].last - 2)
  <2>1. AfterConnecting(connections')
    BY <1>1, <1>10, <1>12
  <2>2. DOMAIN connections' = DOMAIN connections
    BY <1>7
  <2>3. /\ \A k \in 2 .. L : k < layer_it => Wired(layers, first_con, last_con, connections', k)
        /\ \A k \in layer_it + 1 .. L : Untouched(layers, first_con, last_con, connections', k)
        /\ PartlyWired(layers, first_con, last_con, connections', layer_it)
        /\ \A k \in layers[layer_it - 1].first .. layers[layer_it - 1].last - 1 :
             Uses(layers, first_con, last_con, connections', layer_it, k)
        /\ layer_it \in 2 .. L
    BY <1>3, <1>4, <1>8, <1>9, <1>12 DEF other
  <2>4. QED
    BY <1>2, <1>3, <1>4, <2>1, <2>2, <2>3, AfterFilling
<1>13. QED
  BY <1>11, <1>12

LEMMA RestStep ==
  ASSUME DividedInv, WiringInv, ConnectRest
  PROVE  WiringInv'
<1> DEFINE L == Len(asked)
           l == layer_it
           Open == {j \in NeuronsIn(l) : \E c \in Slots(j) : connections[c] = NULL}
           n == Min(Open)
           Free == {c \in Slots(n) : connections[c] = NULL}
           i == Min(Free)
<1>1. PICK m \in layers[l - 1].first .. layers[l - 1].last - 2 :
        /\ IsNew(n, m, i)
        /\ connections' = [connections EXCEPT ![i] = m]
        /\ AfterConnecting(connections')
  BY DEF ConnectRest, LastButBias
<1>2. pc = "fill" /\ UNCHANGED shape
  BY DEF ConnectRest
<1>3. /\ network_type = "LAYER" /\ connection_rate < Whole
      /\ SparseLayers(layers, first_con, last_con, connections, L)
      /\ WiringOf(layers, first_con, last_con, connections, "fill", L, l, neuron_it)
      /\ l \in 2 .. L /\ L = num_layers
  BY <1>2, NetworkFacts
<1>4. L = Len(asked) /\ l = layer_it
  OBVIOUS
<1>5. Open = {j \in NeuronsIn(l) : \E c \in Slots(j) : connections[c] = NULL}
      /\ n = Min(Open) /\ Free = {c \in Slots(n) : connections[c] = NULL} /\ i = Min(Free)
  OBVIOUS
<1> HIDE DEF L, l, Open, n, Free, i
<1>6. /\ \A k \in 2 .. L : k < l => Wired(layers, first_con, last_con, connections, k)
      /\ \A k \in l + 1 .. L : Untouched(layers, first_con, last_con, connections, k)
      /\ PartlyWired(layers, first_con, last_con, connections, l)
      /\ ~Filled(layers, first_con, last_con, connections, l)
      /\ \A k \in layers[l - 1].first .. layers[l - 1].last - 1 :
           Uses(layers, first_con, last_con, connections, l, k)
  BY <1>3 DEF WiringOf
<1>7. /\ l \in 1 .. L /\ l - 1 \in 1 .. L
      /\ layers[l].first \in Nat /\ layers[l].last \in Nat
      /\ layers[l - 1].first \in Nat /\ layers[l - 1].last \in Nat
  <2>1. l \in 1 .. L /\ l - 1 \in 1 .. L
    BY <1>3 DEF SparseLayers
  <2>2. QED
    BY <1>3, <2>1 DEF SparseLayers
<1>8. /\ n \in layers[l].first .. layers[l].last - 2
      /\ \E c \in Slots(n) : connections[c] = NULL
  <2>1. Open \in SUBSET Nat
    <3>1. NeuronsIn(l) \in SUBSET Nat
      BY <1>7 DEF NeuronsIn
    <3>2. QED
      BY <1>5, <3>1
  <2>2. Open # {}
    <3>1. ~LayerConnected(connections)
      BY <1>3, <1>4, <1>6, FilledLayer
    <3>2. QED
      BY <1>4, <1>5, <3>1 DEF LayerConnected
  <2>3. n \in Open
    BY <1>5, <2>1, <2>2, LeastElement
  <2>4. n \in NeuronsIn(l) /\ \E c \in Slots(n) : connections[c] = NULL
    BY <1>5, <2>3
  <2>5. Slots(layers[l].last - 1) = {}
    BY <1>3 DEF SparseLayers, Places, Slots
  <2>6. n \in layers[l].first .. layers[l].last - 1 /\ n # layers[l].last - 1
    BY <2>4, <2>5 DEF NeuronsIn
  <2>7. QED
    BY <1>7, <2>4, <2>6
<1>9. /\ i \in Places(first_con, last_con, n)
      /\ connections[i] = NULL /\ i \in DOMAIN connections
      /\ FirstFreePlace(first_con, last_con, connections, n, i)
  BY <1>3, <1>5, <1>8, FirstFree DEF FirstFreePlace
<1>10. m \in layers[l - 1].first .. layers[l - 1].last - 1 /\ m \in Nat /\ m # NULL
  BY <1>7 DEF NULL
<1>11. \A c \in Places(first_con, last_con, n) : connections[c] # m
  <2> TAKE c \in Places(first_con, last_con, n)
  <2>1. first_con[n] \in Nat /\ last_con[n] \in Nat
    BY <1>3, <1>8 DEF SparseLayers
  <2>2. c \in Nat /\ i \in Nat /\ first_con[n] <= c
    BY <1>9, <2>1 DEF Places
  <2>3. CASE c < i
    <3>1. c \in first_con[n] .. i - 1
      BY <2>1, <2>2, <2>3
    <3>2. QED
      BY <1>1, <3>1 DEF IsNew
  <2>4. CASE ~(c < i)
    <3>1. c = i \/ i < c
      BY <2>2, <2>4
    <3>2. connections[c] = NULL
      BY <1>6, <1>8, <1>9, <3>1 DEF PartlyWired
    <3>3. QED
      BY <1>10, <3>2
  <2>5. QED
    BY <2>3, <2>4
<1> DEFINE other == connections'
<1>12. /\ PartlyWired(layers, first_con, last_con, other, l)
       /\ \A k \in 2 .. L : k # l => SameIn(layers, first_con, last_con, connections, other, k)
       /\ \A x \in Nat : Uses(layers, first_con, last_con, connections, l, x)
                           => Uses(layers, first_con, last_con, other, l, x)
  <2>1. FillsPlace(connections, other, i, m)
    BY <1>1 DEF FillsPlace
  <2> HIDE DEF other
  <2>2. QED
    BY <1>3, <1>6, <1>8, <1>9, <1>10, <1>11, <2>1, PlaceTaken
<1>13. \A k \in layers[l - 1].first .. layers[l - 1].last - 1 :
         Uses(layers, first_con, last_con, other, l, k)
  <2>1. \A k \in layers[l - 1].first .. layers[l - 1].last - 1 : k \in Nat
    BY <1>7
  <2>2. QED
    BY <1>6, <1>12, <2>1
<1> HIDE DEF other
<1>14. /\ \A k \in 2 .. L : k < l => Wired(layers, first_con, last_con, other, k)
       /\ \A k \in l + 1 .. L : Untouched(layers, first_con, last_con, other, k)
  BY <1>3, <1>6, <1>12, OtherLayersKept
<1>15. DOMAIN connections' = DOMAIN connections
  BY <1>1
<1>16. /\ \A k \in 2 .. L : k < layer_it => Wired(layers, first_con, last_con, connections', k)
       /\ \A k \in layer_it + 1 .. L : Untouched(layers, first_con, last_con, connections', k)
       /\ PartlyWired(layers, first_con, last_con, connections', layer_it)
       /\ \A k \in layers[layer_it - 1].first .. layers[layer_it - 1].last - 1 :
            Uses(layers, first_con, last_con, connections', layer_it, k)
       /\ layer_it \in 2 .. L
  BY <1>3, <1>4, <1>12, <1>13, <1>14 DEF other
<1>17. QED
  BY <1>1, <1>2, <1>3, <1>4, <1>15, <1>16, AfterFilling

(* Looking a connection up finds the neuron it belongs to.                 *)
LEMMA OwnerFound ==
  ASSUME NEW first, NEW last, NEW N, NEW total, Ranges(first, last, N, total),
         NEW n \in 0 .. N - 1, NEW c \in Places(first, last, n)
  PROVE  /\ (CHOOSE m \in DOMAIN first : c \in first[m] .. last[m] - 1) = n
         /\ c \in 0 .. total - 1
<1>1. DOMAIN first = 0 .. N - 1
  BY DEF Ranges
<1>2. /\ \A m \in 0 .. N - 1 : Places(first, last, m) \subseteq 0 .. total - 1
      /\ \A m \in 0 .. N - 1 : c \in Places(first, last, m) => n = m
  BY PlacesGiven
<1>3. \A m \in DOMAIN first : c \in first[m] .. last[m] - 1 <=> m = n
  BY <1>1, <1>2 DEF Places
<1>4. (CHOOSE m \in DOMAIN first : c \in first[m] .. last[m] - 1) = n
  BY <1>1, <1>3
<1>5. QED
  BY <1>2, <1>4

(* A network that has just been divided.                                   *)
LEMMA WiringWhenCreated ==
  ASSUME fann_create_sparse_array \/ fann_create_shortcut_array, DividedInv'
  PROVE  WiringInv'
<1> DEFINE L == Len(asked')
           N == layers'[L].last
<1>1. pc' # "start"
  BY Zenon DEF fann_create_sparse_array, fann_create_shortcut_array
<1>2. PICK total \in Nat : /\ DOMAIN connections' = 0 .. total - 1
                           /\ Ranges(first_con', last_con', N, total)
  BY <1>1 DEF DividedInv, Divided
<1>3. Layered(layers', L, N)
  BY <1>1, LayeredAsAsked DEF DividedInv, Divided
<1> HIDE DEF L, N
<1>4. /\ L \in Nat /\ L >= 2
      /\ \A l \in 1 .. L : /\ layers'[l].first \in Nat /\ layers'[l].last \in Nat
      /\ \A l \in 1 .. L : \A n \in layers'[l].first .. layers'[l].last - 1 :
           LayerOf(layers', n) = l /\ n \in 0 .. N - 1
  BY <1>3 DEF Layered
<1>5. ASSUME NEW l \in 2 .. L, NEW n \in layers'[l].first .. layers'[l].last - 1,
             NEW c \in Places(first_con', last_con', n)
      PROVE  /\ (CHOOSE m \in DOMAIN first_con' : c \in first_con'[m] .. last_con'[m] - 1) = n
             /\ c \in DOMAIN connections' /\ LayerOf(layers', n) = l /\ n \in 0 .. N - 1
             /\ c \in Nat /\ first_con'[n] \in Nat
  <2>1. n \in 0 .. N - 1 /\ LayerOf(layers', n) = l
    BY <1>4
  <2>2. /\ (CHOOSE m \in DOMAIN first_con' : c \in first_con'[m] .. last_con'[m] - 1) = n
        /\ c \in 0 .. total - 1
    BY <1>2, <2>1, OwnerFound
  <2>3. first_con'[n] \in Nat
    BY <1>2, <2>1, PlacesGiven
  <2>4. c \in Nat
    BY <2>2
  <2>5. QED
    BY <1>2, <2>1, <2>2, <2>3, <2>4
<1>6. CASE fann_create_sparse_array
  <2>1. /\ network_type' = "LAYER" /\ layer_it' = 2
        /\ connection_rate' < Whole \/ connection_rate' >= Whole
        /\ \/ /\ connection_rate' >= Whole /\ pc' = "done"
              /\ connections' = [c \in DOMAIN connections' |->
                                   FullyConnected(layers', first_con', last_con', c)]
           \/ /\ connection_rate' < Whole /\ pc' = "bias"
              /\ connections' = [c \in DOMAIN connections' |-> NULL]
    <3>1. /\ network_type' = "LAYER" /\ layer_it' = 2
          /\ \/ /\ connection_rate' >= Whole /\ pc' = "done"
                /\ connections' = [c \in DOMAIN connections' |->
                                     FullyConnected(layers', first_con', last_con', c)]
             \/ /\ connection_rate' < Whole /\ pc' = "bias"
                /\ connections' = [c \in DOMAIN connections' |-> NULL]
      BY <1>6 DEF fann_create_sparse_array
    <3>2. QED
      BY <3>1
  <2>2. CASE connection_rate' >= Whole
    <3>1. ~(connection_rate' < Whole) /\ pc' = "done"
      <4>1. connection_rate' \in Nat /\ Whole \in Nat
        BY <1>1, CreationAssumption DEF DividedInv, Divided
      <4>2. ~(connection_rate' < Whole)
        BY <2>2, <4>1
      <4>3. QED
        BY <2>1, <4>2
    <3>2. \A c \in DOMAIN connections' :
            connections'[c] = FullyConnected(layers', first_con', last_con', c)
      BY <2>1, <3>1
    <3>3. ASSUME NEW l \in 2 .. L, NEW n \in layers'[l].first .. layers'[l].last - 1,
                 NEW c \in Places(first_con', last_con', n)
          PROVE  connections'[c] = (c - first_con'[n]) + layers'[l - 1].first
      <4>1. connections'[c] = layers'[l - 1].first + (c - first_con'[n])
        BY <1>5, <3>2 DEF FullyConnected
      <4>2. layers'[l - 1].first \in Nat
        <5>1. l - 1 \in 1 .. L
          BY <1>4
        <5>2. QED
          BY <1>4, <5>1
      <4>3. c \in Nat /\ first_con'[n] \in Nat
        BY <1>5
      <4>4. QED
        BY <4>1, <4>2, <4>3
    <3>4. StraightIn(layers', first_con', last_con', connections', "LAYER", L)
      BY <3>3 DEF StraightIn
    <3>5. QED
      BY <2>1, <3>1, <3>4 DEF WiringInv, L
  <2>3. CASE connection_rate' < Whole
    <3>1. /\ pc' = "bias"
          /\ connections' = [c \in DOMAIN connections' |-> NULL]
      <4>1. connection_rate' \in Nat /\ Whole \in Nat
        BY <1>1, CreationAssumption DEF DividedInv, Divided
      <4>2. ~(connection_rate' >= Whole)
        BY <2>3, <4>1
      <4>3. QED
        BY <2>1, <4>2
    <3>2. \A c \in DOMAIN connections' : connections'[c] = NULL
      BY <3>1
    <3>3. \A l \in 2 .. L : Untouched(layers', first_con', last_con', connections', l)
      <4>1. ASSUME NEW l \in 2 .. L, NEW n \in layers'[l].first .. layers'[l].last - 2,
                   NEW c \in Places(first_con', last_con', n)
            PROVE  connections'[c] = NULL
        <5>1. n \in layers'[l].first .. layers'[l].last - 1
          <6>1. l \in 1 .. L
            BY <1>4
          <6>2. layers'[l].first \in Nat /\ layers'[l].last \in Nat
            BY <1>4, <6>1
          <6>3. QED
            BY <6>2
        <5>2. QED
          BY <1>5, <3>2, <5>1
      <4>2. QED
        BY <4>1 DEF Untouched
    <3>4. WiringOf(layers', first_con', last_con', connections', "bias", L, 2, neuron_it')
      <4>1. 2 \in 2 .. L /\ \A k \in 2 .. L : ~(k < 2)
        BY <1>4
      <4>2. \A k \in 2 + 1 .. L : k \in 2 .. L
        BY <1>4
      <4>3. QED
        BY <3>3, <4>1, <4>2 DEF WiringOf
    <3>5. QED
      BY <2>1, <2>3, <3>1, <3>4 DEF WiringInv, L
  <2>4. QED
    BY <2>1, <2>2, <2>3
<1>7. CASE fann_create_shortcut_array
  <2> DEFINE ls(s) == LayersOf("SHORTCUT", s)
             neurons(s) == 0 .. ls(s)[Len(s)].last - 1
             first(s) == [n \in neurons(s) |->
                            IF n < ls(s)[1].last THEN 0 ELSE ShortcutBegin(ls(s), n)]
             last(s) == [n \in neurons(s) |->
                           IF n < ls(s)[1].last THEN 0 ELSE ShortcutBegin(ls(s), n + 1)]
             slots(s) == 0 .. ShortcutBegin(ls(s), ls(s)[Len(s)].last) - 1
  <2>1. PICK s \in LayerSizes :
          /\ network_type' = "SHORTCUT" /\ pc' = "done"
          /\ first_con' = first(s) /\ last_con' = last(s)
          /\ connections' =
               [c \in slots(s) |->
                  c - first(s)[CHOOSE m \in neurons(s) : c \in first(s)[m] .. last(s)[m] - 1]]
    BY <1>7, Zenon DEF fann_create_shortcut_array
  <2>2. neurons(s) = 0 .. N - 1
    <3>1. DOMAIN first(s) = neurons(s)
      OBVIOUS
    <3> HIDE DEF first, neurons
    <3>2. DOMAIN first_con' = 0 .. N - 1
      BY <1>2 DEF Ranges
    <3>3. QED
      BY <2>1, <3>1, <3>2
  <2> HIDE DEF ls, neurons, first, last, slots
  <2>3. ASSUME NEW l \in 2 .. L, NEW n \in layers'[l].first .. layers'[l].last - 1,
               NEW c \in Places(first_con', last_con', n)
        PROVE  connections'[c] = (c - first_con'[n]) + 0
    <3>1. c \in DOMAIN connections' /\ n \in 0 .. N - 1 /\ c \in Nat /\ first_con'[n] \in Nat
      BY <1>5
    <3>2. \A m \in 0 .. N - 1 : c \in Places(first_con', last_con', m) <=> m = n
      BY <1>2, <3>1, PlacesGiven
    <3>3. \A m \in neurons(s) : c \in first(s)[m] .. last(s)[m] - 1 <=> m = n
      BY <2>1, <2>2, <3>2 DEF Places
    <3>4. (CHOOSE m \in neurons(s) : c \in first(s)[m] .. last(s)[m] - 1) = n
      BY <2>2, <3>1, <3>3
    <3>5. connections'[c] =
            c - first(s)[CHOOSE m \in neurons(s) : c \in first(s)[m] .. last(s)[m] - 1]
      <4>1. DOMAIN connections' = slots(s)
        BY <2>1
      <4>2. QED
        BY <2>1, <3>1, <4>1
    <3>6. connections'[c] = c - first_con'[n]
      BY <2>1, <3>4, <3>5
    <3>7. QED
      BY <3>1, <3>6
  <2>4. StraightIn(layers', first_con', last_con', connections', "SHORTCUT", L)
    BY <2>3 DEF StraightIn
  <2>5. QED
    BY <2>1, <2>4, SMTT(40) DEF WiringInv, L
<1>8. QED
  BY <1>6, <1>7, Zenon

(* Every step keeps both invariants.                                       *)
LEMMA NetworkSteps ==
  ASSUME ProductsFit, DividedInv, WiringInv, Next \/ UNCHANGED vars
  PROVE  DividedInv' /\ WiringInv'
<1>1. DividedInv'
  BY DividedSteps
<1>2. CASE fann_create_sparse_array \/ fann_create_shortcut_array
  BY <1>1, <1>2, WiringWhenCreated
<1>3. CASE ConnectBias
  BY <1>1, <1>3, BiasStep
<1>4. CASE ConnectInput
  BY <1>1, <1>4, InputStep
<1>5. CASE ConnectRest
  BY <1>1, <1>5, RestStep
<1>6. CASE fann_destroy
  BY <1>1, <1>6 DEF fann_destroy, WiringInv
<1>7. CASE UNCHANGED vars
  <2>1. WiringInv'
    BY <1>7 DEF vars, shape, WiringInv
  <2>2. QED
    BY <1>1, <2>1
<1>8. QED
  BY <1>2, <1>3, <1>4, <1>5, <1>6, <1>7 DEF Next, Creating

-----------------------------------------------------------------------------
(* A network that is done                                                  *)

(* A network that is done, neuron by neuron.                               *)
NetworkOf(L, N, total) ==
  /\ L = Len(asked) /\ asked \in LayerSizes /\ network_type \in {"LAYER", "SHORTCUT"}
  /\ layers = LayersOf(network_type, asked)
  /\ Layered(layers, L, N) /\ num_layers = L
  /\ total \in Nat /\ DOMAIN connections = 0 .. total - 1
  /\ Ranges(first_con, last_con, N, total)
  /\ \A l \in 1 .. L : asked[l] \in Nat /\ asked[l] >= 1
  /\ \A l \in 1 .. L : layers[l].last = layers[l].first + NumNeurons(network_type, asked, l)

(* A neuron's connections come from `width` neurons in a row, each once.   *)
LEMMA SoMany ==
  ASSUME NEW a \in Nat, NEW width \in Nat
  PROVE  Cardinality(a .. (a + width) - 1) = width
<1> DEFINE b == a + width
<1>1. a \in Int /\ b \in Int /\ a <= b /\ b - a = width
  OBVIOUS
<1> HIDE DEF b
<1>2. Cardinality(a .. b - 1) = b - a
  BY <1>1, Distance
<1>3. QED
  BY <1>1, <1>2 DEF b

FromRow(conns, P, a, base) == \A c \in P : conns[c] = (c - a) + base

OncePerSource(conns, P, S) ==
  /\ {conns[c] : c \in P} \subseteq S
  /\ \A c, d \in P : conns[c] = conns[d] => c = d
  /\ \A b \in S : \E e \in P : {c \in P : conns[c] = b} = {e}

LEMMA StraightNeuron ==
  ASSUME NEW a \in Nat, NEW width \in Nat, NEW base \in Nat, NEW conns,
         NEW P, P = a .. (a + width) - 1, NEW S, S = base .. (base + width) - 1,
         FromRow(conns, P, a, base)
  PROVE  OncePerSource(conns, P, S) /\ Cardinality(P) = width
<1>1. \A c \in P : c \in Int /\ a <= c /\ c < a + width /\ conns[c] = (c - a) + base
  BY DEF FromRow
<1>2. {conns[c] : c \in P} \subseteq S
  BY <1>1
<1>3. \A c, d \in P : conns[c] = conns[d] => c = d
  BY <1>1
<1>4. ASSUME NEW b \in S
      PROVE  \E e \in P : {c \in P : conns[c] = b} = {e}
  <2> DEFINE e == a + (b - base)
  <2>1. e \in P
    OBVIOUS
  <2>2. \A c \in P : conns[c] = b <=> c = e
    BY <1>1
  <2> HIDE DEF e
  <2>3. {c \in P : conns[c] = b} = {e}
    BY <2>1, <2>2
  <2>4. QED
    BY <2>1, <2>3
<1>5. Cardinality(P) = width
  BY SoMany
<1>6. QED
  BY <1>2, <1>3, <1>4, <1>5 DEF OncePerSource

(* The same, told of a neuron of the network.                              *)
Proper(n, sources, bias) ==
  /\ {connections[c] : c \in Slots(n)} \subseteq sources
  /\ \A c, d \in Slots(n) : connections[c] = connections[d] => c = d
  /\ Cardinality({c \in Slots(n) : connections[c] = bias}) = 1
  /\ Cardinality(Slots(n)) >= 2

LEMMA StraightIsProper ==
  ASSUME NEW n, first_con[n] \in Nat, last_con[n] \in Nat, first_con[n] <= last_con[n],
         NEW width \in Nat, width >= 2, width = last_con[n] - first_con[n],
         NEW base \in Nat,
         FromRow(connections, Slots(n), first_con[n], base),
         NEW bias \in base .. (base + width) - 1
  PROVE  /\ Proper(n, base .. (base + width) - 1, bias)
         /\ \A b \in base .. (base + width) - 1 : \E c \in Slots(n) : connections[c] = b
<1> DEFINE a == first_con[n]
           P == a .. (a + width) - 1
           S == base .. (base + width) - 1
<1>1. Slots(n) = P /\ a \in Nat /\ FromRow(connections, P, a, base)
  <2>1. last_con[n] = a + width
    OBVIOUS
  <2>2. Slots(n) = P
    BY <2>1 DEF Slots
  <2>3. QED
    BY <2>2
<1>6. P = a .. (a + width) - 1 /\ S = base .. (base + width) - 1
  OBVIOUS
<1> HIDE DEF a, P, S
<1>2. OncePerSource(connections, P, S) /\ Cardinality(P) = width
  BY <1>1, <1>6, StraightNeuron
<1>3. Cardinality({c \in P : connections[c] = bias}) = 1
  <2>1. bias \in S
    BY DEF S
  <2>2. QED
    BY <1>2, <2>1, FS_Singleton DEF OncePerSource
<1>4. \A b \in S : \E c \in P : connections[c] = b
  <2> TAKE b \in S
  <2>1. \E e \in P : {c \in P : connections[c] = b} = {e}
    BY <1>2 DEF OncePerSource
  <2>2. QED
    BY <2>1
<1>5. Proper(n, S, bias)
  BY <1>1, <1>2, <1>3 DEF Proper, OncePerSource
<1>7. QED
  BY <1>1, <1>4, <1>5 DEF S

(* What is known of a network whatever type it has.                        *)
LEMMA NetworkDone ==
  ASSUME DividedInv, pc # "start"
  PROVE  \E L, N, total :
           /\ NetworkOf(L, N, total)
           /\ FansIn(network_type, connection_rate, layers, first_con, last_con)
<1> DEFINE L == Len(asked)
           N == layers[L].last
<1>1. /\ asked \in LayerSizes /\ network_type \in {"LAYER", "SHORTCUT"}
      /\ layers = LayersOf(network_type, asked)
      /\ FansIn(network_type, connection_rate, layers, first_con, last_con)
  BY DEF DividedInv, Divided
<1>2. PICK total \in Nat : /\ DOMAIN connections = 0 .. total - 1
                           /\ Ranges(first_con, last_con, N, total)
  BY DEF DividedInv, Divided
<1>3. /\ Layered(layers, L, N)
      /\ \A l \in 1 .. L : layers[l].last = layers[l].first + NumNeurons(network_type, asked, l)
      /\ \A l \in 1 .. L : asked[l] \in Nat /\ asked[l] >= 1
  BY <1>1, LayeredAsAsked
<1>4. num_layers = L
  BY <1>3 DEF Layered, num_layers
<1>5. L = Len(asked)
  OBVIOUS
<1> HIDE DEF L, N
<1>6. NetworkOf(L, N, total)
  BY <1>1, <1>2, <1>3, <1>4, <1>5 DEF NetworkOf
<1>7. QED
  BY <1>1, <1>6

(* A neuron with connections, in its layer.                                *)
LEMMA ReceiverPlace ==
  ASSUME NEW L, NEW N, NEW total, NetworkOf(L, N, total),
         FansIn(network_type, connection_rate, layers, first_con, last_con),
         NEW n \in Receivers
  PROVE  LET l == LayerOf(layers, n)
         IN /\ l \in 2 .. L /\ l - 1 \in 1 .. L
            /\ n \in layers[l].first .. layers[l].last - 1
            /\ network_type = "LAYER" => n \in layers[l].first .. layers[l].last - 2
            /\ first_con[n] \in Nat /\ last_con[n] \in Nat /\ first_con[n] < last_con[n]
            /\ last_con[n] - first_con[n]
                 \in Fan(network_type, connection_rate, layers, l, n)
            /\ Slots(n) \subseteq DOMAIN connections
<1> DEFINE l == LayerOf(layers, n)
<1>1. n \in 0 .. N - 1 /\ first_con[n] < last_con[n]
  BY DEF Receivers, NetworkOf, Ranges
<1>2. /\ L \in Nat /\ l \in 1 .. L /\ n \in layers[l].first .. layers[l].last - 1
      /\ DOMAIN layers = 1 .. L /\ layers[l].first \in Nat /\ layers[l].last \in Nat
  BY <1>1 DEF NetworkOf, Layered
<1>3. /\ first_con[n] \in Nat /\ last_con[n] \in Nat
      /\ Places(first_con, last_con, n) \subseteq 0 .. total - 1
  BY <1>1, PlacesGiven DEF NetworkOf
<1>4. Slots(n) \subseteq DOMAIN connections
  BY <1>3 DEF NetworkOf, Slots, Places
<1> HIDE DEF l
<1>5. last_con[n] - first_con[n] \in Fan(network_type, connection_rate, layers, l, n)
  BY <1>2 DEF FansIn
<1>6. last_con[n] - first_con[n] # 0
  BY <1>1, <1>3
<1>7. l # 1 /\ ~(network_type = "LAYER" /\ n = layers[l].last - 1)
  BY <1>5, <1>6 DEF Fan
<1>8. l \in 2 .. L /\ l - 1 \in 1 .. L
  BY <1>2, <1>7
<1>9. network_type = "LAYER" => n \in layers[l].first .. layers[l].last - 2
  BY <1>2, <1>7
<1>10. QED
  BY <1>1, <1>2, <1>3, <1>4, <1>5, <1>8, <1>9 DEF l

(* Each connected neuron and each source, once the network is done.        *)
NeuronsProper ==
  \A n \in Receivers : Proper(n, Sources(n), InitBias(LayerOf(layers, n)))

SourcesUsed(L) ==
  \A l \in 1 .. L - 1 : \A m \in NeuronsIn(l) :
    \E n \in NeuronsIn(l + 1) : \E c \in Slots(n) : connections[c] = m

(* That is all WellConnected asks for.                                     *)
LEMMA DoneIsWell ==
  ASSUME NEW L, NEW N, NEW total, NetworkOf(L, N, total), NeuronsProper, SourcesUsed(L)
  PROVE  WellConnected
<1>1. \A n \in Receivers :
         /\ {connections[c] : c \in Slots(n)} \subseteq Sources(n)
         /\ \A c, d \in Slots(n) : connections[c] = connections[d] => c = d
         /\ Cardinality(BiasSlots(n)) = 1
         /\ Cardinality(Slots(n)) >= 2
  BY DEF NeuronsProper, Proper, BiasSlots
<1>2. ASSUME NEW l \in 1 .. L - 1, NEW m \in NeuronsIn(l)
      PROVE  \E c \in DOMAIN connections : connections[c] = m
  <2>1. PICK n \in NeuronsIn(l + 1) : \E c \in Slots(n) : connections[c] = m
    BY DEF SourcesUsed
  <2>2. l + 1 \in 1 .. L
    BY DEF NetworkOf, Layered
  <2>3. n \in 0 .. N - 1
    BY <2>2 DEF NetworkOf, Layered, NeuronsIn
  <2>4. Places(first_con, last_con, n) \subseteq 0 .. total - 1
    BY <2>3, PlacesGiven DEF NetworkOf
  <2>5. Slots(n) \subseteq DOMAIN connections
    BY <2>4 DEF NetworkOf, Slots, Places
  <2>6. QED
    BY <2>1, <2>5
<1>3. num_layers = L
  BY DEF NetworkOf
<1>4. QED
  BY <1>1, <1>2, <1>3 DEF WellConnected

(* A sparse network, once its last layer is wired.                         *)
LEMMA SparseDone ==
  ASSUME DividedInv, WiringInv, pc = "done", network_type = "LAYER",
         connection_rate < Whole, NEW L, NEW N, NEW total, NetworkOf(L, N, total),
         FansIn(network_type, connection_rate, layers, first_con, last_con)
  PROVE  NeuronsProper /\ SourcesUsed(L)
<1>1. /\ L = Len(asked) /\ L \in Nat /\ L >= 2
      /\ SparseLayers(layers, first_con, last_con, connections, L)
  <2>1. Divided(layers, first_con, last_con, connections, "LAYER", connection_rate, asked)
    BY DEF DividedInv
  <2>2. L = Len(asked)
    BY DEF NetworkOf
  <2>3. SparseLayers(layers, first_con, last_con, connections, Len(asked))
    BY <2>1, SparseFacts
  <2>4. QED
    BY <2>2, <2>3 DEF SparseLayers
<1>2. \A l \in 2 .. L : Wired(layers, first_con, last_con, connections, l)
  BY <1>1 DEF WiringInv, WiringOf
<1>3. ASSUME NEW n \in Receivers
      PROVE  Proper(n, Sources(n), InitBias(LayerOf(layers, n)))
  <2> DEFINE l == LayerOf(layers, n)
             bias == layers[l - 1].last - 1
             S == layers[l - 1].first .. layers[l - 1].last - 1
             P == Slots(n)
             first == first_con[n]
  <2>1. /\ l \in 2 .. L /\ n \in layers[l].first .. layers[l].last - 2
        /\ first_con[n] \in Nat /\ last_con[n] \in Nat
    BY ReceiverPlace
  <2>2. Sources(n) = S /\ InitBias(l) = bias
    BY DEF Sources, NeuronsIn, InitBias
  <2>3. P = Places(first_con, last_con, n)
    BY DEF Slots, Places
  <2>4. first_con[n] + 2 <= last_con[n]
    BY <1>1, <2>1 DEF SparseLayers
  <2>5. first \in P /\ Cardinality(P) >= 2
    <3>1. Cardinality(first_con[n] .. last_con[n] - 1) = last_con[n] - first_con[n]
      <4>1. first_con[n] \in Int /\ last_con[n] \in Int /\ first_con[n] <= last_con[n]
        BY <2>1, <2>4
      <4>2. QED
        BY <4>1, Distance
    <3>2. QED
      BY <2>1, <2>4, <3>1 DEF Slots
  <2> HIDE DEF l
  <2>6. /\ PartlyWired(layers, first_con, last_con, connections, l)
        /\ Filled(layers, first_con, last_con, connections, l)
    BY <1>2, <2>1 DEF Wired
  <2>7. /\ connections[first] = bias
        /\ \A c \in P : connections[c] \in S
        /\ \A c, d \in P : connections[c] = connections[d] => c = d
    BY <2>1, <2>3, <2>6 DEF PartlyWired, Filled
  <2> HIDE DEF S, P, first, bias
  <2>8. {c \in P : connections[c] = bias} = {first}
    BY <2>5, <2>7
  <2>9. Cardinality({c \in P : connections[c] = bias}) = 1
    BY <2>8, FS_Singleton
  <2>10. {connections[c] : c \in P} \subseteq S
    BY <2>7
  <2>11. Proper(n, S, bias)
    BY <2>5, <2>7, <2>9, <2>10 DEF Proper, P
  <2>12. QED
    BY <2>2, <2>11 DEF l
<1>4. ASSUME NEW l \in 1 .. L - 1, NEW m \in NeuronsIn(l)
      PROVE  \E n \in NeuronsIn(l + 1) : \E c \in Slots(n) : connections[c] = m
  <2> DEFINE k == l + 1
  <2>1. k \in 2 .. L /\ k - 1 = l
    BY <1>1
  <2> HIDE DEF k
  <2>2. m \in layers[k - 1].first .. layers[k - 1].last - 1
    BY <2>1 DEF NeuronsIn
  <2>3. Uses(layers, first_con, last_con, connections, k, m)
    BY <1>2, <2>1, <2>2 DEF Wired
  <2>4. PICK n \in layers[k].first .. layers[k].last - 2 :
          \E c \in Places(first_con, last_con, n) : connections[c] = m
    BY <2>3 DEF Uses
  <2>5. n \in layers[k].first .. layers[k].last - 1
    <3>1. k \in 1 .. L
      BY <1>1, <2>1
    <3>2. layers[k].first \in Nat /\ layers[k].last \in Nat
      BY <1>1, <3>1 DEF SparseLayers
    <3>3. QED
      BY <2>4, <3>2
  <2>6. n \in NeuronsIn(k)
    BY <2>5 DEF NeuronsIn
  <2>7. \E c \in Slots(n) : connections[c] = m
    BY <2>4 DEF Places, Slots
  <2>8. QED
    BY <2>6, <2>7 DEF k
<1>5. QED
  BY <1>3, <1>4 DEF NeuronsProper, SourcesUsed

(* A fully connected network: where the neurons of a layer are connected   *)
(* to, and the bias among them.                                            *)
Base(l) == IF network_type = "LAYER" THEN layers[l - 1].first ELSE 0
Width(l) == IF network_type = "LAYER" THEN layers[l - 1].last - layers[l - 1].first
            ELSE layers[l].first

LEMMA SourcesInARow ==
  ASSUME NEW L, NEW N, NEW total, NetworkOf(L, N, total), NEW l \in 2 .. L
  PROVE  /\ Base(l) \in Nat /\ Width(l) \in Nat /\ Width(l) >= 2
         /\ InitBias(l) \in Base(l) .. (Base(l) + Width(l)) - 1
         /\ \A n : LayerOf(layers, n) = l => Sources(n) = Base(l) .. (Base(l) + Width(l)) - 1
         /\ NeuronsIn(l - 1) \subseteq Base(l) .. (Base(l) + Width(l)) - 1
<1>1. /\ L \in Nat /\ L >= 2 /\ layers[1].first = 0
      /\ \A k \in 1 .. L : layers[k].first \in Nat /\ layers[k].last \in Nat
      /\ \A k \in 1 .. L - 1 : layers[k + 1].first = layers[k].last
      /\ \A j, k \in 1 .. L : j < k => layers[j].last <= layers[k].first
  BY DEF NetworkOf, Layered
<1>2. /\ network_type \in {"LAYER", "SHORTCUT"}
      /\ \A k \in 1 .. L : asked[k] \in Nat /\ asked[k] >= 1
      /\ \A k \in 1 .. L : layers[k].last = layers[k].first + NumNeurons(network_type, asked, k)
  BY DEF NetworkOf
<1> DEFINE f == layers[l - 1].first
           e == layers[l - 1].last
<1>3. /\ l - 1 \in 1 .. L /\ l - 1 \in 1 .. L - 1 /\ 1 \in 1 .. L
      /\ (l - 1) + 1 = l /\ l \in 1 .. L
  BY <1>1
<1>4. f \in Nat /\ e \in Nat /\ layers[l].first = e
  <2>1. layers[(l - 1) + 1].first = layers[l - 1].last
    BY <1>1, <1>3
  <2>2. QED
    BY <1>1, <1>3, <2>1
<1>5. CASE network_type = "LAYER"
  <2>1. e = f + (asked[l - 1] + 1)
    BY <1>2, <1>3, <1>5 DEF NumNeurons
  <2>2. asked[l - 1] \in Nat /\ asked[l - 1] >= 1
    BY <1>2, <1>3
  <2>3. /\ Base(l) = f /\ Width(l) = e - f /\ InitBias(l) = e - 1
        /\ NeuronsIn(l - 1) = f .. e - 1
    BY <1>5 DEF Base, Width, InitBias, NeuronsIn
  <2>4. \A n : LayerOf(layers, n) = l => Sources(n) = f .. e - 1
    BY <1>5 DEF Sources, NeuronsIn
  <2> HIDE DEF e, f
  <2>5. e - f \in Nat /\ e - f >= 2 /\ f + (e - f) = e /\ e - 1 \in f .. e - 1
    BY <1>4, <2>1, <2>2
  <2>6. QED
    BY <1>4, <2>3, <2>4, <2>5
<1>6. CASE network_type = "SHORTCUT"
  <2> DEFINE b == layers[1].last
  <2>1. /\ b = 0 + (asked[1] + 1) /\ asked[1] \in Nat /\ asked[1] >= 1
    <3>1. NumNeurons(network_type, asked, 1) = asked[1] + 1
      BY DEF NumNeurons
    <3>2. layers[1].last = layers[1].first + NumNeurons(network_type, asked, 1)
      BY <1>2, <1>3
    <3>3. QED
      BY <1>1, <1>2, <1>3, <3>1, <3>2
  <2>2. b <= e
    <3>1. b <= layers[l].first
      <4>1. 1 < l
        BY <1>1
      <4>2. QED
        BY <1>1, <1>3, <4>1
    <3>2. QED
      BY <1>4, <3>1
  <2>3. /\ Base(l) = 0 /\ Width(l) = e /\ InitBias(l) = b - 1
        /\ NeuronsIn(l - 1) = f .. e - 1
    BY <1>4, <1>6 DEF Base, Width, InitBias, NeuronsIn
  <2>4. \A n : LayerOf(layers, n) = l => Sources(n) = 0 .. e - 1
    BY <1>4, <1>6 DEF Sources, NeuronsIn
  <2> HIDE DEF e, f, b
  <2>5. e >= 2 /\ 0 + e = e /\ b - 1 \in 0 .. e - 1 /\ f .. e - 1 \subseteq 0 .. e - 1
    BY <1>4, <2>1, <2>2
  <2>6. QED
    BY <1>4, <2>3, <2>4, <2>5
<1>7. QED
  BY <1>2, <1>5, <1>6

(* A fully connected or shortcut network.                                  *)
LEMMA StraightDone ==
  ASSUME NEW L, NEW N, NEW total, NetworkOf(L, N, total),
         StraightIn(layers, first_con, last_con, connections, network_type, L),
         network_type = "SHORTCUT" \/ connection_rate >= Whole,
         connection_rate \in Nat, connection_rate <= Whole,
         FansIn(network_type, connection_rate, layers, first_con, last_con)
  PROVE  NeuronsProper /\ SourcesUsed(L)
<1>1. /\ L \in Nat /\ L >= 2 /\ network_type \in {"LAYER", "SHORTCUT"}
      /\ \A l \in 1 .. L : layers[l].first \in Nat /\ layers[l].last \in Nat
                           /\ asked[l] \in Nat /\ asked[l] >= 1
      /\ \A l \in 1 .. L : layers[l].last = layers[l].first + NumNeurons(network_type, asked, l)
      /\ \A l \in 1 .. L : \A n \in layers[l].first .. layers[l].last - 1 :
           LayerOf(layers, n) = l /\ n \in 0 .. N - 1
      /\ DOMAIN first_con = 0 .. N - 1
  BY DEF NetworkOf, Layered, Ranges
<1>2. ASSUME NEW n \in Receivers
      PROVE  LET l == LayerOf(layers, n)
             IN /\ l \in 2 .. L
                /\ Proper(n, Sources(n), InitBias(l))
                /\ \A m \in NeuronsIn(l - 1) : \E c \in Slots(n) : connections[c] = m
  <2> DEFINE l == LayerOf(layers, n)
             base == Base(l)
             width == Width(l)
             bias == InitBias(l)
  <2>1. /\ l \in 2 .. L /\ n \in layers[l].first .. layers[l].last - 1
        /\ network_type = "LAYER" => n \in layers[l].first .. layers[l].last - 2
        /\ first_con[n] \in Nat /\ last_con[n] \in Nat /\ first_con[n] < last_con[n]
        /\ last_con[n] - first_con[n] \in Fan(network_type, connection_rate, layers, l, n)
    BY ReceiverPlace
  <2>2. l = LayerOf(layers, n)
    OBVIOUS
  <2> HIDE DEF l
  <2>3. /\ base \in Nat /\ width \in Nat /\ width >= 2
        /\ bias \in base .. (base + width) - 1
        /\ Sources(n) = base .. (base + width) - 1
        /\ NeuronsIn(l - 1) \subseteq base .. (base + width) - 1
    BY <2>1, <2>2, SourcesInARow
  <2>4. width = last_con[n] - first_con[n]
    <3>1. l # 1 /\ ~(network_type = "LAYER" /\ n = layers[l].last - 1)
      <4>1. layers[l].first \in Nat /\ layers[l].last \in Nat
        BY <1>1, <2>1
      <4>2. QED
        BY <2>1, <4>1
    <3>2. network_type = "LAYER" => ~(connection_rate < Whole)
      BY CreationAssumption
    <3>3. QED
      BY <1>1, <2>1, <3>1, <3>2 DEF Fan, Width
  <2>5. FromRow(connections, Slots(n), first_con[n], base)
    BY <2>1 DEF StraightIn, FromRow, Slots, Places, Base
  <2> HIDE DEF base, width, bias
  <2>6. first_con[n] <= last_con[n]
    BY <2>1
  <2>7. /\ Proper(n, base .. (base + width) - 1, bias)
        /\ \A b \in base .. (base + width) - 1 : \E c \in Slots(n) : connections[c] = b
    BY <2>1, <2>3, <2>4, <2>5, <2>6, StraightIsProper
  <2>8. QED
    BY <2>1, <2>2, <2>3, <2>7 DEF bias
<1>3. ASSUME NEW l \in 1 .. L - 1, NEW m \in NeuronsIn(l)
      PROVE  \E n \in NeuronsIn(l + 1) : \E c \in Slots(n) : connections[c] = m
  <2> DEFINE k == l + 1
             n == layers[k].first
  <2>1. k \in 1 .. L /\ k \in 2 .. L /\ k - 1 = l
    BY <1>1
  <2> HIDE DEF k
  <2>2. /\ layers[k].first \in Nat /\ layers[k].last \in Nat
        /\ asked[k] \in Nat /\ asked[k] >= 1
        /\ layers[k].last = layers[k].first + NumNeurons(network_type, asked, k)
    BY <1>1, <2>1
  <2>3. /\ n \in layers[k].first .. layers[k].last - 1
        /\ network_type = "LAYER" => n # layers[k].last - 1
    <3>1. NumNeurons(network_type, asked, k) \in {asked[k], asked[k] + 1}
          /\ (network_type = "LAYER" => NumNeurons(network_type, asked, k) = asked[k] + 1)
      BY <2>2 DEF NumNeurons
    <3>2. QED
      BY <2>2, <3>1
  <2> HIDE DEF n
  <2>4. LayerOf(layers, n) = k /\ n \in 0 .. N - 1
    BY <1>1, <2>1, <2>3
  <2>5. first_con[n] \in Nat /\ last_con[n] \in Nat
    BY <2>4, PlacesGiven DEF NetworkOf
  <2>6. last_con[n] - first_con[n] = Width(k)
    <3>1. last_con[n] - first_con[n] \in Fan(network_type, connection_rate, layers, k, n)
      BY <2>1, <2>3 DEF FansIn, NetworkOf, Layered
    <3>2. network_type = "LAYER" => ~(connection_rate < Whole)
      BY CreationAssumption
    <3>3. k # 1
      BY <2>1
    <3>4. QED
      BY <1>1, <2>3, <3>1, <3>2, <3>3 DEF Fan, Width
  <2>7. Width(k) \in Nat /\ Width(k) >= 2
    BY <2>1, SourcesInARow
  <2>8. n \in Receivers
    <3>1. first_con[n] < last_con[n]
      BY <2>5, <2>6, <2>7
    <3>2. QED
      BY <1>1, <2>4, <3>1 DEF Receivers
  <2>9. \E c \in Slots(n) : connections[c] = m
    BY <1>2, <2>1, <2>4, <2>8
  <2>10. n \in NeuronsIn(k)
    BY <2>3 DEF NeuronsIn
  <2>11. QED
    BY <2>9, <2>10 DEF k
<1>4. QED
  BY <1>2, <1>3 DEF NeuronsProper, SourcesUsed

(* However the random numbers fall, every neuron is properly connected.    *)
LEMMA DoneAndWell ==
  ASSUME DividedInv, WiringInv
  PROVE  WellConnected
<1> SUFFICES ASSUME pc = "done" PROVE WellConnected
  BY DEF WellConnected
<1>1. PICK L, N, total :
        /\ NetworkOf(L, N, total)
        /\ FansIn(network_type, connection_rate, layers, first_con, last_con)
  BY NetworkDone
<1>2. NeuronsProper /\ SourcesUsed(L)
  <2>1. CASE network_type = "LAYER" /\ connection_rate < Whole
    BY <1>1, <2>1, SparseDone
  <2>2. CASE ~(network_type = "LAYER" /\ connection_rate < Whole)
    <3>1. StraightIn(layers, first_con, last_con, connections, network_type, L)
      BY <1>1, <2>2 DEF WiringInv, NetworkOf
    <3>2. /\ network_type \in {"LAYER", "SHORTCUT"}
          /\ connection_rate \in Nat /\ connection_rate <= Whole
      BY DEF DividedInv, Divided
    <3>3. network_type = "SHORTCUT" \/ connection_rate >= Whole
      BY <2>2, <3>2, CreationAssumption
    <3>4. QED
      BY <1>1, <3>1, <3>2, <3>3, StraightDone
  <2>3. QED
    BY <2>1, <2>2
<1>3. QED
  BY <1>1, <1>2, DoneIsWell

-----------------------------------------------------------------------------
(* What the caller is told                                                 *)

(* The connections of the neurons up to one are as many as come before the *)
(* next one's.                                                             *)
Widths(N) == [n \in 0 .. N - 1 |-> last_con[n] - first_con[n]]

ConnectionsOfFirst(n) ==
  SumFunction([m \in 0 .. n - 1 |-> last_con[m] - first_con[m]])

LEMMA WidthsAddUp ==
  ASSUME NEW N, NEW total, Ranges(first_con, last_con, N, total)
  PROVE  /\ \A n \in 0 .. N - 1 :
              SumFunction([m \in 0 .. n |-> last_con[m] - first_con[m]])
                = Begins(first_con, N, total)[n + 1]
         /\ \A n \in 0 .. N :
              ConnectionsOfFirst(n) = Begins(first_con, N, total)[n]
         /\ SumFunction([n \in DOMAIN last_con |-> last_con[n] - first_con[n]]) = total
<1> DEFINE at == Begins(first_con, N, total)
           W == Widths(N)
           T == {n \in 0 .. N : SumOver(W, 0, n - 1) = at[n]}
<1>1. /\ N \in Nat /\ total \in Nat /\ at[0] = 0 /\ at[N] = total
      /\ \A n \in 0 .. N : at[n] \in Nat
      /\ \A n \in 0 .. N - 1 : last_con[n] = at[n + 1] /\ first_con[n] = at[n]
      /\ DOMAIN last_con = 0 .. N - 1
  BY DEF Ranges, Row, Begins
<1> HIDE DEF at
<1>2. \A n \in 0 .. N - 1 : W[n] = at[n + 1] - at[n] /\ W[n] = last_con[n] - first_con[n]
  BY <1>1 DEF Widths
<1>3. \A n \in 0 .. N - 1 : W[n] \in Int
  <2> TAKE n \in 0 .. N - 1
  <2>1. n \in 0 .. N /\ n + 1 \in 0 .. N
    BY <1>1
  <2>2. at[n] \in Nat /\ at[n + 1] \in Nat
    BY <1>1, <2>1
  <2> HIDE DEF W
  <2>3. QED
    BY <1>2, <2>2
<1> HIDE DEF W
<1>4. 0 \in T
  <2>1. SumOver(W, 0, 0 - 1) = 0
    <3> DEFINE g == [x \in 0 .. 0 - 1 |-> W[x]]
    <3>1. DOMAIN g = {}
      OBVIOUS
    <3>2. SumFunction(g) = 0
      BY <3>1, SumOfNone
    <3>3. QED
      BY <3>2 DEF SumOver
  <2>2. QED
    BY <1>1, <2>1
<1>5. ASSUME NEW n \in 0 .. N - 1, n \in T
      PROVE  n + 1 \in T
  <2> DEFINE b == n - 1
  <2>1. b \in Int /\ 0 <= b + 1 /\ b + 1 = n /\ \A x \in 0 .. b + 1 : x \in 0 .. N - 1
    BY <1>1
  <2> HIDE DEF b
  <2>2. SumOver(W, 0, b + 1) = SumOver(W, 0, b) + W[b + 1]
    BY <1>3, <2>1, SumsInARow
  <2>3. SumOver(W, 0, b) = at[n]
    BY <1>5 DEF b
  <2>4. n \in 0 .. N /\ n + 1 \in 0 .. N /\ (n + 1) - 1 = n
    BY <1>1
  <2>5. SumOver(W, 0, (n + 1) - 1) = at[n + 1]
    <3>1. at[n] \in Nat /\ at[n + 1] \in Nat /\ W[n] = at[n + 1] - at[n]
      BY <1>1, <1>2, <2>4
    <3>2. SumOver(W, 0, n) = at[n] + W[n]
      BY <2>1, <2>2, <2>3
    <3>3. QED
      BY <2>4, <3>1, <3>2
  <2>6. QED
    BY <2>4, <2>5
<1> HIDE DEF T
<1>6. \A n \in 0 .. N : n \in T
  BY <1>1, <1>4, <1>5, CountingUp
<1>7. \A n \in 0 .. N : SumOver(W, 0, n - 1) = at[n]
  BY <1>6 DEF T
<1>8. ASSUME NEW n \in 0 .. N
      PROVE  ConnectionsOfFirst(n) = at[n]
  <2>1. SumOver(W, 0, n - 1) = at[n]
    BY <1>7
  <2>2. [m \in 0 .. n - 1 |-> last_con[m] - first_con[m]] = [x \in 0 .. n - 1 |-> W[x]]
    BY <1>1, <1>2
  <2>3. QED
    BY <2>1, <2>2 DEF SumOver, ConnectionsOfFirst
<1>9. SumFunction([n \in DOMAIN last_con |-> last_con[n] - first_con[n]]) = total
  <2>1. [n \in DOMAIN last_con |-> last_con[n] - first_con[n]]
          = [x \in 0 .. N - 1 |-> W[x]]
    BY <1>1, <1>2
  <2>2. SumOver(W, 0, N - 1) = total
    BY <1>1, <1>7
  <2>3. QED
    BY <2>1, <2>2 DEF SumOver
<1>10. ASSUME NEW n \in 0 .. N - 1
       PROVE  SumFunction([m \in 0 .. n |-> last_con[m] - first_con[m]]) = at[n + 1]
  <2> DEFINE k == n + 1
  <2>1. k \in 0 .. N /\ k - 1 = n
    BY <1>1
  <2> HIDE DEF k
  <2>2. ConnectionsOfFirst(k) = at[k]
    BY <1>8, <2>1
  <2>3. QED
    BY <2>1, <2>2 DEF k, ConnectionsOfFirst
<1>11. QED
  BY <1>8, <1>9, <1>10 DEF at

(* The neuron the connection walk has counted up to has the connection.    *)
LEMMA DestinationHasIt ==
  ASSUME NEW N, NEW total, Ranges(first_con, last_con, N, total),
         total_neurons = N, NEW c \in 0 .. total - 1
  PROVE  Destination(c) \in 0 .. N - 1 /\ c \in Slots(Destination(c))
<1> DEFINE at == Begins(first_con, N, total)
           After == {n \in 0 .. N - 1 :
                       c < SumFunction([m \in 0 .. n |-> last_con[m] - first_con[m]])}
           d == Min(After)
<1>1. /\ N \in Nat /\ total \in Nat /\ at[0] = 0 /\ at[N] = total
      /\ \A n \in 0 .. N : at[n] \in Nat
      /\ \A n \in 0 .. N - 1 : last_con[n] = at[n + 1] /\ first_con[n] = at[n]
  BY DEF Ranges, Row, Begins
<1>2. \A n \in 0 .. N - 1 :
        SumFunction([m \in 0 .. n |-> last_con[m] - first_con[m]]) = at[n + 1]
  BY WidthsAddUp
<1>3. After = {n \in 0 .. N - 1 : c < at[n + 1]}
  BY <1>2
<1>4. Destination(c) = d
  BY DEF Destination
<1> HIDE DEF at, After, d
<1>5. N # 0
  BY <1>1
<1>6. N - 1 \in After
  <2>1. N - 1 \in 0 .. N - 1 /\ (N - 1) + 1 = N
    BY <1>1, <1>5
  <2>2. c < at[(N - 1) + 1]
    BY <1>1, <2>1
  <2>3. QED
    BY <1>3, <2>1, <2>2
<1>7. d \in After /\ \A y \in After : d <= y
  <2>1. \A n \in After : n \in Nat
    BY <1>1, <1>3
  <2>2. After \in SUBSET Nat /\ After # {}
    BY <1>6, <2>1
  <2>3. QED
    BY <2>2, LeastElement DEF d
<1>8. d \in 0 .. N - 1 /\ c < at[d + 1]
  BY <1>3, <1>7
<1>9. at[d] <= c
  <2>1. CASE d = 0
    BY <1>1, <2>1
  <2>2. CASE d # 0
    <3> DEFINE e == d - 1
    <3>1. e \in 0 .. N - 1 /\ e + 1 = d /\ ~(d <= e) /\ d \in 0 .. N
      BY <1>1, <1>8, <2>2
    <3> HIDE DEF e
    <3>2. e \notin After
      BY <1>7, <3>1
    <3>3. ~(c < at[e + 1])
      BY <1>3, <3>1, <3>2
    <3>4. at[d] \in Nat
      BY <1>1, <3>1
    <3>5. QED
      BY <3>1, <3>3, <3>4
  <2>3. QED
    BY <2>1, <2>2
<1>10. c \in Slots(d)
  <2>1. first_con[d] = at[d] /\ last_con[d] = at[d + 1]
    BY <1>1, <1>8
  <2>2. at[d] \in Nat /\ at[d + 1] \in Nat
    BY <1>1, <1>8
  <2>3. QED
    BY <1>8, <1>9, <2>1, <2>2 DEF Slots
<1>11. QED
  BY <1>4, <1>8, <1>10

(* The layers are reported as they were asked for, and their sizes add up  *)
(* to the neurons reported.                                                *)
LEMMA LayersReported ==
  ASSUME NEW L, NEW N, NEW total, NetworkOf(L, N, total)
  PROVE  fann_get_layer_array = asked
<1>1. /\ L = Len(asked) /\ asked \in LayerSizes /\ network_type \in {"LAYER", "SHORTCUT"}
      /\ DOMAIN layers = 1 .. L
      /\ \A l \in 1 .. L : /\ layers[l].first \in Nat /\ asked[l] \in Nat
                           /\ layers[l].last = layers[l].first + NumNeurons(network_type, asked, l)
  BY DEF NetworkOf, Layered
<1>2. asked = [l \in 1 .. L |-> asked[l]]
  BY <1>1, CreationAssumption
<1>3. ASSUME NEW l \in 1 .. L
      PROVE  (layers[l].last - layers[l].first)
               - (IF network_type = "LAYER" \/ l = 1 THEN 1 ELSE 0) = asked[l]
  <2> DEFINE one == IF network_type = "LAYER" \/ l = 1 THEN 1 ELSE 0
  <2>1. layers[l].last = layers[l].first + (asked[l] + one)
    BY <1>1 DEF NumNeurons
  <2>2. one \in Int
    OBVIOUS
  <2>3. layers[l].first \in Nat /\ asked[l] \in Nat
    BY <1>1
  <2> HIDE DEF one
  <2>4. (layers[l].last - layers[l].first) - one = asked[l]
    BY <2>1, <2>2, <2>3
  <2>5. QED
    BY <2>4 DEF one
<1>4. fann_get_layer_array = [l \in 1 .. L |-> asked[l]]
  BY <1>1, <1>3 DEF fann_get_layer_array
<1>5. QED
  BY <1>2, <1>4

LEMMA NeuronsReported ==
  ASSUME NEW L, NEW N, NEW total, NetworkOf(L, N, total)
  PROVE  SumFunction(asked) + SumFunction(fann_get_bias_array) = fann_get_total_neurons
<1> DEFINE bias == fann_get_bias_array
           extra(l) == IF network_type = "LAYER" /\ l = L THEN 1 ELSE 0
           upTo(l) == IF l = 0 THEN 0 ELSE layers[l].last - extra(l)
           T == {l \in 0 .. L : SumOver(asked, 1, l) + SumOver(bias, 1, l) = upTo(l)}
<1>1. /\ L = Len(asked) /\ asked \in LayerSizes /\ network_type \in {"LAYER", "SHORTCUT"}
      /\ L \in Nat /\ L >= 2 /\ DOMAIN layers = 1 .. L /\ layers[1].first = 0
      /\ \A l \in 1 .. L : /\ layers[l].first \in Nat /\ layers[l].last \in Nat
                           /\ asked[l] \in Nat
                           /\ layers[l].last = layers[l].first + NumNeurons(network_type, asked, l)
      /\ \A l \in 1 .. L - 1 : layers[l + 1].first = layers[l].last
      /\ num_layers = L
  BY DEF NetworkOf, Layered
<1>2. /\ asked = [l \in 1 .. L |-> asked[l]]
      /\ bias = [l \in 1 .. L |-> bias[l]]
  BY <1>1, CreationAssumption DEF fann_get_bias_array
<1>3. \A l \in 1 .. L : bias[l] \in Int /\ asked[l] \in Int
  BY <1>1 DEF fann_get_bias_array
<1>4. \A l \in 1 .. L : asked[l] + bias[l] = (layers[l].last - layers[l].first) - extra(l)
  <2> TAKE l \in 1 .. L
  <2> DEFINE one == IF network_type = "LAYER" \/ l = 1 THEN 1 ELSE 0
             two == IF \/ network_type = "LAYER" /\ l # L
                       \/ network_type = "SHORTCUT" /\ l = 1 THEN 1 ELSE 0
             off == extra(l)
  <2>1. layers[l].last = layers[l].first + (asked[l] + one) /\ bias[l] = two
    BY <1>1 DEF NumNeurons, fann_get_bias_array
  <2>2. one \in Int /\ two \in Int /\ off \in Int /\ one = two + off
    BY <1>1
  <2>3. layers[l].first \in Nat /\ asked[l] \in Nat
    BY <1>1
  <2> HIDE DEF one, two, off, bias, extra
  <2>4. asked[l] + bias[l] = (layers[l].last - layers[l].first) - off
    BY <2>1, <2>2, <2>3
  <2>5. QED
    BY <2>4 DEF off
<1> HIDE DEF bias
<1>5. 0 \in T
  <2>1. \A F : SumOver(F, 1, 0) = 0
    <3> TAKE F
    <3> DEFINE g == [x \in 1 .. 0 |-> F[x]]
    <3>1. DOMAIN g = {}
      OBVIOUS
    <3>2. SumFunction(g) = 0
      BY <3>1, SumOfNone
    <3>3. QED
      BY <3>2 DEF SumOver
  <2>2. SumOver(asked, 1, 0) = 0 /\ SumOver(bias, 1, 0) = 0
    BY <2>1
  <2>3. QED
    BY <1>1, <2>2
<1>6. ASSUME NEW l \in 0 .. L - 1, l \in T
      PROVE  l + 1 \in T
  <2> DEFINE k == l + 1
             A == SumOver(asked, 1, l)
             B == SumOver(bias, 1, l)
             f == layers[k].first
             e == layers[k].last
             off == extra(k)
  <2>1. /\ l \in Int /\ 1 <= l + 1 /\ k \in 1 .. L
        /\ \A x \in 1 .. l + 1 : x \in 1 .. L
    BY <1>1
  <2>2. /\ SumOver(asked, 1, l + 1) = A + asked[k]
        /\ SumOver(bias, 1, l + 1) = B + bias[k]
    BY <1>3, <2>1, SumsInARow
  <2>3. A + B = upTo(l)
    BY <1>6
  <2>4. A \in Int /\ B \in Int
    <3>1. \A F : (\A x \in 1 .. L : F[x] \in Int) => SumOver(F, 1, l) \in Int
      <4> SUFFICES ASSUME NEW F, \A x \in 1 .. L : F[x] \in Int
                   PROVE  SumOver(F, 1, l) \in Int
        OBVIOUS
      <4> DEFINE g == [x \in 1 .. l |-> F[x]]
      <4>1. DOMAIN g = 1 .. l /\ \A x \in DOMAIN g : g[x] \in Int
        BY <2>1
      <4>2. IsFiniteSet(DOMAIN g)
        BY <2>1, <4>1, FS_Interval
      <4> HIDE DEF g
      <4>3. SumFunction(g) \in Int
        BY <4>1, <4>2, SumIsInt
      <4>4. QED
        BY <4>3 DEF SumOver, g
    <3>2. QED
      BY <1>3, <3>1
  <2>5. upTo(l) = f
    <3>1. CASE l = 0
      BY <1>1, <3>1
    <3>2. CASE l # 0
      <4>1. l \in 1 .. L - 1 /\ l \in 1 .. L /\ l # L
        BY <1>1, <3>2
      <4>2. f = layers[l].last
        BY <1>1, <4>1
      <4>3. layers[l].last \in Nat
        BY <1>1, <4>1
      <4>4. QED
        BY <3>2, <4>1, <4>2, <4>3
    <3>3. QED
      BY <3>1, <3>2
  <2>6. asked[k] + bias[k] = (e - f) - off /\ upTo(k) = e - off
    BY <1>4, <2>1
  <2>7. /\ asked[k] \in Int /\ bias[k] \in Int /\ f \in Int /\ e \in Int /\ off \in Int
    BY <1>1, <1>3, <2>1
  <2>8. k \in 0 .. L
    BY <2>1
  <2> DEFINE A1 == SumOver(asked, 1, k)
             B1 == SumOver(bias, 1, k)
             u == upTo(k)
  <2>9. A1 = A + asked[k] /\ B1 = B + bias[k] /\ u = e - off
    BY <2>2, <2>6
  <2>10. asked[k] + bias[k] = (e - f) - off /\ A + B = f
    BY <2>3, <2>5, <2>6
  <2> HIDE DEF A, B, f, e, off, A1, B1, u
  <2>11. A1 + B1 = u
    BY <2>4, <2>7, <2>9, <2>10
  <2>12. QED
    BY <2>8, <2>11 DEF A1, B1, u
<1> HIDE DEF T
<1>7. L \in T
  <2>1. \A l \in 0 .. L : l \in T
    BY <1>1, <1>5, <1>6, CountingUp
  <2>2. QED
    BY <1>1, <2>1
<1>8. SumOver(asked, 1, L) + SumOver(bias, 1, L) = layers[L].last - extra(L)
  BY <1>1, <1>7 DEF T
<1>9. fann_get_total_neurons = layers[L].last - extra(L)
  <2>1. layers[L].last \in Nat
    BY <1>1
  <2>2. QED
    BY <1>1, <2>1 DEF fann_get_total_neurons, total_neurons
<1>10. SumOver(asked, 1, L) = SumFunction(asked) /\ SumOver(bias, 1, L) = SumFunction(bias)
  BY <1>2 DEF SumOver
<1>11. QED
  BY <1>8, <1>9, <1>10 DEF bias

(* The printed matrix has a column for every source.                       *)
LEMMA ColumnsPrinted ==
  ASSUME NEW L, NEW N, NEW total, NetworkOf(L, N, total),
         FansIn(network_type, connection_rate, layers, first_con, last_con),
         NEW n \in Receivers
  PROVE  Sources(n) \subseteq PrintedNeurons
<1> DEFINE l == LayerOf(layers, n)
           f == layers[L].first
           e == layers[L].last
<1>1. l \in 2 .. L /\ l - 1 \in 1 .. L
  BY ReceiverPlace
<1> HIDE DEF l
<1>2. /\ L \in Nat /\ L >= 2 /\ f \in Nat /\ e \in Nat /\ num_layers = L
      /\ network_type \in {"LAYER", "SHORTCUT"}
      /\ \A k \in 1 .. L : layers[k].first \in Nat /\ layers[k].last \in Nat
      /\ \A j, k \in 1 .. L : j < k => layers[j].last <= layers[k].first
      /\ \A k \in 1 .. L - 1 : layers[k + 1].first = layers[k].last
  <2>1. L \in 1 .. L
    BY DEF NetworkOf, Layered
  <2>2. QED
    BY <2>1 DEF NetworkOf, Layered
<1>3. PrintedNeurons = 0 .. f - 1
  <2>1. fann_get_total_neurons = IF network_type = "SHORTCUT" THEN e ELSE e - 1
    BY <1>2 DEF fann_get_total_neurons, total_neurons
  <2>2. num_output = (e - f) - (IF network_type = "LAYER" THEN 1 ELSE 0)
    BY <1>2 DEF num_output
  <2> HIDE DEF e, f
  <2>3. (fann_get_total_neurons - num_output) - 1 = f - 1
    BY <1>2, <2>1, <2>2
  <2>4. QED
    BY <2>3 DEF PrintedNeurons
<1>4. layers[l - 1].last <= f
  BY <1>1, <1>2
<1>5. layers[l].first = layers[l - 1].last
  <2>1. l - 1 \in 1 .. L - 1 /\ (l - 1) + 1 = l
    BY <1>1, <1>2
  <2>2. layers[(l - 1) + 1].first = layers[l - 1].last
    BY <1>2, <2>1
  <2>3. QED
    BY <2>1, <2>2
<1>6. layers[l - 1].first \in Nat /\ layers[l - 1].last \in Nat
  BY <1>1, <1>2
<1>7. Sources(n) \in {layers[l - 1].first .. layers[l - 1].last - 1,
                      0 .. layers[l].first - 1}
  BY DEF Sources, NeuronsIn, l
<1> HIDE DEF f
<1>8. Sources(n) \subseteq 0 .. f - 1
  BY <1>2, <1>4, <1>5, <1>6, <1>7
<1>9. QED
  BY <1>3, <1>8

(* All that is reported of a network.                                      *)
LEMMA DoneAndReported ==
  ASSUME DividedInv, WiringInv
  PROVE  ReportsMatch
<1> SUFFICES ASSUME pc = "done" PROVE ReportsMatch
  BY DEF ReportsMatch
<1>1. PICK L, N, total :
        /\ NetworkOf(L, N, total)
        /\ FansIn(network_type, connection_rate, layers, first_con, last_con)
  BY NetworkDone
<1>2. /\ Ranges(first_con, last_con, N, total) /\ total \in Nat
      /\ DOMAIN connections = 0 .. total - 1
      /\ total_neurons = N /\ DOMAIN first_con = 0 .. N - 1
  BY <1>1 DEF NetworkOf, Layered, total_neurons, Ranges
<1>3. fann_get_layer_array = asked
  BY <1>1, LayersReported
<1>4. SumFunction(asked) + SumFunction(fann_get_bias_array) = fann_get_total_neurons
  BY <1>1, NeuronsReported
<1>5. SumFunction([n \in DOMAIN last_con |-> last_con[n] - first_con[n]]) = total
  BY <1>2, WidthsAddUp
<1>6. DOMAIN fann_get_connection_array = 0 .. total - 1
  BY <1>5 DEF fann_get_connection_array
<1>7. ASSUME NEW c \in 0 .. total - 1
      PROVE  /\ c \in Slots(fann_get_connection_array[c].to_neuron)
             /\ connections[c] \in PrintedNeurons
  <2> DEFINE d == Destination(c)
  <2>1. fann_get_connection_array[c].to_neuron = d
    BY <1>5 DEF fann_get_connection_array
  <2>2. d \in 0 .. N - 1 /\ c \in Slots(d)
    BY <1>2, DestinationHasIt
  <2> HIDE DEF d
  <2>3. first_con[d] \in Nat /\ last_con[d] \in Nat
    BY <1>2, <2>2, PlacesGiven
  <2>4. first_con[d] < last_con[d]
    BY <2>2, <2>3 DEF Slots
  <2>5. d \in Receivers
    BY <1>2, <2>2, <2>4 DEF Receivers
  <2>6. connections[c] \in Sources(d)
    BY <2>2, <2>5, DoneAndWell DEF WellConnected
  <2>7. QED
    BY <1>1, <2>1, <2>2, <2>5, <2>6, ColumnsPrinted
<1>8. QED
  BY <1>2, <1>3, <1>4, <1>6, <1>7 DEF ReportsMatch

-----------------------------------------------------------------------------
(* What has been proved of building a network                              *)

(* The steps of fann_create_sparse_array and fann_create_shortcut_array    *)
(* keep the invariant.                                                     *)
THEOREM NetworkInvariant ==
  ASSUME ProductsFit
  PROVE  Spec => [](DividedInv /\ WiringInv)
<1>1. Init => DividedInv /\ WiringInv
  BY DEF Init, DividedInv, WiringInv
<1>2. (DividedInv /\ WiringInv) /\ [Next]_vars => (DividedInv /\ WiringInv)'
  <2> SUFFICES ASSUME DividedInv, WiringInv, [Next]_vars
               PROVE  (DividedInv /\ WiringInv)'
    OBVIOUS
  <2>1. DividedInv' /\ WiringInv'
    BY NetworkSteps
  <2>2. QED
    BY <2>1
<1>3. QED
  BY <1>1, <1>2, PTL DEF Spec

(* Every connection belongs to exactly one neuron, and none has more of    *)
(* them than there are sources for it: the rounded division of             *)
(* fann.c:165-209 loses none and invents none.                             *)
THEOREM DivisionIsExact ==
  ASSUME ProductsFit
  PROVE  Spec => []ConnectionsShared
<1>1. DividedInv /\ WiringInv => ConnectionsShared
  BY SharedByAll
<1>2. Spec => [](DividedInv /\ WiringInv)
  BY NetworkInvariant
<1>3. QED
  BY <1>1, <1>2, PTL

(* However the random numbers of fann.c:255-351 fall, each neuron has the  *)
(* bias once, another neuron, and none twice; every neuron before the last *)
(* layer is used; fann_init_weights (fann.c:949) finds one bias connection *)
(* in each neuron.                                                         *)
THEOREM NetworksAreConnected ==
  ASSUME ProductsFit
  PROVE  Spec => []WellConnected
<1>1. DividedInv /\ WiringInv => WellConnected
  BY DoneAndWell
<1>2. Spec => [](DividedInv /\ WiringInv)
  BY NetworkInvariant
<1>3. QED
  BY <1>1, <1>2, PTL

(* fann_get_layer_array gives what was asked for, the layers and biases    *)
(* add up to fann_get_total_neurons, and the walk of                       *)
(* fann_get_connection_array (fann.c:1158) counts up to the neuron each    *)
(* connection belongs to, for every network.                               *)
THEOREM ReportsAgree ==
  ASSUME ProductsFit
  PROVE  Spec => []ReportsMatch
<1>1. DividedInv /\ WiringInv => ReportsMatch
  BY DoneAndReported
<1>2. Spec => [](DividedInv /\ WiringInv)
  BY NetworkInvariant
<1>3. QED
  BY <1>1, <1>2, PTL

-----------------------------------------------------------------------------
(* Files                                                                   *)

(* Saving and loading leave the networks alone, so that what is proved of  *)
(* them holds in a program that saves and loads them.                      *)
THEOREM FilesKeepNetworks == FileSpec => Spec
<1>1. FileInit => Init
  BY DEF FileInit
<1>2. [FileNext]_<<vars, fileVars>> => [Next]_vars
  <2> SUFFICES ASSUME [FileNext]_<<vars, fileVars>>
               PROVE  Next \/ UNCHANGED vars
    OBVIOUS
  <2>1. CASE Creation
    BY <2>1 DEF Creation, Next
  <2>2. CASE Configure
    BY <2>2 DEF Configure
  <2>3. CASE fann_save
    BY <2>3 DEF fann_save
  <2>4. CASE fann_save_to_fixed
    BY <2>4 DEF fann_save_to_fixed
  <2>5. CASE OldFile
    BY <2>5 DEF OldFile
  <2>6. CASE fann_create_from_file
    BY <2>6 DEF fann_create_from_file
  <2>7. CASE Another
    BY <2>7 DEF Another, Next
  <2>8. CASE UNCHANGED <<vars, fileVars>>
    BY <2>8
  <2>9. QED
    BY <2>1, <2>2, <2>3, <2>4, <2>5, <2>6, <2>7, <2>8 DEF FileNext
<1>3. QED
  BY <1>1, <1>2, PTL DEF FileSpec, Spec

(* Where reading a file stops.                                             *)
LEMMA StopsAtTheEnd ==
  ASSUME NEW f, f.version # "FIX_2.1", f.end \in 1 .. Complete, InOrder(f)
  PROVE  Stop(f) = Complete <=> f.end = Complete /\ ~EmptyList(f)
<1> DEFINE T == {f.end} \cup (IF InOrder(f) THEN {} ELSE {3})
                        \cup (IF EmptyList(f) THEN {4} ELSE {})
<1>1. Stop(f) = Min(T)
  BY DEF Stop
<1>2. T = {f.end} \cup (IF EmptyList(f) THEN {4} ELSE {})
  OBVIOUS
<1>3. Complete = 9
  BY DEF Complete, Stages
<1>4. T \in SUBSET Nat /\ T # {}
  BY <1>2, <1>3
<1> HIDE DEF T
<1>5. Min(T) \in T /\ \A y \in T : Min(T) <= y
  BY <1>4, LeastElement
<1>6. CASE EmptyList(f)
  <2>1. 4 \in T
    BY <1>2, <1>6
  <2>2. Min(T) <= 4
    BY <1>5, <2>1
  <2>3. Min(T) # 9
    BY <1>4, <1>5, <2>2
  <2>4. QED
    BY <1>1, <1>3, <1>6, <2>3
<1>7. CASE ~EmptyList(f)
  BY <1>1, <1>2, <1>3, <1>5, <1>7
<1>8. QED
  BY <1>6, <1>7

(* What a file that is not loaded leaves behind.                           *)
LEMMA BlocksAreFreed ==
  ASSUME NEW f, NEW stage
  PROVE  BlocksAt(f, stage) \subseteq fann_destroy_frees
BY DEF BlocksAt, fann_destroy_frees

(* All it can lose when an allocation fails are the two lists.             *)
LEMMA NoMemoryIsTold ==
  ASSUME NEW f, NEW r \in NoMemory(f)
  PROVE  \/ /\ r.ann = Without("memory")
            /\ r.lost \subseteq {"functions", "steepnesses"}
         \/ r.ann = Without("undefined") /\ r.lost = {}
<1>1. \A blocks : blocks \subseteq fann_destroy_frees =>
        /\ Fails("memory", blocks).ann = Without("memory")
        /\ Fails("memory", blocks).lost = {}
  BY DEF Fails
<1>2. /\ BlocksAt(f, 6) \subseteq fann_destroy_frees
      /\ BlocksAt(f, 6) \cup {"neurons"} \subseteq fann_destroy_frees
      /\ BlocksAt(f, 7) \subseteq fann_destroy_frees
      /\ BlocksAt(f, 7) \cup {"weights"} \subseteq fann_destroy_frees
  BY BlocksAreFreed DEF fann_destroy_frees
<1> DEFINE lists == (IF f.end > 2 THEN {{"functions", "steepnesses"}} ELSE {})
                      \cup (IF f.end > 3 /\ f.version # "FLO_1.1"
                            THEN {{"functions"}, {"steepnesses"}} ELSE {})
<1>3. \/ r = [ann |-> Without("memory"), lost |-> {}]
      \/ \E blocks \in lists : r = [ann |-> Without("memory"), lost |-> blocks]
      \/ r = [ann |-> Without("undefined"), lost |-> {}]
      \/ \E blocks \in {BlocksAt(f, 6), BlocksAt(f, 6) \cup {"neurons"},
                       BlocksAt(f, 7), BlocksAt(f, 7) \cup {"weights"}} :
           r = Fails("memory", blocks)
  BY DEF NoMemory
<1>4. \A blocks \in lists : blocks \subseteq {"functions", "steepnesses"}
  OBVIOUS
<1> HIDE DEF lists
<1>5. QED
  BY <1>1, <1>2, <1>3, <1>4

Clean(f, n, blocks) ==
  n # NotThere /\ ~IsLoaded(n) =>
    /\ f.end = Complete /\ n.cause # "memory" /\ f.version # "FIX_2.1" =>
         EmptyList(f) \/ n.cause = "undefined"
    /\ blocks \subseteq IF n.cause = "memory" THEN {"functions", "steepnesses"} ELSE {}

(* What can come of reading a file: a network only if it is read to its    *)
(* end.                                                                    *)
LEMMA LoadingGives ==
  ASSUME NEW f, NEW r \in Loading(f)
  PROVE  \/ \E g : r \in NoMemory(g)
         \/ Stop(f) = Complete /\ r = [ann |-> Loaded(f), lost |-> {}]
         \/ /\ Stop(f) # Complete
            /\ \E cause \in {"file", "version"} : \E g, stage :
                 r = Fails(cause, BlocksAt(g, stage))
<1>1. PICK s \in Stops(f) :
        \/ r \in NoMemory([f EXCEPT !.end = s.end, !.scale = s.scale])
        \/ s.end = Complete /\ r = [ann |-> Loaded(f), lost |-> {}]
        \/ /\ s.end # Complete
           /\ r = Fails(IF s.end = 1 THEN "version" ELSE "file",
                        BlocksAt([f EXCEPT !.end = s.end, !.scale = s.scale], s.end))
  BY DEF Loading
<1>2. s.end = Complete <=> Stop(f) = Complete
  <2>1. Complete = 9
    BY DEF Complete, Stages
  <2>2. CASE Stop(f) = 6
    BY <2>1, <2>2 DEF Stops
  <2>3. CASE Stop(f) # 6
    BY <2>3 DEF Stops
  <2>4. QED
    BY <2>2, <2>3
<1>3. QED
  BY <1>1, <1>2

(* However reading a file ends, it ends cleanly.                           *)
LEMMA LoadingIsClean ==
  ASSUME NEW f, f.version = "FIX_2.1" \/ (f.end \in 1 .. Complete /\ InOrder(f)),
         NEW r \in Loading(f)
  PROVE  Clean(f, r.ann, r.lost)
<1>1. \/ \E g : r \in NoMemory(g)
      \/ Stop(f) = Complete /\ r = [ann |-> Loaded(f), lost |-> {}]
      \/ /\ Stop(f) # Complete
         /\ \E cause \in {"file", "version"} : \E g, stage :
              r = Fails(cause, BlocksAt(g, stage))
  BY LoadingGives
<1>2. CASE \E g : r \in NoMemory(g)
  <2>1. \/ /\ r.ann = Without("memory")
           /\ r.lost \subseteq {"functions", "steepnesses"}
        \/ r.ann = Without("undefined") /\ r.lost = {}
    BY <1>2, NoMemoryIsTold
  <2>2. \/ r.ann.cause = "memory" /\ r.lost \subseteq {"functions", "steepnesses"}
        \/ r.ann.cause = "undefined" /\ r.lost = {}
    BY <2>1 DEF Without
  <2>3. QED
    BY <2>2 DEF Clean
<1>3. CASE Stop(f) = Complete /\ r = [ann |-> Loaded(f), lost |-> {}]
  <2>1. r.ann = Loaded(f)
    BY <1>3
  <2>2. "weights" \in DOMAIN Loaded(f)
    BY DEF Loaded
  <2>3. QED
    BY <2>1, <2>2 DEF Clean, IsLoaded
<1>4. CASE /\ Stop(f) # Complete
           /\ \E cause \in {"file", "version"} : \E g, stage :
                r = Fails(cause, BlocksAt(g, stage))
  <2>1. PICK cause \in {"file", "version"} :
          \E g, stage : r = Fails(cause, BlocksAt(g, stage))
    BY <1>4
  <2>2. r.lost = {}
    BY <2>1, BlocksAreFreed DEF Fails
  <2>3. f.end = Complete /\ f.version # "FIX_2.1" => EmptyList(f)
    <3>1. f.version # "FIX_2.1" => (Stop(f) = Complete <=> f.end = Complete /\ ~EmptyList(f))
      BY StopsAtTheEnd
    <3>2. QED
      BY <1>4, <3>1
  <2>4. QED
    BY <2>2, <2>3 DEF Clean
<1>5. QED
  BY <1>1, <1>2, <1>3, <1>4

-----------------------------------------------------------------------------
(* The network a file was written of.                                      *)

SaysStructure(f, net) ==
  /\ f.type = net.type
  /\ f.layer_sizes = [l \in DOMAIN net.layers |-> net.layers[l].last - net.layers[l].first]
  /\ f.neurons = NeuronsSaved(net)
  /\ f.connections = [c \in DOMAIN net.connections |->
                        [from |-> net.connections[c], weight |-> net.weights[c]]]

SaysParameters(f, net) ==
  /\ DOMAIN f.parameters \in {DOMAIN SaveOrder, {1, 2}}
  /\ \A k \in DOMAIN f.parameters :
       f.parameters[k] = <<SaveOrder[k], Printed(SaveOrder[k], net.parameters[SaveOrder[k]])>>

IsFileOf(f, net) ==
  /\ f.version \in {"FLO_2.1", "FLO_2.0", "FLO_1.1"}
  /\ f.end \in 1 .. Complete /\ InOrder(f)
  /\ SaysStructure(f, net) /\ SaysParameters(f, net)
  /\ f.version = "FLO_2.1" => f = Saved(net, f.end)

FileInv ==
  /\ file # NotThere => /\ pc = "done"
                        /\ file = FixedFile \/ IsFileOf(file, Network)
  /\ ann # NotThere => /\ file # NotThere
                       /\ \E r \in Loading(file) : ann = r.ann /\ lost = r.lost

(* The network that is saved changes with none of the file operations.     *)
LEMMA NetworkKept ==
  ASSUME UNCHANGED <<vars, settings>>
  PROVE  Network' = Network /\ FixedFile' = FixedFile
<1>1. Network' = Network
  BY DEF Network, Parameter, num_input, num_output, num_layers, vars, shape
<1>2. \A n : Slots(n)' = Slots(n)
  BY DEF Slots, vars, shape
<1>3. bits_used_for_max' = bits_used_for_max
  BY <1>2, Zenon DEF bits_used_for_max, NeuronWeight, vars, shape
<1>4. decimal_point' = decimal_point
  BY <1>3 DEF decimal_point
<1>5. FixedFile' = FixedFile
  BY <1>1, <1>4 DEF FixedFile, Saved, Fixed
<1>6. QED
  BY <1>1, <1>5

(* A file in fixed point says that it is one.                              *)
LEMMA FixedIsTold == FixedFile.version = "FIX_2.1"
BY DEF FixedFile, Saved

(* Files say what the network is: new ones, and those of earlier releases. *)
LEMMA SavedSays ==
  ASSUME NEW net, NEW end \in 1 .. Complete
  PROVE  IsFileOf(Saved(net, end), net)
<1> DEFINE f == Saved(net, end)
<1>1. f.version = "FLO_2.1" /\ f.end = end /\ SaysStructure(f, net)
  BY DEF Saved, SaysStructure
<1>2. /\ DOMAIN f.parameters = DOMAIN SaveOrder
      /\ \A k \in DOMAIN SaveOrder :
           f.parameters[k] = <<SaveOrder[k], Printed(SaveOrder[k], net.parameters[SaveOrder[k]])>>
  BY DEF Saved
<1>3. SaveOrder = LoadOrder
  BY DEF SaveOrder, LoadOrder
<1>4. SaysParameters(f, net)
  BY <1>2 DEF SaysParameters
<1>5. InOrder(f)
  BY <1>2, <1>3 DEF InOrder
<1>6. QED
  BY <1>1, <1>4, <1>5 DEF IsFileOf

LEMMA OldFileSays ==
  ASSUME OldFile
  PROVE  IsFileOf(file', Network)
<1> DEFINE Full(end) == Saved(Network, end)
<1>1. Complete = 9
  BY DEF Complete, Stages
<1>2. DOMAIN SaveOrder = 1 .. 24
  BY DEF SaveOrder
<1>3. CASE file' = [Saved(Network, Complete) EXCEPT !.version = "FLO_2.0", !.scale = NotThere]
  <2> DEFINE f == Saved(Network, Complete)
  <2>1. IsFileOf(f, Network)
    BY <1>1, SavedSays
  <2>2. /\ file'.version = "FLO_2.0" /\ file'.end = f.end /\ file'.type = f.type
        /\ file'.layer_sizes = f.layer_sizes /\ file'.neurons = f.neurons
        /\ file'.connections = f.connections /\ file'.parameters = f.parameters
    BY <1>3 DEF Saved
  <2>3. f.version = "FLO_2.1"
    BY DEF Saved
  <2> HIDE DEF f
  <2>4. InOrder(file')
    BY <2>1, <2>2, <2>3 DEF IsFileOf, InOrder
  <2>5. QED
    BY <2>1, <2>2, <2>4 DEF IsFileOf, SaysStructure, SaysParameters
<1>4. CASE \E end \in {1, 2, 5, 7, 8, 9} :
             file' = [Saved(Network, end) EXCEPT
               !.version = "FLO_1.1", !.scale = NotThere, !.list = <<1>>,
               !.parameters = <<@[1], @[2]>>,
               !.functions = <<1, 2>>]
  <2>1. PICK end \in {1, 2, 5, 7, 8, 9} :
          file' = [Saved(Network, end) EXCEPT
            !.version = "FLO_1.1", !.scale = NotThere, !.list = <<1>>,
            !.parameters = <<@[1], @[2]>>,
            !.functions = <<1, 2>>]
    BY <1>4
  <2> DEFINE f == Saved(Network, end)
  <2>2. end \in 1 .. Complete
    BY <1>1
  <2>3. IsFileOf(f, Network)
    BY <2>2, SavedSays
  <2>4. /\ file'.version = "FLO_1.1" /\ file'.end = f.end /\ file'.type = f.type
        /\ file'.layer_sizes = f.layer_sizes /\ file'.neurons = f.neurons
        /\ file'.connections = f.connections
        /\ file'.parameters = <<f.parameters[1], f.parameters[2]>>
    BY <2>1 DEF Saved
  <2> HIDE DEF f
  <2>5. SaysParameters(file', Network)
    <3>1. DOMAIN file'.parameters = {1, 2}
      BY <2>4
    <3>2. 1 \in DOMAIN f.parameters /\ 2 \in DOMAIN f.parameters
      BY <1>2, <2>3 DEF IsFileOf, SaysParameters
    <3>3. \A k \in {1, 2} : file'.parameters[k] = f.parameters[k]
      BY <2>4
    <3>4. QED
      BY <2>3, <3>1, <3>2, <3>3 DEF IsFileOf, SaysParameters
  <2>6. QED
    BY <2>3, <2>4, <2>5 DEF IsFileOf, SaysStructure, InOrder
<1>5. QED
  BY <1>3, <1>4 DEF OldFile

(* A file is that of the network in memory, and what is loaded comes of    *)
(* it.                                                                     *)
LEMMA FileSteps ==
  ASSUME FileInv, [FileNext]_<<vars, fileVars>>
  PROVE  FileInv'
<1>1. CASE Creation
  <2>1. pc # "done"
    BY <1>1, Zenon DEF Creation, Creating, fann_create_sparse_array,
       fann_create_shortcut_array, ConnectBias, ConnectInput, ConnectRest
  <2>2. file = NotThere /\ ann = NotThere
    BY <2>1 DEF FileInv
  <2>3. QED
    BY <1>1, <2>2, SMTT(40) DEF Creation, fileVars, FileInv
<1>2. CASE Configure
  BY <1>2 DEF Configure, FileInv
<1>3. ASSUME UNCHANGED <<vars, settings>>, UNCHANGED <<ann, lost>>, file = NotThere, pc = "done",
             file' = FixedFile \/ IsFileOf(file', Network)
      PROVE  FileInv'
  <2>1. Network' = Network /\ FixedFile' = FixedFile
    BY <1>3, NetworkKept
  <2>2. ann = NotThere
    BY <1>3 DEF FileInv
  <2>3. pc' = "done" /\ ann' = NotThere
    BY <1>3, <2>2 DEF vars
  <2>4. file' = FixedFile' \/ IsFileOf(file', Network')
    BY <1>3, <2>1
  <2>5. QED
    BY <2>3, <2>4 DEF FileInv
<1>4. CASE fann_save
  <2>1. PICK end \in 1 .. Complete : file' = Saved(Network, end)
    BY <1>4 DEF fann_save
  <2>2. IsFileOf(file', Network)
    BY <2>1, SavedSays
  <2>3. QED
    BY <1>3, <1>4, <2>2 DEF fann_save
<1>5. CASE fann_save_to_fixed
  BY <1>3, <1>5 DEF fann_save_to_fixed
<1>6. CASE OldFile
  <2>1. IsFileOf(file', Network)
    BY <1>6, OldFileSays
  <2>2. QED
    BY <1>3, <1>6, <2>1 DEF OldFile
<1>7. ASSUME UNCHANGED <<vars, settings, file>>, file # NotThere,
             ann' # NotThere => \E r \in Loading(file) : ann' = r.ann /\ lost' = r.lost
      PROVE  FileInv'
  <2>1. Network' = Network /\ FixedFile' = FixedFile
    BY <1>7, NetworkKept
  <2>2. pc' = pc /\ file' = file
    BY <1>7 DEF vars
  <2>3. pc = "done" /\ (file = FixedFile \/ IsFileOf(file, Network))
    BY <1>7 DEF FileInv
  <2>4. file' = FixedFile' \/ IsFileOf(file', Network')
    BY <2>1, <2>2, <2>3
  <2>5. QED
    BY <1>7, <2>2, <2>3, <2>4 DEF FileInv
<1>8. CASE fann_create_from_file
  BY <1>7, <1>8 DEF fann_create_from_file
<1>9. CASE Another
  BY <1>9 DEF Another, FileInv
<1>10. CASE UNCHANGED <<vars, fileVars>>
  <2>1. CASE file = NotThere
    BY <1>10, <2>1 DEF fileVars, FileInv
  <2>2. CASE file # NotThere
    <3>1. ann' # NotThere => \E r \in Loading(file) : ann' = r.ann /\ lost' = r.lost
      BY <1>10 DEF fileVars, FileInv
    <3>2. QED
      BY <1>7, <1>10, <2>2, <3>1 DEF fileVars
  <2>3. QED
    BY <2>1, <2>2
<1>11. QED
  BY <1>1, <1>2, <1>4, <1>5, <1>6, <1>8, <1>9, <1>10 DEF FileNext

(* A file is a file of the network in memory, and what was loaded is one   *)
(* of the outcomes of reading it (fann_save, fann_create_from_file).       *)
THEOREM FilesAreOfNetworks == FileSpec => []FileInv
<1>1. FileInit => FileInv
  BY DEF FileInit, FileInv
<1>2. FileInv /\ [FileNext]_<<vars, fileVars>> => FileInv'
  BY FileSteps
<1>3. QED
  BY <1>1, <1>2, PTL DEF FileSpec

(* A complete file is refused for want of memory or an empty list alone;   *)
(* wherever a file ends, nothing of the network is left behind, and        *)
(* whichever allocation fails no more than the two lists                   *)
(* (fann_create_from_fd, fann_destroy).                                    *)
THEOREM FilesAreRefusedCleanly == FileSpec => []RefusedCleanly
<1>1. FileInv => RefusedCleanly
  <2> SUFFICES ASSUME FileInv, ann # NotThere
               PROVE  Clean(file, ann, lost)
    BY DEF RefusedCleanly, Clean
  <2>1. PICK r \in Loading(file) : ann = r.ann /\ lost = r.lost
    BY DEF FileInv
  <2>2. file.version = "FIX_2.1" \/ (file.end \in 1 .. Complete /\ InOrder(file))
    BY FixedIsTold DEF FileInv, IsFileOf
  <2>3. Clean(file, r.ann, r.lost)
    BY <2>2, LoadingIsClean
  <2>4. QED
    BY <2>1, <2>3
<1>2. QED
  BY <1>1, FilesAreOfNetworks, PTL

-----------------------------------------------------------------------------
(* Arrays and settings, as they are saved                                  *)

(* What is built of functions is one: loading compares whole arrays.       *)
IsArray(f) == f = [x \in DOMAIN f |-> f[x]]

ArraysInv ==
  pc # "start" => /\ IsArray(first_con) /\ IsArray(last_con) /\ IsArray(connections)
                  /\ connection_rate \in Rates \cup {Whole}

LEMMA ArraySteps ==
  ASSUME ArraysInv, [Next]_vars
  PROVE  ArraysInv'
<1>1. CASE fann_create_sparse_array
  <2>1. IsArray(first_con') /\ IsArray(last_con') /\ IsArray(connections')
    BY <1>1 DEF fann_create_sparse_array, IsArray
  <2>2. PICK asked_rate \in Rates : connection_rate' = AtMostFull(asked_rate)
    BY <1>1 DEF fann_create_sparse_array
  <2>3. connection_rate' \in Rates \cup {Whole}
    BY <2>2, RatesInRange, SMTT(40)
  <2>4. QED
    BY <2>1, <2>3 DEF ArraysInv
<1>2. CASE fann_create_shortcut_array
  BY <1>2 DEF fann_create_shortcut_array, ArraysInv, IsArray
<1>3. ASSUME pc # "start", UNCHANGED shape, IsArray(connections')
      PROVE  ArraysInv'
  BY <1>3 DEF ArraysInv, shape
<1>4. CASE ConnectBias
  <2>1. IsArray(connections')
    BY <1>4 DEF ConnectBias, IsArray
  <2>2. QED
    BY <1>3, <1>4, <2>1 DEF ConnectBias
<1>5. CASE ConnectInput
  <2>1. IsArray(connections')
    BY <1>5 DEF ConnectInput, IsArray
  <2>2. QED
    BY <1>3, <1>5, <2>1 DEF ConnectInput
<1>6. CASE ConnectRest
  <2>1. IsArray(connections')
    BY <1>6 DEF ConnectRest, IsArray, ArraysInv
  <2>2. QED
    BY <1>3, <1>6, <2>1 DEF ConnectRest
<1>7. CASE fann_destroy
  BY <1>7 DEF fann_destroy, ArraysInv
<1>8. CASE UNCHANGED vars
  BY <1>8 DEF vars, shape, ArraysInv
<1>9. QED
  BY <1>1, <1>2, <1>4, <1>5, <1>6, <1>7, <1>8 DEF Next, Creating

SettingsInv ==
  /\ settings.remainder \in Nat
  /\ settings.scale = NotThere \/ \E a \in Nat : settings.scale = [at |-> a]

LEMMA SettingsSteps ==
  ASSUME SettingsInv, [FileNext]_<<vars, fileVars>>
  PROVE  SettingsInv'
<1>1. CASE UNCHANGED settings
  BY <1>1 DEF SettingsInv
<1>2. CASE Configure
  <2>1. PICK r \in Remainders, n \in ListLengths, scale \in {NotThere} \cup [at : Remainders] :
          settings' = [remainder |-> r, list |-> [i \in 1 .. n |-> i], scale |-> scale]
    BY <1>2 DEF Configure
  <2>2. Remainders \subseteq Nat
    BY FileAssumption
  <2>3. scale = NotThere \/ \E a \in Nat : scale = [at |-> a]
    BY <2>2
  <2>4. settings'.remainder = r /\ settings'.scale = scale
    BY <2>1
  <2>5. QED
    BY <2>2, <2>3, <2>4 DEF SettingsInv
<1>3. CASE Another
  BY <1>3 DEF Another, SettingsInv
<1>4. QED
  BY <1>1, <1>2, <1>3 DEF FileNext, Creation, fann_save, fann_save_to_fixed, OldFile,
     fann_create_from_file, fileVars

-----------------------------------------------------------------------------
(* What is written with six digits.                                        *)

Rounded(x) == ((2 * x + Grid) \div (2 * Grid)) * Grid

(* A quotient is the number whose multiples lie around.                    *)
LEMMA Quotient ==
  ASSUME NEW v \in Nat, NEW b \in Nat, b > 0, NEW q \in Nat,
         q * b <= v, v < (q + 1) * b
  PROVE  v \div b = q
<1> DEFINE r == v \div b
<1>1. r \in Nat /\ r * b <= v /\ v < (r + 1) * b
  BY Divides
<1> HIDE DEF r
<1>2. ~(r < q)
  <2> SUFFICES ASSUME r < q PROVE FALSE
    OBVIOUS
  <2>1. r + 1 \in Nat /\ r + 1 <= q
    BY <1>1
  <2>2. (r + 1) * b <= q * b
    BY <2>1, ProductsGrow
  <2>3. (r + 1) * b \in Nat /\ q * b \in Nat
    BY <2>1, ProductsGrow
  <2>4. QED
    BY <1>1, <2>2, <2>3
<1>3. ~(q < r)
  <2> SUFFICES ASSUME q < r PROVE FALSE
    OBVIOUS
  <2>1. q + 1 \in Nat /\ q + 1 <= r
    BY <1>1
  <2>2. (q + 1) * b <= r * b
    BY <1>1, <2>1, ProductsGrow
  <2>3. (q + 1) * b \in Nat /\ r * b \in Nat
    BY <1>1, <2>1, ProductsGrow
  <2>4. QED
    BY <1>1, <2>2, <2>3
<1>4. r = q
  BY <1>1, <1>2, <1>3
<1>5. QED
  BY <1>4 DEF r

(* Rounding leaves at most half a digit, and rounding again leaves         *)
(* nothing.                                                                *)
LEMMA Rounds ==
  ASSUME NEW x \in Nat
  PROVE  /\ Rounded(x) \in Nat
         /\ 2 * (Rounded(x) - x) \in -Grid .. Grid
         /\ Rounded(Rounded(x)) = Rounded(x)
<1> DEFINE g == Grid
           b == 2 * g
           z == 2 * x + g
           q == z \div b
           y == q * g
           p == (2 * y + g) \div b
<1>1. g \in Nat /\ g > 0
  BY FileAssumption
<1>2. b \in Nat /\ b > 0 /\ z \in Nat /\ b = 2 * g /\ z = 2 * x + g
  <2> HIDE DEF g
  <2>1. QED
    BY <1>1
<1> HIDE DEF b, z
<1>3. q \in Nat /\ q * b <= z /\ z < (q + 1) * b
  BY <1>2, Divides
<1> HIDE DEF g, q
<1>4. /\ y \in Nat /\ q * b = 2 * y /\ (q + 1) * b = 2 * y + b
  <2>1. y \in Nat
    BY <1>1, <1>3, ProductsGrow
  <2>2. q * b = 2 * (q * g) /\ (q + 1) * b = 2 * (q * g) + b
    BY <1>1, <1>2, <1>3
  <2>3. QED
    BY <2>1, <2>2
<1>5. Rounded(x) = y
  BY DEF Rounded, y, q, z, b, g
<1>6. Rounded(y) = p * g
  BY DEF Rounded, p, b, g
<1> HIDE DEF y
<1>7. 2 * y <= 2 * x + g /\ 2 * x + g < 2 * y + 2 * g
  BY <1>2, <1>3, <1>4
<1>8. 2 * (y - x) \in -g .. g
  BY <1>1, <1>4, <1>7
<1>9. p = q
  <2> DEFINE v == 2 * y + g
  <2>1. v \in Nat /\ q * b <= v /\ v < (q + 1) * b
    BY <1>1, <1>2, <1>4
  <2> HIDE DEF v
  <2>2. v \div b = q
    BY <1>2, <1>3, <2>1, Quotient
  <2>3. QED
    BY <2>2 DEF v
<1>10. p * g = y
  BY <1>9 DEF y
<1>11. QED
  BY <1>4, <1>5, <1>6, <1>8, <1>10 DEF g

(* 1 is written as 1, and a rate more than half a digit below 1 as one     *)
(* below 1.                                                                *)
LEMMA RateIsTold ==
  ASSUME NEW rate \in Nat, rate <= Whole
  PROVE  /\ rate = Whole => Rounded(rate) = Whole
         /\ 2 * (Whole - rate) > Grid => Rounded(rate) < Whole
<1> DEFINE y == Rounded(rate)
<1>1. y \in Nat /\ 2 * (y - rate) \in -Grid .. Grid
  BY Rounds
<1>2. Grid \in Nat /\ Grid > 0 /\ Whole \in Nat
  BY FileAssumption, CreationAssumption
<1>3. PICK w \in Nat : Whole = w * Grid
  BY FileAssumption, CreationAssumption
<1>4. CASE 2 * (Whole - rate) > Grid
  <2> HIDE DEF y
  <2>1. y < Whole /\ rate # Whole
    BY <1>1, <1>2, <1>4
  <2>2. QED
    BY <2>1 DEF y
<1>5. CASE rate = Whole
  <2> DEFINE q == (2 * rate + Grid) \div (2 * Grid)
  <2>1. y = q * Grid
    BY DEF Rounded
  <2>2. q = w
    <3> DEFINE b == 2 * Grid
               u == w * Grid
    <3>1. b \in Nat /\ b > 0 /\ 2 * rate + Grid = w * b + Grid /\ w * b \in Nat
      <4>1. w * b = 2 * u /\ u \in Nat
        BY <1>2, ProductsGrow
      <4>2. 2 * rate = 2 * u
        BY <1>3, <1>5
      <4>3. QED
        BY <1>2, <4>1, <4>2
    <3>2. (w * b + Grid) \div b = w
      <4> DEFINE wb == w * b
                 v == wb + Grid
      <4>1. (w + 1) * b = wb + b /\ b = 2 * Grid
        BY <1>2, <1>3, <3>1
      <4> HIDE DEF b
      <4>2. wb \in Nat
        BY <3>1
      <4> HIDE DEF wb
      <4>3. v \in Nat /\ wb <= v /\ v < wb + b
        BY <1>2, <4>1, <4>2
      <4> HIDE DEF v
      <4>4. w * b <= v /\ v < (w + 1) * b
        BY <4>1, <4>3 DEF wb
      <4>5. v \div b = w
        BY <1>3, <3>1, <4>3, <4>4, Quotient
      <4>6. QED
        BY <4>5 DEF v, wb
    <3>3. QED
      BY <3>1, <3>2
  <2>3. y = Whole
    BY <1>3, <2>1, <2>2
  <2>4. ~(2 * (Whole - rate) > Grid)
    BY <1>2, <1>5
  <2>5. QED
    BY <2>3, <2>4
<1>6. CASE rate # Whole /\ ~(2 * (Whole - rate) > Grid)
  BY <1>6
<1>7. QED
  BY <1>4, <1>5, <1>6

-----------------------------------------------------------------------------
(* Loading                                                                 *)

(* No two parameters have the same name.                                   *)
LEMMA NamesDiffer ==
  ASSUME NEW j \in DOMAIN SaveOrder, NEW k \in DOMAIN SaveOrder, SaveOrder[j] = SaveOrder[k]
  PROVE  j = k
BY SMTT(60) DEF SaveOrder

(* The layers come out of their sizes.                                     *)
LEMMA LayersComeBack ==
  ASSUME NEW L, NEW N, NEW total, NetworkOf(L, N, total), NEW sizes,
         sizes = [l \in 1 .. L |-> layers[l].last - layers[l].first]
  PROVE  LayersFrom(sizes) = layers
<1>1. /\ L \in Nat /\ L >= 2 /\ DOMAIN layers = 1 .. L /\ layers[1].first = 0
      /\ \A l \in 1 .. L : /\ layers[l].first \in Nat /\ layers[l].last \in Nat
                           /\ layers[l].first < layers[l].last
      /\ \A l \in 1 .. L - 1 : layers[l + 1].first = layers[l].last
  BY DEF NetworkOf, Layered
<1>2. \A l \in 1 .. L : /\ sizes[l] \in Nat
                        /\ layers[l].last = layers[l].first + sizes[l]
  <2> TAKE l \in 1 .. L
  <2>1. sizes[l] = layers[l].last - layers[l].first
    OBVIOUS
  <2>2. layers[l].first \in Nat /\ layers[l].last \in Nat /\ layers[l].first < layers[l].last
    BY <1>1
  <2>3. QED
    BY <2>1, <2>2
<1>3. Len(sizes) = L /\ DOMAIN sizes = 1 .. L
  BY <1>1
<1> DEFINE upTo == [l \in 0 .. L |-> SumOver(sizes, 1, l)]
           ls == [l \in 1 .. L |-> [first |-> upTo[l - 1], last |-> upTo[l]]]
<1>4. LayersFrom(sizes) = ls
  <2>1. \A l \in 0 .. L : SumFunction([k \in 1 .. l |-> sizes[k]]) = SumOver(sizes, 1, l)
    BY DEF SumOver
  <2>2. [l \in 0 .. Len(sizes) |-> SumFunction([k \in 1 .. l |-> sizes[k]])] = upTo
    BY <1>3, <2>1
  <2> HIDE DEF upTo
  <2>3. QED
    BY <1>3, <2>2 DEF LayersFrom
<1>5. AreLayers(ls, L, sizes)
  <2>1. upTo = [l \in 0 .. L |-> SumOver(sizes, 1, l)] /\ ls = [l \in 1 .. L |-> [first |-> upTo[l - 1], last |-> upTo[l]]]
    OBVIOUS
  <2>2. L \in Nat /\ L >= 1
    BY <1>1
  <2> HIDE DEF upTo, ls
  <2>3. QED
    BY <1>2, <2>1, <2>2, LayersFromCounts
<1>6. \A l \in 1 .. L : ls[l] = [first |-> ls[l].first, last |-> ls[l].last]
  BY DEF ls
<1> HIDE DEF upTo, ls
<1>7. /\ DOMAIN ls = 1 .. L /\ ls[1].first = 0
      /\ \A l \in 1 .. L : /\ ls[l].first \in Nat /\ ls[l].last \in Nat
                           /\ ls[l].last = ls[l].first + sizes[l]
      /\ \A l \in 1 .. L - 1 : ls[l + 1].first = ls[l].last
  BY <1>5 DEF AreLayers
<1> DEFINE T == {l \in 0 .. L : l = 0 \/ ls[l].last = layers[l].last}
<1>8. \A l \in 1 .. L : ls[l].first = layers[l].first => ls[l].last = layers[l].last
  BY <1>2, <1>7
<1>9. 0 \in T
  BY <1>1
<1>10. ASSUME NEW l \in 0 .. L - 1, l \in T
       PROVE  l + 1 \in T
  <2> DEFINE k == l + 1
  <2>1. k \in 1 .. L /\ k \in 0 .. L
    BY <1>1
  <2>2. ls[k].first = layers[k].first
    <3>1. CASE l = 0
      BY <1>1, <1>7, <3>1
    <3>2. CASE l # 0
      <4>1. l \in 1 .. L - 1
        BY <1>1, <3>2
      <4>2. ls[l].last = layers[l].last
        BY <1>10, <3>2
      <4>3. QED
        BY <1>1, <1>7, <4>1, <4>2
    <3>3. QED
      BY <3>1, <3>2
  <2> HIDE DEF k
  <2>3. k \in T
    BY <1>8, <2>1, <2>2
  <2>4. QED
    BY <2>3 DEF k
<1> HIDE DEF T
<1>11. \A l \in 0 .. L : l \in T
  BY <1>1, <1>9, <1>10, CountingUp
<1>12. \A l \in 1 .. L : ls[l].last = layers[l].last /\ ls[l].first = layers[l].first
  <2> TAKE l \in 1 .. L
  <2>1. l \in 0 .. L /\ l # 0
    BY <1>1
  <2>2. ls[l].last = layers[l].last
    BY <1>11, <2>1 DEF T
  <2>3. /\ ls[l].first \in Nat /\ layers[l].first \in Nat /\ sizes[l] \in Nat
        /\ ls[l].last = ls[l].first + sizes[l]
        /\ layers[l].last = layers[l].first + sizes[l]
    BY <1>1, <1>2, <1>7
  <2> DEFINE a == ls[l].first
             b == layers[l].first
             size == sizes[l]
  <2>4. a \in Nat /\ b \in Nat /\ size \in Nat /\ a + size = b + size
    BY <2>2, <2>3
  <2> HIDE DEF a, b, size
  <2>5. a = b
    BY <2>4
  <2>6. QED
    BY <2>2, <2>5 DEF a, b
<1>13. /\ layers = [l \in 1 .. L |-> layers[l]] /\ ls = [l \in 1 .. L |-> ls[l]]
       /\ \A l \in 1 .. L : layers[l] = [first |-> layers[l].first, last |-> layers[l].last]
  <2>1. layers = LayersOf(network_type, asked)
    BY DEF NetworkOf
  <2>2. /\ \A l \in DOMAIN asked :
             layers[l] = [first |-> layers[l].first, last |-> layers[l].last]
        /\ layers = [l \in DOMAIN asked |-> layers[l]]
    BY <2>1 DEF LayersOf
  <2>3. DOMAIN asked = 1 .. L
    BY <1>1, <2>2
  <2>4. ls = [l \in 1 .. L |-> ls[l]]
    BY DEF ls
  <2>5. QED
    BY <2>2, <2>3, <2>4
<1>14. \A l \in 1 .. L : ls[l] = layers[l]
  BY <1>6, <1>12, <1>13
<1>15. QED
  BY <1>4, <1>13, <1>14

(* The connections come out of their numbers, one neuron after another.    *)
LEMMA StructureComesBack ==
  ASSUME NEW L, NEW N, NEW total, NetworkOf(L, N, total), ArraysInv, pc # "start",
         NEW f, SaysStructure(f, Network)
  PROVE  SameStructure(Loaded(f), Network)
<1> DEFINE at == Begins(first_con, N, total)
           net == Network
           sizes == f.layer_sizes
           neurons == DOMAIN f.neurons
           upTo == [n \in 0 .. Cardinality(neurons) |->
                      SumFunction([m \in 0 .. n - 1 |-> f.neurons[m].num_inputs])]
           slots == 0 .. upTo[Cardinality(neurons)] - 1
           n2 == Loaded(f)
<1> HIDE DEF net, sizes, neurons, upTo, slots, n2
<1>1. /\ L \in Nat /\ L >= 2 /\ DOMAIN layers = 1 .. L /\ Len(layers) = L /\ num_layers = L
      /\ \A l \in 1 .. L : layers[l].first \in Nat /\ layers[l].last \in Nat
      /\ N \in Nat /\ total \in Nat /\ DOMAIN connections = 0 .. total - 1
      /\ Ranges(first_con, last_con, N, total)
  BY DEF NetworkOf, Layered
<1>2. /\ DOMAIN first_con = 0 .. N - 1 /\ DOMAIN last_con = 0 .. N - 1
      /\ \A n \in 0 .. N - 1 : last_con[n] = at[n + 1] /\ first_con[n] = at[n]
      /\ at[N] = total
  <2>1. N \in 0 .. N /\ ~(N < N) /\ \A n \in 0 .. N - 1 : n \in 0 .. N /\ n < N
    BY <1>1
  <2>2. at[N] = total /\ \A n \in 0 .. N - 1 : first_con[n] = at[n]
    BY <2>1 DEF Begins
  <2>3. QED
    BY <1>1, <2>2 DEF Ranges
<1>3. /\ net.type = network_type /\ net.layers = layers
      /\ net.first_con = first_con /\ net.last_con = last_con
      /\ net.num_input = num_input /\ net.num_output = num_output
      /\ net.connections = connections
      /\ net.weights = [c \in 0 .. total - 1 |-> net.weights[c]]
  BY <1>1 DEF Network, net
<1>4. /\ f.type = network_type
      /\ sizes = [l \in 1 .. L |-> layers[l].last - layers[l].first]
      /\ neurons = 0 .. N - 1
      /\ \A n \in 0 .. N - 1 : f.neurons[n].num_inputs = last_con[n] - first_con[n]
      /\ \A c \in 0 .. total - 1 : /\ f.connections[c].from = connections[c]
                                   /\ f.connections[c].weight = net.weights[c]
  BY <1>1, <1>2, <1>3 DEF SaysStructure, NeuronsSaved, net, sizes, neurons
<1>5. Len(sizes) = L /\ sizes[1] = layers[1].last - layers[1].first
      /\ sizes[L] = layers[L].last - layers[L].first
  BY <1>1, <1>4
<1>6. LayersFrom(sizes) = layers
  BY <1>4, LayersComeBack
<1>7. Cardinality(neurons) = N
  <2>1. 0 \in Int /\ N \in Int /\ 0 <= N /\ N - 0 = N
    BY <1>1
  <2>2. Cardinality(0 .. N - 1) = N - 0
    BY <2>1, Distance
  <2>3. QED
    BY <1>4, <2>1, <2>2
<1> HIDE DEF at
<1>8. \A n \in 0 .. N : upTo[n] = at[n]
  <2> TAKE n \in 0 .. N
  <2>1. ConnectionsOfFirst(n) = at[n]
    BY <1>1, WidthsAddUp DEF at
  <2>2. \A m \in 0 .. n - 1 : m \in 0 .. N - 1
    BY <1>1
  <2>3. [m \in 0 .. n - 1 |-> f.neurons[m].num_inputs]
          = [m \in 0 .. n - 1 |-> last_con[m] - first_con[m]]
    BY <1>4, <2>2
  <2>4. upTo[n] = SumFunction([m \in 0 .. n - 1 |-> f.neurons[m].num_inputs])
    BY <1>7 DEF upTo
  <2>5. QED
    BY <2>1, <2>3, <2>4 DEF ConnectionsOfFirst
<1>9. /\ n2.type = f.type /\ n2.layers = LayersFrom(sizes)
      /\ n2.first_con = [n \in neurons |-> upTo[n]]
      /\ n2.last_con = [n \in neurons |-> upTo[n + 1]]
      /\ n2.num_input = sizes[1] - 1
      /\ n2.num_output = num_outputs(f.type, sizes[Len(sizes)])
      /\ n2.connections = [c \in slots |-> f.connections[c].from]
      /\ n2.weights = [c \in slots |-> f.connections[c].weight]
  BY DEF Loaded, n2, slots, upTo, neurons, sizes
<1>10. slots = 0 .. total - 1
  <2>1. N \in 0 .. N
    BY <1>1
  <2>2. upTo[N] = total
    BY <1>2, <1>8, <2>1
  <2>3. QED
    BY <1>7, <2>2 DEF slots
<1>11. n2.first_con = first_con /\ n2.last_con = last_con
  <2>1. /\ first_con = [n \in 0 .. N - 1 |-> first_con[n]]
        /\ last_con = [n \in 0 .. N - 1 |-> last_con[n]]
    BY <1>2 DEF ArraysInv, IsArray
  <2>2. \A n \in 0 .. N - 1 : n \in 0 .. N /\ n + 1 \in 0 .. N
    BY <1>1
  <2>3. \A n \in 0 .. N - 1 : upTo[n] = first_con[n] /\ upTo[n + 1] = last_con[n]
    BY <1>2, <1>8, <2>2
  <2>4. QED
    BY <1>4, <1>9, <2>1, <2>3
<1>12. n2.connections = connections /\ n2.weights = net.weights
  <2>1. connections = [c \in 0 .. total - 1 |-> connections[c]]
    BY <1>1 DEF ArraysInv, IsArray
  <2>2. QED
    BY <1>3, <1>4, <1>9, <1>10, <2>1
<1>13. n2.num_input = num_input
  BY <1>5, <1>9 DEF num_input
<1>14. n2.num_output = num_output
  <2>1. layers[L].first \in Nat /\ layers[L].last \in Nat /\ network_type \in {"LAYER", "SHORTCUT"}
    BY <1>1 DEF NetworkOf
  <2>2. num_output = (layers[L].last - layers[L].first)
                       - (IF network_type = "LAYER" THEN 1 ELSE 0)
    BY <1>1 DEF num_output
  <2>3. n2.num_output = IF network_type = "LAYER"
                        THEN (layers[L].last - layers[L].first) - 1
                        ELSE layers[L].last - layers[L].first
    BY <1>4, <1>5, <1>9 DEF num_outputs
  <2>4. QED
    BY <2>1, <2>2, <2>3
<1>15. QED
  BY <1>3, <1>4, <1>6, <1>9, <1>11, <1>12, <1>13, <1>14 DEF SameStructure, n2, net

(* A file says each parameter once, and what it says is as good as what    *)
(* was saved.                                                              *)
LEMMA PrintsBack ==
  ASSUME NEW name, NEW x \in Nat
  PROVE  /\ 2 * (Printed(name, x) - x) \in -Grid .. Grid
         /\ Printed(name, Printed(name, x)) = Printed(name, x)
<1>1. CASE name \in Floats
  <2>1. Printed(name, x) = Rounded(x) /\ Printed(name, Rounded(x)) = Rounded(Rounded(x))
    BY <1>1 DEF Printed, Rounded
  <2>2. QED
    BY <2>1, Rounds
<1>2. CASE name \notin Floats
  <2>1. Printed(name, x) = x
    BY <1>2 DEF Printed
  <2>2. Grid \in Nat
    BY FileAssumption
  <2>3. QED
    BY <2>1, <2>2
<1>3. QED
  BY <1>1, <1>2

LEMMA ParametersAreNumbers ==
  ASSUME SettingsInv, connection_rate \in Nat, NEW k \in DOMAIN SaveOrder
  PROVE  /\ Network.parameters[SaveOrder[k]] = Parameter(SaveOrder[k])
         /\ Network.parameters[SaveOrder[k]] \in Nat
<1> DEFINE name == SaveOrder[k]
<1>1. name \in Range(SaveOrder)
  BY DEF Range
<1>2. Network.parameters[name] = Parameter(name)
  BY <1>1 DEF Network
<1>3. Number(name) \in DOMAIN SaveOrder
  <2>1. \E j \in DOMAIN SaveOrder : SaveOrder[j] = name
    OBVIOUS
  <2>2. QED
    BY <2>1 DEF Number
<1>4. DOMAIN SaveOrder = 1 .. 24
  BY DEF SaveOrder
<1>5. Grid * Number(name) \in Nat
  <2>1. Grid \in Nat
    BY FileAssumption
  <2>2. Number(name) \in Nat
    BY <1>3, <1>4
  <2>3. QED
    BY <2>1, <2>2, ProductsGrow
<1>6. settings.remainder \in Nat
  BY DEF SettingsInv
<1> HIDE DEF name
<1>7. Grid * Number(name) + settings.remainder \in Nat
  BY <1>5, <1>6
<1>8. Parameter(name) \in Nat
  BY <1>7 DEF Parameter
<1>9. QED
  BY <1>2, <1>8 DEF name

LEMMA ParametersComeBack ==
  ASSUME NEW f, NEW net, SaysParameters(f, net), NEW k \in DOMAIN f.parameters
  PROVE  /\ k \in DOMAIN SaveOrder
         /\ Loaded(f).parameters[SaveOrder[k]]
              = Printed(SaveOrder[k], net.parameters[SaveOrder[k]])
<1> DEFINE name == SaveOrder[k]
           D == DOMAIN f.parameters
           InFile == {j \in D : f.parameters[j][1] = name}
<1>1. DOMAIN SaveOrder = 1 .. 24
  BY DEF SaveOrder
<1>2. /\ D \subseteq 1 .. 24 /\ k \in 1 .. 24
      /\ \A j \in D : f.parameters[j] = <<SaveOrder[j], Printed(SaveOrder[j], net.parameters[SaveOrder[j]])>>
  BY <1>1 DEF SaysParameters
<1>3. \A j \in D : f.parameters[j][1] = name <=> j = k
  <2> TAKE j \in D
  <2>1. f.parameters[j][1] = SaveOrder[j]
    BY <1>2
  <2>2. j \in DOMAIN SaveOrder /\ k \in DOMAIN SaveOrder
    BY <1>1, <1>2
  <2>3. QED
    BY <2>1, <2>2, NamesDiffer
<1>4. InFile = {k}
  BY <1>3
<1>5. Min(InFile) = k
  <2>1. {k} \in SUBSET Nat /\ {k} # {}
    BY <1>2
  <2>2. Min({k}) \in {k}
    BY <2>1, LeastElement
  <2>3. QED
    BY <1>4, <2>2
<1>6. name \in Range(LoadOrder)
  <2>1. LoadOrder = SaveOrder
    BY DEF LoadOrder, SaveOrder
  <2>2. QED
    BY <1>1, <1>2, <2>1 DEF Range
<1>7. Loaded(f).parameters[name]
        = IF InFile = {} THEN 0 ELSE f.parameters[Min(InFile)][2]
  BY <1>6 DEF Loaded
<1>8. f.parameters[k][2] = Printed(name, net.parameters[name])
  BY <1>2
<1> HIDE DEF InFile, name
<1>9. Loaded(f).parameters[name] = Printed(name, net.parameters[name])
  BY <1>4, <1>5, <1>7, <1>8
<1>10. QED
  BY <1>1, <1>2, <1>9 DEF name

(* Two networks that are told apart by no section of a file.               *)
WrittenScale(scale) ==
  IF scale = NotThere THEN NotThere ELSE [at |-> Rounded(scale.at)]

LEMMA SavedAlike ==
  ASSUME NEW n, NEW net, n.type = net.type, n.layers = net.layers,
         n.first_con = net.first_con, n.last_con = net.last_con,
         n.connections = net.connections, n.weights = net.weights,
         n.activation = net.activation, n.list = net.list,
         WrittenScale(n.scale) = WrittenScale(net.scale),
         \A k \in DOMAIN SaveOrder :
           Printed(SaveOrder[k], n.parameters[SaveOrder[k]])
             = Printed(SaveOrder[k], net.parameters[SaveOrder[k]])
  PROVE  Saved(n, Complete) = Saved(net, Complete)
<1> DEFINE pars(x) == [k \in DOMAIN SaveOrder |->
                         <<SaveOrder[k], Printed(SaveOrder[k], x.parameters[SaveOrder[k]])>>]
           sizes(x) == [l \in DOMAIN x.layers |-> x.layers[l].last - x.layers[l].first]
           conns(x) == [c \in DOMAIN x.connections |->
                          [from |-> x.connections[c], weight |-> x.weights[c]]]
<1>1. pars(n) = pars(net)
  OBVIOUS
<1>2. sizes(n) = sizes(net) /\ conns(n) = conns(net)
  OBVIOUS
<1>3. NeuronsSaved(n) = NeuronsSaved(net)
  BY DEF NeuronsSaved
<1>4. \A x : Saved(x, Complete) =
        [version |-> "FLO_2.1", end |-> Complete, type |-> x.type,
         parameters |-> pars(x), list |-> x.list, layer_sizes |-> sizes(x),
         scale |-> WrittenScale(x.scale), neurons |-> NeuronsSaved(x),
         functions |-> <<>>, connections |-> conns(x)]
  BY DEF Saved, WrittenScale, Rounded
<1> HIDE DEF pars, sizes, conns
<1>5. QED
  BY <1>1, <1>2, <1>3, <1>4

LEMMA ScaleIsWrittenOnce ==
  ASSUME SettingsInv
  PROVE  WrittenScale(WrittenScale(settings.scale)) = WrittenScale(settings.scale)
<1>1. CASE settings.scale = NotThere
  BY <1>1 DEF WrittenScale
<1>2. CASE settings.scale # NotThere
  <2>1. PICK a \in Nat : settings.scale = [at |-> a]
    BY <1>2 DEF SettingsInv
  <2>2. WrittenScale(settings.scale) = [at |-> Rounded(a)]
    BY <1>2, <2>1 DEF WrittenScale
  <2>3. [at |-> Rounded(a)] # NotThere
    <3>1. "none" \in DOMAIN NotThere /\ "none" \notin DOMAIN [at |-> Rounded(a)]
      BY DEF NotThere
    <3>2. QED
      BY <3>1
  <2>4. Rounded(Rounded(a)) = Rounded(a)
    BY Rounds
  <2>5. QED
    BY <2>2, <2>3, <2>4 DEF WrittenScale
<1>3. QED
  BY <1>1, <1>2

-----------------------------------------------------------------------------
(* The network that is loaded.                                             *)

(* A network that was loaded came from a complete file of the network.     *)
LEMMA WhatIsLoaded ==
  ASSUME FileInv, IsLoaded(ann)
  PROVE  /\ ann = Loaded(file) /\ pc = "done" /\ file.end = Complete
         /\ IsFileOf(file, Network)
<1>1. PICK r \in Loading(file) : ann = r.ann
  BY DEF FileInv, IsLoaded
<1>2. \A cause : ~IsLoaded(Without(cause))
  BY DEF IsLoaded, Without
<1>3. \/ \E g : r \in NoMemory(g)
      \/ Stop(file) = Complete /\ r = [ann |-> Loaded(file), lost |-> {}]
      \/ /\ Stop(file) # Complete
         /\ \E cause \in {"file", "version"} : \E g, stage :
              r = Fails(cause, BlocksAt(g, stage))
  BY LoadingGives
<1>4. ~\E g : r \in NoMemory(g)
  BY <1>1, <1>2, NoMemoryIsTold
<1>5. \A cause, g, stage : r # Fails(cause, BlocksAt(g, stage))
  <2>1. \A cause, blocks : Fails(cause, blocks).ann = Without(cause)
    BY DEF Fails
  <2>2. QED
    BY <1>1, <1>2, <2>1
<1>6. Stop(file) = Complete /\ ann = Loaded(file)
  BY <1>1, <1>3, <1>4, <1>5
<1>7. pc = "done" /\ (file.version = "FIX_2.1" \/ IsFileOf(file, Network))
  BY FixedIsTold DEF FileInv, IsLoaded
<1>8. file.version # "FIX_2.1"
  <2>1. Complete = 9
    BY DEF Complete, Stages
  <2>2. QED
    BY <1>6, <2>1 DEF Stop
<1>9. file.end = Complete
  BY <1>6, <1>7, <1>8, StopsAtTheEnd DEF IsFileOf
<1>10. QED
  BY <1>6, <1>7, <1>8, <1>9

(* What is loaded is what was saved.                                       *)
LEMMA LoadedAsSaved ==
  ASSUME FileInv, DividedInv, ArraysInv, SettingsInv
  PROVE  SavedIsLoaded
<1> SUFFICES ASSUME IsLoaded(ann) PROVE SavedIsLoaded
  BY DEF SavedIsLoaded
<1> DEFINE net == Network
<1>1. ann = Loaded(file) /\ pc = "done" /\ file.end = Complete /\ IsFileOf(file, net)
  BY WhatIsLoaded
<1>2. PICK L, N, total : NetworkOf(L, N, total)
  BY <1>1, NetworkDone
<1>3. SaysStructure(file, net) /\ SaysParameters(file, net)
  BY <1>1 DEF IsFileOf
<1>4. SameStructure(ann, net)
  BY <1>1, <1>2, <1>3, StructureComesBack
<1>5. connection_rate \in Nat /\ (connection_rate = Whole \/ (connection_rate \in Rates /\ connection_rate < Whole))
  <2>1. connection_rate \in Nat /\ connection_rate <= Whole
    BY <1>1 DEF DividedInv, Divided
  <2>2. connection_rate \in Rates \cup {Whole}
    BY <1>1 DEF ArraysInv
  <2>3. QED
    BY <2>1, <2>2, CreationAssumption
<1>6. \A k \in DOMAIN file.parameters :
        /\ k \in DOMAIN SaveOrder
        /\ ann.parameters[SaveOrder[k]] = Printed(SaveOrder[k], net.parameters[SaveOrder[k]])
  BY <1>1, <1>3, ParametersComeBack
<1>7. \A k \in DOMAIN SaveOrder : /\ net.parameters[SaveOrder[k]] = Parameter(SaveOrder[k])
                                  /\ net.parameters[SaveOrder[k]] \in Nat
  BY <1>5, ParametersAreNumbers
<1> HIDE DEF net
<1>8. /\ connection_rate = Whole => ann.parameters["connection_rate"] = Whole
      /\ 2 * (Whole - connection_rate) > Grid => ann.parameters["connection_rate"] < Whole
  <2>1. 2 \in DOMAIN file.parameters /\ SaveOrder[2] = "connection_rate" /\ 2 \in DOMAIN SaveOrder
    BY <1>3 DEF SaysParameters, SaveOrder
  <2>2. net.parameters["connection_rate"] = connection_rate
    BY <1>7, <2>1 DEF Parameter
  <2>3. ann.parameters["connection_rate"] = Printed("connection_rate", connection_rate)
    BY <1>6, <2>1, <2>2
  <2>4. Printed("connection_rate", connection_rate) = Rounded(connection_rate)
    BY DEF Printed, Rounded, Floats
  <2>5. QED
    BY <1>5, <2>3, <2>4, RateIsTold, CreationAssumption
<1>9. ASSUME file.version = "FLO_2.1"
      PROVE  /\ Saved(ann, Complete) = file
             /\ ann.activation = net.activation /\ ann.list = net.list
             /\ \A name \in Range(SaveOrder) :
                  2 * (ann.parameters[name] - net.parameters[name]) \in -Grid .. Grid
  <2>1. file = Saved(net, Complete)
    BY <1>1, <1>9 DEF IsFileOf
  <2>2. /\ DOMAIN file.parameters = DOMAIN SaveOrder /\ file.list = net.list
        /\ file.scale = WrittenScale(net.scale) /\ file.neurons = NeuronsSaved(net)
    BY <2>1 DEF Saved, WrittenScale, Rounded
  <2>3. \A k \in DOMAIN SaveOrder :
          /\ 2 * (ann.parameters[SaveOrder[k]] - net.parameters[SaveOrder[k]]) \in -Grid .. Grid
          /\ Printed(SaveOrder[k], ann.parameters[SaveOrder[k]])
               = Printed(SaveOrder[k], net.parameters[SaveOrder[k]])
    BY <1>6, <1>7, <2>2, PrintsBack
  <2>4. \A name \in Range(SaveOrder) :
          2 * (ann.parameters[name] - net.parameters[name]) \in -Grid .. Grid
    BY <2>3, SMTT(40) DEF Range
  <2>5. ann.list = file.list /\ ann.scale = file.scale
        /\ ann.activation = [n \in DOMAIN file.neurons |-> file.neurons[n].activation]
    BY <1>1, <1>9 DEF Loaded
  <2>6. ann.activation = net.activation
    <3>1. net.activation = [n \in DOMAIN net.first_con |-> n]
      BY DEF Network, net
    <3>2. /\ DOMAIN file.neurons = DOMAIN net.first_con
          /\ \A n \in DOMAIN net.first_con : file.neurons[n].activation = net.activation[n]
      BY <2>2 DEF NeuronsSaved
    <3>3. QED
      BY <2>5, <3>1, <3>2
  <2>7. WrittenScale(ann.scale) = WrittenScale(net.scale)
    <3>1. net.scale = settings.scale
      BY DEF Network, net
    <3>2. QED
      BY <2>2, <2>5, <3>1, ScaleIsWrittenOnce
  <2>8. Saved(ann, Complete) = Saved(net, Complete)
    BY <1>4, <2>2, <2>3, <2>5, <2>6, <2>7, SavedAlike DEF SameStructure
  <2>9. QED
    BY <2>1, <2>2, <2>4, <2>5, <2>6, <2>8
<1>10. QED
  BY <1>4, <1>8, <1>9 DEF SavedIsLoaded, net

(* A network that was loaded has the structure and weights of the one that *)
(* was saved, from a file of an earlier release too; from a new file it    *)
(* has the settings to half a digit, and saving it again writes the same   *)
(* file (fann_save, fann_create_from_file).  A fully connected network     *)
(* stays one, and a sparse one whose rate is not within half a digit of 1. *)
THEOREM SavedNetworksComeBack ==
  ASSUME ProductsFit
  PROVE  FileSpec => []SavedIsLoaded
<1>1. Spec => [](DividedInv /\ WiringInv)
  BY NetworkInvariant
<1>2. Spec => []ArraysInv
  <2>1. Init => ArraysInv
    BY DEF Init, ArraysInv
  <2>2. ArraysInv /\ [Next]_vars => ArraysInv'
    BY ArraySteps
  <2>3. QED
    BY <2>1, <2>2, PTL DEF Spec
<1>3. FileSpec => []SettingsInv
  <2>1. FileInit => SettingsInv
    BY DEF FileInit, SettingsInv
  <2>2. SettingsInv /\ [FileNext]_<<vars, fileVars>> => SettingsInv'
    BY SettingsSteps
  <2>3. QED
    BY <2>1, <2>2, PTL DEF FileSpec
<1>4. FileInv /\ (DividedInv /\ WiringInv) /\ ArraysInv /\ SettingsInv => SavedIsLoaded
  BY LoadedAsSaved
<1>5. QED
  BY <1>1, <1>2, <1>3, <1>4, FilesKeepNetworks, FilesAreOfNetworks, PTL

-----------------------------------------------------------------------------
(* Powers of two                                                           *)

(* Powers of two: 1, and twice the one before.                             *)
LEMMA Doubled ==
  ASSUME NEW n \in Nat
  PROVE  \E f : /\ TwoTo(n) = f[1 .. n] /\ f[1 .. 0] = 1
                /\ \A k \in 0 .. n - 1 : f[1 .. k + 1] = 2 * f[1 .. k]
<1> DEFINE Folds(f) ==
             f = [s \in SUBSET (1 .. n) |-> IF s = {} THEN 1 ELSE 2 * f[s \ {Max(s)}]]
           step == [p \in Int \X (1 .. n) |-> 2 * p[1]]
<1>1. TwoTo(n) = (CHOOSE f : Folds(f))[1 .. n]
  BY DEF TwoTo, FoldLeft, MapThenFoldSet
<1>2. \E f : Folds(f)
  <2>1. step \in [Int \X (1 .. n) -> Int] /\ 1 \in Int
    OBVIOUS
  <2>2. PICK f \in [SUBSET (1 .. n) -> Int] : FoldsTo(f, n, 1, step)
    <3> HIDE DEF step
    <3>1. QED
      BY <2>1, FoldExists
  <2>3. ASSUME NEW s \in SUBSET (1 .. n), s # {}
        PROVE  step[<<f[s \ {Max(s)}], Max(s)>>] = 2 * f[s \ {Max(s)}]
    <3>1. Max(s) \in 1 .. n /\ s \ {Max(s)} \in SUBSET (1 .. n)
      BY <2>3, GreatestNumber
    <3>2. QED
      BY <3>1
  <2> HIDE DEF step
  <2>4. Folds(f)
    BY <2>2, <2>3 DEF FoldsTo
  <2>5. QED
    BY <2>4
<1>3. PICK f : Folds(f) /\ TwoTo(n) = f[1 .. n]
  BY <1>1, <1>2
<1>4. f[1 .. 0] = 1
  <2>1. 1 .. 0 = {} /\ 1 .. 0 \in SUBSET (1 .. n)
    OBVIOUS
  <2>2. QED
    BY <1>3, <2>1
<1>5. ASSUME NEW k \in 0 .. n - 1
      PROVE  f[1 .. k + 1] = 2 * f[1 .. k]
  <2> DEFINE s == 1 .. k + 1
  <2>1. s \in SUBSET (1 .. n) /\ s # {} /\ s \ {Max(s)} = 1 .. k
    BY UpToNext
  <2> HIDE DEF s
  <2>2. f[s] = 2 * f[s \ {Max(s)}]
    BY <1>3, <2>1
  <2>3. QED
    BY <2>1, <2>2 DEF s
<1>6. QED
  BY <1>3, <1>4, <1>5

LEMMA PowersOfTwo ==
  /\ TwoTo(0) = 1
  /\ \A n \in Nat : TwoTo(n + 1) = 2 * TwoTo(n)
<1>1. TwoTo(0) = 1
  BY Doubled
<1>2. ASSUME NEW n \in Nat PROVE TwoTo(n + 1) = 2 * TwoTo(n)
  <2>1. PICK f : /\ TwoTo(n) = f[1 .. n] /\ f[1 .. 0] = 1
                 /\ \A k \in 0 .. n - 1 : f[1 .. k + 1] = 2 * f[1 .. k]
    BY Doubled
  <2>2. PICK g : /\ TwoTo(n + 1) = g[1 .. n + 1] /\ g[1 .. 0] = 1
                 /\ \A k \in 0 .. n : g[1 .. k + 1] = 2 * g[1 .. k]
    <3>1. n + 1 \in Nat /\ 0 .. (n + 1) - 1 = 0 .. n
      OBVIOUS
    <3>2. \E g : /\ TwoTo(n + 1) = g[1 .. n + 1] /\ g[1 .. 0] = 1
                 /\ \A k \in 0 .. (n + 1) - 1 : g[1 .. k + 1] = 2 * g[1 .. k]
      BY <3>1, Doubled
    <3>3. QED
      BY <3>1, <3>2
  <2> DEFINE T == {k \in 0 .. n : f[1 .. k] = g[1 .. k]}
  <2>3. 0 \in T
    BY <2>1, <2>2
  <2>4. ASSUME NEW k \in 0 .. n - 1, k \in T PROVE k + 1 \in T
    <3>1. f[1 .. k + 1] = 2 * f[1 .. k] /\ g[1 .. k + 1] = 2 * g[1 .. k]
      BY <2>1, <2>2
    <3>2. QED
      BY <2>4, <3>1
  <2> HIDE DEF T
  <2>5. n \in T
    BY <2>3, <2>4, CountingUp
  <2>6. f[1 .. n] = g[1 .. n] /\ g[1 .. n + 1] = 2 * g[1 .. n]
    BY <2>2, <2>5 DEF T
  <2>7. QED
    BY <2>1, <2>2, <2>6
<1>3. QED
  BY <1>1, <1>2

(* They are positive, each is greater than its exponent, and exponents add *)
(* up.                                                                     *)
LEMMA PowersGrow ==
  ASSUME NEW n \in Nat
  PROVE  TwoTo(n) \in Nat /\ TwoTo(n) > 0 /\ n < TwoTo(n)
<1> DEFINE T == {k \in 0 .. n : TwoTo(k) \in Nat /\ TwoTo(k) > 0 /\ k < TwoTo(k)}
<1>1. 0 \in T
  BY PowersOfTwo
<1>2. ASSUME NEW k \in 0 .. n - 1, k \in T PROVE k + 1 \in T
  <2>1. TwoTo(k + 1) = 2 * TwoTo(k)
    BY PowersOfTwo
  <2>2. QED
    BY <1>2, <2>1
<1> HIDE DEF T
<1>3. n \in T
  BY <1>1, <1>2, CountingUp
<1>4. QED
  BY <1>3 DEF T

LEMMA ExponentsAddUp ==
  ASSUME NEW m \in Nat, NEW n \in Nat
  PROVE  TwoTo(m + n) = TwoTo(m) * TwoTo(n)
<1> DEFINE T == {k \in 0 .. n : TwoTo(m + k) = TwoTo(m) * TwoTo(k)}
<1>1. 0 \in T
  <2>1. m + 0 = m /\ TwoTo(m) \in Nat /\ TwoTo(0) = 1
    BY PowersGrow, PowersOfTwo
  <2>2. QED
    BY <2>1
<1>2. ASSUME NEW k \in 0 .. n - 1, k \in T PROVE k + 1 \in T
  <2>1. m + k \in Nat /\ k \in Nat /\ m + (k + 1) = (m + k) + 1
    OBVIOUS
  <2>2. TwoTo(k + 1) = 2 * TwoTo(k) /\ TwoTo((m + k) + 1) = 2 * TwoTo(m + k)
    BY <2>1, PowersOfTwo
  <2>3. TwoTo(m) \in Nat /\ TwoTo(k) \in Nat
    BY <2>1, PowersGrow
  <2>4. \A x, y \in Nat : 2 * (x * y) = x * (2 * y)
    OBVIOUS
  <2>5. TwoTo(m + (k + 1)) = TwoTo(m) * TwoTo(k + 1)
    BY <1>2, <2>1, <2>2, <2>3, <2>4
  <2>6. QED
    BY <2>5
<1> HIDE DEF T
<1>3. n \in T
  BY <1>1, <1>2, CountingUp
<1>4. QED
  BY <1>3 DEF T

LEMMA PowersInOrder ==
  ASSUME NEW m \in Nat, NEW n \in Nat, m <= n
  PROVE  TwoTo(m) <= TwoTo(n)
<1>1. n - m \in Nat /\ m + (n - m) = n
  OBVIOUS
<1>2. TwoTo(n) = TwoTo(m) * TwoTo(n - m)
  BY <1>1, ExponentsAddUp
<1>3. TwoTo(m) \in Nat /\ TwoTo(n - m) \in Nat /\ TwoTo(n - m) > 0
  BY <1>1, PowersGrow
<1>4. \A x, y \in Nat : y > 0 => x <= x * y
  BY SMT
<1>5. QED
  BY <1>2, <1>3, <1>4

(* The greatest of some natural numbers, finitely many of them.            *)
LEMMA GreatestOfSome ==
  ASSUME NEW S, IsFiniteSet(S), S \in SUBSET Nat, S # {}
  PROVE  Max(S) \in S /\ \A y \in S : y <= Max(S)
<1> DEFINE T == {R \in SUBSET S : \E n \in Nat : \A y \in R : y <= n}
<1>1. {} \in T
  OBVIOUS
<1>2. ASSUME NEW R \in SUBSET S, NEW x \in S, x \notin R, R \in T
      PROVE  R \cup {x} \in T
  <2>1. PICK n \in Nat : \A y \in R : y <= n
    BY <1>2
  <2>2. x \in Nat /\ \A y \in R \cup {x} : y <= n + x
    BY <2>1
  <2>3. n + x \in Nat
    BY <2>2
  <2>4. QED
    BY <2>2, <2>3
<1> HIDE DEF T
<1>3. S \in T
  BY <1>1, <1>2, AddingElements
<1>4. PICK n \in Nat : \A y \in S : y <= n
  BY <1>3 DEF T
<1> DEFINE Bounds == {b \in Nat : \A y \in S : y <= b}
<1>5. PICK b \in Bounds : \A c \in Bounds : b <= c
  <2>1. Bounds \in SUBSET Nat /\ Bounds # {}
    BY <1>4
  <2> HIDE DEF Bounds
  <2>2. QED
    BY <2>1, LeastNumber
<1>6. b \in S
  <2> SUFFICES ASSUME b \notin S PROVE FALSE
    OBVIOUS
  <2>1. b \in Nat /\ \A y \in S : y \in Nat /\ y < b
    BY <1>5
  <2>2. b > 0 /\ b - 1 \in Nat
    <3>1. PICK y \in S : TRUE
      OBVIOUS
    <3>2. y \in Nat /\ y < b
      BY <2>1
    <3>3. QED
      BY <2>1, <3>2
  <2>4. b - 1 \in Bounds
    <3>1. \A y \in S : y <= b - 1
      BY <2>1
    <3>2. QED
      BY <2>2, <3>1
  <2> HIDE DEF Bounds
  <2>3. b <= b - 1
    BY <1>5, <2>4
  <2>5. QED
    BY <2>1, <2>3
<1>7. \A y \in S : b >= y
  BY <1>5
<1>8. Max(S) \in S /\ \A y \in S : Max(S) >= y
  BY <1>6, <1>7 DEF Max
<1>9. QED
  BY <1>8

-----------------------------------------------------------------------------
(* Fixed point                                                             *)

WeightOf(c) == Weights[1 + (c % Len(Weights))]
Magnitude(w) == IF w < 0 THEN -w ELSE w

LEMMA WeightsGiven ==
  ASSUME NEW c \in Nat
  PROVE  WeightOf(c) \in Int /\ Magnitude(WeightOf(c)) \in Nat
<1>1. /\ Weights \in Seq(Int) /\ Len(Weights) \in Nat /\ Len(Weights) > 0
      /\ \A k \in 1 .. Len(Weights) : Weights[k] \in Int
  BY FileAssumption
<1>2. 1 + (c % Len(Weights)) \in 1 .. Len(Weights)
  <2> DEFINE m == Len(Weights)
  <2>1. m \in Nat /\ m > 0
    BY <1>1
  <2> HIDE DEF m
  <2>2. c % m \in 0 .. m - 1
    BY <2>1, SMT
  <2>3. QED
    BY <2>1, <2>2 DEF m
<1>3. WeightOf(c) \in Int
  BY <1>1, <1>2 DEF WeightOf
<1>4. QED
  BY <1>3 DEF Magnitude

RangesGiven ==
  /\ IsFiniteSet(DOMAIN first_con)
  /\ \A n \in DOMAIN first_con :
       /\ first_con[n] \in Nat /\ last_con[n] \in Nat
       /\ Slots(n) \subseteq DOMAIN connections

LEMMA SlotsGiven ==
  ASSUME RangesGiven, NEW n \in DOMAIN first_con
  PROVE  IsFiniteSet(Slots(n)) /\ Slots(n) \subseteq Nat
<1>1. first_con[n] \in Nat /\ last_con[n] \in Nat
  BY DEF RangesGiven
<1>2. IsFiniteSet(first_con[n] .. last_con[n] - 1)
  BY <1>1, FS_Interval
<1>3. QED
  BY <1>1, <1>2 DEF Slots

AllMagnitudes == [c \in Nat |-> Magnitude(WeightOf(c))]

(* A total of natural numbers is one.                                      *)
LEMMA TotalIsNat ==
  ASSUME NEW S, IsFiniteSet(S), NEW F, \A x \in S : F[x] \in Nat
  PROVE  Total(F, S) \in Nat
<1> DEFINE T == {R \in SUBSET S : Total(F, R) \in Nat}
<1>1. {} \in T
  BY TotalOfNone
<1>2. ASSUME NEW R \in SUBSET S, NEW x \in S, x \notin R, R \in T
      PROVE  R \cup {x} \in T
  <2>1. IntsOn(F, S)
    BY DEF IntsOn
  <2>2. Total(F, R \cup {x}) = Total(F, R) + F[x]
    BY <1>2, <2>1, TotalOfMore
  <2>3. Total(F, R) \in Nat /\ F[x] \in Nat
    BY <1>2
  <2>4. Total(F, R \cup {x}) \in Nat
    BY <2>2, <2>3
  <2>5. QED
    BY <2>4
<1> HIDE DEF T
<1>3. S \in T
  BY <1>1, <1>2, AddingElements
<1>4. QED
  BY <1>3 DEF T

LEMMA NeuronWeightGiven ==
  ASSUME RangesGiven, NEW n \in DOMAIN first_con
  PROVE  NeuronWeight(n) = Total(AllMagnitudes, Slots(n)) /\ NeuronWeight(n) \in Nat
<1>1. IsFiniteSet(Slots(n)) /\ Slots(n) \subseteq Nat
  BY SlotsGiven
<1>2. \A c \in Slots(n) :
        /\ AllMagnitudes[c] \in Nat
        /\ AllMagnitudes[c] = LET w == Weights[1 + (c % Len(Weights))]
                             IN IF w < 0 THEN -w ELSE w
  <2>1. \A c \in Slots(n) : AllMagnitudes[c] = Magnitude(WeightOf(c))
    BY <1>1 DEF AllMagnitudes
  <2>2. \A c \in Slots(n) : AllMagnitudes[c] \in Nat
    BY <1>1, <2>1, WeightsGiven
  <2>3. QED
    BY <2>1, <2>2 DEF Magnitude, WeightOf
<1>3. NeuronWeight(n) = Total(AllMagnitudes, Slots(n))
  BY <1>2, Zenon DEF NeuronWeight, Total
<1>4. QED
  BY <1>1, <1>2, <1>3, TotalIsNat

(* The bits used for the greatest sum of weights hold it.                  *)
LEMMA BitsHoldWeights ==
  ASSUME RangesGiven, NEW n \in DOMAIN first_con
  PROVE  bits_used_for_max \in Nat /\ NeuronWeight(n) < One * TwoTo(bits_used_for_max)
<1> DEFINE S == {NeuronWeight(m) : m \in DOMAIN first_con}
           most == Max(S)
           Holds(b) == most < One * TwoTo(b) /\ (b > 0 => most >= One * TwoTo(b - 1))
           Holding == {b \in Nat : most < One * TwoTo(b)}
<1>1. IsFiniteSet(S) /\ S \in SUBSET Nat /\ S # {} /\ NeuronWeight(n) \in S
  <2>1. \A m \in DOMAIN first_con : NeuronWeight(m) \in Nat
    BY NeuronWeightGiven
  <2>2. IsFiniteSet(S)
    <3> DEFINE f == [m \in DOMAIN first_con |-> NeuronWeight(m)]
    <3>1. IsFiniteSet(DOMAIN first_con)
      BY DEF RangesGiven
    <3>2. f \in Surjection(DOMAIN first_con, S)
      BY DEF Surjection
    <3> HIDE DEF f, S
    <3>3. QED
      BY <3>1, <3>2, FS_Surjection
  <2>3. QED
    BY <2>1, <2>2
<1> HIDE DEF S
<1>2. most \in S /\ most \in Nat /\ NeuronWeight(n) <= most
  BY <1>1, GreatestOfSome
<1>3. One \in Nat /\ One > 0
  BY FileAssumption
<1> HIDE DEF most
<1>4. most \in Holding
  <2>1. TwoTo(most) \in Nat /\ most < TwoTo(most)
    BY <1>2, PowersGrow
  <2>2. \A x, y, z \in Nat : x < y /\ z > 0 => x < z * y
    BY SMT
  <2>3. QED
    BY <1>2, <1>3, <2>1, <2>2
<1>5. PICK b \in Holding : \A c \in Holding : b <= c
  <2> DEFINE H == Holding
  <2>1. H \in SUBSET Nat /\ H # {}
    BY <1>4
  <2> HIDE DEF H
  <2>2. \E b \in H : \A c \in H : b <= c
    BY <2>1, LeastNumber
  <2>3. QED
    BY <2>2 DEF H
<1>6. b \in 0 .. most
  BY <1>2, <1>4, <1>5
<1>7. Holds(b)
  <2>1. CASE b = 0
    BY <1>5, <2>1
  <2>2. CASE b > 0
    <3>1. b - 1 \in Nat /\ ~(b <= b - 1)
      BY <1>6, <2>2
    <3>2. ~(most < One * TwoTo(b - 1))
      BY <1>5, <3>1
    <3>3. One * TwoTo(b - 1) \in Nat
      <4>1. TwoTo(b - 1) \in Nat
        BY <3>1, PowersGrow
      <4>2. QED
        BY <1>3, <4>1, ProductsGrow
    <3>4. QED
      BY <1>2, <1>5, <3>2, <3>3
  <2>3. QED
    BY <1>6, <2>1, <2>2
<1>8. bits_used_for_max = CHOOSE c \in 0 .. most : Holds(c)
  BY DEF bits_used_for_max, most, S
<1> HIDE DEF Holds
<1>9. bits_used_for_max \in 0 .. most /\ Holds(bits_used_for_max)
  BY <1>6, <1>7, <1>8
<1>10. bits_used_for_max \in Nat /\ most < One * TwoTo(bits_used_for_max)
  BY <1>2, <1>9 DEF Holds
<1>11. One * TwoTo(bits_used_for_max) \in Nat /\ NeuronWeight(n) \in Nat
  BY <1>1, <1>3, <1>10, PowersGrow, ProductsGrow, NeuronWeightGiven
<1> HIDE DEF Holding
<1>12. QED
  BY <1>2, <1>10, <1>11

(* A weight in fixed point is at most twice what it is exactly, because a  *)
(* weight of less than half a unit becomes 0.                              *)
LEMMA FixedIsClose ==
  ASSUME NEW w \in Int, decimal_point \in Nat
  PROVE  /\ Fixed(w) \in Int
         /\ One * Magnitude(Fixed(w)) <= 2 * TwoTo(decimal_point) * Magnitude(w)
<1> DEFINE P == TwoTo(decimal_point)
           a == 2 * w * P
           q == (a + One) \div (2 * One)
<1>1. P \in Nat /\ One \in Nat /\ One > 0
  BY FileAssumption, PowersGrow
<1> HIDE DEF P
<1>2. \A x \in Int, y \in Nat : x * y \in Int /\ 2 * x * y = 2 * (x * y)
                           /\ (-x) * y = -(x * y)
                           /\ (x >= 0 => x * y >= 0) /\ (x <= 0 => x * y <= 0)
  BY SMT
<1>3. a \in Int /\ a = 2 * (w * P) /\ w * P \in Int
  BY <1>1, <1>2
<1> HIDE DEF a
<1>4. q \in Int /\ (2 * One) * q <= a + One /\ a + One < (2 * One) * q + 2 * One
  <2> DEFINE d == 2 * One
             v == a + One
             r == v % d
  <2>1. d \in Nat /\ d > 0 /\ v \in Int
    BY <1>1, <1>3
  <2> HIDE DEF d, v
  <2>2. v \div d \in Int /\ r \in 0 .. d - 1 /\ v = d * (v \div d) + r
    BY <2>1, SMT
  <2> DEFINE t == d * (v \div d)
  <2>3. t \in Int
    BY <2>1, <2>2, SMT
  <2> HIDE DEF r, t
  <2>4. t <= v /\ v < t + d
    BY <2>1, <2>2, <2>3 DEF t
  <2>5. QED
    BY <2>2, <2>4 DEF t, d, v
<1>5. Fixed(w) = q
  BY DEF Fixed, P, a
<1> HIDE DEF q
<1> DEFINE m == One * q
           z == w * P
<1>6. m \in Int /\ (2 * One) * q = 2 * m /\ One * (-q) = -m
      /\ (q > 0 => m >= One) /\ (q = 0 => m = 0) /\ (q < 0 => -m >= One)
  BY <1>1, <1>4, SMT
<1>7. z \in Int /\ 2 * m <= 2 * z + One /\ 2 * z + One < 2 * m + 2 * One
  BY <1>3, <1>4, <1>6
<1>8. 2 * P * Magnitude(w) = 2 * (Magnitude(w) * P) /\ Magnitude(w) \in Nat
      /\ Magnitude(w) * P \in Nat /\ z <= Magnitude(w) * P /\ -z <= Magnitude(w) * P
  <2>1. CASE w < 0
    <3>1. Magnitude(w) = -w /\ -w \in Nat
      BY <2>1 DEF Magnitude
    <3>2. (-w) * P = -z /\ z <= 0
      BY <1>1, <1>2, <2>1
    <3>3. 2 * P * (-w) = 2 * ((-w) * P)
      BY <1>1, SMT
    <3>4. QED
      BY <1>3, <3>1, <3>2, <3>3
  <2>2. CASE ~(w < 0)
    <3>1. Magnitude(w) = w /\ w \in Nat
      BY <2>2 DEF Magnitude
    <3>2. z >= 0
      BY <1>1, <1>2, <3>1
    <3>3. 2 * P * w = 2 * (w * P)
      BY <1>1, SMT
    <3>4. QED
      BY <1>3, <3>1, <3>2, <3>3
  <2>3. QED
    BY <2>1, <2>2
<1> HIDE DEF z, m
<1> DEFINE u == Magnitude(w) * P
<1>9. u \in Nat /\ z <= u /\ -z <= u
  BY <1>8
<1> HIDE DEF u
<1>10. One * Magnitude(q) <= 2 * u
  <2>1. CASE q < 0
    <3>1. One * Magnitude(q) = -m
      BY <1>4, <1>6, <2>1 DEF Magnitude
    <3>2. QED
      BY <1>1, <1>6, <1>7, <1>9, <2>1, <3>1
  <2>2. CASE ~(q < 0)
    <3>1. One * Magnitude(q) = m
      BY <2>2 DEF Magnitude, m
    <3>2. QED
      BY <1>1, <1>4, <1>6, <1>7, <1>9, <2>2, <3>1
  <2>3. QED
    BY <2>1, <2>2
<1>11. 2 * TwoTo(decimal_point) * Magnitude(w) = 2 * u
  BY <1>8 DEF P, u
<1>12. QED
  BY <1>4, <1>5, <1>10, <1>11

(* The two bits that are set aside are left by the weights: with an int of *)
(* 32 bits, those of no neuron add up to 2^30.                             *)
TwoBitsAreLeft == bits_used_for_max + 2 <= IntWidth

(* What holds of each weight in fixed point holds of their total.          *)
LEMMA TotalIsClose ==
  ASSUME NEW S, IsFiniteSet(S), NEW W, NEW A, NEW P \in Nat, NEW k \in Nat,
         \A c \in S : W[c] \in Nat /\ A[c] \in Nat /\ k * A[c] <= P * W[c]
  PROVE  k * Total(A, S) <= P * Total(W, S)
<1> DEFINE T == {R \in SUBSET S : k * Total(A, R) <= P * Total(W, R)}
<1>1. {} \in T
  <2>1. Total(A, {}) = 0 /\ Total(W, {}) = 0
    BY TotalOfNone
  <2>2. k * 0 <= P * 0
    OBVIOUS
  <2>3. QED
    BY <2>1, <2>2
<1>2. ASSUME NEW R \in SUBSET S, NEW x \in S, x \notin R, R \in T
      PROVE  R \cup {x} \in T
  <2>1. IntsOn(A, S) /\ IntsOn(W, S)
    BY DEF IntsOn
  <2>2. Total(A, R \cup {x}) = Total(A, R) + A[x] /\ Total(A, R) \in Int
    BY <1>2, <2>1, TotalOfMore, SMTT(30)
  <2>3. Total(W, R \cup {x}) = Total(W, R) + W[x] /\ Total(W, R) \in Int
    BY <1>2, <2>1, TotalOfMore, SMTT(30)
  <2> DEFINE a == Total(A, R)  b == A[x]
             w == Total(W, R)  v == W[x]
  <2>4. /\ a \in Int /\ b \in Int /\ w \in Int /\ v \in Int
        /\ k * a <= P * w /\ k * b <= P * v
    BY <1>2, <2>2, <2>3
  <2> HIDE DEF a, b, w, v
  <2>5. k * (a + b) <= P * (w + v)
    <3>1. /\ k * (a + b) = k * a + k * b /\ k * a \in Int /\ k * b \in Int
          /\ P * (w + v) = P * w + P * v /\ P * w \in Int /\ P * v \in Int
      BY <2>4, SMT
    <3>2. QED
      BY <2>4, <3>1
  <2>6. QED
    BY <2>2, <2>3, <2>5 DEF a, b, w, v
<1> HIDE DEF T
<1>3. S \in T
  BY <1>1, <1>2, AddingElements
<1>4. QED
  BY <1>3 DEF T

(* With the decimal point that is chosen, twice, and the bits used, two    *)
(* bits of the int are left.                                               *)
LEMMA BitsAreLeft ==
  ASSUME bits_used_for_max \in Nat, bits_used_for_max + 2 <= IntWidth
  PROVE  /\ decimal_point \in Nat /\ IntWidth - 1 \in Nat
         /\ 2 * (TwoTo(decimal_point) * (TwoTo(decimal_point) * TwoTo(bits_used_for_max)))
              <= TwoTo(IntWidth - 1)
<1> DEFINE b == bits_used_for_max
           d == Halved(b)
<1>1. IntWidth \in Nat /\ IntWidth - 2 - b \in Nat /\ b \in Nat
  BY FileAssumption
<1>2. d \in Nat /\ 2 * d <= IntWidth - 2 - b
  <2> DEFINE v == IntWidth - 2 - b
  <2>1. v \in Nat
    BY <1>1
  <2> HIDE DEF v
  <2>2. v \div 2 \in Nat /\ 2 * (v \div 2) <= v
    BY <2>1
  <2>3. QED
    BY <2>2 DEF Halved, v
<1> HIDE DEF b, d
<1>3. decimal_point = d
  <2>1. \A y \in {0, d} : d >= y
    BY <1>2
  <2>2. Max({0, d}) \in {0, d} /\ Max({0, d}) >= d /\ Max({0, d}) >= 0
    BY <2>1 DEF Max
  <2>3. Max({0, d}) = d
    BY <1>2, <2>2
  <2>4. QED
    BY <2>3 DEF decimal_point, d, b
<1>4. TwoTo(d + (d + b)) = TwoTo(d) * (TwoTo(d) * TwoTo(b))
  <2>1. d + b \in Nat
    BY <1>1, <1>2
  <2>2. QED
    BY <1>1, <1>2, <2>1, ExponentsAddUp
<1>5. 2 * TwoTo(d + (d + b)) <= TwoTo(IntWidth - 1)
  <2>1. d + (d + b) \in Nat /\ d + (d + b) + 1 \in Nat /\ IntWidth - 1 \in Nat
        /\ d + (d + b) + 1 <= IntWidth - 1
    BY <1>1, <1>2
  <2>2. TwoTo(d + (d + b) + 1) = 2 * TwoTo(d + (d + b))
    BY <2>1, PowersOfTwo
  <2>3. QED
    BY <2>1, <2>2, PowersInOrder
<1>6. IntWidth - 1 \in Nat
  BY <1>1
<1>7. QED
  BY <1>2, <1>3, <1>4, <1>5, <1>6 DEF b

(* What is summed up for a neuron, from the total of its weights.          *)
LEMMA ProductsFitTheInt ==
  ASSUME NEW M \in Nat, NEW P \in Nat, P > 0, NEW B \in Nat, NEW S \in Nat,
         NEW Room \in Nat,
         M < One * B, One * S <= (2 * P) * M, 2 * (P * (P * B)) <= Room
  PROVE  S * P < Room
<1>1. One \in Nat /\ One > 0
  BY FileAssumption
<1> DEFINE Q == P * P
           s == S * P
           t == P * (P * B)
<1>2. (One * S) * P <= ((2 * P) * M) * P
  <2>1. One * S \in Nat /\ (2 * P) * M \in Nat
    BY <1>1, SMT
  <2>2. QED
    BY <2>1, ProductsGrow
<1>3. /\ (One * S) * P = s * One /\ s \in Nat /\ s * One \in Nat
      /\ ((2 * P) * M) * P = 2 * (M * Q) /\ Q \in Nat /\ Q > 0 /\ M * Q \in Nat
      /\ (One * B) * Q = t * One /\ t \in Nat /\ t * One \in Nat /\ One * B \in Nat
      /\ (2 * t) * One = 2 * (t * One) /\ 2 * t \in Nat
  BY <1>1, SMTT(60)
<1> HIDE DEF Q, s, t
<1>4. M * Q < t * One
  BY <1>3, ProductsGrow
<1>5. s * One < (2 * t) * One
  BY <1>2, <1>3, <1>4
<1>6. s < 2 * t
  <2> SUFFICES ASSUME 2 * t <= s PROVE FALSE
    BY <1>3
  <2>1. (2 * t) * One <= s * One
    BY <1>1, <1>3, ProductsGrow
  <2>2. QED
    BY <1>3, <1>5, <2>1
<1>7. 2 * t <= Room
  BY DEF t
<1>8. QED
  BY <1>3, <1>6, <1>7 DEF s

(* The places of a neuron's inputs are places of connections.              *)
LEMMA RangesAreGiven ==
  ASSUME DividedInv, pc # "start"
  PROVE  RangesGiven
<1> DEFINE N == layers[Len(asked)].last
<1>1. PICK total \in Nat : /\ DOMAIN connections = 0 .. total - 1
                           /\ Ranges(first_con, last_con, N, total)
  BY DEF DividedInv, Divided
<1> HIDE DEF N
<1>2. /\ N \in Nat
      /\ \A n \in 0 .. N - 1 :
           /\ first_con[n] \in Nat /\ last_con[n] \in Nat
           /\ Places(first_con, last_con, n) \subseteq 0 .. total - 1
  BY <1>1, PlacesGiven
<1>3. DOMAIN first_con = 0 .. N - 1
  BY <1>1 DEF Ranges
<1>4. IsFiniteSet(0 .. N - 1)
  BY <1>2, FS_Interval
<1>5. \A n : Places(first_con, last_con, n) = Slots(n)
  BY DEF Places, Slots
<1>6. QED
  BY <1>1, <1>2, <1>3, <1>4, <1>5 DEF RangesGiven

(* The connections of a file in fixed point.                               *)
LEMMA FixedFileGiven ==
  \A c \in DOMAIN connections : FixedFile.connections[c].weight = Fixed(WeightOf(c))
<1>2. DOMAIN Network.connections = DOMAIN connections
  BY DEF Network
<1> DEFINE f == Saved(Network, Complete)
<1>3. DOMAIN f.connections = DOMAIN connections
  BY <1>2 DEF Saved
<1>4. FixedFile.connections =
        [c \in DOMAIN f.connections |->
           [from |-> f.connections[c].from,
            weight |-> Fixed(Weights[1 + (c % Len(Weights))])]]
  BY DEF FixedFile, Saved
<1> HIDE DEF f
<1>5. QED
  BY <1>3, <1>4 DEF WeightOf

(* What is summed up for a neuron.                                         *)
LEMMA FixedSumsFit ==
  ASSUME RangesGiven, TwoBitsAreLeft, file = FixedFile, NEW n \in DOMAIN first_con
  PROVE  SumFunction([c \in Slots(n) |-> LET w == file.connections[c].weight
                                         IN IF w < 0 THEN -w ELSE w])
           * TwoTo(decimal_point) < TwoTo(IntWidth - 1)
<1> DEFINE S == Slots(n)
           P == TwoTo(decimal_point)
           B == TwoTo(bits_used_for_max)
           Room == TwoTo(IntWidth - 1)
           A == [c \in S |-> Magnitude(Fixed(WeightOf(c)))]
           W == AllMagnitudes
<1>1. bits_used_for_max \in Nat /\ NeuronWeight(n) < One * B
  BY BitsHoldWeights
<1>2. /\ decimal_point \in Nat /\ IntWidth - 1 \in Nat
      /\ 2 * (P * (P * B)) <= Room
  BY <1>1, BitsAreLeft DEF TwoBitsAreLeft
<1>3. IsFiniteSet(S) /\ S \subseteq Nat /\ S \subseteq DOMAIN connections
  BY SlotsGiven DEF RangesGiven
<1>4. P \in Nat /\ P > 0 /\ B \in Nat /\ Room \in Nat /\ One \in Nat
  BY <1>1, <1>2, PowersGrow, FileAssumption
<1>5. ASSUME NEW c \in S
      PROVE  /\ W[c] \in Nat /\ A[c] \in Nat
             /\ One * A[c] <= (2 * P) * W[c]
  <2>1. c \in Nat
    BY <1>3
  <2>2. /\ WeightOf(c) \in Int /\ Magnitude(WeightOf(c)) \in Nat
        /\ W[c] = Magnitude(WeightOf(c))
    BY <2>1, WeightsGiven DEF AllMagnitudes
  <2>3. /\ Fixed(WeightOf(c)) \in Int
        /\ One * Magnitude(Fixed(WeightOf(c))) <= 2 * P * Magnitude(WeightOf(c))
    BY <1>2, <2>2, FixedIsClose
  <2>4. A[c] = Magnitude(Fixed(WeightOf(c))) /\ A[c] \in Nat
    BY <2>3 DEF Magnitude
  <2> HIDE DEF A, W, P
  <2>5. QED
    BY <2>2, <2>3, <2>4
<1>6. ASSUME NEW c \in S
      PROVE  A[c] = LET w == file.connections[c].weight
                    IN IF w < 0 THEN -w ELSE w
  <2>1. file.connections[c].weight = Fixed(WeightOf(c))
    BY <1>3, FixedFileGiven
  <2>2. QED
    BY <2>1 DEF Magnitude
<1>7. SumFunction([c \in S |-> LET w == file.connections[c].weight
                               IN IF w < 0 THEN -w ELSE w]) = Total(A, S)
  <2> HIDE DEF A, S
  <2>1. QED
    BY <1>6, Zenon DEF Total
<1>8. NeuronWeight(n) = Total(W, S) /\ NeuronWeight(n) \in Nat
  BY NeuronWeightGiven
<1> HIDE DEF A, W, S, P, B, Room
<1>9. Total(A, S) \in Nat
  BY <1>3, <1>5, TotalIsNat
<1>10. One * Total(A, S) <= (2 * P) * Total(W, S)
  <2>1. 2 * P \in Nat
    BY <1>4
  <2>2. QED
    BY <1>3, <1>4, <1>5, <2>1, TotalIsClose
<1>11. Total(A, S) * P < Room
  BY <1>1, <1>2, <1>4, <1>8, <1>9, <1>10, ProductsFitTheInt
<1>12. QED
  BY <1>7, <1>11 DEF S, P, Room

(* The decimal point that fann_save_to_fixed chooses leaves room: what a   *)
(* neuron sums up of its rounded weights, each times an input of at most   *)
(* 1, fits an int with its sign, for all weights and widths of an int.     *)
THEOREM FixedPointLeavesRoom ==
  ASSUME ProductsFit
  PROVE  FileSpec => [](TwoBitsAreLeft => FixedPointFits)
<1>1. Spec => [](DividedInv /\ WiringInv)
  BY NetworkInvariant
<1>2. FileInv /\ (DividedInv /\ WiringInv) => (TwoBitsAreLeft => FixedPointFits)
  <2> SUFFICES ASSUME FileInv, DividedInv, TwoBitsAreLeft,
                      file # NotThere, file.version = "FIX_2.1"
               PROVE  \A n \in DOMAIN first_con :
                        SumFunction([c \in Slots(n) |->
                                       LET w == file.connections[c].weight
                                       IN IF w < 0 THEN -w ELSE w])
                          * TwoTo(decimal_point) < TwoTo(IntWidth - 1)
    BY Zenon DEF FixedPointFits
  <2>1. pc = "done" /\ file = FixedFile
    BY DEF FileInv, IsFileOf
  <2>2. RangesGiven
    BY <2>1, RangesAreGiven
  <2>3. QED
    BY <2>1, <2>2, FixedSumsFit
<1>3. QED
  BY <1>1, <1>2, FilesKeepNetworks, FilesAreOfNetworks, PTL
=============================================================================
