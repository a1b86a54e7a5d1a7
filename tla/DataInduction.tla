--------------------------- MODULE DataInduction ---------------------------
(***************************************************************************)
(* Induction over data.  A predicate that is proved for all numbers is     *)
(* given as the set of the numbers it holds for, and the step of a fold as *)
(* a function, so that these lemmas can be cited for any of them.          *)
(***************************************************************************)
EXTENDS Integers, Sequences, SequencesExt, FiniteSetsExt, Functions,
        FiniteSetTheorems, WellFoundedInduction, TLAPS

(* A set of natural numbers has a least element, unless it is empty.       *)
LEMMA LeastNumber ==
  ASSUME NEW T \in SUBSET Nat, T # {}
  PROVE  \E x \in T : \A y \in T : x <= y
<1> DEFINE R == OpToRel(<, Nat)
<1>1. IsWellFoundedOn(R, Nat)
  BY NatLessThanWellFounded
<1>2. T \subseteq Nat /\ T # {}
  OBVIOUS
<1>3. \A x, y \in Nat : x < y => <<x, y>> \in R
  BY DEF OpToRel
<1> HIDE DEF R
<1>4. \E x \in T : \A y \in T : ~ (<<y, x>> \in R)
  BY <1>1, <1>2, WFMin
<1>5. \A x, y \in T : ~ (<<y, x>> \in R) => x <= y
  BY <1>2, <1>3
<1>6. QED
  BY <1>4, <1>5

(* What holds for 0 and, when it holds for a number, for the next, up to n.*)
LEMMA CountingUp ==
  ASSUME NEW n \in Nat, NEW T, 0 \in T,
         \A k \in 0 .. n - 1 : k \in T => k + 1 \in T
  PROVE  \A k \in 0 .. n : k \in T
<1> SUFFICES ASSUME NEW m \in 0 .. n, m \notin T
             PROVE  FALSE
  OBVIOUS
<1> DEFINE Missing == {k \in 0 .. n : k \notin T}
<1>1. Missing \in SUBSET Nat /\ Missing # {}
  OBVIOUS
<1>2. PICK x \in Missing : \A y \in Missing : x <= y
  BY <1>1, LeastNumber
<1>3. x \in 0 .. n /\ x \notin T /\ x # 0
  BY <1>2
<1>4. x - 1 \in 0 .. n - 1 /\ x - 1 + 1 = x
  BY <1>3
<1>5. x - 1 \notin T
  BY <1>3, <1>4
<1>6. x - 1 \in Missing
  BY <1>4, <1>5
<1>7. QED
  BY <1>2, <1>3, <1>6

(* The greatest of finitely many numbers.                                  *)
LEMMA GreatestNumber ==
  ASSUME NEW n \in Nat, NEW s \in SUBSET (1 .. n), s # {}
  PROVE  Max(s) \in s /\ \A y \in s : y <= Max(s)
<1> DEFINE Bounds == {b \in Nat : \A y \in s : y <= b}
<1>1. n \in Bounds
  OBVIOUS
<1>2. PICK b \in Bounds : \A c \in Bounds : b <= c
  BY <1>1, LeastNumber
<1>3. b \in s
  <2> SUFFICES ASSUME b \notin s PROVE FALSE
    OBVIOUS
  <2>1. \A y \in s : y \in Nat /\ y >= 1 /\ y <= b /\ y # b
    BY <1>2
  <2>2. b - 1 \in Bounds
    <3>1. b \in Nat /\ b >= 1
      <4>1. PICK y \in s : TRUE
        OBVIOUS
      <4>2. y \in Nat /\ y >= 1 /\ y <= b /\ b \in Nat
        BY <1>2, <2>1
      <4>3. QED
        BY <4>2
    <3>2. \A y \in s : y <= b - 1
      BY <2>1, <3>1
    <3>3. QED
      BY <3>1, <3>2
  <2>3. QED
    BY <1>2, <2>2
<1>4. \E x \in s : \A y \in s : x >= y
  BY <1>2, <1>3
<1>5. Max(s) \in s /\ \A y \in s : Max(s) >= y
  BY <1>4 DEF Max
<1>6. QED
  BY <1>5

(* The greatest of some numbers below n is one of them.                    *)
LEMMA GreatestPlace ==
  ASSUME NEW n \in Nat, NEW s \in SUBSET (0 .. n - 1), s # {}
  PROVE  Max(s) \in s
<1> DEFINE T == {n - y : y \in s}
<1>1. T \in SUBSET Nat /\ T # {}
  <2>1. \A y \in 0 .. n - 1 : n - y \in Nat
    OBVIOUS
  <2>2. \A y \in s : n - y \in Nat
    BY <2>1
  <2>3. QED
    BY <2>2, Zenon
<1>2. PICK z \in T : \A y \in T : z <= y
  <2> HIDE DEF T
  <2>1. QED
    BY <1>1, LeastNumber
<1>3. PICK x \in s : z = n - x
  OBVIOUS
<1>4. \A y \in s : n - y \in T
  OBVIOUS
<1>5. \A y \in s : x >= y
  <2> TAKE y \in s
  <2>1. n - x <= n - y /\ x \in Int /\ y \in Int
    BY <1>2, <1>3, <1>4
  <2>2. QED
    BY <2>1
<1>6. QED
  BY <1>5 DEF Max

(* A fold over 1 .. n takes the greatest element last.  Its values on all  *)
(* the subsets exist, whatever a step does.                                *)
FoldsTo(f, n, base, step) ==
  f = [s \in SUBSET (1 .. n) |->
         IF s = {} THEN base ELSE step[<<f[s \ {Max(s)}], Max(s)>>]]

(* Such a fold is a function: on every number of places it exists.         *)
LEMMA FoldExists ==
  ASSUME NEW n \in Nat, NEW V, NEW base \in V, NEW step \in [V \X (1 .. n) -> V]
  PROVE  \E f \in [SUBSET (1 .. n) -> V] : FoldsTo(f, n, base, step)
<1> DEFINE T == {m \in 0 .. n : \E f \in [SUBSET (1 .. m) -> V] :
                                   FoldsTo(f, m, base, step)}
<1>1. 0 \in T
  <2> DEFINE f == [s \in SUBSET (1 .. 0) |-> base]
  <2>1. \A s \in SUBSET (1 .. 0) : s = {}
    OBVIOUS
  <2>2. f \in [SUBSET (1 .. 0) -> V] /\ FoldsTo(f, 0, base, step)
    BY <2>1 DEF FoldsTo
  <2>3. QED
    BY <2>2
<1>2. ASSUME NEW m \in 0 .. n - 1, m \in T
      PROVE  m + 1 \in T
  <2>1. PICK f \in [SUBSET (1 .. m) -> V] : FoldsTo(f, m, base, step)
    BY <1>2
  <2> DEFINE g == [s \in SUBSET (1 .. m + 1) |->
                     IF m + 1 \in s THEN step[<<f[s \ {m + 1}], m + 1>>] ELSE f[s]]
  <2>2. ASSUME NEW s \in SUBSET (1 .. m + 1)
        PROVE  /\ s \ {m + 1} \in SUBSET (1 .. m)
               /\ m + 1 \notin s => s \in SUBSET (1 .. m)
               /\ m + 1 \in s => s # {} /\ Max(s) = m + 1
    <3>1. CASE m + 1 \in s
      <4>1. s # {} /\ m + 1 \in Nat
        BY <3>1
      <4>2. Max(s) \in s /\ \A y \in s : y <= Max(s)
        BY <4>1, GreatestNumber
      <4>3. Max(s) \in 1 .. m + 1 /\ m + 1 <= Max(s)
        BY <3>1, <4>2
      <4> Max(s) = m + 1
        BY <4>1, <4>3
      <4>4. QED
        BY <3>1, <4>1, <4>3
    <3>2. CASE m + 1 \notin s
      BY <3>2
    <3>3. QED
      BY <3>1, <3>2
  <2>3. g \in [SUBSET (1 .. m + 1) -> V]
    <3> SUFFICES ASSUME NEW s \in SUBSET (1 .. m + 1) PROVE g[s] \in V
      OBVIOUS
    <3>1. CASE m + 1 \in s
      <4>1. <<f[s \ {m + 1}], m + 1>> \in V \X (1 .. n)
        BY <2>2, <1>2
      <4>2. QED
        BY <3>1, <4>1
    <3>2. CASE m + 1 \notin s
      BY <2>2, <3>2
    <3>3. QED
      BY <3>1, <3>2
  <2>4. ASSUME NEW s \in SUBSET (1 .. m + 1)
        PROVE  g[s] = IF s = {} THEN base
                      ELSE step[<<g[s \ {Max(s)}], Max(s)>>]
    <3>1. CASE m + 1 \in s
      <4>1. g[s \ {m + 1}] = f[s \ {m + 1}]
        <5>1. s \ {m + 1} \in SUBSET (1 .. m + 1) /\ m + 1 \notin s \ {m + 1}
          OBVIOUS
        <5>2. QED
          BY <5>1
      <4>2. g[s] = step[<<f[s \ {m + 1}], m + 1>>] /\ Max(s) = m + 1 /\ s # {}
        BY <2>2, <3>1
      <4> HIDE DEF g
      <4>3. QED
        BY <4>1, <4>2
    <3>2. CASE m + 1 \notin s
      <4>1. s \in SUBSET (1 .. m) /\ s \ {Max(s)} \in SUBSET (1 .. m)
            /\ s \ {Max(s)} \in SUBSET (1 .. m + 1) /\ m + 1 \notin s \ {Max(s)}
        BY <2>2, <3>2
      <4>2. g[s] = f[s] /\ g[s \ {Max(s)}] = f[s \ {Max(s)}]
        BY <3>2, <4>1
      <4>3. f[s] = IF s = {} THEN base ELSE step[<<f[s \ {Max(s)}], Max(s)>>]
        BY <2>1, <4>1 DEF FoldsTo
      <4> HIDE DEF g
      <4>4. QED
        BY <4>2, <4>3
    <3>3. QED
      BY <3>1, <3>2
  <2> HIDE DEF g
  <2>5. FoldsTo(g, m + 1, base, step)
    BY <2>3, <2>4 DEF FoldsTo
  <2>6. m + 1 \in 0 .. n
    BY <1>2
  <2>7. QED
    BY <2>3, <2>5, <2>6
<1> HIDE DEF T
<1>3. n \in T
  BY <1>1, <1>2, CountingUp
<1>4. QED
  BY <1>3 DEF T

(* The sets a fold goes through.                                           *)
LEMMA UpToNext ==
  ASSUME NEW n \in Nat, NEW k \in 0 .. n - 1
  PROVE  /\ 1 .. k + 1 \in SUBSET (1 .. n) /\ 1 .. k + 1 # {}
         /\ Max(1 .. k + 1) = k + 1
         /\ (1 .. k + 1) \ {Max(1 .. k + 1)} = 1 .. k
<1> DEFINE s == 1 .. k + 1
<1>1. s # {} /\ s \in SUBSET (1 .. n) /\ k + 1 \in s /\ s \ {k + 1} = 1 .. k
      /\ \A y \in s : y <= k + 1 /\ y \in Int
  OBVIOUS
<1> HIDE DEF s
<1>2. Max(s) \in s /\ \A y \in s : y <= Max(s)
  BY <1>1, GreatestNumber
<1>3. Max(s) = k + 1
  BY <1>1, <1>2
<1>4. QED
  BY <1>1, <1>3 DEF s

(* The lesser of two numbers.                                              *)
LEMMA LesserNumber ==
  ASSUME NEW a \in Nat, NEW b \in Nat
  PROVE  /\ Min({a, b}) \in Nat /\ Min({a, b}) <= a /\ Min({a, b}) <= b
         /\ Min({a, b}) \in {a, b}
<1>1. \E x \in {a, b} : \A y \in {a, b} : x <= y
  <2>1. CASE a <= b
    BY <2>1
  <2>2. CASE ~(a <= b)
    BY <2>2
  <2>3. QED
    BY <2>1, <2>2
<1>2. Min({a, b}) \in {a, b} /\ \A y \in {a, b} : Min({a, b}) <= y
  BY <1>1 DEF Min
<1>3. QED
  BY <1>2

-----------------------------------------------------------------------------
(* Sums                                                                    *)

(* The sum of a function over a set is the value, at that set, of a        *)
(* function on its subsets that takes one element at a time.               *)
Taken(s) == CHOOSE x \in s : TRUE

SumsUp(p, f, S) ==
  p = [s \in SUBSET S |->
         IF s = {} THEN 0 ELSE f[Taken(s)] + p[s \ {Taken(s)}]]

(* The sums over the subsets of a finite set exist.                        *)
LEMMA SumsExist ==
  ASSUME NEW S, IsFiniteSet(S), NEW f, \A x \in S : f[x] \in Int
  PROVE  \E p \in [SUBSET S -> Int] : SumsUp(p, f, S)
<1> DEFINE UpTo(p, m) ==
             \A s \in SUBSET S : Cardinality(s) <= m =>
               p[s] = IF s = {} THEN 0 ELSE f[Taken(s)] + p[s \ {Taken(s)}]
           T == {m \in 0 .. Cardinality(S) :
                   \E p \in [SUBSET S -> Int] : UpTo(p, m)}
<1>1. \A s \in SUBSET S : IsFiniteSet(s) /\ Cardinality(s) \in Nat
                          /\ Cardinality(s) <= Cardinality(S)
                          /\ (Cardinality(s) = 0 <=> s = {})
  BY FS_Subset, FS_CardinalityType, FS_EmptySet
<1>2. \A s \in SUBSET S : s # {} =>
        /\ Taken(s) \in S /\ Taken(s) \in s /\ s \ {Taken(s)} \in SUBSET S
        /\ Cardinality(s \ {Taken(s)}) = Cardinality(s) - 1
  BY <1>1, FS_RemoveElement DEF Taken
<1>3. 0 \in T
  <2> DEFINE p == [s \in SUBSET S |-> 0]
  <2>1. p \in [SUBSET S -> Int] /\ UpTo(p, 0)
    BY <1>1
  <2>2. 0 \in 0 .. Cardinality(S)
    BY <1>1
  <2> HIDE DEF p, UpTo
  <2>3. QED
    BY <2>1, <2>2
<1>4. ASSUME NEW m \in 0 .. Cardinality(S) - 1, m \in T
      PROVE  m + 1 \in T
  <2>1. PICK p \in [SUBSET S -> Int] : UpTo(p, m)
    <3> HIDE DEF UpTo
    <3>1. QED
      BY <1>4
  <2> DEFINE q == [s \in SUBSET S |->
                     IF s = {} THEN 0 ELSE f[Taken(s)] + p[s \ {Taken(s)}]]
  <2>2. q \in [SUBSET S -> Int]
    <3> SUFFICES ASSUME NEW s \in SUBSET S, s # {}
                 PROVE  f[Taken(s)] + p[s \ {Taken(s)}] \in Int
      OBVIOUS
    <3>1. f[Taken(s)] \in Int /\ p[s \ {Taken(s)}] \in Int
      BY <1>2, <2>1
    <3>2. QED
      BY <3>1
  <2>3. ASSUME NEW s \in SUBSET S, Cardinality(s) <= m
        PROVE  q[s] = p[s]
    <3>1. p[s] = IF s = {} THEN 0 ELSE f[Taken(s)] + p[s \ {Taken(s)}]
      BY <2>1, <2>3
    <3>2. QED
      BY <3>1
  <2>4. ASSUME NEW s \in SUBSET S, Cardinality(s) <= m + 1, s # {}
        PROVE  q[s] = f[Taken(s)] + q[s \ {Taken(s)}]
    <3>1. s \ {Taken(s)} \in SUBSET S /\ Cardinality(s \ {Taken(s)}) <= m
      <4>1. Cardinality(s \ {Taken(s)}) = Cardinality(s) - 1
            /\ Cardinality(s) \in Nat /\ m \in Int
        BY <1>1, <1>2, <2>4
      <4>2. QED
        BY <1>2, <2>4, <4>1
    <3>2. q[s \ {Taken(s)}] = p[s \ {Taken(s)}]
      BY <2>3, <3>1
    <3>3. q[s] = f[Taken(s)] + p[s \ {Taken(s)}]
      BY <2>4
    <3>4. QED
      BY <3>2, <3>3
  <2>5. {} \in SUBSET S /\ q[{}] = 0
    OBVIOUS
  <2> HIDE DEF q
  <2>6. UpTo(q, m + 1)
    BY <2>4, <2>5
  <2>7. m + 1 \in 0 .. Cardinality(S)
    BY <1>1, <1>4
  <2> HIDE DEF UpTo
  <2>8. QED
    BY <2>2, <2>6, <2>7
<1>5. Cardinality(S) \in T
  <2>1. Cardinality(S) \in Nat
    BY <1>1
  <2> HIDE DEF T
  <2>2. QED
    BY <1>3, <1>4, <2>1, CountingUp
<1>6. PICK p \in [SUBSET S -> Int] : UpTo(p, Cardinality(S))
  <2> HIDE DEF UpTo
  <2>1. QED
    BY <1>5
<1>7. p = [s \in SUBSET S |-> p[s]]
  BY <1>6
<1>8. \A s \in SUBSET S :
        p[s] = IF s = {} THEN 0 ELSE f[Taken(s)] + p[s \ {Taken(s)}]
  BY <1>1, <1>6
<1>9. SumsUp(p, f, S)
  BY <1>7, <1>8 DEF SumsUp
<1>10. QED
  BY <1>9

(* The order in which elements are taken makes no difference, and neither  *)
(* does what the set is a part of.                                         *)
LEMMA SumsAgree ==
  ASSUME NEW S, IsFiniteSet(S), NEW f, \A x \in S : f[x] \in Int,
         NEW p, SumsUp(p, f, S),
         NEW R \in SUBSET S, NEW g, \A x \in R : g[x] = f[x],
         NEW q, SumsUp(q, g, R)
  PROVE  \A s \in SUBSET R : q[s] = p[s]
<1> DEFINE T == {m \in Nat : \A s \in SUBSET R : Cardinality(s) <= m => q[s] = p[s]}
<1>1. \A s \in SUBSET R : /\ IsFiniteSet(s) /\ Cardinality(s) \in Nat
                          /\ s \in SUBSET S
                          /\ Cardinality(s) <= Cardinality(S)
                          /\ (Cardinality(s) = 0 <=> s = {})
  BY FS_Subset, FS_CardinalityType, FS_EmptySet
<1>2. \A s \in SUBSET R : s # {} =>
        /\ Taken(s) \in R /\ s \ {Taken(s)} \in SUBSET R
        /\ Cardinality(s \ {Taken(s)}) = Cardinality(s) - 1
  BY <1>1, FS_RemoveElement DEF Taken
<1>3. \A s \in SUBSET R :
        /\ q[s] = IF s = {} THEN 0 ELSE g[Taken(s)] + q[s \ {Taken(s)}]
        /\ p[s] = IF s = {} THEN 0 ELSE f[Taken(s)] + p[s \ {Taken(s)}]
  BY <1>1 DEF SumsUp
<1>4. 0 \in T
  <2>1. \A s \in SUBSET R : Cardinality(s) <= 0 => s = {}
    BY <1>1
  <2>2. q[{}] = p[{}]
    BY <1>3
  <2>3. QED
    BY <2>1, <2>2
<1>5. ASSUME NEW m \in 0 .. Cardinality(S) - 1, m \in T
      PROVE  m + 1 \in T
  <2> SUFFICES ASSUME NEW s \in SUBSET R, Cardinality(s) <= m + 1
               PROVE  q[s] = p[s]
    BY <1>5
  <2>1. CASE s = {}
    BY <1>3, <2>1
  <2>2. CASE s # {}
    <3> DEFINE r == s \ {Taken(s)}
    <3>1. r \in SUBSET R /\ Cardinality(r) <= m
      BY <1>1, <1>2, <1>5, <2>2
    <3>2. q[r] = p[r]
      <4> HIDE DEF r
      <4>1. QED
        BY <1>5, <3>1
    <3>3. q[s] = g[Taken(s)] + q[r] /\ p[s] = f[Taken(s)] + p[r]
      BY <1>3, <2>2
    <3>4. QED
      BY <1>2, <2>2, <3>2, <3>3
  <2>3. QED
    BY <2>1, <2>2
<1>6. Cardinality(S) \in Nat
  BY FS_CardinalityType
<1>7. Cardinality(S) \in T
  <2> HIDE DEF T
  <2>1. \A k \in 0 .. Cardinality(S) : k \in T
    BY <1>4, <1>5, <1>6, CountingUp
  <2>2. QED
    BY <1>6, <2>1
<1>8. \A s \in SUBSET R : Cardinality(s) <= Cardinality(S) => q[s] = p[s]
  BY <1>7
<1>9. QED
  BY <1>1, <1>8

TakesAny(p, f, S) == \A s \in SUBSET S : \A x \in s : p[s] = f[x] + p[s \ {x}]

(* They are the same whichever element is taken away first.                *)
LEMMA AnyTakenFirst ==
  ASSUME NEW S, IsFiniteSet(S), NEW f, \A x \in S : f[x] \in Int,
         NEW p \in [SUBSET S -> Int], SumsUp(p, f, S)
  PROVE  TakesAny(p, f, S)
<1> DEFINE T == {m \in Nat : \A s \in SUBSET S : Cardinality(s) <= m =>
                               \A x \in s : p[s] = f[x] + p[s \ {x}]}
<1>1. \A s \in SUBSET S : /\ IsFiniteSet(s) /\ Cardinality(s) \in Nat
                          /\ Cardinality(s) <= Cardinality(S)
                          /\ (Cardinality(s) = 0 <=> s = {})
  BY FS_Subset, FS_CardinalityType, FS_EmptySet
<1>2. \A s \in SUBSET S : s # {} => Taken(s) \in s
  BY DEF Taken
<1>3. \A s \in SUBSET S : \A x \in s :
        /\ s \ {x} \in SUBSET S /\ Cardinality(s \ {x}) = Cardinality(s) - 1
  BY <1>1, FS_RemoveElement
<1>4. \A s \in SUBSET S : s # {} => p[s] = f[Taken(s)] + p[s \ {Taken(s)}]
  BY DEF SumsUp
<1>5. 0 \in T
  BY <1>1
<1>6. ASSUME NEW m \in 0 .. Cardinality(S) - 1, m \in T
      PROVE  m + 1 \in T
  <2> SUFFICES ASSUME NEW s \in SUBSET S, Cardinality(s) <= m + 1, NEW x \in s
               PROVE  p[s] = f[x] + p[s \ {x}]
    BY <1>6
  <2> DEFINE y == Taken(s)
  <2>1. y \in s /\ p[s] = f[y] + p[s \ {y}]
    BY <1>2, <1>4
  <2> HIDE DEF y
  <2>2. CASE x = y
    BY <2>1, <2>2
  <2>3. CASE x # y
    <3>1. /\ s \ {x} \in SUBSET S /\ Cardinality(s \ {x}) <= m /\ y \in s \ {x}
          /\ s \ {y} \in SUBSET S /\ Cardinality(s \ {y}) <= m /\ x \in s \ {y}
      <4>1. y \in s \ {x} /\ x \in s \ {y}
        BY <2>1, <2>3
      <4>2. /\ s \ {x} \in SUBSET S /\ Cardinality(s \ {x}) = Cardinality(s) - 1
            /\ s \ {y} \in SUBSET S /\ Cardinality(s \ {y}) = Cardinality(s) - 1
        BY <1>3, <2>1
      <4>3. Cardinality(s) \in Nat /\ m \in Int
        BY <1>1
      <4> HIDE DEF T
      <4>4. Cardinality(s) - 1 <= m
        BY <4>3
      <4>5. QED
        BY <4>1, <4>2, <4>4
    <3>2. /\ p[s \ {x}] = f[y] + p[(s \ {x}) \ {y}]
          /\ p[s \ {y}] = f[x] + p[(s \ {y}) \ {x}]
      <4>1. \A t \in SUBSET S : Cardinality(t) <= m =>
              \A z \in t : p[t] = f[z] + p[t \ {z}]
        BY <1>6
      <4>2. QED
        BY <3>1, <4>1
    <3>3. (s \ {x}) \ {y} = (s \ {y}) \ {x} /\ (s \ {x}) \ {y} \in SUBSET S
      OBVIOUS
    <3> DEFINE rest == p[(s \ {x}) \ {y}]
    <3>4. /\ f[x] \in Int /\ f[y] \in Int /\ rest \in Int
      BY <2>1, <3>3
    <3>5. /\ p[s] = f[y] + p[s \ {y}] /\ p[s \ {y}] = f[x] + rest
          /\ p[s \ {x}] = f[y] + rest
      BY <2>1, <3>2, <3>3
    <3> HIDE DEF rest, T
    <3>6. QED
      BY <3>4, <3>5
  <2>4. QED
    BY <2>2, <2>3
<1>7. Cardinality(S) \in T
  <2>1. Cardinality(S) \in Nat
    BY FS_CardinalityType
  <2> HIDE DEF T
  <2>2. \A k \in 0 .. Cardinality(S) : k \in T
    BY <1>5, <1>6, <2>1, CountingUp
  <2>3. QED
    BY <2>1, <2>2
<1>8. QED
  BY <1>1, <1>7 DEF TakesAny

(* What SumFunction gives.                                                 *)
LEMMA SumGiven ==
  ASSUME NEW f, IsFiniteSet(DOMAIN f), \A x \in DOMAIN f : f[x] \in Int
  PROVE  \E p \in [SUBSET DOMAIN f -> Int] :
           SumsUp(p, f, DOMAIN f) /\ SumFunction(f) = p[DOMAIN f]
<1> DEFINE S == DOMAIN f
<1>1. SumFunction(f) = (CHOOSE p : SumsUp(p, f, S))[S]
  BY DEF SumFunction, SumFunctionOnSet, FoldFunctionOnSet, MapThenFoldSet,
     SumsUp, Taken
<1> HIDE DEF S
<1>2. PICK q \in [SUBSET S -> Int] : SumsUp(q, f, S)
  BY SumsExist DEF S
<1> DEFINE p == CHOOSE p : SumsUp(p, f, S)
<1>3. SumsUp(p, f, S)
  BY <1>2
<1> HIDE DEF p
<1>4. \A x \in S : f[x] \in Int /\ f[x] = f[x]
  BY DEF S
<1>5. IsFiniteSet(S) /\ S \in SUBSET S
  BY DEF S
<1>6. \A s \in SUBSET S : p[s] = q[s]
  BY <1>2, <1>3, <1>4, <1>5, SumsAgree
<1>7. p = [s \in SUBSET S |-> p[s]]
  BY <1>3 DEF SumsUp
<1>8. p \in [SUBSET S -> Int]
  BY <1>2, <1>6, <1>7
<1>9. QED
  BY <1>1, <1>3, <1>8 DEF p, S

(* What SumFunction is of finitely many integers: an integer,              *)
LEMMA SumIsInt ==
  ASSUME NEW f, IsFiniteSet(DOMAIN f), \A x \in DOMAIN f : f[x] \in Int
  PROVE  SumFunction(f) \in Int
<1>1. PICK p \in [SUBSET DOMAIN f -> Int] : SumFunction(f) = p[DOMAIN f]
  BY SumGiven
<1>2. QED
  BY <1>1

(* zero of none,                                                           *)
LEMMA SumOfNone == ASSUME NEW f, DOMAIN f = {} PROVE SumFunction(f) = 0
<1>1. IsFiniteSet(DOMAIN f) /\ \A x \in DOMAIN f : f[x] \in Int
  BY FS_EmptySet
<1>2. PICK p \in [SUBSET DOMAIN f -> Int] :
        SumsUp(p, f, DOMAIN f) /\ SumFunction(f) = p[DOMAIN f]
  BY <1>1, SumGiven
<1>3. QED
  BY <1>2 DEF SumsUp

(* Functions with the same values have the same sum, and one more value is *)
(* one more summand.                                                       *)
LEMMA SumOfSame ==
  ASSUME NEW f, IsFiniteSet(DOMAIN f), \A x \in DOMAIN f : f[x] \in Int,
         NEW g, DOMAIN g = DOMAIN f, \A x \in DOMAIN f : g[x] = f[x]
  PROVE  SumFunction(g) = SumFunction(f)
<1> DEFINE S == DOMAIN f
<1>1. PICK p \in [SUBSET S -> Int] : SumsUp(p, f, S) /\ SumFunction(f) = p[S]
  BY SumGiven
<1>2. PICK q \in [SUBSET S -> Int] : SumsUp(q, g, S) /\ SumFunction(g) = q[S]
  BY SumGiven
<1>3. S \in SUBSET S /\ IsFiniteSet(S) /\ \A x \in S : f[x] \in Int /\ g[x] = f[x]
  OBVIOUS
<1> HIDE DEF S
<1>4. \A s \in SUBSET S : q[s] = p[s]
  BY <1>1, <1>2, <1>3, SumsAgree
<1>5. QED
  BY <1>1, <1>2, <1>3, <1>4

(* and one term more with any element more.                                *)
LEMMA SumOfOneMore ==
  ASSUME NEW f, IsFiniteSet(DOMAIN f), \A x \in DOMAIN f : f[x] \in Int,
         NEW z \in DOMAIN f,
         NEW g, DOMAIN g = DOMAIN f \ {z}, \A x \in DOMAIN g : g[x] = f[x]
  PROVE  SumFunction(f) = SumFunction(g) + f[z]
<1> DEFINE S == DOMAIN f
           R == DOMAIN g
<1>1. PICK p \in [SUBSET S -> Int] : SumsUp(p, f, S) /\ SumFunction(f) = p[S]
  BY SumGiven
<1>2. IsFiniteSet(R) /\ R \in SUBSET S /\ \A x \in R : g[x] \in Int /\ g[x] = f[x]
  BY FS_Subset
<1>3. PICK q \in [SUBSET R -> Int] : SumsUp(q, g, R) /\ SumFunction(g) = q[R]
  BY <1>2, SumGiven
<1>4. /\ S \in SUBSET S /\ IsFiniteSet(S) /\ R = S \ {z} /\ R \in SUBSET R
      /\ z \in S /\ \A x \in S : f[x] \in Int
  OBVIOUS
<1> HIDE DEF S, R
<1>5. q[R] = p[R]
  <2>1. \A s \in SUBSET R : q[s] = p[s]
    BY <1>1, <1>2, <1>3, <1>4, SumsAgree
  <2>2. QED
    BY <1>4, <2>1
<1>6. p[S] = f[z] + p[R]
  <2>1. TakesAny(p, f, S)
    BY <1>1, <1>4, AnyTakenFirst
  <2>2. QED
    BY <1>4, <2>1 DEF TakesAny
<1>7. p[R] \in Int /\ f[z] \in Int
  BY <1>1, <1>2, <1>4
<1>8. QED
  BY <1>1, <1>3, <1>5, <1>6, <1>7

(* Sums over numbers in a row: what begins behind each of them.            *)
SumOver(F, a, b) == SumFunction([x \in a .. b |-> F[x]])

(* Over a range of numbers: one term more with the next.                   *)
LEMMA SumsInARow ==
  ASSUME NEW a \in Int, NEW b \in Int, a <= b + 1, NEW F,
         \A x \in a .. b + 1 : F[x] \in Int
  PROVE  SumOver(F, a, b + 1) = SumOver(F, a, b) + F[b + 1]
<1> DEFINE f == [x \in a .. b + 1 |-> F[x]]
           g == [x \in a .. b |-> F[x]]
<1>1. /\ DOMAIN f = a .. b + 1 /\ DOMAIN g = DOMAIN f \ {b + 1}
      /\ b + 1 \in DOMAIN f /\ f[b + 1] = F[b + 1]
      /\ \A x \in DOMAIN f : f[x] \in Int
      /\ \A x \in DOMAIN g : g[x] = f[x]
  OBVIOUS
<1>2. IsFiniteSet(DOMAIN f)
  BY <1>1, FS_Interval
<1> HIDE DEF f, g
<1>3. SumFunction(f) = SumFunction(g) + f[b + 1]
  BY <1>1, <1>2, SumOfOneMore
<1>4. QED
  BY <1>1, <1>3 DEF f, g, SumOver

(* What holds of the empty set and, when it holds of a set, of the set with *)
(* one element more.                                                       *)
LEMMA AddingElements ==
  ASSUME NEW S, IsFiniteSet(S), NEW T, {} \in T,
         \A R \in SUBSET S, x \in S : x \notin R /\ R \in T => R \cup {x} \in T
  PROVE  S \in T
<1> DEFINE Of(m) == \A R \in SUBSET S : Cardinality(R) = m => R \in T
           M == {m \in 0 .. Cardinality(S) : Of(m)}
<1>1. \A R \in SUBSET S : /\ IsFiniteSet(R) /\ Cardinality(R) \in Nat
                          /\ (Cardinality(R) = 0 <=> R = {})
  BY FS_Subset, FS_CardinalityType, FS_EmptySet
<1>2. Cardinality(S) \in Nat
  BY FS_CardinalityType
<1>3. 0 \in M
  BY <1>1, <1>2
<1>4. ASSUME NEW m \in 0 .. Cardinality(S) - 1, m \in M
      PROVE  m + 1 \in M
  <2>1. ASSUME NEW R \in SUBSET S, Cardinality(R) = m + 1
        PROVE  R \in T
    <3>1. R # {} /\ m \in Nat
      BY <1>1, <2>1
    <3>2. PICK x : x \in R
      BY <3>1
    <3>3. Cardinality(R \ {x}) = Cardinality(R) - 1
      BY <1>1, <3>2, FS_RemoveElement
    <3>4. Cardinality(R \ {x}) = m
      BY <2>1, <3>1, <3>3
    <3>5. R \ {x} \in T
      BY <1>4, <3>4
    <3>6. x \in S /\ x \notin R \ {x} /\ (R \ {x}) \cup {x} = R /\ R \ {x} \in SUBSET S
      BY <3>2
    <3>7. (R \ {x}) \cup {x} \in T
      BY <3>5, <3>6
    <3>8. QED
      BY <3>6, <3>7
  <2>2. m + 1 \in 0 .. Cardinality(S)
    BY <1>2
  <2>3. Of(m + 1)
    BY <2>1
  <2> HIDE DEF Of
  <2>4. QED
    BY <2>2, <2>3
<1> HIDE DEF M
<1>5. \A k \in 0 .. Cardinality(S) : k \in M
  BY <1>2, <1>3, <1>4, CountingUp
<1>6. Cardinality(S) \in M
  BY <1>2, <1>5
<1>7. QED
  BY <1>6 DEF M

(* The sum of the values a function has on a set.                          *)
Total(F, S) == SumFunction([x \in S |-> F[x]])
IntsOn(F, S) == \A x \in S : F[x] \in Int

(* The total of integers is one.                                           *)
LEMMA TotalIsInt ==
  ASSUME NEW S, IsFiniteSet(S), NEW F, IntsOn(F, S)
  PROVE  Total(F, S) \in Int
<1> DEFINE f == [x \in S |-> F[x]]
<1>1. DOMAIN f = S /\ \A x \in DOMAIN f : f[x] \in Int
  BY DEF IntsOn
<1> HIDE DEF f
<1>2. SumFunction(f) \in Int
  BY <1>1, SumIsInt
<1>3. QED
  BY <1>2 DEF Total, f

(* The total over nothing is zero.                                         *)
LEMMA TotalOfNone == ASSUME NEW F PROVE Total(F, {}) = 0
<1> DEFINE f == [x \in {} |-> F[x]]
<1>1. DOMAIN f = {}
  OBVIOUS
<1> HIDE DEF f
<1>2. SumFunction(f) = 0
  BY <1>1, SumOfNone
<1>3. QED
  BY <1>2 DEF Total, f

(* An element more adds its term.                                          *)
LEMMA TotalOfMore ==
  ASSUME NEW S, IsFiniteSet(S), NEW F, IntsOn(F, S),
         NEW R \in SUBSET S, NEW x \in S, x \notin R
  PROVE  /\ Total(F, R \cup {x}) = Total(F, R) + F[x]
         /\ Total(F, R) \in Int /\ F[x] \in Int
<1> DEFINE f == [y \in R \cup {x} |-> F[y]]
           g == [y \in R |-> F[y]]
<1>1. /\ DOMAIN f = R \cup {x} /\ x \in DOMAIN f /\ f[x] = F[x]
      /\ DOMAIN g = DOMAIN f \ {x} /\ \A y \in DOMAIN g : g[y] = f[y]
      /\ \A y \in DOMAIN f : f[y] \in Int
  BY DEF IntsOn
<1>2. IsFiniteSet(R \cup {x}) /\ IsFiniteSet(R)
  <2>1. R \cup {x} \in SUBSET S
    OBVIOUS
  <2>2. QED
    BY <2>1, FS_Subset
<1> HIDE DEF f, g
<1>3. SumFunction(f) = SumFunction(g) + f[x]
  BY <1>1, <1>2, SumOfOneMore
<1>4. Total(F, R) \in Int
  BY <1>2, TotalIsInt DEF IntsOn
<1>5. QED
  BY <1>1, <1>3, <1>4 DEF Total, f, g, IntsOn

(* Terms that are the same have the same total.                            *)
LEMMA TotalOfSame ==
  ASSUME NEW S, NEW F, NEW G, \A x \in S : F[x] = G[x]
  PROVE  Total(F, S) = Total(G, S)
<1>1. [x \in S |-> F[x]] = [x \in S |-> G[x]]
  OBVIOUS
<1>2. QED
  BY <1>1 DEF Total

(* Sums of sums, and of multiples.                                         *)
LEMMA TotalsCombine ==
  ASSUME NEW S, IsFiniteSet(S), NEW F, IntsOn(F, S), NEW G, IntsOn(G, S),
         NEW a \in Int,
         NEW H, \A x \in S : H[x] = a * F[x] + G[x]
  PROVE  Total(H, S) = a * Total(F, S) + Total(G, S)
<1> DEFINE T == {R \in SUBSET S : Total(H, R) = a * Total(F, R) + Total(G, R)}
<1>1. IntsOn(H, S)
  <2>1. \A x \in S : F[x] \in Int /\ G[x] \in Int /\ H[x] = a * F[x] + G[x]
    BY DEF IntsOn
  <2>2. QED
    BY <2>1 DEF IntsOn
<1>2. {} \in T
  <2>1. Total(H, {}) = 0 /\ Total(F, {}) = 0 /\ Total(G, {}) = 0
    BY TotalOfNone
  <2>2. QED
    BY <2>1
<1>3. ASSUME NEW R \in SUBSET S, NEW x \in S, x \notin R, R \in T
      PROVE  R \cup {x} \in T
  <2>1. /\ Total(F, R \cup {x}) = Total(F, R) + F[x]
        /\ Total(F, R) \in Int /\ F[x] \in Int
    BY <1>3, TotalOfMore
  <2>2. /\ Total(G, R \cup {x}) = Total(G, R) + G[x]
        /\ Total(G, R) \in Int /\ G[x] \in Int
    BY <1>3, TotalOfMore
  <2>3. Total(H, R \cup {x}) = Total(H, R) + H[x]
    BY <1>1, <1>3, TotalOfMore
  <2>4. Total(H, R) = a * Total(F, R) + Total(G, R) /\ H[x] = a * F[x] + G[x]
    BY <1>3
  <2>5. \A p, q, r, s \in Int : (a * p + q) + (a * r + s) = a * (p + r) + (q + s)
    BY SMT
  <2>6. Total(H, R \cup {x}) = a * Total(F, R \cup {x}) + Total(G, R \cup {x})
    BY <2>1, <2>2, <2>3, <2>4, <2>5
  <2>7. QED
    BY <2>6
<1> HIDE DEF T
<1>4. S \in T
  BY <1>2, <1>3, AddingElements
<1>5. QED
  BY <1>4 DEF T

(* A sum with at most one summand that is not zero.                        *)
LEMMA TotalOfZeros ==
  ASSUME NEW S, IsFiniteSet(S), NEW F, \A x \in S : F[x] = 0
  PROVE  Total(F, S) = 0
<1> DEFINE T == {R \in SUBSET S : Total(F, R) = 0}
<1>1. {} \in T
  BY TotalOfNone
<1>2. ASSUME NEW R \in SUBSET S, NEW x \in S, x \notin R, R \in T
      PROVE  R \cup {x} \in T
  <2>1. IntsOn(F, S)
    BY DEF IntsOn
  <2>2. Total(F, R \cup {x}) = Total(F, R) + F[x]
    BY <1>2, <2>1, TotalOfMore
  <2>3. QED
    BY <1>2, <2>2
<1> HIDE DEF T
<1>3. S \in T
  BY <1>1, <1>2, AddingElements
<1>4. QED
  BY <1>3 DEF T

(* If all terms but one are zero, that one is the total.                   *)
LEMMA TotalOfOne ==
  ASSUME NEW S, IsFiniteSet(S), NEW F, NEW z \in S, F[z] \in Int,
         \A x \in S : x # z => F[x] = 0
  PROVE  Total(F, S) = F[z]
<1> DEFINE R == S \ {z}
<1>1. R \in SUBSET S /\ z \notin R /\ R \cup {z} = S /\ \A x \in R : F[x] = 0
  OBVIOUS
<1>2. IntsOn(F, S)
  BY DEF IntsOn
<1>3. IsFiniteSet(R)
  BY <1>1, FS_Subset
<1> HIDE DEF R
<1>4. Total(F, R) = 0
  BY <1>1, <1>3, TotalOfZeros
<1>5. Total(F, R \cup {z}) = Total(F, R) + F[z]
  BY <1>1, <1>2, TotalOfMore
<1>6. Total(F, S) = 0 + F[z]
  BY <1>1, <1>4, <1>5
<1>7. QED
  BY <1>6

(* The sum of a table, row by row and column by column.                    *)
RowTotals(F, S, T) == [x \in S |-> Total([y \in T |-> F[<<x, y>>]], T)]
ColumnTotals(F, S, T) == [y \in T |-> Total([x \in S |-> F[<<x, y>>]], S)]

(* A table has the same total by rows and by columns.                      *)
LEMMA TotalsExchange ==
  ASSUME NEW S, IsFiniteSet(S), NEW T, IsFiniteSet(T), NEW F,
         \A x \in S, y \in T : F[<<x, y>>] \in Int
  PROVE  Total(RowTotals(F, S, T), S) = Total(ColumnTotals(F, S, T), T)
<1> DEFINE row(x) == [y \in T |-> F[<<x, y>>]]
           rows == [x \in S |-> Total(row(x), T)]
           column(y) == [x \in S |-> F[<<x, y>>]]
           columns(R) == [y \in T |-> Total(column(y), R)]
           U == {R \in SUBSET S : Total(rows, R) = Total(columns(R), T)}
<1>1. \A x \in S : IntsOn(row(x), T)
  BY DEF IntsOn
<1>2. \A y \in T : IntsOn(column(y), S)
  BY DEF IntsOn
<1>3. IntsOn(rows, S)
  <2>1. \A x \in S : Total(row(x), T) \in Int
    BY <1>1, TotalIsInt
  <2>2. QED
    BY <2>1 DEF IntsOn
<1>4. \A R \in SUBSET S : IntsOn(columns(R), T)
  <2> SUFFICES ASSUME NEW R \in SUBSET S, NEW y \in T
               PROVE  Total(column(y), R) \in Int
    BY DEF IntsOn
  <2>1. IsFiniteSet(R) /\ IntsOn(column(y), R)
    BY <1>2, FS_Subset DEF IntsOn
  <2>2. QED
    BY <2>1, TotalIsInt
<1>5. {} \in U
  <2>1. Total(rows, {}) = 0
    BY TotalOfNone
  <2>2. \A y \in T : columns({})[y] = 0
    BY TotalOfNone
  <2>3. Total(columns({}), T) = 0
    BY <2>2, TotalOfZeros
  <2>4. QED
    BY <2>1, <2>3
<1>6. ASSUME NEW R \in SUBSET S, NEW x \in S, x \notin R, R \in U
      PROVE  R \cup {x} \in U
  <2>1. Total(rows, R \cup {x}) = Total(rows, R) + rows[x]
    BY <1>3, <1>6, TotalOfMore
  <2>2. ASSUME NEW y \in T
        PROVE  columns(R \cup {x})[y] = 1 * row(x)[y] + columns(R)[y]
    <3>1. /\ Total(column(y), R \cup {x}) = Total(column(y), R) + column(y)[x]
          /\ Total(column(y), R) \in Int /\ column(y)[x] \in Int
      <4> HIDE DEF column
      <4>1. QED
        BY <1>2, <1>6, TotalOfMore
    <3>2. column(y)[x] = F[<<x, y>>] /\ row(x)[y] = F[<<x, y>>]
      OBVIOUS
    <3>3. /\ columns(R \cup {x})[y] = Total(column(y), R \cup {x})
          /\ columns(R)[y] = Total(column(y), R)
      OBVIOUS
    <3> HIDE DEF columns, column, row
    <3>4. \A p, q \in Int : p + q = 1 * q + p
      BY SMT
    <3>5. QED
      BY <3>1, <3>2, <3>3, <3>4
  <2>3. Total(columns(R \cup {x}), T) = 1 * Total(row(x), T) + Total(columns(R), T)
    <3>1. IntsOn(row(x), T) /\ IntsOn(columns(R), T)
      BY <1>1, <1>4
    <3> DEFINE one == 1
    <3>2. one \in Int /\ \A y \in T :
            columns(R \cup {x})[y] = one * row(x)[y] + columns(R)[y]
      BY <2>2
    <3> HIDE DEF columns, column, row, one
    <3>3. Total(columns(R \cup {x}), T)
            = one * Total(row(x), T) + Total(columns(R), T)
      BY <3>1, <3>2, TotalsCombine
    <3>4. QED
      BY <3>3 DEF one
  <2>4. rows[x] = Total(row(x), T) /\ rows[x] \in Int /\ Total(columns(R), T) \in Int
    BY <1>3, <1>4, TotalIsInt DEF IntsOn
  <2>5. Total(rows, R) = Total(columns(R), T)
    BY <1>6
  <2> HIDE DEF rows, columns, column, row
  <2>6. Total(rows, R \cup {x}) = Total(columns(R \cup {x}), T)
    BY <2>1, <2>3, <2>4, <2>5
  <2>7. QED
    BY <2>6
<1>7. S \in U
  <2> HIDE DEF U
  <2>1. QED
    BY <1>5, <1>6, AddingElements
<1>8. QED
  BY <1>7 DEF RowTotals, ColumnTotals

(* A part of a sum: the rest counts as zero.                               *)
LEMMA TotalOfPart ==
  ASSUME NEW S, IsFiniteSet(S), NEW R \in SUBSET S, NEW F, IntsOn(F, R),
         NEW G, \A x \in S : G[x] = IF x \in R THEN F[x] ELSE 0
  PROVE  Total(F, R) = Total(G, S)
<1> DEFINE T == {Q \in SUBSET S : Total(F, Q \cap R) = Total(G, Q)}
<1>1. {} \in T
  <2>1. {} \cap R = {}
    OBVIOUS
  <2>2. Total(F, {}) = 0 /\ Total(G, {}) = 0
    BY TotalOfNone
  <2>3. QED
    BY <2>1, <2>2
<1>2. ASSUME NEW Q \in SUBSET S, NEW x \in S, x \notin Q, Q \in T
      PROVE  Q \cup {x} \in T
  <2>1. IntsOn(G, S)
    BY DEF IntsOn
  <2>2. /\ Total(G, Q \cup {x}) = Total(G, Q) + G[x]
        /\ Total(G, Q) \in Int
    <3>1. x \notin Q
      BY <1>2
    <3> HIDE DEF T
    <3>2. /\ Total(G, Q \cup {x}) = Total(G, Q) + G[x]
          /\ Total(G, Q) \in Int /\ G[x] \in Int
      BY <2>1, <3>1, TotalOfMore, Zenon
    <3>3. QED
      BY <3>2
  <2>3. Total(F, Q \cap R) = Total(G, Q)
    BY <1>2
  <2>4. CASE x \in R
    <3>1. (Q \cup {x}) \cap R = (Q \cap R) \cup {x} /\ x \notin Q \cap R /\ Q \cap R \in SUBSET R
      BY <1>2, <2>4
    <3>2. IsFiniteSet(R)
      BY FS_Subset
    <3>3. Total(F, (Q \cap R) \cup {x}) = Total(F, Q \cap R) + F[x]
      BY <2>4, <3>1, <3>2, TotalOfMore
    <3>4. Total(F, (Q \cup {x}) \cap R) = Total(G, Q \cup {x})
      BY <2>2, <2>3, <2>4, <3>1, <3>3
    <3>5. QED
      BY <3>4
  <2>5. CASE x \notin R
    <3>1. (Q \cup {x}) \cap R = Q \cap R
      BY <2>5
    <3>2. G[x] = 0
      BY <2>5
    <3>3. Total(F, (Q \cup {x}) \cap R) = Total(G, Q \cup {x})
      BY <2>2, <2>3, <3>1, <3>2
    <3>4. QED
      BY <3>3
  <2>6. QED
    BY <2>4, <2>5
<1> HIDE DEF T
<1>3. S \in T
  BY <1>1, <1>2, AddingElements
<1>4. S \cap R = R
  OBVIOUS
<1>5. QED
  BY <1>3, <1>4 DEF T

(* A sum over the elements another set is counted with.                    *)
LEMMA TotalRenamed ==
  ASSUME NEW S, IsFiniteSet(S), NEW T, IsFiniteSet(T), NEW G, IntsOn(G, T),
         NEW F, NEW h \in [S -> T], \A x \in S : F[x] = G[h[x]],
         \A x, y \in S : h[x] = h[y] => x = y,
         \A y \in T : \E x \in S : h[x] = y
  PROVE  Total(F, S) = Total(G, T)
<1> DEFINE P == [p \in S \X T |-> IF h[p[1]] = p[2] THEN G[p[2]] ELSE 0]
<1>1. \A x \in S, y \in T : P[<<x, y>>] = IF h[x] = y THEN G[y] ELSE 0
  OBVIOUS
<1> HIDE DEF P
<1>2. \A x \in S, y \in T : P[<<x, y>>] \in Int
  <2> TAKE x \in S, y \in T
  <2>1. G[y] \in Int /\ 0 \in Int
    BY DEF IntsOn
  <2>2. P[<<x, y>>] = IF h[x] = y THEN G[y] ELSE 0
    BY <1>1
  <2>3. QED
    BY <2>1, <2>2
<1>3. Total(RowTotals(P, S, T), S) = Total(ColumnTotals(P, S, T), T)
  BY <1>2, TotalsExchange
<1>4. ASSUME NEW x \in S
      PROVE  RowTotals(P, S, T)[x] = F[x]
  <2> DEFINE f == [y \in T |-> P[<<x, y>>]]
             z == h[x]
  <2>1. z \in T /\ f[z] = G[z] /\ G[z] \in Int /\ \A y \in T : y # z => f[y] = 0
    BY <1>1 DEF IntsOn
  <2> HIDE DEF f, z
  <2>2. Total(f, T) = f[z]
    BY <2>1, TotalOfOne
  <2>3. QED
    BY <2>1, <2>2 DEF RowTotals, f, z
<1>5. ASSUME NEW y \in T
      PROVE  ColumnTotals(P, S, T)[y] = G[y]
  <2> DEFINE f == [x \in S |-> P[<<x, y>>]]
  <2>1. PICK z \in S : h[z] = y
    OBVIOUS
  <2>2. f[z] = G[y] /\ G[y] \in Int /\ \A x \in S : x # z => f[x] = 0
    BY <1>1, <2>1 DEF IntsOn
  <2> HIDE DEF f
  <2>3. Total(f, S) = f[z]
    BY <2>1, <2>2, TotalOfOne
  <2>4. QED
    BY <2>2, <2>3 DEF ColumnTotals, f
<1>6. Total(RowTotals(P, S, T), S) = Total(F, S)
  BY <1>4, TotalOfSame
<1>7. Total(ColumnTotals(P, S, T), T) = Total(G, T)
  BY <1>5, TotalOfSame
<1>8. QED
  BY <1>3, <1>6, <1>7

(* A sum, part by part: those elements together that h takes to one y.     *)
PartTotals(F, S, h, T) ==
  [y \in T |-> Total([x \in S |-> IF h[x] = y THEN F[x] ELSE 0], S)]

(* A total may be taken in parts: by where h sends the elements.           *)
LEMMA TotalByParts ==
  ASSUME NEW S, IsFiniteSet(S), NEW T, IsFiniteSet(T), NEW F, IntsOn(F, S),
         NEW h, \A x \in S : h[x] \in T
  PROVE  /\ Total(PartTotals(F, S, h, T), T) = Total(F, S)
         /\ IntsOn(PartTotals(F, S, h, T), T)
<1> DEFINE P == [p \in S \X T |-> IF h[p[1]] = p[2] THEN F[p[1]] ELSE 0]
<1>1. \A x \in S, y \in T : P[<<x, y>>] = IF h[x] = y THEN F[x] ELSE 0
  OBVIOUS
<1> HIDE DEF P
<1>2. \A x \in S, y \in T : P[<<x, y>>] \in Int
  <2> TAKE x \in S, y \in T
  <2>1. F[x] \in Int /\ 0 \in Int
    BY DEF IntsOn
  <2>2. P[<<x, y>>] = IF h[x] = y THEN F[x] ELSE 0
    BY <1>1
  <2>3. QED
    BY <2>1, <2>2
<1>3. Total(RowTotals(P, S, T), S) = Total(ColumnTotals(P, S, T), T)
  BY <1>2, TotalsExchange
<1>4. ASSUME NEW x \in S
      PROVE  RowTotals(P, S, T)[x] = F[x]
  <2> DEFINE f == [y \in T |-> P[<<x, y>>]]
             z == h[x]
  <2>1. z \in T /\ f[z] = F[x] /\ F[x] \in Int /\ \A y \in T : y # z => f[y] = 0
    BY <1>1 DEF IntsOn
  <2> HIDE DEF f, z
  <2>2. Total(f, T) = f[z]
    BY <2>1, TotalOfOne
  <2>3. QED
    BY <2>1, <2>2 DEF RowTotals, f, z
<1>5. ASSUME NEW y \in T
      PROVE  ColumnTotals(P, S, T)[y] = PartTotals(F, S, h, T)[y]
  <2>1. [x \in S |-> P[<<x, y>>]] = [x \in S |-> IF h[x] = y THEN F[x] ELSE 0]
    BY <1>1
  <2>2. QED
    BY <2>1 DEF ColumnTotals, PartTotals
<1>6. Total(RowTotals(P, S, T), S) = Total(F, S)
  BY <1>4, TotalOfSame
<1>7. Total(ColumnTotals(P, S, T), T) = Total(PartTotals(F, S, h, T), T)
  BY <1>5, TotalOfSame
<1>8. IntsOn(PartTotals(F, S, h, T), T)
  <2> SUFFICES ASSUME NEW y \in T PROVE PartTotals(F, S, h, T)[y] \in Int
    BY DEF IntsOn
  <2> DEFINE f == [x \in S |-> IF h[x] = y THEN F[x] ELSE 0]
  <2>1. IntsOn(f, S)
    BY DEF IntsOn
  <2> HIDE DEF f
  <2>2. Total(f, S) \in Int
    BY <2>1, TotalIsInt
  <2>3. QED
    BY <2>2 DEF PartTotals, f
<1>9. QED
  BY <1>3, <1>6, <1>7, <1>8

(* The sum of two sums.                                                    *)
LEMMA TotalsAdd ==
  ASSUME NEW S, IsFiniteSet(S), NEW F, IntsOn(F, S), NEW G, IntsOn(G, S),
         NEW H, \A x \in S : H[x] = F[x] + G[x]
  PROVE  Total(H, S) = Total(F, S) + Total(G, S)
<1> DEFINE one == 1
<1>1. one \in Int /\ \A x \in S : H[x] = one * F[x] + G[x]
  BY DEF IntsOn
<1> HIDE DEF one
<1>2. Total(H, S) = one * Total(F, S) + Total(G, S)
  BY <1>1, TotalsCombine
<1>3. Total(F, S) \in Int
  BY TotalIsInt
<1>4. QED
  BY <1>2, <1>3 DEF one

(* A multiple of a sum.                                                    *)
LEMMA TotalTimes ==
  ASSUME NEW S, IsFiniteSet(S), NEW F, IntsOn(F, S), NEW a \in Int,
         NEW H, \A x \in S : H[x] = a * F[x]
  PROVE  Total(H, S) = a * Total(F, S)
<1> DEFINE zero == [x \in S |-> 0]
<1>1. IntsOn(zero, S) /\ \A x \in S : zero[x] = 0
  BY DEF IntsOn
<1> HIDE DEF zero
<1>2. \A x \in S : H[x] = a * F[x] + zero[x]
  <2> TAKE x \in S
  <2>1. F[x] \in Int /\ zero[x] = 0 /\ H[x] = a * F[x]
    BY <1>1 DEF IntsOn
  <2>2. QED
    BY <2>1
<1>3. Total(H, S) = a * Total(F, S) + Total(zero, S)
  BY <1>1, <1>2, TotalsCombine
<1>4. Total(zero, S) = 0 /\ Total(F, S) \in Int
  BY <1>1, TotalOfZeros, TotalIsInt
<1>5. a * Total(F, S) \in Int
  BY <1>4
<1>6. QED
  BY <1>3, <1>4, <1>5
=============================================================================
