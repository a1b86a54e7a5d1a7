----------------------- MODULE OrdinaryTrainingProofs -----------------------
(***************************************************************************)
(* Proofs about OrdinaryTraining: for every number of patterns, epochs and *)
(* connections, all slopes, and whether or not allocations fail.           *)
(***************************************************************************)
EXTENDS OrdinaryTraining, TLAPS

(* What is not there has no value either.                                  *)
Entry == {e \in [length : Nat, value : Int] : e.length = 0 => e = NULL}
Arrays == [ArrayNames -> Entry]

TypeOK ==
  /\ pc \in {"idle", "epoch", "report", "callback", "outputs", "trained", "last",
                 "crashed"}
  /\ training_algorithm \in Algorithms
  /\ array \in Arrays
  /\ size \in Nat /\ size > 0
  /\ num_data \in Nat /\ max_epochs \in Nat /\ epochs_between_reports \in Nat
  /\ i \in Nat /\ desired_error_reached \in BOOLEAN
  /\ errno_f \in BOOLEAN /\ defined \in BOOLEAN /\ foreign \in BOOLEAN
  /\ refused \in BOOLEAN
  /\ owner \in {"none", "RPROP", "QUICKPROP"}
  /\ epochs \in [all : Nat, reported : Nat]

(* The four arrays that grow with the network are as long as it is.        *)
Arranged(a) ==
  \A name \in ArrayNames \ {"prev_weights_deltas"} :
    a[name] # NULL => a[name].length >= size

(* The last of those fann_clear_train_arrays allocates is alone only when  *)
(* a reallocation has lost one of the others.                              *)
Chained(a) ==
  a["prev_train_slopes"] # NULL =>
    a["train_slopes"] # NULL /\ a["prev_steps"] # NULL

(* Quickprop's own step goes the way its slope did.                        *)
WithItsSlope(step, slope) ==
  /\ step > 10 => slope > 0
  /\ step < -10 => slope < 0

ArraysInv ==
  /\ Arranged(array)
  /\ errno_f \/ Chained(array)
  /\ pc = "crashed" => errno_f \/ (training_algorithm = "BATCH" /\ num_data = 0)
  /\ pc = "report" /\ training_algorithm # "INCREMENTAL" =>
       \A name \in Needed : array[name] # NULL
  /\ pc \in {"outputs", "trained", "last"} =>
       errno_f \/ array["prev_train_slopes"] # NULL

SlopesInv == pc # "crashed" /\ ~refused => array["train_slopes"].value = 0

QuickpropInv ==
  owner # "RPROP" =>
    /\ ~foreign
    /\ WithItsSlope(array["prev_steps"].value, array["prev_train_slopes"].value)

ReportsInv ==
  /\ pc \in {"epoch", "report", "callback"} => i <= max_epochs
  /\ pc = "callback" => epochs.reported = i
  /\ pc \in {"idle", "outputs", "trained", "last"} =>
       (max_epochs > 0 /\ epochs_between_reports > 0 => epochs.reported = i)

TrainingInv ==
  TypeOK /\ ArraysInv /\ SlopesInv /\ QuickpropInv /\ ReportsInv

-----------------------------------------------------------------------------
(* Numbers                                                                 *)

(* The maximum and minimum of two integers.                                *)
LEMMA MaxOfTwo ==
  ASSUME NEW a \in Int, NEW b \in Int
  PROVE  Max({a, b}) = IF a >= b THEN a ELSE b
<1> DEFINE m == IF a >= b THEN a ELSE b
<1>1. m \in {a, b} /\ \A y \in {a, b} : m >= y
  OBVIOUS
<1>2. ASSUME NEW x \in {a, b}, \A y \in {a, b} : x >= y
      PROVE  x = m
  BY <1>2
<1> HIDE DEF m
<1>3. QED
  BY <1>1, <1>2 DEF Max, m

LEMMA MinOfTwo ==
  ASSUME NEW a \in Int, NEW b \in Int
  PROVE  Min({a, b}) = IF a <= b THEN a ELSE b
<1> DEFINE m == IF a <= b THEN a ELSE b
<1>1. m \in {a, b} /\ \A y \in {a, b} : m <= y
  OBVIOUS
<1>2. ASSUME NEW x \in {a, b}, \A y \in {a, b} : x <= y
      PROVE  x = m
  BY <1>2
<1> HIDE DEF m
<1>3. QED
  BY <1>1, <1>2 DEF Min, m

(* The parameters are numbers.                                             *)
LEMMA ParametersTyped ==
  /\ Slopes \subseteq Int
  /\ DeltaZero \in Nat /\ DeltaMin \in Nat /\ DeltaMax \in Nat /\ DeltaZero > 0
  /\ DataSizes \subseteq Nat /\ EpochLimits \subseteq Nat
  /\ ReportIntervals \subseteq Nat /\ MaxEpochs \in Nat
BY TrainingAssumption

(* A quotient is cut off towards zero, and has the sign it should have.    *)
LEMMA QuotientSigned ==
  ASSUME NEW a \in Int, NEW b \in Int, b # 0
  PROVE  /\ Quotient(a, b) \in Int
         /\ (a >= 0 /\ b > 0) \/ (a <= 0 /\ b < 0) => Quotient(a, b) >= 0
         /\ (a <= 0 /\ b > 0) \/ (a >= 0 /\ b < 0) => Quotient(a, b) <= 0
<1>1. /\ Abs(a) \in Nat /\ Abs(b) \in Nat /\ Abs(b) > 0
  BY DEF Abs
<1>2. ASSUME NEW x \in Nat, NEW y \in Nat, y > 0
      PROVE  x \div y \in Nat /\ 0 \div y = 0
  BY <1>2, SMT
<1> DEFINE q == Abs(a) \div Abs(b)
<1>3. q \in Nat /\ (a = 0 => q = 0)
  BY <1>1, <1>2 DEF Abs
<1>4. Quotient(a, b) = Sign(a) * Sign(b) * q
  BY DEF Quotient
<1> HIDE DEF q
<1>5. /\ Sign(a) = IF a > 0 THEN 1 ELSE IF a < 0 THEN -1 ELSE 0
      /\ Sign(b) = IF b > 0 THEN 1 ELSE -1
  BY DEF Sign
<1>6. QED
  BY <1>3, <1>4, <1>5, SMT

(* Seven elevenths of a slope lie between zero and the slope.              *)
LEMMA ShrunkInside ==
  ASSUME NEW slope \in Int
  PROVE  /\ ShrinkFactor(slope) \in Int
         /\ slope > 0 => ShrinkFactor(slope) >= 0 /\ ShrinkFactor(slope) < slope
         /\ slope < 0 => ShrinkFactor(slope) <= 0 /\ ShrinkFactor(slope) > slope
<1>1. 7 * slope \in Int /\ Abs(11) = 11 /\ Sign(11) = 1
  BY DEF Abs, Sign
<1>2. ShrinkFactor(slope) = Quotient(7 * slope, 11)
  BY DEF ShrinkFactor, Shrunk
<1>3. CASE slope > 0
  <2>1. ShrinkFactor(slope) = (7 * slope) \div 11
    BY <1>1, <1>2, <1>3, SMT DEF Quotient, Sign, Abs
  <2>2. QED
    BY <1>3, <2>1, SMT
<1>4. CASE slope < 0
  <2>1. ShrinkFactor(slope) = -((7 * (-slope)) \div 11)
    BY <1>1, <1>2, <1>4, SMT DEF Quotient, Sign, Abs
  <2>2. QED
    BY <1>4, <2>1, SMT
<1>5. CASE slope = 0
  BY <1>2, <1>5, QuotientSigned
<1>6. QED
  BY <1>3, <1>4, <1>5

(* A step that goes the way its slope did meets no equal slope in the      *)
(* quadratic estimate, and the new step goes the way of the new slope.     *)
LEMMA QuickpropOwnSteps ==
  ASSUME NEW step \in Int, NEW prev_slope \in Int, NEW slope \in Int,
         num_data \in Nat, num_data > 0, WithItsSlope(step, prev_slope)
  PROVE  /\ QuickpropStep(step, prev_slope, slope).defined
         /\ WithItsSlope(QuickpropStep(step, prev_slope, slope).step, slope)
<1> DEFINE sign == IF step > 10 THEN 1 ELSE IF step < -10 THEN -1 ELSE 0
           linear == IF sign * slope > 0 \/ sign = 0 THEN Linear(slope) ELSE 0
           maximum == sign * slope > sign * ShrinkFactor(prev_slope)
           estimate == Quotient(step * slope, prev_slope - slope)
           further == Quotient(7 * step, 4)
           new == QuickpropStep(step, prev_slope, slope)
<1>0. /\ sign # 0 /\ maximum
           => new = [step |-> linear + further, defined |-> TRUE]
      /\ sign # 0 /\ ~maximum /\ prev_slope # slope
           => new = [step |-> linear + estimate, defined |-> TRUE]
  BY DEF QuickpropStep
<1>1. /\ Linear(slope) \in Int
      /\ slope >= 0 => Linear(slope) >= 0
      /\ slope <= 0 => Linear(slope) <= 0
  <2>1. 7 * slope \in Int /\ 10 * num_data \in Int /\ 10 * num_data > 0
    OBVIOUS
  <2>2. Linear(slope) = Quotient(7 * slope, 10 * num_data)
    BY DEF Linear
  <2>3. QED
    BY <2>1, <2>2, QuotientSigned
<1>2. CASE sign = 0
  <2>1. new = [step |-> Linear(slope) + 0, defined |-> TRUE]
    BY <1>2 DEF QuickpropStep
  <2>2. QED
    BY <1>1, <2>1 DEF WithItsSlope
<1>3. CASE sign = 1
  <2>1. step > 10 /\ prev_slope > 0
    BY <1>3 DEF WithItsSlope
  <2>2. maximum <=> slope > ShrinkFactor(prev_slope)
    BY <1>3, ShrunkInside
  <2>3. linear \in Int /\ linear >= 0 /\ (slope <= 0 => linear = 0)
    BY <1>1, <1>3
  <2>4. CASE maximum
    <3>1. new = [step |-> linear + further, defined |-> TRUE]
      BY <1>0, <1>3, <2>4
    <3>2. slope > 0
      BY <2>1, <2>2, <2>4, ShrunkInside
    <3>3. further \in Int /\ further >= 0
      BY <2>1, QuotientSigned
    <3>4. QED
      BY <2>3, <3>1, <3>2, <3>3 DEF WithItsSlope
  <2>5. CASE ~maximum
    <3>1. slope < prev_slope /\ prev_slope # slope
      BY <2>1, <2>2, <2>5, ShrunkInside
    <3>2. new = [step |-> linear + estimate, defined |-> TRUE]
      BY <1>0, <1>3, <2>5, <3>1
    <3>3. /\ step * slope \in Int /\ (slope >= 0 => step * slope >= 0)
          /\ (slope <= 0 => step * slope <= 0)
      BY <2>1, SMT
    <3>4. prev_slope - slope \in Int /\ prev_slope - slope > 0
      BY <3>1
    <3>5. /\ estimate \in Int /\ (slope >= 0 => estimate >= 0)
          /\ (slope <= 0 => estimate <= 0)
      BY <3>3, <3>4, QuotientSigned
    <3>6. QED
      BY <2>3, <3>2, <3>5 DEF WithItsSlope
  <2>6. QED
    BY <2>4, <2>5
<1>4. CASE sign = -1
  <2>1. step < -10 /\ prev_slope < 0
    BY <1>4 DEF WithItsSlope
  <2>2. maximum <=> slope < ShrinkFactor(prev_slope)
    BY <1>4, ShrunkInside
  <2>3. linear \in Int /\ linear <= 0 /\ (slope >= 0 => linear = 0)
    BY <1>1, <1>4
  <2>4. CASE maximum
    <3>1. new = [step |-> linear + further, defined |-> TRUE]
      BY <1>0, <1>4, <2>4
    <3>2. slope < 0
      BY <2>1, <2>2, <2>4, ShrunkInside
    <3>3. further \in Int /\ further <= 0
      BY <2>1, QuotientSigned
    <3>4. QED
      BY <2>3, <3>1, <3>2, <3>3 DEF WithItsSlope
  <2>5. CASE ~maximum
    <3>1. slope > prev_slope /\ prev_slope # slope
      BY <2>1, <2>2, <2>5, ShrunkInside
    <3>2. new = [step |-> linear + estimate, defined |-> TRUE]
      BY <1>0, <1>4, <2>5, <3>1
    <3>3. /\ step * slope \in Int /\ (slope >= 0 => step * slope <= 0)
          /\ (slope <= 0 => step * slope >= 0)
      BY <2>1, SMT
    <3>4. prev_slope - slope \in Int /\ prev_slope - slope < 0
      BY <3>1
    <3>5. /\ estimate \in Int /\ (slope >= 0 => estimate >= 0)
          /\ (slope <= 0 => estimate <= 0)
      BY <3>3, <3>4, QuotientSigned
    <3>6. QED
      BY <2>3, <3>2, <3>5 DEF WithItsSlope
  <2>6. QED
    BY <2>4, <2>5
<1>5. QED
  BY <1>2, <1>3, <1>4

(* Quickprop's step is an integer, whatever it starts from.                *)
LEMMA QuickpropTyped ==
  ASSUME NEW step \in Int, NEW prev_slope \in Int, NEW slope \in Int,
         num_data \in Nat, num_data > 0
  PROVE  /\ QuickpropStep(step, prev_slope, slope).step \in Int
         /\ QuickpropStep(step, prev_slope, slope).defined \in BOOLEAN
<1> DEFINE sign == IF step > 10 THEN 1 ELSE IF step < -10 THEN -1 ELSE 0
           linear == IF sign * slope > 0 \/ sign = 0 THEN Linear(slope) ELSE 0
           maximum == sign * slope > sign * ShrinkFactor(prev_slope)
           estimate == Quotient(step * slope, prev_slope - slope)
           further == Quotient(7 * step, 4)
           new == QuickpropStep(step, prev_slope, slope)
<1>1. linear \in Int
  <2>1. 7 * slope \in Int /\ 10 * num_data \in Int /\ 10 * num_data # 0
    OBVIOUS
  <2>2. QED
    BY <2>1, QuotientSigned DEF Linear
<1>2. further \in Int
  BY QuotientSigned
<1>3. prev_slope # slope => estimate \in Int
  <2>1. step * slope \in Int /\ prev_slope - slope \in Int
    BY SMT
  <2>2. QED
    BY <2>1, QuotientSigned
<1>4. CASE sign # 0 /\ ~maximum
  <2>1. CASE prev_slope = slope
    BY <1>4, <2>1 DEF QuickpropStep
  <2>2. CASE prev_slope # slope
    <3>1. new = [step |-> linear + estimate, defined |-> TRUE]
      BY <1>4, <2>2 DEF QuickpropStep
    <3>2. QED
      BY <1>1, <1>3, <2>2, <3>1
  <2>3. QED
    BY <2>1, <2>2
<1>5. CASE sign = 0
  <2>1. new = [step |-> linear + 0, defined |-> TRUE]
    BY <1>5 DEF QuickpropStep
  <2>2. QED
    BY <1>1, <2>1
<1>6. CASE sign # 0 /\ maximum
  <2>1. new = [step |-> linear + further, defined |-> TRUE]
    BY <1>6 DEF QuickpropStep
  <2>2. QED
    BY <1>1, <1>2, <2>1
<1>7. QED
  BY <1>4, <1>5, <1>6

(* A step of RPROP, from whatever step it finds, is positive and within    *)
(* the limit or the step it had.                                           *)
LEMMA RpropPositive ==
  ASSUME NEW step \in Int, NEW prev_slope \in Int, NEW slope \in Int
  PROVE  /\ RpropStep(step, prev_slope, slope).step \in Int
         /\ RpropStep(step, prev_slope, slope).slope \in Int
         /\ DeltaMax > 0 /\ DeltaMin <= DeltaMax =>
              /\ RpropStep(step, prev_slope, slope).step > 0
              /\ \/ RpropStep(step, prev_slope, slope).step <= DeltaMax
                 \/ /\ ~(prev_slope * slope >= 0)
                    /\ RpropStep(step, prev_slope, slope).step <= step
<1> USE ParametersTyped
<1> DEFINE least == AtLeastOne(step)
           longer == (6 * least) \div 5
           shorter == (least + 1) \div 2
           new == RpropStep(step, prev_slope, slope)
<1>1. least \in Int /\ least >= 1 /\ (least = step \/ least = 1)
  BY MaxOfTwo DEF AtLeastOne
<1>2. CASE prev_slope * slope >= 0
  <2>1. longer \in Int /\ longer >= 1
    BY <1>1, SMT
  <2>2. new = [step |-> Min({longer, DeltaMax}), slope |-> slope]
    BY <1>2 DEF RpropStep
  <2>3. Min({longer, DeltaMax}) = IF longer <= DeltaMax THEN longer ELSE DeltaMax
    BY <2>1, MinOfTwo
  <2>4. QED
    BY <2>1, <2>2, <2>3
<1>3. CASE ~(prev_slope * slope >= 0)
  <2>1. shorter \in Int /\ shorter >= 1 /\ shorter <= least
    BY <1>1, SMT
  <2>2. new = [step |-> Max({shorter, DeltaMin}), slope |-> 0]
    BY <1>3 DEF RpropStep
  <2>3. Max({shorter, DeltaMin}) = IF shorter >= DeltaMin THEN shorter ELSE DeltaMin
    BY <2>1, MaxOfTwo
  <2>4. QED
    BY <1>1, <1>3, <2>1, <2>2, <2>3
<1>4. QED
  BY <1>2, <1>3

-----------------------------------------------------------------------------
(* Arrays                                                                  *)

(* The names, and what three of the sets of names come to.                 *)
LEMMA NamesOfArrays ==
  /\ "train_slopes" \in ArrayNames /\ "prev_steps" \in ArrayNames
  /\ "prev_train_slopes" \in ArrayNames /\ "train_errors" \in ArrayNames
  /\ "prev_weights_deltas" \in ArrayNames
BY DEF ArrayNames

(* Setting an array leaves the others, and none goes.                      *)
LEMMA SetOne ==
  ASSUME size \in Nat, size > 0, NEW a \in Arrays, NEW name \in ArrayNames,
         NEW v \in Int
  PROVE  /\ Set(a, name, v) \in Arrays
         /\ Set(a, name, v)[name].value = v
         /\ Set(a, name, v)[name].length
              = IF a[name] = NULL THEN size ELSE a[name].length
         /\ Set(a, name, v)[name] # NULL
         /\ \A other \in ArrayNames \ {name} : Set(a, name, v)[other] = a[other]
<1> DEFINE room == IF a[name] = NULL THEN size ELSE a[name].length
           new == [length |-> room, value |-> v]
<1>1. a[name] \in Entry
  BY DEF Arrays
<1>2. room \in Nat /\ room > 0
  BY <1>1 DEF Entry
<1>3. Set(a, name, v) = [a EXCEPT ![name] = new]
  BY DEF Set
<1>4. new \in [length : Nat, value : Int] /\ new.length > 0
  BY <1>2
<1>5. new # NULL /\ new \in Entry
  BY <1>4 DEF NULL, Entry
<1>6. new.length = room /\ new.value = v
  OBVIOUS
<1> HIDE DEF new
<1>7. QED
  BY <1>3, <1>4, <1>5, <1>6 DEF Arrays

(* None of the arrays of a is lost in b.                                   *)
Kept(a, b) == \A name \in ArrayNames : a[name] # NULL => b[name] # NULL

(* Setting an array keeps the room there is, in the order they are made.   *)
LEMMA SetArranged ==
  ASSUME size \in Nat, size > 0, NEW a \in Arrays, Arranged(a),
         NEW name \in ArrayNames, NEW v \in Int
  PROVE  /\ Arranged(Set(a, name, v)) /\ Kept(a, Set(a, name, v))
         /\ name # "prev_train_slopes" /\ Chained(a) => Chained(Set(a, name, v))
<1> DEFINE b == Set(a, name, v)
<1>1. /\ b[name] # NULL
      /\ b[name].length = IF a[name] = NULL THEN size ELSE a[name].length
      /\ \A other \in ArrayNames \ {name} : b[other] = a[other]
  BY SetOne
<1> HIDE DEF b
<1>2. Kept(a, b)
  BY <1>1 DEF Kept
<1>3. \A other \in ArrayNames \ {"prev_weights_deltas"} :
        b[other] # NULL => b[other].length >= size
  BY <1>1 DEF Arranged
<1>4. name # "prev_train_slopes" /\ Chained(a) => Chained(b)
  BY <1>1, <1>2, NamesOfArrays DEF Kept, Chained
<1>5. QED
  BY <1>2, <1>3, <1>4 DEF Arranged, b

(* Both, of an array b that was made from a.                               *)
LEMMA SetStep ==
  ASSUME size \in Nat, size > 0, NEW a \in Arrays, Arranged(a),
         NEW name \in ArrayNames, NEW v \in Int,
         NEW b, b = Set(a, name, v)
  PROVE  /\ b \in Arrays /\ Arranged(b) /\ Kept(a, b)
         /\ b[name] # NULL /\ b[name].value = v
         /\ \A other \in ArrayNames \ {name} : b[other] = a[other]
BY SetOne, SetArranged

(* An array that is there keeps its length.                                *)
LEMMA SetLengths ==
  ASSUME size \in Nat, size > 0, NEW a \in Arrays,
         NEW name \in ArrayNames, NEW v \in Int, NEW other \in ArrayNames,
         a[other] # NULL
  PROVE  Set(a, name, v)[other].length = a[other].length
BY SetOne

(* What allocating an array at its first use can leave.                    *)
LEMMA AllocatedArrays ==
  ASSUME size \in Nat, size > 0, NEW a \in Arrays, Arranged(a),
         NEW name \in ArrayNames \ {"prev_train_slopes"}, NEW v \in Int,
         NEW c \in Allocated(a, name, v)
  PROVE  /\ c.arrays \in Arrays /\ Arranged(c.arrays) /\ Kept(a, c.arrays)
         /\ c.ok \in BOOLEAN /\ (Chained(a) => Chained(c.arrays))
         /\ c.ok => c.arrays[name] # NULL
         /\ \A other \in ArrayNames \ {name} : c.arrays[other] = a[other]
<1>1. CASE c = [arrays |-> Set(a, name, v), ok |-> TRUE]
  BY <1>1, SetOne, SetArranged
<1>2. CASE c = [arrays |-> a, ok |-> FALSE]
  BY <1>2 DEF Kept
<1>3. QED
  BY <1>1, <1>2 DEF Allocated

(* The first step that is set is a number.                                 *)
LEMMA FirstStepTyped == FirstStep \in Int
BY ParametersTyped DEF FirstStep

(* What fann_clear_train_arrays can leave.  When nothing fails all three   *)
(* are there and cleared; it only fails when one of them is not there, and *)
(* no slope and no step but RPROP's is left before that one.               *)
LEMMA ClearedArrays ==
  ASSUME size \in Nat, size > 0, NEW a \in Arrays, Arranged(a),
         NEW c \in Cleared(a)
  PROVE  /\ c.arrays \in Arrays /\ Arranged(c.arrays) /\ Kept(a, c.arrays)
         /\ c.ok \in BOOLEAN /\ (Chained(a) => Chained(c.arrays))
         /\ c.ok => /\ c.arrays["train_slopes"] # NULL
                    /\ c.arrays["prev_steps"] # NULL
                    /\ c.arrays["prev_train_slopes"] # NULL
                    /\ c.arrays["prev_steps"].value = FirstStep
                    /\ c.arrays["prev_train_slopes"].value = 0
         /\ c.arrays["train_slopes"].value = 0
         /\ a["prev_train_slopes"] # NULL /\ Chained(a) => c.ok
         /\ ~c.ok =>
              /\ c.arrays["prev_train_slopes"] = a["prev_train_slopes"]
              /\ \/ c.arrays["prev_steps"].value \in {0, FirstStep}
                 \/ c.arrays = a /\ a["train_slopes"] = NULL
         /\ \A name \in ArrayNames :
              a[name] # NULL => c.arrays[name].length = a[name].length
         /\ c.arrays["prev_weights_deltas"] = a["prev_weights_deltas"]
<1> USE NamesOfArrays
<1> DEFINE one == SlopesOnly(a)
           two == SlopesAndSteps(a)
           three == Set(two, "prev_train_slopes", 0)
<1>1. /\ one = Set(a, "train_slopes", 0)
      /\ two = Set(one, "prev_steps", FirstStep)
      /\ three = Set(two, "prev_train_slopes", 0)
  BY DEF SlopesOnly, SlopesAndSteps
<1> HIDE DEF one, two, three
<1>2. /\ one \in Arrays /\ Arranged(one) /\ Kept(a, one)
      /\ one["train_slopes"] # NULL /\ one["train_slopes"].value = 0
      /\ \A other \in ArrayNames \ {"train_slopes"} : one[other] = a[other]
  BY SMTT(40), <1>1, SetStep
<1>3. /\ two \in Arrays /\ Arranged(two) /\ Kept(one, two)
      /\ two["prev_steps"] # NULL /\ two["prev_steps"].value = FirstStep
      /\ \A other \in ArrayNames \ {"prev_steps"} : two[other] = one[other]
  <2>1. two = Set(one, "prev_steps", FirstStep) /\ one \in Arrays /\ Arranged(one) /\ FirstStep \in Int
    BY <1>1, <1>2, FirstStepTyped
  <2>2. /\ Set(one, "prev_steps", FirstStep) \in Arrays
        /\ Set(one, "prev_steps", FirstStep)["prev_steps"].value = FirstStep
        /\ Set(one, "prev_steps", FirstStep)["prev_steps"] # NULL
        /\ \A other \in ArrayNames \ {"prev_steps"} :
             Set(one, "prev_steps", FirstStep)[other] = one[other]
    BY <2>1, SetOne
  <2>3. Arranged(two) /\ Kept(one, two)
    BY <2>1, SetArranged
  <2>4. QED
    BY <2>1, <2>2, <2>3
<1>4. /\ three \in Arrays /\ Arranged(three) /\ Kept(two, three)
      /\ three["prev_train_slopes"] # NULL /\ three["prev_train_slopes"].value = 0
      /\ \A other \in ArrayNames \ {"prev_train_slopes"} : three[other] = two[other]
  <2>1. three = Set(two, "prev_train_slopes", 0) /\ two \in Arrays /\ Arranged(two) /\ 0 \in Int
    BY <1>1, <1>3, FirstStepTyped
  <2>2. /\ Set(two, "prev_train_slopes", 0) \in Arrays
        /\ Set(two, "prev_train_slopes", 0)["prev_train_slopes"].value = 0
        /\ Set(two, "prev_train_slopes", 0)["prev_train_slopes"] # NULL
        /\ \A other \in ArrayNames \ {"prev_train_slopes"} :
             Set(two, "prev_train_slopes", 0)[other] = two[other]
    BY <2>1, SetOne
  <2>3. Arranged(three) /\ Kept(two, three)
    BY <2>1, SetArranged
  <2>4. QED
    BY <2>1, <2>2, <2>3
<1>5. \/ c = [arrays |-> three, ok |-> TRUE]
      \/ CanFail(a, "train_slopes") /\ c = [arrays |-> a, ok |-> FALSE]
      \/ CanFail(a, "prev_steps") /\ c = [arrays |-> one, ok |-> FALSE]
      \/ CanFail(a, "prev_train_slopes") /\ c = [arrays |-> two, ok |-> FALSE]
  BY DEF Cleared, one, two, three
<1>6. Kept(a, two) /\ Kept(a, three) /\ Kept(a, a)
  BY <1>2, <1>3, <1>4 DEF Kept
<1>7. /\ a["prev_train_slopes"] # NULL /\ Chained(a) =>
           ~CanFail(a, "train_slopes") /\ ~CanFail(a, "prev_steps")
      /\ \A name \in ArrayNames : CanFail(a, name) => a[name] = NULL
  BY DEF CanFail, Chained
<1>8. NULL.value = 0
  BY DEF NULL
<1>9. /\ Chained(a) => Chained(one) /\ Chained(two)
      /\ Chained(three)
  BY <1>2, <1>3, <1>4 DEF Chained
<1>10. \A name \in ArrayNames : a[name] # NULL =>
         /\ one[name].length = a[name].length
         /\ two[name].length = a[name].length
         /\ three[name].length = a[name].length
  <2> SUFFICES ASSUME NEW name \in ArrayNames, a[name] # NULL
               PROVE  /\ one[name].length = a[name].length
                      /\ two[name].length = a[name].length
                      /\ three[name].length = a[name].length
    OBVIOUS
  <2>1. one[name].length = a[name].length
    BY <1>1, SetLengths
  <2>2. two[name].length = one[name].length
    BY <1>1, <1>2, SetLengths, FirstStepTyped DEF Kept
  <2>3. three[name].length = two[name].length
    BY <1>1, <1>3, <1>6, SetLengths DEF Kept
  <2>4. QED
    BY <2>1, <2>2, <2>3
<1>11. CASE c = [arrays |-> three, ok |-> TRUE]
  BY <1>2, <1>3, <1>4, <1>6, <1>9, <1>10, <1>11
<1>12. CASE CanFail(a, "train_slopes") /\ c = [arrays |-> a, ok |-> FALSE]
  BY <1>6, <1>7, <1>8, <1>12
<1>13. CASE CanFail(a, "prev_steps") /\ c = [arrays |-> one, ok |-> FALSE]
  BY <1>2, <1>7, <1>8, <1>9, <1>10, <1>13
<1>14. CASE CanFail(a, "prev_train_slopes") /\ c = [arrays |-> two, ok |-> FALSE]
  BY <1>2, <1>3, <1>6, <1>7, <1>9, <1>10, <1>14
<1>15. QED
  BY <1>5, <1>11, <1>12, <1>13, <1>14

(* What an epoch has before its patterns: RPROP and quickprop have all     *)
(* three arrays, or an allocation failed.                                  *)
LEMMA PreparedArrays ==
  ASSUME size \in Nat, size > 0, NEW a \in Arrays, Arranged(a),
         NEW p \in Prepared(a)
  PROVE  /\ p.arrays \in Arrays /\ Arranged(p.arrays) /\ Kept(a, p.arrays)
         /\ p.ok \in BOOLEAN /\ (Chained(a) => Chained(p.arrays))
         /\ p.arrays["train_slopes"].value \in {0, a["train_slopes"].value}
         /\ p.ok /\ training_algorithm \in {"RPROP", "QUICKPROP"} =>
              /\ Chained(a) =>
                   /\ p.arrays["train_slopes"] # NULL /\ p.arrays["prev_steps"] # NULL
                   /\ p.arrays["prev_train_slopes"] # NULL
              /\ \/ p.arrays = a
                 \/ /\ p.arrays["prev_steps"].value = FirstStep
                    /\ p.arrays["prev_train_slopes"].value = 0
         /\ ~p.ok => p.arrays["prev_train_slopes"] = NULL
         /\ training_algorithm \notin {"RPROP", "QUICKPROP"} =>
              p.arrays = a /\ p.ok
<1>1. CASE /\ training_algorithm \in {"QUICKPROP", "RPROP"}
           /\ a["prev_train_slopes"] = NULL
  <2>1. p \in Cleared(a)
    BY <1>1 DEF Prepared
  <2>2. QED
    BY <1>1, <2>1, ClearedArrays
<1>2. CASE ~(/\ training_algorithm \in {"QUICKPROP", "RPROP"}
             /\ a["prev_train_slopes"] = NULL)
  <2>1. p = [arrays |-> a, ok |-> TRUE]
    BY <1>2 DEF Prepared
  <2>2. training_algorithm \in {"RPROP", "QUICKPROP"} /\ Chained(a) =>
          /\ a["train_slopes"] # NULL /\ a["prev_steps"] # NULL
          /\ a["prev_train_slopes"] # NULL
    BY <1>2 DEF Chained
  <2>3. QED
    BY <2>1, <2>2 DEF Kept
<1>3. QED
  BY <1>1, <1>2

(* What the patterns of an epoch leave: the steps and previous slopes are  *)
(* untouched, and when nothing failed the slopes are there.                *)
LEMMA PatternsArrays ==
  ASSUME size \in Nat, size > 0, NEW a \in Arrays, Arranged(a),
         NEW slope \in Int, NEW w \in WithPatterns(a, slope)
  PROVE  /\ w.arrays \in Arrays /\ Arranged(w.arrays) /\ Kept(a, w.arrays)
         /\ w.ok \in BOOLEAN /\ w.errors \in BOOLEAN
         /\ w.ok => w.errors
         /\ Chained(a) => Chained(w.arrays)
         /\ w.ok /\ num_data # 0 => w.arrays["train_slopes"] # NULL
         /\ num_data = 0 => w.arrays = a
         /\ w.arrays["prev_steps"] = a["prev_steps"]
         /\ w.arrays["prev_train_slopes"] = a["prev_train_slopes"]
<1> USE NamesOfArrays
<1>1. CASE num_data = 0
  <2>1. w = [arrays |-> a, ok |-> TRUE, errors |-> TRUE]
    BY <1>1 DEF WithPatterns
  <2>2. QED
    BY <1>1, <2>1 DEF Kept
<1>2. CASE num_data # 0
  <2>1. PICK e \in WithErrors(a) :
          w \in {[arrays |-> s.arrays, ok |-> e.ok /\ s.ok, errors |-> e.ok]
                   : s \in WithSlopes(e.arrays, slope)}
    BY <1>2 DEF WithPatterns
  <2>2. PICK s \in WithSlopes(e.arrays, slope) :
          w = [arrays |-> s.arrays, ok |-> e.ok /\ s.ok, errors |-> e.ok]
    BY <2>1
  <2>3. /\ e.arrays \in Arrays /\ Arranged(e.arrays) /\ Kept(a, e.arrays)
        /\ e.ok \in BOOLEAN /\ (Chained(a) => Chained(e.arrays))
        /\ \A other \in ArrayNames \ {"train_errors"} : e.arrays[other] = a[other]
    BY AllocatedArrays DEF WithErrors
  <2>4. e.arrays["train_slopes"].value + slope \in Int
    BY <2>3 DEF Arrays, Entry
  <2>5. /\ s.arrays \in Arrays /\ Arranged(s.arrays) /\ Kept(e.arrays, s.arrays)
        /\ s.ok \in BOOLEAN /\ (s.ok => s.arrays["train_slopes"] # NULL)
        /\ (Chained(e.arrays) => Chained(s.arrays))
        /\ \A other \in ArrayNames \ {"train_slopes"} :
             s.arrays[other] = e.arrays[other]
    BY <2>3, <2>4, AllocatedArrays DEF WithSlopes
  <2>6. Kept(a, s.arrays) /\ (Chained(a) => Chained(s.arrays))
    BY <2>3, <2>5 DEF Kept
  <2>7. /\ w.arrays = s.arrays /\ w.ok = (e.ok /\ s.ok) /\ w.errors = e.ok
    BY <2>2
  <2>8. /\ w.arrays["prev_steps"] = a["prev_steps"]
        /\ w.arrays["prev_train_slopes"] = a["prev_train_slopes"]
    BY <2>3, <2>5, <2>7
  <2>9. QED
    BY <1>2, <2>3, <2>5, <2>6, <2>7, <2>8
<1>3. QED
  BY <1>1, <1>2

(* The arrays, with another value for one of them.                         *)
WithValue(a, name, v) == [a EXCEPT ![name].value = v]

(* An array that is there can be given another value.                      *)
LEMMA SetValue ==
  ASSUME NEW a \in Arrays, NEW name \in ArrayNames, a[name] # NULL,
         NEW v \in Int, NEW b, b = WithValue(a, name, v)
  PROVE  /\ b \in Arrays /\ b[name] # NULL
         /\ b[name].value = v /\ b[name].length = a[name].length
         /\ \A other \in ArrayNames \ {name} : b[other] = a[other]
<1> DEFINE new == [a[name] EXCEPT !.value = v]
<1>1. a[name] \in Entry
  BY DEF Arrays
<1>2. /\ new \in [length : Nat, value : Int]
      /\ new.length = a[name].length /\ new.value = v
  BY <1>1 DEF Entry
<1>3. new.length # 0
  BY <1>1, <1>2 DEF Entry
<1>4. new \in Entry /\ new # NULL
  BY <1>2, <1>3 DEF Entry, NULL
<1>5. b = [a EXCEPT ![name] = new]
  BY DEF WithValue
<1> HIDE DEF new
<1>6. QED
  BY <1>2, <1>4, <1>5 DEF Arrays

(* Only the slopes are used up.                                            *)
LEMMA SetSlopes ==
  ASSUME NEW a \in Arrays, NEW b, a["train_slopes"] # NULL, b = SlopesUsed(a)
  PROVE  /\ b \in Arrays /\ b["train_slopes"].value = 0
         /\ b["prev_steps"] = a["prev_steps"]
         /\ b["prev_train_slopes"] = a["prev_train_slopes"]
         /\ \A name \in ArrayNames : b[name].length = a[name].length
         /\ Kept(a, b)
<1>1. /\ b \in Arrays /\ b["train_slopes"] # NULL
      /\ b["train_slopes"].value = 0
      /\ b["train_slopes"].length = a["train_slopes"].length
      /\ \A other \in ArrayNames \ {"train_slopes"} : b[other] = a[other]
  <2>1. b = WithValue(a, "train_slopes", 0)
    BY DEF SlopesUsed, WithValue
  <2>2. QED
    BY <2>1, SetValue, NamesOfArrays
<1>2. QED
  BY <1>1, NamesOfArrays DEF Kept

(* A new step and slope, and the slopes used up.                           *)
Stepped(a, step, slope) ==
  SlopesUsed([a EXCEPT !["prev_steps"].value = step,
                       !["prev_train_slopes"].value = slope])

(* It is what RPROP and quickprop do to the arrays.                        *)
LEMMA SetThree ==
  ASSUME NEW a \in Arrays, NEW step \in Int, NEW slope \in Int, NEW b,
         a["prev_steps"] # NULL, a["prev_train_slopes"] # NULL,
         a["train_slopes"] # NULL,
         b = Stepped(a, step, slope)
  PROVE  /\ b \in Arrays /\ b["prev_steps"].value = step
         /\ b["prev_train_slopes"].value = slope
         /\ b["train_slopes"].value = 0
         /\ \A name \in ArrayNames : b[name].length = a[name].length
         /\ Kept(a, b)
<1> DEFINE one == WithValue(a, "prev_steps", step)
           two == WithValue(one, "prev_train_slopes", slope)
<1>1. b = SlopesUsed(two)
  BY DEF Stepped, WithValue
<1>2. /\ one \in Arrays /\ one["prev_steps"] # NULL
      /\ one["prev_steps"].value = step
      /\ one["prev_steps"].length = a["prev_steps"].length
      /\ \A other \in ArrayNames \ {"prev_steps"} : one[other] = a[other]
  BY SetValue, NamesOfArrays
<1> HIDE DEF one
<1>3. /\ two \in Arrays /\ two["prev_train_slopes"] # NULL
      /\ two["prev_train_slopes"].value = slope
      /\ two["prev_train_slopes"].length = one["prev_train_slopes"].length
      /\ \A other \in ArrayNames \ {"prev_train_slopes"} : two[other] = one[other]
  BY <1>2, SetValue, NamesOfArrays
<1> HIDE DEF two
<1>4. two["train_slopes"] # NULL
  BY <1>2, <1>3, NamesOfArrays
<1>5. /\ b \in Arrays /\ b["train_slopes"].value = 0
      /\ b["prev_steps"] = two["prev_steps"]
      /\ b["prev_train_slopes"] = two["prev_train_slopes"]
      /\ \A name \in ArrayNames : b[name].length = two[name].length
      /\ Kept(two, b)
  BY <1>1, <1>3, <1>4, SetSlopes
<1>6. /\ b["prev_steps"].value = step /\ b["prev_train_slopes"].value = slope
  BY <1>2, <1>3, <1>5, NamesOfArrays
<1>7. ASSUME NEW name \in ArrayNames
      PROVE  /\ b[name].length = a[name].length
             /\ a[name] # NULL => b[name] # NULL
  <2>1. two[name].length = a[name].length
    BY <1>2, <1>3
  <2>2. a[name] # NULL => two[name] # NULL
    BY <1>2, <1>3
  <2>3. QED
    BY <1>5, <2>1, <2>2 DEF Kept
<1>8. QED
  BY <1>5, <1>6, <1>7 DEF Kept

(* What an epoch knows of the arrays it updates the weights with: as long  *)
(* as RPROP has had no part in them, the step goes the way of the slope.   *)
Usable(a) ==
  /\ a \in Arrays
  /\ \A name \in Needed : a[name] # NULL
  /\ owner # "RPROP" /\ training_algorithm # "RPROP" =>
       /\ ~foreign
       /\ WithItsSlope(a["prev_steps"].value, a["prev_train_slopes"].value)

(* Updating the weights keeps the arrays, uses up the slopes, and divides  *)
(* by zero only with the arrays of RPROP or without patterns.              *)
LEMMA UpdateGives ==
  ASSUME TypeOK, training_algorithm # "INCREMENTAL", NEW a, Usable(a),
         UpdateWeights(a)
  PROVE  /\ array' \in Arrays /\ array'["train_slopes"].value = 0
         /\ \A name \in ArrayNames : array'[name].length = a[name].length
         /\ Kept(a, array') /\ refused' = FALSE
         /\ defined' \in BOOLEAN /\ foreign' \in BOOLEAN
         /\ owner' \in {"none", "RPROP", "QUICKPROP"}
         /\ owner' # "RPROP" =>
              /\ ~foreign'
              /\ WithItsSlope(array'["prev_steps"].value,
                              array'["prev_train_slopes"].value)
         /\ defined /\ ~defined' => foreign' \/ num_data = 0
         /\ training_algorithm = "RPROP" =>
              array'["prev_steps"].value
                = RpropStep(a["prev_steps"].value, a["prev_train_slopes"].value,
                            a["train_slopes"].value).step
<1> DEFINE slope == a["train_slopes"].value
           prev_step == a["prev_steps"].value
           prev_slope == a["prev_train_slopes"].value
           rprop == RpropStep(prev_step, prev_slope, slope)
           quickprop == QuickpropStep(prev_step, prev_slope, slope)
<1>1. /\ slope \in Int /\ prev_step \in Int /\ prev_slope \in Int
      /\ a \in Arrays
  BY NamesOfArrays DEF Usable, Arrays, Entry
<1>2. num_data \in Nat /\ defined \in BOOLEAN /\ foreign \in BOOLEAN
      /\ owner \in {"none", "RPROP", "QUICKPROP"}
  BY DEF TypeOK
<1>0. refused' = FALSE
  BY DEF UpdateWeights
<1>3. CASE training_algorithm = "RPROP"
  <2>1. /\ array' = Stepped(a, rprop.step, rprop.slope)
        /\ owner' = "RPROP" /\ UNCHANGED <<defined, foreign>>
    BY <1>3 DEF UpdateWeights, Stepped
  <2>2. rprop.step \in Int /\ rprop.slope \in Int
    BY <1>1, RpropPositive
  <2>3. /\ a["prev_steps"] # NULL /\ a["prev_train_slopes"] # NULL
        /\ a["train_slopes"] # NULL
    BY <1>3 DEF Usable, Needed
  <2> HIDE DEF rprop, slope, prev_step, prev_slope
  <2>4. /\ array' \in Arrays /\ array'["prev_steps"].value = rprop.step
        /\ array'["train_slopes"].value = 0
        /\ \A name \in ArrayNames : array'[name].length = a[name].length
        /\ Kept(a, array')
    BY <1>1, <2>1, <2>2, <2>3, SetThree
  <2>5. /\ defined' \in BOOLEAN /\ foreign' \in BOOLEAN /\ owner' = "RPROP"
        /\ ~(defined /\ ~defined')
    BY <1>2, <2>1
  <2>6. array'["prev_steps"].value
          = RpropStep(a["prev_steps"].value, a["prev_train_slopes"].value,
                      a["train_slopes"].value).step
    BY <2>4 DEF rprop, slope, prev_step, prev_slope
  <2>7. QED
    BY <1>0, <2>4, <2>5, <2>6
<1>4. CASE training_algorithm = "QUICKPROP" /\ num_data > 0
  <2>1. /\ array' = Stepped(a, quickprop.step, slope)
        /\ defined' = (defined /\ quickprop.defined)
        /\ foreign' = (foreign \/ owner = "RPROP")
        /\ owner' = IF foreign' THEN "RPROP" ELSE "QUICKPROP"
    BY <1>4 DEF UpdateWeights, Stepped
  <2>2. quickprop.step \in Int /\ quickprop.defined \in BOOLEAN
    BY <1>1, <1>2, <1>4, QuickpropTyped
  <2>3. /\ a["prev_steps"] # NULL /\ a["prev_train_slopes"] # NULL
        /\ a["train_slopes"] # NULL
    BY <1>4 DEF Usable, Needed
  <2>4. owner # "RPROP" =>
          ~foreign /\ quickprop.defined /\ WithItsSlope(quickprop.step, slope)
    <3> SUFFICES ASSUME owner # "RPROP"
                 PROVE  ~foreign /\ quickprop.defined
                        /\ WithItsSlope(quickprop.step, slope)
      OBVIOUS
    <3>1. ~foreign /\ WithItsSlope(prev_step, prev_slope)
      BY <1>4 DEF Usable
    <3>2. QED
      BY <1>1, <1>2, <1>4, <3>1, QuickpropOwnSteps
  <2> HIDE DEF quickprop, slope
  <2>5. /\ array' \in Arrays /\ array'["prev_steps"].value = quickprop.step
        /\ array'["prev_train_slopes"].value = slope
        /\ array'["train_slopes"].value = 0
        /\ \A name \in ArrayNames : array'[name].length = a[name].length
        /\ Kept(a, array')
    BY <1>1, <2>1, <2>2, <2>3, SetThree
  <2>6. /\ foreign' \in BOOLEAN /\ (foreign' => owner' = "RPROP")
        /\ (~foreign' => owner # "RPROP" /\ owner' = "QUICKPROP")
    <3>1. foreign' \in BOOLEAN
      BY <1>2, <2>1
    <3>2. ~foreign' => owner # "RPROP"
      BY <2>1
    <3>3. owner' = IF foreign' THEN "RPROP" ELSE "QUICKPROP"
      BY <2>1
    <3>4. QED
      BY <3>1, <3>2, <3>3
  <2>7. defined' \in BOOLEAN /\ (defined /\ ~defined' => ~quickprop.defined)
    BY <1>2, <2>1, <2>2
  <2>8. owner' # "RPROP" =>
          /\ ~foreign'
          /\ WithItsSlope(array'["prev_steps"].value,
                          array'["prev_train_slopes"].value)
    BY <2>4, <2>5, <2>6
  <2>9. defined /\ ~defined' => foreign'
    BY <2>4, <2>6, <2>7
  <2>10. training_algorithm # "RPROP" /\ owner' \in {"none", "RPROP", "QUICKPROP"}
    BY <1>4, <2>6
  <2>11. QED
    BY <1>0, <2>5, <2>6, <2>7, <2>8, <2>9, <2>10
<1>5. CASE /\ training_algorithm \in {"BATCH", "QUICKPROP"}
           /\ training_algorithm = "BATCH" \/ ~(num_data > 0)
  <2>1. /\ array' = SlopesUsed(a)
        /\ UNCHANGED <<foreign, owner>>
        /\ UNCHANGED defined \/ (~(num_data > 0) /\ defined' = FALSE)
    BY <1>5 DEF UpdateWeights
  <2>2. a["train_slopes"] # NULL
    BY <1>5 DEF Usable, Needed
  <2>3. /\ array' \in Arrays /\ array'["train_slopes"].value = 0
        /\ array'["prev_steps"] = a["prev_steps"]
        /\ array'["prev_train_slopes"] = a["prev_train_slopes"]
        /\ \A name \in ArrayNames : array'[name].length = a[name].length
        /\ Kept(a, array')
    BY <1>1, <2>1, <2>2, SetSlopes
  <2>4. defined' \in BOOLEAN /\ (defined /\ ~defined' => num_data = 0)
    <3>1. ~(num_data > 0) => num_data = 0
      BY <1>2
    <3>2. defined \in BOOLEAN
      BY <1>2
    <3>3. UNCHANGED defined \/ (num_data = 0 /\ defined' = FALSE)
      BY <2>1, <3>1
    <3>4. QED
      BY <3>2, <3>3
  <2>5. owner' # "RPROP" =>
          /\ ~foreign'
          /\ WithItsSlope(array'["prev_steps"].value,
                          array'["prev_train_slopes"].value)
    BY <1>5, <2>1, <2>3 DEF Usable
  <2>6. /\ training_algorithm # "RPROP" /\ foreign' \in BOOLEAN
        /\ owner' \in {"none", "RPROP", "QUICKPROP"}
    BY <1>2, <1>5, <2>1
  <2>7. QED
    BY <1>0, <2>3, <2>4, <2>5, <2>6
<1>6. QED
  BY <1>3, <1>4, <1>5 DEF TypeOK, Algorithms

-----------------------------------------------------------------------------
(* The invariant                                                           *)

(* A new network has no arrays.                                            *)
LEMMA InitTraining == Init => TrainingInv
<1> SUFFICES ASSUME Init PROVE TrainingInv
  OBVIOUS
<1>1. array = [name \in ArrayNames |-> NULL]
  BY DEF Init
<1>2. NULL \in Entry /\ NULL.value = 0
  BY DEF NULL, Entry
<1>3. array \in Arrays /\ \A name \in ArrayNames : array[name] = NULL
  BY <1>1, <1>2 DEF Arrays
<1>4. TypeOK
  <2>1. epochs \in [all : Nat, reported : Nat]
    BY DEF Init
  <2>2. /\ size \in Nat /\ size > 0
        /\ num_data \in Nat /\ max_epochs \in Nat /\ epochs_between_reports \in Nat
        /\ i \in Nat
    BY DEF Init
  <2>3. /\ desired_error_reached \in BOOLEAN
        /\ errno_f \in BOOLEAN /\ defined \in BOOLEAN /\ foreign \in BOOLEAN
        /\ refused \in BOOLEAN
        /\ owner \in {"none", "RPROP", "QUICKPROP"}
        /\ training_algorithm \in Algorithms
        /\ pc \in {"idle", "epoch", "report", "callback", "outputs", "trained", "last",
                 "crashed"}
    BY DEF Init, Algorithms
  <2>4. QED
    BY <1>3, <2>1, <2>2, <2>3 DEF TypeOK
<1>5. ArraysInv
  BY <1>3, NamesOfArrays DEF Init, ArraysInv, Arranged, Chained
<1>6. SlopesInv /\ QuickpropInv
  BY <1>2, <1>3, NamesOfArrays DEF Init, SlopesInv, QuickpropInv, WithItsSlope
<1>7. ReportsInv
  BY DEF Init, ReportsInv
<1>8. QED
  BY <1>4, <1>5, <1>6, <1>7 DEF TrainingInv

(* Arrays with the same lengths are as well arranged.                      *)
LEMMA SameLengths ==
  ASSUME size \in Nat, size > 0, NEW a \in Arrays, Arranged(a),
         NEW b \in Arrays, Kept(a, b),
         \A name \in ArrayNames : b[name].length = a[name].length
  PROVE  Arranged(b) /\ (Chained(a) => Chained(b))
<1>1. ASSUME NEW name \in ArrayNames, b[name] # NULL
      PROVE  a[name] # NULL
  <2>1. b[name] \in Entry /\ a[name] \in Entry
    BY DEF Arrays
  <2>2. b[name].length # 0
    BY <1>1, <2>1 DEF Entry
  <2>3. a[name].length # 0
    BY <2>2
  <2>4. QED
    BY <2>3 DEF NULL
<1>2. QED
  BY <1>1, NamesOfArrays DEF Arranged, Chained, Kept

(* Counting an epoch leaves what was reported.                             *)
LEMMA CountTyped ==
  ASSUME epochs \in [all : Nat, reported : Nat], Count
  PROVE  epochs' \in [all : Nat, reported : Nat]
         /\ epochs'.reported = epochs.reported
<1>1. epochs.all + 1 \in Int /\ MaxEpochs \in Int
  BY ParametersTyped
<1>2. Min({epochs.all + 1, MaxEpochs}) \in Nat
  BY <1>1, MinOfTwo, ParametersTyped
<1>3. QED
  BY <1>2 DEF Count

(* What an epoch that ends without a crash has done.                       *)
EpochDone ==
  /\ pc' # "crashed"
  /\ array' \in Arrays /\ Arranged(array')
  /\ errno_f' \/ Chained(array')
  /\ errno_f => errno_f'
  /\ refused' \in BOOLEAN /\ (~refused' => array'["train_slopes"].value = 0)
  /\ errno_f' \in BOOLEAN /\ defined' \in BOOLEAN /\ foreign' \in BOOLEAN
  /\ owner' \in {"none", "RPROP", "QUICKPROP"}
  /\ epochs' \in [all : Nat, reported : Nat] /\ epochs'.reported = epochs.reported
  /\ owner' # "RPROP" =>
       /\ ~foreign'
       /\ WithItsSlope(array'["prev_steps"].value,
                       array'["prev_train_slopes"].value)
  /\ training_algorithm # "INCREMENTAL" /\ pc' = "report" =>
       \A name \in Needed : array'[name] # NULL
  /\ defined /\ ~defined' => foreign' \/ num_data = 0

(* What one that crashes has done.                                         *)
EpochCrashed ==
  /\ pc' = "crashed"
  /\ errno_f' \in BOOLEAN /\ (errno_f => errno_f')
  /\ errno_f' \/ (training_algorithm = "BATCH" /\ num_data = 0)
  /\ UNCHANGED <<array, ghosts>>

(* An epoch of incremental training.                                       *)
LEMMA IncrementalGives ==
  ASSUME TrainingInv, pc = "epoch", training_algorithm = "INCREMENTAL", Incremental
  PROVE  (EpochDone /\ pc' = "report") \/ EpochCrashed
<1> USE NamesOfArrays
<1>1. /\ size \in Nat /\ size > 0 /\ array \in Arrays /\ Arranged(array)
      /\ errno_f \/ Chained(array)
      /\ refused \in BOOLEAN /\ (~refused => array["train_slopes"].value = 0)
      /\ errno_f \in BOOLEAN /\ defined \in BOOLEAN /\ foreign \in BOOLEAN
      /\ owner \in {"none", "RPROP", "QUICKPROP"}
      /\ epochs \in [all : Nat, reported : Nat]
      /\ owner # "RPROP" =>
           /\ ~foreign
           /\ WithItsSlope(array["prev_steps"].value,
                           array["prev_train_slopes"].value)
  BY DEF TrainingInv, TypeOK, ArraysInv, SlopesInv, QuickpropInv
<1>2. CASE /\ pc' = "report" /\ Count
           /\ UNCHANGED <<array, errno_f, defined, refused, foreign, owner>>
  <2>1. epochs' \in [all : Nat, reported : Nat] /\ epochs'.reported = epochs.reported
    BY <1>1, <1>2, CountTyped
  <2>2. /\ pc' # "crashed" /\ array' = array /\ refused' = refused
        /\ errno_f' = errno_f /\ defined' = defined /\ foreign' = foreign
        /\ owner' = owner
    BY <1>2
  <2>3. errno_f' \/ Chained(array')
    BY <1>1, <2>2
  <2>4. EpochDone
    BY <1>1, <2>1, <2>2, <2>3 DEF EpochDone
  <2>5. QED
    BY <1>2, <2>4
<1>3. ASSUME NEW e \in WithErrors(array), ~e.ok, Crashed(FALSE)
      PROVE  EpochCrashed
  BY <1>1, <1>3 DEF Crashed, EpochCrashed
<1>4. ASSUME NEW e \in WithErrors(array), NEW d \in WithDeltas(e.arrays),
             array' = d.arrays, errno_f' = (errno_f \/ ~d.ok),
             pc' = "report", Count, UNCHANGED <<defined, refused, foreign, owner>>
      PROVE  EpochDone
  <2>1. /\ e.arrays \in Arrays /\ Arranged(e.arrays)
        /\ (Chained(array) => Chained(e.arrays))
        /\ \A other \in ArrayNames \ {"train_errors"} :
             e.arrays[other] = array[other]
    BY <1>1, AllocatedArrays DEF WithErrors
  <2>2. /\ d.arrays \in Arrays /\ Arranged(d.arrays) /\ d.ok \in BOOLEAN
        /\ (Chained(e.arrays) => Chained(d.arrays))
        /\ \A other \in ArrayNames \ {"prev_weights_deltas"} :
             d.arrays[other] = e.arrays[other]
    BY <1>1, <2>1, AllocatedArrays DEF WithDeltas
  <2>3. /\ array'["train_slopes"] = array["train_slopes"]
        /\ array'["prev_steps"] = array["prev_steps"]
        /\ array'["prev_train_slopes"] = array["prev_train_slopes"]
    BY <1>4, <2>1, <2>2
  <2>4. epochs' \in [all : Nat, reported : Nat] /\ epochs'.reported = epochs.reported
    BY <1>1, <1>4, CountTyped
  <2>5. errno_f' \in BOOLEAN /\ (errno_f => errno_f')
    BY <1>4
  <2>6. errno_f' \/ Chained(array')
    BY <1>1, <1>4, <2>1, <2>2, <2>5
  <2>7. /\ pc' # "crashed" /\ refused' = refused
        /\ defined' = defined /\ foreign' = foreign /\ owner' = owner
        /\ array' \in Arrays /\ Arranged(array')
    BY <1>4, <2>2
  <2>8. QED
    BY <1>1, <2>3, <2>4, <2>5, <2>6, <2>7 DEF EpochDone
<1>5. QED
  BY <1>2, <1>3, <1>4 DEF Incremental

(* When one of the arrays is missing that the algorithm updates the        *)
(* weights with, an allocation failed, or batch training has no data.      *)
LEMMA MissingArray ==
  ASSUME TypeOK, Arranged(array), errno_f \/ Chained(array),
         training_algorithm # "INCREMENTAL", NEW p \in Prepared(array), NEW slope \in Int,
         NEW w \in WithPatterns(p.arrays, slope),
         ~w.errors \/ \E name \in Needed : w.arrays[name] = NULL
  PROVE  errno_f \/ ~(p.ok /\ w.ok) \/ (training_algorithm = "BATCH" /\ num_data = 0)
<1> USE NamesOfArrays
<1>1. size \in Nat /\ size > 0 /\ array \in Arrays
  BY DEF TypeOK
<1>2. /\ p.arrays \in Arrays /\ Arranged(p.arrays)
      /\ p.ok /\ training_algorithm \in {"RPROP", "QUICKPROP"} /\ Chained(array) =>
           /\ p.arrays["train_slopes"] # NULL /\ p.arrays["prev_steps"] # NULL
           /\ p.arrays["prev_train_slopes"] # NULL
  BY <1>1, PreparedArrays
<1>3. /\ Kept(p.arrays, w.arrays)
      /\ w.ok => w.errors
      /\ w.ok /\ num_data # 0 => w.arrays["train_slopes"] # NULL
  BY <1>1, <1>2, PatternsArrays
<1>4. CASE training_algorithm \in {"RPROP", "QUICKPROP"}
  <2>1. Needed = {"train_slopes", "prev_steps", "prev_train_slopes"}
    BY <1>4 DEF Needed
  <2>2. p.ok /\ Chained(array) => \A name \in Needed : w.arrays[name] # NULL
    BY <1>2, <1>3, <1>4, <2>1 DEF Kept
  <2>3. QED
    BY <1>3, <2>2
<1>5. CASE training_algorithm = "BATCH"
  <2>1. Needed = {"train_slopes"}
    BY <1>5 DEF Needed
  <2>2. QED
    BY <1>3, <1>5, <2>1
<1>6. QED
  BY <1>4, <1>5 DEF TypeOK, Algorithms

(* With all of them there, the arrays can be used.                         *)
LEMMA PatternsUsable ==
  ASSUME TrainingInv, training_algorithm # "INCREMENTAL",
         NEW p \in Prepared(array), NEW slope \in Int,
         NEW w \in WithPatterns(p.arrays, slope),
         \A name \in Needed : w.arrays[name] # NULL
  PROVE  /\ Usable(w.arrays) /\ Arranged(w.arrays)
         /\ training_algorithm = "RPROP" =>
              \/ /\ w.arrays["prev_steps"] = array["prev_steps"]
                 /\ w.arrays["prev_train_slopes"] = array["prev_train_slopes"]
              \/ w.arrays["prev_train_slopes"].value = 0
<1> USE NamesOfArrays
<1>1. size \in Nat /\ size > 0 /\ array \in Arrays /\ Arranged(array)
  BY DEF TrainingInv, TypeOK, ArraysInv
<1>2. /\ p.arrays \in Arrays /\ Arranged(p.arrays) /\ p.ok \in BOOLEAN
      /\ p.ok /\ training_algorithm \in {"RPROP", "QUICKPROP"} =>
           \/ p.arrays = array
           \/ /\ p.arrays["prev_steps"].value = FirstStep
              /\ p.arrays["prev_train_slopes"].value = 0
      /\ ~p.ok => p.arrays["prev_train_slopes"] = NULL
      /\ training_algorithm \notin {"RPROP", "QUICKPROP"} => p.arrays = array
  BY <1>1, PreparedArrays
<1>3. /\ w.arrays \in Arrays /\ Arranged(w.arrays)
      /\ w.arrays["prev_steps"] = p.arrays["prev_steps"]
      /\ w.arrays["prev_train_slopes"] = p.arrays["prev_train_slopes"]
  BY <1>1, <1>2, PatternsArrays
<1>4. CASE training_algorithm \in {"RPROP", "QUICKPROP"}
  <2>1. "prev_train_slopes" \in Needed
    BY <1>4 DEF Needed
  <2>2. p.ok
    BY <1>2, <1>3, <2>1
  <2>3. \/ p.arrays = array
        \/ /\ p.arrays["prev_steps"].value = FirstStep
           /\ p.arrays["prev_train_slopes"].value = 0
    BY <1>2, <1>4, <2>2
  <2>4. owner # "RPROP" /\ training_algorithm # "RPROP" =>
          /\ ~foreign
          /\ WithItsSlope(w.arrays["prev_steps"].value,
                          w.arrays["prev_train_slopes"].value)
    <3> SUFFICES ASSUME owner # "RPROP", training_algorithm # "RPROP"
                 PROVE  ~foreign /\ WithItsSlope(p.arrays["prev_steps"].value,
                                                 p.arrays["prev_train_slopes"].value)
      BY <1>3
    <3>1. ~foreign /\ WithItsSlope(array["prev_steps"].value,
                                   array["prev_train_slopes"].value)
      BY DEF TrainingInv, QuickpropInv
    <3>2. FirstStep = 0
      BY DEF FirstStep
    <3>3. WithItsSlope(0, 0)
      BY DEF WithItsSlope
    <3>4. QED
      BY <2>3, <3>1, <3>2, <3>3
  <2>5. QED
    BY <1>3, <2>3, <2>4 DEF Usable
<1>5. CASE training_algorithm \notin {"RPROP", "QUICKPROP"}
  <2>1. owner # "RPROP" =>
          /\ ~foreign
          /\ WithItsSlope(w.arrays["prev_steps"].value,
                          w.arrays["prev_train_slopes"].value)
    BY <1>2, <1>3, <1>5 DEF TrainingInv, QuickpropInv
  <2>2. QED
    BY <1>3, <1>5, <2>1 DEF Usable
<1>6. QED
  BY <1>4, <1>5

(* An update of the weights ends an epoch or, when an array is missing, the *)
(* program.                                                                *)
LEMMA UpdatedGives ==
  ASSUME TypeOK, training_algorithm # "INCREMENTAL",
         NEW w, NEW ok \in BOOLEAN, NEW next, "crashed" \notin next,
         Updated(w, ok, next),
         w.arrays \in Arrays, Arranged(w.arrays),
         errno_f \/ ~ok \/ Chained(w.arrays),
         (~w.errors \/ \E name \in Needed : w.arrays[name] = NULL)
           => errno_f \/ ~ok \/ (training_algorithm = "BATCH" /\ num_data = 0),
         (\A name \in Needed : w.arrays[name] # NULL) => Usable(w.arrays)
  PROVE  /\ \/ EpochDone /\ pc' \in next /\ Kept(w.arrays, array')
            \/ EpochCrashed
         /\ pc' # "crashed" /\ training_algorithm = "RPROP" =>
              array'["prev_steps"].value
                = RpropStep(w.arrays["prev_steps"].value,
                            w.arrays["prev_train_slopes"].value,
                            w.arrays["train_slopes"].value).step
<1> USE NamesOfArrays
<1>1. /\ size \in Nat /\ size > 0 /\ errno_f \in BOOLEAN
      /\ epochs \in [all : Nat, reported : Nat]
  BY DEF TypeOK
<1>2. CASE /\ ~w.errors \/ \E name \in Needed : w.arrays[name] = NULL
           /\ Crashed(ok)
  <2>1. errno_f \/ ~ok \/ (training_algorithm = "BATCH" /\ num_data = 0)
    BY <1>2
  <2>2. /\ pc' = "crashed" /\ errno_f' = (errno_f \/ ~ok)
        /\ UNCHANGED <<array, ghosts>>
    BY <1>2 DEF Crashed
  <2>3. errno_f' \in BOOLEAN /\ (errno_f => errno_f')
    BY <2>2
  <2>4. EpochCrashed
    BY <2>1, <2>2, <2>3 DEF EpochCrashed
  <2>5. QED
    BY <2>2, <2>4
<1>3. CASE /\ w.errors /\ \A name \in Needed : w.arrays[name] # NULL
           /\ UpdateWeights(w.arrays)
           /\ errno_f' = (errno_f \/ ~ok)
           /\ pc' \in next /\ Count
  <2>1. Usable(w.arrays)
    BY <1>3
  <2>2. /\ array' \in Arrays /\ array'["train_slopes"].value = 0
        /\ \A name \in ArrayNames : array'[name].length = w.arrays[name].length
        /\ Kept(w.arrays, array') /\ refused' = FALSE
        /\ defined' \in BOOLEAN /\ foreign' \in BOOLEAN
        /\ owner' \in {"none", "RPROP", "QUICKPROP"}
        /\ owner' # "RPROP" =>
             /\ ~foreign'
             /\ WithItsSlope(array'["prev_steps"].value,
                             array'["prev_train_slopes"].value)
        /\ defined /\ ~defined' => foreign' \/ num_data = 0
        /\ training_algorithm = "RPROP" =>
             array'["prev_steps"].value
               = RpropStep(w.arrays["prev_steps"].value,
                           w.arrays["prev_train_slopes"].value,
                           w.arrays["train_slopes"].value).step
    BY <1>3, <2>1, UpdateGives
  <2>3. Arranged(array') /\ (Chained(w.arrays) => Chained(array'))
    BY <1>1, <2>2, SameLengths
  <2>4. /\ errno_f' \in BOOLEAN /\ (errno_f => errno_f')
        /\ errno_f' \/ Chained(array')
    BY <1>3, <2>3
  <2>5. epochs' \in [all : Nat, reported : Nat] /\ epochs'.reported = epochs.reported
    BY <1>1, <1>3, CountTyped
  <2>6. Needed \subseteq ArrayNames
    BY DEF Needed
  <2>7. \A name \in Needed : array'[name] # NULL
    BY <1>3, <2>2, <2>6 DEF Kept
  <2>8. pc' # "crashed" /\ pc' \in next
    BY <1>3
  <2>9. EpochDone
    BY <2>2, <2>3, <2>4, <2>5, <2>7, <2>8 DEF EpochDone
  <2>10. QED
    BY <2>2, <2>8, <2>9
<1>4. QED
  BY <1>2, <1>3 DEF Updated

(* An epoch of the other three algorithms.  The steps it leaves to RPROP   *)
(* are RPROP's.                                                            *)
LEMMA BatchwiseGives ==
  ASSUME TrainingInv, pc = "epoch", training_algorithm # "INCREMENTAL", Batchwise
  PROVE  /\ (EpochDone /\ pc' = "report") \/ EpochCrashed
         /\ pc' # "crashed" /\ training_algorithm = "RPROP" =>
              \E step, prev_slope, slope \in Int :
                /\ array'["prev_steps"].value
                     = RpropStep(step, prev_slope, slope).step
                /\ step = array["prev_steps"].value \/ prev_slope = 0
<1> USE NamesOfArrays
<1>1. /\ TypeOK /\ size \in Nat /\ size > 0 /\ array \in Arrays /\ Arranged(array)
      /\ errno_f \/ Chained(array)
  BY DEF TrainingInv, TypeOK, ArraysInv
<1>2. PICK p \in Prepared(array), slope \in Slopes :
        \E w \in WithPatterns(p.arrays, slope) : Updated(w, p.ok /\ w.ok, {"report"})
  BY DEF Batchwise
<1>3. PICK w \in WithPatterns(p.arrays, slope) : Updated(w, p.ok /\ w.ok, {"report"})
  BY <1>2
<1>4. slope \in Int
  BY ParametersTyped
<1>5. /\ p.arrays \in Arrays /\ Arranged(p.arrays) /\ p.ok \in BOOLEAN
      /\ Chained(array) => Chained(p.arrays)
  BY <1>1, PreparedArrays
<1>6. /\ w.arrays \in Arrays /\ Arranged(w.arrays) /\ w.ok \in BOOLEAN
      /\ Chained(p.arrays) => Chained(w.arrays)
  BY <1>1, <1>4, <1>5, PatternsArrays
<1>7. ~w.errors \/ (\E name \in Needed : w.arrays[name] = NULL) =>
        errno_f \/ ~(p.ok /\ w.ok) \/ (training_algorithm = "BATCH" /\ num_data = 0)
  BY <1>1, <1>4, MissingArray
<1>8. (\A name \in Needed : w.arrays[name] # NULL) => Usable(w.arrays)
  BY <1>4, PatternsUsable
<1>9. /\ \/ EpochDone /\ pc' \in {"report"}
         \/ EpochCrashed
      /\ pc' # "crashed" /\ training_algorithm = "RPROP" =>
           array'["prev_steps"].value
             = RpropStep(w.arrays["prev_steps"].value,
                         w.arrays["prev_train_slopes"].value,
                         w.arrays["train_slopes"].value).step
  <2>1. (p.ok /\ w.ok) \in BOOLEAN /\ "crashed" \notin {"report"}
    OBVIOUS
  <2>2. errno_f \/ ~(p.ok /\ w.ok) \/ Chained(w.arrays)
    BY <1>1, <1>5, <1>6
  <2>3. QED
    BY <1>1, <1>3, <1>6, <1>7, <1>8, <2>1, <2>2, UpdatedGives
<1>10. ASSUME training_algorithm = "RPROP", pc' # "crashed"
       PROVE  \E step, prev_slope, sl \in Int :
                /\ array'["prev_steps"].value = RpropStep(step, prev_slope, sl).step
                /\ step = array["prev_steps"].value \/ prev_slope = 0
  <2>1. \A name \in Needed : w.arrays[name] # NULL
    BY <1>3, <1>10 DEF Updated, Crashed
  <2>2. \/ w.arrays["prev_steps"] = array["prev_steps"]
        \/ w.arrays["prev_train_slopes"].value = 0
    BY <1>4, <1>10, <2>1, PatternsUsable
  <2>3. /\ w.arrays["prev_steps"].value \in Int
        /\ w.arrays["prev_train_slopes"].value \in Int
        /\ w.arrays["train_slopes"].value \in Int
    BY <1>6 DEF Arrays, Entry
  <2>4. QED
    BY <1>9, <1>10, <2>2, <2>3
<1>11. QED
  BY <1>9, <1>10

(* An epoch of the outputs in cascade training.                            *)
LEMMA OutputsGive ==
  ASSUME TrainingInv, fann_train_outputs_epoch
  PROVE  /\ \/ /\ EpochDone /\ Kept(array, array')
               /\ pc' \in {"outputs", "trained", "last", "idle"}
            \/ EpochCrashed
         /\ pc' # "crashed" /\ training_algorithm = "RPROP" =>
              \E step, prev_slope, slope \in Int :
                /\ array'["prev_steps"].value
                     = RpropStep(step, prev_slope, slope).step
                /\ step = array["prev_steps"].value \/ prev_slope = 0
<1> USE NamesOfArrays
<1>1. /\ TypeOK /\ size \in Nat /\ size > 0 /\ array \in Arrays /\ Arranged(array)
      /\ errno_f \/ Chained(array)
      /\ errno_f \/ array["prev_train_slopes"] # NULL
      /\ refused \in BOOLEAN /\ (~refused => array["train_slopes"].value = 0)
      /\ pc \in {"outputs", "last"}
      /\ epochs \in [all : Nat, reported : Nat] /\ errno_f \in BOOLEAN
  BY DEF TrainingInv, TypeOK, ArraysInv, SlopesInv, fann_train_outputs_epoch
<1> DEFINE over == IF pc = "last" THEN "idle" ELSE "trained"
           next == IF epochs.all < MaxEpochs THEN {pc, over} ELSE {over}
<1>2. PICK slope \in Slopes : \E w \in WithPatterns(array, slope) :
        IF training_algorithm \in {"RPROP", "QUICKPROP"}
        THEN Updated(w, w.ok, next) ELSE RefusedAfter(w, w.ok, next)
  BY DEF fann_train_outputs_epoch
<1>3. PICK w \in WithPatterns(array, slope) :
        IF training_algorithm \in {"RPROP", "QUICKPROP"}
        THEN Updated(w, w.ok, next) ELSE RefusedAfter(w, w.ok, next)
  BY <1>2
<1>4. slope \in Int
  BY ParametersTyped
<1>5. /\ next \subseteq {"outputs", "trained", "last", "idle"}
      /\ "crashed" \notin next
  BY <1>1
<1> HIDE DEF next
<1>6. /\ w.arrays \in Arrays /\ Arranged(w.arrays) /\ Kept(array, w.arrays)
      /\ w.ok \in BOOLEAN /\ w.errors \in BOOLEAN /\ (w.ok => w.errors)
      /\ Chained(array) => Chained(w.arrays)
      /\ num_data = 0 => w.arrays = array
      /\ w.arrays["prev_steps"] = array["prev_steps"]
      /\ w.arrays["prev_train_slopes"] = array["prev_train_slopes"]
  BY <1>1, <1>4, PatternsArrays
<1>7. owner # "RPROP" =>
        /\ ~foreign
        /\ WithItsSlope(w.arrays["prev_steps"].value,
                        w.arrays["prev_train_slopes"].value)
  BY <1>6 DEF TrainingInv, QuickpropInv
<1>8. CASE training_algorithm \in {"RPROP", "QUICKPROP"}
  <2>1. Updated(w, w.ok, next)
    BY <1>3, <1>8
  <2>2. Needed = {"train_slopes", "prev_steps", "prev_train_slopes"}
    BY <1>8 DEF Needed
  <2>3. ~w.errors \/ (\E name \in Needed : w.arrays[name] = NULL)
          => errno_f \/ ~w.ok \/ (training_algorithm = "BATCH" /\ num_data = 0)
    BY <1>1, <1>6, <2>2 DEF Chained
  <2>4. (\A name \in Needed : w.arrays[name] # NULL) => Usable(w.arrays)
    BY <1>6, <1>7 DEF Usable
  <2>5. errno_f \/ ~w.ok \/ Chained(w.arrays)
    BY <1>1, <1>6
  <2>6. training_algorithm # "INCREMENTAL"
    BY <1>8
  <2>7. /\ \/ EpochDone /\ pc' \in next /\ Kept(w.arrays, array')
           \/ EpochCrashed
        /\ pc' # "crashed" /\ training_algorithm = "RPROP" =>
             array'["prev_steps"].value
               = RpropStep(w.arrays["prev_steps"].value,
                           w.arrays["prev_train_slopes"].value,
                           w.arrays["train_slopes"].value).step
    BY <1>1, <1>5, <1>6, <2>1, <2>3, <2>4, <2>5, <2>6, UpdatedGives
  <2>8. /\ w.arrays["prev_steps"].value \in Int
        /\ w.arrays["prev_train_slopes"].value \in Int
        /\ w.arrays["train_slopes"].value \in Int
    BY <1>6 DEF Arrays, Entry
  <2>9. Kept(w.arrays, array') => Kept(array, array')
    BY <1>6 DEF Kept
  <2>10. QED
    BY <1>5, <1>6, <2>7, <2>8, <2>9
<1>9. CASE training_algorithm \notin {"RPROP", "QUICKPROP"}
  <2>1. RefusedAfter(w, w.ok, next) /\ training_algorithm # "RPROP"
    BY <1>3, <1>9
  <2>2. CASE ~w.errors /\ Crashed(w.ok)
    <3>1. /\ pc' = "crashed" /\ errno_f' = (errno_f \/ ~w.ok)
          /\ UNCHANGED <<array, ghosts>>
      BY <2>2 DEF Crashed
    <3>2. errno_f' /\ errno_f' \in BOOLEAN
      BY <1>6, <2>2, <3>1
    <3>3. EpochCrashed
      BY <3>1, <3>2 DEF EpochCrashed
    <3>4. QED
      BY <3>1, <3>3
  <2>3. CASE /\ array' = w.arrays /\ errno_f' = (errno_f \/ ~w.ok)
             /\ refused' = (refused \/ num_data > 0)
             /\ pc' \in next /\ Count
             /\ UNCHANGED <<defined, foreign, owner>>
    <3>1. epochs' \in [all : Nat, reported : Nat] /\ epochs'.reported = epochs.reported
      BY <1>1, <2>3, CountTyped
    <3>2. /\ errno_f' \in BOOLEAN /\ refused' \in BOOLEAN
          /\ errno_f => errno_f'
          /\ errno_f' \/ Chained(array')
      BY <1>1, <1>6, <2>3
    <3>3. ~refused' => array'["train_slopes"].value = 0
      <4>1. ~refused' => ~refused /\ ~(num_data > 0)
        BY Zenon, <2>3
      <4>2. num_data \in Nat
        BY <1>1 DEF TypeOK
      <4>3. ~refused' => num_data = 0 /\ array["train_slopes"].value = 0
        BY <1>1, <4>1, <4>2
      <4>4. QED
        BY <1>6, <2>3, <4>3
    <3>4. /\ defined' \in BOOLEAN /\ foreign' \in BOOLEAN
          /\ owner' \in {"none", "RPROP", "QUICKPROP"}
          /\ ~(defined /\ ~defined')
          /\ owner' # "RPROP" =>
               /\ ~foreign'
               /\ WithItsSlope(array'["prev_steps"].value,
                               array'["prev_train_slopes"].value)
      BY <1>1, <1>7, <2>3 DEF TypeOK
    <3>5. pc' # "crashed" /\ pc' # "report"
          /\ pc' \in {"outputs", "trained", "last", "idle"}
      BY <1>5, <2>3
    <3>6. EpochDone
      BY <1>6, <2>3, <3>1, <3>2, <3>3, <3>4, <3>5 DEF EpochDone
    <3>7. QED
      BY <1>6, <2>1, <2>3, <3>5, <3>6
  <2>4. QED
    BY <2>1, <2>2, <2>3 DEF RefusedAfter
<1>10. QED
  BY <1>8, <1>9

(* What an epoch, of whichever training, leaves keeps the invariant.       *)
LEMMA EpochDoneKeepsInv ==
  ASSUME TrainingInv,
         UNCHANGED <<training_algorithm, size, num_data, max_epochs,
                     epochs_between_reports, i>>,
         desired_error_reached' \in BOOLEAN,
         \/ /\ pc = "epoch"
            /\ (EpochDone /\ pc' = "report") \/ EpochCrashed
         \/ /\ pc \in {"outputs", "last"}
            /\ \/ /\ EpochDone /\ Kept(array, array')
                  /\ pc' \in {"outputs", "trained", "last", "idle"}
               \/ EpochCrashed
  PROVE  /\ TrainingInv'
         /\ defined /\ ~defined' => foreign' \/ num_data = 0
<1> USE NamesOfArrays
<1>1. CASE EpochDone
  <2>1. pc' \in {"report", "outputs", "trained", "last", "idle"}
    BY <1>1 DEF EpochDone, EpochCrashed
  <2>2. TypeOK'
    BY <1>1, <2>1 DEF TrainingInv, TypeOK, EpochDone
  <2>3. Arranged(array)' /\ Chained(array)' = Chained(array') /\ Needed' = Needed
    BY <1>1 DEF EpochDone, Arranged, Chained, Needed
  <2>4. pc' # "report" => errno_f' \/ array'["prev_train_slopes"] # NULL
    <3>1. CASE errno_f
      BY <1>1, <3>1 DEF EpochDone
    <3>2. CASE ~errno_f
      <4>1. pc' # "report" =>
              pc \in {"outputs", "last"} /\ Kept(array, array')
        BY <1>1 DEF EpochDone, EpochCrashed
      <4>2. pc \in {"outputs", "last"} => array["prev_train_slopes"] # NULL
        BY <3>2 DEF TrainingInv, ArraysInv
      <4>3. QED
        BY <4>1, <4>2 DEF Kept
    <3>3. QED
      BY <3>1, <3>2
  <2>5. ArraysInv'
    BY <1>1, <2>1, <2>3, <2>4 DEF ArraysInv, EpochDone
  <2>6. SlopesInv' /\ QuickpropInv'
    BY <1>1 DEF SlopesInv, QuickpropInv, EpochDone
  <2>7. ReportsInv'
    BY <1>1, <2>1 DEF TrainingInv, ReportsInv, EpochDone, EpochCrashed
  <2>8. QED
    BY <1>1, <2>2, <2>5, <2>6, <2>7 DEF TrainingInv, EpochDone
<1>2. CASE EpochCrashed
  <2>1. TypeOK'
    BY <1>2 DEF TrainingInv, TypeOK, EpochCrashed, ghosts
  <2>2. Arranged(array)' /\ (Chained(array) => Chained(array)')
    BY <1>2 DEF TrainingInv, ArraysInv, EpochCrashed, Arranged, Chained
  <2>3. ArraysInv'
    BY <1>2, <2>2 DEF TrainingInv, ArraysInv, EpochCrashed
  <2>4. SlopesInv' /\ QuickpropInv' /\ ReportsInv'
    BY <1>2 DEF TrainingInv, SlopesInv, QuickpropInv, ReportsInv, EpochCrashed,
                ghosts
  <2>5. QED
    BY <1>2, <2>1, <2>3, <2>4 DEF TrainingInv, EpochCrashed, ghosts
<1>3. QED
  BY <1>1, <1>2

(* An epoch keeps the invariant.                                           *)
LEMMA EpochKeepsInv ==
  ASSUME TrainingInv, Epoch \/ fann_train_outputs_epoch
  PROVE  /\ TrainingInv'
         /\ defined /\ ~defined' => foreign' \/ num_data = 0
         /\ pc' # "crashed" /\ training_algorithm = "RPROP" =>
              \E step, prev_slope, slope \in Int :
                /\ array'["prev_steps"].value
                     = RpropStep(step, prev_slope, slope).step
                /\ step = array["prev_steps"].value \/ prev_slope = 0
<1>1. CASE Epoch
  <2>1. /\ UNCHANGED <<training_algorithm, size, num_data, max_epochs,
                       epochs_between_reports, i>>
        /\ pc = "epoch" /\ desired_error_reached' \in BOOLEAN
    BY <1>1 DEF Epoch, ErrorCompared
  <2>2. /\ (EpochDone /\ pc' = "report") \/ EpochCrashed
        /\ pc' # "crashed" /\ training_algorithm = "RPROP" =>
             \E step, prev_slope, slope \in Int :
               /\ array'["prev_steps"].value = RpropStep(step, prev_slope, slope).step
               /\ step = array["prev_steps"].value \/ prev_slope = 0
    <3>1. CASE training_algorithm = "INCREMENTAL"
      BY <1>1, <3>1, IncrementalGives DEF Epoch
    <3>2. CASE training_algorithm # "INCREMENTAL"
      BY <1>1, <3>2, BatchwiseGives DEF Epoch
    <3>3. QED
      BY <3>1, <3>2
  <2>3. QED
    BY <2>1, <2>2, EpochDoneKeepsInv
<1>2. CASE fann_train_outputs_epoch
  <2>1. /\ UNCHANGED <<training_algorithm, size, num_data, max_epochs,
                       epochs_between_reports, i>>
        /\ pc \in {"outputs", "last"} /\ desired_error_reached' \in BOOLEAN
    BY <1>2 DEF fann_train_outputs_epoch, session, TrainingInv, TypeOK
  <2>2. QED
    BY <1>2, <2>1, OutputsGive, EpochDoneKeepsInv
<1>3. QED
  BY <1>1, <1>2

(* fann_train_on_data and its loop.                                        *)
LEMMA LoopKeepsInv ==
  ASSUME TrainingInv,
         fann_train_on_data \/ Report \/ NoReport \/ CallbackReturns
  PROVE  TrainingInv' /\ UNCHANGED defined
<1> USE DEF TrainingInv
<1>1. CASE fann_train_on_data
  <2>1. /\ num_data' \in Nat /\ max_epochs' \in Nat
        /\ epochs_between_reports' \in Nat
    BY <1>1, ParametersTyped DEF fann_train_on_data
  <2>2. epochs' \in [all : Nat, reported : Nat]
    BY <1>1 DEF fann_train_on_data, TypeOK
  <2>3. TypeOK'
    BY <1>1, <2>1, <2>2 DEF fann_train_on_data, TypeOK
  <2>4. ArraysInv' /\ SlopesInv' /\ QuickpropInv'
    BY <1>1 DEF fann_train_on_data, ArraysInv, Arranged, Chained, SlopesInv, QuickpropInv
  <2>5. ReportsInv'
    BY <1>1, <2>1 DEF fann_train_on_data, ReportsInv
  <2>6. QED
    BY <1>1, <2>3, <2>4, <2>5 DEF fann_train_on_data
<1>2. CASE Report
  <2>1. /\ epochs' \in [all : Nat, reported : Nat] /\ epochs'.reported = i
    BY <1>2 DEF Report, TypeOK
  <2>2. TypeOK'
    BY <1>2, <2>1 DEF Report, TypeOK, session
  <2>3. ArraysInv' /\ SlopesInv' /\ QuickpropInv'
    BY <1>2 DEF Report, ArraysInv, Arranged, Chained, SlopesInv, QuickpropInv, session
  <2>4. ReportsInv'
    BY <1>2, <2>1 DEF Report, ReportsInv, session
  <2>5. QED
    BY <1>2, <2>2, <2>3, <2>4 DEF Report
<1>3. ASSUME NEW stop, NextEpoch(stop), pc \in {"report", "callback"},
             epochs_between_reports > 0 /\ (stop \/ desired_error_reached \/ i >= max_epochs)
               => epochs.reported = i
      PROVE  TrainingInv' /\ UNCHANGED defined
  <2>1. /\ \/ /\ stop \/ desired_error_reached \/ i >= max_epochs
              /\ pc' = "idle" /\ UNCHANGED i
           \/ /\ ~(stop \/ desired_error_reached \/ i >= max_epochs)
              /\ pc' = "epoch" /\ i' = i + 1
        /\ UNCHANGED <<training_algorithm, array, size, errno_f, num_data,
                       max_epochs, epochs_between_reports,
                       desired_error_reached, ghosts>>
    BY <1>3 DEF NextEpoch, Following
  <2>2. i \in Nat /\ max_epochs \in Nat /\ i + 1 \in Nat
    BY DEF TypeOK
  <2>3. TypeOK'
    BY <2>1, <2>2 DEF TypeOK, ghosts
  <2>4. ArraysInv' /\ SlopesInv' /\ QuickpropInv'
    BY <1>3, <2>1 DEF ArraysInv, Arranged, Chained, SlopesInv, QuickpropInv, ghosts
  <2>5. ReportsInv'
    BY <1>3, <2>1, <2>2 DEF ReportsInv, ghosts
  <2>6. QED
    BY <2>1, <2>3, <2>4, <2>5 DEF ghosts
<1>4. CASE NoReport
  <2>1. NextEpoch(FALSE) /\ pc = "report"
    BY <1>4 DEF NoReport
  <2>2. epochs_between_reports > 0 =>
          ~(desired_error_reached \/ i >= max_epochs)
    <3>1. i <= max_epochs /\ i \in Nat /\ max_epochs \in Nat
      BY <2>1 DEF ReportsInv, TypeOK
    <3>2. epochs_between_reports > 0 => ~desired_error_reached /\ i # max_epochs
      BY <1>4 DEF NoReport, ReportNow, Scheduled
    <3>3. QED
      BY <3>1, <3>2
  <2>3. QED
    BY <1>3, <2>1, <2>2
<1>5. CASE CallbackReturns
  BY <1>3, <1>5 DEF CallbackReturns, ReportsInv
<1>6. QED
  BY <1>1, <1>2, <1>4, <1>5

(* The algorithm is changed between two epochs or trainings.               *)
LEMMA SetAlgorithmKeepsInv ==
  ASSUME TrainingInv, fann_set_training_algorithm
  PROVE  TrainingInv' /\ UNCHANGED defined
<1> USE DEF TrainingInv, fann_set_training_algorithm
<1>1. /\ pc \in {"idle", "callback", "trained"}
      /\ UNCHANGED <<pc, array, size, num_data, max_epochs,
                     epochs_between_reports, i, desired_error_reached, errno_f,
                     defined, refused, foreign, owner, epochs>>
  BY DEF MayCall, session, ghosts
<1>2. TypeOK'
  BY <1>1 DEF TypeOK
<1>3. ArraysInv' /\ SlopesInv' /\ QuickpropInv' /\ ReportsInv'
  BY <1>1 DEF ArraysInv, Arranged, Chained, SlopesInv, QuickpropInv, ReportsInv
<1>4. QED
  BY <1>1, <1>2, <1>3

(* One pattern is trained.                                                 *)
LEMMA TrainKeepsInv ==
  ASSUME TrainingInv, fann_train
  PROVE  TrainingInv' /\ UNCHANGED defined
<1> USE NamesOfArrays DEF TrainingInv
<1>1. /\ pc \in {"idle", "callback", "trained"}
      /\ UNCHANGED <<training_algorithm, size, num_data, max_epochs,
                     epochs_between_reports, i, desired_error_reached,
                     defined, refused, foreign, owner, epochs>>
  BY DEF fann_train, MayCall, session, ghosts
<1>2. /\ size \in Nat /\ size > 0 /\ array \in Arrays /\ Arranged(array)
      /\ errno_f \/ Chained(array)
      /\ pc = "trained" => errno_f \/ array["prev_train_slopes"] # NULL
  BY DEF TypeOK, ArraysInv
<1>3. /\ array' \in Arrays /\ Arranged(array') /\ errno_f' \in BOOLEAN
      /\ errno_f' \/ Chained(array')
      /\ errno_f => errno_f'
      /\ array'["train_slopes"] = array["train_slopes"]
      /\ array'["prev_steps"] = array["prev_steps"]
      /\ array'["prev_train_slopes"] = array["prev_train_slopes"]
      /\ UNCHANGED pc \/ (pc' = "crashed" /\ errno_f')
  <2>1. PICK e \in WithErrors(array) :
          \/ ~e.ok /\ pc' = "crashed" /\ errno_f' = TRUE /\ UNCHANGED array
          \/ /\ e.ok
             /\ \E d \in WithDeltas(e.arrays) :
                  array' = d.arrays /\ errno_f' = (errno_f \/ ~d.ok)
             /\ UNCHANGED pc
    BY DEF fann_train
  <2>2. CASE ~e.ok /\ pc' = "crashed" /\ errno_f' = TRUE /\ UNCHANGED array
    BY <1>2, <2>2
  <2>3. CASE /\ \E d \in WithDeltas(e.arrays) :
                  array' = d.arrays /\ errno_f' = (errno_f \/ ~d.ok)
             /\ UNCHANGED pc
    <3>1. PICK d \in WithDeltas(e.arrays) :
            array' = d.arrays /\ errno_f' = (errno_f \/ ~d.ok)
      BY <2>3
    <3>2. /\ e.arrays \in Arrays /\ Arranged(e.arrays)
          /\ (Chained(array) => Chained(e.arrays))
          /\ \A other \in ArrayNames \ {"train_errors"} :
               e.arrays[other] = array[other]
      BY <1>2, AllocatedArrays DEF WithErrors
    <3>3. /\ d.arrays \in Arrays /\ Arranged(d.arrays) /\ d.ok \in BOOLEAN
          /\ (Chained(e.arrays) => Chained(d.arrays))
          /\ \A other \in ArrayNames \ {"prev_weights_deltas"} :
               d.arrays[other] = e.arrays[other]
      BY <1>2, <3>2, AllocatedArrays DEF WithDeltas
    <3>4. errno_f' \in BOOLEAN /\ (errno_f => errno_f')
          /\ (errno_f' \/ Chained(array'))
      BY <1>2, <3>1, <3>2, <3>3
    <3>5. QED
      BY <2>3, <3>1, <3>2, <3>3, <3>4
  <2>4. QED
    BY <2>1, <2>2, <2>3
<1>4. TypeOK'
  BY <1>1, <1>3 DEF TypeOK
<1>5. Arranged(array)' /\ (Chained(array') => Chained(array)')
  BY <1>1, <1>3 DEF Arranged, Chained
<1>6. ArraysInv'
  BY <1>1, <1>2, <1>3, <1>5 DEF ArraysInv
<1>7. SlopesInv' /\ QuickpropInv' /\ ReportsInv'
  BY <1>1, <1>3 DEF SlopesInv, QuickpropInv, ReportsInv
<1>8. QED
  BY <1>1, <1>4, <1>6, <1>7

(* Clearing the arrays a, which are those of the network or what a         *)
(* reallocation has made of them.                                          *)
LEMMA ClearGives ==
  ASSUME TrainingInv, NEW a \in Arrays, Arranged(a), NEW failed \in BOOLEAN,
         Clear(a, failed),
         errno_f \/ failed \/ Chained(a),
         a["train_slopes"] = NULL =>
           /\ a["prev_steps"] = array["prev_steps"]
           /\ a["prev_train_slopes"] = array["prev_train_slopes"]
  PROVE  /\ array' \in Arrays /\ Arranged(array') /\ Kept(a, array')
         /\ errno_f' \in BOOLEAN /\ (errno_f \/ failed => errno_f')
         /\ errno_f' \/ (Chained(array') /\ array'["prev_train_slopes"] # NULL)
         /\ array'["train_slopes"].value = 0 /\ refused' = FALSE
         /\ foreign' \in BOOLEAN /\ owner' \in {"none", "RPROP", "QUICKPROP"}
         /\ owner' # "RPROP" =>
              /\ ~foreign'
              /\ WithItsSlope(array'["prev_steps"].value,
                              array'["prev_train_slopes"].value)
         /\ \A name \in ArrayNames :
              a[name] # NULL => array'[name].length = a[name].length
<1> USE NamesOfArrays
<1>1. /\ size \in Nat /\ size > 0 /\ errno_f \in BOOLEAN /\ foreign \in BOOLEAN
      /\ owner \in {"none", "RPROP", "QUICKPROP"}
      /\ owner # "RPROP" =>
           /\ ~foreign
           /\ WithItsSlope(array["prev_steps"].value,
                           array["prev_train_slopes"].value)
  BY DEF TrainingInv, TypeOK, QuickpropInv
<1>2. PICK c \in Cleared(a) :
        /\ array' = c.arrays /\ errno_f' = (errno_f \/ failed \/ ~c.ok)
        /\ owner' = OwnerAfter(c.ok) /\ foreign' = (foreign /\ ~c.ok)
        /\ refused' = FALSE
  BY DEF Clear
<1>3. /\ c.arrays \in Arrays /\ Arranged(c.arrays) /\ Kept(a, c.arrays)
      /\ c.ok \in BOOLEAN /\ (Chained(a) => Chained(c.arrays))
      /\ c.ok => /\ c.arrays["train_slopes"] # NULL
                 /\ c.arrays["prev_steps"] # NULL
                 /\ c.arrays["prev_train_slopes"] # NULL
                 /\ c.arrays["prev_steps"].value = FirstStep
                 /\ c.arrays["prev_train_slopes"].value = 0
      /\ c.arrays["train_slopes"].value = 0
      /\ ~c.ok =>
           \/ c.arrays["prev_steps"].value \in {0, FirstStep}
           \/ c.arrays = a /\ a["train_slopes"] = NULL
      /\ \A name \in ArrayNames :
           a[name] # NULL => c.arrays[name].length = a[name].length
  BY <1>1, ClearedArrays
<1>4. /\ errno_f' \in BOOLEAN /\ (errno_f \/ failed => errno_f')
      /\ ~errno_f' => c.ok
      /\ errno_f' \/ (Chained(array') /\ array'["prev_train_slopes"] # NULL)
  BY <1>1, <1>2, <1>3
<1>5. foreign' \in BOOLEAN /\ owner' \in {"none", "RPROP", "QUICKPROP"}
  BY <1>1, <1>2, <1>3 DEF OwnerAfter
<1>6. ASSUME owner' # "RPROP"
      PROVE  /\ ~foreign'
             /\ WithItsSlope(array'["prev_steps"].value,
                             array'["prev_train_slopes"].value)
  <2>1. FirstStep = 0 /\ (~c.ok => owner # "RPROP")
    BY <1>2, <1>3, <1>6 DEF OwnerAfter, FirstStep
  <2>2. ~foreign'
    BY <1>1, <1>2, <1>3, <2>1
  <2>3. CASE c.arrays["prev_steps"].value = 0
    BY <1>2, <2>2, <2>3 DEF WithItsSlope
  <2>4. CASE c.arrays["prev_steps"].value # 0
    BY <1>1, <1>2, <1>3, <2>1, <2>2, <2>4
  <2>5. QED
    BY <2>3, <2>4
<1>7. QED
  BY <1>2, <1>3, <1>4, <1>5, <1>6

(* What a step that clears the arrays leaves of the invariant.             *)
LEMMA ClearKeepsInv ==
  ASSUME TrainingInv, NEW a \in Arrays, Arranged(a), NEW failed \in BOOLEAN,
         Clear(a, failed),
         errno_f \/ failed \/ Chained(a),
         a["train_slopes"] = NULL =>
           /\ a["prev_steps"] = array["prev_steps"]
           /\ a["prev_train_slopes"] = array["prev_train_slopes"],
         UNCHANGED <<training_algorithm, max_epochs, epochs_between_reports, i,
                     desired_error_reached, epochs>>,
         num_data' \in Nat, defined' \in BOOLEAN,
         \/ UNCHANGED size
         \/ /\ size' = size + 1
            /\ \A name \in ArrayNames \ {"prev_weights_deltas"} :
                 a[name] # NULL /\ a[name].length >= size + 1,
         \/ pc \in {"idle", "callback", "trained"} /\ pc' = pc
         \/ pc \in {"idle", "trained"} /\ pc' \in {"outputs", "last"}
  PROVE  TrainingInv'
<1> USE NamesOfArrays
<1>1. /\ array' \in Arrays /\ Arranged(array')
      /\ errno_f' \in BOOLEAN
      /\ errno_f' \/ (Chained(array') /\ array'["prev_train_slopes"] # NULL)
      /\ array'["train_slopes"].value = 0 /\ refused' = FALSE
      /\ foreign' \in BOOLEAN /\ owner' \in {"none", "RPROP", "QUICKPROP"}
      /\ owner' # "RPROP" =>
           /\ ~foreign'
           /\ WithItsSlope(array'["prev_steps"].value,
                           array'["prev_train_slopes"].value)
      /\ \A name \in ArrayNames :
           a[name] # NULL => array'[name].length = a[name].length
  BY ClearGives
<1>2. size \in Nat /\ size > 0 /\ size' \in Nat /\ size' > 0
  BY DEF TrainingInv, TypeOK
<1>3. TypeOK'
  BY <1>1, <1>2 DEF TrainingInv, TypeOK
<1>4. Arranged(array)' /\ (Chained(array') => Chained(array)')
  BY <1>1, <1>2 DEF Arranged, Chained
<1>5. pc' \notin {"crashed", "report"}
  OBVIOUS
<1>6. ArraysInv'
  BY <1>1, <1>4, <1>5 DEF ArraysInv
<1>7. SlopesInv' /\ QuickpropInv'
  BY <1>1 DEF SlopesInv, QuickpropInv
<1>8. ReportsInv'
  BY DEF TrainingInv, ReportsInv
<1>9. QED
  BY <1>3, <1>6, <1>7, <1>8 DEF TrainingInv

(* The weights are randomized, and the arrays cleared if they are there.   *)
LEMMA RandomizeKeepsInv ==
  ASSUME TrainingInv, fann_randomize_weights
  PROVE  TrainingInv' /\ defined'
<1>1. /\ pc \in {"idle", "callback", "trained"} /\ pc' = pc
      /\ Clear(array, FALSE) /\ defined' = TRUE
      /\ UNCHANGED <<training_algorithm, size, num_data, max_epochs,
                     epochs_between_reports, i, desired_error_reached, epochs>>
  BY DEF fann_randomize_weights, MayCall, session
<1>2. array \in Arrays /\ Arranged(array) /\ (errno_f \/ Chained(array))
      /\ num_data \in Nat
  BY DEF TrainingInv, TypeOK, ArraysInv
<1>3. QED
  BY <1>1, <1>2, ClearKeepsInv

(* What reallocation leaves of the arrays.                                 *)
LEMMA ReallocatedArrays ==
  ASSUME size \in Nat, size > 0, NEW a \in Arrays, Arranged(a), NEW done \in 0 .. 4
  PROVE  /\ Reallocated(a, done) \in Arrays /\ Arranged(Reallocated(a, done))
         /\ done = 4 =>
              \A name \in ArrayNames \ {"prev_weights_deltas"} :
                /\ Reallocated(a, done)[name] # NULL
                /\ Reallocated(a, done)[name].length = size + 1
         /\ Reallocated(a, done)["train_slopes"] = NULL =>
              /\ Reallocated(a, done)["prev_steps"] = a["prev_steps"]
              /\ Reallocated(a, done)["prev_train_slopes"] = a["prev_train_slopes"]
<1> USE NamesOfArrays
<1> DEFINE b == Reallocated(a, done)
           Grown(name) == [a[name] EXCEPT !.length = size + 1]
<1>1. /\ Growing[1] = "train_errors" /\ Growing[2] = "train_slopes"
      /\ Growing[3] = "prev_steps" /\ Growing[4] = "prev_train_slopes"
  BY DEF Growing
<1>2. ASSUME NEW name \in ArrayNames
      PROVE  /\ Grown(name) \in Entry /\ Grown(name) # NULL
             /\ Grown(name).length = size + 1
  <2>1. a[name] \in [length : Nat, value : Int]
    BY DEF Arrays, Entry
  <2>2. Grown(name) \in [length : Nat, value : Int] /\ Grown(name).length = size + 1
    BY <2>1
  <2>3. QED
    BY <2>2 DEF Entry, NULL
<1>3. NULL \in Entry
  BY DEF NULL, Entry
<1>4. ASSUME NEW name \in ArrayNames
      PROVE  /\ b[name] = IF \E k \in 1 .. done : name = Growing[k] THEN Grown(name)
                          ELSE IF done < 4 /\ name = Growing[done + 1] THEN NULL
                          ELSE a[name]
             /\ b[name] \in Entry
  <2>1. b[name] = IF \E k \in 1 .. done : name = Growing[k] THEN Grown(name)
                  ELSE IF done < 4 /\ name = Growing[done + 1] THEN NULL
                  ELSE a[name]
    BY DEF Reallocated
  <2>2. a[name] \in Entry
    BY DEF Arrays
  <2> HIDE DEF b, Grown
  <2>3. QED
    BY <1>2, <1>3, <2>1, <2>2
<1>5. b \in Arrays
  <2>1. b = [name \in ArrayNames |-> b[name]]
    BY DEF Reallocated
  <2> HIDE DEF b
  <2>2. QED
    BY <1>4, <2>1 DEF Arrays
<1> HIDE DEF b, Grown
<1>6. Arranged(b)
  BY <1>2, <1>4 DEF Arranged
<1>7. ASSUME done = 4, NEW name \in ArrayNames \ {"prev_weights_deltas"}
      PROVE  b[name] # NULL /\ b[name].length = size + 1
  <2>1. \E k \in 1 .. done : name = Growing[k]
    BY <1>1, <1>7 DEF ArrayNames
  <2>2. QED
    BY <1>2, <1>4, <2>1
<1>8. ASSUME b["train_slopes"] = NULL
      PROVE  /\ b["prev_steps"] = a["prev_steps"]
             /\ b["prev_train_slopes"] = a["prev_train_slopes"]
  <2>1. done < 2
    <3> SUFFICES ASSUME done >= 2
                 PROVE  FALSE
      OBVIOUS
    <3>1. 2 \in 1 .. done
      OBVIOUS
    <3>2. QED
      BY <1>1, <1>2, <1>4, <1>8, <3>1
  <2>2. done \in {0, 1}
    BY <2>1
  <2>3. QED
    BY <1>1, <1>4, <2>2
<1>9. QED
  BY <1>5, <1>6, <1>7, <1>8 DEF b

(* Cascade training.                                                       *)
LEMMA CascadeKeepsInv ==
  ASSUME TrainingInv,
         \/ fann_cascadetrain_on_data \/ NextNeuron \/ RoomIsMissing
         \/ NetworkIsLost \/ StopGrowing
  PROVE  TrainingInv' /\ UNCHANGED defined
<1> USE NamesOfArrays
<1>1. /\ size \in Nat /\ size > 0 /\ array \in Arrays /\ Arranged(array)
      /\ errno_f \/ Chained(array)
      /\ num_data \in Nat /\ defined \in BOOLEAN /\ errno_f \in BOOLEAN
  BY DEF TrainingInv, TypeOK, ArraysInv
<1>2. CASE fann_cascadetrain_on_data
  <2>1. /\ pc = "idle" /\ pc' \in {"outputs", "last"}
        /\ Clear(array, FALSE) /\ num_data' \in Nat
        /\ UNCHANGED <<training_algorithm, size, max_epochs, epochs_between_reports,
                       i, desired_error_reached, defined, epochs>>
    BY <1>2, ParametersTyped DEF fann_cascadetrain_on_data, fann_train_outputs
  <2>2. QED
    BY <1>1, <2>1, ClearKeepsInv
<1>3. CASE NextNeuron
  <2>1. /\ pc = "trained"
        /\ UNCHANGED <<training_algorithm, num_data, max_epochs,
                       epochs_between_reports, i, desired_error_reached,
                       defined, epochs>>
    BY <1>3 DEF NextNeuron, session
  <2>2. CASE /\ UNCHANGED size
             /\ fann_train_outputs(array, {"outputs", "last"})
    <3>1. Clear(array, FALSE) /\ pc' \in {"outputs", "last"}
      BY <2>2 DEF fann_train_outputs
    <3>2. QED
      BY <1>1, <2>1, <2>2, <3>1, ClearKeepsInv
  <2>3. CASE /\ size' = size + 1
             /\ fann_train_outputs(Reallocated(array, 4), {"outputs", "last"})
    <3> DEFINE a == Reallocated(array, 4)
    <3>1. Clear(a, FALSE) /\ pc' \in {"outputs", "last"}
      BY <2>3 DEF fann_train_outputs
    <3>2. /\ a \in Arrays /\ Arranged(a)
          /\ \A name \in ArrayNames \ {"prev_weights_deltas"} :
               a[name] # NULL /\ a[name].length = size + 1
      BY <1>1, ReallocatedArrays
    <3> HIDE DEF a
    <3>3. /\ a["train_slopes"] # NULL /\ Chained(a)
          /\ \A name \in ArrayNames \ {"prev_weights_deltas"} :
               a[name] # NULL /\ a[name].length >= size + 1
      BY <1>1, <3>2 DEF Chained
    <3>4. QED
      BY <1>1, <2>1, <2>3, <3>1, <3>2, <3>3, ClearKeepsInv
  <2>4. QED
    BY <1>3, <2>2, <2>3 DEF NextNeuron
<1>4. CASE RoomIsMissing
  <2>1. /\ pc = "trained" /\ pc' = "last"
        /\ UNCHANGED <<training_algorithm, size, num_data, max_epochs,
                       epochs_between_reports, i, desired_error_reached,
                       defined, epochs>>
    BY <1>4 DEF RoomIsMissing, session
  <2>2. PICK a \in {array} \cup {Reallocated(array, done) : done \in 0 .. 3} :
          Clear(a, TRUE)
    BY <1>4 DEF RoomIsMissing
  <2>3. /\ a \in Arrays /\ Arranged(a)
        /\ a["train_slopes"] = NULL =>
             /\ a["prev_steps"] = array["prev_steps"]
             /\ a["prev_train_slopes"] = array["prev_train_slopes"]
    <3>1. CASE a = array
      BY <1>1, <3>1
    <3>2. CASE a \in {Reallocated(array, done) : done \in 0 .. 3}
      <4>1. PICK done \in 0 .. 3 : a = Reallocated(array, done)
        BY <3>2
      <4>2. done \in 0 .. 4
        OBVIOUS
      <4>3. QED
        BY <1>1, <4>1, <4>2, ReallocatedArrays
    <3>3. QED
      BY <3>1, <3>2
  <2>4. QED
    BY <1>1, <2>1, <2>2, <2>3, ClearKeepsInv
<1>5. CASE NetworkIsLost
  <2>1. /\ pc = "trained" /\ pc' = "crashed"
        /\ UNCHANGED <<training_algorithm, array, size, num_data, max_epochs,
                       epochs_between_reports, i, desired_error_reached,
                       defined, refused, foreign, owner, epochs>>
    BY <1>5 DEF NetworkIsLost, session, ghosts
  <2>2. errno_f' \in BOOLEAN /\ errno_f'
    <3>1. CASE errno_f' = TRUE
      BY <3>1
    <3>2. CASE (\E k \in 2 .. 4 : array[Growing[k]] = NULL) /\ UNCHANGED errno_f
      <4>1. 2 .. 4 = {2, 3, 4}
        OBVIOUS
      <4>2. \/ array["train_slopes"] = NULL \/ array["prev_steps"] = NULL
            \/ array["prev_train_slopes"] = NULL
        BY <3>2, <4>1 DEF Growing
      <4>3. errno_f
        BY <1>1, <2>1, <4>2 DEF TrainingInv, ArraysInv, Chained
      <4>4. QED
        BY <1>1, <3>2, <4>3
    <3>3. QED
      BY <1>5, <3>1, <3>2 DEF NetworkIsLost
  <2>3. TypeOK'
    BY <2>1, <2>2 DEF TrainingInv, TypeOK
  <2>4. Arranged(array)'
    BY <1>1, <2>1 DEF Arranged
  <2>5. ArraysInv'
    BY <2>1, <2>2, <2>4 DEF ArraysInv
  <2>6. SlopesInv' /\ QuickpropInv' /\ ReportsInv'
    BY <2>1 DEF TrainingInv, SlopesInv, QuickpropInv, ReportsInv
  <2>7. QED
    BY <2>1, <2>3, <2>5, <2>6 DEF TrainingInv
<1>6. CASE StopGrowing
  <2>1. /\ pc = "trained" /\ pc' \in {"outputs", "last"}
        /\ Clear(array, FALSE)
        /\ UNCHANGED <<training_algorithm, size, num_data, max_epochs,
                       epochs_between_reports, i, desired_error_reached,
                       defined, epochs>>
    BY <1>6 DEF StopGrowing, fann_train_outputs, session
  <2>2. QED
    BY <1>1, <2>1, ClearKeepsInv
<1>7. QED
  BY <1>2, <1>3, <1>4, <1>5, <1>6

(* After a restart it is as at the start.                                  *)
LEMMA RestartKeepsInv ==
  ASSUME Restart
  PROVE  TrainingInv' /\ defined'
<1>1. Init'
  BY DEF Restart, Init
<1>2. (Init => TrainingInv)'
  BY InitTraining, PTL
<1>3. QED
  BY <1>1, <1>2 DEF Restart

(* A step that changes nothing keeps the invariant.                        *)
LEMMA StutterKeepsInv ==
  ASSUME TrainingInv, UNCHANGED vars
  PROVE  TrainingInv' /\ UNCHANGED <<defined, array>>
BY DEF vars, session, ghosts, TrainingInv, TypeOK, ArraysInv, Arranged, Chained, Needed,
       SlopesInv, QuickpropInv, ReportsInv

(* The invariant is inductive.                                             *)
LEMMA TrainingStep ==
  ASSUME TrainingInv, [Next]_vars
  PROVE  /\ TrainingInv'
         /\ defined /\ ~defined' => foreign' \/ num_data = 0
<1>1. CASE Epoch \/ fann_train_outputs_epoch
  BY <1>1, EpochKeepsInv
<1>2. CASE fann_train_on_data \/ Report \/ NoReport \/ CallbackReturns
  BY <1>2, LoopKeepsInv
<1>3. CASE fann_set_training_algorithm
  BY <1>3, SetAlgorithmKeepsInv
<1>4. CASE fann_train
  BY <1>4, TrainKeepsInv
<1>5. CASE fann_randomize_weights
  BY <1>5, RandomizeKeepsInv
<1>6. CASE \/ fann_cascadetrain_on_data \/ NextNeuron \/ RoomIsMissing
          \/ NetworkIsLost \/ StopGrowing
  BY <1>6, CascadeKeepsInv
<1>7. CASE Restart
  BY <1>7, RestartKeepsInv
<1>8. CASE UNCHANGED vars
  BY <1>8, StutterKeepsInv
<1>9. QED
  BY <1>1, <1>2, <1>3, <1>4, <1>5, <1>6, <1>7, <1>8
     DEF Next, Training, Cascade, Caller

-----------------------------------------------------------------------------
(* Theorems                                                                *)

(* The types of the state, the arrays in the order they are made, slopes   *)
(* used up, quickprop's own steps and the reports, in every reachable      *)
(* state.                                                                  *)
THEOREM TrainingInvariant == Spec => []TrainingInv
<1>1. Init => TrainingInv
  BY InitTraining
<1>2. TrainingInv /\ [Next]_vars => TrainingInv'
  BY TrainingStep
<1>3. QED
  BY <1>1, <1>2, PTL DEF Spec

(* Every algorithm finds the arrays it needs, long enough for the network, *)
(* unless an allocation failed or batch training of a new network has no   *)
(* data (fann_train_data.c:177-283).                                       *)
THEOREM ArraysAreFound == Spec => []ArraysAreThere
<1>1. TrainingInv => ArraysAreThere
  <2> SUFFICES ASSUME TrainingInv
               PROVE  ArraysAreThere
    OBVIOUS
  <2>1. ASSUME pc = "report", training_algorithm # "INCREMENTAL",
               NEW name \in Needed
        PROVE  array[name].length >= size
    <3>1. array[name] # NULL /\ Arranged(array)
      BY <2>1 DEF TrainingInv, ArraysInv
    <3>2. name \in ArrayNames \ {"prev_weights_deltas"}
      BY <2>1, NamesOfArrays DEF Needed, TrainingInv, TypeOK, Algorithms
    <3>3. QED
      BY <3>1, <3>2 DEF Arranged
  <2>2. ASSUME NEW name \in {"train_slopes", "prev_steps", "prev_train_slopes"},
               array[name] # NULL
        PROVE  array[name].length >= size
    BY <2>2, NamesOfArrays DEF TrainingInv, ArraysInv, Arranged
  <2>3. QED
    BY <2>1, <2>2 DEF ArraysAreThere, TrainingInv, ArraysInv
<1>2. QED
  BY <1>1, TrainingInvariant, PTL

(* No training starts with slopes that were counted before, after any      *)
(* mixture of trainings and failing allocations, but for those a cascade   *)
(* training has left that was refused its algorithm.                       *)
THEOREM SlopesCountedOnce == Spec => []SlopesCountOnce
<1>1. TrainingInv => SlopesCountOnce
  BY DEF TrainingInv, SlopesInv, SlopesCountOnce
<1>2. QED
  BY <1>1, TrainingInvariant, PTL

(* When a training with reports is over its last epoch has been reported,  *)
(* for all limits and intervals (fann_train_data.c:285-341).               *)
THEOREM LastEpochIsReported == Spec => []LastEpochReported
<1>1. TrainingInv => LastEpochReported
  BY DEF TrainingInv, ReportsInv, LastEpochReported
<1>2. QED
  BY <1>1, TrainingInvariant, PTL

(* Quickprop never divides by the change of a slope that has not changed,  *)
(* for all slopes and numbers of patterns, as long as the step it finds is *)
(* its own (fann_train.c:649-672).                                         *)
THEOREM QuickpropNeverDividesByZero == Spec => QuickpropDivides
<1>1. TrainingInv /\ [Next]_vars
        => [defined /\ ~defined' => foreign' \/ num_data = 0]_vars
  BY TrainingStep
<1>2. QED
  BY <1>1, TrainingInvariant, PTL DEF Spec, QuickpropDivides

(* RPROP's steps stay positive and within the limits a caller sets, if the *)
(* greatest step is positive and no less than the least, as it is unless a *)
(* caller changes it (50.0 and 0.0, fann.c:1397-1398).                     *)
THEOREM RpropStepsStayUsable ==
  ASSUME DeltaMax > 0, DeltaMin <= DeltaMax
  PROVE  Spec => RpropStepsUsable
<1> DEFINE StepUsable ==
      (Epoch \/ fann_train_outputs_epoch) /\ pc' # "crashed"
       /\ training_algorithm = "RPROP" =>
        /\ array'["prev_steps"].value > 0
        /\ array'["prev_steps"].value <= Max({DeltaMax, array["prev_steps"].value})
<1>1. TrainingInv => StepUsable
  <2> SUFFICES ASSUME TrainingInv, Epoch \/ fann_train_outputs_epoch, pc' # "crashed",
                      training_algorithm = "RPROP"
               PROVE  /\ array'["prev_steps"].value > 0
                      /\ array'["prev_steps"].value
                           <= Max({DeltaMax, array["prev_steps"].value})
    OBVIOUS
  <2>1. PICK step, prev_slope, slope \in Int :
          /\ array'["prev_steps"].value = RpropStep(step, prev_slope, slope).step
          /\ step = array["prev_steps"].value \/ prev_slope = 0
    BY EpochKeepsInv
  <2> DEFINE new == RpropStep(step, prev_slope, slope).step
  <2>2. /\ new \in Int /\ new > 0
        /\ \/ new <= DeltaMax
           \/ ~(prev_slope * slope >= 0) /\ new <= step
    BY RpropPositive
  <2>3. prev_slope = 0 => prev_slope * slope >= 0
    BY SMT
  <2>4. array["prev_steps"].value \in Int /\ DeltaMax \in Int
    BY NamesOfArrays, ParametersTyped DEF TrainingInv, TypeOK, Arrays, Entry
  <2> HIDE DEF new
  <2>5. new <= DeltaMax \/ new <= array["prev_steps"].value
    BY <2>1, <2>2, <2>3
  <2>6. Max({DeltaMax, array["prev_steps"].value})
          = IF DeltaMax >= array["prev_steps"].value THEN DeltaMax
            ELSE array["prev_steps"].value
    BY <2>4, MaxOfTwo
  <2>7. new <= Max({DeltaMax, array["prev_steps"].value})
    BY <2>2, <2>4, <2>5, <2>6
  <2>8. QED
    BY <2>1, <2>2, <2>7 DEF new
<1>2. TrainingInv /\ [Next]_vars => [StepUsable]_vars
  BY <1>1
<1>3. QED
  BY <1>2, TrainingInvariant, PTL DEF Spec, RpropStepsUsable
=============================================================================
