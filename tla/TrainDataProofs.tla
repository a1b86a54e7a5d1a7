-------------------------- MODULE TrainDataProofs --------------------------
(***************************************************************************)
(* Whatever calls a program makes, its training sets stay well formed and  *)
(* every row of them is one of the examples it was given; memory is lost,  *)
(* and a call undefined, only in a program that has met one of the known   *)
(* exceptions.                                                             *)
(***************************************************************************)
EXTENDS TrainData, DataInduction, SequenceTheorems

----------------------------------------------------------------------------
(* Blocks of values and the rows in them.                                  *)

LEMMA RowInside ==
  ASSUME NEW n \in Nat, NEW w \in Nat, NEW i \in 1 .. n, NEW k \in 1 .. w
  PROVE  /\ (i - 1) * w \in Nat /\ (i - 1) * w + k \in 1 .. n * w
         /\ (i - 1) * w + w <= n * w /\ n * w \in Nat
<1>1. \A a, b, c \in Nat : a <= b => a * c <= b * c /\ a * c \in Nat /\ b * c \in Nat
  BY SMT
<1>2. i \in Nat /\ i - 1 \in Nat /\ i <= n
  OBVIOUS
<1>3. (i - 1) * w \in Nat /\ i * w <= n * w /\ n * w \in Nat /\ i * w \in Nat
  BY <1>1, <1>2
<1>4. i * w = (i - 1) * w + w
  BY <1>2
<1>5. \A x, y, z \in Nat : y = x + w /\ y <= z => x + k \in 1 .. z /\ x + w <= z
  OBVIOUS
<1>6. QED
  BY <1>3, <1>4, <1>5

(* Every place of a block is in one of its rows.                           *)
LEMMA RowContaining ==
  ASSUME NEW n \in Nat, NEW w \in Nat, NEW j \in 1 .. n * w
  PROVE  \E i \in 1 .. n, k \in 1 .. w : j = (i - 1) * w + k
<1>1. \A a, b, c \in Nat : a <= b => a * c <= b * c /\ a * c \in Nat /\ b * c \in Nat
  BY SMT
<1>2. w # 0
  <2>1. n * 0 = 0
    OBVIOUS
  <2>2. QED
    BY <2>1
<1> DEFINE a == (j - 1) \div w
           b == (j - 1) % w
<1>3. a \in Nat /\ b \in 0 .. w - 1 /\ j - 1 = a * w + b
  <2>1. j - 1 \in Nat
    <3>1. n * w \in Nat
      BY <1>1
    <3>2. QED
      BY <3>1
  <2>2. QED
    BY <1>2, <2>1
<1> HIDE DEF a, b
<1>4. a + 1 \in 1 .. n
  <2> SUFFICES ASSUME ~(a + 1 <= n) PROVE FALSE
    BY <1>3
  <2>1. n * w <= a * w /\ n * w \in Nat /\ a * w \in Nat
    BY <1>1, <1>3
  <2>2. j <= n * w
    BY <2>1
  <2>3. QED
    BY <1>3, <2>1, <2>2
<1>5. b + 1 \in 1 .. w /\ a + 1 - 1 = a /\ (a + 1) - 1 = a
  BY <1>3
<1>6. j = ((a + 1) - 1) * w + (b + 1)
  <2>1. a * w \in Nat /\ j \in Int
    BY <1>1, <1>3
  <2>2. QED
    BY <1>3, <1>5, <2>1
<1>7. QED
  BY <1>4, <1>5, <1>6

LEMMA RowsApart ==
  ASSUME NEW w \in Nat, NEW i \in Nat, NEW r \in Nat, i >= 1, r >= 1, i # r,
         NEW k \in 1 .. w
  PROVE  (r - 1) * w + k \notin (i - 1) * w + 1 .. (i - 1) * w + w
<1>1. \A a, b, c \in Nat : a <= b => a * c <= b * c /\ a * c \in Nat /\ b * c \in Nat
  BY SMT
<1>2. i - 1 \in Nat /\ r - 1 \in Nat
  OBVIOUS
<1>3. /\ (i - 1) * w \in Nat /\ (r - 1) * w \in Nat
      /\ i * w = (i - 1) * w + w /\ r * w = (r - 1) * w + w
  BY <1>1, <1>2
<1>4. CASE i < r
  <2>1. i <= r - 1
    BY <1>4
  <2>2. i * w <= (r - 1) * w
    BY <1>1, <1>2, <2>1
  <2>3. \A x, y, z \in Nat : y = x + w /\ y <= z => z + k \notin x + 1 .. x + w
    OBVIOUS
  <2>4. i * w \in Nat
    BY <1>1
  <2>5. QED
    BY <1>3, <2>2, <2>3, <2>4
<1>5. CASE r < i
  <2>1. r <= i - 1
    BY <1>5
  <2>2. r * w <= (i - 1) * w
    BY <1>1, <1>2, <2>1
  <2>3. \A x, y, z \in Nat : y = x + w /\ y <= z => x + k \notin z + 1 .. z + w
    OBVIOUS
  <2>4. r * w \in Nat
    BY <1>1
  <2>5. QED
    BY <1>3, <2>2, <2>3, <2>4
<1>6. QED
  BY <1>4, <1>5

(* Tuples of one length, joined: tuple i is row i.                         *)
AreRows(n, w, q, block) ==
  /\ block \in Seq(Int) /\ Len(block) = n * w
  /\ \A i \in 1 .. n, k \in 1 .. w : block[(i - 1) * w + k] = q[i][k]

LEMMA JoinedRows ==
  ASSUME NEW n \in Nat, NEW w \in Nat, NEW q, DOMAIN q = 1 .. n,
         \A i \in 1 .. n : q[i] \in Seq(Int) /\ Len(q[i]) = w
  PROVE  AreRows(n, w, q, Joined(q))
<1> DEFINE Folds(f) ==
             f = [s \in SUBSET (1 .. n) |->
                    IF s = {} THEN <<>> ELSE f[s \ {Max(s)}] \o q[Max(s)]]
           step == [p \in Seq(Int) \X (1 .. n) |-> p[1] \o q[p[2]]]
<1>1. Joined(q) = (CHOOSE f : Folds(f))[1 .. n]
  BY DEF Joined, FoldLeft, MapThenFoldSet
<1>2. \E f : Folds(f)
  <2>1. step \in [Seq(Int) \X (1 .. n) -> Seq(Int)]
    BY ConcatProperties
  <2>2. <<>> \in Seq(Int)
    OBVIOUS
  <2>3. PICK f \in [SUBSET (1 .. n) -> Seq(Int)] : FoldsTo(f, n, <<>>, step)
    <3> HIDE DEF step
    <3>1. QED
      BY <2>1, <2>2, FoldExists
  <2>4. ASSUME NEW s \in SUBSET (1 .. n), s # {}
        PROVE  step[<<f[s \ {Max(s)}], Max(s)>>] = f[s \ {Max(s)}] \o q[Max(s)]
    <3>1. Max(s) \in 1 .. n /\ s \ {Max(s)} \in SUBSET (1 .. n)
      BY <2>4, GreatestNumber
    <3>2. QED
      BY <3>1
  <2> HIDE DEF step
  <2>5. Folds(f)
    BY <2>3, <2>4 DEF FoldsTo
  <2>6. QED
    BY <2>5
<1>3. PICK f : Folds(f) /\ Joined(q) = f[1 .. n]
  BY <1>1, <1>2
<1>4. f[1 .. 0] = <<>>
  <2>1. 1 .. 0 = {} /\ 1 .. 0 \in SUBSET (1 .. n)
    OBVIOUS
  <2>2. QED
    BY <1>3, <2>1
<1>5. ASSUME NEW k \in 0 .. n - 1
      PROVE  f[1 .. k + 1] = f[1 .. k] \o q[k + 1]
  <2> DEFINE s == 1 .. k + 1
  <2>1. s \in SUBSET (1 .. n) /\ s # {} /\ Max(s) = k + 1 /\ s \ {Max(s)} = 1 .. k
    BY UpToNext
  <2> HIDE DEF s
  <2>2. f[s] = f[s \ {Max(s)}] \o q[Max(s)]
    BY <1>3, <2>1
  <2>3. f[s] = f[1 .. k] \o q[k + 1]
    BY <2>1, <2>2
  <2>4. QED
    BY <2>3 DEF s
<1> HIDE DEF Folds
<1> DEFINE Done(m) == /\ f[1 .. m] \in Seq(Int) /\ Len(f[1 .. m]) = m * w
                      /\ \A i \in 1 .. m, k \in 1 .. w :
                           f[1 .. m][(i - 1) * w + k] = q[i][k]
           T == {m \in 0 .. n : Done(m)}
<1>6. 0 \in T
  <2>1. Len(<<>>) = 0 /\ <<>> \in Seq(Int) /\ 0 * w = 0 /\ 1 .. 0 = {}
    OBVIOUS
  <2>2. Done(0)
    BY <1>4, <2>1
  <2> HIDE DEF Done
  <2>3. QED
    BY <2>2
<1>7. ASSUME NEW m \in 0 .. n - 1, m \in T
      PROVE  m + 1 \in T
  <2> DEFINE before == f[1 .. m]
             after == f[1 .. m + 1]
  <2>1. /\ before \in Seq(Int) /\ Len(before) = m * w
        /\ \A i \in 1 .. m, k \in 1 .. w : before[(i - 1) * w + k] = q[i][k]
    <3>1. Done(m)
      <4> HIDE DEF Done
      <4>1. QED
        BY <1>7
    <3>2. QED
      BY <3>1
  <2>2. /\ after = before \o q[m + 1] /\ m + 1 \in 1 .. n /\ m \in Nat
        /\ q[m + 1] \in Seq(Int) /\ Len(q[m + 1]) = w
    <3>1. m + 1 \in 1 .. n /\ m \in Nat
      BY <1>7
    <3>2. q[m + 1] \in Seq(Int) /\ Len(q[m + 1]) = w
      BY <3>1
    <3>3. after = before \o q[m + 1]
      BY <1>5, <1>7
    <3>4. QED
      BY <3>1, <3>2, <3>3
  <2> HIDE DEF before, after
  <2>3. /\ after \in Seq(Int) /\ Len(after) = Len(before) + w
        /\ \A j \in 1 .. Len(before) + w :
             after[j] = IF j <= Len(before) THEN before[j]
                        ELSE q[m + 1][j - Len(before)]
    <3> DEFINE row == q[m + 1]
    <3>1. /\ row \in Seq(Int) /\ Len(row) = w /\ after = before \o row
          /\ before \in Seq(Int)
      BY <2>1, <2>2
    <3> HIDE DEF row
    <3>2. /\ before \o row \in Seq(Int)
          /\ Len(before \o row) = Len(before) + Len(row)
          /\ \A j \in 1 .. Len(before) + Len(row) :
               (before \o row)[j] = IF j <= Len(before) THEN before[j]
                                    ELSE row[j - Len(before)]
      BY <3>1, ConcatProperties, ZenonT(40)
    <3>3. QED
      BY <3>1, <3>2, Zenon DEF row
  <2>4. Len(after) = (m + 1) * w
    BY <2>1, <2>2, <2>3
  <2>5. ASSUME NEW i \in 1 .. m + 1, NEW k \in 1 .. w
        PROVE  after[(i - 1) * w + k] = q[i][k]
    <3> DEFINE a == m * w
               j == (i - 1) * w + k
    <3>1. a \in Nat /\ Len(before) = a
      BY <2>1, <2>2
    <3>2. CASE i = m + 1
      <4>1. j = a + k
        BY <2>2, <3>2
      <4> HIDE DEF a, j
      <4>2. j \in 1 .. a + w /\ ~(j <= a) /\ j - a = k
        BY <3>1, <4>1
      <4>3. after[j] = q[m + 1][k]
        BY <2>3, <3>1, <4>2
      <4>4. QED
        BY <3>2, <4>3 DEF j
    <3>3. CASE i # m + 1
      <4>1. i \in 1 .. m
        BY <2>2, <3>3
      <4>2. j \in 1 .. a
        BY <2>2, <4>1, RowInside
      <4>3. before[j] = q[i][k]
        BY <2>1, <4>1
      <4> HIDE DEF a, j
      <4>4. j \in 1 .. a + w /\ j <= a
        BY <3>1, <4>2
      <4>5. after[j] = q[i][k]
        BY <2>3, <3>1, <4>3, <4>4
      <4>6. QED
        BY <4>5 DEF j
    <3>4. QED
      BY <3>2, <3>3
  <2>6. m + 1 \in 0 .. n
    BY <2>2
  <2>7. Done(m + 1)
    BY <2>3, <2>4, <2>5 DEF after
  <2> HIDE DEF Done
  <2>8. QED
    BY <2>6, <2>7
<1> HIDE DEF T
<1>8. n \in T
  <2>1. \A k \in 0 .. n : k \in T
    BY <1>6, <1>7, CountingUp
  <2>2. QED
    BY <2>1
<1>9. Done(n)
  <2> HIDE DEF Done
  <2>1. QED
    BY <1>8 DEF T
<1>10. QED
  BY <1>3, <1>9 DEF AreRows

----------------------------------------------------------------------------
(* Values in a file.                                                       *)

(* A value is the one that was given or, if a file cannot hold that one, a *)
(* multiple of what a file can hold, less than 1 away from it.             *)
Fits(x, given) ==
  \/ x = given
  \/ /\ given % Grid # 0 /\ x % Grid = 0
     /\ x - given < One /\ given - x < One

LEMMA Divided ==
  ASSUME NEW a \in Int, NEW g \in Nat \ {0}
  PROVE  a = (a \div g) * g + (a % g) /\ a % g \in 0 .. g - 1 /\ a \div g \in Int
OBVIOUS

LEMMA MultipleDivided ==
  ASSUME NEW a \in Int, NEW g \in Nat \ {0}, NEW r \in 0 .. g - 1
  PROVE  (a * g + r) \div g = a /\ (a * g + r) % g = r
OBVIOUS

LEMMA GridsInOne ==
  LET m == One \div Grid IN m \in Nat \ {0} /\ One = m * Grid /\ Grid <= One
<1> DEFINE m == One \div Grid
<1>1. One = m * Grid + 0 /\ m \in Int /\ One \in Nat \ {0} /\ Grid \in Nat \ {0}
  BY TrainDataAssumption, Divided
<1> HIDE DEF m
<1>2. One = m * Grid
  BY <1>1
<1>3. ASSUME m <= 0 PROVE FALSE
  <2>1. -m \in Nat /\ (-m) * Grid \in Nat /\ m * Grid = -((-m) * Grid)
    BY <1>1, <1>3
  <2>2. QED
    BY <1>1, <1>2, <2>1
<1>4. m \in Nat \ {0}
  BY <1>1, <1>3
<1>5. Grid <= m * Grid
  BY <1>1, <1>4
<1>6. QED
  BY <1>2, <1>4, <1>5 DEF m

(* A file changes no value it can hold, and any other by less than 1.      *)
LEMMA WrittenFits ==
  ASSUME NEW given \in Int, NEW x \in Int, Fits(x, given)
  PROVE  Written(x) \in Int /\ Fits(Written(x), given)
<1> DEFINE G == Grid
           m == One \div Grid
           h == G \div 2
           u == (x + h) \div G
           r == (x + One \div 2) \div One
           t == IF x < 0 THEN -((-x) \div One) ELSE x \div One
<1>1. /\ G \in Nat \ {0} /\ One \in Nat \ {0} /\ m \in Nat \ {0}
      /\ One = m * G /\ G <= One
  BY TrainDataAssumption, GridsInOne
<1>2. h \in 0 .. G - 1
  <2> HIDE DEF G
  <2>1. QED
    BY <1>1
<1>3. /\ u \in Int /\ r \in Int /\ t \in Int
      /\ x + h = u * G + ((x + h) % G) /\ (x + h) % G \in 0 .. G - 1
      /\ t * One - x < One /\ x - t * One < One
  <2>1. x + h \in Int /\ x + One \div 2 \in Int
    BY <1>1, <1>2
  <2>2. /\ u \in Int /\ x + h = u * G + ((x + h) % G)
        /\ (x + h) % G \in 0 .. G - 1
    BY <1>1, <2>1, Divided
  <2>3. r \in Int
    BY <1>1, <2>1, Divided
  <2>4. t \in Int /\ t * One - x < One /\ x - t * One < One
    <3>1. CASE x < 0
      <4> DEFINE d == (-x) \div One
      <4>1. d \in Int /\ -x = d * One + ((-x) % One) /\ (-x) % One \in 0 .. One - 1
        BY <1>1, Divided
      <4>2. t = -d
        BY <3>1
      <4> HIDE DEF d, t
      <4>3. (-d) * One = -(d * One) /\ d * One \in Int
        BY <1>1, <4>1
      <4>4. QED
        BY <1>1, <4>1, <4>2, <4>3
    <3>2. CASE ~(x < 0)
      <4>1. t \in Int /\ x = t * One + (x % One) /\ x % One \in 0 .. One - 1
        BY <1>1, <3>2, Divided
      <4> HIDE DEF t
      <4>2. t * One \in Int
        BY <1>1, <4>1
      <4>3. QED
        BY <1>1, <4>1, <4>2
    <3>3. QED
      BY <3>1, <3>2
  <2>5. QED
    BY <2>2, <2>3, <2>4
<1>4. /\ Whole(x) <=> r * m = u
      /\ Written(x) = IF Whole(x) THEN t * One ELSE u * G
  BY DEF Whole, Written
<1> HIDE DEF u, r, t, m, h
<1>5. Written(x) \in Int
  <2>1. t * One \in Int /\ u * G \in Int
    BY <1>1, <1>3
  <2>2. QED
    BY <1>4, <2>1
<1>6. CASE x % G = 0
  <2> DEFINE q == x \div G
  <2>1. q \in Int /\ x = q * G
    BY <1>1, <1>6, Divided
  <2> HIDE DEF q
  <2>2. u = q
    BY <1>1, <1>2, <2>1, MultipleDivided DEF u
  <2>3. ASSUME Whole(x) PROVE t * One = x
    <3>1. x = r * m * G /\ r * m * G = r * (m * G)
      BY <1>1, <1>3, <1>4, <2>1, <2>2, <2>3
    <3>2. x = r * One + 0 /\ -x = (-r) * One + 0
      BY <1>1, <1>3, <3>1
    <3>3. x \div One = r /\ (-x) \div One = -r
      <4>1. -r \in Int /\ 0 \in 0 .. One - 1
        BY <1>1, <1>3
      <4>2. (r * One + 0) \div One = r
        BY <1>1, <1>3, <4>1, MultipleDivided
      <4>3. ((-r) * One + 0) \div One = -r
        BY <1>1, <4>1, MultipleDivided
      <4>4. QED
        BY <3>2, <4>2, <4>3
    <3>4. t = r
      BY <1>3, <3>3 DEF t
    <3>5. QED
      BY <1>1, <1>3, <3>2, <3>4
  <2>4. Written(x) = x
    BY <1>4, <2>1, <2>2, <2>3
  <2>5. QED
    BY <1>5, <2>4
<1>7. CASE x % G # 0
  <2>1. x = given /\ given % Grid # 0
    BY <1>7 DEF Fits
  <2>2. CASE Whole(x)
    <3>1. Written(x) = t * m * G + 0 /\ t * m \in Int
      BY <1>1, <1>3, <1>4, <2>2
    <3>2. Written(x) % Grid = 0
      BY <1>1, <3>1, MultipleDivided
    <3>3. QED
      BY <1>3, <1>4, <1>5, <2>1, <2>2, <3>2 DEF Fits
  <2>3. CASE ~Whole(x)
    <3>1. Written(x) = u * G /\ u * G = u * G + 0 /\ u * G \in Int
      BY <1>1, <1>3, <1>4, <2>3
    <3>2. Written(x) % Grid = 0
      <4>1. u \in Int /\ G \in Nat \ {0} /\ 0 \in 0 .. G - 1
        BY <1>1, <1>3
      <4>2. (u * G + 0) % G = 0
        BY <4>1, MultipleDivided
      <4>3. QED
        BY <3>1, <4>2
    <3>3. u * G - x < One /\ x - u * G < One
      BY <1>1, <1>2, <1>3, <3>1
    <3>4. QED
      BY <1>5, <2>1, <3>1, <3>2, <3>3 DEF Fits
  <2>4. QED
    BY <2>2, <2>3
<1>8. QED
  BY <1>6, <1>7

----------------------------------------------------------------------------
(* Well formed sets.                                                       *)

(* Blocks of n rows, each of them an example.                              *)
RowIsExample(ni, no, data_input, a, data_output, b) ==
  \E e \in DOMAIN Examples :
    /\ \A k \in 1 .. ni : Fits(data_input[a + k], Examples[e].input[k])
    /\ \A k \in 1 .. no : Fits(data_output[b + k], Examples[e].output[k])

GoodBlocks(ni, no, n, data_input, data_output) ==
  /\ data_input \in Seq(Int) /\ Len(data_input) = n * ni
  /\ data_output \in Seq(Int) /\ Len(data_output) = n * no
  /\ \A i \in 1 .. n :
       RowIsExample(ni, no, data_input, (i - 1) * ni, data_output, (i - 1) * no)

(* A message is that of the error number, as long as there is a number.    *)
MessageFits(s) ==
  s.errno_f # "NO_ERROR" /\ s.errstr # "none" => s.errstr \in {s.errno_f, "wild"}

IsSet(s) ==
  /\ s = [num_input |-> s.num_input, num_output |-> s.num_output,
          input |-> s.input, output |-> s.output,
          data_input |-> s.data_input, data_output |-> s.data_output,
          errno_f |-> s.errno_f, errstr |-> s.errstr]
  /\ <<s.num_input, s.num_output>> \in Shapes
  /\ s.errno_f \in Errors /\ s.errstr \in Errors \cup {"none", "wild"}
  /\ MessageFits(s)
  /\ num_data(s) \in 0 .. MaxData
  /\ s.input = [i \in 1 .. num_data(s) |-> (i - 1) * s.num_input]
  /\ s.output = [i \in 1 .. num_data(s) |-> (i - 1) * s.num_output]
  /\ GoodBlocks(s.num_input, s.num_output, num_data(s),
                s.data_input, s.data_output)

LEMMA SetIsNotNull == ASSUME NEW s, IsSet(s) PROVE s # NULL
<1>1. "none" \notin DOMAIN s
  BY DEF IsSet
<1>2. "none" \in DOMAIN NULL
  BY DEF NULL
<1>3. QED
  BY <1>1, <1>2

LEMMA ShapeSizes ==
  ASSUME NEW ni, NEW no, <<ni, no>> \in Shapes
  PROVE  ni \in Nat \ {0} /\ no \in Nat \ {0}
<1>1. <<ni, no>> \in (Nat \ {0}) \X (Nat \ {0})
  BY TrainDataAssumption
<1>2. QED
  BY <1>1

LEMMA ExampleValues ==
  ASSUME NEW ni, NEW no, <<ni, no>> \in Shapes, NEW e \in DOMAIN Examples
  PROVE  /\ Examples[e].input \in Seq(Int) /\ Examples[e].output \in Seq(Int)
         /\ ni <= Len(Examples[e].input) /\ no <= Len(Examples[e].output)
         /\ \A k \in 1 .. ni : Examples[e].input[k] \in Int
         /\ \A k \in 1 .. no : Examples[e].output[k] \in Int
<1>1. Examples \in Seq([input : Seq(Int), output : Seq(Int)])
  BY TrainDataAssumption
<1>2. Examples[e] \in [input : Seq(Int), output : Seq(Int)]
  BY <1>1, ElementOfSeq, LenProperties
<1>3. Examples[e] \in Range(Examples)
  BY DEF Range
<1>4. ni <= Len(Examples[e].input) /\ no <= Len(Examples[e].output)
  <2>1. <<ni, no>>[1] <= Len(Examples[e].input)
        /\ <<ni, no>>[2] <= Len(Examples[e].output)
    BY <1>3, TrainDataAssumption
  <2>2. QED
    BY <2>1
<1>5. ni \in Nat /\ no \in Nat
  BY ShapeSizes
<1>6. \A k \in 1 .. ni : Examples[e].input[k] \in Int
  BY <1>2, <1>4, <1>5, ElementOfSeq, LenProperties
<1>7. \A k \in 1 .. no : Examples[e].output[k] \in Int
  BY <1>2, <1>4, <1>5, ElementOfSeq, LenProperties
<1>8. QED
  BY <1>2, <1>4, <1>6, <1>7

(* A set made from blocks of good rows.                                    *)
LEMMA RowsMakeASet ==
  ASSUME NEW ni, NEW no, <<ni, no>> \in Shapes, NEW n \in 0 .. MaxData,
         NEW bi, NEW bo, GoodBlocks(ni, no, n, bi, bo)
  PROVE  LET s == Rows(<<ni, no>>, n, bi, bo)
         IN /\ IsSet(s) /\ num_data(s) = n
            /\ s.num_input = ni /\ s.num_output = no
            /\ s.errno_f = "NO_ERROR" /\ s.errstr = "none"
<1> DEFINE s == Rows(<<ni, no>>, n, bi, bo)
<1>1. s = [num_input |-> ni, num_output |-> no,
           input |-> [i \in 1 .. n |-> (i - 1) * ni],
           output |-> [i \in 1 .. n |-> (i - 1) * no],
           data_input |-> bi, data_output |-> bo,
           errno_f |-> "NO_ERROR", errstr |-> "none"]
  BY DEF Rows
<1>2. n \in Nat /\ ni \in Nat /\ no \in Nat
  BY TrainDataAssumption, ShapeSizes
<1>3. num_data(s) = n
  <2> DEFINE f == [i \in 1 .. n |-> (i - 1) * ni]
  <2>1. f \in Seq(Int)
    <3>1. f \in [1 .. n -> Int]
      BY <1>2
    <3>2. QED
      BY <1>2, <3>1, SeqDef
  <2>2. DOMAIN f = 1 .. n
    OBVIOUS
  <2> HIDE DEF f
  <2>3. Len(f) = n
    BY <1>2, <2>1, <2>2
  <2>4. s.input = f
    BY <1>1 DEF f
  <2>5. QED
    BY <2>3, <2>4 DEF num_data
<1> HIDE DEF s
<1>4. "NO_ERROR" \in Errors
  BY DEF Errors
<1>5. MessageFits(s)
  BY <1>1 DEF MessageFits
<1>6. IsSet(s)
  BY <1>1, <1>3, <1>4, <1>5 DEF IsSet
<1>7. QED
  BY <1>1, <1>3, <1>6 DEF s

(* Only the error record is written.                                       *)
Recorded(s, m, t) == IsSet(t) /\ num_data(t) = num_data(s) /\ t.errstr = m

LEMMA RecordWritten ==
  ASSUME NEW s, IsSet(s), NEW e \in Errors, NEW m \in Errors \cup {"none", "wild"},
         e # "NO_ERROR" /\ m # "none" => m \in {e, "wild"}
  PROVE  Recorded(s, m, [s EXCEPT !.errno_f = e, !.errstr = m])
<1> DEFINE t == [s EXCEPT !.errno_f = e, !.errstr = m]
<1>1. /\ t = [num_input |-> s.num_input, num_output |-> s.num_output,
              input |-> s.input, output |-> s.output,
              data_input |-> s.data_input, data_output |-> s.data_output,
              errno_f |-> e, errstr |-> m]
  <2> DEFINE a == s.num_input
             b == s.num_output
             c == s.input
             d == s.output
             f == s.data_input
             g == s.data_output
             h == s.errno_f
             l == s.errstr
  <2>1. s = [num_input |-> a, num_output |-> b, input |-> c, output |-> d,
             data_input |-> f, data_output |-> g, errno_f |-> h, errstr |-> l]
    BY DEF IsSet
  <2> HIDE DEF a, b, c, d, f, g, h, l
  <2>2. t = [num_input |-> a, num_output |-> b, input |-> c, output |-> d,
             data_input |-> f, data_output |-> g, errno_f |-> e, errstr |-> m]
    <3> DEFINE u == [s EXCEPT !.errno_f = e]
    <3>1. u = [num_input |-> a, num_output |-> b, input |-> c, output |-> d,
               data_input |-> f, data_output |-> g, errno_f |-> e, errstr |-> l]
      BY <2>1
    <3>2. t = [u EXCEPT !.errstr = m]
      OBVIOUS
    <3> HIDE DEF u, t
    <3>3. [u EXCEPT !.errstr = m]
            = [num_input |-> a, num_output |-> b, input |-> c, output |-> d,
               data_input |-> f, data_output |-> g, errno_f |-> e, errstr |-> m]
      BY <3>1
    <3>4. QED
      BY <3>2, <3>3
  <2>3. QED
    BY <2>2 DEF a, b, c, d, f, g
<1> HIDE DEF t
<1>2. num_data(t) = num_data(s)
  BY <1>1 DEF num_data
<1>3. MessageFits(t)
  BY <1>1 DEF MessageFits
<1>4. IsSet(t)
  BY <1>1, <1>2, <1>3 DEF IsSet
<1>5. QED
  BY <1>1, <1>2, <1>4 DEF Recorded, t

----------------------------------------------------------------------------
(* Rows that move.                                                         *)

LEMMA RowMoved ==
  ASSUME NEW ni, NEW no, NEW di, NEW a, NEW do, NEW b,
         RowIsExample(ni, no, di, a, do, b),
         NEW ei, NEW x, NEW eo, NEW y,
         \A k \in 1 .. ni : ei[x + k] = di[a + k],
         \A k \in 1 .. no : eo[y + k] = do[b + k]
  PROVE  RowIsExample(ni, no, ei, x, eo, y)
BY DEF RowIsExample

(* A part of a block that begins with a row.                               *)
IsPart(w, len, part, block, pos) ==
  /\ part \in Seq(Int) /\ Len(part) = len * w
  /\ \A i \in 1 .. len, k \in 1 .. w :
       part[(i - 1) * w + k] = block[((pos + i) - 1) * w + k]

LEMMA PartOfBlock ==
  ASSUME NEW w \in Nat, NEW n \in Nat, NEW block \in Seq(Int), Len(block) = n * w,
         NEW pos \in Nat, NEW len \in Nat, pos + len <= n
  PROVE  IsPart(w, len, Copied(block, pos * w, len * w), block, pos)
<1> DEFINE m == len * w
           a == pos * w
           part == Copied(block, a, m)
<1>1. \A x, y, z \in Nat : x <= y => x * z <= y * z /\ x * z \in Nat /\ y * z \in Nat
  BY SMT
<1>2. /\ pos + len \in Nat /\ (pos + len) * w = a + m
      /\ a \in Nat /\ m \in Nat /\ n * w \in Nat
  BY <1>1
<1>3. a + m <= n * w
  <2>1. (pos + len) * w <= n * w
    BY <1>1, <1>2
  <2>2. QED
    BY <1>2, <2>1
<1> HIDE DEF m, a
<1>4. \A j \in 1 .. m : a + j <= Len(block) /\ block[a + j] \in Int
  <2>1. \A j \in 1 .. m : a + j \in 1 .. Len(block) /\ a + j <= Len(block)
    BY <1>2, <1>3
  <2>2. QED
    BY <2>1, ElementOfSeq, LenProperties
<1>5. part = [j \in 1 .. m |-> block[a + j]]
  BY <1>4 DEF Copied
<1>6. part \in [1 .. m -> Int]
  BY <1>4, <1>5
<1>7. part \in Seq(Int) /\ Len(part) = m
  <2>1. part \in Seq(Int)
    BY <1>2, <1>6, SeqDef
  <2>2. DOMAIN part = 1 .. m
    BY <1>5
  <2> HIDE DEF part
  <2>3. QED
    BY <1>2, <2>1, <2>2
<1> HIDE DEF part
<1>8. ASSUME NEW i \in 1 .. len, NEW k \in 1 .. w
      PROVE  part[(i - 1) * w + k] = block[((pos + i) - 1) * w + k]
  <2> DEFINE b == (i - 1) * w
  <2>1. b + k \in 1 .. m /\ b \in Nat
    BY RowInside DEF m
  <2>2. ((pos + i) - 1) * w = a + b
    <3>1. (pos + i) - 1 = pos + (i - 1)
      OBVIOUS
    <3>2. (pos + (i - 1)) * w = pos * w + (i - 1) * w
      OBVIOUS
    <3>3. QED
      BY <3>1, <3>2 DEF a
  <2> HIDE DEF b
  <2>3. part[b + k] = block[a + (b + k)]
    BY <1>5, <2>1
  <2>4. a + (b + k) = a + b + k
    BY <1>2, <2>1
  <2>5. QED
    BY <2>2, <2>3, <2>4 DEF b
<1>9. QED
  BY <1>7, <1>8 DEF IsPart, part, m, a

AreJoined(w, n, m, a, b, c) ==
  /\ c \in Seq(Int) /\ Len(c) = (n + m) * w
  /\ \A i \in 1 .. n, k \in 1 .. w : c[(i - 1) * w + k] = a[(i - 1) * w + k]
  /\ \A i \in 1 .. m, k \in 1 .. w :
       c[((n + i) - 1) * w + k] = b[(i - 1) * w + k]

LEMMA JoinedBlocks ==
  ASSUME NEW w \in Nat, NEW n \in Nat, NEW m \in Nat,
         NEW a \in Seq(Int), Len(a) = n * w, NEW b \in Seq(Int), Len(b) = m * w
  PROVE  AreJoined(w, n, m, a, b, a \o b)
<1> DEFINE x == n * w
           y == m * w
           c == a \o b
<1>1. x \in Nat /\ y \in Nat /\ x + y = (n + m) * w
  <2>1. \A p, q \in Nat : p * q \in Nat
    BY SMT
  <2>2. QED
    BY <2>1
<1>2. /\ c \in Seq(Int) /\ Len(c) = x + y
      /\ \A j \in 1 .. x + y : c[j] = IF j <= x THEN a[j] ELSE b[j - x]
  BY ConcatProperties
<1> HIDE DEF c
<1>3. ASSUME NEW i \in 1 .. n, NEW k \in 1 .. w
      PROVE  c[(i - 1) * w + k] = a[(i - 1) * w + k]
  <2> DEFINE j == (i - 1) * w + k
  <2>1. j \in 1 .. x
    BY RowInside
  <2> HIDE DEF j, x, y
  <2>2. j \in 1 .. x + y /\ j <= x
    BY <1>1, <2>1
  <2>3. QED
    BY <1>2, <2>2 DEF j
<1>4. ASSUME NEW i \in 1 .. m, NEW k \in 1 .. w
      PROVE  c[((n + i) - 1) * w + k] = b[(i - 1) * w + k]
  <2> DEFINE j == (i - 1) * w + k
  <2>1. j \in 1 .. y
    BY RowInside
  <2>2. ((n + i) - 1) * w + k = x + j
    <3>1. (n + i) - 1 = n + (i - 1)
      OBVIOUS
    <3>2. (n + (i - 1)) * w = n * w + (i - 1) * w
      OBVIOUS
    <3>3. (i - 1) * w \in Nat
      BY RowInside
    <3>4. QED
      BY <1>1, <3>1, <3>2, <3>3
  <2> HIDE DEF j, x, y
  <2>3. x + j \in 1 .. x + y /\ ~(x + j <= x) /\ (x + j) - x = j
    BY <1>1, <2>1
  <2>4. c[x + j] = b[(x + j) - x]
    BY <1>2, <2>3
  <2>5. c[x + j] = b[j]
    BY <2>3, <2>4
  <2>6. c[((n + i) - 1) * w + k] = b[j]
    BY <2>2, <2>5, Zenon
  <2>7. QED
    BY <2>6 DEF j
<1>5. QED
  BY <1>1, <1>2, <1>3, <1>4 DEF AreJoined, c

(* Blocks of good rows from blocks of good rows.                           *)
LEMMA PartIsGood ==
  ASSUME NEW s, IsSet(s), NEW pos \in Nat, NEW len \in Nat, pos + len <= num_data(s)
  PROVE  GoodBlocks(s.num_input, s.num_output, len,
                    InputsFrom(s, pos + 1, len), OutputsFrom(s, pos + 1, len))
<1> DEFINE n == num_data(s)
           ni == s.num_input
           no == s.num_output
           bi == s.data_input
           bo == s.data_output
           ci == InputsFrom(s, pos + 1, len)
           co == OutputsFrom(s, pos + 1, len)
<1>1. /\ n \in Nat /\ pos + len <= n /\ GoodBlocks(ni, no, n, bi, bo)
      /\ s.input = [i \in 1 .. n |-> (i - 1) * ni]
      /\ s.output = [i \in 1 .. n |-> (i - 1) * no]
      /\ <<ni, no>> \in Shapes
  BY TrainDataAssumption DEF IsSet
<1>2. ni \in Nat /\ no \in Nat
  BY <1>1, ShapeSizes
<1> HIDE DEF n
<1>3. CASE len = 0
  <2>1. ci = <<>> /\ co = <<>>
    BY <1>3 DEF InputsFrom, OutputsFrom
  <2>2. 0 * ni = 0 /\ 0 * no = 0 /\ 1 .. 0 = {}
    BY <1>2
  <2>3. <<>> \in Seq(Int) /\ Len(<<>>) = 0
    OBVIOUS
  <2> HIDE DEF ci, co
  <2>4. QED
    BY <1>3, <2>1, <2>2, <2>3 DEF GoodBlocks, ci, co
<1>4. CASE len # 0
  <2>1. pos + 1 \in 1 .. n /\ (pos + 1) - 1 = pos
    BY <1>1, <1>4
  <2>2. s.input[pos + 1] = pos * ni /\ s.output[pos + 1] = pos * no
    <3> HIDE DEF ni, no
    <3>1. QED
      BY <1>1, <2>1
  <2>3. ci = Copied(bi, pos * ni, len * ni) /\ co = Copied(bo, pos * no, len * no)
    BY <1>4, <2>2 DEF InputsFrom, OutputsFrom
  <2> HIDE DEF ni, no, bi, bo, ci, co
  <2>4. /\ ci \in Seq(Int) /\ Len(ci) = len * ni
        /\ \A i \in 1 .. len, k \in 1 .. ni :
             ci[(i - 1) * ni + k] = bi[((pos + i) - 1) * ni + k]
    <3>1. bi \in Seq(Int) /\ Len(bi) = n * ni
      BY <1>1 DEF GoodBlocks
    <3>2. IsPart(ni, len, Copied(bi, pos * ni, len * ni), bi, pos)
      BY <1>1, <1>2, <3>1, PartOfBlock
    <3>3. QED
      BY <2>3, <3>2 DEF IsPart
  <2>5. /\ co \in Seq(Int) /\ Len(co) = len * no
        /\ \A i \in 1 .. len, k \in 1 .. no :
             co[(i - 1) * no + k] = bo[((pos + i) - 1) * no + k]
    <3>1. bo \in Seq(Int) /\ Len(bo) = n * no
      BY <1>1 DEF GoodBlocks
    <3>2. IsPart(no, len, Copied(bo, pos * no, len * no), bo, pos)
      BY <1>1, <1>2, <3>1, PartOfBlock
    <3>3. QED
      BY <2>3, <3>2 DEF IsPart
  <2>6. ASSUME NEW i \in 1 .. len
        PROVE  RowIsExample(ni, no, ci, (i - 1) * ni, co, (i - 1) * no)
    <3>1. pos + i \in 1 .. n
      BY <1>1
    <3> DEFINE a == ((pos + i) - 1) * ni
               b == ((pos + i) - 1) * no
               x == (i - 1) * ni
               y == (i - 1) * no
    <3>2. RowIsExample(ni, no, bi, a, bo, b)
      BY <1>1, <3>1 DEF GoodBlocks
    <3>3. \A k \in 1 .. ni : ci[x + k] = bi[a + k]
      BY <2>4
    <3>4. \A k \in 1 .. no : co[y + k] = bo[b + k]
      BY <2>5
    <3>5. RowIsExample(ni, no, ci, x, co, y)
      <4> HIDE DEF a, b, x, y
      <4>1. QED
        BY <3>2, <3>3, <3>4, RowMoved
    <3>6. QED
      BY <3>5
  <2>7. QED
    BY <2>4, <2>5, <2>6 DEF GoodBlocks, ni, no, ci, co
<1>5. QED
  BY <1>3, <1>4

LEMMA WholeIsGood ==
  ASSUME NEW s, IsSet(s)
  PROVE  GoodBlocks(s.num_input, s.num_output, num_data(s),
                    InputsFrom(s, 1, num_data(s)), OutputsFrom(s, 1, num_data(s)))
<1> DEFINE n == num_data(s)
<1>1. n \in Nat
  BY TrainDataAssumption DEF IsSet
<1> HIDE DEF n
<1>2. 0 \in Nat /\ 0 + n <= n /\ 0 + 1 = 1
  BY <1>1
<1>3. GoodBlocks(s.num_input, s.num_output, n,
                 InputsFrom(s, 0 + 1, n), OutputsFrom(s, 0 + 1, n))
  BY <1>1, <1>2, PartIsGood DEF n
<1>4. QED
  BY <1>2, <1>3 DEF n

LEMMA JoinedAreGood ==
  ASSUME NEW ni \in Nat, NEW no \in Nat, NEW n \in Nat, NEW m \in Nat,
         NEW a, NEW b, GoodBlocks(ni, no, n, a, b),
         NEW c, NEW d, GoodBlocks(ni, no, m, c, d)
  PROVE  GoodBlocks(ni, no, n + m, a \o c, b \o d)
<1> DEFINE x == a \o c
           y == b \o d
<1>1. /\ x \in Seq(Int) /\ Len(x) = (n + m) * ni
      /\ \A i \in 1 .. n, k \in 1 .. ni : x[(i - 1) * ni + k] = a[(i - 1) * ni + k]
      /\ \A i \in 1 .. m, k \in 1 .. ni :
           x[((n + i) - 1) * ni + k] = c[(i - 1) * ni + k]
  <2>1. a \in Seq(Int) /\ Len(a) = n * ni /\ c \in Seq(Int) /\ Len(c) = m * ni
    BY DEF GoodBlocks
  <2>2. AreJoined(ni, n, m, a, c, x)
    BY <2>1, JoinedBlocks
  <2> HIDE DEF x
  <2>3. QED
    BY <2>2 DEF AreJoined
<1>2. /\ y \in Seq(Int) /\ Len(y) = (n + m) * no
      /\ \A i \in 1 .. n, k \in 1 .. no : y[(i - 1) * no + k] = b[(i - 1) * no + k]
      /\ \A i \in 1 .. m, k \in 1 .. no :
           y[((n + i) - 1) * no + k] = d[(i - 1) * no + k]
  <2>1. b \in Seq(Int) /\ Len(b) = n * no /\ d \in Seq(Int) /\ Len(d) = m * no
    BY DEF GoodBlocks
  <2>2. AreJoined(no, n, m, b, d, y)
    BY <2>1, JoinedBlocks
  <2> HIDE DEF y
  <2>3. QED
    BY <2>2 DEF AreJoined
<1> HIDE DEF x, y
<1>3. ASSUME NEW i \in 1 .. n + m
      PROVE  RowIsExample(ni, no, x, (i - 1) * ni, y, (i - 1) * no)
  <2>1. CASE i \in 1 .. n
    <3>1. RowIsExample(ni, no, a, (i - 1) * ni, b, (i - 1) * no)
      BY <2>1 DEF GoodBlocks
    <3>2. QED
      <4> DEFINE p == (i - 1) * ni
                 q == (i - 1) * no
      <4>1. /\ \A k \in 1 .. ni : x[p + k] = a[p + k]
            /\ \A k \in 1 .. no : y[q + k] = b[q + k]
            /\ RowIsExample(ni, no, a, p, b, q)
        BY <1>1, <1>2, <2>1, <3>1
      <4> HIDE DEF p, q
      <4>2. RowIsExample(ni, no, x, p, y, q)
        BY <4>1, RowMoved
      <4>3. QED
        BY <4>2 DEF p, q
  <2>2. CASE i \notin 1 .. n
    <3> DEFINE j == i - n
    <3>1. j \in 1 .. m /\ n + j = i
      BY <2>2
    <3> HIDE DEF j
    <3>2. RowIsExample(ni, no, c, (j - 1) * ni, d, (j - 1) * no)
      BY <3>1 DEF GoodBlocks
    <3>3. /\ \A k \in 1 .. ni : x[((n + j) - 1) * ni + k] = c[(j - 1) * ni + k]
          /\ \A k \in 1 .. no : y[((n + j) - 1) * no + k] = d[(j - 1) * no + k]
      BY <1>1, <1>2, <3>1
    <3>4. RowIsExample(ni, no, x, ((n + j) - 1) * ni, y, ((n + j) - 1) * no)
      BY <3>2, <3>3, RowMoved
    <3>5. QED
      BY <3>1, <3>4
  <2>3. QED
    BY <2>1, <2>2
<1>4. QED
  BY <1>1, <1>2, <1>3 DEF GoodBlocks, x, y

(* Two rows of a block exchanged.                                          *)
Other(r, i, j) == IF r = i THEN j ELSE IF r = j THEN i ELSE r

AreExchanged(w, n, block, i, j, c) ==
  /\ c \in Seq(Int) /\ Len(c) = n * w
  /\ \A r \in 1 .. n, k \in 1 .. w :
       c[(r - 1) * w + k] = block[(Other(r, i, j) - 1) * w + k]

LEMMA ExchangedRows ==
  ASSUME NEW w \in Nat, NEW n \in Nat, NEW block \in Seq(Int), Len(block) = n * w,
         NEW i \in 1 .. n, NEW j \in 1 .. n, i # j
  PROVE  AreExchanged(w, n, block, i, j,
                      Exchanged(block, (i - 1) * w, (j - 1) * w, w))
<1> DEFINE x == (i - 1) * w
           y == (j - 1) * w
           z == n * w
           c == Exchanged(block, x, y, w)
<1>1. x \in Nat /\ y \in Nat /\ x + w <= z /\ y + w <= z /\ z \in Nat
  <2>1. \A p, q \in Nat : p * q \in Nat
    BY SMT
  <2>2. z \in Nat /\ x \in Nat /\ y \in Nat
    BY <2>1
  <2>3. x + w <= z /\ y + w <= z
    <3>1. CASE w = 0
      <4>1. \A p \in Nat : p * 0 = 0
        BY SMT
      <4>2. x = 0 /\ y = 0
        BY <3>1, <4>1
      <4> HIDE DEF x, y, z
      <4>3. QED
        BY <2>2, <3>1, <4>2
    <3>2. CASE w # 0
      <4>1. 1 \in 1 .. w
        BY <3>2
      <4>2. QED
        BY <4>1, RowInside
    <3>3. QED
      BY <3>1, <3>2
  <2>4. QED
    BY <2>2, <2>3
<1> HIDE DEF x, y, z
<1>2. DOMAIN block = 1 .. z /\ \A k \in 1 .. z : block[k] \in Int
  BY <1>1, ElementOfSeq, LenProperties DEF z
<1>3. c = [k \in 1 .. z |->
             IF k \in x + 1 .. x + w THEN block[k - x + y]
             ELSE IF k \in y + 1 .. y + w THEN block[k - y + x] ELSE block[k]]
  BY <1>2 DEF Exchanged
<1>4. \A k \in 1 .. z : c[k] \in Int
  <2> SUFFICES ASSUME NEW k \in 1 .. z PROVE c[k] \in Int
    OBVIOUS
  <2>1. k \in x + 1 .. x + w => k - x + y \in 1 .. z
    BY <1>1
  <2>2. k \in y + 1 .. y + w => k - y + x \in 1 .. z
    BY <1>1
  <2>3. QED
    BY <1>2, <1>3, <2>1, <2>2
<1> HIDE DEF c
<1>5. c \in Seq(Int) /\ Len(c) = z
  <2>1. c \in [1 .. z -> Int]
    BY <1>3, <1>4
  <2>2. c \in Seq(Int)
    BY <1>1, <2>1, SeqDef
  <2>3. DOMAIN c = 1 .. z
    BY <1>3
  <2>4. QED
    BY <1>1, <2>2, <2>3
<1>6. ASSUME NEW r \in 1 .. n, NEW k \in 1 .. w
      PROVE  c[(r - 1) * w + k] = block[(Other(r, i, j) - 1) * w + k]
  <2> DEFINE a == (r - 1) * w
  <2>1. a + k \in 1 .. z /\ a \in Nat
    BY RowInside DEF z
  <2>2. CASE r = i
    <3>1. a = x /\ Other(r, i, j) = j
      BY <2>2 DEF x, Other
    <3> HIDE DEF a
    <3>2. a + k \in x + 1 .. x + w /\ (a + k) - x + y = y + k
      BY <1>1, <2>1, <3>1
    <3>3. c[a + k] = block[y + k]
      BY <1>3, <2>1, <3>2
    <3>4. QED
      BY <3>1, <3>3 DEF a, y
  <2>3. CASE r = j
    <3>1. a = y /\ Other(r, i, j) = i
      BY <2>3 DEF y, Other
    <3>2. a + k \notin x + 1 .. x + w
      BY <2>3, RowsApart DEF x
    <3> HIDE DEF a
    <3>3. a + k \in y + 1 .. y + w /\ (a + k) - y + x = x + k
      BY <1>1, <2>1, <3>1
    <3>4. c[a + k] = block[x + k]
      BY <1>3, <2>1, <3>2, <3>3
    <3>5. QED
      BY <3>1, <3>4 DEF a, x
  <2>4. CASE r # i /\ r # j
    <3>1. a + k \notin x + 1 .. x + w
      BY <2>4, RowsApart DEF x
    <3>2. a + k \notin y + 1 .. y + w
      BY <2>4, RowsApart DEF y
    <3>3. Other(r, i, j) = r
      BY <2>4 DEF Other
    <3> HIDE DEF a
    <3>4. c[a + k] = block[a + k]
      BY <1>3, <2>1, <3>1, <3>2
    <3>5. QED
      BY <3>3, <3>4 DEF a
  <2>5. QED
    BY <2>2, <2>3, <2>4
<1>7. QED
  BY <1>5, <1>6 DEF AreExchanged, c, x, y, z

(* A set with its rows in another order, or other examples in their place. *)
Blocks(s) ==
  {p \in Seq(Int) \X Seq(Int) :
     GoodBlocks(s.num_input, s.num_output, num_data(s), p[1], p[2])}

WithBlocks(s, a, b) ==
  [num_input |-> s.num_input, num_output |-> s.num_output,
   input |-> s.input, output |-> s.output, data_input |-> a, data_output |-> b,
   errno_f |-> s.errno_f, errstr |-> s.errstr]

Rearranged(s) == {WithBlocks(s, p[1], p[2]) : p \in Blocks(s)}

LEMMA BlocksReplaced ==
  ASSUME NEW s, IsSet(s), NEW t \in Rearranged(s)
  PROVE  IsSet(t) /\ num_data(t) = num_data(s) /\ t.errstr = s.errstr
<1>1. PICK p \in Blocks(s) : t = WithBlocks(s, p[1], p[2])
  BY DEF Rearranged
<1> DEFINE a == p[1]
           b == p[2]
<1>2. GoodBlocks(s.num_input, s.num_output, num_data(s), a, b)
  BY DEF Blocks
<1>3. /\ t.num_input = s.num_input /\ t.num_output = s.num_output
      /\ t.input = s.input /\ t.output = s.output
      /\ t.data_input = a /\ t.data_output = b
      /\ t.errno_f = s.errno_f /\ t.errstr = s.errstr
      /\ t = [num_input |-> t.num_input, num_output |-> t.num_output,
              input |-> t.input, output |-> t.output,
              data_input |-> t.data_input, data_output |-> t.data_output,
              errno_f |-> t.errno_f, errstr |-> t.errstr]
  BY <1>1 DEF WithBlocks
<1> HIDE DEF a, b
<1>4. num_data(t) = num_data(s)
  BY <1>3 DEF num_data
<1>5. /\ <<s.num_input, s.num_output>> \in Shapes
      /\ s.errno_f \in Errors /\ s.errstr \in Errors \cup {"none", "wild"}
      /\ MessageFits(s) /\ num_data(s) \in 0 .. MaxData
      /\ s.input = [i \in 1 .. num_data(s) |-> (i - 1) * s.num_input]
      /\ s.output = [i \in 1 .. num_data(s) |-> (i - 1) * s.num_output]
  BY DEF IsSet
<1>6. MessageFits(t)
  BY <1>3, <1>5 DEF MessageFits
<1>7. /\ <<t.num_input, t.num_output>> \in Shapes
      /\ t.errno_f \in Errors /\ t.errstr \in Errors \cup {"none", "wild"}
      /\ num_data(t) \in 0 .. MaxData
      /\ t.input = [i \in 1 .. num_data(t) |-> (i - 1) * t.num_input]
      /\ t.output = [i \in 1 .. num_data(t) |-> (i - 1) * t.num_output]
      /\ GoodBlocks(t.num_input, t.num_output, num_data(t),
                    t.data_input, t.data_output)
  BY <1>2, <1>3, <1>4, <1>5
<1>8. IsSet(t)
  BY <1>3, <1>6, <1>7 DEF IsSet
<1>9. QED
  BY <1>3, <1>4, <1>8

LEMMA SwapRearranges ==
  ASSUME NEW s, IsSet(s), NEW t \in Rearranged(s),
         NEW i \in 1 .. num_data(s), NEW j \in 1 .. num_data(s)
  PROVE  Swap(t, i, j) \in Rearranged(s)
<1>1. CASE i = j
  BY <1>1 DEF Swap
<1>2. CASE i # j
  <2>1. PICK p \in Blocks(s) : t = WithBlocks(s, p[1], p[2])
    BY DEF Rearranged
  <2> DEFINE ni == s.num_input
             no == s.num_output
             in == s.input
             out == s.output
             n == num_data(s)
             a == p[1]
             b == p[2]
             c == Exchanged(a, (i - 1) * ni, (j - 1) * ni, ni)
             d == Exchanged(b, (i - 1) * no, (j - 1) * no, no)
             u == [t EXCEPT !.data_input = c]
             v == [u EXCEPT !.data_output = d]
  <2>2. GoodBlocks(ni, no, n, a, b)
    BY DEF Blocks
  <2>3. /\ <<ni, no>> \in Shapes /\ n \in Nat
        /\ in = [r \in 1 .. n |-> (r - 1) * ni]
        /\ out = [r \in 1 .. n |-> (r - 1) * no]
    BY TrainDataAssumption DEF IsSet
  <2>4. in[i] = (i - 1) * ni /\ in[j] = (j - 1) * ni
        /\ out[i] = (i - 1) * no /\ out[j] = (j - 1) * no
    <3> HIDE DEF in, out, ni, no, n
    <3>1. i \in 1 .. n /\ j \in 1 .. n
      BY DEF n
    <3>2. QED
      BY <2>3, <3>1
  <2>5. /\ t = [num_input |-> ni, num_output |-> no, input |-> in, output |-> out,
                data_input |-> a, data_output |-> b,
                errno_f |-> s.errno_f, errstr |-> s.errstr]
        /\ t.data_input = a /\ t.data_output = b /\ t.input = in /\ t.output = out
        /\ t.num_input = ni /\ t.num_output = no
    BY <2>1 DEF WithBlocks
  <2> HIDE DEF ni, no, in, out, n, a, b
  <2>6. Swap(t, i, j) = v
    <3>1. Swap(t, i, j) =
            [t EXCEPT !.data_input = Exchanged(a, in[i], in[j], ni),
                      !.data_output = Exchanged(b, out[i], out[j], no)]
      BY <1>2, <2>5 DEF Swap
    <3>2. c = Exchanged(a, in[i], in[j], ni) /\ d = Exchanged(b, out[i], out[j], no)
      BY <2>4
    <3> HIDE DEF c, d
    <3>3. QED
      BY <3>1, <3>2
  <2> HIDE DEF c, d
  <2>7. v = WithBlocks(s, c, d)
    <3>1. u = [num_input |-> ni, num_output |-> no, input |-> in, output |-> out,
               data_input |-> c, data_output |-> b,
               errno_f |-> s.errno_f, errstr |-> s.errstr]
      BY <2>5
    <3> HIDE DEF u
    <3>2. v = [num_input |-> ni, num_output |-> no, input |-> in, output |-> out,
               data_input |-> c, data_output |-> d,
               errno_f |-> s.errno_f, errstr |-> s.errstr]
      BY <3>1
    <3>3. QED
      BY <3>2 DEF WithBlocks, ni, no, in, out
  <2>8. ni \in Nat /\ no \in Nat
    BY <2>3, ShapeSizes
  <2>9. AreExchanged(ni, n, a, i, j, c)
    <3>1. a \in Seq(Int) /\ Len(a) = n * ni
      BY <2>2 DEF GoodBlocks
    <3>2. QED
      BY <1>2, <2>3, <2>8, <3>1, ExchangedRows DEF n, c
  <2>10. AreExchanged(no, n, b, i, j, d)
    <3>1. b \in Seq(Int) /\ Len(b) = n * no
      BY <2>2 DEF GoodBlocks
    <3>2. QED
      BY <1>2, <2>3, <2>8, <3>1, ExchangedRows DEF n, d
  <2>11. ASSUME NEW r \in 1 .. n
         PROVE  RowIsExample(ni, no, c, (r - 1) * ni, d, (r - 1) * no)
    <3> DEFINE o == Other(r, i, j)
    <3>1. o \in 1 .. n
      BY DEF Other, n
    <3>2. /\ \A k \in 1 .. ni : c[(r - 1) * ni + k] = a[(o - 1) * ni + k]
          /\ \A k \in 1 .. no : d[(r - 1) * no + k] = b[(o - 1) * no + k]
      BY <2>9, <2>10 DEF AreExchanged
    <3> HIDE DEF o
    <3>3. RowIsExample(ni, no, a, (o - 1) * ni, b, (o - 1) * no)
      BY <2>2, <3>1 DEF GoodBlocks
    <3>4. QED
      BY <3>2, <3>3, RowMoved
  <2>12. GoodBlocks(ni, no, n, c, d)
    BY <2>9, <2>10, <2>11 DEF GoodBlocks, AreExchanged
  <2>13. <<c, d>> \in Blocks(s)
    BY <2>12 DEF Blocks, GoodBlocks, ni, no, n
  <2>14. WithBlocks(s, c, d) = WithBlocks(s, <<c, d>>[1], <<c, d>>[2])
    OBVIOUS
  <2>15. QED
    BY <2>6, <2>7, <2>13, <2>14 DEF Rearranged
<1>3. QED
  BY <1>1, <1>2

(* A sequence of swaps.                                                    *)
Shuffled(s, swap, n) ==
  FoldLeft(LAMBDA t, dat : Swap(t, dat, swap[dat]), s, [dat \in 1 .. n |-> dat])

LEMMA ShuffleRearranges ==
  ASSUME NEW s, IsSet(s), NEW n \in Nat, n = num_data(s), NEW swap \in [1 .. n -> 1 .. n]
  PROVE  Shuffled(s, swap, n) \in Rearranged(s)
<1> DEFINE q == [dat \in 1 .. n |-> dat]
           V == Rearranged(s)
           Folds(f) ==
             f = [S \in SUBSET (1 .. n) |->
                    IF S = {} THEN s
                    ELSE Swap(f[S \ {Max(S)}], q[Max(S)], swap[q[Max(S)]])]
           step == [p \in V \X (1 .. n) |-> Swap(p[1], q[p[2]], swap[q[p[2]]])]
<1>1. Shuffled(s, swap, n) = (CHOOSE f : Folds(f))[1 .. n]
  <2>1. DOMAIN q = 1 .. n
    OBVIOUS
  <2>2. QED
    BY DEF Shuffled, FoldLeft, MapThenFoldSet
<1>2. s \in V
  <2> DEFINE a == s.data_input
             b == s.data_output
  <2>1. s = WithBlocks(s, a, b)
    BY DEF IsSet, WithBlocks
  <2>2. <<a, b>> \in Blocks(s)
    BY DEF IsSet, Blocks, GoodBlocks
  <2> HIDE DEF a, b
  <2>3. WithBlocks(s, a, b) = WithBlocks(s, <<a, b>>[1], <<a, b>>[2])
    OBVIOUS
  <2>4. QED
    BY <2>1, <2>2, <2>3 DEF Rearranged
<1>3. ASSUME NEW t \in V, NEW k \in 1 .. n
      PROVE  Swap(t, q[k], swap[q[k]]) \in V
  <2>1. q[k] = k /\ swap[k] \in 1 .. n
    OBVIOUS
  <2> HIDE DEF q, V
  <2>2. Swap(t, k, swap[k]) \in V
    BY <2>1, SwapRearranges DEF V
  <2>3. QED
    BY <2>1, <2>2
<1> HIDE DEF V, q
<1>4. \E f : Folds(f)
  <2>1. step \in [V \X (1 .. n) -> V]
    BY <1>3
  <2> HIDE DEF step
  <2>2. PICK f \in [SUBSET (1 .. n) -> V] : FoldsTo(f, n, s, step)
    BY <1>2, <2>1, FoldExists
  <2>3. ASSUME NEW S \in SUBSET (1 .. n), S # {}
        PROVE  step[<<f[S \ {Max(S)}], Max(S)>>]
                 = Swap(f[S \ {Max(S)}], q[Max(S)], swap[q[Max(S)]])
    <3>1. Max(S) \in 1 .. n /\ S \ {Max(S)} \in SUBSET (1 .. n)
      BY <2>3, GreatestNumber
    <3>2. QED
      BY <3>1 DEF step
  <2>4. Folds(f)
    BY <2>2, <2>3 DEF FoldsTo
  <2>5. QED
    BY <2>4
<1>5. PICK f : Folds(f) /\ Shuffled(s, swap, n) = f[1 .. n]
  BY <1>1, <1>4
<1>6. f[1 .. 0] = s
  <2>1. 1 .. 0 = {} /\ 1 .. 0 \in SUBSET (1 .. n)
    OBVIOUS
  <2>2. QED
    BY <1>5, <2>1
<1>7. ASSUME NEW k \in 0 .. n - 1, f[1 .. k] \in V
      PROVE  f[1 .. k + 1] \in V
  <2> DEFINE S == 1 .. k + 1
  <2>1. S \in SUBSET (1 .. n) /\ S # {} /\ Max(S) = k + 1 /\ S \ {Max(S)} = 1 .. k
    BY UpToNext
  <2>2. k + 1 \in 1 .. n
    OBVIOUS
  <2> HIDE DEF S
  <2>3. f[S] = Swap(f[S \ {Max(S)}], q[Max(S)], swap[q[Max(S)]])
    BY <1>5, <2>1
  <2>4. f[S] = Swap(f[1 .. k], q[k + 1], swap[q[k + 1]])
    BY <2>1, <2>3
  <2>5. f[S] \in V
    BY <1>3, <1>7, <2>2, <2>4
  <2>6. QED
    BY <2>5 DEF S
<1> DEFINE T == {m \in 0 .. n : f[1 .. m] \in V}
<1> HIDE DEF Folds
<1>8. 0 \in T
  BY <1>2, <1>6
<1>9. ASSUME NEW k \in 0 .. n - 1, k \in T PROVE k + 1 \in T
  <2>1. k + 1 \in 0 .. n
    OBVIOUS
  <2>2. QED
    BY <1>7, <1>9, <2>1
<1> HIDE DEF T
<1>10. \A k \in 0 .. n : k \in T
  BY <1>8, <1>9, CountingUp
<1>11. n \in T
  BY <1>10
<1>12. QED
  BY <1>5, <1>11 DEF T, V

----------------------------------------------------------------------------
(* Sets from a function and from a file.                                   *)

LEMMA GivenIsSet ==
  ASSUME NEW shape \in Shapes, NEW rows \in SomeRows
  PROVE  LET s == Given(shape, rows)
         IN /\ IsSet(s) /\ s.errno_f = "NO_ERROR" /\ s.errstr = "none"
            /\ num_data(s) = Len(rows)
<1> DEFINE ni == shape[1]
           no == shape[2]
<1>1. shape = <<ni, no>> /\ <<ni, no>> \in Shapes /\ ni \in Nat /\ no \in Nat
  <2>1. shape \in (Nat \ {0}) \X (Nat \ {0})
    BY TrainDataAssumption
  <2>2. QED
    BY <2>1
<1>2. PICK n \in 0 .. Min({MaxData, Len(Examples)}) : rows = [i \in 1 .. n |-> i]
  BY DEF SomeRows
<1>3. n \in 0 .. MaxData /\ n \in Nat /\ \A i \in 1 .. n : i \in DOMAIN Examples
  <2>1. Examples \in Seq([input : Seq(Int), output : Seq(Int)]) /\ MaxData \in Nat
    BY TrainDataAssumption
  <2>2. Len(Examples) \in Nat /\ DOMAIN Examples = 1 .. Len(Examples)
    BY <2>1, LenProperties
  <2> DEFINE l == Len(Examples)
             m == Min({MaxData, l})
  <2>3. m \in Nat /\ m <= MaxData /\ m <= l
    BY <2>1, <2>2, LesserNumber
  <2>4. n \in 0 .. m
    OBVIOUS
  <2> HIDE DEF l, m
  <2>5. \A i \in 1 .. n : i \in 1 .. l
    BY <2>2, <2>3, <2>4 DEF l
  <2>6. QED
    BY <2>1, <2>2, <2>3, <2>4, <2>5 DEF l
<1>4. DOMAIN rows = 1 .. n /\ \A i \in 1 .. n : rows[i] = i
  BY <1>2
<1>5. Len(rows) = n
  <2>1. rows \in [1 .. n -> 1 .. n]
    BY <1>2
  <2>2. rows \in Seq(1 .. n)
    BY <1>3, <2>1, SeqDef
  <2>3. QED
    BY <1>3, <1>4, <2>2
<1> HIDE DEF ni, no
<1> DEFINE qi == [i \in DOMAIN rows |-> SubSeq(Examples[rows[i]].input, 1, ni)]
           qo == [i \in DOMAIN rows |-> SubSeq(Examples[rows[i]].output, 1, no)]
           bi == Joined(qi)
           bo == Joined(qo)
<1>6. ASSUME NEW i \in 1 .. n
      PROVE  /\ qi[i] \in Seq(Int) /\ Len(qi[i]) = ni
             /\ \A k \in 1 .. ni : qi[i][k] = Examples[i].input[k]
             /\ qo[i] \in Seq(Int) /\ Len(qo[i]) = no
             /\ \A k \in 1 .. no : qo[i][k] = Examples[i].output[k]
  <2> DEFINE x == Examples[i].input
             y == Examples[i].output
  <2>1. x \in Seq(Int) /\ y \in Seq(Int) /\ ni <= Len(x) /\ no <= Len(y)
    BY <1>1, <1>3, ExampleValues
  <2>2. qi[i] = SubSeq(x, 1, ni) /\ qo[i] = SubSeq(y, 1, no)
    BY <1>4
  <2> HIDE DEF x, y
  <2>3. /\ SubSeq(x, 1, ni) \in Seq(Int) /\ Len(SubSeq(x, 1, ni)) = ni
        /\ \A k \in 1 .. ni : SubSeq(x, 1, ni)[k] = x[k]
    BY <1>1, <2>1
  <2>4. /\ SubSeq(y, 1, no) \in Seq(Int) /\ Len(SubSeq(y, 1, no)) = no
        /\ \A k \in 1 .. no : SubSeq(y, 1, no)[k] = y[k]
    BY <1>1, <2>1
  <2> HIDE DEF qi, qo
  <2>5. QED
    BY <2>2, <2>3, <2>4 DEF x, y
<1>7. DOMAIN qi = 1 .. n /\ DOMAIN qo = 1 .. n
  BY <1>4
<1>8. Given(shape, rows) = Rows(<<ni, no>>, n, bi, bo)
  BY <1>1, <1>5 DEF Given, ni, no
<1> HIDE DEF qi, qo
<1>9. AreRows(n, ni, qi, bi) /\ AreRows(n, no, qo, bo)
  BY <1>1, <1>3, <1>6, <1>7, JoinedRows
<1> HIDE DEF bi, bo
<1>10. ASSUME NEW i \in 1 .. n
       PROVE  RowIsExample(ni, no, bi, (i - 1) * ni, bo, (i - 1) * no)
  <2>1. /\ \A k \in 1 .. ni : bi[(i - 1) * ni + k] = Examples[i].input[k]
        /\ \A k \in 1 .. no : bo[(i - 1) * no + k] = Examples[i].output[k]
    BY <1>6, <1>9 DEF AreRows
  <2>2. i \in DOMAIN Examples
    BY <1>3
  <2>3. QED
    BY <2>1, <2>2 DEF RowIsExample, Fits
<1>11. GoodBlocks(ni, no, n, bi, bo)
  BY <1>9, <1>10 DEF AreRows, GoodBlocks
<1>12. QED
  BY <1>1, <1>3, <1>5, <1>8, <1>11, RowsMakeASet

(* One row of a set, its inputs before its outputs.                        *)
LEMMA RowOfSet ==
  ASSUME NEW s, IsSet(s), NEW i \in 1 .. num_data(s)
  PROVE  /\ Row(s, i) \in Seq(Int) /\ Len(Row(s, i)) = s.num_input + s.num_output
         /\ RowIsExample(s.num_input, s.num_output, Row(s, i), 0, Row(s, i), s.num_input)
<1> DEFINE ni == s.num_input
           no == s.num_output
           a == InputsFrom(s, i, 1)
           b == OutputsFrom(s, i, 1)
           r == Row(s, i)
<1>1. <<ni, no>> \in Shapes /\ num_data(s) \in Nat
  BY TrainDataAssumption DEF IsSet
<1>2. ni \in Nat /\ no \in Nat
  BY <1>1, ShapeSizes
<1>3. GoodBlocks(ni, no, 1, a, b)
  <2>1. i - 1 \in Nat /\ (i - 1) + 1 = i /\ (i - 1) + 1 <= num_data(s)
    BY <1>1
  <2>2. GoodBlocks(ni, no, 1, InputsFrom(s, (i - 1) + 1, 1),
                   OutputsFrom(s, (i - 1) + 1, 1))
    BY <2>1, PartIsGood
  <2>3. QED
    BY <2>1, <2>2
<1> HIDE DEF ni, no, a, b
<1>4. /\ a \in Seq(Int) /\ Len(a) = ni /\ b \in Seq(Int) /\ Len(b) = no
      /\ RowIsExample(ni, no, a, 0, b, 0)
  <2>1. 1 * ni = ni /\ 1 * no = no /\ (1 - 1) * ni = 0 /\ (1 - 1) * no = 0
        /\ 1 \in 1 .. 1
    BY <1>2
  <2>2. /\ a \in Seq(Int) /\ Len(a) = 1 * ni /\ b \in Seq(Int) /\ Len(b) = 1 * no
        /\ RowIsExample(ni, no, a, (1 - 1) * ni, b, (1 - 1) * no)
    BY <1>3, <2>1 DEF GoodBlocks
  <2>3. QED
    BY <2>1, <2>2
<1>5. r = a \o b
  BY DEF Row, a, b
<1> HIDE DEF r
<1>6. /\ r \in Seq(Int) /\ Len(r) = ni + no
      /\ \A k \in 1 .. ni + no : r[k] = IF k <= ni THEN a[k] ELSE b[k - ni]
  <2>1. /\ a \o b \in Seq(Int) /\ Len(a \o b) = Len(a) + Len(b)
        /\ \A k \in 1 .. Len(a) + Len(b) :
             (a \o b)[k] = IF k <= Len(a) THEN a[k] ELSE b[k - Len(a)]
    BY <1>4, ConcatProperties
  <2>2. QED
    BY <1>4, <1>5, <2>1
<1>7. /\ \A k \in 1 .. ni : r[0 + k] = a[0 + k]
      /\ \A k \in 1 .. no : r[ni + k] = b[0 + k]
  <2>1. ASSUME NEW k \in 1 .. ni PROVE r[0 + k] = a[0 + k]
    <3>1. 0 + k = k /\ k \in 1 .. ni + no /\ k <= ni
      BY <1>2
    <3>2. QED
      BY <1>6, <3>1
  <2>2. ASSUME NEW k \in 1 .. no PROVE r[ni + k] = b[0 + k]
    <3>1. 0 + k = k /\ ni + k \in 1 .. ni + no /\ ~(ni + k <= ni) /\ (ni + k) - ni = k
      BY <1>2
    <3>2. r[ni + k] = b[(ni + k) - ni]
      BY <1>6, <3>1
    <3>3. QED
      BY <3>1, <3>2
  <2>3. QED
    BY <2>1, <2>2
<1>8. RowIsExample(ni, no, r, 0, r, ni)
  BY SMTT(40), <1>4, <1>7, RowMoved
<1>9. QED
  BY <1>6, <1>8 DEF r, ni, no

(* A file holds rows of examples, one after the other.                     *)
IsFile(f) ==
  /\ f = [num_data |-> f.num_data, shape |-> f.shape, values |-> f.values]
  /\ f.num_data \in 0 .. MaxData /\ f.shape \in Shapes
  /\ f.values \in Seq(Int) /\ Len(f.values) = f.num_data * (f.shape[1] + f.shape[2])
  /\ \A i \in 1 .. f.num_data :
       LET at == (i - 1) * (f.shape[1] + f.shape[2])
       IN RowIsExample(f.shape[1], f.shape[2], f.values, at, f.values, at + f.shape[1])

FileOf(s) ==
  LET values == Joined([i \in 1 .. num_data(s) |-> Row(s, i)])
  IN [num_data |-> num_data(s), shape |-> <<s.num_input, s.num_output>>,
      values |-> [k \in DOMAIN values |-> Written(values[k])]]

LEMMA SetIsWritten ==
  ASSUME NEW s, IsSet(s)
  PROVE  IsFile(FileOf(s))
<1> DEFINE n == num_data(s)
           ni == s.num_input
           no == s.num_output
           w == ni + no
           q == [i \in 1 .. n |-> Row(s, i)]
           values == Joined(q)
           written == [k \in DOMAIN values |-> Written(values[k])]
<1>1. <<ni, no>> \in Shapes /\ n \in 0 .. MaxData /\ n \in Nat
  BY TrainDataAssumption DEF IsSet
<1>2. ni \in Nat /\ no \in Nat /\ w \in Nat
  <2>1. ni \in Nat /\ no \in Nat
    BY <1>1, ShapeSizes
  <2>2. QED
    BY <2>1
<1>3. \A i \in 1 .. n :
        /\ q[i] \in Seq(Int) /\ Len(q[i]) = w
        /\ RowIsExample(ni, no, q[i], 0, q[i], ni)
  BY RowOfSet
<1>4. DOMAIN q = 1 .. n
  OBVIOUS
<1> HIDE DEF n, ni, no, q, w
<1>5. AreRows(n, w, q, values)
  BY <1>1, <1>2, <1>3, <1>4, JoinedRows
<1> HIDE DEF values
<1>6. /\ values \in Seq(Int) /\ Len(values) = n * w /\ n * w \in Nat
      /\ \A i \in 1 .. n, k \in 1 .. w : values[(i - 1) * w + k] = q[i][k]
  <2>1. values \in Seq(Int) /\ Len(values) = n * w
    BY <1>5 DEF AreRows
  <2>2. n * w \in Nat
    BY <2>1, LenProperties
  <2>3. QED
    BY <1>5, <2>1, <2>2 DEF AreRows
<1> DEFINE l == n * w
<1>7. \A j \in 1 .. l : values[j] \in Int /\ j \in DOMAIN values
  BY <1>6, ElementOfSeq, LenProperties
<1> HIDE DEF l
<1>8. ASSUME NEW i \in 1 .. n
      PROVE  LET at == (i - 1) * w
             IN /\ at \in Nat
                /\ RowIsExample(ni, no, written, at, written, at + ni)
                /\ \A k \in 1 .. w : Written(values[at + k]) \in Int
  <2> DEFINE at == (i - 1) * w
  <2>1. PICK e \in DOMAIN Examples :
          /\ \A k \in 1 .. ni : Fits(q[i][0 + k], Examples[e].input[k])
          /\ \A k \in 1 .. no : Fits(q[i][ni + k], Examples[e].output[k])
    BY <1>3 DEF RowIsExample
  <2>2. /\ \A k \in 1 .. ni : Examples[e].input[k] \in Int
        /\ \A k \in 1 .. no : Examples[e].output[k] \in Int
    BY <1>1, ExampleValues
  <2>3. at \in Nat /\ \A k \in 1 .. w : at + k \in 1 .. l
    <3>1. \A k \in 1 .. w : at + k \in 1 .. l
      BY <1>1, <1>2, RowInside DEF l
    <3>2. \A x, y \in Nat : x * y \in Nat
      BY SMT
    <3>3. i - 1 \in Nat
      BY <1>1
    <3>4. QED
      BY <1>2, <3>1, <3>2, <3>3
  <2>4. \A k \in 1 .. w : values[at + k] = q[i][k]
    BY <1>6
  <2> HIDE DEF at
  <2>5. \A k \in 1 .. w :
          values[at + k] \in Int /\ written[at + k] = Written(values[at + k])
    BY <1>7, <2>3
  <2> HIDE DEF written
  <2>6. ASSUME NEW k \in 1 .. ni
        PROVE  /\ Fits(written[at + k], Examples[e].input[k])
               /\ Written(values[at + k]) \in Int
    <3>1. k \in 1 .. w /\ 0 + k = k
      BY <1>2 DEF w
    <3>2. Fits(values[at + k], Examples[e].input[k])
      BY <2>1, <2>4, <3>1
    <3>3. QED
      BY <2>2, <2>5, <3>1, <3>2, WrittenFits
  <2>7. ASSUME NEW k \in 1 .. no
        PROVE  /\ Fits(written[at + ni + k], Examples[e].output[k])
               /\ Written(values[at + (ni + k)]) \in Int
    <3>1. ni + k \in 1 .. w /\ at + ni + k = at + (ni + k)
      BY <1>2, <2>3 DEF w
    <3>2. Fits(values[at + (ni + k)], Examples[e].output[k])
      BY <2>1, <2>4, <3>1
    <3>3. QED
      BY <2>2, <2>5, <3>1, <3>2, WrittenFits
  <2>8. RowIsExample(ni, no, written, at, written, at + ni)
    BY <2>6, <2>7 DEF RowIsExample
  <2>9. ASSUME NEW k \in 1 .. w PROVE Written(values[at + k]) \in Int
    <3>1. CASE k <= ni
      BY <1>2, <2>6, <3>1
    <3>2. CASE ~(k <= ni)
      <4>1. k - ni \in 1 .. no /\ ni + (k - ni) = k
        BY <1>2, <3>2 DEF w
      <4>2. QED
        BY <2>7, <4>1
    <3>3. QED
      BY <3>1, <3>2
  <2>10. QED
    BY <2>3, <2>8, <2>9 DEF at
<1>9. \A j \in 1 .. l : Written(values[j]) \in Int
  <2> SUFFICES ASSUME NEW j \in 1 .. l PROVE Written(values[j]) \in Int
    OBVIOUS
  <2>1. PICK i \in 1 .. n, k \in 1 .. w : j = (i - 1) * w + k
    BY ZenonT(40), <1>1, <1>2, RowContaining DEF l
  <2>2. QED
    BY <1>8, <2>1
<1>10. written \in Seq(Int) /\ Len(written) = l
  <2>1. written \in [1 .. l -> Int] /\ DOMAIN written = 1 .. l
    BY <1>6, <1>9, LenProperties DEF l
  <2> HIDE DEF written
  <2>2. l \in Nat
    BY <1>6 DEF l
  <2>3. written \in Seq(Int)
    BY <2>1, <2>2, SeqDef
  <2>4. QED
    BY <2>1, <2>2, <2>3
<1> HIDE DEF written
<1>11. FileOf(s) = [num_data |-> n, shape |-> <<ni, no>>, values |-> written]
  BY DEF FileOf, n, ni, no, written, values, q
<1> DEFINE f == FileOf(s)
<1>12. f.num_data = n /\ f.shape = <<ni, no>> /\ f.values = written
       /\ f.shape[1] = ni /\ f.shape[2] = no
  BY <1>11
<1>13. f = [num_data |-> f.num_data, shape |-> f.shape, values |-> f.values]
  BY <1>11
<1> HIDE DEF f
<1>14. \A i \in 1 .. n :
         RowIsExample(ni, no, written, (i - 1) * (ni + no),
                      written, (i - 1) * (ni + no) + ni)
  BY <1>8 DEF w
<1>15. Len(written) = n * (ni + no)
  BY <1>10 DEF l, w
<1>16. QED
  BY <1>1, <1>10, <1>12, <1>13, <1>14, <1>15 DEF IsFile, f

(* Some values of a sequence, from a place on.                             *)
PartOf(values, at, n, part) ==
  /\ part \in Seq(Int) /\ Len(part) = n
  /\ \A k \in 1 .. n : part[k] = values[at + k]

LEMMA PartTaken ==
  ASSUME NEW values \in Seq(Int), NEW at \in Nat, NEW n \in Nat,
         at + n <= Len(values)
  PROVE  PartOf(values, at, n, SubSeq(values, at + 1, at + n))
<1> DEFINE part == SubSeq(values, at + 1, at + n)
<1>1. part = [k \in 1 .. n |-> values[at + k]]
  <2>1. at + 1 \in Int /\ at + n \in Int /\ (at + n) - (at + 1) + 1 = n
    OBVIOUS
  <2>2. part = [k \in 1 .. ((at + n) - (at + 1) + 1) |-> values[k + (at + 1) - 1]]
    BY <2>1
  <2>3. \A k \in 1 .. n : k + (at + 1) - 1 = at + k
    OBVIOUS
  <2>4. QED
    BY <2>1, <2>2, <2>3
<1> HIDE DEF part
<1>2. \A k \in 1 .. n : values[at + k] \in Int
  <2>1. \A k \in 1 .. n : at + k \in 1 .. Len(values)
    BY LenProperties
  <2>2. QED
    BY <2>1, ElementOfSeq
<1>3. part \in [1 .. n -> Int] /\ DOMAIN part = 1 .. n
  BY <1>1, <1>2
<1>4. part \in Seq(Int)
  BY <1>3, SeqDef
<1>5. Len(part) = n
  BY <1>3, <1>4
<1>6. QED
  BY <1>1, <1>4, <1>5 DEF PartOf, part

(* What is read from a file is a set again.                                *)
LEMMA FileIsSet ==
  ASSUME IsFile(file)
  PROVE  IsSet(FileRows) /\ FileRows.errstr = "none"
<1> DEFINE n == file.num_data
           ni == file.shape[1]
           no == file.shape[2]
           w == ni + no
           values == file.values
           At(i) == (i - 1) * w
           qi == [i \in 1 .. n |-> SubSeq(values, At(i) + 1, At(i) + ni)]
           qo == [i \in 1 .. n |-> SubSeq(values, At(i) + ni + 1, At(i) + ni + no)]
           bi == Joined(qi)
           bo == Joined(qo)
<1>1. /\ n \in 0 .. MaxData /\ file.shape \in Shapes
      /\ values \in Seq(Int) /\ Len(values) = n * w
      /\ \A i \in 1 .. n : RowIsExample(ni, no, values, At(i), values, At(i) + ni)
  BY DEF IsFile
<1>2. /\ file.shape = <<ni, no>> /\ <<ni, no>> \in Shapes
      /\ n \in Nat /\ ni \in Nat /\ no \in Nat /\ w \in Nat
  <2>1. file.shape \in (Nat \ {0}) \X (Nat \ {0}) /\ MaxData \in Nat
    BY <1>1, TrainDataAssumption
  <2>2. file.shape = <<ni, no>> /\ ni \in Nat /\ no \in Nat
    BY <2>1
  <2>3. n \in Nat
    BY <1>1, <2>1
  <2>4. w \in Nat
    BY <2>2
  <2>5. QED
    BY <1>1, <2>2, <2>3, <2>4
<1>3. FileRows = Rows(<<ni, no>>, n, bi, bo)
  BY <1>2 DEF FileRows
<1>4. DOMAIN qi = 1 .. n /\ DOMAIN qo = 1 .. n
  OBVIOUS
<1>5. ASSUME NEW i \in 1 .. n
      PROVE  /\ qi[i] \in Seq(Int) /\ Len(qi[i]) = ni
             /\ \A k \in 1 .. ni : qi[i][k] = values[At(i) + k]
             /\ qo[i] \in Seq(Int) /\ Len(qo[i]) = no
             /\ \A k \in 1 .. no : qo[i][k] = values[At(i) + ni + k]
  <2> DEFINE at == At(i)
             l == n * w
  <2>1. at \in Nat /\ at + w <= l /\ l \in Nat
    <3>1. \A x, y \in Nat : x * y \in Nat
      BY SMT
    <3>2. i - 1 \in Nat
      BY <1>2
    <3>3. at \in Nat /\ l \in Nat
      BY <1>2, <3>1, <3>2
    <3>4. CASE w = 0
      <4>1. at = 0
        BY <1>2, <3>2, <3>4
      <4> HIDE DEF at, l, w
      <4>2. QED
        BY <3>3, <3>4, <4>1
    <3>5. CASE w # 0
      <4>1. 1 \in 1 .. w
        BY <1>2, <3>5
      <4>2. QED
        BY <1>2, <3>3, <4>1, RowInside
    <3>6. QED
      BY <3>4, <3>5
  <2>2. /\ qi[i] = SubSeq(values, at + 1, at + ni)
        /\ qo[i] = SubSeq(values, at + ni + 1, at + ni + no)
    OBVIOUS
  <2> HIDE DEF at, l, qi, qo, At
  <2>3. Len(values) = l
    BY <1>1 DEF l
  <2>4. at + ni \in Nat /\ at + ni + no <= l /\ at + ni <= l
    BY <1>2, <2>1
  <2>5. PartOf(values, at, ni, SubSeq(values, at + 1, at + ni))
    BY <1>1, <1>2, <2>1, <2>3, <2>4, PartTaken
  <2>6. PartOf(values, at + ni, no, SubSeq(values, at + ni + 1, at + ni + no))
    BY <1>1, <1>2, <2>1, <2>3, <2>4, PartTaken
  <2>7. QED
    BY <2>2, <2>5, <2>6 DEF at, PartOf
<1> HIDE DEF qi, qo
<1>6. AreRows(n, ni, qi, bi) /\ AreRows(n, no, qo, bo)
  <2> HIDE DEF ni, no, n
  <2>1. QED
    BY <1>2, <1>4, <1>5, JoinedRows
<1> HIDE DEF bi, bo, At, n, ni, no, values
<1>7. ASSUME NEW i \in 1 .. n
      PROVE  RowIsExample(ni, no, bi, (i - 1) * ni, bo, (i - 1) * no)
  <2>1. /\ \A k \in 1 .. ni : bi[(i - 1) * ni + k] = values[At(i) + k]
        /\ \A k \in 1 .. no : bo[(i - 1) * no + k] = values[At(i) + ni + k]
    BY <1>5, <1>6 DEF AreRows
  <2>2. RowIsExample(ni, no, values, At(i), values, At(i) + ni)
    BY <1>1
  <2>3. QED
    BY <2>1, <2>2, RowMoved
<1>8. GoodBlocks(ni, no, n, bi, bo)
  BY <1>6, <1>7 DEF AreRows, GoodBlocks
<1>9. QED
  BY <1>1, <1>2, <1>3, <1>8, RowsMakeASet

----------------------------------------------------------------------------
(* The invariant.                                                          *)

(* What an object holds while nothing outside the rules was met can be     *)
(* destroyed without a loss.                                               *)
IsHeld(s, exception) ==
  \/ s = NULL
  \/ /\ IsSet(s)
     /\ ~exception => num_data(s) > 0 /\ s.errstr \notin Errors

SetsInv ==
  /\ train_data = [o \in Objects |-> train_data[o]]
  /\ \A o \in Objects : IsHeld(train_data[o], excused)
  /\ LossesExcused

DataInv == SetsInv /\ (file = NULL \/ IsFile(file))

(* An outcome that keeps it.                                               *)
IsKept(r) == IsHeld(r.set, r.excused) /\ (~r.excused => r.lost = {} /\ r.defined)

(* The error record of a set, written in the ways the code does it.        *)
LEMMA RecordParts ==
  ASSUME NEW s, IsSet(s), NEW e, NEW m
  PROVE  /\ [s EXCEPT !.errno_f = e] = [s EXCEPT !.errno_f = e, !.errstr = s.errstr]
         /\ [s EXCEPT !.errstr = m] = [s EXCEPT !.errno_f = s.errno_f, !.errstr = m]
<1> DEFINE a == s.num_input
           b == s.num_output
           c == s.input
           d == s.output
           f == s.data_input
           g == s.data_output
           h == s.errno_f
           l == s.errstr
           t == [s EXCEPT !.errno_f = e]
           u == [s EXCEPT !.errstr = m]
           v == [s EXCEPT !.errno_f = e, !.errstr = l]
           w == [s EXCEPT !.errno_f = h, !.errstr = m]
           R(x, y) == [num_input |-> a, num_output |-> b, input |-> c, output |-> d,
                       data_input |-> f, data_output |-> g, errno_f |-> x, errstr |-> y]
<1>1. s = R(h, l)
  BY DEF IsSet
<1> HIDE DEF a, b, c, d, f, g, h, l
<1>2. t = R(e, l) /\ u = R(h, m)
  BY <1>1
<1>3. v = R(e, l)
  <2> DEFINE x == [s EXCEPT !.errno_f = e]
  <2>1. v = [x EXCEPT !.errstr = l]
    OBVIOUS
  <2>2. x = R(e, l)
    BY <1>2
  <2> HIDE DEF x, v
  <2>3. [x EXCEPT !.errstr = l] = R(e, l)
    BY <2>2
  <2>4. QED
    BY <2>1, <2>3
<1>4. w = R(h, m)
  <2> DEFINE x == [s EXCEPT !.errno_f = h]
  <2>1. w = [x EXCEPT !.errstr = m]
    OBVIOUS
  <2>2. x = R(h, l)
    BY <1>1
  <2> HIDE DEF x, w
  <2>3. [x EXCEPT !.errstr = m] = R(h, m)
    BY <2>2
  <2>4. QED
    BY <2>1, <2>3
<1> HIDE DEF R
<1>5. t = v /\ u = w
  BY <1>2, <1>3, <1>4
<1>6. QED
  BY <1>5 DEF h, l

LEMMA ErrnoWritten ==
  ASSUME NEW s, IsSet(s), NEW e \in Errors,
         e # "NO_ERROR" /\ s.errstr # "none" => s.errstr \in {e, "wild"}
  PROVE  Recorded(s, s.errstr, [s EXCEPT !.errno_f = e])
<1>1. s.errstr \in Errors \cup {"none", "wild"}
  BY DEF IsSet
<1>2. Recorded(s, s.errstr, [s EXCEPT !.errno_f = e, !.errstr = s.errstr])
  BY ZenonT(40), <1>1, RecordWritten
<1>3. QED
  BY <1>2, RecordParts

LEMMA ErrstrWritten ==
  ASSUME NEW s, IsSet(s), NEW m \in {"none", "wild"}
  PROVE  Recorded(s, m, [s EXCEPT !.errstr = m])
<1>1. s.errno_f \in Errors /\ m \in Errors \cup {"none", "wild"}
  BY DEF IsSet
<1>2. Recorded(s, m, [s EXCEPT !.errno_f = s.errno_f, !.errstr = m])
  BY <1>1, RecordWritten
<1>3. QED
  BY <1>2, RecordParts

LEMMA ErrorsAreSets ==
  ASSUME NEW s, IsSet(s), NEW e \in Errors, NEW t \in WithError(s, e)
  PROVE  IsSet(t)
<1> DEFINE v == [s EXCEPT !.errno_f = e, !.errstr = NewMessage(s, e)]
           u == [s EXCEPT !.errno_f = e]
<1>1. t = v \/ (s.errstr = "none" /\ t = u)
  BY DEF WithError
<1>2. IsSet(v)
  <2>1. NewMessage(s, e) = e
    BY DEF NewMessage
  <2>2. Recorded(s, e, [s EXCEPT !.errno_f = e, !.errstr = e])
    BY RecordWritten
  <2>3. QED
    BY <2>1, <2>2 DEF Recorded
<1>3. ASSUME s.errstr = "none" PROVE IsSet(u)
  BY <1>3, ErrnoWritten DEF Recorded
<1> HIDE DEF u, v
<1>4. QED
  BY <1>1, <1>2, <1>3

LEMMA HeldDestroyed ==
  ASSUME NEW s, IsSet(s), num_data(s) > 0, s.errstr \notin Errors
  PROVE  DestroyedHeld(s).lost = {} /\ DestroyedHeld(s).defined
<1> DEFINE ni == s.num_input
           no == s.num_output
           n == num_data(s)
<1>1. Range(Parts) = {"struct", "input", "output", "data_input", "data_output"}
  BY DEF Range, Parts
<1>2. s.input[1] = 0 /\ s.output[1] = 0
  <2>1. /\ <<ni, no>> \in Shapes /\ n \in Nat /\ n > 0
        /\ s.input = [i \in 1 .. n |-> (i - 1) * ni]
        /\ s.output = [i \in 1 .. n |-> (i - 1) * no]
    BY TrainDataAssumption DEF IsSet
  <2>2. ni \in Nat /\ no \in Nat
    BY <2>1, ShapeSizes
  <2> HIDE DEF ni, no, n
  <2>3. 1 \in 1 .. n /\ (1 - 1) * ni = 0 /\ (1 - 1) * no = 0
    BY <2>1, <2>2
  <2>4. QED
    BY <2>1, <2>3
<1>3. num_data(s) # 0
  BY TrainDataAssumption DEF IsSet
<1>4. QED
  BY <1>1, <1>2, <1>3 DEF DestroyedHeld, Destroyed, Freed

LEMMA MadeIsKept ==
  ASSUME NEW s, IsSet(s), s.errstr \notin Errors, NEW messages,
         NEW r \in Made(s, messages)
  PROVE  IsKept(r)
<1>1. \/ r = Outcome(s, {}, TRUE, num_data(s) = 0)
      \/ r.set = NULL /\ r.excused = TRUE
  BY DEF Made, Outcome
<1>2. CASE r = Outcome(s, {}, TRUE, num_data(s) = 0)
  <2>1. r.set = s /\ r.lost = {} /\ r.defined /\ (r.excused <=> num_data(s) = 0)
    BY <1>2 DEF Outcome
  <2>2. num_data(s) \in Nat
    BY TrainDataAssumption DEF IsSet
  <2>3. num_data(s) # 0 => num_data(s) > 0
    BY <2>2
  <2>4. QED
    BY <2>1, <2>3 DEF IsKept, IsHeld
<1>3. CASE r.set = NULL /\ r.excused = TRUE
  BY <1>3 DEF IsKept, IsHeld
<1>4. QED
  BY <1>1, <1>2, <1>3

----------------------------------------------------------------------------
(* Steps.                                                                  *)

LEMMA EndsKeeps ==
  ASSUME SetsInv, NEW sets, NEW l, NEW d \in BOOLEAN, NEW x \in BOOLEAN,
         Ends(sets, l, d, x),
         sets = [o \in Objects |-> sets[o]],
         \A o \in Objects : IsHeld(sets[o], excused \/ x),
         ~excused /\ ~x => l = {} /\ d
  PROVE  SetsInv'
<1>1. CASE pc' = "call" /\ train_data' = sets /\ lost' = lost \cup l
  <2>1. excused' = (excused \/ x)
    BY DEF Ends
  <2>2. \A o \in Objects : IsHeld(train_data[o], excused)'
    BY <1>1, <2>1
  <2>3. LossesExcused'
    BY <1>1, <2>1 DEF LossesExcused, SetsInv
  <2>4. (train_data = [o \in Objects |-> train_data[o]])'
    BY <1>1
  <2>5. QED
    BY <2>2, <2>3, <2>4 DEF SetsInv
<1>2. CASE ~d /\ pc' = "crashed" /\ UNCHANGED <<train_data, lost>>
  <2>1. excused' = TRUE
    BY <1>2 DEF Ends
  <2>2. QED
    BY <1>2, <2>1 DEF SetsInv, LossesExcused, IsHeld
<1>3. QED
  BY <1>1, <1>2 DEF Ends

(* An object that takes a set.                                             *)
LEMMA TakenKeeps ==
  ASSUME SetsInv, NEW o \in Objects, NEW s, NEW l, NEW d \in BOOLEAN, NEW x \in BOOLEAN,
         Ends([train_data EXCEPT ![o] = s], l, d, x),
         IsHeld(s, excused \/ x), ~excused /\ ~x => l = {} /\ d
  PROVE  SetsInv'
<1> DEFINE sets == [train_data EXCEPT ![o] = s]
<1>1. /\ train_data = [p \in Objects |-> train_data[p]]
      /\ \A p \in Objects : IsHeld(train_data[p], excused)
  BY DEF SetsInv
<1>2. sets = [p \in Objects |-> sets[p]] /\ sets[o] = s
      /\ \A p \in Objects : p # o => sets[p] = train_data[p]
  BY <1>1
<1> HIDE DEF sets
<1>3. \A p \in Objects : IsHeld(sets[p], excused \/ x)
  BY <1>1, <1>2 DEF IsHeld
<1>4. QED
  BY <1>2, <1>3, EndsKeeps DEF sets

LEMMA ReplacedKeeps ==
  ASSUME SetsInv, NEW o \in Objects, NEW r, IsKept(r), r.defined \in BOOLEAN,
         r.excused \in BOOLEAN, Replaced(o, r)
  PROVE  SetsInv'
<1> DEFINE before == DestroyedOf(o)
           l == before.lost \cup r.lost
           d == before.defined /\ r.defined
           x == r.excused
<1>1. Ends([train_data EXCEPT ![o] = r.set], l, d, x)
  BY DEF Replaced
<1>2. IsHeld(train_data[o], excused)
  BY DEF SetsInv
<1>3. ~excused => before.lost = {} /\ before.defined
  <2>1. CASE o \in Held
    <3>1. before = DestroyedHeld(train_data[o]) /\ train_data[o] # NULL
      BY <2>1 DEF DestroyedOf, Held
    <3>2. QED
      BY <1>2, <3>1, HeldDestroyed DEF IsHeld
  <2>2. CASE o \notin Held
    BY <2>2 DEF DestroyedOf
  <2>3. QED
    BY <2>1, <2>2
<1>4. d \in BOOLEAN /\ x \in BOOLEAN
  OBVIOUS
<1>5. ~excused /\ ~x => l = {} /\ d
  BY <1>3 DEF IsKept
<1>6. IsHeld(r.set, excused \/ x)
  BY DEF IsKept, IsHeld
<1> HIDE DEF l, d, x
<1>7. QED
  BY <1>1, <1>4, <1>5, <1>6, TakenKeeps

LEMMA ReportedKeeps ==
  ASSUME SetsInv, NEW o \in Held, NEW e \in Errors, NEW l, NEW d \in BOOLEAN,
         Reported(o, e, l, d)
  PROVE  SetsInv'
<1>1. o \in Objects /\ IsSet(train_data[o])
  BY DEF Held, SetsInv, IsHeld
<1>2. PICK s \in WithError(train_data[o], e) :
        Ends([train_data EXCEPT ![o] = s], l,
             d /\ train_data[o].errstr # "wild", TRUE)
  BY DEF Reported
<1> DEFINE c == (d /\ train_data[o].errstr # "wild")
<1>3. IsHeld(s, excused \/ TRUE)
  BY <1>1, ErrorsAreSets DEF IsHeld
<1>4. c \in BOOLEAN /\ TRUE \in BOOLEAN /\ Ends([train_data EXCEPT ![o] = s], l, c, TRUE)
  BY <1>2
<1>5. ~excused /\ ~TRUE => l = {} /\ c
  OBVIOUS
<1> HIDE DEF c
<1>6. QED
  BY <1>1, <1>3, <1>4, <1>5, TakenKeeps

LEMMA Crashes ==
  ASSUME SetsInv, pc' = "crashed", excused' = TRUE, UNCHANGED <<train_data, lost>>
  PROVE  SetsInv'
BY DEF SetsInv, LossesExcused, IsHeld

(* What is made of the rows of a set.                                      *)
LEMMA MadeDefined ==
  ASSUME NEW s, NEW messages, NEW r \in Made(s, messages)
  PROVE  /\ r.defined \in BOOLEAN /\ r.excused \in BOOLEAN
         /\ r.set = NULL \/ r.set = s
<1>1. CASE r = Outcome(s, {}, TRUE, num_data(s) = 0)
  BY <1>1 DEF Outcome
<1>2. CASE r = Outcome(NULL, messages, TRUE, TRUE)
  BY <1>2 DEF Outcome
<1>3. ASSUME NEW k \in 2 .. 5, NEW d, d = Destroyed(FirstParts(k - 1), FirstParts(k), {}),
             r = Outcome(NULL, d.lost \cup messages, d.defined, TRUE)
      PROVE  r.defined \in BOOLEAN /\ r.excused \in BOOLEAN /\ r.set = NULL
  <2>1. d.defined \in BOOLEAN
    BY <1>3 DEF Destroyed
  <2>2. QED
    BY <1>3, <2>1 DEF Outcome
<1>4. QED
  BY <1>1, <1>2, <1>3 DEF Made

----------------------------------------------------------------------------
(* Operations.                                                             *)

LEMMA CreateKeeps ==
  ASSUME DataInv, NEW o \in Objects, create_train_from_callback(o)
  PROVE  DataInv'
<1>1. PICK shape \in Shapes, rows \in SomeRows :
        \E r \in Made(Given(shape, rows), {"errstr"}) : Replaced(o, r)
  BY DEF create_train_from_callback
<1>2. PICK r \in Made(Given(shape, rows), {"errstr"}) : Replaced(o, r)
  BY <1>1
<1>3. IsSet(Given(shape, rows)) /\ Given(shape, rows).errstr \notin Errors
  BY GivenIsSet DEF Errors
<1>4. IsKept(r) /\ r.defined \in BOOLEAN /\ r.excused \in BOOLEAN
  BY <1>3, MadeIsKept, MadeDefined
<1>5. SetsInv'
  BY <1>2, <1>4, ReplacedKeeps DEF DataInv
<1>6. QED
  BY <1>5 DEF DataInv, create_train_from_callback

LEMMA SetKeeps ==
  ASSUME DataInv, NEW o \in Objects, set_train_data(o)
  PROVE  DataInv'
<1>1. PICK shape \in Shapes, rows \in SomeRows :
        \/ Replaced(o, Outcome([Given(shape, rows) EXCEPT !.errstr = "wild"],
                               {}, TRUE, rows = <<>>))
        \/ /\ AllocMayFail /\ pc' = "crashed" /\ excused' = TRUE
           /\ UNCHANGED <<train_data, lost>>
  BY DEF set_train_data
<1> DEFINE s == Given(shape, rows)
           t == [s EXCEPT !.errstr = "wild"]
           r == Outcome(t, {}, TRUE, rows = <<>>)
<1>2. CASE Replaced(o, r)
  <2>1. IsSet(s) /\ num_data(s) = Len(rows)
    BY GivenIsSet
  <2> HIDE DEF s
  <2>2. Recorded(s, "wild", t)
    BY <2>1, ErrstrWritten
  <2> HIDE DEF t
  <2>3. IsSet(t) /\ t.errstr \notin Errors /\ num_data(t) = Len(rows)
    BY <2>1, <2>2 DEF Recorded, Errors
  <2>4. rows # <<>> => Len(rows) > 0
    BY DEF SomeRows
  <2>5. r.set = t /\ r.lost = {} /\ r.defined = TRUE /\ r.excused = (rows = <<>>)
    BY DEF Outcome
  <2> HIDE DEF r
  <2>6. IsKept(r) /\ r.defined \in BOOLEAN /\ r.excused \in BOOLEAN
    BY <2>3, <2>4, <2>5 DEF IsKept, IsHeld
  <2>7. SetsInv'
    BY <1>2, <2>6, ReplacedKeeps DEF DataInv
  <2>8. QED
    BY <2>7 DEF DataInv, set_train_data
<1>3. CASE pc' = "crashed" /\ excused' = TRUE /\ UNCHANGED <<train_data, lost>>
  <2>1. SetsInv'
    BY <1>3, Crashes DEF DataInv
  <2>2. QED
    BY <2>1 DEF DataInv, set_train_data
<1>4. QED
  BY <1>1, <1>2, <1>3

LEMMA DestroyKeeps ==
  ASSUME DataInv, NEW o \in Objects, destroy_train(o)
  PROVE  DataInv'
<1> DEFINE r == Outcome(NULL, {}, TRUE, FALSE)
<1>1. r.set = NULL /\ r.lost = {} /\ r.defined = TRUE /\ r.excused = FALSE
  BY DEF Outcome
<1>2. Replaced(o, r)
  BY DEF destroy_train
<1> HIDE DEF r
<1>3. IsKept(r) /\ r.defined \in BOOLEAN /\ r.excused \in BOOLEAN
  BY <1>1 DEF IsKept, IsHeld
<1>4. SetsInv'
  BY <1>2, <1>3, ReplacedKeeps DEF DataInv
<1>5. QED
  BY <1>4 DEF DataInv, destroy_train

(* What an object holds.                                                   *)
LEMMA HeldIsSet ==
  ASSUME DataInv, NEW o \in Held
  PROVE  /\ o \in Objects /\ IsSet(train_data[o])
         /\ num_data(train_data[o]) \in Nat /\ num_data(train_data[o]) <= MaxData
         /\ <<train_data[o].num_input, train_data[o].num_output>> \in Shapes
<1>1. o \in Objects /\ IsSet(train_data[o])
  BY DEF Held, DataInv, SetsInv, IsHeld
<1>2. QED
  BY <1>1, TrainDataAssumption DEF IsSet

(* A new set of good blocks.                                               *)
LEMMA NewSet ==
  ASSUME NEW ni, NEW no, <<ni, no>> \in Shapes, NEW n \in 0 .. MaxData,
         NEW bi, NEW bo, GoodBlocks(ni, no, n, bi, bo)
  PROVE  IsSet(Rows(<<ni, no>>, n, bi, bo))
         /\ Rows(<<ni, no>>, n, bi, bo).errstr \notin Errors
BY RowsMakeASet DEF Errors

LEMMA CopyKeeps ==
  ASSUME DataInv, NEW o \in Objects, NEW from \in Objects, copy_training_data(o, from)
  PROVE  DataInv'
<1> DEFINE s == train_data[from]
           n == num_data(s)
           copy == Rows(<<s.num_input, s.num_output>>, n,
                        InputsFrom(s, 1, n), OutputsFrom(s, 1, n))
<1>1. from \in Held
  BY DEF copy_training_data
<1>2. CASE pc' = "crashed" /\ excused' = TRUE /\ UNCHANGED <<train_data, lost>>
  <2>1. SetsInv'
    BY <1>2, Crashes DEF DataInv
  <2>2. QED
    BY <2>1 DEF DataInv, copy_training_data
<1>3. ASSUME NEW r \in Made(copy, {}),
             IF r.set # NULL
             THEN Ends([train_data EXCEPT ![o] = r.set], {}, r.defined, r.excused)
             ELSE Reported(from, "CANT_ALLOCATE_MEM", r.lost, r.defined)
      PROVE  DataInv'
  <2>1. IsSet(copy) /\ copy.errstr \notin Errors
    <3>1. IsSet(s) /\ n \in Nat /\ n <= MaxData /\ <<s.num_input, s.num_output>> \in Shapes
      BY <1>1, HeldIsSet
    <3> HIDE DEF s
    <3>2. GoodBlocks(s.num_input, s.num_output, n,
                     InputsFrom(s, 1, n), OutputsFrom(s, 1, n))
      BY <3>1, WholeIsGood
    <3> HIDE DEF n
    <3>3. n \in 0 .. MaxData
      BY <3>1, TrainDataAssumption
    <3>4. QED
      BY <3>1, <3>2, <3>3, NewSet
  <2> HIDE DEF copy
  <2>2. IsKept(r) /\ r.defined \in BOOLEAN /\ r.excused \in BOOLEAN
    BY <2>1, MadeIsKept, MadeDefined
  <2>3. SetsInv'
    <3>1. CASE r.set # NULL
      <4>1. IsHeld(r.set, excused \/ r.excused) /\ (~r.excused => r.defined)
        BY <2>2 DEF IsKept, IsHeld
      <4>2. Ends([train_data EXCEPT ![o] = r.set], {}, r.defined, r.excused)
        BY <1>3, <3>1
      <4>3. QED
        BY <2>2, <4>1, <4>2, TakenKeeps DEF DataInv
    <3>2. CASE r.set = NULL
      <4>1. Reported(from, "CANT_ALLOCATE_MEM", r.lost, r.defined)
        BY <1>3, <3>2
      <4>2. "CANT_ALLOCATE_MEM" \in Errors
        BY DEF Errors
      <4>3. QED
        BY <1>1, <2>2, <4>1, <4>2, ReportedKeeps DEF DataInv
    <3>3. QED
      BY <3>1, <3>2
  <2>4. QED
    BY <2>3 DEF DataInv, copy_training_data
<1>4. QED
  BY <1>2, <1>3 DEF copy_training_data

LEMMA MergeKeeps ==
  ASSUME DataInv, NEW o \in Objects, NEW from \in Objects, merge_train_data(o, from)
  PROVE  DataInv'
<1> DEFINE s == train_data[o]
           t == train_data[from]
           n == num_data(s) + num_data(t)
           bi == InputsFrom(s, 1, num_data(s)) \o InputsFrom(t, 1, num_data(t))
           bo == OutputsFrom(s, 1, num_data(s)) \o OutputsFrom(t, 1, num_data(t))
           merged == Rows(<<s.num_input, s.num_output>>, n, bi, bo)
           differ == <<s.num_input, s.num_output>> # <<t.num_input, t.num_output>>
<1>1. o \in Held /\ from \in Held
  BY DEF merge_train_data
<1>2. CASE Reported(o, "TRAIN_DATA_MISMATCH", {"struct"}, TRUE)
  <2>1. "TRAIN_DATA_MISMATCH" \in Errors
    BY DEF Errors
  <2>2. SetsInv'
    BY <1>1, <1>2, <2>1, ReportedKeeps DEF DataInv
  <2>3. QED
    BY <2>2 DEF DataInv, merge_train_data
<1>3. ASSUME ~differ, n <= MaxData, NEW r \in Made(merged, {}),
             IF r.set # NULL THEN Replaced(o, r)
             ELSE Reported(o, "CANT_ALLOCATE_MEM", r.lost, r.defined)
      PROVE  DataInv'
  <2>1. IsSet(merged) /\ merged.errstr \notin Errors
    <3> DEFINE ni == s.num_input
               no == s.num_output
               p == num_data(s)
               q == num_data(t)
    <3>1. IsSet(s) /\ p \in Nat /\ <<ni, no>> \in Shapes
      BY <1>1, HeldIsSet
    <3>2. IsSet(t) /\ q \in Nat
      BY <1>1, HeldIsSet
    <3>3. t.num_input = ni /\ t.num_output = no
      BY <1>3
    <3>4. GoodBlocks(ni, no, p, InputsFrom(s, 1, p), OutputsFrom(s, 1, p))
      BY <3>1, WholeIsGood
    <3>5. GoodBlocks(ni, no, q, InputsFrom(t, 1, q), OutputsFrom(t, 1, q))
      BY <3>2, <3>3, WholeIsGood
    <3>6. ni \in Nat /\ no \in Nat
      BY <3>1, ShapeSizes
    <3>7. p + q <= MaxData
      BY <1>3
    <3>8. merged = Rows(<<ni, no>>, p + q, InputsFrom(s, 1, p) \o InputsFrom(t, 1, q),
                        OutputsFrom(s, 1, p) \o OutputsFrom(t, 1, q))
      OBVIOUS
    <3> HIDE DEF s, t, ni, no, p, q, merged
    <3>9. p + q \in 0 .. MaxData
      BY <3>1, <3>2, <3>7, TrainDataAssumption
    <3>10. GoodBlocks(ni, no, p + q, InputsFrom(s, 1, p) \o InputsFrom(t, 1, q),
                      OutputsFrom(s, 1, p) \o OutputsFrom(t, 1, q))
      BY <3>1, <3>2, <3>4, <3>5, <3>6, JoinedAreGood
    <3>11. QED
      BY <3>1, <3>8, <3>9, <3>10, NewSet
  <2> HIDE DEF merged
  <2>2. IsKept(r) /\ r.defined \in BOOLEAN /\ r.excused \in BOOLEAN
    BY <2>1, MadeIsKept, MadeDefined
  <2>3. SetsInv'
    <3>1. CASE r.set # NULL
      BY <1>3, <2>2, <3>1, ReplacedKeeps DEF DataInv
    <3>2. CASE r.set = NULL
      <4>1. Reported(o, "CANT_ALLOCATE_MEM", r.lost, r.defined)
        BY <1>3, <3>2
      <4>2. "CANT_ALLOCATE_MEM" \in Errors
        BY DEF Errors
      <4>3. QED
        BY <1>1, <2>2, <4>1, <4>2, ReportedKeeps DEF DataInv
    <3>3. QED
      BY <3>1, <3>2
  <2>4. QED
    BY <2>3 DEF DataInv, merge_train_data
<1>4. QED
  BY <1>2, <1>3 DEF merge_train_data

LEMMA ShuffleKeeps ==
  ASSUME DataInv, NEW o \in Objects, shuffle_train_data(o)
  PROVE  DataInv'
<1> DEFINE s == train_data[o]
           n == num_data(s)
<1>1. o \in Held /\ IsSet(s) /\ n \in Nat
  BY HeldIsSet DEF shuffle_train_data
<1>2. PICK swap \in [1 .. n -> 1 .. n] :
        Ends([train_data EXCEPT ![o] = Shuffled(s, swap, n)], {}, TRUE, FALSE)
  <2>1. train_data = [p \in Objects |-> train_data[p]]
    BY DEF DataInv, SetsInv
  <2>2. QED
    BY <2>1 DEF shuffle_train_data, Shuffled
<1> DEFINE t == Shuffled(s, swap, n)
<1>3. IsSet(t) /\ num_data(t) = n /\ t.errstr = s.errstr
  <2>1. t \in Rearranged(s)
    BY <1>1, ShuffleRearranges
  <2> HIDE DEF t
  <2>2. QED
    BY <1>1, <2>1, BlocksReplaced
<1>4. IsHeld(s, excused) /\ s # NULL
  BY <1>1, SetIsNotNull DEF DataInv, SetsInv
<1> HIDE DEF t
<1>5. IsHeld(t, excused \/ FALSE)
  BY <1>3, <1>4 DEF IsHeld
<1>6. Ends([train_data EXCEPT ![o] = t], {}, TRUE, FALSE)
  BY <1>2 DEF t
<1>7. TRUE \in BOOLEAN /\ FALSE \in BOOLEAN /\ SetsInv
  BY DEF DataInv
<1>8. SetsInv'
  BY <1>5, <1>6, <1>7, TakenKeeps
<1>9. QED
  BY <1>8 DEF DataInv, shuffle_train_data

LEMMA SubsetKeeps ==
  ASSUME DataInv, NEW o \in Objects, subset_train_data(o)
  PROVE  DataInv'
<1> DEFINE s == train_data[o]
           ni == s.num_input
           no == s.num_output
           part(pos, length) == Rows(<<ni, no>>, length, InputsFrom(s, pos + 1, length),
                                     OutputsFrom(s, pos + 1, length))
           Without(e, r) ==
             \E t \in WithError(s, e) :
               LET d == DestroyedHeld(t)
               IN Ends([train_data EXCEPT ![o] = NULL], r.lost \cup d.lost,
                       r.defined /\ d.defined /\ s.errstr # "wild", TRUE)
<1>1. /\ o \in Held /\ IsSet(s) /\ <<ni, no>> \in Shapes
      /\ num_data(s) \in Nat /\ num_data(s) <= MaxData
  BY HeldIsSet DEF subset_train_data
<1>2. ASSUME NEW e, NEW r, Without(e, r)
      PROVE  DataInv'
  <2>1. PICK t \in WithError(s, e) :
          Ends([train_data EXCEPT ![o] = NULL], r.lost \cup DestroyedHeld(t).lost,
               r.defined /\ DestroyedHeld(t).defined /\ s.errstr # "wild", TRUE)
    BY <1>2
  <2> DEFINE l == r.lost \cup DestroyedHeld(t).lost
             d == (r.defined /\ DestroyedHeld(t).defined /\ s.errstr # "wild")
  <2>2. d \in BOOLEAN /\ TRUE \in BOOLEAN /\ SetsInv
        /\ Ends([train_data EXCEPT ![o] = NULL], l, d, TRUE)
    BY <2>1 DEF DataInv
  <2>3. IsHeld(NULL, excused \/ TRUE) /\ (~excused /\ ~TRUE => l = {} /\ d)
    BY DEF IsHeld
  <2> HIDE DEF l, d
  <2>4. SetsInv'
    BY <2>2, <2>3, TakenKeeps
  <2>5. QED
    BY <2>4 DEF DataInv, subset_train_data
<1>3. ASSUME NEW pos \in 0 .. num_data(s) + 1, NEW length \in 0 .. MaxData,
             ~SubsetRefused(s, pos, length), NEW r \in Made(part(pos, length), {}),
             Replaced(o, r)
      PROVE  DataInv'
  <2>1. pos + length <= num_data(s)
    <3>1. /\ pos <= num_data(s) /\ (pos + length) % UIntModulus <= num_data(s)
          /\ (pos + length) % UIntModulus = pos + length
      <4>1. pos \in Nat /\ length \in Nat /\ length <= MaxData
        BY <1>1, TrainDataAssumption
      <4>2. ~(pos > num_data(s)) /\ ~((pos + length) % UIntModulus > num_data(s))
        BY <1>3 DEF SubsetRefused
      <4>3. pos <= num_data(s)
        BY <1>1, <4>1, <4>2
      <4>4. pos + length \in Nat /\ pos + length < UIntModulus /\ UIntModulus \in Nat
        BY <1>1, <4>1, <4>3, TrainDataAssumption
      <4>5. (pos + length) % UIntModulus = pos + length
        BY <4>4
      <4>6. QED
        BY <1>1, <4>2, <4>3, <4>4, <4>5
    <3>2. QED
      BY <3>1
  <2>2. pos \in Nat /\ length \in Nat
    BY <1>1, TrainDataAssumption
  <2> DEFINE t == part(pos, length)
  <2>3. IsSet(t) /\ t.errstr \notin Errors
    <3>1. GoodBlocks(ni, no, length, InputsFrom(s, pos + 1, length),
                     OutputsFrom(s, pos + 1, length))
      BY <1>1, <2>1, <2>2, PartIsGood
    <3> HIDE DEF s, ni, no
    <3>2. QED
      BY <1>1, <3>1, NewSet
  <2> HIDE DEF t
  <2>4. r \in Made(t, {})
    BY <1>3 DEF t
  <2>5. IsKept(r) /\ r.defined \in BOOLEAN /\ r.excused \in BOOLEAN
    BY <2>3, <2>4, MadeIsKept, MadeDefined
  <2>6. SetsInv'
    BY <1>3, <2>5, ReplacedKeeps DEF DataInv
  <2>7. QED
    BY <2>6 DEF DataInv, subset_train_data
<1>4. PICK pos \in 0 .. num_data(s) + 1, length \in 0 .. MaxData \cup {UIntModulus - 1} :
        IF SubsetRefused(s, pos, length)
        THEN Without("TRAIN_DATA_SUBSET", Outcome(NULL, {"struct"}, TRUE, TRUE))
        ELSE IF length > MaxData
        THEN Without("CANT_ALLOCATE_MEM", Outcome(NULL, {}, FALSE, TRUE))
        ELSE \E r \in Made(part(pos, length), {}) :
               IF r.set # NULL THEN Replaced(o, r) ELSE Without("CANT_ALLOCATE_MEM", r)
  BY DEF subset_train_data
<1> HIDE DEF Without, part
<1>5. CASE SubsetRefused(s, pos, length)
  BY <1>2, <1>4, <1>5
<1>6. CASE ~SubsetRefused(s, pos, length) /\ length > MaxData
  BY <1>2, <1>4, <1>6
<1>7. CASE ~SubsetRefused(s, pos, length) /\ ~(length > MaxData)
  <2>1. length \in 0 .. MaxData
    <3>1. UIntModulus - 1 \in Nat /\ MaxData \in Nat
      BY TrainDataAssumption
    <3>2. QED
      BY <1>7, <3>1
  <2>2. PICK r \in Made(part(pos, length), {}) :
          IF r.set # NULL THEN Replaced(o, r) ELSE Without("CANT_ALLOCATE_MEM", r)
    BY <1>4, <1>7
  <2>3. CASE r.set # NULL
    BY <1>3, <1>7, <2>1, <2>2, <2>3
  <2>4. CASE r.set = NULL
    BY <1>2, <2>2, <2>4
  <2>5. QED
    BY <2>3, <2>4
<1>8. QED
  BY <1>5, <1>6, <1>7

LEMMA SaveKeeps ==
  ASSUME DataInv, NEW o \in Objects, save_train(o)
  PROVE  DataInv'
<1> DEFINE s == train_data[o]
<1>1. o \in Held /\ IsSet(s)
  BY HeldIsSet DEF save_train
<1>2. CASE Reported(o, "CANT_OPEN_TD_W", {}, TRUE) /\ UNCHANGED file
  <2>1. "CANT_OPEN_TD_W" \in Errors /\ TRUE \in BOOLEAN
    BY DEF Errors
  <2>2. SetsInv'
    BY <1>1, <1>2, <2>1, ReportedKeeps DEF DataInv
  <2>3. QED
    BY <1>2, <2>2 DEF DataInv
<1>3. CASE file' = FileOf(s) /\ Ends(train_data, {}, TRUE, FALSE)
  <2>1. /\ train_data = [p \in Objects |-> train_data[p]]
        /\ \A p \in Objects : IsHeld(train_data[p], excused \/ FALSE)
    BY DEF DataInv, SetsInv, IsHeld
  <2>2. TRUE \in BOOLEAN /\ FALSE \in BOOLEAN /\ SetsInv
    BY DEF DataInv
  <2>3. SetsInv'
    BY <1>3, <2>1, <2>2, EndsKeeps
  <2>4. IsFile(FileOf(s))
    BY <1>1, SetIsWritten
  <2> HIDE DEF s
  <2>5. IsFile(file)'
    BY <1>3, <2>4
  <2>6. QED
    BY <2>3, <2>5 DEF DataInv
<1>4. QED
  BY <1>2, <1>3 DEF save_train, FileOf

LEMMA ReadKeeps ==
  ASSUME DataInv, NEW o \in Objects, read_train_from_file(o)
  PROVE  DataInv'
<1>1. PICK r \in NotRead \cup Made(FileRows, {"errstr"}) : Replaced(o, r)
  BY DEF read_train_from_file
<1>2. CASE r \in NotRead
  <2>1. r.set = NULL /\ r.excused = TRUE /\ r.defined \in BOOLEAN
    <3> DEFINE Lost(d) == Outcome(NULL, d.lost \cup {"errstr"}, d.defined, TRUE)
               Whole5 == Range(Parts)
    <3>1. \A a, b, c : Destroyed(a, b, c).defined \in BOOLEAN
      BY DEF Destroyed
    <3>2. ASSUME NEW a, NEW b, NEW c, r = Lost(Destroyed(a, b, c))
          PROVE  r.set = NULL /\ r.excused = TRUE /\ r.defined \in BOOLEAN
      BY <3>1, <3>2 DEF Outcome
    <3>3. CASE r = Outcome(NULL, {"errstr"}, TRUE, TRUE)
      BY <3>3 DEF Outcome
    <3> HIDE DEF Lost, Whole5
    <3>4. CASE r = Lost(Destroyed({"struct"}, {}, {}))
      BY <3>2, <3>4
    <3>5. ASSUME NEW t \in DOMAIN file.values,
                 r = Lost(Destroyed(Whole5, Whole5,
                            IF t <= file.shape[1] THEN {"data_input"}
                            ELSE {"data_input", "data_output"}))
          PROVE  r.set = NULL /\ r.excused = TRUE /\ r.defined \in BOOLEAN
      BY <3>2, <3>5
    <3>6. QED
      BY <1>2, <3>3, <3>4, <3>5 DEF NotRead, Lost, Whole5
  <2>2. IsKept(r)
    BY <2>1 DEF IsKept, IsHeld
  <2>3. SetsInv'
    BY <1>1, <2>1, <2>2, ReplacedKeeps DEF DataInv
  <2>4. QED
    BY <2>3 DEF DataInv, read_train_from_file
<1>3. CASE r \in Made(FileRows, {"errstr"})
  <2>1. IsFile(file)
    BY DEF DataInv, read_train_from_file
  <2>2. IsSet(FileRows) /\ FileRows.errstr \notin Errors
    BY <2>1, FileIsSet DEF Errors
  <2>3. IsKept(r) /\ r.defined \in BOOLEAN /\ r.excused \in BOOLEAN
    BY <1>3, <2>2, MadeIsKept, MadeDefined
  <2>4. SetsInv'
    BY <1>1, <2>3, ReplacedKeeps DEF DataInv
  <2>5. QED
    BY <2>4 DEF DataInv, read_train_from_file
<1>4. QED
  BY <1>1, <1>2, <1>3

(* The messages and numbers a caller takes or resets.                      *)
LEMMA ClearedKeeps ==
  ASSUME DataInv, NEW o \in Objects, NEW t, ErrorsCleared(o, t),
         Recorded(train_data[o], "none", t)
  PROVE  DataInv'
<1> DEFINE s == train_data[o]
           d == (s.errstr # "wild")
           x == (s.errstr = "wild")
<1>1. o \in Held /\ IsSet(s) /\ IsHeld(s, excused) /\ SetsInv
  BY HeldIsSet DEF ErrorsCleared, DataInv, SetsInv
<1>2. Ends([train_data EXCEPT ![o] = t], {}, d, x)
  BY DEF ErrorsCleared
<1>3. IsHeld(t, excused \/ x)
  <2>1. s # NULL
    BY <1>1, SetIsNotNull
  <2>2. QED
    BY <1>1, <2>1 DEF IsHeld, Recorded, Errors
<1>4. d \in BOOLEAN /\ x \in BOOLEAN /\ (~excused /\ ~x => d)
  OBVIOUS
<1> HIDE DEF d, x
<1>5. SetsInv'
  BY <1>1, <1>2, <1>3, <1>4, TakenKeeps
<1>6. QED
  BY <1>5 DEF DataInv, ErrorsCleared

LEMMA GetErrstrKeeps ==
  ASSUME DataInv, NEW o \in Objects, fann_get_errstr(o)
  PROVE  DataInv'
<1> DEFINE s == train_data[o]
           t == [s EXCEPT !.errno_f = "NO_ERROR", !.errstr = "none"]
<1>1. IsSet(s)
  BY HeldIsSet DEF fann_get_errstr, ErrorsCleared
<1>2. ErrorsCleared(o, t)
  BY DEF fann_get_errstr
<1>3. "NO_ERROR" \in Errors /\ "none" \in Errors \cup {"none", "wild"}
  BY DEF Errors
<1>4. Recorded(s, "none", t)
  BY <1>1, <1>3, RecordWritten
<1> HIDE DEF t
<1>5. QED
  BY <1>2, <1>4, ClearedKeeps

LEMMA ResetErrstrKeeps ==
  ASSUME DataInv, NEW o \in Objects, fann_reset_errstr(o)
  PROVE  DataInv'
<1> DEFINE s == train_data[o]
           t == [s EXCEPT !.errstr = "none"]
<1>1. IsSet(s)
  BY HeldIsSet DEF fann_reset_errstr, ErrorsCleared
<1>2. ErrorsCleared(o, t)
  BY DEF fann_reset_errstr
<1>3. Recorded(s, "none", t)
  BY <1>1, ErrstrWritten
<1> HIDE DEF t
<1>4. QED
  BY <1>2, <1>3, ClearedKeeps

LEMMA ResetErrnoKeeps ==
  ASSUME DataInv, NEW o \in Objects, fann_reset_errno(o)
  PROVE  DataInv'
<1> DEFINE s == train_data[o]
           t == [s EXCEPT !.errno_f = "NO_ERROR"]
<1>1. IsSet(s) /\ IsHeld(s, excused) /\ SetsInv
  BY HeldIsSet DEF fann_reset_errno, DataInv, SetsInv
<1>2. Ends([train_data EXCEPT ![o] = t], {}, TRUE, FALSE)
  BY DEF fann_reset_errno
<1>3. Recorded(s, s.errstr, t)
  <2>1. "NO_ERROR" \in Errors
    BY DEF Errors
  <2>2. QED
    BY <1>1, <2>1, ErrnoWritten
<1> HIDE DEF t
<1>4. IsHeld(t, excused \/ FALSE)
  <2>1. s # NULL
    BY <1>1, SetIsNotNull
  <2>2. QED
    BY <1>1, <1>3, <2>1 DEF IsHeld, Recorded
<1>5. TRUE \in BOOLEAN /\ FALSE \in BOOLEAN
  OBVIOUS
<1>6. SetsInv'
  BY <1>1, <1>2, <1>4, <1>5, TakenKeeps
<1>7. QED
  BY <1>6 DEF DataInv, fann_reset_errno

LEMMA RestartKeeps ==
  ASSUME DataInv, Restart
  PROVE  DataInv'
BY DEF DataInv, SetsInv, IsHeld, LossesExcused, Restart

(* The steps of the specification keep the invariant.                      *)
THEOREM DataInvariant == Spec => []DataInv
<1>1. Init => DataInv
  BY DEF Init, DataInv, SetsInv, IsHeld, LossesExcused
<1>2. DataInv /\ [Next]_vars => DataInv'
  <2> SUFFICES ASSUME DataInv, [Next]_vars PROVE DataInv'
    OBVIOUS
  <2>1. ASSUME NEW o \in Objects,
               \/ create_train_from_callback(o) \/ set_train_data(o) \/ destroy_train(o)
               \/ subset_train_data(o) \/ shuffle_train_data(o)
        PROVE  DataInv'
    BY <2>1, CreateKeeps, SetKeeps, DestroyKeeps, SubsetKeeps, ShuffleKeeps
  <2>2. ASSUME NEW o \in Objects,
               \/ save_train(o) \/ read_train_from_file(o)
               \/ fann_get_errstr(o) \/ fann_reset_errno(o) \/ fann_reset_errstr(o)
        PROVE  DataInv'
    BY <2>2, SaveKeeps, ReadKeeps, GetErrstrKeeps, ResetErrnoKeeps, ResetErrstrKeeps
  <2>3. ASSUME NEW o \in Objects, NEW from \in Objects,
               copy_training_data(o, from) \/ merge_train_data(o, from)
        PROVE  DataInv'
    BY <2>3, CopyKeeps, MergeKeeps
  <2>4. CASE UNCHANGED vars
    BY <2>4 DEF vars, DataInv, SetsInv, LossesExcused
  <2>5. QED
    BY <2>1, <2>2, <2>3, <2>4, RestartKeeps DEF Next
<1>3. QED
  BY <1>1, <1>2, PTL DEF Spec

----------------------------------------------------------------------------
(* What it says.                                                           *)

(* Memory is lost, and a call undefined, only in a program that has met an *)
(* exception (fann_destroy_train, fann_error).                             *)
THEOREM LossesAreExcused == Spec => []LossesExcused
<1>1. DataInv => LossesExcused
  BY DEF DataInv, SetsInv
<1>2. QED
  BY <1>1, DataInvariant, PTL

(* A message never tells of another error than the number it is printed    *)
(* with (fann_error, fann_print_error).                                    *)
THEOREM MessagesMatch == Spec => []MessageMatchesNumber
<1>1. DataInv => MessageMatchesNumber
  <2> SUFFICES ASSUME DataInv, NEW o \in Held PROVE MessageFits(train_data[o])
    BY DEF MessageMatchesNumber, MessageFits
  <2>1. QED
    BY HeldIsSet DEF IsSet
<1>2. QED
  BY <1>1, DataInvariant, PTL

(* Every row is one of the examples, inputs and outputs together, whatever *)
(* it was copied, merged, cut, shuffled, written and read through.         *)
THEOREM ExamplesStay == Spec => []RowsAreExamples
<1>1. DataInv => RowsAreExamples
  <2> SUFFICES ASSUME DataInv, NEW o \in Held, NEW i \in 1 .. num_data(train_data[o])
               PROVE  \E e \in DOMAIN Examples :
                        LET s == train_data[o]
                            given == SubSeq(Examples[e].input, 1, s.num_input)
                                       \o SubSeq(Examples[e].output, 1, s.num_output)
                        IN \A k \in DOMAIN Row(s, i) : IsOf(Row(s, i)[k], given[k])
    BY DEF RowsAreExamples
  <2> DEFINE s == train_data[o]
             ni == s.num_input
             no == s.num_output
             r == Row(s, i)
  <2>1. IsSet(s) /\ <<ni, no>> \in Shapes
    BY HeldIsSet
  <2>2. /\ r \in Seq(Int) /\ Len(r) = ni + no
        /\ RowIsExample(ni, no, r, 0, r, ni)
    BY <2>1, RowOfSet
  <2>3. ni \in Nat /\ no \in Nat
    BY <2>1, ShapeSizes
  <2> HIDE DEF ni, no, r, s
  <2>4. PICK e \in DOMAIN Examples :
          /\ \A k \in 1 .. ni : Fits(r[0 + k], Examples[e].input[k])
          /\ \A k \in 1 .. no : Fits(r[ni + k], Examples[e].output[k])
    BY <2>2 DEF RowIsExample
  <2> DEFINE x == Examples[e].input
             y == Examples[e].output
             a == SubSeq(x, 1, ni)
             b == SubSeq(y, 1, no)
             given == a \o b
  <2>5. x \in Seq(Int) /\ y \in Seq(Int) /\ ni <= Len(x) /\ no <= Len(y)
    BY <2>1, ExampleValues
  <2> HIDE DEF x, y
  <2>6. PartOf(x, 0, ni, a) /\ PartOf(y, 0, no, b)
    <3>1. 0 + 1 = 1 /\ 0 + ni = ni /\ 0 + no = no
      BY <2>3
    <3>2. PartOf(x, 0, ni, SubSeq(x, 0 + 1, 0 + ni))
          /\ PartOf(y, 0, no, SubSeq(y, 0 + 1, 0 + no))
      BY <2>3, <2>5, <3>1, PartTaken
    <3>3. QED
      BY <3>1, <3>2
  <2> HIDE DEF a, b
  <2>7. \A k \in 1 .. ni + no : given[k] = IF k <= ni THEN a[k] ELSE b[k - ni]
    <3>1. /\ a \in Seq(Int) /\ Len(a) = ni /\ b \in Seq(Int) /\ Len(b) = no
      BY <2>6 DEF PartOf
    <3>2. \A k \in 1 .. Len(a) + Len(b) :
            (a \o b)[k] = IF k <= Len(a) THEN a[k] ELSE b[k - Len(a)]
      BY <3>1, ConcatProperties
    <3>3. QED
      BY <3>1, <3>2
  <2> HIDE DEF given
  <2>8. ASSUME NEW k \in DOMAIN r PROVE IsOf(r[k], given[k])
    <3>1. k \in 1 .. ni + no
      BY <2>2, LenProperties
    <3>2. Fits(r[k], given[k])
      <4>1. CASE k <= ni
        <5>1. k \in 1 .. ni /\ 0 + k = k
          BY <2>3, <3>1, <4>1
        <5>2. given[k] = x[k]
          BY <2>6, <2>7, <3>1, <4>1, <5>1 DEF PartOf
        <5>3. QED
          BY <2>4, <5>1, <5>2 DEF x
      <4>2. CASE ~(k <= ni)
        <5> DEFINE j == k - ni
        <5>1. j \in 1 .. no /\ ni + j = k /\ 0 + j = j
          BY <2>3, <3>1, <4>2
        <5>2. given[k] = b[j]
          BY <2>7, <3>1, <4>2
        <5> HIDE DEF j
        <5>3. b[j] = y[j]
          BY <2>6, <5>1 DEF PartOf
        <5>4. QED
          BY <2>4, <5>1, <5>2, <5>3 DEF y
      <4>3. QED
        BY <4>1, <4>2
    <3>3. QED
      BY <3>2 DEF Fits, IsOf
  <2>9. QED
    BY <2>8 DEF s, r, ni, no, given, a, b, x, y
<1>2. QED
  BY <1>1, DataInvariant, PTL
=============================================================================
