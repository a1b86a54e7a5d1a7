--------------------------- MODULE ScalingProofs ---------------------------
(***************************************************************************)
(* Proofs about Scaling, for data of every length and all numbers and      *)
(* ranges: descaling undoes scaling, data is spread over the range it was  *)
(* fitted to, and a set that is scaled to a range reaches both its ends.   *)
(***************************************************************************)
EXTENDS Scaling, DataInduction

-----------------------------------------------------------------------------
(* Numbers                                                                 *)

(* What is known of products.                                              *)
LEMMA Products ==
  /\ \A a, b \in Int : a * b \in Int /\ a * b = b * a
  /\ \A a, b, c \in Int : (a * b) * c = a * (b * c)
  /\ \A a, b, c \in Int : (a + b) * c = a * c + b * c /\ (a - b) * c = a * c - b * c
  /\ \A a \in Int, b \in Int : a # 0 /\ b # 0 => a * b # 0
  /\ \A a \in Int, b \in Int : a > 0 /\ b > 0 => a * b > 0
BY SMT

(* A factor that is not zero can be left out.                              *)
LEMMA Cancel ==
  ASSUME NEW a \in Int, NEW b \in Int, NEW c \in Int, c # 0, a * c = b * c
  PROVE  a = b
<1>1. (a - b) * c = 0 /\ a - b \in Int
  BY SMT
<1>2. a - b = 0
  BY <1>1, Products
<1>3. QED
  BY <1>2

(* A remainder is zero if a number is a multiple, and the quotient is the  *)
(* multiple.                                                               *)
LEMMA Multiples ==
  ASSUME NEW a \in Int, NEW b \in Int, b > 0
  PROVE  /\ a % b = 0 => a \div b \in Int /\ a = (a \div b) * b
         /\ \A k \in Int : a = k * b => a % b = 0 /\ a \div b = k
<1> DEFINE q == a \div b
           r == a % b
<1>1. q \in Int /\ r \in Int /\ 0 <= r /\ r < b /\ a = b * q + r
  BY SMT
<1> HIDE DEF q, r
<1>2. b * q = q * b /\ q * b \in Int
  BY <1>1, Products
<1>3. r = 0 => a = q * b
  BY <1>1, <1>2
<1>4. ASSUME NEW k \in Int, a = k * b
      PROVE  r = 0 /\ q = k
  <2>1. r = (k - q) * b /\ k - q \in Int
    <3>1. (k - q) * b = k * b - q * b /\ k * b \in Int
      BY <1>1, Products
    <3>2. QED
      BY <1>1, <1>2, <1>4, <3>1
  <2>2. k - q = 0
    <3>1. \A x \in Int : x >= 1 => x * b >= b
      BY SMT
    <3>2. \A x \in Int : x <= -1 => x * b <= -b
      BY SMT
    <3>3. ~(k - q >= 1) /\ ~(k - q <= -1)
      BY <1>1, <2>1, <3>1, <3>2
    <3>4. QED
      BY <2>1, <3>3
  <2>3. 0 * b = 0
    BY SMT
  <2>4. QED
    BY <1>1, <2>1, <2>2, <2>3
<1>5. QED
  BY <1>1, <1>3, <1>4 DEF q, r

(* Reduced: a number of the same value, with the least denominator.        *)
LEMMA LowestTerms ==
  ASSUME NEW n \in Int, NEW d \in Int, d # 0
  PROVE  /\ Reduced(n, d) \in Int \X Int /\ Reduced(n, d)[2] > 0
         /\ Reduced(n, d)[1] * d = n * Reduced(n, d)[2]
         /\ \A m \in Int, e \in Int : e > 0 /\ m * d = n * e => Reduced(n, d)[2] <= e
<1> DEFINE size == Abs(d)
           S == {e \in 1 .. size : (n * e) % size = 0}
           least == Min(S)
           N == IF d < 0 THEN -n ELSE n
<1>1. /\ size \in Int /\ size > 0 /\ N \in Int
      /\ (size = d /\ N = n) \/ (size = -d /\ N = -n)
  BY DEF Abs
<1>2. Reduced(n, d) = <<(N * least) \div size, least>>
  BY DEF Reduced
<1> HIDE DEF size, N
<1>3. size \in S
  <2>1. n * size \in Int /\ (n * size) % size = 0
    BY <1>1, Products, Multiples
  <2>2. QED
    BY <1>1, <2>1
<1>4. least \in S /\ \A e \in S : least <= e
  <2>1. S \in SUBSET Nat /\ S # {}
    <3>1. S \subseteq 1 .. size
      BY Zenon
    <3> HIDE DEF S
    <3>2. QED
      BY <1>1, <1>3, <3>1
  <2>2. \E x \in S : \A y \in S : x <= y
    <3> HIDE DEF S
    <3>1. QED
      BY <2>1, LeastNumber
  <2> HIDE DEF S
  <2>3. QED
    BY <2>2 DEF Min
<1> HIDE DEF least
<1>5. least \in Int /\ least > 0 /\ (n * least) % size = 0 /\ n * least \in Int
  BY <1>1, <1>4, Products
<1> DEFINE q == (N * least) \div size
<1>6. (N * least) % size = 0 /\ N * least \in Int
  <2> DEFINE k == (n * least) \div size
  <2>1. k \in Int /\ n * least = k * size
    BY <1>1, <1>5, Multiples
  <2> HIDE DEF k
  <2>2. (-n) * least = (-k) * size /\ -k \in Int /\ (-n) * least \in Int
    <3>1. \A x, y \in Int : (-x) * y = -(x * y)
      BY SMT
    <3>2. QED
      BY <1>1, <1>5, <2>1, <3>1
  <2>3. QED
    BY <1>1, <1>5, <2>2, Multiples
<1>7. q \in Int /\ N * least = q * size
  BY <1>1, <1>6, Multiples
<1> HIDE DEF q
<1>8. q * d = n * least
  <2>1. \A x, y \in Int : (-x) * y = -(x * y) /\ x * (-y) = -(x * y)
    BY SMT
  <2>2. q * d \in Int
    BY <1>7, Products
  <2>3. QED
    BY <1>1, <1>5, <1>7, <2>1, <2>2
<1>9. ASSUME NEW m \in Int, NEW e \in Int, e > 0, m * d = n * e
      PROVE  least <= e
  <2>1. CASE e <= size
    <3>1. n * e = m * size \/ n * e = (-m) * size
      <4>1. m * (-d) = -(m * d) /\ (-m) * (-d) = m * d /\ m * d \in Int
        BY SMT
      <4>2. QED
        BY <1>1, <1>9, <4>1
    <3>2. (n * e) % size = 0
      <4>1. n * e \in Int /\ -m \in Int
        BY <1>9, Products
      <4>2. QED
        BY <1>1, <3>1, <4>1, Multiples
    <3>3. e \in S
      BY <1>1, <1>9, <2>1, <3>2
    <3>4. QED
      BY <1>4, <3>3
  <2>2. CASE e > size
    BY <1>1, <1>3, <1>4, <1>5, <1>9, <2>2
  <2>3. QED
    BY <1>1, <1>9, <2>1, <2>2
<1>10. QED
  BY <1>2, <1>5, <1>7, <1>8, <1>9 DEF q


(* The numbers there are: everything in lowest terms.                      *)
Rat == {Reduced(n, d) : n \in Int, d \in Int \ {0}}

(* x is n divided by d.                                                    *)
Equals(x, n, d) ==
  x \in Rat /\ n \in Int /\ d \in Int /\ d # 0 /\ x[1] * d = n * x[2]

(* A number is in lowest terms.                                            *)
LEMMA RatIs ==
  ASSUME NEW x \in Rat
  PROVE  /\ x = <<x[1], x[2]>> /\ x[1] \in Int /\ x[2] \in Int /\ x[2] > 0
         /\ Equals(x, x[1], x[2])
         /\ \A m \in Int, e \in Int : e > 0 /\ m * x[2] = x[1] * e => x[2] <= e
<1>1. PICK n \in Int, d \in Int : d # 0 /\ x = Reduced(n, d)
  BY DEF Rat
<1>2. /\ x \in Int \X Int /\ x[2] > 0 /\ x[1] * d = n * x[2]
      /\ \A m \in Int, e \in Int : e > 0 /\ m * d = n * e => x[2] <= e
  <2>1. /\ Reduced(n, d) \in Int \X Int /\ Reduced(n, d)[2] > 0
        /\ Reduced(n, d)[1] * d = n * Reduced(n, d)[2]
        /\ \A m \in Int, e \in Int : e > 0 /\ m * d = n * e => Reduced(n, d)[2] <= e
    BY <1>1, LowestTerms
  <2>2. QED
    BY <1>1, <2>1, Zenon
<1>3. ASSUME NEW m \in Int, NEW e \in Int, e > 0, m * x[2] = x[1] * e
      PROVE  x[2] <= e
  <2> DEFINE a == x[1]
             b == x[2]
  <2>1. a \in Int /\ b \in Int /\ b # 0 /\ a * d = n * b /\ m * b = a * e
    BY <1>2, <1>3
  <2> HIDE DEF a, b
  <2>2. (m * d) * b = (n * e) * b
    <3>1. (m * d) * b = (m * b) * d
      BY <2>1, SMT
    <3>2. (m * b) * d = (a * d) * e
      BY <2>1, SMT
    <3>3. (a * d) * e = (n * e) * b
      BY <2>1, SMT
    <3>4. QED
      BY <3>1, <3>2, <3>3
  <2>3. m * d \in Int /\ n * e \in Int
    BY Products
  <2>4. m * d = n * e
    BY <2>1, <2>2, <2>3, Cancel
  <2>5. QED
    BY <1>2, <1>3, <2>4
<1>4. QED
  BY <1>2, <1>3 DEF Equals

(* Reducing a fraction does not change what it is.                         *)
LEMMA ReducedIs ==
  ASSUME NEW n \in Int, NEW d \in Int, d # 0
  PROVE  Equals(Reduced(n, d), n, d)
BY LowestTerms DEF Equals, Rat

(* Numbers of the same value are the same.                                 *)
LEMMA SameNumber ==
  ASSUME NEW x, NEW n, NEW d, Equals(x, n, d),
         NEW y, NEW m, NEW e, Equals(y, m, e), n * e = m * d
  PROVE  x = y
<1> DEFINE a == x[1]
           b == x[2]
           p == y[1]
           q == y[2]
<1>1. /\ a \in Int /\ b \in Int /\ b > 0 /\ p \in Int /\ q \in Int /\ q > 0
      /\ n \in Int /\ d \in Int /\ d # 0 /\ m \in Int /\ e \in Int /\ e # 0
      /\ a * d = n * b /\ p * e = m * q
      /\ x = <<a, b>> /\ y = <<p, q>>
  BY RatIs DEF Equals
<1>2. /\ \A k \in Int, l \in Int : l > 0 /\ k * b = a * l => b <= l
      /\ \A k \in Int, l \in Int : l > 0 /\ k * q = p * l => q <= l
  BY RatIs DEF Equals
<1> HIDE DEF a, b, p, q
<1>3. p * b = a * q
  <2>1. (p * b) * (d * e) = (a * q) * (d * e)
    <3>1. (p * b) * (d * e) = (p * e) * (b * d)
      BY <1>1, SMT
    <3>2. (p * e) * (b * d) = (m * d) * (q * b)
      BY <1>1, SMT
    <3>3. (m * d) * (q * b) = (n * b) * (q * e)
      BY <1>1, SMT
    <3>4. (n * b) * (q * e) = (a * q) * (d * e)
      BY <1>1, SMT
    <3>5. QED
      BY <3>1, <3>2, <3>3, <3>4
  <2>2. p * b \in Int /\ a * q \in Int /\ d * e \in Int /\ d * e # 0
    BY <1>1, Products
  <2>3. QED
    BY <2>1, <2>2, Cancel
<1>4. b = q
  <2>1. b <= q
    BY <1>1, <1>2, <1>3
  <2>2. q <= b
    BY <1>1, <1>2, <1>3
  <2>3. QED
    BY <1>1, <2>1, <2>2
<1>5. a = p
  BY <1>1, <1>3, <1>4, Cancel
<1>6. QED
  BY <1>1, <1>4, <1>5

(* A number is every fraction with the same cross products.                *)
LEMMA EqualsToo ==
  ASSUME NEW x, NEW n, NEW d, Equals(x, n, d),
         NEW m \in Int, NEW e \in Int, e # 0, n * e = m * d
  PROVE  Equals(x, m, e)
<1> DEFINE a == x[1]
           b == x[2]
<1>1. /\ a \in Int /\ b \in Int /\ n \in Int /\ d \in Int /\ d # 0 /\ a * d = n * b
      /\ x \in Rat
  BY RatIs DEF Equals
<1>2. a * e = m * b
  <2> HIDE DEF a, b
  <2>1. (a * e) * d = (m * b) * d
    <3>1. (a * e) * d = (a * d) * e
      BY <1>1, SMT
    <3>2. (n * b) * e = (n * e) * b
      BY <1>1, SMT
    <3>3. (m * d) * b = (m * b) * d
      BY <1>1, SMT
    <3>4. QED
      BY <1>1, <3>1, <3>2, <3>3
  <2>2. a * e \in Int /\ m * b \in Int
    BY <1>1, Products
  <2>3. QED
    BY <1>1, <2>1, <2>2, Cancel
<1>3. QED
  BY <1>1, <1>2 DEF Equals

(* What the operations do, whatever terms their numbers are given in.      *)
LEMMA AddIs ==
  ASSUME NEW x, NEW n, NEW d, Equals(x, n, d), NEW y, NEW m, NEW e, Equals(y, m, e)
  PROVE  Equals(Add(x, y), n * e + m * d, d * e)
<1> DEFINE a == x[1]
           b == x[2]
           p == y[1]
           q == y[2]
<1>1. /\ a \in Int /\ b \in Int /\ b > 0 /\ p \in Int /\ q \in Int /\ q > 0
      /\ n \in Int /\ d \in Int /\ d # 0 /\ m \in Int /\ e \in Int /\ e # 0
      /\ a * d = n * b /\ p * e = m * q
  BY RatIs DEF Equals
<1>2. Add(x, y) = Reduced(a * q + p * b, b * q)
  BY DEF Add
<1> HIDE DEF a, b, p, q
<1>3. /\ a * q + p * b \in Int /\ b * q \in Int /\ b * q # 0
      /\ n * e + m * d \in Int /\ d * e \in Int /\ d * e # 0
  <2>1. /\ a * q \in Int /\ p * b \in Int /\ n * e \in Int /\ m * d \in Int
    BY <1>1, Products
  <2>2. QED
    BY <1>1, <2>1, Products
<1>4. (a * q + p * b) * (d * e) = (n * e + m * d) * (b * q)
  <2>1. (a * q + p * b) * (d * e) = (a * d) * (q * e) + (p * e) * (b * d)
    BY <1>1, SMT
  <2>2. (n * b) * (q * e) + (m * q) * (b * d) = (n * e + m * d) * (b * q)
    BY <1>1, SMT
  <2>3. QED
    BY <1>1, <2>1, <2>2
<1>5. Equals(Reduced(a * q + p * b, b * q), a * q + p * b, b * q)
  BY <1>3, ReducedIs
<1>6. QED
  BY <1>2, <1>3, <1>4, <1>5, EqualsToo

(* The product of two fractions.                                           *)
LEMMA MulIs ==
  ASSUME NEW x, NEW n, NEW d, Equals(x, n, d), NEW y, NEW m, NEW e, Equals(y, m, e)
  PROVE  Equals(Mul(x, y), n * m, d * e)
<1> DEFINE a == x[1]
           b == x[2]
           p == y[1]
           q == y[2]
<1>1. /\ a \in Int /\ b \in Int /\ b > 0 /\ p \in Int /\ q \in Int /\ q > 0
      /\ n \in Int /\ d \in Int /\ d # 0 /\ m \in Int /\ e \in Int /\ e # 0
      /\ a * d = n * b /\ p * e = m * q
  BY RatIs DEF Equals
<1>2. Mul(x, y) = Reduced(a * p, b * q)
  BY DEF Mul
<1> HIDE DEF a, b, p, q
<1>3. /\ a * p \in Int /\ b * q \in Int /\ b * q # 0
      /\ n * m \in Int /\ d * e \in Int /\ d * e # 0
  BY <1>1, Products
<1>4. (a * p) * (d * e) = (n * m) * (b * q)
  <2>1. (a * p) * (d * e) = (a * d) * (p * e)
    BY <1>1, SMT
  <2>2. (n * b) * (m * q) = (n * m) * (b * q)
    BY <1>1, SMT
  <2>3. QED
    BY <1>1, <2>1, <2>2
<1>5. Equals(Reduced(a * p, b * q), a * p, b * q)
  BY <1>3, ReducedIs
<1>6. QED
  BY <1>2, <1>3, <1>4, <1>5, EqualsToo

(* The quotient of two fractions.                                          *)
LEMMA DivIs ==
  ASSUME NEW x, NEW n, NEW d, Equals(x, n, d), NEW y, NEW m, NEW e, Equals(y, m, e), m # 0
  PROVE  Equals(Div(x, y), n * e, d * m)
<1> DEFINE a == x[1]
           b == x[2]
           p == y[1]
           q == y[2]
<1>1. /\ a \in Int /\ b \in Int /\ b > 0 /\ p \in Int /\ q \in Int /\ q > 0
      /\ n \in Int /\ d \in Int /\ d # 0 /\ m \in Int /\ e \in Int /\ e # 0
      /\ a * d = n * b /\ p * e = m * q
  BY RatIs DEF Equals
<1>2. p # 0
  <2>1. m * q # 0 /\ 0 * e = 0
    BY <1>1, Products
  <2>2. QED
    BY <1>1, <2>1
<1>3. Div(x, y) = Reduced(a * q, b * p)
  BY <1>2 DEF Div
<1> HIDE DEF a, b, p, q
<1>4. /\ a * q \in Int /\ b * p \in Int /\ b * p # 0
      /\ n * e \in Int /\ d * m \in Int /\ d * m # 0
  BY <1>1, <1>2, Products
<1>5. (a * q) * (d * m) = (n * e) * (b * p)
  <2>1. (a * q) * (d * m) = (a * d) * (m * q)
    BY <1>1, SMT
  <2>2. (n * b) * (p * e) = (n * e) * (b * p)
    BY <1>1, SMT
  <2>3. QED
    BY <1>1, <2>1, <2>2
<1>6. Equals(Reduced(a * q, b * p), a * q, b * p)
  BY <1>4, ReducedIs
<1>7. QED
  BY <1>3, <1>4, <1>5, <1>6, EqualsToo

(* The opposite of a fraction; it is in lowest terms too.                  *)
LEMMA MinusIs ==
  ASSUME NEW x, NEW n, NEW d, Equals(x, n, d)
  PROVE  Equals(Minus(x), -n, d)
<1> DEFINE a == x[1]
           b == x[2]
           r == Reduced(-a, b)
<1>1. /\ a \in Int /\ b \in Int /\ b > 0 /\ n \in Int /\ d \in Int /\ d # 0
      /\ a * d = n * b /\ x \in Rat
  BY RatIs DEF Equals
<1>2. /\ r \in Rat /\ r = <<r[1], r[2]>> /\ r[1] \in Int /\ r[2] \in Int /\ r[2] > 0
      /\ r[1] * b = (-a) * r[2]
      /\ \A m \in Int, e \in Int : e > 0 /\ m * b = (-a) * e => r[2] <= e
  <2> HIDE DEF a, b
  <2>1. -a \in Int /\ b # 0
    BY <1>1
  <2>2. Equals(r, -a, b) /\ \A m \in Int, e \in Int : e > 0 /\ m * b = (-a) * e => r[2] <= e
    BY <1>1, <2>1, ReducedIs, LowestTerms
  <2> HIDE DEF r
  <2>3. r \in Rat /\ r[1] * b = (-a) * r[2]
    BY <2>2 DEF Equals
  <2>4. QED
    BY <2>2, <2>3, RatIs
<1>3. \A m \in Int, e \in Int : e > 0 /\ m * b = a * e => b <= e
  BY <1>1, RatIs
<1>4. Minus(x) = <<-a, b>>
  BY DEF Minus
<1> DEFINE p == r[1]
           q == r[2]
<1>5. /\ p \in Int /\ q \in Int /\ q > 0 /\ p * b = (-a) * q /\ r = <<p, q>> /\ r \in Rat
      /\ \A m \in Int, e \in Int : e > 0 /\ m * b = (-a) * e => q <= e
  BY <1>2
<1> HIDE DEF a, b, r, p, q
<1>6. \A u, v \in Int : (-u) * v = -(u * v) /\ u * v \in Int
  BY SMT
<1>7. q = b
  <2>1. (-p) * b = a * q /\ -p \in Int
    BY <1>1, <1>5, <1>6
  <2>2. b <= q
    BY <1>3, <1>5, <2>1
  <2>3. q <= b
    <3>1. -a \in Int /\ (-a) * b = (-a) * b
      BY <1>1
    <3>2. QED
      BY <1>1, <1>5, <3>1
  <2>4. QED
    BY <1>1, <1>5, <2>2, <2>3
<1>8. p = -a
  BY <1>1, <1>5, <1>7, Cancel
<1>9. (-a) * d = (-n) * b
  BY <1>1, <1>6
<1>10. QED
  <2>1. Minus(x) \in Rat
    BY <1>4, <1>5, <1>7, <1>8
  <2>2. Minus(x)[1] = -a /\ Minus(x)[2] = b
    BY <1>4
  <2>3. QED
    BY <1>1, <1>9, <2>1, <2>2 DEF Equals

(* The difference of two fractions.                                        *)
LEMMA SubIs ==
  ASSUME NEW x, NEW n, NEW d, Equals(x, n, d), NEW y, NEW m, NEW e, Equals(y, m, e)
  PROVE  Equals(Sub(x, y), n * e - m * d, d * e)
<1>1. Equals(Add(x, Minus(y)), n * e + (-m) * d, d * e)
  BY MinusIs, AddIs
<1>2. n \in Int /\ d \in Int /\ m \in Int /\ e \in Int
  BY DEF Equals
<1>3. n * e + (-m) * d = n * e - m * d
  BY <1>2, SMT
<1>4. QED
  BY <1>1, <1>3 DEF Sub

(* A whole number is itself divided by one.                                *)
LEMMA NumIs ==
  ASSUME NEW n \in Int
  PROVE  Equals(Num(n), n, 1) /\ Num(n) \in Rat
<1> DEFINE r == Reduced(n, 1)
<1>1. Equals(r, n, 1)
  BY ReducedIs
<1> HIDE DEF r
<1>2. /\ r = <<r[1], r[2]>> /\ r[1] \in Int /\ r[2] \in Int /\ r[2] > 0 /\ r \in Rat
      /\ \A m \in Int, e \in Int : e > 0 /\ m * r[2] = r[1] * e => r[2] <= e
  BY <1>1, RatIs DEF Equals
<1> DEFINE p == r[1]
           q == r[2]
<1>3. /\ r = <<p, q>> /\ p \in Int /\ q \in Int /\ q > 0 /\ p = n * q
      /\ \A m \in Int, e \in Int : e > 0 /\ m * q = p * e => q <= e
  BY <1>1, <1>2 DEF Equals
<1> HIDE DEF p, q
<1>4. q = 1
  <2>1. n * q = p * 1 /\ 1 \in Int
    BY <1>3
  <2>2. q <= 1
    BY <1>3, <2>1
  <2>3. QED
    BY <1>3, <2>2
<1>5. r = Num(n)
  BY <1>3, <1>4 DEF Num
<1>6. QED
  BY <1>1, <1>2, <1>5

(* The results are numbers; only zero has no quotient.                     *)
LEMMA Closed ==
  ASSUME NEW x \in Rat, NEW y \in Rat
  PROVE  /\ Add(x, y) \in Rat /\ Sub(x, y) \in Rat /\ Mul(x, y) \in Rat /\ Minus(x) \in Rat
         /\ y # Num(0) <=> y[1] # 0
         /\ y # Num(0) => Div(x, y) \in Rat
<1>1. Equals(x, x[1], x[2]) /\ Equals(y, y[1], y[2])
  BY RatIs
<1>2. /\ Equals(Add(x, y), x[1] * y[2] + y[1] * x[2], x[2] * y[2])
      /\ Equals(Sub(x, y), x[1] * y[2] - y[1] * x[2], x[2] * y[2])
      /\ Equals(Mul(x, y), x[1] * y[1], x[2] * y[2])
      /\ Equals(Minus(x), -x[1], x[2])
  BY <1>1, AddIs, SubIs, MulIs, MinusIs
<1>3. y # Num(0) <=> y[1] # 0
  <2>1. ASSUME y[1] = 0 PROVE y = Num(0)
    <3>1. Equals(Num(0), 0, 1)
      BY NumIs
    <3>2. y[2] \in Int /\ 0 * y[2] = 0 * 1
      BY RatIs
    <3>3. QED
      BY <1>1, <2>1, <3>1, <3>2, SameNumber
  <2>2. Num(0)[1] = 0
    BY DEF Num
  <2>3. QED
    BY <2>1, <2>2
<1>4. y[1] # 0 => Equals(Div(x, y), x[1] * y[2], x[2] * y[1])
  BY <1>1, DivIs
<1>5. QED
  BY <1>2, <1>3, <1>4 DEF Equals

(* One operation undoes the other.                                         *)
LEMMA SubUndoesAdd ==
  ASSUME NEW x \in Rat, NEW y \in Rat
  PROVE  Sub(Add(x, y), y) = x /\ Add(Sub(x, y), y) = x
<1> DEFINE a == x[1]
           b == x[2]
           p == y[1]
           q == y[2]
<1>1. /\ Equals(x, a, b) /\ Equals(y, p, q)
      /\ a \in Int /\ b \in Int /\ p \in Int /\ q \in Int
  BY RatIs
<1> HIDE DEF a, b, p, q
<1>2. Equals(Sub(Add(x, y), y), (a * q + p * b) * q - p * (b * q), (b * q) * q)
  <2>1. Equals(Add(x, y), a * q + p * b, b * q)
    BY <1>1, AddIs
  <2>2. QED
    BY <1>1, <2>1, SubIs
<1>3. Equals(Add(Sub(x, y), y), (a * q - p * b) * q + p * (b * q), (b * q) * q)
  <2>1. Equals(Sub(x, y), a * q - p * b, b * q)
    BY <1>1, SubIs
  <2>2. QED
    BY <1>1, <2>1, AddIs
<1>4. /\ ((a * q + p * b) * q - p * (b * q)) * b = a * ((b * q) * q)
      /\ ((a * q - p * b) * q + p * (b * q)) * b = a * ((b * q) * q)
  BY <1>1, SMT
<1>5. QED
  BY <1>1, <1>2, <1>3, <1>4, SameNumber

(* Dividing undoes multiplying, and the other way round.                   *)
LEMMA DivUndoesMul ==
  ASSUME NEW x \in Rat, NEW y \in Rat, y # Num(0)
  PROVE  Div(Mul(x, y), y) = x /\ Mul(Div(x, y), y) = x
<1> DEFINE a == x[1]
           b == x[2]
           p == y[1]
           q == y[2]
<1>1. /\ Equals(x, a, b) /\ Equals(y, p, q) /\ p # 0
      /\ a \in Int /\ b \in Int /\ p \in Int /\ q \in Int
  BY RatIs, Closed
<1> HIDE DEF a, b, p, q
<1>2. Equals(Div(Mul(x, y), y), (a * p) * q, (b * q) * p)
  <2>1. Equals(Mul(x, y), a * p, b * q)
    BY <1>1, MulIs
  <2>2. QED
    BY <1>1, <2>1, DivIs
<1>3. Equals(Mul(Div(x, y), y), (a * q) * p, (b * p) * q)
  <2>1. Equals(Div(x, y), a * q, b * p)
    BY <1>1, DivIs
  <2>2. QED
    BY <1>1, <2>1, MulIs
<1>4. /\ ((a * p) * q) * b = a * ((b * q) * p)
      /\ ((a * q) * p) * b = a * ((b * p) * q)
  BY <1>1, SMT
<1>5. QED
  BY <1>1, <1>2, <1>3, <1>4, SameNumber

(* What a division by zero leaves stays as it is.                          *)
Values == Rat \cup {NaN}

(* What a division by zero leaves stays in every result.                   *)
LEMMA NaNStays ==
  ASSUME NEW x \in Values
  PROVE  /\ Add(NaN, x) = NaN /\ Add(x, NaN) = NaN /\ Sub(NaN, x) = NaN /\ Sub(x, NaN) = NaN
         /\ Mul(NaN, x) = NaN /\ Mul(x, NaN) = NaN /\ Div(NaN, x) = NaN /\ Div(x, NaN) = NaN
         /\ Div(x, Num(0)) = NaN /\ NaN \notin Rat /\ Num(0) \in Rat
<1>1. x[1] \in Int /\ x[2] \in Int
  BY RatIs DEF Values, NaN
<1>2. x[2] * 0 = 0 /\ 0 * x[2] = 0 /\ 0 * x[1] = 0
  BY <1>1, SMT
<1>3. \A n : Reduced(n, 0) = NaN
  BY DEF Reduced, NaN
<1>4. NaN[1] = 0 /\ NaN[2] = 0 /\ Minus(NaN) = NaN /\ Minus(x)[2] = x[2]
  <2>1. NaN[1] = 0 /\ NaN[2] = 0 /\ NaN = <<0, 0>>
    BY DEF NaN
  <2> DEFINE z == NaN[1]
  <2>2. z \in Int /\ z <= 0 /\ 0 <= z
    BY DEF NaN
  <2> HIDE DEF z
  <2>3. -z = 0
    BY <2>2
  <2>4. Minus(NaN) = NaN
    BY <2>1, <2>3 DEF Minus, z
  <2>5. Minus(x)[2] = x[2]
    BY DEF Minus
  <2>6. QED
    BY <2>1, <2>4, <2>5
<1>5. Add(NaN, x) = NaN /\ Add(x, NaN) = NaN
  BY <1>2, <1>3, <1>4 DEF Add
<1>6. Sub(x, NaN) = NaN
  BY <1>4, <1>5 DEF Sub
<1>7. Sub(NaN, x) = NaN
  <2>1. Sub(NaN, x) = Reduced(NaN[1] * Minus(x)[2] + Minus(x)[1] * NaN[2], NaN[2] * Minus(x)[2])
    BY DEF Sub, Add
  <2>2. NaN[2] * Minus(x)[2] = 0
    BY <1>2, <1>4
  <2>3. QED
    BY <1>3, <2>1, <2>2
<1>8. Mul(NaN, x) = NaN /\ Mul(x, NaN) = NaN
  BY <1>2, <1>3, <1>4 DEF Mul
<1>9. Div(x, NaN) = NaN /\ Div(x, Num(0)) = NaN
  BY <1>4 DEF Div, Num
<1>10. Div(NaN, x) = NaN
  BY <1>2, <1>3, <1>4 DEF Div
<1>11. NaN \notin Rat
  BY <1>4, RatIs
<1>12. QED
  BY <1>5, <1>6, <1>7, <1>8, <1>9, <1>10, <1>11, NumIs

(* Every operation has a value.                                            *)
LEMMA AlwaysValues ==
  ASSUME NEW x \in Values, NEW y \in Values
  PROVE  /\ Add(x, y) \in Values /\ Sub(x, y) \in Values
         /\ Mul(x, y) \in Values /\ Div(x, y) \in Values
<1>1. CASE x \in Rat /\ y \in Rat
  <2>1. Add(x, y) \in Rat /\ Sub(x, y) \in Rat /\ Mul(x, y) \in Rat
    BY <1>1, Closed
  <2>2. CASE y # Num(0)
    BY <1>1, <2>1, <2>2, Closed DEF Values
  <2>3. CASE y = Num(0)
    BY <2>1, <2>3, NaNStays DEF Values
  <2>4. QED
    BY <2>2, <2>3
<1>2. CASE x = NaN
  BY <1>2, NaNStays DEF Values
<1>3. CASE y = NaN
  BY <1>3, NaNStays DEF Values
<1>4. QED
  BY <1>1, <1>2, <1>3 DEF Values

-----------------------------------------------------------------------------
(* Scaling and descaling                                                   *)

(* Parameters that divide by nothing that is zero.                         *)
Proper(p) ==
  /\ p.mean \in Rat /\ p.deviation \in Rat /\ p.new_min \in Rat /\ p.factor \in Rat
  /\ p.deviation # Num(0) /\ p.factor # Num(0)

(* fann_descale_input undoes fann_scale_input for one value, and the other *)
(* way round.                                                              *)
LEMMA ScalingIsUndone ==
  ASSUME NEW p, Proper(p), NEW x \in Values
  PROVE  Descaled(Scaled(x, p), p) = x /\ Scaled(Descaled(x, p), p) = x
<1> DEFINE m == p.mean
           s == p.deviation
           b == p.new_min
           f == p.factor
<1>1. /\ m \in Rat /\ s \in Rat /\ b \in Rat /\ f \in Rat /\ old_min \in Rat
      /\ s # Num(0) /\ f # Num(0)
  BY NumIs DEF Proper, old_min
<1>2. /\ Scaled(x, p) = Add(Mul(Sub(Div(Sub(x, m), s), old_min), f), b)
      /\ Descaled(x, p) = Add(Mul(Add(Div(Sub(x, b), f), old_min), s), m)
  BY DEF Scaled, Descaled
<1> HIDE DEF m, s, b, f
<1>3. CASE x = NaN
  <2>1. Scaled(NaN, p) = NaN /\ Descaled(NaN, p) = NaN
    BY <1>1, <1>2, <1>3, NaNStays DEF Values
  <2>2. QED
    BY <1>3, <2>1
<1>4. CASE x \in Rat
  <2>1. Descaled(Scaled(x, p), p) = x
    <3> DEFINE x1 == Sub(x, m)
               x2 == Div(x1, s)
               x3 == Sub(x2, old_min)
               x4 == Mul(x3, f)
    <3>1. x1 \in Rat /\ Add(x1, m) = x
      BY <1>1, <1>4, Closed, SubUndoesAdd
    <3>2. x2 \in Rat /\ Mul(x2, s) = x1
      BY <1>1, <3>1, Closed, DivUndoesMul
    <3>3. x3 \in Rat /\ Add(x3, old_min) = x2
      BY <1>1, <3>2, Closed, SubUndoesAdd
    <3>4. x4 \in Rat /\ Div(x4, f) = x3
      BY <1>1, <3>3, Closed, DivUndoesMul
    <3>5. Sub(Add(x4, b), b) = x4
      BY <1>1, <3>4, SubUndoesAdd
    <3>6. Scaled(x, p) = Add(x4, b)
      BY <1>2
    <3> HIDE DEF x1, x2, x3, x4
    <3>7. Descaled(Add(x4, b), p) = Add(Mul(Add(Div(Sub(Add(x4, b), b), f), old_min), s), m)
      BY DEF Descaled, m, s, b, f
    <3>8. QED
      BY <3>1, <3>2, <3>3, <3>4, <3>5, <3>6, <3>7
  <2>2. Scaled(Descaled(x, p), p) = x
    <3> DEFINE x1 == Sub(x, b)
               x2 == Div(x1, f)
               x3 == Add(x2, old_min)
               x4 == Mul(x3, s)
    <3>1. x1 \in Rat /\ Add(x1, b) = x
      BY <1>1, <1>4, Closed, SubUndoesAdd
    <3>2. x2 \in Rat /\ Mul(x2, f) = x1
      BY <1>1, <3>1, Closed, DivUndoesMul
    <3>3. x3 \in Rat /\ Sub(x3, old_min) = x2
      BY <1>1, <3>2, Closed, SubUndoesAdd
    <3>4. x4 \in Rat /\ Div(x4, s) = x3
      BY <1>1, <3>3, Closed, DivUndoesMul
    <3>5. Sub(Add(x4, m), m) = x4
      BY <1>1, <3>4, SubUndoesAdd
    <3>6. Descaled(x, p) = Add(x4, m)
      BY <1>2
    <3> HIDE DEF x1, x2, x3, x4
    <3>7. Scaled(Add(x4, m), p) = Add(Mul(Sub(Div(Sub(Add(x4, m), m), s), old_min), f), b)
      BY DEF Scaled, m, s, b, f
    <3>8. QED
      BY <3>1, <3>2, <3>3, <3>4, <3>5, <3>6, <3>7
  <2>3. QED
    BY <2>1, <2>2
<1>5. QED
  BY <1>3, <1>4 DEF Values

(* Scaling gives a number, or what a division by zero leaves.              *)
LEMMA ScalingHasValues ==
  ASSUME NEW p, p.mean \in Values, p.deviation \in Values, p.new_min \in Values,
         p.factor \in Values, NEW x \in Values
  PROVE  Scaled(x, p) \in Values /\ Descaled(x, p) \in Values
<1>1. old_min \in Values
  BY NumIs DEF old_min, Values
<1>2. Scaled(x, p) \in Values
  <2>1. Sub(x, p.mean) \in Values
    BY AlwaysValues
  <2>2. Div(Sub(x, p.mean), p.deviation) \in Values
    BY <2>1, AlwaysValues
  <2>3. Sub(Div(Sub(x, p.mean), p.deviation), old_min) \in Values
    BY <1>1, <2>2, AlwaysValues
  <2>4. Mul(Sub(Div(Sub(x, p.mean), p.deviation), old_min), p.factor) \in Values
    BY <2>3, AlwaysValues
  <2>5. QED
    BY <2>4, AlwaysValues DEF Scaled
<1>3. Descaled(x, p) \in Values
  <2>1. Sub(x, p.new_min) \in Values
    BY AlwaysValues
  <2>2. Div(Sub(x, p.new_min), p.factor) \in Values
    BY <2>1, AlwaysValues
  <2>3. Add(Div(Sub(x, p.new_min), p.factor), old_min) \in Values
    BY <1>1, <2>2, AlwaysValues
  <2>4. Mul(Add(Div(Sub(x, p.new_min), p.factor), old_min), p.deviation) \in Values
    BY <2>3, AlwaysValues
  <2>5. QED
    BY <2>4, AlwaysValues DEF Descaled
<1>4. QED
  BY <1>2, <1>3

(* What fann_allocate_scale and fann_clear_scaling_params set changes      *)
(* nothing.                                                                *)
LEMMA ResetChangesNothing ==
  ASSUME NEW x \in Values
  PROVE  Scaled(x, Reset) = x /\ Descaled(x, Reset) = x /\ Proper(Reset)
<1>1. /\ Num(0) \in Rat /\ Num(1) \in Rat /\ Num(-1) \in Rat /\ Num(1) # Num(0)
      /\ Equals(Num(0), 0, 1) /\ Equals(Num(1), 1, 1)
  <2>1. Num(1) # Num(0)
    BY DEF Num
  <2>2. -1 \in Int /\ 0 \in Int /\ 1 \in Int
    OBVIOUS
  <2>3. QED
    BY <2>1, <2>2, NumIs
<1>2. ASSUME NEW y \in Rat
      PROVE  Sub(y, Num(0)) = y /\ Add(y, Num(0)) = y /\ Div(y, Num(1)) = y /\ Mul(y, Num(1)) = y
  <2> DEFINE a == y[1]
             b == y[2]
  <2>1. Equals(y, a, b) /\ a \in Int /\ b \in Int
    BY RatIs
  <2> HIDE DEF a, b
  <2>2. /\ Equals(Sub(y, Num(0)), a * 1 - 0 * b, b * 1)
        /\ Equals(Add(y, Num(0)), a * 1 + 0 * b, b * 1)
        /\ Equals(Mul(y, Num(1)), a * 1, b * 1)
    BY <1>1, <2>1, SubIs, AddIs, MulIs
  <2>3. Equals(Div(y, Num(1)), a * 1, b * 1)
    <3>1. 1 # 0
      OBVIOUS
    <3>2. QED
      BY <1>1, <2>1, <3>1, DivIs
  <2>4. (a * 1 - 0 * b) * b = a * (b * 1) /\ (a * 1 + 0 * b) * b = a * (b * 1)
        /\ (a * 1) * b = a * (b * 1)
    BY <2>1, SMT
  <2>5. QED
    BY <2>1, <2>2, <2>3, <2>4, SameNumber
<1>3. /\ Scaled(x, Reset) = Add(Mul(Sub(Div(Sub(x, Num(0)), Num(1)), Num(-1)), Num(1)), Num(-1))
      /\ Descaled(x, Reset) = Add(Mul(Add(Div(Sub(x, Num(-1)), Num(1)), Num(-1)), Num(1)), Num(0))
  BY DEF Scaled, Descaled, Reset, old_min
<1>4. Proper(Reset)
  BY <1>1 DEF Proper, Reset
<1>5. CASE x \in Rat
  <2>1. /\ Sub(x, Num(-1)) \in Rat /\ Add(Sub(x, Num(-1)), Num(-1)) = x
    BY <1>1, <1>5, Closed, SubUndoesAdd
  <2>2. Scaled(x, Reset) = x
    <3>1. Div(Sub(x, Num(0)), Num(1)) = x
      BY <1>2, <1>5
    <3>2. QED
      BY <1>2, <1>3, <2>1, <3>1
  <2>3. Descaled(x, Reset) = x
    <3>1. Div(Sub(x, Num(-1)), Num(1)) = Sub(x, Num(-1))
      BY <1>2, <2>1
    <3>2. QED
      BY <1>2, <1>3, <1>5, <2>1, <3>1
  <2>4. QED
    BY <1>4, <2>2, <2>3
<1>6. CASE x = NaN
  BY <1>1, <1>3, <1>4, <1>6, NaNStays DEF Values
<1>7. QED
  BY <1>5, <1>6 DEF Values

-----------------------------------------------------------------------------
(* Sums, and what comes of them                                            *)

Columnar(c, n, S) == DOMAIN c = 1 .. n /\ \A i \in 1 .. n : c[i] \in S

IsSums(P, c, n) ==
  /\ P \in [0 .. n -> Rat] /\ P[0] = Num(0) /\ Sum(c) = P[n]
  /\ \A k \in 0 .. n - 1 : P[k + 1] = Add(P[k], c[k + 1])

(* Sum adds one number after the other.                                    *)
LEMMA SumsOfColumn ==
  ASSUME NEW n \in Nat, NEW c, Columnar(c, n, Rat)
  PROVE  \E P : IsSums(P, c, n)
<1> DEFINE Folds(f) ==
             f = [s \in SUBSET (1 .. n) |->
                    IF s = {} THEN Num(0) ELSE Add(f[s \ {Max(s)}], c[Max(s)])]
           step == [p \in Rat \X (1 .. n) |-> Add(p[1], c[p[2]])]
<1>1. Sum(c) = (CHOOSE f : Folds(f))[1 .. n]
  BY DEF Sum, FoldLeft, MapThenFoldSet, Columnar
<1>2. Num(0) \in Rat
  BY NumIs
<1>3. PICK f \in [SUBSET (1 .. n) -> Rat] : FoldsTo(f, n, Num(0), step)
  <2>1. step \in [Rat \X (1 .. n) -> Rat]
    BY Closed DEF Columnar
  <2> HIDE DEF step
  <2>2. QED
    BY <1>2, <2>1, FoldExists
<1>4. Folds(f)
  <2>1. ASSUME NEW s \in SUBSET (1 .. n), s # {}
        PROVE  step[<<f[s \ {Max(s)}], Max(s)>>] = Add(f[s \ {Max(s)}], c[Max(s)])
    <3>1. Max(s) \in 1 .. n /\ s \ {Max(s)} \in SUBSET (1 .. n)
      BY <2>1, GreatestNumber
    <3>2. QED
      BY <3>1
  <2> HIDE DEF step
  <2>2. QED
    BY <1>3, <2>1 DEF FoldsTo
<1>5. ASSUME NEW g, Folds(g)
      PROVE  \E P : /\ P = [k \in 0 .. n |-> g[1 .. k]]
                    /\ P[0] = Num(0) /\ \A k \in 0 .. n - 1 : P[k + 1] = Add(P[k], c[k + 1])
  <2> DEFINE P == [k \in 0 .. n |-> g[1 .. k]]
  <2>1. P[0] = Num(0)
    <3>1. 1 .. 0 = {} /\ 1 .. 0 \in SUBSET (1 .. n) /\ 0 \in 0 .. n
      OBVIOUS
    <3>2. QED
      BY <1>5, <3>1
  <2>2. ASSUME NEW k \in 0 .. n - 1
        PROVE  P[k + 1] = Add(P[k], c[k + 1])
    <3> DEFINE s == 1 .. k + 1
    <3>1. s \in SUBSET (1 .. n) /\ s # {} /\ Max(s) = k + 1 /\ s \ {Max(s)} = 1 .. k
      BY UpToNext
    <3> HIDE DEF s
    <3>2. g[s] = Add(g[s \ {Max(s)}], c[Max(s)])
      BY <1>5, <3>1
    <3>3. P[k + 1] = g[s] /\ P[k] = g[1 .. k]
      BY DEF s
    <3>4. QED
      BY <3>1, <3>2, <3>3
  <2> HIDE DEF Folds
  <2>3. QED
    BY <2>1, <2>2
<1>6. PICK g : Folds(g) /\ Sum(c) = g[1 .. n]
  BY <1>1, <1>4
<1>7. PICK P : /\ P = [k \in 0 .. n |-> g[1 .. k]]
               /\ P[0] = Num(0) /\ \A k \in 0 .. n - 1 : P[k + 1] = Add(P[k], c[k + 1])
  <2> HIDE DEF Folds
  <2>1. QED
    BY <1>5, <1>6
<1> HIDE DEF Folds
<1>8. P \in [0 .. n -> Rat]
  <2> DEFINE T == {k \in 0 .. n : P[k] \in Rat}
  <2>1. 0 \in T
    BY <1>2, <1>7
  <2>2. ASSUME NEW k \in 0 .. n - 1, k \in T PROVE k + 1 \in T
    <3>1. P[k] \in Rat /\ c[k + 1] \in Rat /\ k + 1 \in 0 .. n
      BY <2>2 DEF Columnar
    <3>2. P[k + 1] = Add(P[k], c[k + 1])
      BY <1>7
    <3>3. P[k + 1] \in Rat
      BY <3>1, <3>2, Closed
    <3>4. QED
      BY <3>1, <3>3
  <2>3. \A k \in 0 .. n : k \in T
    <3> HIDE DEF T
    <3>1. QED
      BY <2>1, <2>2, CountingUp
  <2>4. QED
    BY <1>7, <2>3
<1>9. Sum(c) = P[n]
  BY <1>6, <1>7
<1>10. QED
  BY <1>7, <1>8, <1>9 DEF IsSums

(* The mean of a column with rows is a number.                             *)
LEMMA MeanIs ==
  ASSUME NEW n \in Nat, n > 0, NEW c, c \in Seq(Rat), Len(c) = n
  PROVE  /\ Columnar(c, n, Rat) /\ Sum(c) \in Rat /\ Num(n) \in Rat /\ Num(n) # Num(0)
         /\ Mean(c) = Div(Sum(c), Num(n)) /\ Mean(c) \in Rat
<1>1. Columnar(c, n, Rat)
  BY DEF Columnar
<1>2. Sum(c) \in Rat
  <2>1. PICK P : IsSums(P, c, n)
    BY <1>1, SumsOfColumn
  <2>2. QED
    BY <2>1 DEF IsSums
<1>3. Num(n) \in Rat /\ Num(n) # Num(0)
  BY NumIs DEF Num
<1>4. Mean(c) = Div(Sum(c), Num(n))
  BY DEF Mean
<1>5. QED
  BY <1>1, <1>2, <1>3, <1>4, Closed

(* Root is the root, rounded down.                                         *)
LEMMA RootIs ==
  ASSUME NEW n \in Nat
  PROVE  /\ Root(n) \in Nat /\ Root(n) * Root(n) <= n
         /\ n < (Root(n) + 1) * (Root(n) + 1)
         /\ \A r \in Nat : r * r = n => Root(n) = r
<1> DEFINE Above == {r \in Nat : n < (r + 1) * (r + 1)}
<1>1. PICK r \in Above : \A s \in Above : r <= s
  <2>1. n < (n + 1) * (n + 1)
    <3>1. (n + 1) * (n + 1) = n * n + n + n + 1 /\ n * n \in Nat
      BY SMT
    <3>2. QED
      BY <3>1
  <2>2. n \in Above
    BY <2>1
  <2>3. Above \in SUBSET Nat
    BY Zenon
  <2> HIDE DEF Above
  <2>4. QED
    BY <2>2, <2>3, LeastNumber
<1>2. r \in 0 .. n /\ r * r <= n /\ n < (r + 1) * (r + 1)
  <2>1. r \in Nat /\ n < (r + 1) * (r + 1)
    BY <1>1
  <2>2. r * r <= n
    <3>1. CASE r = 0
      <4>1. 0 * 0 = 0
        OBVIOUS
      <4>2. QED
        BY <3>1, <4>1
    <3>2. CASE r > 0
      <4>1. r - 1 \in Nat /\ r - 1 \notin Above
        BY <1>1, <2>1, <3>2
      <4>2. ~(n < ((r - 1) + 1) * ((r - 1) + 1))
        BY <4>1
      <4>3. (r - 1) + 1 = r /\ r * r \in Int
        BY <2>1, Products
      <4>4. QED
        BY <4>2, <4>3
    <3>3. QED
      BY <2>1, <3>1, <3>2
  <2>3. r <= r * r
    <3>1. \A x \in Nat : x <= x * x
      BY SMT
    <3>2. QED
      BY <2>1, <3>1
  <2>4. r * r \in Int
    BY <2>1, Products
  <2>5. QED
    BY <2>1, <2>2, <2>3, <2>4
<1>3. /\ Root(n) \in 0 .. n /\ Root(n) * Root(n) <= n
      /\ n < (Root(n) + 1) * (Root(n) + 1)
  BY <1>2 DEF Root
<1>4. ASSUME NEW s \in Nat, s * s = n
      PROVE  Root(n) = s
  <2> DEFINE t == Root(n)
  <2>1. t \in Nat /\ t * t <= n /\ n < (t + 1) * (t + 1)
    BY <1>3
  <2> HIDE DEF t
  <2>2. \A x, y \in Nat : x + 1 <= y => (x + 1) * (x + 1) <= y * y
    BY SMT
  <2>3. \A x, y \in Nat : x + 1 <= y => x * x < y * y
    BY SMT
  <2>4. /\ t * t \in Int /\ s * s \in Int /\ (t + 1) * (t + 1) \in Int
    BY <2>1, Products
  <2>5. ~(t + 1 <= s)
    BY <1>4, <2>1, <2>2, <2>4
  <2>6. ~(s + 1 <= t)
    BY <1>4, <2>1, <2>3, <2>4
  <2>7. t = s
    BY <2>1, <2>5, <2>6
  <2>8. QED
    BY <2>7 DEF t
<1>5. QED
  BY <1>3, <1>4

(* A number has the sign of its numerator.                                 *)
LEMMA SignIs ==
  ASSUME NEW x, NEW n, NEW d, Equals(x, n, d), d > 0
  PROVE  n >= 0 <=> x[1] >= 0
<1> DEFINE a == x[1]
           b == x[2]
<1>1. a \in Int /\ b \in Int /\ b > 0 /\ n \in Int /\ d \in Int /\ a * d = n * b
  BY RatIs DEF Equals
<1> HIDE DEF a, b
<1>2. \A u, v \in Int : v > 0 => (u >= 0 <=> u * v >= 0)
  BY SMT
<1>3. QED
  <2>1. a >= 0 <=> n >= 0
    BY <1>1, <1>2
  <2>2. QED
    BY <2>1 DEF a

Squares(c, m) == [i \in DOMAIN c |-> Mul(Sub(c[i], m), Sub(c[i], m))]

(* A variance is not negative, and a deviation is a number.                *)
LEMMA DeviationIs ==
  ASSUME NEW n \in Nat, n > 0, NEW c, c \in Seq(Rat), Len(c) = n
  PROVE  /\ Columnar(Squares(c, Mean(c)), n, Rat)
         /\ Variance(c) = Div(Sum(Squares(c, Mean(c))), Num(n))
         /\ Variance(c) \in Rat /\ Variance(c)[1] >= 0
         /\ Deviation(c) \in Rat
<1> DEFINE m == Mean(c)
           q == Squares(c, m)
<1>1. m \in Rat /\ DOMAIN c = 1 .. n /\ (\A i \in 1 .. n : c[i] \in Rat) /\ Num(n) \in Rat
      /\ Num(n) # Num(0) /\ Equals(Num(n), n, 1)
  BY MeanIs, NumIs DEF Columnar
<1>2. Variance(c) = Div(Sum(q), Num(n))
  <2>1. Len(c) = n
    OBVIOUS
  <2>2. QED
    BY <2>1 DEF Variance, Squares
<1> HIDE DEF m
<1>3. \A i \in 1 .. n : q[i] \in Rat /\ q[i][1] >= 0
  <2> TAKE i \in 1 .. n
  <2> DEFINE x == Sub(c[i], m)
             a == x[1]
             b == x[2]
  <2>1. x \in Rat
    BY <1>1, Closed
  <2>2. a \in Int /\ b \in Int /\ b > 0 /\ Equals(x, a, b)
    BY <2>1, RatIs
  <2>3. q[i] = Mul(x, x)
    BY <1>1 DEF Squares
  <2> HIDE DEF a, b, x
  <2>4. Equals(Mul(x, x), a * a, b * b)
    BY <2>2, MulIs
  <2>5. a * a >= 0 /\ b * b > 0
    <3>1. \A u \in Int : u * u >= 0 /\ (u > 0 => u * u > 0)
      BY SMT
    <3>2. QED
      BY <2>2, <3>1
  <2>6. Mul(x, x) \in Rat /\ Mul(x, x)[1] >= 0
    BY <2>1, <2>4, <2>5, SignIs, Closed
  <2>7. QED
    BY <2>3, <2>6
<1>4. Columnar(q, n, Rat)
  <2>1. DOMAIN q = 1 .. n
    BY <1>1 DEF Squares
  <2>2. QED
    BY <1>3, <2>1 DEF Columnar
<1> HIDE DEF q
<1>5. PICK P : IsSums(P, q, n)
  BY <1>4, SumsOfColumn
<1>6. Sum(q) \in Rat /\ Sum(q)[1] >= 0
  <2> DEFINE T == {k \in 0 .. n : P[k][1] >= 0}
  <2>1. 0 \in T
    BY <1>5 DEF IsSums, Num
  <2>2. ASSUME NEW k \in 0 .. n - 1, k \in T PROVE k + 1 \in T
    <3> DEFINE x == P[k]
               y == q[k + 1]
               a == x[1]
               b == x[2]
               e == y[1]
               d == y[2]
    <3>1. x \in Rat /\ y \in Rat /\ k + 1 \in 0 .. n /\ P[k + 1] = Add(x, y)
      BY <1>3, <1>5, <2>2 DEF IsSums
    <3>2. /\ a \in Int /\ b \in Int /\ b > 0 /\ a >= 0 /\ Equals(x, a, b)
          /\ e \in Int /\ d \in Int /\ d > 0 /\ e >= 0 /\ Equals(y, e, d)
      BY <1>3, <2>2, <3>1, RatIs
    <3> HIDE DEF a, b, e, d, x, y
    <3>3. Equals(Add(x, y), a * d + e * b, b * d)
      BY <3>2, AddIs
    <3>4. a * d + e * b >= 0 /\ b * d > 0
      <4>1. \A u, v \in Int : u >= 0 /\ v > 0 => u * v >= 0 /\ u * v \in Int
        BY SMT
      <4>2. QED
        BY <3>2, <4>1, Products
    <3>5. Add(x, y)[1] >= 0
      BY <3>3, <3>4, SignIs
    <3>6. QED
      BY <3>1, <3>5
  <2>3. \A k \in 0 .. n : k \in T
    <3> HIDE DEF T
    <3>1. QED
      BY <2>1, <2>2, CountingUp
  <2>4. QED
    BY <1>5, <2>3 DEF IsSums
<1> DEFINE v == Variance(c)
           s == Sum(q)
<1>7. v \in Rat /\ v[1] >= 0
  <2> DEFINE a == s[1]
             b == s[2]
  <2>1. a \in Int /\ b \in Int /\ b > 0 /\ a >= 0 /\ Equals(s, a, b)
    BY <1>6, RatIs
  <2>2. v = Div(s, Num(n)) /\ v \in Rat
    <3>1. v = Div(s, Num(n)) /\ s \in Rat
      BY <1>2, <1>6
    <3> HIDE DEF s, v
    <3>2. Div(s, Num(n)) \in Rat
      BY <1>1, <3>1, Closed
    <3>3. QED
      BY <3>1, <3>2
  <2> HIDE DEF a, b, s, v
  <2>3. Equals(Div(s, Num(n)), a * 1, b * n)
    BY <1>1, <2>1, DivIs
  <2>4. a * 1 >= 0 /\ b * n > 0
    BY <2>1, Products
  <2>5. QED
    BY <2>2, <2>3, <2>4, SignIs
<1>8. Deviation(c) \in Rat
  <2> DEFINE a == v[1]
             b == v[2]
  <2>1. a \in Nat /\ b \in Nat /\ b > 0
    BY <1>7, RatIs
  <2>2. Deviation(c) = Reduced(Root(a), Root(b))
    BY DEF Deviation, Sqrt
  <2> HIDE DEF a, b
  <2>3. Root(a) \in Nat /\ Root(b) \in Nat /\ b < (Root(b) + 1) * (Root(b) + 1)
    BY <2>1, RootIs
  <2>4. Root(b) # 0
    <3>1. (0 + 1) * (0 + 1) = 1
      OBVIOUS
    <3>2. QED
      BY <2>1, <2>3, <3>1
  <2>5. QED
    BY <2>2, <2>3, <2>4, ReducedIs DEF Equals
<1>9. QED
  BY <1>2, <1>4, <1>7, <1>8 DEF m, q

-----------------------------------------------------------------------------
(* The order of the numbers                                                *)

(* Numbers are in one order.                                               *)
LEMMA Order ==
  ASSUME NEW x \in Rat, NEW y \in Rat, NEW z \in Rat
  PROVE  /\ Less(x, y) => ~Less(y, x)
         /\ ~Less(x, y) /\ ~Less(y, x) => x = y
         /\ ~Less(y, x) /\ ~Less(z, y) => ~Less(z, x)
         /\ Less(x, y) /\ ~Less(z, y) => Less(x, z)
<1> DEFINE a == x[1]
           b == x[2]
           p == y[1]
           q == y[2]
           m == z[1]
           e == z[2]
<1>1. /\ a \in Int /\ b \in Int /\ b > 0 /\ p \in Int /\ q \in Int /\ q > 0
      /\ m \in Int /\ e \in Int /\ e > 0
      /\ Equals(x, a, b) /\ Equals(y, p, q)
  BY RatIs
<1>2. /\ Less(x, y) <=> a * q < p * b
      /\ Less(y, x) <=> p * b < a * q
      /\ Less(z, y) <=> m * q < p * e
      /\ Less(z, x) <=> m * b < a * e
      /\ Less(x, z) <=> a * e < m * b
  BY DEF Less
<1> HIDE DEF a, b, p, q, m, e
<1>3. /\ a * q \in Int /\ p * b \in Int /\ m * q \in Int /\ p * e \in Int
      /\ m * b \in Int /\ a * e \in Int
  BY <1>1, Products
<1>4. Less(x, y) => ~Less(y, x)
  BY <1>2, <1>3
<1>5. ~Less(x, y) /\ ~Less(y, x) => x = y
  <2>1. ASSUME ~Less(x, y), ~Less(y, x) PROVE x = y
    <3>1. a * q = p * b
      BY <1>2, <1>3, <2>1
    <3>2. QED
      BY <1>1, <3>1, SameNumber
  <2>2. QED
    BY <2>1
<1>6. \A u, v, w \in Int : w > 0 => (u <= v <=> u * w <= v * w)
  BY SMT
<1>7. /\ (a * q) * e = (a * e) * q /\ (p * b) * e = (p * e) * b
      /\ (m * q) * b = (m * b) * q
  BY <1>1, SMT
<1>8. /\ (a * q) * e \in Int /\ (p * b) * e \in Int /\ (m * q) * b \in Int
      /\ (a * e) * q \in Int /\ (p * e) * b \in Int /\ (m * b) * q \in Int
  BY <1>1, <1>3, Products
<1>9. ~Less(y, x) /\ ~Less(z, y) => ~Less(z, x)
  <2>1. ASSUME a * q <= p * b, p * e <= m * q PROVE a * e <= m * b
    <3>1. (a * q) * e <= (p * b) * e /\ (p * e) * b <= (m * q) * b
      BY <1>1, <1>3, <1>6, <2>1
    <3>2. (a * e) * q <= (m * b) * q
      BY <1>7, <1>8, <3>1
    <3>3. QED
      BY <1>1, <1>3, <1>6, <3>2
  <2>2. QED
    BY <1>2, <1>3, <2>1
<1>10. Less(x, y) /\ ~Less(z, y) => Less(x, z)
  <2>1. ASSUME a * q < p * b, p * e <= m * q, m * b <= a * e PROVE FALSE
    <3>1. (p * e) * b <= (m * q) * b /\ (m * b) * q <= (a * e) * q
      BY <1>1, <1>3, <1>6, <2>1
    <3>2. (p * b) * e <= (a * q) * e
      BY <1>7, <1>8, <3>1
    <3>3. p * b <= a * q
      BY <1>1, <1>3, <1>6, <3>2
    <3>4. QED
      BY <1>3, <2>1, <3>3
  <2>2. QED
    BY <1>2, <1>3, <2>1
<1>11. QED
  BY <1>4, <1>5, <1>9, <1>10

(* A column with rows has a least and a greatest value.                    *)
LEMMA ColumnExtremes ==
  ASSUME NEW c \in Seq(Rat), c # <<>>
  PROVE  /\ \E x \in Range(c) : \A y \in Range(c) : ~Less(y, x)
         /\ \E x \in Range(c) : \A y \in Range(c) : ~Less(x, y)
<1> DEFINE n == Len(c)
           Low(k) == \E i \in 1 .. k + 1 : \A j \in 1 .. k + 1 : ~Less(c[j], c[i])
           High(k) == \E i \in 1 .. k + 1 : \A j \in 1 .. k + 1 : ~Less(c[i], c[j])
           T == {k \in 0 .. n - 1 : Low(k) /\ High(k)}
<1>1. /\ n \in Nat /\ n > 0 /\ DOMAIN c = 1 .. n /\ \A i \in 1 .. n : c[i] \in Rat
      /\ Range(c) = {c[i] : i \in 1 .. n}
  BY DEF Range
<1> HIDE DEF n
<1>2. \A i \in 1 .. n : ~Less(c[i], c[i])
  BY <1>1, Order
<1>3. 0 \in T
  <2>1. 1 .. 0 + 1 = {1} /\ 1 \in 1 .. n /\ 0 \in 0 .. n - 1
    BY <1>1
  <2>2. QED
    BY <1>2, <2>1
<1>4. ASSUME NEW k \in 0 .. n - 2, k \in T
      PROVE  k + 1 \in T
  <2>1. /\ k + 1 \in 0 .. n - 1 /\ 1 .. (k + 1) + 1 = 1 .. k + 1 \cup {k + 2}
        /\ k + 2 \in 1 .. n /\ 1 .. k + 1 \subseteq 1 .. n
    BY <1>1, <1>4
  <2>2. Low(k + 1)
    <3>1. PICK i \in 1 .. k + 1 : \A j \in 1 .. k + 1 : ~Less(c[j], c[i])
      BY <1>4
    <3>2. CASE Less(c[k + 2], c[i])
      <4>1. ASSUME NEW j \in 1 .. k + 1 PROVE ~Less(c[j], c[k + 2])
        <5>1. c[j] \in Rat /\ c[i] \in Rat /\ c[k + 2] \in Rat /\ ~Less(c[j], c[i])
          BY <1>1, <2>1, <3>1
        <5>2. QED
          BY <3>2, <5>1, Order
      <4>2. \A j \in 1 .. (k + 1) + 1 : ~Less(c[j], c[k + 2])
        BY <1>2, <2>1, <4>1
      <4>3. QED
        BY <2>1, <4>2
    <3>3. CASE ~Less(c[k + 2], c[i])
      <4>1. \A j \in 1 .. (k + 1) + 1 : ~Less(c[j], c[i])
        BY <2>1, <3>1, <3>3
      <4>2. QED
        BY <2>1, <4>1
    <3>4. QED
      BY <3>2, <3>3
  <2>3. High(k + 1)
    <3>1. PICK i \in 1 .. k + 1 : \A j \in 1 .. k + 1 : ~Less(c[i], c[j])
      BY <1>4
    <3>2. CASE Less(c[i], c[k + 2])
      <4>1. ASSUME NEW j \in 1 .. k + 1 PROVE ~Less(c[k + 2], c[j])
        <5>1. c[j] \in Rat /\ c[i] \in Rat /\ c[k + 2] \in Rat /\ ~Less(c[i], c[j])
          BY <1>1, <2>1, <3>1
        <5>2. QED
          BY <3>2, <5>1, Order
      <4>2. \A j \in 1 .. (k + 1) + 1 : ~Less(c[k + 2], c[j])
        BY <1>2, <2>1, <4>1
      <4>3. QED
        BY <2>1, <4>2
    <3>3. CASE ~Less(c[i], c[k + 2])
      <4>1. \A j \in 1 .. (k + 1) + 1 : ~Less(c[i], c[j])
        BY <2>1, <3>1, <3>3
      <4>2. QED
        BY <2>1, <4>1
    <3>4. QED
      BY <3>2, <3>3
  <2> HIDE DEF Low, High
  <2>4. QED
    BY <2>1, <2>2, <2>3
<1>5. n - 1 \in T
  <2>1. n - 1 \in Nat /\ n - 1 \in 0 .. n - 1
    BY <1>1
  <2>2. \A k \in 0 .. (n - 1) - 1 : k \in T => k + 1 \in T
    <3> HIDE DEF T
    <3>1. (n - 1) - 1 = n - 2
      BY <1>1
    <3>2. QED
      BY <1>4, <3>1
  <2> HIDE DEF T
  <2>3. QED
    BY <1>3, <2>1, <2>2, CountingUp
<1>6. Low(n - 1) /\ High(n - 1) /\ (n - 1) + 1 = n
  <2> HIDE DEF Low, High
  <2>1. QED
    BY <1>1, <1>5
<1>7. \E x \in Range(c) : \A y \in Range(c) : ~Less(y, x)
  BY <1>1, <1>6
<1>8. \E x \in Range(c) : \A y \in Range(c) : ~Less(x, y)
  BY <1>1, <1>6
<1> QED
  BY <1>7, <1>8

(* So do finitely many numbers.                                            *)
LEMMA Extremes ==
  ASSUME NEW block \in SUBSET Rat, block # {}, IsFiniteSet(block)
  PROVE  /\ Least(block) \in block /\ \A y \in block : ~Less(y, Least(block))
         /\ Greatest(block) \in block /\ \A y \in block : ~Less(Greatest(block), y)
<1>1. PICK c \in Seq(block) : \A x \in block : \E k \in 1 .. Len(c) : c[k] = x
  BY DEF IsFiniteSet
<1>2. DOMAIN c = 1 .. Len(c) /\ Len(c) \in Nat /\ \A k \in DOMAIN c : c[k] \in block
  BY <1>1
<1>3. Range(c) = block
  BY <1>1, <1>2 DEF Range
<1>4. c \in Seq(Rat) /\ c # <<>>
  <2>1. \A k \in DOMAIN c : c[k] \in Rat
    BY <1>2
  <2>2. Len(c) # 0
    BY <1>1, <1>2
  <2> QED
    BY <1>1, <1>2, <2>1, <2>2
<1>5. /\ \E x \in block : \A y \in block : ~Less(y, x)
      /\ \E x \in block : \A y \in block : ~Less(x, y)
  BY <1>3, <1>4, ColumnExtremes
<1> QED
  BY <1>5 DEF Least, Greatest

(***************************************************************************)
(* A column that is scaled and descaled                                    *)
(***************************************************************************)

ScaledAll(c, p) == [i \in DOMAIN c |-> Scaled(c[i], p)]
DescaledAll(c, p) == [i \in DOMAIN c |-> Descaled(c[i], p)]

AnyParameters == [mean : Rat, deviation : Rat, new_min : Rat, factor : Rat]

(* Scaling leaves a column of values of the same length.                   *)
LEMMA ColumnsStay ==
  ASSUME NEW p \in AnyParameters, NEW c \in Seq(Values)
  PROVE  /\ ScaledAll(c, p) \in Seq(Values) /\ Len(ScaledAll(c, p)) = Len(c)
         /\ DescaledAll(c, p) \in Seq(Values) /\ Len(DescaledAll(c, p)) = Len(c)
<1>1. DOMAIN c = 1 .. Len(c) /\ Len(c) \in Nat /\ \A i \in DOMAIN c : c[i] \in Values
  OBVIOUS
<1>2. /\ p.mean \in Values /\ p.deviation \in Values
      /\ p.new_min \in Values /\ p.factor \in Values
  BY DEF AnyParameters, Values
<1>3. \A x \in Values : Scaled(x, p) \in Values /\ Descaled(x, p) \in Values
  BY <1>2, ScalingHasValues
<1>4. /\ ScaledAll(c, p) \in [1 .. Len(c) -> Values]
      /\ DescaledAll(c, p) \in [1 .. Len(c) -> Values]
  BY <1>1, <1>3, Zenon DEF ScaledAll, DescaledAll
<1> QED
  BY <1>1, <1>4

(* What was scaled is descaled to what it was, and the other way round.    *)
LEMMA ColumnsAreUndone ==
  ASSUME NEW p \in AnyParameters, Proper(p), NEW c \in Seq(Values)
  PROVE  /\ DescaledAll(ScaledAll(c, p), p) = c
         /\ ScaledAll(DescaledAll(c, p), p) = c
<1>1. DOMAIN c = 1 .. Len(c) /\ Len(c) \in Nat /\ \A i \in DOMAIN c : c[i] \in Values
  OBVIOUS
<1>2. \A x \in Values : Descaled(Scaled(x, p), p) = x /\ Scaled(Descaled(x, p), p) = x
  BY ScalingIsUndone
<1>3. /\ DescaledAll(ScaledAll(c, p), p) = [i \in DOMAIN c |-> Descaled(Scaled(c[i], p), p)]
      /\ ScaledAll(DescaledAll(c, p), p) = [i \in DOMAIN c |-> Scaled(Descaled(c[i], p), p)]
  BY Zenon DEF ScaledAll, DescaledAll
<1>4. c = [i \in DOMAIN c |-> c[i]]
  OBVIOUS
<1>5. /\ [i \in DOMAIN c |-> Descaled(Scaled(c[i], p), p)] = [i \in DOMAIN c |-> c[i]]
      /\ [i \in DOMAIN c |-> Scaled(Descaled(c[i], p), p)] = [i \in DOMAIN c |-> c[i]]
  BY <1>1, <1>2, Zenon
<1> QED
  BY <1>3, <1>4, <1>5

\* `column` is `start`, scaled `d` times more often than descaled
Orbit(start, column, d, p) ==
  \E lo \in Int, hi \in Int : \E h \in [lo .. hi -> Seq(Values)] :
    /\ lo <= 0 /\ 0 <= hi /\ lo <= d /\ d <= hi
    /\ h[0] = start /\ h[d] = column
    /\ \A k \in lo .. hi - 1 : h[k + 1] = ScaledAll(h[k], p) /\ h[k] = DescaledAll(h[k + 1], p)

(* The columns between the first and the last.                             *)
LEMMA OrbitBy ==
  ASSUME NEW p, NEW s, NEW c, NEW d, NEW lo \in Int, NEW hi \in Int,
         NEW h \in [lo .. hi -> Seq(Values)],
         lo <= 0, 0 <= hi, lo <= d, d <= hi, h[0] = s, h[d] = c,
         \A k \in lo .. hi - 1 : h[k + 1] = ScaledAll(h[k], p) /\ h[k] = DescaledAll(h[k + 1], p)
  PROVE  Orbit(s, c, d, p)
<1> USE DEF Orbit
<1> WITNESS lo \in Int, hi \in Int
<1> WITNESS h \in [lo .. hi -> Seq(Values)]
<1> QED
  OBVIOUS

(* A column has not been scaled at first; one that was scaled once more     *)
(* than it was descaled is the first, scaled.                              *)
LEMMA OrbitIs ==
  ASSUME NEW p, NEW c
  PROVE  /\ c \in Seq(Values) => Orbit(c, c, 0, p)
         /\ \A s : Orbit(s, c, 0, p) => c = s
         /\ \A s : Orbit(s, c, 1, p) => c = ScaledAll(s, p)
<1>1. ASSUME c \in Seq(Values)
      PROVE  Orbit(c, c, 0, p)
  <2> DEFINE h == [k \in 0 .. 0 |-> c]
  <2>1. h \in [0 .. 0 -> Seq(Values)] /\ h[0] = c
    BY <1>1
  <2>2. \A k \in 0 .. 0 - 1 : h[k + 1] = ScaledAll(h[k], p) /\ h[k] = DescaledAll(h[k + 1], p)
    OBVIOUS
  <2> HIDE DEF h
  <2> QED
    <3>1. 0 \in Int /\ 0 <= 0
      OBVIOUS
    <3> QED
      BY <2>1, <2>2, <3>1, OrbitBy, Zenon
<1>2. ASSUME NEW s, Orbit(s, c, 1, p)
      PROVE  c = ScaledAll(s, p)
  <2>1. PICK lo \in Int, hi \in Int : \E h \in [lo .. hi -> Seq(Values)] :
          /\ lo <= 0 /\ 0 <= hi /\ lo <= 1 /\ 1 <= hi
          /\ h[0] = s /\ h[1] = c
          /\ \A k \in lo .. hi - 1 :
               h[k + 1] = ScaledAll(h[k], p) /\ h[k] = DescaledAll(h[k + 1], p)
    BY <1>2, Zenon DEF Orbit
  <2>2. 0 \in lo .. hi - 1 /\ 0 + 1 = 1
    BY <2>1
  <2> QED
    BY <2>1, <2>2
<1>3. ASSUME NEW s, Orbit(s, c, 0, p)
      PROVE  c = s
  BY <1>3, Zenon DEF Orbit
<1> QED
  BY <1>1, <1>2, <1>3

(* One more time, in either direction.                                     *)
LEMMA OrbitGoesOn ==
  ASSUME NEW p \in AnyParameters, Proper(p), NEW s, NEW c, NEW d \in Int, Orbit(s, c, d, p)
  PROVE  Orbit(s, ScaledAll(c, p), d + 1, p) /\ Orbit(s, DescaledAll(c, p), d - 1, p)
<1>1. PICK lo \in Int, hi \in Int : \E h \in [lo .. hi -> Seq(Values)] :
        /\ lo <= 0 /\ 0 <= hi /\ lo <= d /\ d <= hi
        /\ h[0] = s /\ h[d] = c
        /\ \A k \in lo .. hi - 1 :
             h[k + 1] = ScaledAll(h[k], p) /\ h[k] = DescaledAll(h[k + 1], p)
  BY Zenon DEF Orbit
<1>2. PICK h \in [lo .. hi -> Seq(Values)] :
        /\ lo <= 0 /\ 0 <= hi /\ lo <= d /\ d <= hi
        /\ h[0] = s /\ h[d] = c
        /\ \A k \in lo .. hi - 1 :
             h[k + 1] = ScaledAll(h[k], p) /\ h[k] = DescaledAll(h[k + 1], p)
  BY <1>1
<1>3. c \in Seq(Values)
  BY <1>2
<1>4. Orbit(s, ScaledAll(c, p), d + 1, p)
  <2>1. CASE d < hi
    <3>1. d \in lo .. hi - 1 /\ lo <= d + 1 /\ d + 1 <= hi /\ d + 1 \in Int
      BY <1>2, <2>1
    <3>2. h[d + 1] = ScaledAll(c, p)
      BY <1>2, <3>1
    <3> QED
      BY <1>2, <3>1, <3>2 DEF Orbit
  <2>2. CASE d = hi
    <3> DEFINE m == hi + 1
               g == [k \in lo .. m |-> IF k = m THEN ScaledAll(c, p) ELSE h[k]]
    <3>1. /\ m \in Int /\ 0 <= m /\ lo <= d + 1 /\ d + 1 <= m /\ d + 1 = m /\ m - 1 = hi
          /\ m \in lo .. m /\ hi \in lo .. hi /\ 0 \in lo .. hi /\ hi + 1 = m
          /\ \A k \in lo .. m : k # m => k \in lo .. hi
          /\ \A k \in lo .. hi : k # m /\ k \in lo .. m
      BY <1>2, <2>2
    <3> HIDE DEF m
    <3>2. g \in [lo .. m -> Seq(Values)]
      BY <1>3, <3>1, ColumnsStay
    <3>3. \A k \in lo .. hi : g[k] = h[k]
      BY <3>1
    <3>4. g[m] = ScaledAll(c, p) /\ g[hi] = c
      BY <1>2, <2>2, <3>1, <3>3
    <3>5. g[0] = s
      BY <1>2, <3>1, <3>3
    <3>6. DescaledAll(g[m], p) = g[hi]
      BY <1>3, <3>4, ColumnsAreUndone, Zenon
    <3> HIDE DEF g
    <3>7. ASSUME NEW k \in lo .. m - 1
          PROVE  g[k + 1] = ScaledAll(g[k], p) /\ g[k] = DescaledAll(g[k + 1], p)
      <4>1. CASE k = hi
        BY <3>1, <3>4, <3>6, <4>1
      <4>2. CASE k # hi
        <5>1. k \in lo .. hi /\ k + 1 \in lo .. hi /\ k \in lo .. hi - 1
          BY <3>1, <4>2
        <5>2. g[k] = h[k] /\ g[k + 1] = h[k + 1]
          BY <3>3, <5>1, Zenon
        <5> QED
          BY <1>2, <5>1, <5>2, Zenon
      <4> QED
        BY <4>1, <4>2
    <3>8. /\ lo <= 0 /\ 0 <= m /\ lo <= d + 1 /\ d + 1 <= m
          /\ g[0] = s /\ g[d + 1] = ScaledAll(c, p)
      BY <1>2, <3>1, <3>4, <3>5
    <3> QED
      BY <3>1, <3>2, <3>7, <3>8, OrbitBy
  <2> QED
    BY <1>2, <2>1, <2>2
<1>5. Orbit(s, DescaledAll(c, p), d - 1, p)
  <2>1. CASE lo < d
    <3>1. d - 1 \in lo .. hi - 1 /\ lo <= d - 1 /\ d - 1 <= hi /\ d - 1 \in Int /\ d - 1 + 1 = d
      BY <1>2, <2>1
    <3>2. h[d - 1] = DescaledAll(h[d - 1 + 1], p)
      BY <1>2, <3>1, Zenon
    <3>3. h[d - 1] = DescaledAll(c, p)
      BY <1>2, <3>1, <3>2
    <3> QED
      BY <1>2, <3>1, <3>3 DEF Orbit
  <2>2. CASE d = lo
    <3> DEFINE m == lo - 1
               g == [k \in m .. hi |-> IF k = m THEN DescaledAll(c, p) ELSE h[k]]
    <3>1. /\ m \in Int /\ m <= 0 /\ m <= d - 1 /\ d - 1 <= hi /\ d - 1 = m /\ m + 1 = lo
          /\ m \in m .. hi /\ lo \in lo .. hi /\ 0 \in lo .. hi
          /\ \A k \in m .. hi : k # m => k \in lo .. hi
          /\ \A k \in lo .. hi : k # m /\ k \in m .. hi
      BY <1>2, <2>2
    <3> HIDE DEF m
    <3>2. g \in [m .. hi -> Seq(Values)]
      BY <1>3, <3>1, ColumnsStay
    <3>3. \A k \in lo .. hi : g[k] = h[k]
      BY <3>1
    <3>4. g[m] = DescaledAll(c, p) /\ g[lo] = c
      BY <1>2, <2>2, <3>1, <3>3
    <3>5. g[0] = s
      BY <1>2, <3>1, <3>3
    <3>6. ScaledAll(g[m], p) = g[lo]
      BY <1>3, <3>4, ColumnsAreUndone, Zenon
    <3> HIDE DEF g
    <3>7. ASSUME NEW k \in m .. hi - 1
          PROVE  g[k + 1] = ScaledAll(g[k], p) /\ g[k] = DescaledAll(g[k + 1], p)
      <4>1. CASE k = m
        BY <3>1, <3>4, <3>6, <4>1
      <4>2. CASE k # m
        <5>1. k \in lo .. hi /\ k + 1 \in lo .. hi /\ k \in lo .. hi - 1
          BY <3>1, <4>2
        <5>2. g[k] = h[k] /\ g[k + 1] = h[k + 1]
          BY <3>3, <5>1, Zenon
        <5> QED
          BY <1>2, <5>1, <5>2, Zenon
      <4> QED
        BY <4>1, <4>2
    <3>8. /\ m <= 0 /\ 0 <= hi /\ m <= d - 1 /\ d - 1 <= hi
          /\ g[0] = s /\ g[d - 1] = DescaledAll(c, p)
      BY <1>2, <3>1, <3>4, <3>5
    <3> QED
      BY <3>1, <3>2, <3>7, <3>8, OrbitBy
  <2> QED
    BY <1>2, <2>1, <2>2
<1> QED
  BY <1>4, <1>5

(***************************************************************************)
(* The invariant                                                           *)
(***************************************************************************)

\* Of a place whose parameters are `p`
PlaceIs(p, row, first, d, fit) ==
  /\ row \in Seq(Values) /\ first \in Seq(Values) /\ d \in Int
  /\ p \in AnyParameters
  /\ fit \in Ranges \cup {Default, Other}
  /\ fit = Default => row = first /\ p = Reset
  /\ fit # Default /\ Proper(p) => Orbit(first, row, d, p)
  /\ fit \in Ranges => first \in Seq(Rat) /\ first # <<>> /\ p = FittedTo(first, fit)

ScalingInv ==
  /\ DOMAIN rows = Places /\ DOMAIN since = Places /\ DOMAIN depth = Places /\ DOMAIN fitted = Places
  /\ \A p, q \in Places : Len(rows[p]) = Len(rows[q])
  /\ parameters = NULL \/ DOMAIN parameters = Places
  /\ parameters = NULL => fitted = [place \in Places |-> Default]
  /\ \A place \in Places : PlaceIs(Allocated[place], rows[place], since[place], depth[place], fitted[place])

(* The ranges, the default and no range are told apart.                    *)
LEMMA Fits ==
  Default \notin Ranges /\ Other \notin Ranges /\ Other # Default
<1>1. Ranges \subseteq Int \X Int
  BY ScalingAssumption
<1>2. ASSUME NEW r \in Int \X Int
      PROVE  r # Default /\ r # Other
  BY DEF Default, Other
<1>3. Other # Default
  BY DEF Default, Other
<1> QED
  BY <1>1, <1>2, <1>3

(* What resets parameters are parameters.                                  *)
LEMMA ResetIs == Reset \in AnyParameters
<1>1. Num(0) \in Rat /\ Num(1) \in Rat /\ Num(-1) \in Rat
  BY NumIs
<1> QED
  BY <1>1 DEF Reset, AnyParameters

(* They change nothing of a column.                                        *)
LEMMA ResetLeaves ==
  ASSUME NEW c \in Seq(Values)
  PROVE  ScaledAll(c, Reset) = c /\ DescaledAll(c, Reset) = c
<1>1. DOMAIN c = 1 .. Len(c) /\ Len(c) \in Nat /\ \A i \in DOMAIN c : c[i] \in Values
  OBVIOUS
<1>2. c = [i \in DOMAIN c |-> c[i]]
  OBVIOUS
<1>3. /\ [i \in DOMAIN c |-> Scaled(c[i], Reset)] = [i \in DOMAIN c |-> c[i]]
      /\ [i \in DOMAIN c |-> Descaled(c[i], Reset)] = [i \in DOMAIN c |-> c[i]]
  BY <1>1, ResetChangesNothing, Zenon
<1> QED
  BY <1>2, <1>3, Zenon DEF ScaledAll, DescaledAll

(* What is fitted to a column with rows are parameters.                    *)
LEMMA FittedIs ==
  ASSUME NEW c \in Seq(Rat), c # <<>>, NEW range \in Ranges
  PROVE  FittedTo(c, range) \in AnyParameters
<1>1. range[1] \in Int /\ range[2] \in Int
  BY ScalingAssumption
<1>2. Mean(c) \in Rat /\ Deviation(c) \in Rat
  <2>1. Len(c) \in Nat /\ Len(c) > 0
    OBVIOUS
  <2> QED
    BY <2>1, MeanIs, DeviationIs
<1>3. /\ Num(range[1]) \in Rat /\ Num(range[2]) \in Rat
      /\ Num(1) \in Rat /\ old_min \in Rat
      /\ Equals(Num(1), 1, 1) /\ Equals(old_min, -1, 1)
  BY <1>1, NumIs DEF old_min
<1>4. Sub(Num(1), old_min) \in Rat /\ Sub(Num(1), old_min) # Num(0)
  <2>1. Equals(Sub(Num(1), old_min), 1 * 1 - (-1) * 1, 1 * 1)
    BY <1>3, SubIs
  <2> DEFINE x == Sub(Num(1), old_min)
  <2>2. x \in Rat /\ x[1] * (1 * 1) = (1 * 1 - (-1) * 1) * x[2]
    BY <2>1 DEF Equals
  <2>3. x[2] > 0 /\ x[1] \in Int /\ x[2] \in Int
    BY <2>2, RatIs
  <2> HIDE DEF x
  <2>4. x[1] # 0
    BY <2>2, <2>3
  <2>5. x # Num(0)
    BY <2>2, <2>4, Closed
  <2> QED
    BY <2>2, <2>5 DEF x
<1>5. FittedTo(c, range).factor \in Rat
  BY <1>3, <1>4, Closed DEF FittedTo
<1> QED
  BY <1>2, <1>3, <1>5 DEF FittedTo, AnyParameters

(* The places are finitely many, and there is one of each side.            *)
LEMMA PlacesAre ==
  /\ IsFiniteSet(Places)
  /\ <<"in", 1>> \in Places /\ <<"out", 1>> \in Places
  /\ \A place \in Places : place[1] \in Sides
  /\ \A sides \in SUBSET Sides : Of(sides) \subseteq Places
<1>1. num_input \in Nat /\ num_input > 0 /\ num_output \in Nat /\ num_output > 0
  BY ScalingAssumption
<1>2. IsFiniteSet({"in"} \X (1 .. num_input)) /\ IsFiniteSet({"out"} \X (1 .. num_output))
  <2>1. /\ IsFiniteSet(1 .. num_input) /\ IsFiniteSet(1 .. num_output)
        /\ IsFiniteSet({"in"}) /\ IsFiniteSet({"out"})
    <3>1. 1 \in Int /\ num_input \in Int /\ num_output \in Int
      BY <1>1
    <3>2. IsFiniteSet(1 .. num_input) /\ IsFiniteSet(1 .. num_output)
      BY <3>1, FS_Interval
    <3> QED
      BY <3>2, FS_Singleton
  <2> QED
    BY <2>1, FS_Product
<1>3. IsFiniteSet(Places)
  BY <1>2, FS_Union DEF Places
<1>4. <<"in", 1>> \in Places /\ <<"out", 1>> \in Places
  BY <1>1 DEF Places
<1>5. \A place \in Places : place[1] \in Sides
  BY DEF Places, Sides
<1> QED
  BY <1>3, <1>4, <1>5 DEF Of

(* The values of one side are those of its columns.                        *)
LEMMA InBlock ==
  ASSUME NEW data, NEW side, NEW z
  PROVE  z \in Block(data, side)
           <=> \E place \in Of({side}) : \E i \in DOMAIN data[place] : z = data[place][i]
<1>1. z \in Block(data, side) <=> \E place \in Of({side}) : z \in Range(data[place])
  BY Zenon DEF Block
<1>2. \A place : z \in Range(data[place]) <=> \E i \in DOMAIN data[place] : z = data[place][i]
  BY Zenon DEF Range
<1> QED
  BY <1>1, <1>2, Zenon

(* All the values of one side, of a set with rows and numbers only.        *)
LEMMA BlockIs ==
  ASSUME NEW data, NEW side \in Sides,
         \A place \in Of({side}) : data[place] \in Seq(Rat) /\ data[place] # <<>>
  PROVE  /\ Block(data, side) \in SUBSET Rat /\ Block(data, side) # {}
         /\ IsFiniteSet(Block(data, side))
<1>1. ASSUME NEW place \in Of({side})
      PROVE  Range(data[place]) \subseteq Rat /\ IsFiniteSet(Range(data[place]))
  <2>1. /\ DOMAIN data[place] = 1 .. Len(data[place]) /\ Len(data[place]) \in Nat
        /\ \A i \in DOMAIN data[place] : data[place][i] \in Rat
    OBVIOUS
  <2>2. IsFiniteSet(Range(data[place]))
    <3>1. data[place] \in Seq(Range(data[place]))
      BY <2>1 DEF Range
    <3>2. \A x \in Range(data[place]) : \E i \in 1 .. Len(data[place]) : data[place][i] = x
      BY <2>1 DEF Range
    <3> QED
      BY <3>1, <3>2 DEF IsFiniteSet
  <2>3. Range(data[place]) \subseteq Rat
    BY <2>1 DEF Range
  <2> QED
    BY <2>2, <2>3
<1>2. \E place \in Of({side}) : 1 \in DOMAIN data[place]
  <2>1. PICK place \in Places : place[1] = side
    BY PlacesAre DEF Sides
  <2>2. place \in Of({side})
    BY <2>1 DEF Of
  <2>3. data[place] \in Seq(Rat) /\ data[place] # <<>>
    BY <2>2
  <2>4. 1 \in DOMAIN data[place]
    BY <2>3
  <2> QED
    BY <2>2, <2>4
<1> DEFINE f == [place \in Of({side}) |-> Range(data[place])]
           columns == {Range(data[place]) : place \in Of({side})}
<1>3. IsFiniteSet(columns)
  <2>1. f \in Surjection(Of({side}), columns)
    BY DEF Surjection
  <2>2. IsFiniteSet(Of({side}))
    <3>1. Of({side}) \subseteq Places
      BY DEF Of
    <3> QED
      BY <3>1, PlacesAre, FS_Subset
  <2> QED
    BY <2>1, <2>2, FS_Surjection
<1>4. IsFiniteSet(UNION columns)
  <2>1. \A T \in columns : IsFiniteSet(T)
    BY <1>1
  <2> HIDE DEF columns
  <2> QED
    BY <1>3, <2>1, FS_UNION
<1>5. Block(data, side) = UNION columns
  BY DEF Block
<1>6. UNION columns \in SUBSET Rat
  BY <1>1
<1>7. Block(data, side) # {}
  <2>1. PICK place \in Of({side}) : 1 \in DOMAIN data[place]
    BY <1>2
  <2>2. data[place][1] \in Block(data, side)
    BY <2>1, InBlock, Zenon
  <2> QED
    BY <2>2
<1> HIDE DEF columns
<1> QED
  BY <1>4, <1>5, <1>6, <1>7

(* A column that was scaled to a range.                                    *)
LEMMA ToRangeIs ==
  ASSUME NEW block \in SUBSET Rat, block # {}, IsFiniteSet(block), NEW range \in Ranges,
         NEW c \in Seq(Rat)
  PROVE  /\ [i \in DOMAIN c |-> ToRange(c[i], block, range)] \in Seq(Values)
         /\ Len([i \in DOMAIN c |-> ToRange(c[i], block, range)]) = Len(c)
<1>1. DOMAIN c = 1 .. Len(c) /\ Len(c) \in Nat /\ \A i \in DOMAIN c : c[i] \in Rat
  OBVIOUS
<1>2. range[1] \in Int /\ range[2] \in Int
  BY ScalingAssumption
<1>3. Num(range[1]) \in Values /\ Num(range[2]) \in Values /\ Rat \subseteq Values
  BY <1>2, NumIs DEF Values
<1>4. Least(block) \in Values /\ Greatest(block) \in Values
  BY <1>3, Extremes
<1> DEFINE factor == Div(Sub(Num(range[2]), Num(range[1])), Sub(Greatest(block), Least(block)))
           to(x) == Clipped(Add(Mul(Sub(x, Least(block)), factor), Num(range[1])), range)
<1>5. factor \in Values
  BY <1>3, <1>4, AlwaysValues
<1>6. \A x \in Rat : to(x) \in Values
  <2> HIDE DEF factor
  <2>1. ASSUME NEW x \in Rat
        PROVE  Add(Mul(Sub(x, Least(block)), factor), Num(range[1])) \in Values
    BY <1>3, <1>4, <1>5, AlwaysValues
  <2> QED
    BY <1>3, <2>1 DEF Clipped
<1>7. \A x : ToRange(x, block, range) = to(x)
  BY DEF ToRange
<1> HIDE DEF to
<1> DEFINE t == [i \in DOMAIN c |-> ToRange(c[i], block, range)]
<1>8. t \in [1 .. Len(c) -> Values]
  BY <1>1, <1>6, <1>7
<1> QED
  BY <1>1, <1>8

(* A column of whole numbers.                                              *)
LEMMA ColumnIs ==
  ASSUME NEW c \in Columns
  PROVE  Each(c, Num) \in Seq(Values) /\ Len(Each(c, Num)) = Len(c)
<1>1. c \in Seq(Int)
  BY ScalingAssumption
<1>2. DOMAIN c = 1 .. Len(c) /\ Len(c) \in Nat /\ \A i \in DOMAIN c : c[i] \in Int
  BY <1>1
<1>3. \A i \in DOMAIN c : Num(c[i]) \in Values
  BY <1>2, NumIs DEF Values
<1>4. Each(c, Num) = [i \in DOMAIN c |-> Num(c[i])]
  BY DEF Each
<1>5. Each(c, Num) \in [1 .. Len(c) -> Values]
  BY <1>2, <1>3, <1>4, Zenon
<1> QED
  BY <1>2, <1>5

(* Another data set.                                                       *)
LEMMA DataIs ==
  ASSUME NEW data \in Data
  PROVE  /\ DOMAIN Numbers(data) = Places
         /\ \A place \in Places : Numbers(data)[place] \in Seq(Values)
         /\ \A p, q \in Places : Len(Numbers(data)[p]) = Len(Numbers(data)[q])
<1>1. /\ \A place \in Places : data[place] \in Columns
      /\ \A p, q \in Places : Len(data[p]) = Len(data[q])
  BY DEF Data
<1>2. \A place \in Places : Numbers(data)[place] = Each(data[place], Num)
  BY DEF Numbers
<1>3. \A place \in Places :
        /\ Numbers(data)[place] \in Seq(Values)
        /\ Len(Numbers(data)[place]) = Len(data[place])
  BY <1>1, <1>2, ColumnIs
<1> QED
  BY <1>1, <1>3 DEF Numbers

(* A column that is looked at anew.                                        *)
LEMMA Anew ==
  ASSUME NEW p \in AnyParameters, NEW row \in Seq(Values),
         NEW fit \in Ranges \cup {Default, Other},
         fit = Default => p = Reset,
         fit \in Ranges => row \in Seq(Rat) /\ row # <<>> /\ p = FittedTo(row, fit)
  PROVE  PlaceIs(p, row, row, 0, fit)
<1>1. Orbit(row, row, 0, p)
  BY OrbitIs
<1> QED
  BY <1>1 DEF PlaceIs

(* A column that is scaled or descaled.                                    *)
LEMMA OnceMore ==
  ASSUME NEW p, NEW row, NEW first, NEW d, NEW fit, PlaceIs(p, row, first, d, fit)
  PROVE  /\ PlaceIs(p, ScaledAll(row, p), first, d + 1, fit)
         /\ PlaceIs(p, DescaledAll(row, p), first, d - 1, fit)
         /\ Len(ScaledAll(row, p)) = Len(row) /\ Len(DescaledAll(row, p)) = Len(row)
<1>1. /\ row \in Seq(Values) /\ p \in AnyParameters /\ d \in Int
      /\ fit = Default => row = first /\ p = Reset
      /\ fit # Default /\ Proper(p) => Orbit(first, row, d, p)
  BY DEF PlaceIs
<1>2. /\ ScaledAll(row, p) \in Seq(Values) /\ Len(ScaledAll(row, p)) = Len(row)
      /\ DescaledAll(row, p) \in Seq(Values) /\ Len(DescaledAll(row, p)) = Len(row)
  BY <1>1, ColumnsStay
<1>3. ASSUME fit = Default
      PROVE  ScaledAll(row, p) = first /\ DescaledAll(row, p) = first
  BY <1>1, <1>3, ResetLeaves
<1>4. ASSUME fit # Default, Proper(p)
      PROVE  /\ Orbit(first, ScaledAll(row, p), d + 1, p)
             /\ Orbit(first, DescaledAll(row, p), d - 1, p)
  BY <1>1, <1>4, OrbitGoesOn
<1>5. d + 1 \in Int /\ d - 1 \in Int
  BY <1>1
<1> QED
  BY <1>1, <1>2, <1>3, <1>4, <1>5, Zenon DEF PlaceIs

(* NULL is not the parameters of the sides.                                *)
LEMMA NullIs == \A f : DOMAIN f = Places => f # NULL
<1>1. DOMAIN NULL = {} /\ Places # {}
  BY PlacesAre DEF NULL
<1> QED
  BY <1>1

(* What is allocated is parameters.                                        *)
LEMMA AllocatedIs ==
  ASSUME ScalingInv
  PROVE  /\ \A place \in Places : Allocated[place] \in AnyParameters
         /\ parameters # NULL => Allocated = parameters
  BY DEF ScalingInv, PlaceIs, Allocated

(* Without parameters there is nothing but defaults.                       *)
LEMMA NoneIs ==
  ASSUME ScalingInv, NEW place \in Places
  PROVE  /\ fitted[place] \in Ranges \cup {Default, Other}
         /\ rows[place] \in Seq(Values)
         /\ Refitted(place) \in {Default, Other}
         /\ Refitted(place) = Default <=> fitted[place] = Default
         /\ parameters = NULL => fitted[place] = Default
         /\ fitted[place] = Default => Allocated[place] = Reset
  BY Fits DEF ScalingInv, PlaceIs, Refitted

(* The program starts in the invariant.                                    *)
LEMMA StartsInScaling == Init => ScalingInv
<1> SUFFICES ASSUME Init
             PROVE  ScalingInv
  OBVIOUS
<1>1. PICK data \in Data : rows = Numbers(data)
  BY Zenon DEF Init
<1>2. /\ parameters = NULL /\ since = rows
      /\ depth = [place \in Places |-> 0] /\ fitted = [place \in Places |-> Default]
  BY DEF Init
<1>3. /\ DOMAIN rows = Places /\ DOMAIN since = Places
      /\ DOMAIN depth = Places /\ DOMAIN fitted = Places
      /\ \A place \in Places : rows[place] \in Seq(Values)
  BY <1>1, <1>2, DataIs
<1>4. \A p, q \in Places : Len(rows[p]) = Len(rows[q])
  BY <1>1, DataIs
<1>5. ASSUME NEW place \in Places
      PROVE  PlaceIs(Allocated[place], rows[place], since[place], depth[place], fitted[place])
  <2>1. rows[place] \in Seq(Values)
    BY <1>3
  <2>2. Allocated[place] = Reset /\ since[place] = rows[place] /\ depth[place] = 0
        /\ fitted[place] = Default
    BY <1>2 DEF Allocated
  <2> QED
    BY <2>1, <2>2, Anew, ResetIs, Fits
<1> QED
  BY <1>2, <1>3, <1>4, <1>5 DEF ScalingInv

(* Parameters are set.                                                     *)
LEMMA SettingKeeps ==
  ASSUME ScalingInv, NEW places \in SUBSET Places, NEW values, NEW ranges,
         \A place \in places :
           /\ values[place] \in AnyParameters
           /\ ranges[place] \in Ranges \cup {Default}
           /\ ranges[place] = Default => values[place] = Reset
           /\ ranges[place] \in Ranges =>
                rows[place] \in Seq(Rat) /\ rows[place] # <<>>
                  /\ values[place] = FittedTo(rows[place], ranges[place]),
         ParametersSet(places, values, ranges)
  PROVE  ScalingInv'
<1>1. /\ parameters' = [place \in Places |->
           IF place \in places THEN values[place] ELSE Allocated[place]]
      /\ fitted' = [place \in Places |-> IF place \in places THEN ranges[place] ELSE fitted[place]]
      /\ since' = [place \in Places |-> IF place \in places THEN rows[place] ELSE since[place]]
      /\ depth' = [place \in Places |-> IF place \in places THEN 0 ELSE depth[place]]
      /\ rows' = rows
  BY DEF ParametersSet
<1>2. DOMAIN parameters' = Places /\ parameters' # NULL
  BY <1>1, NullIs
<1>3. Allocated' = parameters'
  BY <1>2 DEF Allocated
<1>4. ASSUME NEW place \in Places
      PROVE  PlaceIs(Allocated'[place], rows'[place], since'[place], depth'[place], fitted'[place])
  <2>1. CASE place \in places
    <3>1. /\ parameters'[place] = values[place] /\ fitted'[place] = ranges[place]
          /\ since'[place] = rows[place] /\ depth'[place] = 0
      BY <1>1, <2>1
    <3>2. PlaceIs(values[place], rows[place], rows[place], 0, ranges[place])
      BY <2>1, Anew, NoneIs
    <3> QED
      BY <1>1, <1>3, <3>1, <3>2
  <2>2. CASE place \notin places
    <3>1. /\ parameters'[place] = Allocated[place] /\ fitted'[place] = fitted[place]
          /\ since'[place] = since[place] /\ depth'[place] = depth[place]
      BY <1>1, <2>2
    <3> QED
      BY <1>1, <1>3, <3>1 DEF ScalingInv
  <2> QED
    BY <2>1, <2>2
<1>5. /\ DOMAIN rows' = Places /\ DOMAIN since' = Places
      /\ DOMAIN depth' = Places /\ DOMAIN fitted' = Places
      /\ \A p, q \in Places : Len(rows'[p]) = Len(rows'[q])
  BY <1>1 DEF ScalingInv
<1> QED
  BY <1>2, <1>4, <1>5 DEF ScalingInv

(* The rows are scaled or descaled.                                        *)
LEMMA MovingKeeps ==
  ASSUME ScalingInv, NEW places \in SUBSET Places,
         Moved(places, Scaled, 1) \/ Moved(places, Descaled, -1)
  PROVE  ScalingInv'
<1>2. CASE parameters = NULL
  <2>1. UNCHANGED <<parameters, since, fitted, rows, depth>>
    BY <1>2 DEF Moved
  <2> QED
    BY <2>1 DEF ScalingInv, Allocated
<1>3. CASE parameters # NULL
  <2>1. PICK way \in {1, -1} :
          /\ rows' = [place \in Places |->
               IF place \in places
               THEN IF way = 1 THEN ScaledAll(rows[place], parameters[place])
                    ELSE DescaledAll(rows[place], parameters[place])
               ELSE rows[place]]
          /\ depth' = [place \in Places |->
               IF place \in places THEN depth[place] + way ELSE depth[place]]
    <3>1. CASE Moved(places, Scaled, 1)
      BY <1>3, <3>1 DEF Moved, Each, ScaledAll
    <3>2. CASE Moved(places, Descaled, -1)
      BY <1>3, <3>2 DEF Moved, Each, DescaledAll
    <3> QED
      BY <3>1, <3>2
  <2>2. UNCHANGED <<parameters, since, fitted>>
    BY DEF Moved
  <2>3. Allocated = parameters /\ Allocated' = parameters
    BY <1>3, <2>2 DEF Allocated
  <2>4. ASSUME NEW place \in Places
        PROVE  /\ PlaceIs(Allocated'[place], rows'[place], since'[place], depth'[place], fitted'[place])
               /\ Len(rows'[place]) = Len(rows[place])
    <3>1. PlaceIs(parameters[place], rows[place], since[place], depth[place], fitted[place])
      BY <2>3 DEF ScalingInv
    <3>2. CASE place \in places /\ way = 1
      <4>1. /\ rows'[place] = ScaledAll(rows[place], parameters[place])
            /\ depth'[place] = depth[place] + 1
        BY <2>1, <3>2
      <4> QED
        BY <2>2, <2>3, <3>1, <4>1, OnceMore
    <3>3. CASE place \in places /\ way # 1
      <4>1. /\ rows'[place] = DescaledAll(rows[place], parameters[place])
            /\ depth'[place] = depth[place] - 1
        <5>1. depth[place] \in Int
          BY <3>1 DEF PlaceIs
        <5> QED
          BY <2>1, <3>3, <5>1
      <4> QED
        BY <2>2, <2>3, <3>1, <4>1, OnceMore
    <3>4. CASE place \notin places
      <4>1. rows'[place] = rows[place] /\ depth'[place] = depth[place]
        BY <2>1, <3>4
      <4> QED
        BY <2>2, <2>3, <3>1, <4>1
    <3> QED
      BY <3>2, <3>3, <3>4
  <2>5. DOMAIN rows' = Places /\ DOMAIN depth' = Places
    BY <2>1
  <2>6. \A p, q \in Places : Len(rows'[p]) = Len(rows'[q])
    BY <2>4 DEF ScalingInv
  <2> QED
    BY <2>2, <2>4, <2>5, <2>6 DEF ScalingInv
<1> QED
  BY <1>2, <1>3

(* A column that is not broken has numbers only.                           *)
LEMMA WholeIs ==
  ASSUME NEW c \in Seq(Values), ~Broken(c)
  PROVE  c \in Seq(Rat)
<1>1. DOMAIN c = 1 .. Len(c) /\ Len(c) \in Nat /\ \A i \in DOMAIN c : c[i] \in Values
  OBVIOUS
<1>2. \A i \in DOMAIN c : c[i] # NaN
  BY DEF Broken, Range
<1>3. \A i \in DOMAIN c : c[i] \in Rat
  BY <1>1, <1>2 DEF Values
<1> QED
  BY <1>1, <1>3

(* All columns have rows or none has.                                      *)
LEMMA EmptyIs ==
  ASSUME ScalingInv, NEW p \in Places, NEW q \in Places, rows[p] = <<>>
  PROVE  rows[q] = <<>>
<1>1. rows[p] \in Seq(Values) /\ rows[q] \in Seq(Values) /\ Len(rows[p]) = Len(rows[q])
  BY NoneIs DEF ScalingInv
<1> QED
  BY <1>1

(* A set that is scaled to a range.                                        *)
LEMMA RowsAre ==
  ASSUME ScalingInv, NEW sides \in SomeSides, fann_scale_train_data(sides)
  PROVE  /\ sides \subseteq Sides
         /\ \A place \in Of(sides) :
              place \in Places /\ place[1] \in sides /\ place[1] \in Sides
                /\ rows[place] \in Seq(Rat) /\ rows[place] # <<>>
         /\ \A place \in Of(sides) :
              /\ Block(rows, place[1]) \in SUBSET Rat /\ Block(rows, place[1]) # {}
              /\ IsFiniteSet(Block(rows, place[1]))
<1>1. sides \subseteq Sides
  BY DEF SomeSides, Sides
<1>2. ASSUME NEW place \in Of(sides)
      PROVE  /\ place \in Places /\ place[1] \in sides /\ place[1] \in Sides
             /\ rows[place] \in Seq(Rat) /\ rows[place] # <<>>
  <2>1. place \in Places /\ place[1] \in sides
    BY DEF Of
  <2>2. rows[place] # <<>> /\ ~Broken(rows[place])
    BY DEF fann_scale_train_data
  <2> QED
    BY <1>1, <2>1, <2>2, NoneIs, WholeIs
<1>3. \A side \in sides : Of({side}) \subseteq Of(sides)
  BY DEF Of
<1> QED
  BY <1>1, <1>2, <1>3, BlockIs

(* Every step leaves the invariant.                                        *)
LEMMA ScalingStays == ScalingInv /\ [Next]_vars => ScalingInv'
<1> SUFFICES ASSUME ScalingInv, [Next]_vars
             PROVE  ScalingInv'
  OBVIOUS
<1>1. CASE UNCHANGED vars
  BY <1>1 DEF vars, ScalingInv, Allocated
<1>2. CASE NetworkFreed
  BY <1>2 DEF NetworkFreed, ScalingInv, Allocated
<1>3. ASSUME NEW sides \in SomeSides, fann_set_scaling_params(sides)
      PROVE  ScalingInv'
  <2> DEFINE empty == \A place \in Places : rows[place] = <<>>
             places == Of(sides)
  <2>1. sides \in SUBSET Sides /\ places \in SUBSET Places
    BY PlacesAre DEF SomeSides, Sides
  <2>2. \A place \in places : place[1] \in sides
    BY DEF Of
  <2>3. ASSUME NEW range \in [sides -> Ranges],
               ParametersSet(places,
                 [place \in places |->
                    IF empty THEN Reset ELSE FittedTo(rows[place], range[place[1]])],
                 [place \in places |-> IF empty THEN Default ELSE range[place[1]]])
        PROVE  ScalingInv'
    <3> DEFINE values == [place \in places |->
                 IF empty THEN Reset ELSE FittedTo(rows[place], range[place[1]])]
               ranges == [place \in places |-> IF empty THEN Default ELSE range[place[1]]]
    <3>1. ASSUME NEW place \in places
          PROVE  /\ values[place] \in AnyParameters
                 /\ ranges[place] \in Ranges \cup {Default}
                 /\ ranges[place] = Default => values[place] = Reset
                 /\ ranges[place] \in Ranges =>
                      rows[place] \in Seq(Rat) /\ rows[place] # <<>>
                        /\ values[place] = FittedTo(rows[place], ranges[place])
      <4>1. place \in Places /\ range[place[1]] \in Ranges
        BY <2>1, <2>2
      <4>2. rows[place] \in Seq(Rat)
        BY <1>3, <4>1, NoneIs, WholeIs DEF fann_set_scaling_params
      <4>3. ~empty => rows[place] # <<>>
        BY <4>1, EmptyIs
      <4> HIDE DEF empty, places
      <4>4. CASE empty
        <5>1. values[place] = Reset /\ ranges[place] = Default
          BY <4>4
        <5> QED
          BY <5>1, ResetIs, Fits
      <4>5. CASE ~empty
        <5>1. /\ values[place] = FittedTo(rows[place], range[place[1]])
              /\ ranges[place] = range[place[1]]
          BY <4>5
        <5> QED
          BY <4>1, <4>2, <4>3, <4>5, <5>1, FittedIs, Fits
      <4> QED
        BY <4>4, <4>5
    <3>2. ParametersSet(places, values, ranges)
      BY <2>3
    <3> HIDE DEF values, ranges, places
    <3> QED
      BY <2>1, <3>1, <3>2, SettingKeeps
  <2> QED
    BY <1>2, <1>3, <2>3 DEF fann_set_scaling_params
<1>4. CASE fann_clear_scaling_params
  <2>1. CASE ParametersSet(Places,
               [place \in Places |-> Reset], [place \in Places |-> Default])
    <3> DEFINE values == [place \in Places |-> Reset]
               ranges == [place \in Places |-> Default]
    <3>1. \A place \in Places : values[place] = Reset /\ ranges[place] = Default
      OBVIOUS
    <3>2. ParametersSet(Places, values, ranges)
      BY <2>1
    <3> HIDE DEF values, ranges
    <3>3. \A place \in Places :
            /\ values[place] \in AnyParameters
            /\ ranges[place] \in Ranges \cup {Default}
            /\ ranges[place] = Default => values[place] = Reset
            /\ ranges[place] \in Ranges =>
                 rows[place] \in Seq(Rat) /\ rows[place] # <<>>
                   /\ values[place] = FittedTo(rows[place], ranges[place])
      BY <3>1, ResetIs, Fits
    <3> QED
      BY <3>2, <3>3, SettingKeeps
  <2> QED
    BY <1>2, <1>4, <2>1 DEF fann_clear_scaling_params
<1>5. ASSUME NEW sides \in SomeSides, fann_scale(sides) \/ fann_descale(sides)
      PROVE  ScalingInv'
  <2>1. Of(sides) \in SUBSET Places
    BY DEF Of
  <2> QED
    BY <1>5, <2>1, MovingKeeps DEF fann_scale, fann_descale
<1>6. ASSUME NEW sides \in SomeSides, fann_scale_train_data(sides)
      PROVE  ScalingInv'
  <2>1. PICK range \in Ranges :
          rows' = [place \in Places |->
            IF place \in Of(sides)
            THEN [i \in DOMAIN rows[place] |->
                    ToRange(rows[place][i], Block(rows, place[1]), range)]
            ELSE rows[place]]
    BY <1>6 DEF fann_scale_train_data, Each
  <2>2. /\ since' = [place \in Places |->
             IF place \in Of(sides) THEN rows'[place] ELSE since[place]]
        /\ fitted' = [place \in Places |->
             IF place \in Of(sides) THEN Refitted(place) ELSE fitted[place]]
        /\ depth' = [place \in Places |-> IF place \in Of(sides) THEN 0 ELSE depth[place]]
        /\ parameters' = parameters
    BY <1>6 DEF fann_scale_train_data
  <2>3. Allocated' = Allocated
    BY <2>2 DEF Allocated
  <2>4. ASSUME NEW place \in Places
        PROVE  /\ PlaceIs(Allocated'[place], rows'[place], since'[place], depth'[place],
                          fitted'[place])
               /\ Len(rows'[place]) = Len(rows[place])
               /\ parameters = NULL => fitted'[place] = Default
    <3>1. CASE place \in Of(sides)
      <4> DEFINE block == Block(rows, place[1])
      <4>1. /\ rows'[place] = [i \in DOMAIN rows[place] |->
                                 ToRange(rows[place][i], block, range)]
            /\ since'[place] = rows'[place]
            /\ depth'[place] = 0 /\ fitted'[place] = Refitted(place)
        BY <2>1, <2>2, <3>1
      <4>2. /\ place[1] \in Sides /\ rows[place] \in Seq(Rat)
            /\ block \in SUBSET Rat /\ block # {} /\ IsFiniteSet(block)
        BY <1>6, <3>1, RowsAre
      <4> HIDE DEF block
      <4>3. rows'[place] \in Seq(Values) /\ Len(rows'[place]) = Len(rows[place])
        BY <4>1, <4>2, ToRangeIs
      <4>4. PlaceIs(Allocated[place], rows'[place], rows'[place], 0, Refitted(place))
        BY <4>3, Anew, NoneIs, AllocatedIs, Fits
      <4> QED
        BY <2>3, <4>1, <4>3, <4>4, NoneIs
    <3>2. CASE place \notin Of(sides)
      <4>1. /\ rows'[place] = rows[place] /\ since'[place] = since[place]
            /\ depth'[place] = depth[place] /\ fitted'[place] = fitted[place]
        BY <2>1, <2>2, <3>2
      <4> QED
        BY <2>3, <4>1, NoneIs DEF ScalingInv
    <3> QED
      BY <3>1, <3>2
  <2>5. /\ DOMAIN rows' = Places /\ DOMAIN since' = Places
        /\ DOMAIN depth' = Places /\ DOMAIN fitted' = Places
    BY <2>1, <2>2
  <2>6. \A p, q \in Places : Len(rows'[p]) = Len(rows'[q])
    BY <2>4 DEF ScalingInv
  <2>7. parameters = NULL => fitted' = [place \in Places |-> Default]
    <3>1. DOMAIN fitted' = Places /\ fitted' = [place \in DOMAIN fitted' |-> fitted'[place]]
      BY <2>2
    <3> QED
      BY <2>4, <3>1
  <2> QED
    BY <2>2, <2>4, <2>5, <2>6, <2>7 DEF ScalingInv
<1>7. ASSUME NewData, parameters' = parameters \/ parameters' = NULL,
             parameters' = parameters => fitted' = [place \in Places |-> Refitted(place)],
             parameters' # parameters => fitted' = [place \in Places |-> Default]
      PROVE  ScalingInv'
  <2>1. PICK data \in Data : rows' = Numbers(data)
    BY <1>7 DEF NewData
  <2>2. since' = rows' /\ depth' = [place \in Places |-> 0]
    BY <1>7 DEF NewData
  <2>3. /\ DOMAIN rows' = Places /\ DOMAIN since' = Places /\ DOMAIN depth' = Places
        /\ DOMAIN fitted' = Places
        /\ \A place \in Places : rows'[place] \in Seq(Values)
        /\ \A p, q \in Places : Len(rows'[p]) = Len(rows'[q])
    BY <1>7, <2>1, <2>2, DataIs
  <2>4. ASSUME NEW place \in Places
        PROVE  /\ PlaceIs(Allocated'[place], rows'[place], since'[place], depth'[place],
                          fitted'[place])
               /\ parameters' = NULL => fitted'[place] = Default
    <3>1. rows'[place] \in Seq(Values)
      BY <2>3
    <3>2. since'[place] = rows'[place] /\ depth'[place] = 0
      BY <2>2
    <3>3. CASE parameters' = parameters
      <4>1. Allocated' = Allocated /\ fitted'[place] = Refitted(place)
        BY <1>7, <3>3 DEF Allocated
      <4>2. PlaceIs(Allocated[place], rows'[place], rows'[place], 0, Refitted(place))
        BY <3>1, Anew, NoneIs, AllocatedIs, Fits
      <4> QED
        BY <3>2, <3>3, <4>1, <4>2, NoneIs
    <3>4. CASE parameters' # parameters
      <4>1. Allocated'[place] = Reset /\ fitted'[place] = Default
        BY <1>7, <3>4 DEF Allocated
      <4>2. PlaceIs(Reset, rows'[place], rows'[place], 0, Default)
        BY <3>1, Anew, ResetIs, Fits
      <4> QED
        BY <3>2, <4>1, <4>2
    <3> QED
      BY <3>3, <3>4
  <2>5. parameters' = NULL => fitted' = [place \in Places |-> Default]
    <3>1. fitted' = [place \in DOMAIN fitted' |-> fitted'[place]]
      BY <1>7
    <3> QED
      BY <2>3, <2>4, <3>1
  <2>6. parameters' = NULL \/ DOMAIN parameters' = Places
    BY <1>7 DEF ScalingInv
  <2> QED
    BY <2>3, <2>4, <2>5, <2>6 DEF ScalingInv
<1>8. CASE OtherData
  BY <1>7, <1>8 DEF OtherData
<1>9. CASE Restart
  <2>1. parameters' = NULL /\ NewData /\ fitted' = [place \in Places |-> Default]
    BY <1>9 DEF Restart
  <2>2. parameters' = parameters => fitted' = [place \in Places |-> Refitted(place)]
    BY <2>1, NoneIs, Zenon
  <2> QED
    BY <1>7, <2>1, <2>2
<1>10. CASE Mismatched
  BY <1>10 DEF Mismatched, ScalingInv, Allocated
<1> QED
  BY <1>1, <1>3, <1>4, <1>5, <1>6, <1>8, <1>9, <1>10 DEF Next

(* The invariant holds at every moment: the columns have as many rows as    *)
(* each other, the parameters are numbers, and each column is what the data *)
(* of its parameters is when it is scaled as often as it was (scale_train,  *)
(* descale_train).                                                         *)
THEOREM ScalingInvariant == Spec => []ScalingInv
BY StartsInScaling, ScalingStays, PTL DEF Spec

(* What was scaled and descaled as often is as it was.                     *)
LEMMA Undone == ScalingInv => DescaleUndoesScale
<1> SUFFICES ASSUME ScalingInv, parameters # NULL, NEW place \in Places,
                    parameters[place].deviation # Num(0), parameters[place].factor # Num(0),
                    depth[place] = 0 \/ fitted[place] = Default
             PROVE  rows[place] = since[place]
  BY DEF DescaleUndoesScale
<1>1. PlaceIs(parameters[place], rows[place], since[place], depth[place], fitted[place])
  BY AllocatedIs DEF ScalingInv
<1>2. CASE fitted[place] = Default
  BY <1>1, <1>2 DEF PlaceIs
<1>3. CASE fitted[place] # Default
  <2>1. Proper(parameters[place])
    BY <1>1 DEF PlaceIs, AnyParameters, Proper
  <2>2. Orbit(since[place], rows[place], depth[place], parameters[place]) /\ depth[place] = 0
    BY <1>1, <1>3, <2>1 DEF PlaceIs
  <2> QED
    BY <2>2, OrbitIs
<1> QED
  BY <1>2, <1>3

(* Whatever the columns, the ranges and the order of the calls, data that   *)
(* was scaled with fann_scale_train and descaled as often with             *)
(* fann_descale_train is the data it was.                                  *)
THEOREM ScalingIsReversible == Spec => []DescaleUndoesScale
<1>1. Spec => []ScalingInv
  BY ScalingInvariant
<1> QED
  BY <1>1, Undone, PTL

(***************************************************************************)
(* The order and the laws of numbers                                       *)
(***************************************************************************)

(* Numbers are compared over a common denominator.                         *)
LEMMA LessIs ==
  ASSUME NEW x, NEW n, NEW d, Equals(x, n, d), d > 0,
         NEW y, NEW m, NEW e, Equals(y, m, e), e > 0
  PROVE  Less(x, y) <=> n * e < m * d
<1> DEFINE a == x[1]
           b == x[2]
           p == y[1]
           q == y[2]
<1>1. /\ a \in Int /\ b \in Int /\ b > 0 /\ p \in Int /\ q \in Int /\ q > 0
      /\ n \in Int /\ d \in Int /\ m \in Int /\ e \in Int
      /\ a * d = n * b /\ p * e = m * q
  BY RatIs DEF Equals
<1>2. Less(x, y) <=> a * q < p * b
  BY DEF Less
<1> HIDE DEF a, b, p, q
<1>3. \A s \in Int, t \in Int, u \in Int : u > 0 => (s < t <=> s * u < t * u)
  <2>1. ASSUME NEW s \in Int, NEW t \in Int, NEW u \in Int, u > 0
        PROVE  s < t <=> s * u < t * u
    <3>1. (t - s) * u = t * u - s * u /\ t * u \in Int /\ s * u \in Int
      BY <2>1, Products
    <3>2. t - s > 0 => (t - s) * u > 0
      BY <2>1, Products
    <3>3. s - t > 0 => (s - t) * u > 0
      BY <2>1, Products
    <3>4. (s - t) * u = s * u - t * u
      BY <2>1, Products
    <3>5. s = t => s * u = t * u
      OBVIOUS
    <3> DEFINE su == s * u
               tu == t * u
    <3>6. /\ t - s > 0 => tu - su > 0
          /\ s - t > 0 => su - tu > 0
          /\ s = t => su = tu
          /\ su \in Int /\ tu \in Int
      BY <3>1, <3>2, <3>3, <3>4, <3>5
    <3> HIDE DEF su, tu
    <3>7. s < t <=> su < tu
      BY <3>6
    <3> QED
      BY <3>7 DEF su, tu
  <2> QED
    BY <2>1
<1> DEFINE u == d * e
           v == b * q
<1>4. u \in Int /\ u > 0 /\ v \in Int /\ v > 0
  BY <1>1, Products
<1>5. (a * q) * u = (n * e) * v
  <2>1. (a * q) * (d * e) = (a * d) * (q * e)
    BY <1>1, SMT
  <2>2. (n * b) * (q * e) = (n * e) * (b * q)
    BY <1>1, SMT
  <2> QED
    BY <1>1, <2>1, <2>2
<1>6. (p * b) * u = (m * d) * v
  <2>1. (p * b) * (d * e) = (p * e) * (b * d)
    BY <1>1, SMT
  <2>2. (m * q) * (b * d) = (m * d) * (b * q)
    BY <1>1, SMT
  <2> QED
    BY <1>1, <2>1, <2>2
<1> HIDE DEF u, v
<1>7. /\ a * q \in Int /\ p * b \in Int /\ n * e \in Int /\ m * d \in Int
  BY <1>1, Products
<1>8. (a * q < p * b) <=> (a * q) * u < (p * b) * u
  BY <1>3, <1>4, <1>7, Zenon
<1>9. (n * e < m * d) <=> (n * e) * v < (m * d) * v
  BY <1>3, <1>4, <1>7, Zenon
<1> QED
  BY <1>2, <1>5, <1>6, <1>8, <1>9, Zenon

(* Numbers with the same numerator and denominator are the same.           *)
LEMMA SameToo ==
  ASSUME NEW x, NEW n1, NEW d1, Equals(x, n1, d1),
         NEW y, NEW n2, NEW d2, Equals(y, n2, d2), n1 = n2, d1 = d2
  PROVE  x = y
<1>1. n1 * d2 = n2 * d1
  OBVIOUS
<1> QED
  BY <1>1, SameNumber

(* Addition is commutative and associative, and so is multiplication, which *)
(* distributes over addition.                                              *)
LEMMA Laws ==
  ASSUME NEW x \in Rat, NEW y \in Rat, NEW z \in Rat
  PROVE  /\ Add(x, y) = Add(y, x) /\ Mul(x, y) = Mul(y, x)
         /\ Add(Add(x, y), z) = Add(x, Add(y, z))
         /\ Mul(Mul(x, y), z) = Mul(x, Mul(y, z))
         /\ Mul(Add(x, y), z) = Add(Mul(x, z), Mul(y, z))
<1> DEFINE a == x[1]
           b == x[2]
           p == y[1]
           q == y[2]
           m == z[1]
           e == z[2]
<1>1. /\ a \in Int /\ b \in Int /\ p \in Int /\ q \in Int /\ m \in Int /\ e \in Int
      /\ b # 0 /\ q # 0 /\ e # 0
      /\ Equals(x, a, b) /\ Equals(y, p, q) /\ Equals(z, m, e)
  BY RatIs
<1> HIDE DEF a, b, p, q, m, e
<1>3. Add(x, y) = Add(y, x)
  <2>1. Equals(Add(x, y), a * q + p * b, b * q) /\ Equals(Add(y, x), p * b + a * q, q * b)
    BY <1>1, AddIs
  <2>2. a * q + p * b = p * b + a * q /\ b * q = q * b
    BY <1>1, SMT
  <2> QED
    BY SameToo, <2>1, <2>2
<1>4. Mul(x, y) = Mul(y, x)
  <2>1. Equals(Mul(x, y), a * p, b * q) /\ Equals(Mul(y, x), p * a, q * b)
    BY <1>1, MulIs
  <2>2. a * p = p * a /\ b * q = q * b
    BY <1>1, SMT
  <2> QED
    BY SameToo, <2>1, <2>2
<1>5. Add(Add(x, y), z) = Add(x, Add(y, z))
  <2>1. Equals(Add(x, y), a * q + p * b, b * q) /\ Equals(Add(y, z), p * e + m * q, q * e)
    BY <1>1, AddIs
  <2>2. /\ Equals(Add(Add(x, y), z), (a * q + p * b) * e + m * (b * q), (b * q) * e)
        /\ Equals(Add(x, Add(y, z)), a * (q * e) + (p * e + m * q) * b, b * (q * e))
    BY <1>1, <2>1, AddIs
  <2>3. (a * q + p * b) * e + m * (b * q) = a * (q * e) + (p * e + m * q) * b
    BY <1>1, SMT
  <2>4. (b * q) * e = b * (q * e)
    BY <1>1, SMT
  <2> QED
    BY SameToo, <2>2, <2>3, <2>4
<1>6. Mul(Mul(x, y), z) = Mul(x, Mul(y, z))
  <2>1. Equals(Mul(x, y), a * p, b * q) /\ Equals(Mul(y, z), p * m, q * e)
    BY <1>1, MulIs
  <2>2. /\ Equals(Mul(Mul(x, y), z), (a * p) * m, (b * q) * e)
        /\ Equals(Mul(x, Mul(y, z)), a * (p * m), b * (q * e))
    BY <1>1, <2>1, MulIs
  <2>3. (a * p) * m = a * (p * m) /\ (b * q) * e = b * (q * e)
    BY <1>1, SMT
  <2> QED
    BY SameToo, <2>2, <2>3
<1>7. Mul(Add(x, y), z) = Add(Mul(x, z), Mul(y, z))
  <2>1. /\ Equals(Add(x, y), a * q + p * b, b * q)
        /\ Equals(Mul(x, z), a * m, b * e) /\ Equals(Mul(y, z), p * m, q * e)
    BY <1>1, AddIs, MulIs
  <2> DEFINE n1 == (a * q + p * b) * m
             d1 == (b * q) * e
             n2 == (a * m) * (q * e) + (p * m) * (b * e)
             d2 == (b * e) * (q * e)
  <2>2. /\ Equals(Mul(Add(x, y), z), n1, d1)
        /\ Equals(Add(Mul(x, z), Mul(y, z)), n2, d2)
    BY <1>1, <2>1, AddIs, MulIs
  <2>3. n2 = n1 * e
    BY <1>1, SMT
  <2>4. d2 = e * d1
    BY <1>1, SMT
  <2>5. n1 \in Int /\ d1 \in Int
    BY <1>1, Products
  <2> HIDE DEF n1, d1, n2, d2
  <2>6. n1 * d2 = n2 * d1
    <3>1. n1 * (e * d1) = (n1 * e) * d1
      BY <1>1, <2>5, SMT
    <3> QED
      BY <2>3, <2>4, <3>1
  <2> QED
    BY <2>2, <2>6, SameNumber
<1> QED
  BY <1>3, <1>4, <1>5, <1>6, <1>7

(* Nothing, one and the opposite; a division is a multiplication.          *)
LEMMA Units ==
  ASSUME NEW x \in Rat, NEW y \in Rat
  PROVE  /\ Num(0) \in Rat /\ Num(1) \in Rat
         /\ Add(x, Num(0)) = x /\ Add(Num(0), x) = x /\ Mul(x, Num(1)) = x /\ Mul(Num(1), x) = x
         /\ Mul(Num(0), x) = Num(0) /\ Sub(x, x) = Num(0)
         /\ Sub(x, y) = Add(x, Minus(y))
         /\ Minus(Add(x, y)) = Add(Minus(x), Minus(y))
         /\ Mul(Minus(x), y) = Minus(Mul(x, y))
         /\ y # Num(0) => Div(Num(1), y) \in Rat /\ Div(x, y) = Mul(x, Div(Num(1), y))
                            /\ Mul(y, Div(Num(1), y)) = Num(1)
<1> DEFINE a == x[1]
           b == x[2]
           p == y[1]
           q == y[2]
<1>1. /\ a \in Int /\ b \in Int /\ p \in Int /\ q \in Int
      /\ b # 0 /\ q # 0
      /\ Equals(x, a, b) /\ Equals(y, p, q)
      /\ Equals(Num(0), 0, 1) /\ Equals(Num(1), 1, 1)
      /\ y # Num(0) <=> p # 0
  <2>1. y # Num(0) <=> p # 0
    BY Closed
  <2>2. a \in Int /\ b \in Int /\ b # 0 /\ Equals(x, a, b)
    BY RatIs
  <2>3. p \in Int /\ q \in Int /\ q # 0 /\ Equals(y, p, q)
    BY RatIs
  <2>4. Equals(Num(0), 0, 1) /\ Equals(Num(1), 1, 1)
    BY NumIs
  <2> QED
    BY <2>1, <2>2, <2>3, <2>4
<1> HIDE DEF a, b, p, q
<1>2. Num(0) \in Rat /\ Num(1) \in Rat
  BY NumIs
<1>3. Add(x, Num(0)) = x /\ Add(Num(0), x) = x
  <2>1. Equals(Add(x, Num(0)), a * 1 + 0 * b, b * 1)
    BY <1>1, AddIs
  <2>2. (a * 1 + 0 * b) * b = a * (b * 1)
    BY <1>1, SMT
  <2>3. Add(x, Num(0)) = x
    BY <1>1, <2>1, <2>2, SameNumber
  <2> QED
    BY <1>2, <2>3, Laws
<1>4. Mul(x, Num(1)) = x /\ Mul(Num(1), x) = x
  <2>1. Equals(Mul(x, Num(1)), a * 1, b * 1)
    BY <1>1, MulIs
  <2>2. (a * 1) * b = a * (b * 1)
    BY <1>1, SMT
  <2>3. Mul(x, Num(1)) = x
    BY <1>1, <2>1, <2>2, SameNumber
  <2> QED
    BY <1>2, <2>3, Laws
<1>5. Mul(Num(0), x) = Num(0)
  <2>1. Equals(Mul(Num(0), x), 0 * a, 1 * b)
    BY <1>1, MulIs
  <2>2. (0 * a) * 1 = 0 * (1 * b)
    BY <1>1, SMT
  <2> QED
    BY <1>1, <2>1, <2>2, SameNumber
<1>6. Sub(x, x) = Num(0)
  <2>1. Equals(Sub(x, x), a * b - a * b, b * b)
    BY <1>1, SubIs
  <2>2. (a * b - a * b) * 1 = 0 * (b * b)
    BY <1>1, SMT
  <2> QED
    BY <1>1, <2>1, <2>2, SameNumber
<1>7. Minus(Add(x, y)) = Add(Minus(x), Minus(y))
  <2>1. /\ Equals(Add(x, y), a * q + p * b, b * q)
        /\ Equals(Minus(x), -a, b) /\ Equals(Minus(y), -p, q)
    BY <1>1, AddIs, MinusIs
  <2>2. /\ Equals(Minus(Add(x, y)), -(a * q + p * b), b * q)
        /\ Equals(Add(Minus(x), Minus(y)), (-a) * q + (-p) * b, b * q)
    BY <2>1, AddIs, MinusIs
  <2>3. -(a * q + p * b) = (-a) * q + (-p) * b
    BY <1>1, SMT
  <2> QED
    BY <2>2, <2>3, SameToo
<1>8. Mul(Minus(x), y) = Minus(Mul(x, y))
  <2>1. Equals(Mul(x, y), a * p, b * q) /\ Equals(Minus(x), -a, b)
    BY <1>1, MulIs, MinusIs
  <2>2. /\ Equals(Minus(Mul(x, y)), -(a * p), b * q)
        /\ Equals(Mul(Minus(x), y), (-a) * p, b * q)
    BY <1>1, <2>1, MulIs, MinusIs
  <2>3. -(a * p) = (-a) * p
    BY <1>1, SMT
  <2> QED
    BY <2>2, <2>3, SameToo
<1>9. ASSUME y # Num(0)
      PROVE  /\ Div(Num(1), y) \in Rat /\ Div(x, y) = Mul(x, Div(Num(1), y))
             /\ Mul(y, Div(Num(1), y)) = Num(1)
  <2>1. p # 0
    BY <1>1, <1>9
  <2>2. Equals(Div(Num(1), y), 1 * q, 1 * p) /\ Equals(Div(x, y), a * q, b * p)
    BY <1>1, <2>1, DivIs
  <2>3. /\ Equals(Mul(x, Div(Num(1), y)), a * (1 * q), b * (1 * p))
        /\ Equals(Mul(y, Div(Num(1), y)), p * (1 * q), q * (1 * p))
    BY <1>1, <2>2, MulIs
  <2>4. a * (1 * q) = a * q /\ b * (1 * p) = b * p
    BY <1>1, SMT
  <2>5. (p * (1 * q)) * 1 = 1 * (q * (1 * p))
    BY <1>1, SMT
  <2>6. Div(x, y) = Mul(x, Div(Num(1), y))
    BY <2>2, <2>3, <2>4, SameNumber
  <2>7. Mul(y, Div(Num(1), y)) = Num(1)
    BY <1>1, <2>3, <2>5, SameNumber
  <2> QED
    BY <2>2, <2>6, <2>7 DEF Equals
<1> QED
  BY <1>2, <1>3, <1>4, <1>5, <1>6, <1>7, <1>8, <1>9 DEF Sub

(* Adding a number keeps the order, and so does a factor that is not        *)
(* negative.                                                               *)
LEMMA OrderKept ==
  ASSUME NEW x \in Rat, NEW y \in Rat, NEW z \in Rat
  PROVE  /\ Less(Add(x, z), Add(y, z)) <=> Less(x, y)
         /\ z[1] >= 0 /\ ~Less(x, y) => ~Less(Mul(x, z), Mul(y, z))
<1> DEFINE a == x[1]
           b == x[2]
           p == y[1]
           q == y[2]
           m == z[1]
           e == z[2]
<1>1. /\ a \in Int /\ b \in Int /\ b > 0 /\ p \in Int /\ q \in Int /\ q > 0
      /\ m \in Int /\ e \in Int /\ e > 0
      /\ Equals(x, a, b) /\ Equals(y, p, q) /\ Equals(z, m, e)
  BY RatIs
<1>2. Less(x, y) <=> a * q < p * b
  BY DEF Less
<1> HIDE DEF a, b, p, q, m, e
<1>3. Less(Add(x, z), Add(y, z)) <=> Less(x, y)
  <2>1. /\ Equals(Add(x, z), a * e + m * b, b * e) /\ Equals(Add(y, z), p * e + m * q, q * e)
        /\ b * e > 0 /\ q * e > 0
    BY <1>1, AddIs, Products
  <2>2. Less(Add(x, z), Add(y, z)) <=> (a * e + m * b) * (q * e) < (p * e + m * q) * (b * e)
    BY <2>1, LessIs
  <2> DEFINE t == (m * b) * (q * e)
             u == a * q
             v == p * b
             ee == e * e
  <2>3. (a * e + m * b) * (q * e) = u * ee + t
    BY <1>1, SMT
  <2>4. (p * e + m * q) * (b * e) = v * ee + t
    BY <1>1, SMT
  <2>5. /\ t \in Int /\ u \in Int /\ v \in Int /\ ee \in Int /\ ee > 0
        /\ u * ee \in Int /\ v * ee \in Int
    BY <1>1, Products
  <2> HIDE DEF t, u, v, ee
  <2>6. u < v <=> u * ee + t < v * ee + t
    <3>1. (v - u) * ee = v * ee - u * ee /\ (u - v) * ee = u * ee - v * ee
      BY <2>5, Products
    <3>2. (v - u > 0 => (v - u) * ee > 0) /\ (u - v > 0 => (u - v) * ee > 0)
      BY <2>5, Products
    <3>3. u = v => u * ee = v * ee
      OBVIOUS
    <3> DEFINE ue == u * ee
               ve == v * ee
    <3>4. /\ ue \in Int /\ ve \in Int
          /\ v - u > 0 => ve - ue > 0
          /\ u - v > 0 => ue - ve > 0
          /\ u = v => ue = ve
      BY <2>5, <3>1, <3>2, <3>3
    <3> HIDE DEF ue, ve
    <3>5. u < v <=> ue + t < ve + t
      BY <2>5, <3>4
    <3> QED
      BY <3>5 DEF ue, ve
  <2>7. Less(x, y) <=> u < v
    BY <1>2 DEF u, v
  <2> QED
    BY <2>2, <2>3, <2>4, <2>6, <2>7, Zenon
<1>4. ASSUME m >= 0, ~Less(x, y)
      PROVE  ~Less(Mul(x, z), Mul(y, z))
  <2>1. /\ Equals(Mul(x, z), a * m, b * e) /\ Equals(Mul(y, z), p * m, q * e)
        /\ b * e > 0 /\ q * e > 0
    BY <1>1, MulIs, Products
  <2>2. Less(Mul(x, z), Mul(y, z)) <=> (a * m) * (q * e) < (p * m) * (b * e)
    BY <2>1, LessIs
  <2> DEFINE u == a * q
             v == p * b
             k == m * e
  <2>3. (a * m) * (q * e) = u * k
    BY <1>1, SMT
  <2>4. (p * m) * (b * e) = v * k
    BY <1>1, SMT
  <2>5. u \in Int /\ v \in Int /\ k \in Int /\ v <= u
    <3>1. a * q \in Int /\ p * b \in Int /\ m * e \in Int
      BY <1>1, Products
    <3> QED
      BY <1>2, <1>4, <3>1 DEF u, v, k
  <2>6. k >= 0
    <3>1. m > 0 => m * e > 0
      BY <1>1, Products
    <3>2. m = 0 => m * e = 0
      BY <1>1
    <3> QED
      BY <1>1, <1>4, <3>1, <3>2, Products
  <2> HIDE DEF u, v, k
  <2>7. v * k <= u * k
    <3>1. (u - v) * k = u * k - v * k /\ u * k \in Int /\ v * k \in Int
      BY <2>5, Products
    <3>2. (u - v) * k >= 0
      <4> DEFINE w == u - v
      <4>1. w \in Int /\ w >= 0
        BY <2>5
      <4> HIDE DEF w
      <4>2. w > 0 /\ k > 0 => w * k > 0
        BY <2>5, <4>1, Products
      <4>3. w = 0 \/ k = 0 => w * k = 0
        BY <2>5, <4>1
      <4>4. w * k >= 0
        BY <2>5, <2>6, <4>1, <4>2, <4>3
      <4> QED
        BY <4>4 DEF w
    <3> QED
      BY <3>1, <3>2
  <2>8. ~(u * k < v * k)
    BY <2>5, <2>7, Products
  <2> QED
    BY <2>2, <2>3, <2>4, <2>8
<1> QED
  BY <1>3, <1>4 DEF m

(* Numbers that vary are spread over their range, in the order they had.   *)
LEMMA ToRangeReaches ==
  ASSUME NEW block \in SUBSET Rat, block # {}, IsFiniteSet(block), ~Constant(block),
         NEW range \in Ranges
  PROVE  /\ \E x \in block : ToRange(x, block, range) = Num(range[1])
         /\ \E x \in block : ToRange(x, block, range) = Num(range[2])
         /\ \A x \in block :
              /\ ToRange(x, block, range) \in Rat
              /\ ~Less(ToRange(x, block, range), Num(range[1]))
              /\ ~Less(Num(range[2]), ToRange(x, block, range))
         /\ \A x, w \in block :
              Less(x, w) => ~Less(ToRange(w, block, range), ToRange(x, block, range))
<1> DEFINE L == Least(block)
           G == Greatest(block)
           D == Sub(G, L)
           r1 == range[1]
           r2 == range[2]
           W == Sub(Num(r2), Num(r1))
           F == Div(W, D)
           y(x) == Add(Mul(Sub(x, L), F), Num(r1))
           t(x) == ToRange(x, block, range)
<1>1. r1 \in Int /\ r2 \in Int /\ r1 <= r2
  BY ScalingAssumption
<1>2. /\ L \in Rat /\ G \in Rat /\ L \in block /\ G \in block
      /\ \A x \in block : x \in Rat /\ ~Less(x, L) /\ ~Less(G, x)
  BY Extremes
<1>3. /\ Num(r1) \in Rat /\ Num(r2) \in Rat
      /\ Equals(Num(r1), r1, 1) /\ Equals(Num(r2), r2, 1)
  BY <1>1, NumIs
<1>4. \A x : ToRange(x, block, range) = Clipped(y(x), range)
  BY DEF ToRange
<1> HIDE DEF L, G, r1, r2
<1>5. L # G
  <2>1. PICK v \in block, w \in block : v # w
    BY DEF Constant
  <2>2. ASSUME L = G
        PROVE  v = L /\ w = L
    BY <1>2, <2>2, Order
  <2> QED
    BY <2>1, <2>2
<1>6. D \in Rat /\ W \in Rat /\ D # Num(0)
  <2>1. D \in Rat /\ W \in Rat
    BY <1>2, <1>3, Closed
  <2>2. Add(D, L) = G
    BY <1>2, SubUndoesAdd
  <2>3. Add(Num(0), L) = L
    BY <1>2, Units
  <2> QED
    BY <1>5, <2>1, <2>2, <2>3
<1>7. Equals(W, r2 - r1, 1)
  <2>1. Equals(W, r2 * 1 - r1 * 1, 1 * 1)
    BY <1>3, SubIs
  <2>2. r2 * 1 - r1 * 1 = r2 - r1 /\ 1 * 1 = 1
    BY <1>1
  <2> QED
    BY <2>1, <2>2
<1>8. D[1] > 0 /\ D[2] > 0 /\ D[1] \in Int /\ D[2] \in Int
  <2>1. ~Less(G, L)
    BY <1>2
  <2>2. L[1] \in Int /\ L[2] \in Int /\ L[2] > 0 /\ Equals(L, L[1], L[2])
    BY <1>2, RatIs
  <2>3. G[1] \in Int /\ G[2] \in Int /\ G[2] > 0 /\ Equals(G, G[1], G[2])
    BY <1>2, RatIs
  <2>4. Equals(D, G[1] * L[2] - L[1] * G[2], G[2] * L[2]) /\ G[2] * L[2] > 0
    BY <2>2, <2>3, SubIs, Products
  <2>5. G[1] * L[2] - L[1] * G[2] >= 0
    <3>1. ~(G[1] * L[2] < L[1] * G[2]) /\ G[1] * L[2] \in Int /\ L[1] * G[2] \in Int
      BY <2>1, <2>2, <2>3, Products DEF Less
    <3> QED
      BY <3>1
  <2>6. D[1] >= 0
    BY <2>4, <2>5, SignIs
  <2>7. D[1] # 0 /\ D[1] \in Int /\ D[2] \in Int /\ D[2] > 0
    BY <1>6, RatIs, Closed
  <2> QED
    BY <2>6, <2>7
<1>9. F \in Rat /\ F[1] >= 0
  <2> HIDE DEF D
  <2>1. F \in Rat
    BY <1>6, Closed
  <2>2. Equals(D, D[1], D[2])
    BY <1>6, RatIs
  <2>3. Equals(F, (r2 - r1) * D[2], 1 * D[1])
    BY <1>7, <1>8, <2>2, DivIs
  <2>4. (r2 - r1) * D[2] >= 0
    <3>1. r2 - r1 \in Int /\ (r2 - r1 > 0 \/ r2 - r1 = 0)
      BY <1>1
    <3>2. r2 - r1 > 0 => (r2 - r1) * D[2] > 0
      BY <1>8, <3>1, Products
    <3>3. r2 - r1 = 0 => (r2 - r1) * D[2] = 0
      BY <1>8
    <3> QED
      BY <1>8, <3>1, <3>2, <3>3, Products
  <2>5. 1 * D[1] > 0
    BY <1>8
  <2> QED
    BY <2>1, <2>3, <2>4, <2>5, SignIs
<1>10. y(L) = Num(r1)
  BY <1>2, <1>3, <1>9, Units
<1>11. y(G) = Num(r2)
  <2>1. Mul(D, F) = W
    BY <1>6, <1>9, DivUndoesMul, Laws
  <2> QED
    BY <1>3, <2>1, SubUndoesAdd
<1> HIDE DEF D, W, F
<1>12. ASSUME NEW u \in Rat, NEW v \in Rat, ~Less(u, v)
       PROVE  ~Less(y(u), y(v)) /\ y(u) \in Rat /\ y(v) \in Rat
  <2>1. /\ Sub(u, L) \in Rat /\ Sub(v, L) \in Rat /\ Minus(L) \in Rat
        /\ Sub(u, L) = Add(u, Minus(L)) /\ Sub(v, L) = Add(v, Minus(L))
    BY <1>2, Closed DEF Sub
  <2>2. ~Less(Sub(u, L), Sub(v, L))
    BY <1>12, <2>1, OrderKept
  <2>3. /\ ~Less(Mul(Sub(u, L), F), Mul(Sub(v, L), F))
        /\ Mul(Sub(u, L), F) \in Rat /\ Mul(Sub(v, L), F) \in Rat
    BY <1>9, <2>1, <2>2, OrderKept, Closed
  <2> QED
    BY <1>3, <2>3, OrderKept, Closed
<1> HIDE DEF y
<1>13. ASSUME NEW x \in block
       PROVE  /\ ~Less(y(x), Num(r1)) /\ ~Less(Num(r2), y(x)) /\ y(x) \in Rat
              /\ Clipped(y(x), range) = y(x)
  <2>1. ~Less(y(x), Num(r1)) /\ ~Less(Num(r2), y(x)) /\ y(x) \in Rat
    BY <1>2, <1>10, <1>11, <1>12
  <2> QED
    BY <2>1 DEF Clipped, r1, r2
<1>14. \A x \in block : t(x) = y(x)
  BY <1>4, <1>13, Zenon
<1>15. ASSUME NEW x \in block, NEW w \in block, Less(x, w)
       PROVE  ~Less(y(w), y(x))
  <2>1. ~Less(w, x) /\ x \in Rat /\ w \in Rat
    BY <1>2, <1>15, Order
  <2> QED
    BY <1>12, <2>1
<1> HIDE DEF t
<1> QED
  BY <1>2, <1>10, <1>11, <1>13, <1>14, <1>15 DEF t, r1, r2

\* The values of `to` are those of `data`, scaled to a range.
IsScaled(to, data, side, range) ==
  \A place \in Of({side}) : to[place] =
    [i \in DOMAIN data[place] |-> ToRange(data[place][i], Block(data, side), range)]

HasRows(data, side) ==
  \A place \in Of({side}) : data[place] \in Seq(Rat) /\ data[place] # <<>>

(* A side of a set that is scaled to a range.                               *)
LEMMA SideReaches ==
  ASSUME NEW data, NEW to, NEW side \in Sides, NEW range \in Ranges,
         HasRows(data, side), IsScaled(to, data, side, range), ~Constant(Block(data, side))
  PROVE  /\ Least(Block(to, side)) = Num(range[1])
         /\ Greatest(Block(to, side)) = Num(range[2])
         /\ \A p, q \in Of({side}) : \A i \in DOMAIN data[p], j \in DOMAIN data[q] :
              Less(data[p][i], data[q][j]) => ~Less(to[q][j], to[p][i])
<1>a. \A z : z \in Block(data, side) <=>
             \E place \in Of({side}) : \E i \in DOMAIN data[place] : z = data[place][i]
  BY InBlock
<1>b. \A z : z \in Block(to, side) <=>
             \E place \in Of({side}) : \E i \in DOMAIN to[place] : z = to[place][i]
  BY InBlock
<1> DEFINE block == Block(data, side)
           made == Block(to, side)
           t(x) == ToRange(x, block, range)
<1>1. /\ block \in SUBSET Rat /\ block # {} /\ IsFiniteSet(block)
      /\ \A z : z \in block <=>
           \E place \in Of({side}) : \E i \in DOMAIN data[place] : z = data[place][i]
  <2>1. block \in SUBSET Rat /\ block # {} /\ IsFiniteSet(block)
    BY BlockIs DEF HasRows
  <2>2. ASSUME NEW z
        PROVE  z \in block <=>
                 \E place \in Of({side}) : \E i \in DOMAIN data[place] : z = data[place][i]
    BY <1>a
  <2> QED
    BY <2>1, <2>2, Zenon
<1>2. /\ \A place \in Of({side}) : DOMAIN to[place] = DOMAIN data[place]
      /\ \A place \in Of({side}) : \A i \in DOMAIN data[place] :
           to[place][i] = t(data[place][i])
  BY DEF IsScaled
<1>3. ASSUME NEW z
      PROVE  z \in made <=>
               \E place \in Of({side}) : \E i \in DOMAIN to[place] : z = to[place][i]
  BY <1>b
<1> HIDE DEF block, made
<1>4. \A z : z \in made <=> \E x \in block : z = t(x)
  <2> HIDE DEF t
  <2>1. ASSUME NEW z \in made
        PROVE  \E x \in block : z = t(x)
    <3>1. PICK place \in Of({side}) : \E i \in DOMAIN to[place] : z = to[place][i]
      BY <1>3, <2>1, Zenon
    <3>2. PICK i \in DOMAIN to[place] : z = to[place][i]
      BY <3>1
    <3>3. i \in DOMAIN data[place] /\ z = t(data[place][i])
      BY <1>2, <3>2
    <3> QED
      BY <1>1, <3>3, Zenon
  <2>2. ASSUME NEW x \in block
        PROVE  t(x) \in made
    <3>1. PICK place \in Of({side}) : \E i \in DOMAIN data[place] : x = data[place][i]
      BY <1>1, Zenon
    <3>2. PICK i \in DOMAIN data[place] : x = data[place][i]
      BY <3>1
    <3>3. i \in DOMAIN to[place] /\ t(x) = to[place][i]
      BY <1>2, <3>2
    <3> QED
      BY <1>3, <3>3, Zenon
  <2> QED
    BY <2>1, <2>2, Zenon
<1>5. range[1] \in Int /\ range[2] \in Int /\ Num(range[1]) \in Rat /\ Num(range[2]) \in Rat
  BY ScalingAssumption, NumIs
<1>6. /\ \E x \in block : t(x) = Num(range[1])
      /\ \E x \in block : t(x) = Num(range[2])
      /\ \A x \in block :
           t(x) \in Rat /\ ~Less(t(x), Num(range[1])) /\ ~Less(Num(range[2]), t(x))
      /\ \A x, w \in block : Less(x, w) => ~Less(t(w), t(x))
  BY <1>1, ToRangeReaches DEF block
<1> HIDE DEF t
<1>7. Least(made) = Num(range[1])
  <2>1. Num(range[1]) \in made /\ \A x \in made : ~Less(x, Num(range[1])) /\ x \in Rat
    BY <1>4, <1>6
  <2>2. Least(made) \in made /\ \A x \in made : ~Less(x, Least(made))
    BY <2>1, Zenon DEF Least
  <2> QED
    BY <2>1, <2>2, <1>5, Order
<1>8. Greatest(made) = Num(range[2])
  <2>1. Num(range[2]) \in made /\ \A x \in made : ~Less(Num(range[2]), x) /\ x \in Rat
    BY <1>4, <1>6
  <2>2. Greatest(made) \in made /\ \A x \in made : ~Less(Greatest(made), x)
    BY <2>1, Zenon DEF Greatest
  <2> QED
    BY <2>1, <2>2, <1>5, Order
<1>9. \A p, q \in Of({side}) : \A i \in DOMAIN data[p], j \in DOMAIN data[q] :
        Less(data[p][i], data[q][j]) => ~Less(to[q][j], to[p][i])
  <2> SUFFICES ASSUME NEW p \in Of({side}), NEW q \in Of({side}),
                      NEW i \in DOMAIN data[p], NEW j \in DOMAIN data[q],
                      Less(data[p][i], data[q][j])
               PROVE  ~Less(to[q][j], to[p][i])
    OBVIOUS
  <2>1. /\ data[p][i] \in block /\ data[q][j] \in block
        /\ to[p][i] = t(data[p][i]) /\ to[q][j] = t(data[q][j])
    BY <1>1, <1>2, Zenon
  <2> QED
    BY <1>6, <2>1
<1> QED
  BY <1>7, <1>8, <1>9 DEF made

(* Data that is scaled to a range reaches both ends of it and keeps its     *)
(* order.                                                                  *)
LEMMA ScalingReaches ==
  ASSUME ScalingInv, NEW sides \in SomeSides, fann_scale_train_data(sides)
  PROVE  \E range \in Ranges : \A side \in sides :
           \/ Constant(Block(rows, side))
           \/ /\ Least(Block(rows', side)) = Num(range[1])
              /\ Greatest(Block(rows', side)) = Num(range[2])
              /\ \A p, q \in Of({side}) : \A i \in DOMAIN rows[p], j \in DOMAIN rows[q] :
                   Less(rows[p][i], rows[q][j]) => ~Less(rows'[q][j], rows'[p][i])
<1>1. PICK range \in Ranges :
        rows' = [place \in Places |->
          IF place \in Of(sides)
          THEN [i \in DOMAIN rows[place] |->
                  ToRange(rows[place][i], Block(rows, place[1]), range)]
          ELSE rows[place]]
  BY DEF fann_scale_train_data, Each
<1>2. ASSUME NEW side \in sides, ~Constant(Block(rows, side))
      PROVE  /\ Least(Block(rows', side)) = Num(range[1])
             /\ Greatest(Block(rows', side)) = Num(range[2])
             /\ \A p, q \in Of({side}) : \A i \in DOMAIN rows[p], j \in DOMAIN rows[q] :
                  Less(rows[p][i], rows[q][j]) => ~Less(rows'[q][j], rows'[p][i])
  <2>1. /\ side \in Sides
        /\ \A place \in Of({side}) :
             place \in Of(sides) /\ place \in Places /\ place[1] = side
    BY RowsAre DEF Of
  <2>2. HasRows(rows, side)
    BY <2>1, RowsAre DEF HasRows
  <2>3. IsScaled(rows', rows, side, range)
    BY <1>1, <2>1 DEF IsScaled
  <2> QED
    BY <1>2, <2>1, <2>2, <2>3, SideReaches
<1> QED
  BY <1>2, Zenon

(* Whatever was done before, fann_scale_train_data gives the inputs taken   *)
(* together, and the outputs, the least and the greatest value it was asked *)
(* for, unless they are all the same, and changes the order of no two of    *)
(* them.  Of a column of its own it promises neither end.                  *)
THEOREM RangesAreReached == Spec => RangeReached
<1>1. Spec => []ScalingInv
  BY ScalingInvariant
<1>2. ScalingInv /\ [Next]_vars =>
        [\A sides \in SomeSides : fann_scale_train_data(sides) =>
           \E range \in Ranges : \A side \in sides :
             \/ Constant(Block(rows, side))
             \/ /\ Least(Block(rows', side)) = Num(range[1])
                /\ Greatest(Block(rows', side)) = Num(range[2])
                /\ \A p, q \in Of({side}) : \A i \in DOMAIN rows[p], j \in DOMAIN rows[q] :
                     Less(rows[p][i], rows[q][j]) => ~Less(rows'[q][j], rows'[p][i])
        ]_vars
  BY ScalingReaches
<1> QED
  BY <1>1, <1>2, PTL DEF Spec, RangeReached

(***************************************************************************)
(* The mean and the deviation of a column that is scaled                   *)
(***************************************************************************)

Shifted(c, k) == [i \in DOMAIN c |-> Add(c[i], k)]
Stretched(c, k) == [i \in DOMAIN c |-> Mul(c[i], k)]

(* They are columns of numbers.                                            *)
LEMMA StillColumns ==
  ASSUME NEW c \in Seq(Rat), NEW k \in Rat
  PROVE  /\ Shifted(c, k) \in Seq(Rat) /\ Len(Shifted(c, k)) = Len(c)
         /\ Stretched(c, k) \in Seq(Rat) /\ Len(Stretched(c, k)) = Len(c)
<1>1. DOMAIN c = 1 .. Len(c) /\ Len(c) \in Nat /\ \A i \in DOMAIN c : c[i] \in Rat
  OBVIOUS
<1>2. \A x \in Rat : Add(x, k) \in Rat /\ Mul(x, k) \in Rat
  BY Closed
<1>3. /\ Shifted(c, k) \in [1 .. Len(c) -> Rat]
      /\ Stretched(c, k) \in [1 .. Len(c) -> Rat]
  BY <1>1, <1>2, Zenon DEF Shifted, Stretched
<1> QED
  BY <1>1, <1>3

(* The numbers one after the other.                                        *)
LEMMA NextNum ==
  ASSUME NEW k \in Nat, NEW x \in Rat
  PROVE  Mul(Num(k + 1), x) = Add(Mul(Num(k), x), x)
<1>1. Equals(Num(k), k, 1) /\ Equals(Num(1), 1, 1) /\ Equals(Num(k + 1), k + 1, 1)
      /\ Num(k) \in Rat /\ Num(1) \in Rat
  BY NumIs
<1>2. Equals(Add(Num(k), Num(1)), k * 1 + 1 * 1, 1 * 1)
  BY <1>1, AddIs
<1>3. k * 1 + 1 * 1 = k + 1 /\ 1 * 1 = 1
  OBVIOUS
<1>4. Add(Num(k), Num(1)) = Num(k + 1)
  BY <1>1, <1>2, <1>3, SameToo
<1>5. Mul(Add(Num(k), Num(1)), x) = Add(Mul(Num(k), x), Mul(Num(1), x))
  BY <1>1, Laws
<1>6. Mul(Num(1), x) = x
  BY Units
<1> QED
  BY <1>4, <1>5, <1>6

(* What is added to each number is added as often as there are rows; a      *)
(* factor of each is one of the sum.                                       *)
LEMMA SumsChange ==
  ASSUME NEW c \in Seq(Rat), c # <<>>, NEW k \in Rat
  PROVE  /\ Sum(Shifted(c, k)) = Add(Sum(c), Mul(Num(Len(c)), k))
         /\ Sum(Stretched(c, k)) = Mul(Sum(c), k)
<1> DEFINE n == Len(c)
           s == Shifted(c, k)
           t == Stretched(c, k)
<1>1. /\ n \in Nat /\ n > 0 /\ s \in Seq(Rat) /\ Len(s) = n /\ t \in Seq(Rat) /\ Len(t) = n
      /\ DOMAIN c = 1 .. n
  BY StillColumns
<1>2. Columnar(c, n, Rat) /\ Columnar(s, n, Rat) /\ Columnar(t, n, Rat)
  BY <1>1, MeanIs
<1>3. \A i \in 1 .. n : c[i] \in Rat /\ s[i] = Add(c[i], k) /\ t[i] = Mul(c[i], k)
  BY <1>1 DEF Shifted, Stretched
<1> HIDE DEF n, s, t
<1>4. PICK P : IsSums(P, c, n)
  BY <1>1, <1>2, SumsOfColumn
<1>5. PICK S : IsSums(S, s, n)
  BY <1>1, <1>2, SumsOfColumn
<1>6. PICK T : IsSums(T, t, n)
  BY <1>1, <1>2, SumsOfColumn
<1>7. Num(0) \in Rat /\ Mul(Num(0), k) = Num(0) /\ Add(Num(0), Num(0)) = Num(0)
  BY Units
<1> DEFINE U == {j \in 0 .. n : S[j] = Add(P[j], Mul(Num(j), k)) /\ T[j] = Mul(P[j], k)}
<1>8. 0 \in U
  BY <1>1, <1>4, <1>5, <1>6, <1>7 DEF IsSums
<1>9. ASSUME NEW j \in 0 .. n - 1, j \in U PROVE j + 1 \in U
  <2> DEFINE x == c[j + 1]
             a == P[j]
             b == Mul(Num(j), k)
  <2>1. /\ j + 1 \in 0 .. n /\ j + 1 \in 1 .. n /\ j \in 0 .. n /\ j \in Nat
        /\ j \in Int
    BY <1>1
  <2>2. /\ S[j] = Add(a, b) /\ T[j] = Mul(a, k)
    BY <1>9
  <2>3. /\ S[j + 1] = Add(S[j], s[j + 1]) /\ T[j + 1] = Add(T[j], t[j + 1])
        /\ P[j + 1] = Add(P[j], c[j + 1]) /\ P[j] \in Rat
    BY <1>4, <1>5, <1>6, <2>1 DEF IsSums
  <2>4. s[j + 1] = Add(x, k) /\ t[j + 1] = Mul(x, k) /\ x \in Rat
    BY <1>3, <2>1
  <2>5. b \in Rat /\ Num(j) \in Rat
    BY <2>1, NumIs, Closed
  <2>6. Mul(Num(j + 1), k) = Add(b, k)
    BY <2>1, NextNum
  <2> HIDE DEF x, a, b
  <2>7. a \in Rat
    BY <2>3 DEF a
  <2>8. Add(Add(a, b), Add(x, k)) = Add(Add(a, x), Add(b, k))
    <3>1. Add(x, k) \in Rat /\ Add(b, k) \in Rat
      BY <2>4, <2>5, Closed
    <3>2. Add(Add(a, b), Add(x, k)) = Add(a, Add(b, Add(x, k)))
      BY <2>5, <2>7, <3>1, Laws
    <3>3. Add(b, Add(x, k)) = Add(Add(b, x), k) /\ Add(b, x) = Add(x, b)
      BY <2>4, <2>5, Laws
    <3>4. Add(Add(x, b), k) = Add(x, Add(b, k))
      BY <2>4, <2>5, Laws
    <3>5. Add(Add(a, x), Add(b, k)) = Add(a, Add(x, Add(b, k)))
      BY <2>4, <2>7, <3>1, Laws
    <3> QED
      BY <3>2, <3>3, <3>4, <3>5
  <2>9. S[j + 1] = Add(P[j + 1], Mul(Num(j + 1), k))
    BY <2>2, <2>3, <2>4, <2>6, <2>8 DEF a, x
  <2>10. Mul(Add(a, x), k) = Add(Mul(a, k), Mul(x, k))
    BY <2>4, <2>7, Laws
  <2>11. T[j + 1] = Mul(P[j + 1], k)
    BY <2>2, <2>3, <2>4, <2>10 DEF a, x
  <2> QED
    BY <2>1, <2>9, <2>11
<1>10. \A j \in 0 .. n : j \in U
  <2> HIDE DEF U
  <2> QED
    BY <1>1, <1>8, <1>9, CountingUp
<1>11. S[n] = Add(P[n], Mul(Num(n), k)) /\ T[n] = Mul(P[n], k)
  BY <1>1, <1>10
<1>12. Sum(c) = P[n] /\ Sum(s) = S[n] /\ Sum(t) = T[n]
  BY <1>4, <1>5, <1>6 DEF IsSums
<1> QED
  BY <1>11, <1>12 DEF s, t, n

(* The mean of a column moves with the column.                             *)
LEMMA MeansChange ==
  ASSUME NEW c \in Seq(Rat), c # <<>>, NEW k \in Rat
  PROVE  /\ Mean(Shifted(c, k)) = Add(Mean(c), k)
         /\ Mean(Stretched(c, k)) = Mul(Mean(c), k)
         /\ Mean(c) \in Rat
<1> DEFINE n == Len(c)
           s == Shifted(c, k)
           t == Stretched(c, k)
           N == Num(n)
           A == Sum(c)
           I == Div(Num(1), N)
<1>1. /\ n \in Nat /\ n > 0 /\ s \in Seq(Rat) /\ Len(s) = n /\ t \in Seq(Rat) /\ Len(t) = n
  BY StillColumns
<1>2. /\ A \in Rat /\ N \in Rat /\ N # Num(0) /\ Mean(c) = Div(A, N) /\ Mean(c) \in Rat
      /\ Mean(s) = Div(Sum(s), N) /\ Sum(s) \in Rat
      /\ Mean(t) = Div(Sum(t), N) /\ Sum(t) \in Rat
  BY <1>1, MeanIs
<1>3. Sum(s) = Add(A, Mul(N, k)) /\ Sum(t) = Mul(A, k)
  BY SumsChange
<1> HIDE DEF n, s, t, N, A
<1>4. I \in Rat /\ Mul(N, I) = Num(1) /\ \A x \in Rat : Div(x, N) = Mul(x, I)
  BY <1>2, Units
<1> HIDE DEF I
<1>5. Mean(c) = Mul(A, I) /\ Mean(s) = Mul(Sum(s), I) /\ Mean(t) = Mul(Sum(t), I)
  BY <1>2, <1>4
<1>6. Mul(Add(A, Mul(N, k)), I) = Add(Mul(A, I), k)
  <2>1. Mul(N, k) \in Rat
    BY <1>2, Closed
  <2>2. Mul(Add(A, Mul(N, k)), I) = Add(Mul(A, I), Mul(Mul(N, k), I))
    BY <1>2, <1>4, <2>1, Laws
  <2>3. Mul(N, k) = Mul(k, N) /\ Mul(Mul(k, N), I) = Mul(k, Mul(N, I))
    BY <1>2, <1>4, Laws
  <2>4. Mul(k, Num(1)) = k
    BY Units
  <2> QED
    BY <1>4, <2>2, <2>3, <2>4
<1>7. Mul(Mul(A, k), I) = Mul(Mul(A, I), k)
  <2>1. Mul(Mul(A, k), I) = Mul(A, Mul(k, I)) /\ Mul(k, I) = Mul(I, k)
    BY <1>2, <1>4, Laws
  <2>2. Mul(Mul(A, I), k) = Mul(A, Mul(I, k))
    BY <1>2, <1>4, Laws
  <2> QED
    BY <2>1, <2>2
<1>8. Mean(s) = Add(Mean(c), k) /\ Mean(t) = Mul(Mean(c), k)
  BY <1>3, <1>5, <1>6, <1>7
<1> QED
  BY <1>2, <1>8 DEF s, t

(* The square of a product.                                                *)
LEMMA SquareOf ==
  ASSUME NEW x \in Rat, NEW k \in Rat
  PROVE  Mul(Mul(x, k), Mul(x, k)) = Mul(Mul(x, x), Mul(k, k))
<1> DEFINE w == Mul(x, k)
           kk == Mul(k, k)
<1>1. w \in Rat /\ kk \in Rat
  BY Closed
<1>2. Mul(w, w) = Mul(x, Mul(k, w))
  BY <1>1, Laws
<1>3. Mul(k, w) = Mul(w, k) /\ Mul(w, k) = Mul(x, kk)
  BY <1>1, Laws
<1>4. Mul(x, Mul(x, kk)) = Mul(Mul(x, x), kk)
  BY <1>1, Laws
<1> QED
  BY <1>2, <1>3, <1>4

(* The variance of a column does not move with it, and is stretched twice. *)
LEMMA VariancesChange ==
  ASSUME NEW c \in Seq(Rat), c # <<>>, NEW k \in Rat
  PROVE  /\ Variance(Shifted(c, k)) = Variance(c)
         /\ Variance(Stretched(c, k)) = Mul(Variance(c), Mul(k, k))
         /\ Variance(c) \in Rat
<1> DEFINE n == Len(c)
           s == Shifted(c, k)
           t == Stretched(c, k)
           m == Mean(c)
           q == Squares(c, m)
           kk == Mul(k, k)
<1>1. /\ n \in Nat /\ n > 0 /\ s \in Seq(Rat) /\ Len(s) = n /\ t \in Seq(Rat) /\ Len(t) = n
      /\ DOMAIN c = 1 .. n /\ DOMAIN s = 1 .. n /\ DOMAIN t = 1 .. n
      /\ \A i \in 1 .. n : c[i] \in Rat /\ s[i] = Add(c[i], k) /\ t[i] = Mul(c[i], k)
  BY StillColumns DEF Shifted, Stretched
<1>2. m \in Rat /\ Mean(s) = Add(m, k) /\ Mean(t) = Mul(m, k) /\ kk \in Rat
  BY MeansChange, Closed
<1>3. /\ Columnar(q, n, Rat) /\ Variance(c) = Div(Sum(q), Num(n)) /\ Variance(c) \in Rat
      /\ Variance(s) = Div(Sum(Squares(s, Mean(s))), Num(n))
      /\ Variance(t) = Div(Sum(Squares(t, Mean(t))), Num(n))
  BY <1>1, DeviationIs
<1>4. q \in Seq(Rat) /\ Len(q) = n /\ q # <<>>
  <2>1. q = [i \in 1 .. n |-> Mul(Sub(c[i], m), Sub(c[i], m))]
    BY <1>1 DEF Squares
  <2>2. \A i \in 1 .. n : Mul(Sub(c[i], m), Sub(c[i], m)) \in Rat
    BY <1>1, <1>2, Closed
  <2> HIDE DEF q
  <2>3. q \in [1 .. n -> Rat]
    BY <2>1, <2>2
  <2> QED
    BY <1>1, <2>3
<1> HIDE DEF s, t, m
<1>5. ASSUME NEW i \in 1 .. n
      PROVE  Sub(s[i], Add(m, k)) = Sub(c[i], m) /\ Sub(t[i], Mul(m, k)) = Mul(Sub(c[i], m), k)
  <2> DEFINE z == Sub(c[i], m)
  <2>1. z \in Rat /\ Add(z, m) = c[i] /\ c[i] \in Rat
    BY <1>1, <1>2, Closed, SubUndoesAdd
  <2>2. s[i] = Add(c[i], k) /\ t[i] = Mul(c[i], k)
    BY <1>1
  <2> HIDE DEF z, n
  <2>3. Add(Add(z, m), k) = Add(z, Add(m, k)) /\ Add(m, k) \in Rat
    <3>1. Add(Add(z, m), k) = Add(z, Add(m, k))
      BY <1>2, <2>1, Laws
    <3>2. Add(m, k) \in Rat
      BY <1>2, Closed
    <3> QED
      BY <3>1, <3>2
  <2>4. Sub(Add(z, Add(m, k)), Add(m, k)) = z
    BY <2>1, <2>3, SubUndoesAdd
  <2>5. Mul(Add(z, m), k) = Add(Mul(z, k), Mul(m, k))
    BY <1>2, <2>1, Laws
  <2>6. Mul(z, k) \in Rat /\ Mul(m, k) \in Rat
    BY <1>2, <2>1, Closed
  <2>7. Sub(Add(Mul(z, k), Mul(m, k)), Mul(m, k)) = Mul(z, k)
    BY <2>6, SubUndoesAdd
  <2>8. Sub(s[i], Add(m, k)) = z /\ Sub(t[i], Mul(m, k)) = Mul(z, k)
    BY <2>1, <2>2, <2>3, <2>4, <2>5, <2>7
  <2> QED
    BY <2>8 DEF z
<1>6. Squares(s, Mean(s)) = q
  <2>1. Squares(s, Add(m, k)) =
          [i \in 1 .. n |-> Mul(Sub(s[i], Add(m, k)), Sub(s[i], Add(m, k)))]
    BY <1>1 DEF Squares
  <2>2. q = [i \in 1 .. n |-> Mul(Sub(c[i], m), Sub(c[i], m))]
    BY <1>1 DEF Squares
  <2> HIDE DEF q, n
  <2>3. Squares(s, Add(m, k)) = q
    BY <1>5, <2>1, <2>2, Zenon
  <2> QED
    BY <1>2, <2>3
<1>7. Squares(t, Mean(t)) = Stretched(q, kk)
  <2>1. Squares(t, Mul(m, k)) =
          [i \in 1 .. n |-> Mul(Sub(t[i], Mul(m, k)), Sub(t[i], Mul(m, k)))]
    BY <1>1 DEF Squares
  <2>2. Stretched(q, kk) = [i \in 1 .. n |-> Mul(Mul(Sub(c[i], m), Sub(c[i], m)), kk)]
    BY <1>1 DEF Squares, Stretched
  <2>3. \A i \in 1 .. n : Sub(c[i], m) \in Rat
    BY <1>1, <1>2, Closed
  <2> HIDE DEF q, n
  <2>4. \A i \in 1 .. n :
          Mul(Sub(t[i], Mul(m, k)), Sub(t[i], Mul(m, k)))
            = Mul(Mul(Sub(c[i], m), Sub(c[i], m)), kk)
    <3> TAKE i \in 1 .. n
    <3>1. Sub(t[i], Mul(m, k)) = Mul(Sub(c[i], m), k)
      BY <1>5
    <3>2. Mul(Mul(Sub(c[i], m), k), Mul(Sub(c[i], m), k))
            = Mul(Mul(Sub(c[i], m), Sub(c[i], m)), kk)
      BY <2>3, SquareOf
    <3> QED
      BY <3>1, <3>2
  <2>5. Squares(t, Mul(m, k)) = Stretched(q, kk)
    BY <2>1, <2>2, <2>4, Zenon
  <2> QED
    BY <1>2, <2>5
<1> HIDE DEF q, kk
<1>8. Mean(Stretched(q, kk)) = Mul(Mean(q), kk)
  BY <1>2, <1>4, MeansChange
<1>9. Mean(q) = Div(Sum(q), Num(n))
  BY <1>1, <1>4, MeanIs
<1>10. Mean(Stretched(q, kk)) = Div(Sum(Stretched(q, kk)), Num(n))
  BY <1>1, <1>2, <1>4, StillColumns, MeanIs
<1>11. Variance(s) = Variance(c) /\ Variance(t) = Mul(Variance(c), kk)
  BY <1>3, <1>6, <1>7, <1>8, <1>9, <1>10, Zenon
<1> QED
  BY <1>3, <1>11 DEF s, t, kk

(* The root of the square of a half is the half.                           *)
LEMMA RootOfHalf ==
  ASSUME NEW x, NEW m \in Int, Equals(x, m, 2), m > 0
  PROVE  Sqrt(Mul(x, x)) = x
<1> DEFINE a == x[1]
           b == x[2]
           v == Mul(x, x)
           s == v[1]
           t == v[2]
<1>1. /\ x \in Rat /\ a \in Int /\ b \in Int /\ b > 0 /\ a * 2 = m * b /\ Equals(x, a, b)
      /\ \A n \in Int, e \in Int : e > 0 /\ n * b = a * e => b <= e
  BY RatIs DEF Equals
<1>2. b = 1 \/ b = 2
  <2> HIDE DEF a, b
  <2>1. m * b = a * 2 /\ 2 > 0 /\ 2 \in Int
    BY <1>1
  <2>2. b <= 2
    BY <1>1, <2>1
  <2> QED
    BY <1>1, <2>2
<1>3. a > 0
  <2> HIDE DEF a, b
  <2>1. m * b > 0
    BY <1>1, Products
  <2> QED
    BY <1>1, <2>1
<1>4. /\ v \in Rat /\ s \in Int /\ t \in Int /\ t > 0 /\ s * (b * b) = (a * a) * t
      /\ \A n \in Int, e \in Int : e > 0 /\ n * t = s * e => t <= e
  <2>1. Equals(v, a * a, b * b)
    BY <1>1, MulIs
  <2> HIDE DEF a, b, v
  <2> QED
    BY <2>1, RatIs DEF Equals
<1> HIDE DEF a, b, v, s, t
<1>5. s = a * a /\ t = b * b
  <2> DEFINE aa == a * a
  <2>1. aa \in Int
    BY <1>1, Products
  <2>2. s * (b * b) = aa * t
    BY <1>4
  <2>3. CASE b = 1
    <3> HIDE DEF aa
    <3>1. b * b = 1
      BY <2>3
    <3>2. s * 1 = aa * t
      BY <2>2, <3>1
    <3>3. aa * t = s * 1 /\ 1 > 0 /\ 1 \in Int
      BY <3>2
    <3>4. t <= 1
      BY <1>4, <2>1, <3>3
    <3>5. t = 1
      BY <1>4, <3>4
    <3>6. s = aa
      BY <1>4, <2>1, <3>2, <3>5
    <3> QED
      BY <3>1, <3>5, <3>6 DEF aa
  <2>4. CASE b = 2
    <3>1. \A j \in Int : a # j * 2
      <4>1. ASSUME NEW j \in Int, a = j * 2
            PROVE  FALSE
        <5>1. j * b = a * 1 /\ 1 > 0 /\ 1 \in Int
          BY <1>1, <2>4, <4>1
        <5>2. b <= 1
          BY <1>1, <5>1
        <5> QED
          BY <2>4, <5>2
      <4> QED
        BY <4>1
    <3>2. PICK j \in Int : a = j * 2 + 1
      <4>1. a % 2 = 0 \/ a % 2 = 1
        BY <1>1
      <4>2. a \div 2 \in Int /\ a = (a \div 2) * 2 + (a % 2)
        BY <1>1
      <4> QED
        BY <3>1, <4>1, <4>2
    <3> DEFINE J == j * j + j
    <3>3. J \in Int /\ aa = J * 4 + 1
      <4>1. (j * 2 + 1) * (j * 2 + 1) = (j * j + j) * 4 + 1
        BY SMT
      <4>2. j * j \in Int
        BY Products
      <4> QED
        BY <3>2, <4>1, <4>2
    <3>4. b * b = 4
      BY <2>4
    <3> HIDE DEF aa, J
    <3>5. s * 4 = aa * t
      BY <2>2, <3>4
    <3>6. t <= 4
      <4>1. aa * t = s * 4 /\ 4 > 0 /\ 4 \in Int
        BY <3>5
      <4> QED
        BY <1>4, <2>1, <4>1
    <3>7. t = (s - J * t) * 4
      <4>1. aa * t = (J * t) * 4 + t
        BY <1>4, <3>3, SMT
      <4>2. J * t \in Int
        BY <1>4, <3>3, Products
      <4> QED
        BY <1>4, <3>5, <4>1, <4>2
    <3>8. t = 4
      <4> DEFINE w == s - J * t
      <4>1. w \in Int
        BY <1>4, <3>3, Products
      <4>2. t = w * 4
        BY <3>7
      <4> HIDE DEF w
      <4> QED
        BY <1>4, <3>6, <4>1, <4>2
    <3>9. s = aa
      BY <1>4, <2>1, <3>5, <3>8
    <3> QED
      BY <3>4, <3>8, <3>9 DEF aa
  <2> QED
    BY <1>2, <2>3, <2>4
<1>6. Root(s) = a /\ Root(t) = b
  <2>1. a \in Nat /\ b \in Nat /\ s \in Nat /\ t \in Nat
    <3>1. a * a > 0
      BY <1>1, <1>3, Products
    <3> QED
      BY <1>1, <1>3, <1>4, <1>5, <3>1
  <2> QED
    BY <1>5, <2>1, RootIs
<1>7. Sqrt(v) = Reduced(a, b)
  BY <1>6 DEF Sqrt, s, t
<1>8. Equals(Reduced(a, b), a, b)
  BY <1>1, ReducedIs
<1>9. Reduced(a, b) = x
  BY <1>1, <1>8, SameToo
<1> QED
  BY <1>7, <1>9 DEF v

(* A column that is fitted and scaled has its mean in the middle of the     *)
(* range, and its deviation is half of the range.                          *)
LEMMA FittedColumn ==
  ASSUME NEW c \in Seq(Rat), c # <<>>, NEW range \in Ranges, range[1] # range[2],
         Deviation(c) # Num(0), Mul(Deviation(c), Deviation(c)) = Variance(c)
  PROVE  /\ Proper(FittedTo(c, range))
         /\ Mean(ScaledAll(c, FittedTo(c, range))) = Reduced(range[1] + range[2], 2)
         /\ Deviation(ScaledAll(c, FittedTo(c, range))) = Reduced(range[2] - range[1], 2)
<1> DEFINE p == FittedTo(c, range)
           r1 == range[1]
           r2 == range[2]
           m == Mean(c)
           s == Deviation(c)
           f == p.factor
           I == Div(Num(1), s)
<1>1. r1 \in Int /\ r2 \in Int /\ r1 < r2
  BY ScalingAssumption
<1>2. /\ p \in AnyParameters /\ p.mean = m /\ p.deviation = s /\ p.new_min = Num(r1)
      /\ f = Div(Sub(Num(r2), Num(r1)), Sub(Num(1), old_min))
      /\ m \in Rat /\ s \in Rat /\ f \in Rat
  <2>1. p \in AnyParameters
    BY FittedIs
  <2>2. /\ p.mean = m /\ p.deviation = s /\ p.new_min = Num(r1)
        /\ f = Div(Sub(Num(r2), Num(r1)), Sub(Num(1), old_min))
    BY DEF FittedTo
  <2> HIDE DEF p, m, s
  <2> QED
    BY <2>1, <2>2 DEF AnyParameters
<1>3. /\ Equals(Num(r1), r1, 1) /\ Equals(Num(r2), r2, 1) /\ Equals(Num(1), 1, 1)
      /\ Equals(old_min, -1, 1) /\ Num(r1) \in Rat /\ Num(1) \in Rat /\ Num(0) \in Rat
      /\ old_min \in Rat /\ Minus(old_min) = Num(1)
  <2>1. Minus(old_min) = Num(1)
    <3>1. \A n \in Int, k \in Int : n + k = 0 => Minus(Num(n)) = <<k, 1>>
      <4>1. \A n \in Int, k \in Int : n + k = 0 => -n = k
        OBVIOUS
      <4> QED
        BY <4>1 DEF Minus, Num
    <3>2. (-1) \in Int /\ 1 \in Int /\ (-1) + 1 = 0
      OBVIOUS
    <3>3. Minus(Num(-1)) = <<1, 1>>
      BY <3>1, <3>2
    <3> QED
      BY <3>3 DEF old_min, Num
  <2> QED
    BY <1>1, <2>1, NumIs DEF old_min
<1>4. s # Num(0) /\ Mul(s, s) = Variance(c)
  OBVIOUS
<1> HIDE DEF p, r1, r2, m, s, f
<1>5. Equals(f, r2 - r1, 2)
  <2>1. /\ Equals(Sub(Num(r2), Num(r1)), r2 * 1 - r1 * 1, 1 * 1)
        /\ Equals(Sub(Num(1), old_min), 1 * 1 - (-1) * 1, 1 * 1)
    BY <1>3, SubIs
  <2>2. r2 * 1 - r1 * 1 = r2 - r1 /\ 1 * 1 - (-1) * 1 = 2 /\ 1 * 1 = 1
    BY <1>1
  <2>3. /\ Equals(Sub(Num(r2), Num(r1)), r2 - r1, 1)
        /\ Equals(Sub(Num(1), old_min), 2, 1)
    BY <2>1, <2>2
  <2> DEFINE x == Sub(Num(r2), Num(r1))
             y == Sub(Num(1), old_min)
  <2>4. Equals(f, (r2 - r1) * 1, 1 * 2)
    <3>1. Equals(x, r2 - r1, 1) /\ Equals(y, 2, 1) /\ 2 # 0 /\ f = Div(x, y)
      BY <1>2, <2>3
    <3> HIDE DEF x, y
    <3> QED
      BY <3>1, DivIs
  <2>5. (r2 - r1) * 1 = r2 - r1 /\ 1 * 2 = 2
    BY <1>1
  <2> QED
    BY <2>4, <2>5
<1>6. Proper(p)
  <2>1. f[1] # 0
    <3>1. f[1] * 2 = (r2 - r1) * f[2] /\ f[2] > 0 /\ f[1] \in Int /\ f[2] \in Int
      BY <1>5, RatIs DEF Equals
    <3>2. (r2 - r1) * f[2] > 0
      BY <1>1, <3>1, Products
    <3> QED
      BY <3>1, <3>2
  <2>2. f # Num(0)
    BY <1>2, <2>1, Closed
  <2> QED
    BY <1>2, <1>3, <1>4, <2>2 DEF Proper, f
<1>7. I \in Rat /\ Mul(s, I) = Num(1) /\ (\A x \in Rat : Div(x, s) = Mul(x, I)) /\ Minus(m) \in Rat
  BY <1>2, <1>4, Units, Closed
<1> HIDE DEF I
<1> DEFINE c1 == Shifted(c, Minus(m))
           c2 == Stretched(c1, I)
           c3 == Shifted(c2, Num(1))
           c4 == Stretched(c3, f)
           c5 == Shifted(c4, Num(r1))
<1>8. ScaledAll(c, p) = c5
  <2>1. DOMAIN c = 1 .. Len(c) /\ \A i \in DOMAIN c : c[i] \in Rat
    OBVIOUS
  <2>2. ASSUME NEW x \in Rat
        PROVE  Scaled(x, p) =
                 Add(Mul(Add(Mul(Add(x, Minus(m)), I), Num(1)), f), Num(r1))
    <3>1. Scaled(x, p) = Add(Mul(Sub(Div(Sub(x, m), s), old_min), f), Num(r1))
      BY <1>2 DEF Scaled, f
    <3>2. Sub(x, m) = Add(x, Minus(m)) /\ Add(x, Minus(m)) \in Rat
      BY <1>7, Closed DEF Sub
    <3>3. Div(Sub(x, m), s) = Mul(Add(x, Minus(m)), I)
      BY <1>7, <3>2
    <3>4. Sub(Mul(Add(x, Minus(m)), I), old_min) = Add(Mul(Add(x, Minus(m)), I), Num(1))
      BY <1>3 DEF Sub
    <3> QED
      BY <3>1, <3>3, <3>4
  <2>3. ScaledAll(c, p) = [i \in DOMAIN c |->
          Add(Mul(Add(Mul(Add(c[i], Minus(m)), I), Num(1)), f), Num(r1))]
    BY <2>1, <2>2, Zenon DEF ScaledAll
  <2>4. c5 = [i \in DOMAIN c |->
          Add(Mul(Add(Mul(Add(c[i], Minus(m)), I), Num(1)), f), Num(r1))]
    BY Zenon DEF Shifted, Stretched
  <2> QED
    BY <2>3, <2>4
<1>9. c1 \in Seq(Rat) /\ c1 # <<>>
  BY <1>7, StillColumns
<1> HIDE DEF c1
<1>10. c2 \in Seq(Rat) /\ c2 # <<>>
  BY <1>7, <1>9, StillColumns
<1> HIDE DEF c2
<1>11. c3 \in Seq(Rat) /\ c3 # <<>>
  BY <1>3, <1>10, StillColumns
<1> HIDE DEF c3
<1>12. c4 \in Seq(Rat) /\ c4 # <<>>
  BY <1>2, <1>11, StillColumns
<1> HIDE DEF c4
<1>13. Mean(c5) = Add(f, Num(r1))
  <2>1. Mean(c1) = Add(m, Minus(m))
    BY <1>7, MeansChange DEF c1, m
  <2>2. Add(m, Minus(m)) = Num(0)
    BY <1>2, Units DEF Sub
  <2>3. Mean(c2) = Mul(Num(0), I)
    BY <1>7, <1>9, <2>1, <2>2, MeansChange DEF c2
  <2>4. Mul(Num(0), I) = Num(0) /\ Add(Num(0), Num(1)) = Num(1) /\ Mul(Num(1), f) = f
    BY <1>2, <1>3, <1>7, Units
  <2>5. Mean(c3) = Num(1)
    BY <1>3, <1>10, <2>3, <2>4, MeansChange DEF c3
  <2>6. Mean(c4) = f
    BY <1>2, <1>11, <2>4, <2>5, MeansChange DEF c4
  <2> QED
    BY <1>3, <1>12, <2>6, MeansChange
<1>14. Variance(c5) = Mul(f, f)
  <2>1. Variance(c1) = Mul(s, s)
    BY <1>4, <1>7, VariancesChange DEF c1
  <2>2. Variance(c2) = Mul(Mul(s, s), Mul(I, I))
    BY <1>7, <1>9, <2>1, VariancesChange DEF c2
  <2>3. Mul(Mul(s, s), Mul(I, I)) = Mul(Num(1), Num(1))
    BY <1>2, <1>7, SquareOf
  <2>4. Mul(Num(1), Num(1)) = Num(1) /\ Mul(Num(1), Mul(f, f)) = Mul(f, f)
    BY <1>2, <1>3, Units, Closed
  <2>5. Variance(c3) = Num(1)
    BY <1>3, <1>10, <2>2, <2>3, <2>4, VariancesChange DEF c3
  <2>6. Variance(c4) = Mul(f, f)
    BY <1>2, <1>11, <2>4, <2>5, VariancesChange DEF c4
  <2> QED
    BY <1>3, <1>12, <2>6, VariancesChange
<1>15. Deviation(c5) = f
  <2>1. r2 - r1 \in Int /\ r2 - r1 > 0
    BY <1>1
  <2>2. Sqrt(Mul(f, f)) = f
    BY <1>5, <2>1, RootOfHalf
  <2> QED
    BY <1>14, <2>2 DEF Deviation
<1>16. f = Reduced(r2 - r1, 2)
  <2>1. r2 - r1 \in Int /\ 2 \in Int /\ 2 # 0
    BY <1>1
  <2>2. Equals(Reduced(r2 - r1, 2), r2 - r1, 2)
    BY <2>1, ReducedIs
  <2> QED
    BY <1>5, <2>2, SameToo
<1>17. Add(f, Num(r1)) = Reduced(r1 + r2, 2)
  <2>1. Equals(Add(f, Num(r1)), (r2 - r1) * 1 + r1 * 2, 2 * 1)
    BY <1>3, <1>5, AddIs
  <2>2. (r2 - r1) * 1 + r1 * 2 = r1 + r2 /\ 2 * 1 = 2 /\ r1 + r2 \in Int
    BY <1>1
  <2>3. Equals(Reduced(r1 + r2, 2), r1 + r2, 2)
    BY <2>2, ReducedIs
  <2> QED
    BY <2>1, <2>2, <2>3, SameToo
<1> QED
  BY <1>6, <1>8, <1>13, <1>15, <1>16, <1>17 DEF p, r1, r2

(* What was scaled once is fitted.                                         *)
LEMMA Fitted == ScalingInv => FittedRange
<1> SUFFICES ASSUME ScalingInv, NEW place \in Places,
                    fitted[place] \in Ranges, fitted[place][1] # fitted[place][2], depth[place] = 1,
                    parameters[place].deviation # Num(0),
                    Mul(parameters[place].deviation, parameters[place].deviation)
                      = Variance(since[place])
             PROVE  /\ Mean(rows[place]) = Reduced(fitted[place][1] + fitted[place][2], 2)
                    /\ Deviation(rows[place]) = Reduced(fitted[place][2] - fitted[place][1], 2)
  BY DEF FittedRange
<1>1. fitted[place] # Default /\ parameters # NULL
  BY Fits, NoneIs
<1>2. PlaceIs(parameters[place], rows[place], since[place], 1, fitted[place])
  BY <1>1, AllocatedIs DEF ScalingInv
<1> DEFINE c == since[place]
           r == fitted[place]
           p == FittedTo(c, r)
<1>3. /\ c \in Seq(Rat) /\ c # <<>> /\ parameters[place] = p
      /\ Proper(p) => Orbit(c, rows[place], 1, p)
  BY <1>1, <1>2 DEF PlaceIs
<1>4. p.deviation = Deviation(c)
  BY DEF FittedTo
<1> HIDE DEF p
<1>5. Deviation(c) # Num(0) /\ Mul(Deviation(c), Deviation(c)) = Variance(c)
  BY <1>3, <1>4
<1> HIDE DEF c, r
<1>6. /\ Proper(p)
      /\ Mean(ScaledAll(c, p)) = Reduced(r[1] + r[2], 2)
      /\ Deviation(ScaledAll(c, p)) = Reduced(r[2] - r[1], 2)
  BY <1>3, <1>5, FittedColumn DEF p, r
<1>7. rows[place] = ScaledAll(c, p)
  BY <1>3, <1>6, OrbitIs
<1> QED
  BY <1>6, <1>7 DEF r

(* Whatever the data, if its variance has an exact root, and the range: the *)
(* data a network was fitted to with fann_set_scaling_params and scaled     *)
(* once has the mean and the deviation the range asks for.                 *)
THEOREM FittedDataIsInRange == Spec => []FittedRange
<1>1. Spec => []ScalingInv
  BY ScalingInvariant
<1> QED
  BY <1>1, Fitted, PTL
=============================================================================
