------------------------------ MODULE Scaling ------------------------------
(***************************************************************************)
(* Scaling (fann_train_data.c; fann_allocate_scale of fann.c): a data set   *)
(* scaled to a range, and the parameters a network keeps to scale data to  *)
(* what it was trained with and its answers back.                          *)
(*                                                                         *)
(* A data set has a column for each input and each output of the network,   *)
(* and a number of rows.  Numbers are exact: <<n, d>> is n/d, <<0, 0>> is  *)
(* what a division by zero leaves.                                         *)
(***************************************************************************)
EXTENDS Integers, Sequences, SequencesExt, FiniteSetsExt

CONSTANTS
  num_input, num_output,
  Columns,             \* what a data set may have for an input or an output
  Ranges,              \* <<new_min, new_max>>
  AllocMayFail,
  MaxCalls             \* bound: of one network

ASSUME ScalingAssumption ==
  /\ num_input \in Nat \ {0} /\ num_output \in Nat \ {0}
  /\ Columns \subseteq Seq(Int)
  /\ Ranges \subseteq Int \X Int /\ \A r \in Ranges : r[1] <= r[2]
  /\ AllocMayFail \in BOOLEAN /\ MaxCalls \in Nat

VARIABLES
  pc,                  \* "call", or "freed" when the network is gone under the caller
  parameters,          \* scale_mean_in[i] and so on, of each place, or NULL
  rows,                \* the column of each place
  since,               \* no part of the code: the columns when the parameters were set
  depth,               \*   how often these have scaled, less descaled, each since then
  fitted,              \*   the range each was fitted to, or Default
  calls

vars == <<pc, parameters, rows, since, depth, fitted, calls>>

Sides == {"in", "out"}
Places == {"in"} \X (1 .. num_input) \cup {"out"} \X (1 .. num_output)
Of(sides) == {place \in Places : place[1] \in sides}
NULL == <<>>
Default == <<>>
Other == <<"other">>   \* to a range, but not for these rows

-----------------------------------------------------------------------------
(* Numbers *)

Abs(n) == IF n < 0 THEN -n ELSE n
\* In lowest terms: with the least denominator there is
Reduced(n, d) ==
  IF d = 0 THEN <<0, 0>>
  ELSE LET size == Abs(d)
           least == Min({e \in 1 .. size : (n * e) % size = 0})
       IN <<((IF d < 0 THEN -n ELSE n) * least) \div size, least>>

NaN == <<0, 0>>
Num(n) == <<n, 1>>
Add(a, b) == Reduced(a[1] * b[2] + b[1] * a[2], a[2] * b[2])
Minus(a) == <<-a[1], a[2]>>
Sub(a, b) == Add(a, Minus(b))
Mul(a, b) == Reduced(a[1] * b[1], a[2] * b[2])
Div(a, b) == IF b[1] = 0 THEN NaN ELSE Reduced(a[1] * b[2], a[2] * b[1])
Less(a, b) == a[1] * b[2] < b[1] * a[2]

\* Rounded down; the columns of the instance have exact roots.
Root(n) == CHOOSE r \in 0 .. n : r * r <= n /\ n < (r + 1) * (r + 1)
Sqrt(a) == Reduced(Root(a[1]), Root(a[2]))

Sum(column) == FoldLeft(Add, Num(0), column)
Mean(column) == Div(Sum(column), Num(Len(column)))
Variance(column) ==
  LET mean == Mean(column)
  IN Div(Sum([i \in DOMAIN column |->
                Mul(Sub(column[i], mean), Sub(column[i], mean))]),
         Num(Len(column)))
Deviation(column) == Sqrt(Variance(column))

\* All the values of one side
Block(data, side) == UNION {Range(data[place]) : place \in Of({side})}
Least(block) == CHOOSE x \in block : \A y \in block : ~Less(y, x)
Greatest(block) == CHOOSE x \in block : \A y \in block : ~Less(x, y)
Constant(block) == \A x, y \in block : x = y
Broken(column) == NaN \in Range(column)

-----------------------------------------------------------------------------
(* The parameters of a network *)

\* What leaves everything as it is, for the old minimum scaling assumes
old_min == Num(-1)
NothingMoved == \* a mutant
  [mean |-> Num(0), deviation |-> Num(1), new_min |-> Num(0), factor |-> Num(1)]

Reset ==
  [mean |-> Num(0), deviation |-> Num(1), new_min |-> Num(-1), factor |-> Num(1)]

FittedTo(column, range) ==
  [mean |-> Mean(column), deviation |-> Deviation(column),
   new_min |-> Num(range[1]),
   factor |-> Div(Sub(Num(range[2]), Num(range[1])), Sub(Num(1), old_min))]

ScaledFromZero(x, p) ==  \* a mutant
  Add(Mul(Div(Sub(x, p.mean), p.deviation), p.factor), p.new_min)

Scaled(x, p) ==
  Add(Mul(Sub(Div(Sub(x, p.mean), p.deviation), old_min), p.factor), p.new_min)
Descaled(x, p) ==
  Add(Mul(Add(Div(Sub(x, p.new_min), p.factor), old_min), p.deviation), p.mean)

Each(column, Op(_)) == [i \in DOMAIN column |-> Op(column[i])]

Call == pc = "call" /\ calls < MaxCalls /\ calls' = calls + 1

\* The parameters of `places` come from `values`; the others', if there were
\* none, from fann_allocate_scale.
Allocated == IF parameters = NULL THEN [place \in Places |-> Reset] ELSE parameters
ParametersSet(places, values, ranges) ==
  /\ parameters' = [place \in Places |->
       IF place \in places THEN values[place] ELSE Allocated[place]]
  /\ fitted' = [place \in Places |->
       IF place \in places THEN ranges[place] ELSE fitted[place]]
  /\ since' = [place \in Places |->
       IF place \in places THEN rows[place] ELSE since[place]]
  /\ depth' = [place \in Places |-> IF place \in places THEN 0 ELSE depth[place]]
  /\ UNCHANGED <<pc, rows>>

\* fann_allocate_scale destroys the network when it cannot allocate, and the
\* caller of this operation still has it.
NetworkFreed ==
  /\ AllocMayFail /\ parameters = NULL
  /\ pc' = "freed"
  /\ UNCHANGED <<parameters, rows, since, depth, fitted>>

\* fann_set_input_scaling_params, fann_set_output_scaling_params and
\* fann_set_scaling_params; of a set without rows nothing can be learned.
fann_set_scaling_params(sides) ==
  /\ Call
  /\ \A place \in Of(sides) : ~Broken(rows[place])
  /\ \/ NetworkFreed
     \/ \E range \in [sides -> Ranges] :
          LET empty == \A place \in Places : rows[place] = <<>>
          IN ParametersSet(Of(sides),
               [place \in Of(sides) |->
                  IF empty THEN Reset ELSE FittedTo(rows[place], range[place[1]])],
               [place \in Of(sides) |-> IF empty THEN Default ELSE range[place[1]]])

fann_clear_scaling_params ==
  /\ Call
  /\ \/ NetworkFreed
     \/ ParametersSet(Places,
          [place \in Places |-> Reset], [place \in Places |-> Default])

\* fann_set_scaling_params, fann_scale_train and fann_descale_train refuse data with
\* another number of inputs or outputs (FANN_E_TRAIN_DATA_MISMATCH) before they
\* change anything.
Mismatched == Call /\ UNCHANGED <<pc, parameters, rows, since, depth, fitted>>

-----------------------------------------------------------------------------
(* Scaling data *)

Refitted(place) == IF fitted[place] = Default THEN Default ELSE Other

\* Without parameters it is an error and nothing is done.
Moved(places, Op(_, _), step) ==
  /\ IF parameters = NULL THEN UNCHANGED <<rows, depth>>
     ELSE /\ rows' = [place \in Places |->
               IF place \in places
               THEN Each(rows[place], LAMBDA x : Op(x, parameters[place]))
               ELSE rows[place]]
          /\ depth' = [place \in Places |->
               IF place \in places THEN depth[place] + step ELSE depth[place]]
  /\ UNCHANGED <<pc, parameters, since, fitted>>

\* fann_scale_train; one side: fann_scale_input, fann_scale_output, row by row
fann_scale(sides) == Call /\ Moved(Of(sides), Scaled, 1)
fann_descale(sides) == Call /\ Moved(Of(sides), Descaled, -1)

\* fann_scale_data: to a range, by the least and the greatest value there are
Clipped(x, range) ==
  IF Less(x, Num(range[1])) THEN Num(range[1])
  ELSE IF Less(Num(range[2]), x) THEN Num(range[2]) ELSE x

WithoutMinimum(x, block, range) ==  \* a mutant
  LET factor == Div(Sub(Num(range[2]), Num(range[1])),
                    Sub(Greatest(block), Least(block)))
  IN Clipped(Add(Mul(x, factor), Num(range[1])), range)

ToRange(x, block, range) ==
  LET factor == Div(Sub(Num(range[2]), Num(range[1])),
                    Sub(Greatest(block), Least(block)))
  IN Clipped(Add(Mul(Sub(x, Least(block)), factor), Num(range[1])), range)

\* fann_scale_input_train_data, fann_scale_output_train_data, fann_scale_train_data,
\* of a set with rows: all columns of a side together, so that each need not reach
\* the ends of the range
fann_scale_train_data(sides) ==
  /\ Call
  /\ \A place \in Of(sides) : rows[place] # <<>> /\ ~Broken(rows[place])
  /\ \E range \in Ranges :
       rows' = [place \in Places |->
         IF place \in Of(sides)
         THEN Each(rows[place], LAMBDA x : ToRange(x, Block(rows, place[1]), range))
         ELSE rows[place]]
  /\ since' = [place \in Places |->
       IF place \in Of(sides) THEN rows'[place] ELSE since[place]]
  /\ fitted' = [place \in Places |->
       IF place \in Of(sides) THEN Refitted(place) ELSE fitted[place]]
  /\ depth' = [place \in Places |-> IF place \in Of(sides) THEN 0 ELSE depth[place]]
  /\ UNCHANGED <<pc, parameters>>

\* Another data set, for instance one to test with, and perhaps a new network
Data == {data \in [Places -> Columns] : \A p, q \in Places : Len(data[p]) = Len(data[q])}
Numbers(data) == [place \in Places |-> Each(data[place], Num)]

NewData ==
  /\ \E data \in Data : rows' = Numbers(data)
  /\ since' = rows'
  /\ depth' = [place \in Places |-> 0]

OtherData ==
  /\ Call /\ NewData
  /\ fitted' = [place \in Places |-> Refitted(place)]
  /\ UNCHANGED <<pc, parameters>>

Restart ==
  /\ pc = "freed" \/ calls = MaxCalls
  /\ NewData
  /\ pc' = "call" /\ parameters' = NULL
  /\ fitted' = [place \in Places |-> Default] /\ calls' = 0

Init ==
  /\ pc = "call" /\ parameters = NULL
  /\ \E data \in Data : rows = Numbers(data)
  /\ since = rows
  /\ depth = [place \in Places |-> 0]
  /\ fitted = [place \in Places |-> Default] /\ calls = 0

SomeSides == {{"in"}, {"out"}, Sides}

Next ==
  \/ \E sides \in SomeSides :
       \/ fann_set_scaling_params(sides) \/ fann_scale(sides) \/ fann_descale(sides)
       \/ fann_scale_train_data(sides)
  \/ fann_clear_scaling_params \/ Mismatched \/ OtherData \/ Restart

Spec == Init /\ [][Next]_vars

-----------------------------------------------------------------------------
(* Properties *)

\* What was scaled, and descaled as often with the same parameters, is as it was,
\* in whatever order; parameters that were cleared, never set, or set from no
\* data change nothing at all.  Except for a column that did not vary when it
\* was fitted, and for an empty range, which divide by zero.
DescaleUndoesScale ==
  parameters # NULL =>
    \A place \in Places :
      /\ parameters[place].deviation # Num(0)
      /\ parameters[place].factor # Num(0)
      /\ depth[place] = 0 \/ fitted[place] = Default
      => rows[place] = since[place]

\* The data the parameters were fitted to is spread over the range that was asked
\* for: the mean of each column is in the middle, its deviation half of the range
\* (so that values may lie outside, "not strictly followed", fann_train.h).  Except
\* for an empty range, to which data can be scaled but not back and once more.
FittedRange ==
  \A place \in Places :
    LET range == fitted[place]
        deviation == parameters[place].deviation
    IN /\ range \in Ranges /\ range[1] # range[2] /\ depth[place] = 1
       /\ deviation # Num(0) /\ Mul(deviation, deviation) = Variance(since[place])
       =>
         /\ Mean(rows[place]) = Reduced(range[1] + range[2], 2)
         /\ Deviation(rows[place]) = Reduced(range[2] - range[1], 2)

\* A set that is scaled to a range reaches both ends of it with the inputs, or the
\* outputs, taken together (fann_scale_data has one least and one greatest value
\* for all of them, and a column of its own may reach neither end), and no two
\* values of them, of whichever columns, change their order; unless all of them
\* are the same, which divides by zero.
RangeReached ==
  [][\A sides \in SomeSides : fann_scale_train_data(sides) =>
       \E range \in Ranges : \A side \in sides :
         \/ Constant(Block(rows, side))
         \/ /\ Least(Block(rows', side)) = Num(range[1])
            /\ Greatest(Block(rows', side)) = Num(range[2])
            /\ \A p, q \in Of({side}) : \A i \in DOMAIN rows[p], j \in DOMAIN rows[q] :
                 Less(rows[p][i], rows[q][j]) => ~Less(rows'[q][j], rows'[p][i])
    ]_vars
=============================================================================
