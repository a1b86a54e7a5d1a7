----------------------------- MODULE TrainData -----------------------------
(***************************************************************************)
(* Training data (fann_train_data.c), the error record of a data set       *)
(* (fann_error.c), and class training_data of fann_cpp.h, whose objects    *)
(* hold one set each.                                                      *)
(*                                                                         *)
(* A set has its values in two blocks; input[i] and output[i] say where in *)
(* them the values of row i begin.  Values are numbers in units of 1/One;  *)
(* a file holds multiples of Grid.                                         *)
(***************************************************************************)
EXTENDS Integers, Sequences, SequencesExt, FiniteSetsExt

CONSTANTS
  Objects,             \* of class training_data
  Examples,            \* a sequence of [input, output], longest tuples of numbers
  Shapes,              \* <<num_input, num_output>>
  One, Grid,
  UIntModulus,
  AllocMayFail,
  MaxData,             \* bound: rows of a set
  MaxCalls             \* bound: between two starts of the program

ASSUME TrainDataAssumption ==
  /\ Examples \in Seq([input : Seq(Int), output : Seq(Int)])
  /\ Shapes \subseteq (Nat \ {0}) \X (Nat \ {0})
  /\ \A s \in Shapes, e \in Range(Examples) :
       s[1] <= Len(e.input) /\ s[2] <= Len(e.output)
  /\ Grid \in Nat \ {0} /\ One \in Nat \ {0} /\ One % Grid = 0
  /\ MaxData \in Nat /\ MaxCalls \in Nat
  /\ UIntModulus \in Nat /\ UIntModulus > 2 * MaxData
  /\ AllocMayFail \in BOOLEAN

VARIABLES
  pc,                  \* "call", or "crashed" when C no longer defines the run
  train_data,          \* of each object
  file,                \* one file, with all that was written to it
  lost,                \* no part of the code: memory nobody can free any more
  excused,             \* something outside the rules was met, see Excuse
  calls

vars == <<pc, train_data, file, lost, excused, calls>>

NULL == [none |-> TRUE]
Errors == {"NO_ERROR", "CANT_ALLOCATE_MEM", "TRAIN_DATA_MISMATCH", "TRAIN_DATA_SUBSET",
           "CANT_OPEN_TD_W"}

\* errstr of a set is the error it tells of, "none" for NULL, or "wild" if it has
\* no initial value.

num_data(s) == Len(s.input)
Held == {o \in Objects : train_data[o] # NULL}

-----------------------------------------------------------------------------
(* Memory *)

Parts == <<"struct", "input", "output", "data_input", "data_output">>
FirstParts(k) == {Parts[j] : j \in 1 .. k}

\* fann_destroy_train on what has been allocated: the two pointer arrays are
\* looked into if they are not NULL, whatever they are when nothing was assigned
\* to them, and a block of values is freed through the first row.
Freed(reachable) == {"struct", "input", "output"} \cup reachable

FreesInputsOnly(allocated, assigned, reachable) ==  \* a mutant
  [lost |-> allocated \ Freed(reachable \ {"data_output"}), defined |-> TRUE]

Destroyed(allocated, assigned, reachable) ==
  [lost |-> allocated \ Freed(reachable),
   defined |-> {"input", "output"} \subseteq assigned]

\* A set that is held: without rows, what the blocks are freed through lies
\* behind the end of an array; a message is never freed.
DestroyedHeld(s) ==
  LET d == Destroyed(Range(Parts), Range(Parts),
                     IF num_data(s) = 0 THEN {} ELSE {"data_input", "data_output"})
  IN [lost |-> d.lost \cup IF s.errstr \in Errors THEN {"errstr"} ELSE {},
      defined |-> num_data(s) > 0 /\ s.input[1] = 0 /\ s.output[1] = 0]

\* destroy_train of class training_data
DestroyedOf(o) ==
  IF o \in Held THEN DestroyedHeld(train_data[o]) ELSE [lost |-> {}, defined |-> TRUE]

\* A set from its blocks
Rows(shape, n, data_input, data_output) ==
  [num_input |-> shape[1], num_output |-> shape[2],
   input |-> [i \in 1 .. n |-> (i - 1) * shape[1]],
   output |-> [i \in 1 .. n |-> (i - 1) * shape[2]],
   data_input |-> data_input, data_output |-> data_output,
   errno_f |-> "NO_ERROR", errstr |-> "none"]

Outcome(set, lost_parts, is_defined, is_excused) ==
  [set |-> set, lost |-> lost_parts, defined |-> is_defined, excused |-> is_excused]

\* The outcomes of allocating a set: it is there, or its k-th allocation failed
\* and those before are destroyed; "messages" is what reporting that may lose.
Made(s, messages) ==
  {Outcome(s, {}, TRUE, num_data(s) = 0)} \cup
  (IF ~AllocMayFail THEN {}
   ELSE {Outcome(NULL, messages, TRUE, TRUE)} \cup
        {LET d == Destroyed(FirstParts(k - 1), FirstParts(k), {})
         IN Outcome(NULL, d.lost \cup messages, d.defined, TRUE) : k \in 2 .. 5})

\* Memory of one block from another; behind its end there is anything.
Anything == UIntModulus * One
Copied(block, from, n) ==
  [j \in 1 .. n |-> IF from + j <= Len(block) THEN block[from + j] ELSE Anything]

\* n rows of a set from row i on, wherever that begins
InputsFrom(s, i, n) ==
  IF n = 0 THEN <<>> ELSE Copied(s.data_input, s.input[i], n * s.num_input)
OutputsFrom(s, i, n) ==
  IF n = 0 THEN <<>> ELSE Copied(s.data_output, s.output[i], n * s.num_output)

-----------------------------------------------------------------------------
(* fann_error *)

\* What a message says once another error is written to it
KeepsMessage(s, e) == IF s.errstr = "none" THEN e ELSE s.errstr  \* a mutant

NewMessage(s, e) == e

\* The outcomes of fann_error for a set: its message is used again or made; the
\* number is set before that is known to work.
WithError(s, e) ==
  {[s EXCEPT !.errno_f = e, !.errstr = NewMessage(s, e)]} \cup
  (IF AllocMayFail /\ s.errstr = "none" THEN {[s EXCEPT !.errno_f = e]} ELSE {})

-----------------------------------------------------------------------------
(* Calls *)

Call == pc = "call" /\ calls < MaxCalls /\ calls' = calls + 1

\* The sets afterwards.  An undefined call may end the program or go well.
Ends(sets, lost_parts, is_defined, is_excused) ==
  /\ \/ pc' = "call" /\ train_data' = sets /\ lost' = lost \cup lost_parts
     \/ ~is_defined /\ pc' = "crashed" /\ UNCHANGED <<train_data, lost>>
  /\ excused' = (excused \/ is_excused)

\* Object o destroys what it holds and takes what was made.
Replaced(o, r) ==
  LET before == DestroyedOf(o)
  IN Ends([train_data EXCEPT ![o] = r.set], before.lost \cup r.lost,
          before.defined /\ r.defined, r.excused)

\* fann_error writes to the message there is, also to one that never was.
Reported(o, e, lost_parts, is_defined) ==
  \E s \in WithError(train_data[o], e) :
    Ends([train_data EXCEPT ![o] = s], lost_parts,
         is_defined /\ train_data[o].errstr # "wild", TRUE)

-----------------------------------------------------------------------------
(* Operations *)

\* What the caller's function gives, row by row
Joined(tuples) == FoldLeft(LAMBDA a, b : a \o b, <<>>, tuples)
Given(shape, rows) ==
  Rows(shape, Len(rows),
       Joined([i \in DOMAIN rows |-> SubSeq(Examples[rows[i]].input, 1, shape[1])]),
       Joined([i \in DOMAIN rows |-> SubSeq(Examples[rows[i]].output, 1, shape[2])]))

SomeRows == {[i \in 1 .. n |-> i] : n \in 0 .. Min({MaxData, Len(Examples)})}

create_train_from_callback(o) ==
  /\ Call
  /\ \E shape \in Shapes, rows \in SomeRows :
       \E r \in Made(Given(shape, rows), {"errstr"}) : Replaced(o, r)
  /\ UNCHANGED file

\* Checks none of its allocations, and gives the set no error record.
set_train_data(o) ==
  /\ Call
  /\ \E shape \in Shapes, rows \in SomeRows :
       \/ Replaced(o, Outcome([Given(shape, rows) EXCEPT !.errstr = "wild"],
                              {}, TRUE, rows = <<>>))
       \/ /\ AllocMayFail /\ pc' = "crashed" /\ excused' = TRUE
          /\ UNCHANGED <<train_data, lost>>
  /\ UNCHANGED file

destroy_train(o) ==
  /\ Call /\ o \in Held
  /\ Replaced(o, Outcome(NULL, {}, TRUE, FALSE))
  /\ UNCHANGED file

\* fann_duplicate_train_data in the copy constructor, which first destroys what
\* the new object has instead of a pointer.  An error goes to the original.
copy_training_data(o, from) ==
  /\ Call /\ o \notin Held /\ from \in Held
  /\ \/ pc' = "crashed" /\ excused' = TRUE /\ UNCHANGED <<train_data, lost>>
     \/ LET s == train_data[from]
            n == num_data(s)
            copy == Rows(<<s.num_input, s.num_output>>, n,
                         InputsFrom(s, 1, n), OutputsFrom(s, 1, n))
        IN \E r \in Made(copy, {}) :
             IF r.set # NULL
             THEN Ends([train_data EXCEPT ![o] = r.set], {}, r.defined, r.excused)
             ELSE Reported(from, "CANT_ALLOCATE_MEM", r.lost, r.defined)
  /\ UNCHANGED file

\* The new set replaces the old one, unless there is none.  The struct is lost
\* when the sets do not fit.
merge_train_data(o, from) ==
  /\ Call /\ {o, from} \subseteq Held
  /\ LET s == train_data[o]
         t == train_data[from]
         n == num_data(s) + num_data(t)
         merged == Rows(<<s.num_input, s.num_output>>, n,
           InputsFrom(s, 1, num_data(s)) \o InputsFrom(t, 1, num_data(t)),
           OutputsFrom(s, 1, num_data(s)) \o OutputsFrom(t, 1, num_data(t)))
     IN IF <<s.num_input, s.num_output>> # <<t.num_input, t.num_output>>
        THEN Reported(o, "TRAIN_DATA_MISMATCH", {"struct"}, TRUE)
        ELSE /\ n <= MaxData
             /\ \E r \in Made(merged, {}) :
                  IF r.set # NULL THEN Replaced(o, r)
                  ELSE Reported(o, "CANT_ALLOCATE_MEM", r.lost, r.defined)
  /\ UNCHANGED file

\* The old set is destroyed whether there is a new one or not, with the error it
\* got.  The end of the subset is an unsigned sum.
SubsetRefused(s, pos, length) ==
  pos > num_data(s) \/ (pos + length) % UIntModulus > num_data(s)

subset_train_data(o) ==
  /\ Call /\ o \in Held
  /\ LET s == train_data[o]
         Without(e, r) ==
           \E t \in WithError(s, e) :
             LET d == DestroyedHeld(t)
             IN Ends([train_data EXCEPT ![o] = NULL], r.lost \cup d.lost,
                     r.defined /\ d.defined /\ s.errstr # "wild", TRUE)
     IN \E pos \in 0 .. num_data(s) + 1, length \in 0 .. MaxData \cup {UIntModulus - 1} :
          IF SubsetRefused(s, pos, length)
          THEN Without("TRAIN_DATA_SUBSET", Outcome(NULL, {"struct"}, TRUE, TRUE))
          ELSE IF length > MaxData
          THEN Without("CANT_ALLOCATE_MEM", Outcome(NULL, {}, FALSE, TRUE))
          ELSE \E r \in Made(Rows(<<s.num_input, s.num_output>>, length,
                                  InputsFrom(s, pos + 1, length),
                                  OutputsFrom(s, pos + 1, length)), {}) :
                 IF r.set # NULL THEN Replaced(o, r) ELSE Without("CANT_ALLOCATE_MEM", r)
  /\ UNCHANGED file

\* Two rows change places, value by value; the rows stay where they are.
SwapPointers(s, i, j) ==  \* a mutant
  [s EXCEPT !.input = [@ EXCEPT ![i] = s.input[j], ![j] = s.input[i]],
            !.output = [@ EXCEPT ![i] = s.output[j], ![j] = s.output[i]]]

Exchanged(block, from, to, n) ==
  [k \in DOMAIN block |->
     IF k \in from + 1 .. from + n THEN block[k - from + to]
     ELSE IF k \in to + 1 .. to + n THEN block[k - to + from] ELSE block[k]]
Swap(s, i, j) ==
  IF i = j THEN s
  ELSE [s EXCEPT !.data_input = Exchanged(@, s.input[i], s.input[j], s.num_input),
                 !.data_output = Exchanged(@, s.output[i], s.output[j], s.num_output)]

shuffle_train_data(o) ==
  /\ Call /\ o \in Held
  /\ LET n == num_data(train_data[o])
     IN \E swap \in [1 .. n -> 1 .. n] :
          Ends([train_data EXCEPT ![o] =
                  FoldLeft(LAMBDA s, dat : Swap(s, dat, swap[dat]), @,
                           [dat \in 1 .. n |-> dat])], {}, TRUE, FALSE)
  /\ UNCHANGED file

-----------------------------------------------------------------------------
(* Files *)

\* "%d" for a value that is a whole number to the digits of "%f"
Whole(x) == ((x + One \div 2) \div One) * (One \div Grid) = (x + Grid \div 2) \div Grid

Written(x) ==
  IF Whole(x) THEN (IF x < 0 THEN -((-x) \div One) ELSE x \div One) * One
  ELSE ((x + Grid \div 2) \div Grid) * Grid

Row(s, i) == InputsFrom(s, i, 1) \o OutputsFrom(s, i, 1)

\* A file that cannot be opened is an error of the set; nothing else of the
\* writing is checked.
save_train(o) ==
  /\ Call /\ o \in Held
  /\ \/ /\ Reported(o, "CANT_OPEN_TD_W", {}, TRUE)
        /\ UNCHANGED file
     \/ LET s == train_data[o]
            values == Joined([i \in 1 .. num_data(s) |-> Row(s, i)])
        IN /\ file' = [num_data |-> num_data(s),
                       shape |-> <<s.num_input, s.num_output>>,
                       values |-> [k \in DOMAIN values |-> Written(values[k])]]
           /\ Ends(train_data, {}, TRUE, FALSE)

\* The set of a file that was read to the end
FileRows ==
  LET ni == file.shape[1]
      no == file.shape[2]
      At(i) == (i - 1) * (ni + no)
  IN Rows(file.shape, file.num_data,
          Joined([i \in 1 .. file.num_data |-> SubSeq(file.values, At(i) + 1, At(i) + ni)]),
          Joined([i \in 1 .. file.num_data |->
                    SubSeq(file.values, At(i) + ni + 1, At(i) + ni + no)]))

\* The file may be missing, or end anywhere; the outputs are not reachable
\* before the inputs of the first row are read.
NotRead ==
  LET Lost(d) == Outcome(NULL, d.lost \cup {"errstr"}, d.defined, TRUE)
      Whole5 == Range(Parts)
  IN {Outcome(NULL, {"errstr"}, TRUE, TRUE), Lost(Destroyed({"struct"}, {}, {}))} \cup
     {Lost(Destroyed(Whole5, Whole5,
             IF t <= file.shape[1] THEN {"data_input"} ELSE {"data_input", "data_output"}))
        : t \in DOMAIN file.values}

read_train_from_file(o) ==
  /\ Call /\ file # NULL
  /\ \E r \in NotRead \cup Made(FileRows, {"errstr"}) : Replaced(o, r)
  /\ UNCHANGED file

-----------------------------------------------------------------------------
(* The error record, in the hands of the caller *)

ErrorsCleared(o, s) ==
  /\ Call /\ o \in Held
  /\ Ends([train_data EXCEPT ![o] = s], {}, train_data[o].errstr # "wild",
          train_data[o].errstr = "wild")
  /\ UNCHANGED file

\* The message is freed before the caller has read it.
fann_get_errstr(o) ==
  ErrorsCleared(o, [train_data[o] EXCEPT !.errno_f = "NO_ERROR", !.errstr = "none"])
fann_reset_errstr(o) == ErrorsCleared(o, [train_data[o] EXCEPT !.errstr = "none"])
fann_reset_errno(o) ==
  /\ Call /\ o \in Held
  /\ Ends([train_data EXCEPT ![o].errno_f = "NO_ERROR"], {}, TRUE, FALSE)
  /\ UNCHANGED file

Init ==
  /\ pc = "call"
  /\ train_data = [o \in Objects |-> NULL]
  /\ file = NULL
  /\ lost = {} /\ excused = FALSE /\ calls = 0

\* The program is started again; the file is still there.
Restart ==
  /\ pc = "crashed" \/ calls = MaxCalls
  /\ pc' = "call"
  /\ train_data' = [o \in Objects |-> NULL]
  /\ lost' = {} /\ excused' = FALSE /\ calls' = 0
  /\ UNCHANGED file

Next ==
  \/ \E o \in Objects :
       \/ create_train_from_callback(o) \/ set_train_data(o) \/ destroy_train(o)
       \/ subset_train_data(o) \/ shuffle_train_data(o)
       \/ save_train(o) \/ read_train_from_file(o)
       \/ fann_get_errstr(o) \/ fann_reset_errno(o) \/ fann_reset_errstr(o)
  \/ \E o, from \in Objects : copy_training_data(o, from) \/ merge_train_data(o, from)
  \/ Restart

Spec == Init /\ [][Next]_vars

-----------------------------------------------------------------------------
(* Properties *)

\* A value that a file can hold is the one that was given, however often it was
\* written and read; of any other a file leaves the whole part at least.
IsOf(x, given) ==
  x = given \/ (given % Grid # 0 /\ x - given < One /\ given - x < One)

\* Every row of every set is one of the examples, its outputs with its inputs:
\* whatever sequence of copies, merges, subsets, shuffles and files it went
\* through, and wherever in the blocks its values lie (fann_merge_train_data and
\* the others copy from the first row on and rely on the rows being in order).
RowsAreExamples ==
  \A o \in Held : \A i \in 1 .. num_data(train_data[o]) :
    \E e \in DOMAIN Examples :
      LET s == train_data[o]
          given == SubSeq(Examples[e].input, 1, s.num_input)
                     \o SubSeq(Examples[e].output, 1, s.num_output)
      IN \A k \in DOMAIN Row(s, i) : IsOf(Row(s, i)[k], given[k])

\* Memory is lost, and freed or read where there is none, only in a program in
\* which a call has failed, a set without rows has been made, the end of a subset
\* has wrapped around, or a pointer of fann_cpp.h has had no initial value.
LossesExcused == lost # {} \/ pc = "crashed" => excused

\* A message is that of the error number it is printed with (fann_print_error),
\* unless the number was reset.
MessageMatchesNumber ==
  \A o \in Held :
    train_data[o].errno_f # "NO_ERROR" /\ train_data[o].errstr # "none" =>
      train_data[o].errstr \in {train_data[o].errno_f, "wild"}
=============================================================================
