-------------------------- MODULE OrdinaryTraining --------------------------
(***************************************************************************)
(* Ordinary training (fann_train.c, fann_train_data.c): fann_train_on_data *)
(* with its four algorithms, the callback that may change everything       *)
(* between two epochs, and the arrays the algorithms keep from one epoch,  *)
(* and one training, to the next.                                          *)
(*                                                                         *)
(* The network and its data are seen through the slope of the error: an    *)
(* epoch may find any of Slopes for a connection.  One connection, to an   *)
(* output neuron, is followed, in units of 1/10000; of the others only how *)
(* much room the arrays have for them.                                     *)
(***************************************************************************)
EXTENDS Integers, FiniteSets, FiniteSetsExt

CONSTANTS
  Slopes,                       \* of the error, with the decay of the weight
  DeltaZero, DeltaMin, DeltaMax,
  DataSizes,                    \* numbers of patterns
  EpochLimits, ReportIntervals, \* what fann_train_on_data is called with
  AllocMayFail,
  MaxEpochs,                    \* bound: epochs between two starts
  MaxConnections                \* bound: cascade training grows no further

ASSUME TrainingAssumption ==
  /\ Slopes \subseteq Int /\ 0 \in Slopes
  /\ {DeltaZero, DeltaMin, DeltaMax} \subseteq Nat /\ DeltaZero > 0
  /\ DataSizes \subseteq Nat /\ EpochLimits \subseteq Nat
  /\ ReportIntervals \subseteq Nat /\ AllocMayFail \in BOOLEAN
  /\ MaxEpochs \in Nat /\ MaxConnections \in Nat

VARIABLES
  pc,                    \* "idle", in an "epoch", a "report", the "callback";
                         \* in cascade training, the "outputs", "trained", "last"
  training_algorithm,
  array,                 \* the training arrays: how long, and the connection's value
  size,                  \* total_connections_allocated: 1 and how often it has grown
  num_data, max_epochs, epochs_between_reports, i, desired_error_reached,
  errno_f,               \* has an allocation failed?
  defined,               \* no part of the code, like the next four: no NaN yet
  refused,               \* cascade training has left slopes it could not use
  foreign,               \* quickprop has met the arrays of RPROP
  owner,                 \* the algorithm prev_steps and prev_train_slopes are from
  epochs                 \* how many altogether, which was reported last

session == <<num_data, max_epochs, epochs_between_reports, i, desired_error_reached>>
ghosts == <<defined, refused, foreign, owner, epochs>>
vars == <<pc, training_algorithm, array, size, session, errno_f, ghosts>>

Algorithms == {"INCREMENTAL", "BATCH", "RPROP", "QUICKPROP"}
ArrayNames ==
  {"train_errors", "train_slopes", "prev_steps", "prev_train_slopes",
   "prev_weights_deltas"}
NULL == [length |-> 0, value |-> 0]

-----------------------------------------------------------------------------
(* Allocating and clearing *)

\* An array after `name` was set to v, allocated if there is none.
Set(a, name, v) ==
  [a EXCEPT ![name] = [length |-> IF a[name] = NULL THEN size ELSE @.length,
                       value |-> v]]

CanFail(a, name) == AllocMayFail /\ a[name] = NULL

\* Steps that RPROP is to begin with are not quickprop's.
ClearedFor == IF training_algorithm = "RPROP" THEN "RPROP" ELSE "none"
FirstStep == IF training_algorithm = "RPROP" THEN DeltaZero ELSE 0

NeverCleared(a) == {[arrays |-> a, ok |-> TRUE]}  \* a mutant

\* What fann_clear_train_arrays can leave: all three, or those before a failure.
SlopesOnly(a) == Set(a, "train_slopes", 0)
SlopesAndSteps(a) == Set(SlopesOnly(a), "prev_steps", FirstStep)
Cleared(a) ==
  {[arrays |-> Set(SlopesAndSteps(a), "prev_train_slopes", 0), ok |-> TRUE]}
    \cup (IF CanFail(a, "train_slopes") THEN {[arrays |-> a, ok |-> FALSE]} ELSE {})
    \cup (IF CanFail(a, "prev_steps")
          THEN {[arrays |-> SlopesOnly(a), ok |-> FALSE]} ELSE {})
    \cup (IF CanFail(a, "prev_train_slopes")
          THEN {[arrays |-> SlopesAndSteps(a), ok |-> FALSE]} ELSE {})

\* Whose steps they are after that: without success those it could not clear stay.
OwnerAfter(ok) ==
  IF training_algorithm = "RPROP" THEN "RPROP" ELSE IF ok THEN "none" ELSE owner

\* fann_clear_train_arrays, of the arrays a that another failure may have left
Clear(a, failed) ==
  \E c \in Cleared(a) :
    /\ array' = c.arrays /\ errno_f' = (errno_f \/ failed \/ ~c.ok)
    /\ owner' = OwnerAfter(c.ok) /\ foreign' = (foreign /\ ~c.ok)
    /\ refused' = FALSE

\* Before an epoch: quickprop and RPROP clear what does not exist yet.
Prepared(a) ==
  IF training_algorithm \in {"QUICKPROP", "RPROP"} /\ a["prev_train_slopes"] = NULL
  THEN Cleared(a) ELSE {[arrays |-> a, ok |-> TRUE]}

\* An array that is made when it is first used, or cannot be.
Allocated(a, name, v) ==
  {[arrays |-> Set(a, name, v), ok |-> TRUE]}
    \cup (IF CanFail(a, name) THEN {[arrays |-> a, ok |-> FALSE]} ELSE {})

\* fann_compute_MSE; without the errors there is nothing to propagate.
WithErrors(a) == Allocated(a, "train_errors", 0)

\* fann_update_slopes_batch, for all patterns, adds to the slopes.
WithSlopes(a, slope) ==
  Allocated(a, "train_slopes", a["train_slopes"].value + slope)

\* fann_update_weights: the deltas of the last pattern, for the momentum
WithDeltas(a) == Allocated(a, "prev_weights_deltas", 0)

-----------------------------------------------------------------------------
(* The update of a weight; only the steps are followed *)

Sign(x) == IF x > 0 THEN 1 ELSE IF x < 0 THEN -1 ELSE 0
Abs(x) == IF x < 0 THEN -x ELSE x
Quotient(a, b) == Sign(a) * Sign(b) * (Abs(a) \div Abs(b))

\* fann_update_weights_irpropm: a step is at least 0.0001 when it is used.
AsLeft(step) == step  \* a mutant
AtLeastOne(step) == Max({step, 1})
RpropStep(prev_step, prev_slope, slope) ==
  LET step == AtLeastOne(prev_step)
  IN IF prev_slope * slope >= 0
     THEN [step |-> Min({(6 * step) \div 5, DeltaMax}), slope |-> slope]
     ELSE [step |-> Max({(step + 1) \div 2, DeltaMin}), slope |-> 0]

\* fann_update_weights_quickprop: learning rate 0.7, mu 1.75, and a step counts
\* as zero up to 0.001.  `defined` is FALSE when it divides by zero.
Shrunk(prev_slope) == Quotient(7 * prev_slope, 11)  \* mu / (1 + mu)

NoShrinking(prev_slope) == 2 * prev_slope  \* a mutant

ShrinkFactor(prev_slope) == Shrunk(prev_slope)

Linear(slope) == Quotient(7 * slope, 10 * num_data)

QuickpropStep(prev_step, prev_slope, slope) ==
  LET sign == IF prev_step > 10 THEN 1 ELSE IF prev_step < -10 THEN -1 ELSE 0
      linear == IF sign * slope > 0 \/ sign = 0 THEN Linear(slope) ELSE 0
      maximum == sign * slope > sign * ShrinkFactor(prev_slope)
      divides == sign # 0 /\ ~maximum
  IN IF divides /\ prev_slope = slope THEN [step |-> 0, defined |-> FALSE]
     ELSE [step |-> linear + IF sign = 0 THEN 0
                             ELSE IF maximum THEN Quotient(7 * prev_step, 4)
                             ELSE Quotient(prev_step * slope, prev_slope - slope),
           defined |-> TRUE]

\* The arrays an algorithm needs when it updates the weights.
Needed ==
  CASE training_algorithm = "BATCH" -> {"train_slopes"}
    [] training_algorithm = "INCREMENTAL" -> {"prev_weights_deltas"}
    [] OTHER -> {"train_slopes", "prev_steps", "prev_train_slopes"}

KeepSlopes(a) == a  \* a mutant
SlopesUsed(a) == [a EXCEPT !["train_slopes"].value = 0]

UpdateWeights(a) ==
  LET slope == a["train_slopes"].value
      prev_step == a["prev_steps"].value
      prev_slope == a["prev_train_slopes"].value
      rprop == RpropStep(prev_step, prev_slope, slope)
      quickprop == QuickpropStep(prev_step, prev_slope, slope)
  IN /\ refused' = FALSE
     /\ CASE training_algorithm = "RPROP" ->
               /\ array' = SlopesUsed([a EXCEPT !["prev_steps"].value = rprop.step,
                                                !["prev_train_slopes"].value = rprop.slope])
               /\ owner' = "RPROP" /\ UNCHANGED <<defined, foreign>>
          [] training_algorithm = "QUICKPROP" /\ num_data > 0 ->
               /\ array' = SlopesUsed([a EXCEPT !["prev_steps"].value = quickprop.step,
                                                !["prev_train_slopes"].value = slope])
               /\ defined' = (defined /\ quickprop.defined)
               /\ foreign' = (foreign \/ owner = "RPROP")
               /\ owner' = IF foreign' THEN "RPROP" ELSE "QUICKPROP"
          [] training_algorithm = "BATCH" /\ num_data > 0 ->
               array' = SlopesUsed(a) /\ UNCHANGED <<defined, foreign, owner>>
          [] OTHER ->  \* the learning rate is divided by no patterns
               array' = SlopesUsed(a) /\ defined' = FALSE /\ UNCHANGED <<foreign, owner>>

-----------------------------------------------------------------------------
(* fann_train_epoch *)

\* fann_desired_error_reached, by the MSE or by the bits that fail: any error may
\* be small enough, and the error of no patterns is.
ErrorCompared ==
  IF num_data = 0 THEN desired_error_reached' = TRUE
  ELSE desired_error_reached' \in BOOLEAN

Count == epochs' = [epochs EXCEPT !.all = Min({@ + 1, MaxEpochs})]

Crashed(ok) ==
  /\ pc' = "crashed" /\ errno_f' = (errno_f \/ ~ok)
  /\ UNCHANGED <<array, ghosts>>

\* fann_train for each pattern
Incremental ==
  \/ /\ num_data = 0
     /\ pc' = "report" /\ Count
     /\ UNCHANGED <<array, errno_f, defined, refused, foreign, owner>>
  \/ /\ num_data > 0
     /\ \E e \in WithErrors(array) :
          \/ ~e.ok /\ Crashed(FALSE)
          \/ /\ e.ok
             /\ \E d \in WithDeltas(e.arrays) :
                  array' = d.arrays /\ errno_f' = (errno_f \/ ~d.ok)
             /\ pc' = "report" /\ Count
             /\ UNCHANGED <<defined, refused, foreign, owner>>

\* The epoch of the three other algorithms, with the slopes of all patterns
WithPatterns(a, slope) ==
  IF num_data = 0 THEN {[arrays |-> a, ok |-> TRUE, errors |-> TRUE]}
  ELSE UNION {{[arrays |-> s.arrays, ok |-> e.ok /\ s.ok, errors |-> e.ok]
                 : s \in WithSlopes(e.arrays, slope)} : e \in WithErrors(a)}

\* They end with the weights, unless an array is missing.
Updated(w, ok, next) ==
  \/ /\ ~w.errors \/ \E name \in Needed : w.arrays[name] = NULL
     /\ Crashed(ok)
  \/ /\ w.errors /\ \A name \in Needed : w.arrays[name] # NULL
     /\ UpdateWeights(w.arrays)
     /\ errno_f' = (errno_f \/ ~ok)
     /\ pc' \in next /\ Count

Batchwise ==
  \E p \in Prepared(array), slope \in Slopes :
    \E w \in WithPatterns(p.arrays, slope) : Updated(w, p.ok /\ w.ok, {"report"})

Epoch ==
  /\ pc = "epoch"
  /\ ErrorCompared
  /\ IF training_algorithm = "INCREMENTAL" THEN Incremental ELSE Batchwise
  /\ UNCHANGED <<training_algorithm, size, num_data, max_epochs, epochs_between_reports, i>>

-----------------------------------------------------------------------------
(* fann_train_on_data *)

fann_train_on_data ==
  /\ pc = "idle"
  /\ num_data' \in DataSizes /\ max_epochs' \in EpochLimits
  /\ epochs.all + max_epochs' <= MaxEpochs
  /\ epochs_between_reports' \in ReportIntervals
  /\ i' = 1
  /\ pc' = IF 1 <= max_epochs' THEN "epoch" ELSE "idle"
  /\ epochs' = [epochs EXCEPT !.reported = 0]
  /\ UNCHANGED <<training_algorithm, array, size, errno_f,
                 desired_error_reached, defined, refused, foreign, owner>>

Scheduled ==
  \/ i % epochs_between_reports = 0
  \/ i = max_epochs \/ i = 1 \/ desired_error_reached

OnlyScheduled ==  \* a mutant: the last epoch is not reported as such
  i % epochs_between_reports = 0 \/ i = max_epochs \/ i = 1

ReportNow == Scheduled

Report ==
  /\ pc = "report" /\ epochs_between_reports > 0 /\ ReportNow
  /\ pc' = "callback"
  /\ epochs' = [epochs EXCEPT !.reported = i]
  /\ UNCHANGED <<training_algorithm, array, size, session, errno_f,
                 defined, refused, foreign, owner>>

SameAgain == i  \* a mutant

Following == i + 1

NextEpoch(stop) ==
  /\ IF stop \/ desired_error_reached \/ i >= max_epochs
     THEN pc' = "idle" /\ UNCHANGED i
     ELSE pc' = "epoch" /\ i' = Following
  /\ UNCHANGED <<training_algorithm, array, size, errno_f, num_data,
                 max_epochs, epochs_between_reports, desired_error_reached, ghosts>>

NoReport ==
  /\ pc = "report" /\ ~(epochs_between_reports > 0 /\ ReportNow)
  /\ NextEpoch(FALSE)

\* The callback returns -1 to stop; printing a line stops nothing.
CallbackReturns == pc = "callback" /\ \E stop \in BOOLEAN : NextEpoch(stop)

-----------------------------------------------------------------------------
(* fann_cascadetrain_on_data, as far as it concerns the arrays.  Rounds,    *)
(* epochs and the ways out of its loops are CascadeTrain's, the blocks of   *)
(* the network CascadeLayout's.                                             *)

\* fann_train_outputs clears the arrays first.
fann_train_outputs(a, next) == Clear(a, FALSE) /\ pc' \in next

fann_cascadetrain_on_data ==
  /\ pc = "idle" /\ epochs.all < MaxEpochs
  /\ num_data' \in DataSizes
  /\ fann_train_outputs(array, {"outputs", "last"})
  /\ UNCHANGED <<training_algorithm, size, max_epochs, epochs_between_reports, i,
                 desired_error_reached, defined, epochs>>

\* The slopes have been added when the two other algorithms are refused.
RefusedAfter(w, ok, next) ==
  \/ ~w.errors /\ Crashed(ok)
  \/ /\ w.errors
     /\ array' = w.arrays /\ errno_f' = (errno_f \/ ~ok)
     /\ refused' = (refused \/ num_data > 0)
     /\ pc' \in next /\ Count
     /\ UNCHANGED <<defined, foreign, owner>>

\* One of the epochs of fann_train_outputs, the bound ends them
fann_train_outputs_epoch ==
  /\ pc \in {"outputs", "last"}
  /\ \E slope \in Slopes : \E w \in WithPatterns(array, slope) :
       LET over == IF pc = "last" THEN "idle" ELSE "trained"
           next == IF epochs.all < MaxEpochs THEN {pc, over} ELSE {over}
       IN IF training_algorithm \in {"RPROP", "QUICKPROP"}
          THEN Updated(w, w.ok, next) ELSE RefusedAfter(w, w.ok, next)
  /\ UNCHANGED <<training_algorithm, size, session>>

\* fann_reallocate_neurons and fann_reallocate_connections: the first `done' of
\* four arrays have grown, and the next, if not all have, is lost.
Growing == <<"train_errors", "train_slopes", "prev_steps", "prev_train_slopes">>

Reallocated(a, done) ==
  [name \in ArrayNames |->
     IF \E k \in 1 .. done : name = Growing[k]
     THEN [a[name] EXCEPT !.length = size + 1]
     ELSE IF done < 4 /\ name = Growing[done + 1] THEN NULL ELSE a[name]]

\* Room for the candidates, if there is not enough; their part of the arrays is
\* written, one of them becomes a neuron, and the outputs are trained again.
NextNeuron ==
  /\ pc = "trained"
  /\ \/ /\ \A k \in 2 .. 4 : array[Growing[k]] # NULL
        /\ UNCHANGED size
        /\ fann_train_outputs(array, {"outputs", "last"})
     \/ /\ size < MaxConnections /\ size' = size + 1
        /\ fann_train_outputs(Reallocated(array, 4), {"outputs", "last"})
  /\ UNCHANGED <<training_algorithm, session, defined, epochs>>

\* The neurons or one of the arrays could not grow: training goes on without.
RoomIsMissing ==
  /\ pc = "trained" /\ AllocMayFail
  /\ \E a \in {array} \cup {Reallocated(array, done) : done \in 0 .. 3} :
       Clear(a, TRUE)
  /\ pc' = "last"
  /\ UNCHANGED <<training_algorithm, size, session, defined, epochs>>

\* The layers, connections or weights are gone, and are used sooner or later; or
\* the candidates' part of an array that is not there is written.
NetworkIsLost ==
  /\ pc = "trained"
  /\ \/ AllocMayFail /\ errno_f' = TRUE
     \/ (\E k \in 2 .. 4 : array[Growing[k]] = NULL) /\ UNCHANGED errno_f
  /\ pc' = "crashed"
  /\ UNCHANGED <<training_algorithm, array, size, session, ghosts>>

\* The error is small enough, or the callback has returned -1.
StopGrowing ==
  /\ pc = "trained"
  /\ fann_train_outputs(array, {"last"})
  /\ UNCHANGED <<training_algorithm, size, session, defined, epochs>>

-----------------------------------------------------------------------------
(* What a caller does between trainings or in the callback *)

MayCall == pc \in {"idle", "callback", "trained"} /\ epochs.all < MaxEpochs

fann_set_training_algorithm ==
  /\ MayCall
  /\ training_algorithm' \in Algorithms \ {training_algorithm}
  /\ UNCHANGED <<pc, array, size,
                 session, errno_f, ghosts>>

\* One pattern, without resetting the error
fann_train ==
  /\ MayCall
  /\ \E e \in WithErrors(array) :
       \/ ~e.ok /\ pc' = "crashed" /\ errno_f' = TRUE /\ UNCHANGED array
       \/ /\ e.ok
          /\ \E d \in WithDeltas(e.arrays) :
               array' = d.arrays /\ errno_f' = (errno_f \/ ~d.ok)
          /\ UNCHANGED pc
  /\ UNCHANGED <<training_algorithm, size, session, ghosts>>

\* fann_init_weights, too: the arrays are cleared if there are all of them.
fann_randomize_weights ==
  /\ MayCall
  /\ array["prev_train_slopes"] # NULL
  /\ Clear(array, FALSE)
  /\ defined' = TRUE
  /\ UNCHANGED <<pc, training_algorithm, size, session, epochs>>

\* The program is started again.
Restart ==
  /\ \/ pc = "crashed"
     \/ pc = "idle" /\ epochs.all = MaxEpochs
  /\ pc' = "idle"
  /\ training_algorithm' = "RPROP"
  /\ array' = [name \in ArrayNames |-> NULL]
  /\ size' = 1
  /\ num_data' = 0 /\ max_epochs' = 0 /\ epochs_between_reports' = 0
  /\ i' = 0 /\ desired_error_reached' = FALSE
  /\ errno_f' = FALSE
  /\ defined' = TRUE /\ refused' = FALSE /\ foreign' = FALSE /\ owner' = "none"
  /\ epochs' = [all |-> 0, reported |-> 0]

Init ==
  /\ pc = "idle"
  /\ training_algorithm = "RPROP"
  /\ array = [name \in ArrayNames |-> NULL]
  /\ size = 1
  /\ num_data = 0 /\ max_epochs = 0 /\ epochs_between_reports = 0
  /\ i = 0 /\ desired_error_reached = FALSE
  /\ errno_f = FALSE
  /\ defined = TRUE /\ refused = FALSE /\ foreign = FALSE /\ owner = "none"
  /\ epochs = [all |-> 0, reported |-> 0]

Training == Epoch \/ Report \/ NoReport \/ CallbackReturns

Cascade ==
  \/ fann_cascadetrain_on_data
  \/ fann_train_outputs_epoch
  \/ NextNeuron \/ RoomIsMissing \/ NetworkIsLost \/ StopGrowing

Caller ==
  \/ fann_train_on_data
  \/ fann_set_training_algorithm
  \/ fann_train \/ fann_randomize_weights
  \/ Restart

Next == Training \/ Cascade \/ Caller

\* A training runs by itself, and a callback is assumed to return.
Spec == Init /\ [][Next]_vars /\ WF_vars(Training)

-----------------------------------------------------------------------------
(* Properties *)

\* An algorithm finds the arrays it works with, and long enough for every
\* connection, however the network was trained, changed and grown before; a
\* NULL is met only after an allocation failed, or by batch training of a new
\* network with no data.  Even then the arrays that are left, but for the deltas,
\* have room for all connections on record (fann_cascade.c:231-282).
ArraysAreThere ==
  /\ pc = "crashed" => errno_f \/ (training_algorithm = "BATCH" /\ num_data = 0)
  /\ pc = "report" /\ training_algorithm # "INCREMENTAL" =>
       \A name \in Needed : array[name].length >= size
  /\ \A name \in {"train_slopes", "prev_steps", "prev_train_slopes"} :
       array[name] # NULL => array[name].length >= size

\* So does incremental training: the deltas are "the last delta applied to a
\* connection weight" (fann_data.h:735), of every connection.
DeltasForAllConnections ==
  pc = "report" /\ training_algorithm = "INCREMENTAL" /\ num_data > 0 /\ ~errno_f =>
    array["prev_weights_deltas"].length >= size

\* No slope is counted twice: when an epoch is over, and whenever the caller has
\* the network, the slopes are zero, so that the next training, with whatever
\* algorithm and data, starts from none.  The one exception is a cascade training
\* that was refused its algorithm after it had added them
\* (fann_cascade.c:205-226), until they are cleared or used.
SlopesCountOnce ==
  pc \in {"idle", "report", "callback", "trained"} /\ ~refused =>
    array["train_slopes"].value = 0

\* "prev_step may not be zero because then the training will stop"
\* (fann_train.c:729): whichever algorithm left the steps to RPROP, negative or
\* zero or too large, its own are positive and do not grow beyond their limit.
RpropStepsUsable ==
  [][(Epoch \/ fann_train_outputs_epoch) /\ pc' # "crashed"
        /\ training_algorithm = "RPROP" =>
       /\ array'["prev_steps"].value > 0
       /\ array'["prev_steps"].value <= Max({DeltaMax, array["prev_steps"].value})]_vars

\* The quadratic estimate of quickprop divides by the change of the slope; the
\* cases before it keep that from being zero, as long as the previous step and
\* slope are its own (fann_train.c:649-672).
QuickpropDivides ==
  [][defined /\ ~defined' => foreign' \/ num_data = 0]_vars

\* A caller who asked for reports has heard of the last epoch when the training
\* returns, however it ended.
LastEpochReported ==
  pc = "idle" /\ max_epochs > 0 /\ epochs_between_reports > 0 =>
    epochs.reported = i

\* fann_train_on_data returns.
TrainingEnds ==
  pc \in {"epoch", "report", "callback"} ~> pc \in {"idle", "crashed"}
=============================================================================
