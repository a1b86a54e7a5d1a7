---------------------------- MODULE CascadeTrain ----------------------------
(***************************************************************************)
(* The loops of cascade training (fann_cascade.c): how many epochs the     *)
(* outputs and the candidates are trained for, and when the training       *)
(* stagnates, reaches its goal, is stopped by the callback, and returns.   *)
(*                                                                         *)
(* What an epoch does to the weights is not modelled: it yields an error   *)
(* or a score, any small integer.  The training algorithm is RPROP or      *)
(* Quickprop; any other one reports an error and trains nothing.           *)
(***************************************************************************)
EXTENDS Integers

CONSTANTS
  MaxError,              \* errors are 0 .. MaxError
  One,                   \* in a unit of which One are 1.0
  MaxBitFail,            \* outputs that may fail, 0 .. MaxBitFail
  MinScore,              \* candidate scores are at least this
  Fraction, Whole,       \* both change fractions are Fraction / Whole
  CandidateLimit,        \* cascade_candidate_limit is CandidateLimit / Whole
  OutEpochs, CandEpochs, \* values a caller gives cascade_max_out_epochs, ...
  OutQuotas, CandQuotas, \* ... and the two stagnation epochs
  StopFunctions,         \* values of train_stop_function
  UIntModulus,           \* 2 ^ the width of an unsigned int
  AllocMayFail,          \* can fann_initialize_candidates fail?
  CallerMayTest,         \* may the callback test the network on other data?
  MaxNeurons,            \* bound on max_neurons
  DesiredErrors,         \* values of desired_error
  ReportIntervals        \* values of neurons_between_reports

ASSUME TrainAssumption ==
  /\ MaxError \in Nat /\ MaxBitFail \in Nat /\ MinScore \in Int
  /\ One \in Nat \ {0}
  /\ Whole \in Nat \ {0} /\ Fraction \in 0 .. Whole /\ CandidateLimit \in Nat
  /\ UIntModulus \in Nat \ {0}
  /\ \A set \in {OutEpochs, CandEpochs, OutQuotas, CandQuotas} :
       set # {} /\ set \subseteq 0 .. UIntModulus - 1
  /\ StopFunctions # {} /\ StopFunctions \subseteq {"MSE", "BIT"}
  /\ AllocMayFail \in BOOLEAN /\ CallerMayTest \in BOOLEAN
  /\ MaxNeurons \in Nat
  /\ DesiredErrors \subseteq 0 .. MaxError /\ ReportIntervals \subseteq Nat

VARIABLES
  pc,                      \* the call or loop the training is in
  round, max_neurons, desired_error, desired_error_reached,
                           \* of fann_cascadetrain_on_data
  between,                 \* neurons_between_reports
  settings,                \* the cascade parameters of struct fann
  MSE_value, num_bit_fail, \* of struct fann
  finishing,               \* is this the training "one last time"?
  i, max_epochs, stagnation, initial_error, target, backslide,
                           \* of fann_train_outputs and fann_train_candidates
  returned,                \* the number of epochs the last of them returned
  history                  \* no part of the code: what really happened

round_vars == <<round, max_neurons, desired_error, between>>
errors == <<MSE_value, num_bit_fail>>
goal == <<stagnation, target, backslide>>
vars == <<pc, round_vars, desired_error_reached, settings, errors, finishing, i,
          max_epochs, goal, initial_error, returned, history>>

VeryLow == -(2 * Whole * (MaxError - MinScore) + 1)      \* for -1.0e20f

Errors == 0 .. MaxError
Settings == [max_out_epochs : OutEpochs, max_cand_epochs : CandEpochs,
             out_stagnation_epochs : OutQuotas,
             cand_stagnation_epochs : CandQuotas, stop_function : StopFunctions]

(* An error, and the number of bits that fail: none without an error, for  *)
(* a caller leaves bit_fail_limit above 0.                                 *)
Outcomes == {o \in Errors \X (0 .. MaxBitFail) : o[1] = 0 => o[2] = 0}

Init ==
  /\ pc = "idle"
  /\ round = 0 /\ max_neurons = 0 /\ desired_error = 0 /\ between = 0
  /\ desired_error_reached = FALSE
  /\ settings \in Settings
  /\ MSE_value = 0 /\ num_bit_fail = 0
  /\ finishing = FALSE
  /\ i = 0 /\ max_epochs = 0 /\ initial_error = 0
  /\ stagnation = 0 /\ target = 0 /\ backslide = VeryLow
  /\ returned = 0
  /\ history = [ran |-> 0, value |-> 0, changed |-> 0, significant |-> 0,
                tested |-> FALSE]

----------------------------------------------------------------------------
(* fann_cascadetrain_on_data.                                              *)

StartTraining(m, desired, reports) ==
  /\ pc = "idle"
  /\ max_neurons' = m /\ desired_error' = desired /\ between' = reports
  /\ round' = 1
  /\ finishing' = (m = 0)
  /\ pc' = "outputs"
  /\ UNCHANGED <<desired_error_reached, settings, errors, i, max_epochs, goal,
                 initial_error, returned, history>>

(* fann_desired_error_reached: a bit count is cut off to an integer.       *)
fann_desired_error_reached(error, bits, desired) ==
  IF settings.stop_function = "MSE" THEN error <= desired ELSE bits <= desired \div One

(* The last training asks for an error of 0.0.                             *)
Goal == IF finishing THEN 0 ELSE desired_error

(* The callback is called, or a line is printed.                           *)
Reports ==
  /\ between # 0
  /\ \/ round % between = 0 \/ round = max_neurons \/ round = 1
     \/ desired_error_reached

Report ==
  /\ pc = "report" /\ Reports
  /\ pc' = "callback"
  /\ UNCHANGED <<round_vars, desired_error_reached, settings, errors,
                 finishing, i, max_epochs, goal, initial_error, returned, history>>

(* After the callback, or without one: stop at the goal.                   *)
IgnoreGoal(stop) == stop     \* a mutant

StopNow(stop) == stop \/ desired_error_reached

Continue(stop) ==
  /\ finishing' = StopNow(stop)
  /\ pc' = IF finishing' THEN "outputs" ELSE "candidates"
  /\ UNCHANGED <<round_vars, desired_error_reached, settings, errors, i,
                 max_epochs, goal, initial_error, returned, history>>

NoReport == pc = "report" /\ ~Reports /\ Continue(FALSE)

(* The callback returns: -1 breaks the training.                           *)
CallbackReturns == pc = "callback" /\ \E stop \in BOOLEAN : Continue(stop)

(* What a caller does between two trainings or in the callback: set a      *)
(* parameter, or run fann_test_data or fann_reset_MSE.                     *)
CallerSets(s) ==
  /\ pc \in {"idle", "callback"} /\ s # settings
  /\ settings' = s
  /\ UNCHANGED <<pc, round_vars, desired_error_reached, errors, finishing, i,
                 max_epochs, goal, initial_error, returned, history>>

CallerTests ==
  /\ pc \in {"idle", "callback"} /\ CallerMayTest
  /\ \E o \in Outcomes : MSE_value' = o[1] /\ num_bit_fail' = o[2]
  /\ history' = [history EXCEPT !.tested = TRUE]
  /\ UNCHANGED <<pc, round_vars, desired_error_reached, settings, finishing, i,
                 max_epochs, goal, initial_error, returned>>

InitializeCandidates ==
  /\ pc = "candidates"
  /\ \/ pc' = "train" /\ finishing' = FALSE
     \/ AllocMayFail /\ pc' = "outputs" /\ finishing' = TRUE
  /\ UNCHANGED <<round_vars, desired_error_reached, settings, errors, i,
                 max_epochs, goal, initial_error, returned, history>>

RoundForgotten == round     \* a mutant

NextRound == round + 1

InstallCandidate ==
  /\ pc = "install"
  /\ round' = NextRound
  /\ finishing' = (round = max_neurons)
  /\ pc' = "outputs"
  /\ UNCHANGED <<max_neurons, desired_error, between, desired_error_reached,
                 settings, errors, i, max_epochs, goal, initial_error, returned,
                 history>>

----------------------------------------------------------------------------
(* The loop both trainings share.  `value' is what they want to raise: the *)
(* improvement of the error, or the best score.                            *)

Significant(value) == Whole * value > target \/ Whole * value < backslide

QuotaFromStart(quota) == quota % UIntModulus     \* a mutant

NewQuota(quota) == (i + quota) % UIntModulus

FractionBelow(value) == value * (Whole - Fraction)     \* a mutant

NewTarget(value) == value * (Whole + Fraction)

(* A significant change sets a new goal and a new quota.                   *)
SetGoal(value, quota) ==
  IF Significant(value)
  THEN /\ target' = NewTarget(value)
       /\ backslide' = value * (Whole - Fraction)
       /\ stagnation' = NewQuota(quota)
  ELSE UNCHANGED goal

StartLoop(epochs) ==
  /\ max_epochs' = epochs /\ stagnation' = epochs
  /\ target' = 0 /\ backslide' = VeryLow

(* An epoch is counted, and whether its value has changed.                 *)
Recorded(value) ==
  [history EXCEPT
    !.ran = @ + 1,
    !.value = value,
    !.changed = IF value # history.value THEN i ELSE @,
    !.significant = IF Significant(value) THEN i ELSE @]


EpochsLeft == i + 1 < max_epochs

EpochsBefore == i     \* a mutant

EpochsDone == i + 1

(* One epoch has been run; the loop returns to `to' or goes on.            *)
EndEpoch(value, quota, reached, to) ==
  /\ \/ reached /\ returned' = EpochsDone /\ pc' = to /\ UNCHANGED <<i, goal>>
     \/ /\ ~reached
        /\ SetGoal(value, quota)
        /\ IF i >= stagnation'
           THEN returned' = EpochsDone /\ pc' = to /\ UNCHANGED i
           ELSE IF EpochsLeft
           THEN i' = i + 1 /\ UNCHANGED <<returned, pc>>
           ELSE returned' = max_epochs /\ pc' = to /\ UNCHANGED i
  /\ history' = Recorded(value)

----------------------------------------------------------------------------
(* fann_train_outputs: an initial epoch and up to max_epochs - 1 more.     *)

AfterOutputs == IF finishing THEN "idle" ELSE "report"

(* What fann_cascadetrain_on_data computes when the training returns.      *)
CheckGoal ==
  desired_error_reached' =
    IF pc' = "report"
    THEN fann_desired_error_reached(MSE_value', num_bit_fail', desired_error)
    ELSE desired_error_reached

InitialEpoch ==
  /\ pc = "outputs"
  /\ \E o \in Outcomes :
       /\ MSE_value' = o[1] /\ num_bit_fail' = o[2] /\ initial_error' = o[1]
       /\ IF fann_desired_error_reached(o[1], o[2], Goal)
          THEN returned' = 1 /\ pc' = AfterOutputs
          ELSE IF 1 < settings.max_out_epochs
          THEN UNCHANGED returned /\ pc' = "out_epoch"
          ELSE returned' = settings.max_out_epochs /\ pc' = AfterOutputs
  /\ StartLoop(settings.max_out_epochs)
  /\ i' = 1
  /\ CheckGoal
  /\ history' = [ran |-> 1, value |-> 0, changed |-> 0, significant |-> 0,
                 tested |-> FALSE]
  /\ UNCHANGED <<round_vars, settings, finishing>>

OutputEpoch ==
  /\ pc = "out_epoch"
  /\ \E o \in Outcomes :
       /\ MSE_value' = o[1] /\ num_bit_fail' = o[2]
       /\ EndEpoch(initial_error - o[1], settings.out_stagnation_epochs,
                   fann_desired_error_reached(o[1], o[2], Goal), AfterOutputs)
  /\ CheckGoal
  /\ UNCHANGED <<round_vars, settings, finishing, max_epochs, initial_error>>

----------------------------------------------------------------------------
(* fann_train_candidates: up to max_epochs epochs.                         *)

TrainCandidates ==
  /\ pc = "train"
  /\ StartLoop(settings.max_cand_epochs)
  /\ i' = 0
  /\ IF 0 < settings.max_cand_epochs
     THEN pc' = "cand_epoch" /\ UNCHANGED returned
     ELSE pc' = "install" /\ returned' = 0
  /\ history' = [ran |-> 0, value |-> 0, changed |-> 0, significant |-> 0,
                 tested |-> history.tested]
  /\ UNCHANGED <<round_vars, desired_error_reached, settings, errors, finishing,
                 initial_error>>

(* A score is what is left of the error, so it is at most the error.       *)
(* Without an error the quotient is minus infinity, or not a number.       *)
AboveLimit(score) ==
  MSE_value > 0 /\ Whole * score > CandidateLimit * MSE_value

CandidateEpoch ==
  /\ pc = "cand_epoch"
  /\ \E score \in MinScore .. MSE_value :
       /\ EndEpoch(score, settings.cand_stagnation_epochs, AboveLimit(score),
                   "install")
  /\ UNCHANGED <<round_vars, desired_error_reached, settings, errors, finishing,
                 max_epochs, initial_error>>

----------------------------------------------------------------------------
Training ==
  \/ InitialEpoch \/ OutputEpoch
  \/ Report \/ NoReport \/ CallbackReturns
  \/ InitializeCandidates \/ TrainCandidates \/ CandidateEpoch
  \/ InstallCandidate

Caller ==
  \/ \E m \in 0 .. MaxNeurons, desired \in DesiredErrors,
        reports \in ReportIntervals :
       StartTraining(m, desired, reports)
  \/ \E s \in Settings : CallerSets(s)
  \/ CallerTests

Next == Training \/ Caller

(* The training runs by itself; a callback is assumed to return.           *)
Spec == Init /\ [][Next]_vars /\ WF_vars(Training)

----------------------------------------------------------------------------
(* Properties.                                                             *)

InLoop == pc \in {"out_epoch", "cand_epoch"}
Quota == IF pc = "out_epoch" THEN settings.out_stagnation_epochs
                             ELSE settings.cand_stagnation_epochs

(* fann_train_candidates divides by MSE_value (fann_cascade.c:507).  There *)
(* is an error to divide by, whatever function stops the training: with no *)
(* error left the training of the outputs has reached its goal.  A callback*)
(* that tests the network on other data breaks this.                       *)
CandidatesHaveAnError ==
  pc \in {"train", "cand_epoch"} /\ ~history.tested => MSE_value > 0

(* Both loops (fann_cascade.c:176-190, 518-542): a training that is better *)
(* than its start, and whose error or score no longer changes, stagnates   *)
(* within the quota of epochs, whatever it did before.                     *)
ImprovedStagnates ==
  InLoop /\ history.value > 0 => i - 1 - history.changed < Quota

(* "After any significant change, set a new goal and allow a new quota of  *)
(* epochs to reach it" (fann_cascade.c:176): a loop that ends before its   *)
(* last epoch, short of its goal, has run the whole quota since the last   *)
(* significant change.  (If the quota is so large that adding it to an     *)
(* epoch wraps round, the loop ends at once.)                              *)
ReachedGoal ==
  IF pc = "out_epoch"
  THEN fann_desired_error_reached(MSE_value', num_bit_fail', Goal)
  ELSE AboveLimit(history'.value)

EachChangeGetsItsQuota ==
  [][InLoop /\ pc' # pc /\ EpochsLeft /\ ~ReachedGoal
       => i - history'.significant >= Quota]_vars

(* total_epochs, which the callback is given as "how many epochs the       *)
(* training have taken so far" (fann_data.h:382), adds what the trainings  *)
(* return: that is the number of epochs they ran.  (With a limit of no     *)
(* output epochs one is run, and none is counted.)                         *)
EpochsReported == ~InLoop => returned = history.ran

(* fann_cascadetrain_on_data returns, however the errors and scores move.  *)
Terminates == pc # "idle" ~> pc = "idle"
============================================================================
