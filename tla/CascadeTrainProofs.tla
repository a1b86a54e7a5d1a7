------------------------- MODULE CascadeTrainProofs -------------------------
(***************************************************************************)
(* Proofs about the loops of CascadeTrain, for every choice of errors,     *)
(* scores, change fractions, limits and quotas of epochs.                  *)
(***************************************************************************)
EXTENDS CascadeTrain, TLAPS

Locations == {"idle", "outputs", "out_epoch", "report", "callback",
              "candidates", "train", "cand_epoch", "install"}

TypeOK ==
  /\ pc \in Locations
  /\ settings \in Settings
  /\ MSE_value \in Errors /\ num_bit_fail \in 0 .. MaxBitFail
  /\ desired_error \in Errors /\ initial_error \in Errors
  /\ desired_error_reached \in BOOLEAN /\ finishing \in BOOLEAN
  /\ i \in Nat /\ max_epochs \in Nat /\ stagnation \in Nat
  /\ returned \in Nat /\ target \in Int /\ backslide \in Int
  /\ history \in [ran : Nat, value : Int, changed : Nat, significant : Nat,
                  tested : BOOLEAN]

(* Between the two trainings the goal has been checked against the error   *)
(* that is there; candidates are only trained when it was missed.          *)
ErrorInv ==
  /\ pc \in {"candidates", "train", "cand_epoch"} => ~desired_error_reached
  /\ /\ pc \in {"report", "callback", "candidates", "train", "cand_epoch"}
     /\ ~history.tested /\ ~desired_error_reached
     => MSE_value > 0

(* A loop goes on while there are epochs left and a quota to use.          *)
LoopInv ==
  InLoop =>
    /\ i < max_epochs /\ i - 1 < stagnation
    /\ max_epochs = IF pc = "out_epoch" THEN settings.max_out_epochs
                                        ELSE settings.max_cand_epochs

(* Either no change was ever significant, and then any improvement is, or  *)
(* the quota of the last one bounds the loop.  A value that is positive is *)
(* within its own goal, so it is not significant a second time.            *)
StagnationInv ==
  InLoop =>
    /\ (target = 0 /\ backslide = VeryLow) \/ stagnation <= i - 1 + Quota
    /\ history.value > 0
         => stagnation <= history.changed + Quota /\ ~Significant(history.value)

TrainInv == TypeOK /\ ErrorInv /\ LoopInv /\ StagnationInv

(* The epochs that ran are the ones the loop has counted.                  *)
CountInv == history.ran = IF InLoop THEN i ELSE returned

(* The quota runs from the last significant change, or is still the limit. *)
QuotaInv == InLoop => stagnation \in {max_epochs, history.significant + Quota}

(* No epoch a loop can reach wraps round when a quota is added to it.      *)
NothingWraps ==
  /\ \A e \in OutEpochs, q \in OutQuotas : e + q <= UIntModulus
  /\ \A e \in CandEpochs, q \in CandQuotas : e + q <= UIntModulus

----------------------------------------------------------------------------
(* Helpers.                                                                *)

(* Everything a step leaves alone, when it neither starts nor runs a loop. *)
loop_vars == <<i, max_epochs, goal, initial_error, returned>>

(* The parameters are numbers.                                             *)
LEMMA ConstantsTyped ==
  /\ MaxError \in Nat /\ MaxBitFail \in Nat /\ MinScore \in Int
  /\ One \in Nat /\ One > 0 /\ Whole \in Nat /\ Whole > 0
  /\ Fraction \in Nat /\ Fraction <= Whole /\ UIntModulus \in Nat
  /\ UIntModulus > 0
  /\ OutEpochs \subseteq Nat /\ CandEpochs \subseteq Nat
  /\ OutQuotas \subseteq Nat /\ CandQuotas \subseteq Nat
  /\ VeryLow \in Int
<1>1. \A a, b \in Int : -(2 * a * b + 1) \in Int
  BY SMT
<1>2. \A a, b \in Int : a - b \in Int
  OBVIOUS
<1>3. 0 .. UIntModulus - 1 \subseteq Nat
  BY TrainAssumption
<1>4. VeryLow \in Int
  BY <1>1, <1>2, TrainAssumption DEF VeryLow
<1>5. \A set \in {OutEpochs, CandEpochs, OutQuotas, CandQuotas} :
        set \subseteq 0 .. UIntModulus - 1
  BY TrainAssumption
<1>6. /\ OutEpochs \subseteq 0 .. UIntModulus - 1
      /\ CandEpochs \subseteq 0 .. UIntModulus - 1
      /\ OutQuotas \subseteq 0 .. UIntModulus - 1
      /\ CandQuotas \subseteq 0 .. UIntModulus - 1
  BY <1>5
<1>7. /\ OutEpochs \subseteq Nat /\ CandEpochs \subseteq Nat
      /\ OutQuotas \subseteq Nat /\ CandQuotas \subseteq Nat
  BY <1>3, <1>6
<1>8. QED
  BY <1>4, <1>7, TrainAssumption

(* The fields of the settings.                                             *)
LEMMA SettingsTyped ==
  ASSUME settings \in Settings
  PROVE  /\ settings.max_out_epochs \in OutEpochs
         /\ settings.max_cand_epochs \in CandEpochs
         /\ settings.out_stagnation_epochs \in OutQuotas
         /\ settings.cand_stagnation_epochs \in CandQuotas
         /\ settings.stop_function \in {"MSE", "BIT"}
         /\ Quota \in Nat
BY ConstantsTyped, TrainAssumption DEF Settings, Quota

(* A positive value lies between the goals computed from it.               *)
LEMMA WithinItsOwnGoal ==
  ASSUME NEW v \in Int, v > 0
  PROVE  /\ ~(Whole * v > NewTarget(v))
         /\ ~(Whole * v < v * (Whole - Fraction))
<1>1. v * Fraction >= 0
  BY ConstantsTyped, SMT
<1>2. /\ v * (Whole + Fraction) = Whole * v + v * Fraction
      /\ v * (Whole - Fraction) = Whole * v - v * Fraction
  BY ConstantsTyped, SMT
<1>3. Whole * v \in Int /\ v * Fraction \in Int
  BY ConstantsTyped, SMT
<1> DEFINE a == Whole * v
           b == v * Fraction
<1>4. QED
  <2> HIDE DEF a, b
  <2>1. a \in Int /\ b \in Int /\ b >= 0
    BY <1>1, <1>3 DEF a, b
  <2>2. NewTarget(v) = a + b /\ v * (Whole - Fraction) = a - b
    BY <1>2 DEF NewTarget, a, b
  <2>3. ~(a > a + b) /\ ~(a < a - b)
    BY <2>1
  <2>4. QED
    BY <2>2, <2>3 DEF a

(* As long as no goal was set, any improvement is significant.             *)
LEMMA AnyImprovementIsSignificant ==
  ASSUME NEW v \in Int, v > 0, target = 0
  PROVE  Significant(v)
<1>1. Whole * v > 0
  BY ConstantsTyped, SMT
<1>2. QED
  BY <1>1 DEF Significant

(* A quota that wraps round is only smaller.                               *)
LEMMA QuotaBounded ==
  ASSUME NEW q \in Nat, i \in Nat
  PROVE  /\ NewQuota(q) \in Nat /\ NewQuota(q) <= i + q
         /\ i + q < UIntModulus => NewQuota(q) = i + q
<1>1. i + q \in Nat
  OBVIOUS
<1>2. ASSUME NEW a \in Nat
      PROVE  /\ a % UIntModulus \in Nat /\ a % UIntModulus <= a
             /\ a < UIntModulus => a % UIntModulus = a
  BY ConstantsTyped, SMT
<1>3. QED
  BY <1>1, <1>2 DEF NewQuota

(* An error that misses the goal is not 0.                                 *)
LEMMA MissedIsPositive ==
  ASSUME NEW o \in Outcomes, NEW desired \in Nat
  PROVE  /\ fann_desired_error_reached(o[1], o[2], desired) \in BOOLEAN
         /\ ~fann_desired_error_reached(o[1], o[2], desired) => o[1] > 0
<1>1. /\ o[1] \in Nat /\ o[2] \in Nat
      /\ o[1] = 0 => o[2] = 0
  BY ConstantsTyped DEF Outcomes, Errors
<1>2. desired \div One >= 0 /\ desired \div One \in Int
  BY ConstantsTyped, SMT
<1>3. (o[1] <= desired) \in BOOLEAN /\ (o[2] <= desired \div One) \in BOOLEAN
  BY <1>1, <1>2
<1>4. fann_desired_error_reached(o[1], o[2], desired) \in BOOLEAN
  BY <1>3 DEF fann_desired_error_reached
<1>5. ~fann_desired_error_reached(o[1], o[2], desired) => o[1] > 0
  BY <1>1, <1>2 DEF fann_desired_error_reached
<1>6. QED
  BY <1>4, <1>5

----------------------------------------------------------------------------
(* One epoch of either loop.                                               *)

(* What an epoch with this value does to the goal and the history.  The    *)
(* quota that is set is that of the loop.                                  *)
LEMMA EpochSetsGoal ==
  ASSUME TypeOK, StagnationInv, InLoop, NEW value \in Int,
         SetGoal(value, Quota)
  PROVE  /\ stagnation' \in Nat /\ target' \in Int /\ backslide' \in Int
         /\ \/ target' = 0 /\ backslide' = VeryLow
            \/ stagnation' <= i + Quota
         /\ value > 0 =>
              /\ stagnation' <= Recorded(value).changed + Quota
              /\ ~(Whole * value > target') /\ ~(Whole * value < backslide')
<1> USE ConstantsTyped
<1>1. /\ i \in Nat /\ stagnation \in Nat /\ target \in Int /\ backslide \in Int
      /\ history.value \in Int /\ history.changed \in Nat /\ Quota \in Nat
  BY SettingsTyped DEF TypeOK
<1>2. Recorded(value).changed = IF value # history.value THEN i
                                                         ELSE history.changed
  BY DEF Recorded, TypeOK
<1>3. CASE Significant(value)
  <2>1. /\ target' = NewTarget(value)
        /\ backslide' = value * (Whole - Fraction)
        /\ stagnation' = NewQuota(Quota)
    BY <1>3 DEF SetGoal
  <2>2. stagnation' \in Nat /\ stagnation' <= i + Quota
    BY <1>1, <2>1, QuotaBounded
  <2>3. target' \in Int /\ backslide' \in Int
    <3>1. \A a, b, c \in Int : a * (b + c) \in Int /\ a * (b - c) \in Int
      BY SMT
    <3>2. QED
      BY <2>1, <3>1 DEF NewTarget
  <2>4. ASSUME value > 0
        PROVE  /\ stagnation' <= Recorded(value).changed + Quota
               /\ ~(Whole * value > target') /\ ~(Whole * value < backslide')
    <3>1. value # history.value
      BY <1>3, <2>4 DEF StagnationInv
    <3>2. QED
      BY <1>2, <2>1, <2>2, <2>4, <3>1, WithinItsOwnGoal
  <2>5. QED
    BY <2>2, <2>3, <2>4
<1>4. CASE ~Significant(value)
  <2>1. UNCHANGED <<stagnation, target, backslide>>
    BY <1>4 DEF SetGoal, goal
  <2>2. \/ target = 0 /\ backslide = VeryLow
        \/ stagnation <= i - 1 + Quota
    BY DEF StagnationInv
  <2>3. ASSUME value > 0
        PROVE  stagnation <= Recorded(value).changed + Quota
    <3>1. stagnation <= i - 1 + Quota
      BY <1>4, <2>2, <2>3, AnyImprovementIsSignificant
    <3>2. value = history.value => stagnation <= history.changed + Quota
      BY <2>3 DEF StagnationInv
    <3>3. QED
      BY <1>1, <1>2, <3>1, <3>2
  <2>4. ~(Whole * value > target') /\ ~(Whole * value < backslide')
    BY <1>4, <2>1 DEF Significant
  <2>5. QED
    BY <1>1, <2>1, <2>2, <2>3, <2>4
<1>5. QED
  BY <1>3, <1>4

(* An epoch of a loop keeps the counters, and what it says of the loop it  *)
(* goes on with or of the value the loop returns.                          *)
LEMMA EpochOfLoop ==
  ASSUME TypeOK, LoopInv, StagnationInv, InLoop,
         NEW value \in Int, NEW reached \in BOOLEAN,
         NEW to \in Locations, to \notin {"out_epoch", "cand_epoch"},
         EndEpoch(value, Quota, reached, to),
         UNCHANGED <<settings, max_epochs>>
  PROVE  /\ i' \in Nat /\ stagnation' \in Nat /\ returned' \in Nat
         /\ target' \in Int /\ backslide' \in Int
         /\ history' = Recorded(value)
         /\ history' \in [ran : Nat, value : Int, changed : Nat,
                          significant : Nat, tested : BOOLEAN]
         /\ history'.tested = history.tested
         /\ \/ pc' = to
            \/ pc' = pc /\ i' = i + 1 /\ SetGoal(value, Quota)
         /\ LoopInv' /\ StagnationInv'
<1> USE ConstantsTyped
<1>1. /\ i \in Nat /\ stagnation \in Nat /\ target \in Int /\ backslide \in Int
      /\ returned \in Nat /\ max_epochs \in Nat
      /\ history \in [ran : Nat, value : Int, changed : Nat, significant : Nat,
                      tested : BOOLEAN]
      /\ Quota \in Nat
  BY SettingsTyped DEF TypeOK
<1>2. history' = Recorded(value)
  BY DEF EndEpoch
<1>3. /\ history' \in [ran : Nat, value : Int, changed : Nat,
                       significant : Nat, tested : BOOLEAN]
      /\ history'.tested = history.tested /\ history'.value = value
  <2> DEFINE r == history.ran + 1
             c == IF value # history.value THEN i ELSE history.changed
             g == IF Significant(value) THEN i ELSE history.significant
  <2>1. r \in Nat /\ c \in Nat /\ g \in Nat
    BY <1>1
  <2>2. history' = [history EXCEPT !.ran = r, !.value = value, !.changed = c,
                                   !.significant = g]
    BY <1>2 DEF Recorded
  <2> HIDE DEF r, c, g
  <2>3. ASSUME NEW h \in [ran : Nat, value : Int, changed : Nat,
                          significant : Nat, tested : BOOLEAN]
        PROVE  LET n == [h EXCEPT !.ran = r, !.value = value, !.changed = c,
                                  !.significant = g]
               IN  /\ n \in [ran : Nat, value : Int, changed : Nat,
                             significant : Nat, tested : BOOLEAN]
                   /\ n.tested = h.tested /\ n.value = value
    BY <2>1
  <2>4. QED
    BY <1>1, <2>2, <2>3
<1>4. CASE reached
  <2>1. /\ returned' = EpochsDone /\ pc' = to
        /\ UNCHANGED <<i, stagnation, target, backslide>>
    BY <1>4 DEF EndEpoch, goal
  <2>2. ~InLoop'
    BY <2>1 DEF InLoop
  <2>3. QED
    BY <1>1, <1>2, <1>3, <2>1, <2>2 DEF LoopInv, StagnationInv, EpochsDone
<1>5. CASE ~reached
  <2>1. SetGoal(value, Quota)
    BY <1>5 DEF EndEpoch
  <2>2. /\ stagnation' \in Nat /\ target' \in Int /\ backslide' \in Int
        /\ \/ target' = 0 /\ backslide' = VeryLow
           \/ stagnation' <= i + Quota
        /\ value > 0 =>
             /\ stagnation' <= Recorded(value).changed + Quota
             /\ ~(Whole * value > target') /\ ~(Whole * value < backslide')
    BY <2>1, EpochSetsGoal
  <2>3. \/ /\ pc' = to /\ UNCHANGED i
           /\ returned' = EpochsDone \/ returned' = max_epochs
        \/ /\ EpochsLeft /\ ~(i >= stagnation')
           /\ i' = i + 1 /\ UNCHANGED <<returned, pc>>
    BY <1>5 DEF EndEpoch
  <2>4. CASE pc' = to
    <3>1. ~InLoop'
      BY <2>4 DEF InLoop
    <3>2. i' \in Nat /\ returned' \in Nat
      BY <1>1, <2>3 DEF EpochsDone
    <3>3. QED
      BY <1>2, <1>3, <2>2, <2>4, <3>1, <3>2 DEF LoopInv, StagnationInv
  <2>5. CASE pc' # to
    <3>1. /\ EpochsLeft /\ ~(i >= stagnation')
          /\ i' = i + 1 /\ UNCHANGED <<returned, pc>>
      BY <2>3, <2>5
    <3>2. LoopInv'
      BY <1>1, <2>2, <3>1 DEF LoopInv, InLoop, EpochsLeft
    <3>3. Quota' = Quota
      BY <3>1 DEF Quota
    <3>4. (i + 1) - 1 = i
      BY <1>1
    <3>5. (target' = 0 /\ backslide' = VeryLow) \/ stagnation' <= i' - 1 + Quota'
      BY <2>2, <3>1, <3>3, <3>4
    <3>6. ASSUME history'.value > 0
          PROVE  /\ stagnation' <= history'.changed + Quota'
                 /\ ~Significant(history.value)'
      <4>1. value > 0
        BY <1>3, <3>6
      <4>2. stagnation' <= history'.changed + Quota'
        BY <1>2, <2>2, <3>3, <4>1
      <4>3. ~(Whole * history'.value > target' \/ Whole * history'.value < backslide')
        BY <1>3, <2>2, <4>1
      <4>4. QED
        BY <4>2, <4>3 DEF Significant
    <3>7. StagnationInv'
      BY <3>5, <3>6 DEF StagnationInv
    <3>8. QED
      BY <1>1, <1>2, <1>3, <2>1, <2>2, <3>1, <3>2, <3>7
  <2>6. QED
    BY <2>4, <2>5
<1>6. QED
  BY <1>4, <1>5

----------------------------------------------------------------------------
(* The invariant.                                                          *)

(* At the start nothing has been trained.                                  *)
LEMMA InitTrain == Init => TrainInv
<1> SUFFICES ASSUME Init PROVE TrainInv
  OBVIOUS
<1> USE ConstantsTyped
<1>1. TypeOK
  <2>1. history \in [ran : Nat, value : Int, changed : Nat, significant : Nat,
                     tested : BOOLEAN]
    BY DEF Init
  <2>2. 0 \in Errors /\ 0 \in 0 .. MaxBitFail
    BY DEF Errors
  <2>3. QED
    BY <2>1, <2>2 DEF Init, TypeOK, Locations
<1>2. ErrorInv /\ LoopInv /\ StagnationInv
  BY DEF Init, ErrorInv, LoopInv, StagnationInv, InLoop
<1>3. QED
  BY <1>1, <1>2 DEF TrainInv

(* A step that neither starts nor runs a loop only has to keep the types   *)
(* and the error.                                                          *)
LEMMA OutsideLoops ==
  ASSUME TypeOK', ErrorInv', ~InLoop'
  PROVE  TrainInv'
BY DEF TrainInv, LoopInv, StagnationInv

(* The steps of fann_cascadetrain_on_data around the two loops, and those  *)
(* of the caller.                                                          *)
LEMMA AroundLoopsKeepsInv ==
  ASSUME TrainInv,
         \/ \E m \in 0 .. MaxNeurons, desired \in DesiredErrors,
               reports \in ReportIntervals :
              StartTraining(m, desired, reports)
         \/ Report \/ NoReport \/ CallbackReturns
         \/ \E s \in Settings : CallerSets(s)
         \/ CallerTests
         \/ InitializeCandidates \/ InstallCandidate
  PROVE  TrainInv' /\ ~InLoop /\ ~InLoop' /\ UNCHANGED returned
         /\ history'.ran = history.ran
<1> USE ConstantsTyped DEF TrainInv, InLoop
<1>1. CASE \E m \in 0 .. MaxNeurons, desired \in DesiredErrors,
               reports \in ReportIntervals :
             StartTraining(m, desired, reports)
  <2>1. PICK m \in 0 .. MaxNeurons, desired \in DesiredErrors,
             reports \in ReportIntervals : StartTraining(m, desired, reports)
    BY <1>1
  <2>2. desired \in Errors
    BY TrainAssumption DEF Errors
  <2>3. TypeOK'
    BY <2>1, <2>2 DEF TypeOK, Locations, StartTraining, errors, goal
  <2>4. ErrorInv' /\ ~InLoop /\ ~InLoop' /\ UNCHANGED <<returned, history>>
    BY <2>1 DEF ErrorInv, StartTraining
  <2>5. QED
    BY <2>3, <2>4, OutsideLoops
<1>2. ASSUME NEW stop \in BOOLEAN, Continue(stop), pc \in {"report", "callback"}
      PROVE  TrainInv' /\ ~InLoop /\ ~InLoop' /\ UNCHANGED <<returned, history>>
  <2>1. TypeOK'
    BY <1>2 DEF TypeOK, Locations, Continue, StopNow, errors, goal, round_vars
  <2>2. ErrorInv' /\ ~InLoop /\ ~InLoop' /\ UNCHANGED <<returned, history>>
    BY <1>2 DEF ErrorInv, TypeOK, Continue, StopNow, errors
  <2>3. QED
    BY <2>1, <2>2, OutsideLoops
<1>3. CASE Report
  <2>1. TypeOK'
    BY <1>3 DEF TypeOK, Locations, Report, errors, goal, round_vars
  <2>2. ErrorInv' /\ ~InLoop /\ ~InLoop' /\ UNCHANGED <<returned, history>>
    BY <1>3 DEF ErrorInv, Report, errors
  <2>3. QED
    BY <2>1, <2>2, OutsideLoops
<1>4. CASE NoReport
  BY <1>2, <1>4 DEF NoReport
<1>5. CASE CallbackReturns
  BY <1>2, <1>5 DEF CallbackReturns
<1>6. CASE \E s \in Settings : CallerSets(s)
  <2>1. PICK s \in Settings : CallerSets(s)
    BY <1>6
  <2>2. TypeOK'
    BY <2>1 DEF TypeOK, Locations, CallerSets, errors, goal, round_vars
  <2>3. ErrorInv' /\ ~InLoop /\ ~InLoop' /\ UNCHANGED <<returned, history>>
    BY <2>1 DEF ErrorInv, CallerSets, errors
  <2>4. QED
    BY <2>2, <2>3, OutsideLoops
<1>7. CASE CallerTests
  <2>1. PICK o \in Outcomes : MSE_value' = o[1] /\ num_bit_fail' = o[2]
    BY <1>7 DEF CallerTests
  <2>2. o[1] \in Errors /\ o[2] \in 0 .. MaxBitFail
    BY DEF Outcomes
  <2>3. TypeOK' /\ history'.tested /\ history'.ran = history.ran
    BY <1>7, <2>1, <2>2 DEF TypeOK, Locations, CallerTests, goal, round_vars
  <2>4. ErrorInv' /\ ~InLoop /\ ~InLoop' /\ UNCHANGED returned
    BY <1>7, <2>3 DEF ErrorInv, CallerTests
  <2>5. QED
    BY <2>3, <2>4, OutsideLoops
<1>8. CASE InitializeCandidates
  <2>1. TypeOK'
    BY <1>8 DEF TypeOK, Locations, InitializeCandidates, errors, goal, round_vars
  <2>2. ErrorInv' /\ ~InLoop /\ ~InLoop' /\ UNCHANGED <<returned, history>>
    BY <1>8 DEF ErrorInv, InitializeCandidates, errors
  <2>3. QED
    BY <2>1, <2>2, OutsideLoops
<1>9. CASE InstallCandidate
  <2>1. TypeOK'
    BY <1>9 DEF TypeOK, Locations, InstallCandidate, errors, goal
  <2>2. ErrorInv' /\ ~InLoop /\ ~InLoop' /\ UNCHANGED <<returned, history>>
    BY <1>9 DEF ErrorInv, InstallCandidate, errors
  <2>3. QED
    BY <2>1, <2>2, OutsideLoops
<1>10. QED
  BY <1>1, <1>3, <1>4, <1>5, <1>6, <1>7, <1>8, <1>9

(* Where fann_train_outputs returns to, the goal is checked against the    *)
(* error it leaves: without a goal reached, that error is not 0.           *)
LEMMA GoalChecked ==
  ASSUME TypeOK, NEW o \in Outcomes, MSE_value' = o[1], num_bit_fail' = o[2],
         CheckGoal, UNCHANGED <<desired_error, settings>>,
         pc' \in {"idle", "report", "out_epoch"}
  PROVE  ErrorInv' /\ desired_error_reached' \in BOOLEAN
<1> USE ConstantsTyped
<1>1. desired_error \in Nat
  BY DEF TypeOK, Errors
<1>2. CASE pc' = "report"
  <2>1. desired_error_reached'
          = fann_desired_error_reached(o[1], o[2], desired_error)
    BY <1>2 DEF CheckGoal
  <2>2. fann_desired_error_reached(o[1], o[2], desired_error) \in BOOLEAN
    BY <1>1, MissedIsPositive
  <2>3. ~desired_error_reached' => MSE_value' > 0
    BY <1>1, <2>1, MissedIsPositive
  <2>4. QED
    BY <1>2, <2>1, <2>2, <2>3 DEF ErrorInv
<1>3. CASE pc' # "report"
  BY <1>3 DEF ErrorInv, CheckGoal, TypeOK
<1>4. QED
  BY <1>2, <1>3

(* The first epoch of the outputs starts their loop, or ends the training. *)
LEMMA InitialEpochKeepsInv ==
  ASSUME TrainInv, InitialEpoch
  PROVE  TrainInv'
<1> USE ConstantsTyped DEF TrainInv
<1>1. PICK o \in Outcomes :
        /\ MSE_value' = o[1] /\ num_bit_fail' = o[2] /\ initial_error' = o[1]
        /\ IF fann_desired_error_reached(o[1], o[2], Goal)
           THEN returned' = 1 /\ pc' = AfterOutputs
           ELSE IF 1 < settings.max_out_epochs
           THEN UNCHANGED returned /\ pc' = "out_epoch"
           ELSE returned' = settings.max_out_epochs /\ pc' = AfterOutputs
  BY DEF InitialEpoch
<1>2. /\ i' = 1 /\ max_epochs' = settings.max_out_epochs
      /\ stagnation' = settings.max_out_epochs
      /\ target' = 0 /\ backslide' = VeryLow
      /\ history' = [ran |-> 1, value |-> 0, changed |-> 0, significant |-> 0,
                     tested |-> FALSE]
      /\ CheckGoal
      /\ UNCHANGED <<round_vars, settings, finishing>>
  BY DEF InitialEpoch, StartLoop
<1>3. settings.max_out_epochs \in Nat
  BY SettingsTyped DEF TypeOK
<1>4. pc' \in {"idle", "report", "out_epoch"}
  BY <1>1 DEF AfterOutputs
<1>5. ErrorInv' /\ desired_error_reached' \in BOOLEAN
  BY <1>1, <1>2, <1>4, GoalChecked DEF round_vars
<1>6. TypeOK'
  <2>1. o[1] \in Errors /\ o[2] \in 0 .. MaxBitFail
    BY DEF Outcomes
  <2>2. history' \in [ran : Nat, value : Int, changed : Nat, significant : Nat,
                      tested : BOOLEAN]
    BY <1>2
  <2>3. returned' \in Nat
    BY <1>1, <1>3 DEF TypeOK
  <2>4. QED
    BY <1>1, <1>2, <1>3, <1>4, <1>5, <2>1, <2>2, <2>3
    DEF TypeOK, Locations, round_vars
<1>7. InLoop' => pc' = "out_epoch" /\ 1 < settings.max_out_epochs
  BY <1>1, <1>4 DEF InLoop, AfterOutputs
<1>8. LoopInv'
  BY <1>2, <1>3, <1>7 DEF LoopInv
<1>9. StagnationInv'
  <2>1. ~(history'.value > 0)
    BY <1>2
  <2>2. QED
    BY <1>2, <2>1 DEF StagnationInv
<1>10. QED
  BY <1>5, <1>6, <1>8, <1>9

(* An epoch of the outputs, seen as an epoch of a loop.                    *)
LEMMA OutputEpochIsEpoch ==
  ASSUME TrainInv, OutputEpoch
  PROVE  \E o \in Outcomes :
           /\ MSE_value' = o[1] /\ num_bit_fail' = o[2]
           /\ initial_error - o[1] \in Int
           /\ fann_desired_error_reached(o[1], o[2], Goal) \in BOOLEAN
           /\ EndEpoch(initial_error - o[1], Quota,
                       fann_desired_error_reached(o[1], o[2], Goal),
                       AfterOutputs)
           /\ AfterOutputs \in {"idle", "report"}
<1> USE ConstantsTyped
<1>1. PICK o \in Outcomes :
        /\ MSE_value' = o[1] /\ num_bit_fail' = o[2]
        /\ EndEpoch(initial_error - o[1], settings.out_stagnation_epochs,
                    fann_desired_error_reached(o[1], o[2], Goal), AfterOutputs)
  BY DEF OutputEpoch
<1>2. initial_error - o[1] \in Int
  BY DEF TrainInv, TypeOK, Outcomes, Errors
<1>3. Quota = settings.out_stagnation_epochs
  BY DEF OutputEpoch, Quota
<1>4. AfterOutputs \in {"idle", "report"}
  BY DEF AfterOutputs
<1>5. fann_desired_error_reached(o[1], o[2], Goal) \in BOOLEAN
  <2>1. Goal \in Nat
    BY DEF Goal, TrainInv, TypeOK, Errors
  <2>2. QED
    BY <2>1, MissedIsPositive
<1>6. QED
  BY <1>1, <1>2, <1>3, <1>4, <1>5

(* An epoch of the outputs.                                                *)
LEMMA OutputEpochKeepsInv ==
  ASSUME TrainInv, OutputEpoch
  PROVE  TrainInv'
<1> USE ConstantsTyped
<1>1. PICK o \in Outcomes :
        /\ MSE_value' = o[1] /\ num_bit_fail' = o[2]
        /\ initial_error - o[1] \in Int
        /\ fann_desired_error_reached(o[1], o[2], Goal) \in BOOLEAN
        /\ EndEpoch(initial_error - o[1], Quota,
                    fann_desired_error_reached(o[1], o[2], Goal), AfterOutputs)
        /\ AfterOutputs \in {"idle", "report"}
  BY OutputEpochIsEpoch
<1>2. /\ pc = "out_epoch" /\ CheckGoal
      /\ UNCHANGED <<round_vars, settings, finishing, max_epochs, initial_error>>
  BY DEF OutputEpoch
<1>3. InLoop /\ AfterOutputs \in Locations
      /\ AfterOutputs \notin {"out_epoch", "cand_epoch"}
  BY <1>1, <1>2 DEF InLoop, Locations
<1>4. /\ i' \in Nat /\ stagnation' \in Nat /\ returned' \in Nat
      /\ target' \in Int /\ backslide' \in Int
      /\ history' \in [ran : Nat, value : Int, changed : Nat,
                       significant : Nat, tested : BOOLEAN]
      /\ pc' \in {"idle", "report", "out_epoch"}
      /\ LoopInv' /\ StagnationInv'
  BY <1>1, <1>2, <1>3, EpochOfLoop DEF TrainInv
<1>5. ErrorInv' /\ desired_error_reached' \in BOOLEAN
  BY <1>1, <1>2, <1>4, GoalChecked DEF TrainInv, round_vars
<1>6. o[1] \in Errors /\ o[2] \in 0 .. MaxBitFail
  BY DEF Outcomes
<1>7. TypeOK'
  BY <1>1, <1>2, <1>4, <1>5, <1>6 DEF TrainInv, TypeOK, Locations, round_vars
<1>8. QED
  BY <1>4, <1>5, <1>7 DEF TrainInv

(* fann_train_candidates starts its loop, or has no epoch to run.          *)
LEMMA TrainCandidatesKeepsInv ==
  ASSUME TrainInv, TrainCandidates
  PROVE  TrainInv'
<1> USE ConstantsTyped DEF TrainInv
<1>1. /\ i' = 0 /\ max_epochs' = settings.max_cand_epochs
      /\ stagnation' = settings.max_cand_epochs
      /\ target' = 0 /\ backslide' = VeryLow
      /\ history' = [ran |-> 0, value |-> 0, changed |-> 0, significant |-> 0,
                     tested |-> history.tested]
      /\ pc = "train"
      /\ \/ pc' = "cand_epoch" /\ 0 < settings.max_cand_epochs /\ UNCHANGED returned
         \/ pc' = "install" /\ returned' = 0
      /\ UNCHANGED <<round_vars, desired_error_reached, settings, errors,
                     finishing, initial_error>>
  BY DEF TrainCandidates, StartLoop
<1>2. settings.max_cand_epochs \in Nat
  BY SettingsTyped DEF TypeOK
<1>3. history' \in [ran : Nat, value : Int, changed : Nat, significant : Nat,
                    tested : BOOLEAN]
  BY <1>1 DEF TypeOK
<1>4. TypeOK'
  BY <1>1, <1>2, <1>3 DEF TypeOK, Locations, round_vars, errors
<1>5. ErrorInv'
  BY <1>1 DEF ErrorInv, errors
<1>6. LoopInv'
  BY <1>1, <1>2 DEF LoopInv, InLoop
<1>7. StagnationInv'
  <2>1. ~(history'.value > 0)
    BY <1>1
  <2>2. QED
    BY <1>1, <2>1 DEF StagnationInv
<1>8. QED
  BY <1>4, <1>5, <1>6, <1>7

(* An epoch of the candidates, seen as an epoch of a loop.                 *)
LEMMA CandidateEpochIsEpoch ==
  ASSUME TrainInv, CandidateEpoch
  PROVE  \E score \in Int :
           /\ AboveLimit(score) \in BOOLEAN
           /\ EndEpoch(score, Quota, AboveLimit(score), "install")
<1> USE ConstantsTyped
<1>1. MSE_value \in Int /\ pc = "cand_epoch"
  BY DEF TrainInv, TypeOK, Errors, CandidateEpoch
<1>2. PICK score \in MinScore .. MSE_value :
        EndEpoch(score, settings.cand_stagnation_epochs, AboveLimit(score),
                 "install")
  BY DEF CandidateEpoch
<1>3. Quota = settings.cand_stagnation_epochs
  BY <1>1 DEF Quota
<1>4. score \in Int /\ AboveLimit(score) \in BOOLEAN
  BY <1>1 DEF AboveLimit
<1>5. QED
  BY <1>2, <1>3, <1>4

(* An epoch of the candidates.                                             *)
LEMMA CandidateEpochKeepsInv ==
  ASSUME TrainInv, CandidateEpoch
  PROVE  TrainInv'
<1>1. PICK score \in Int :
        /\ AboveLimit(score) \in BOOLEAN
        /\ EndEpoch(score, Quota, AboveLimit(score), "install")
  BY CandidateEpochIsEpoch
<1>2. /\ pc = "cand_epoch"
      /\ UNCHANGED <<round_vars, desired_error_reached, settings, errors,
                     finishing, max_epochs, initial_error>>
  BY DEF CandidateEpoch
<1>3. /\ i' \in Nat /\ stagnation' \in Nat /\ returned' \in Nat
      /\ target' \in Int /\ backslide' \in Int
      /\ history' \in [ran : Nat, value : Int, changed : Nat,
                       significant : Nat, tested : BOOLEAN]
      /\ history'.tested = history.tested
      /\ pc' \in {"cand_epoch", "install"}
      /\ LoopInv' /\ StagnationInv'
  BY <1>1, <1>2, EpochOfLoop DEF TrainInv, InLoop, Locations
<1>4. TypeOK'
  BY <1>2, <1>3 DEF TrainInv, TypeOK, Locations, round_vars, errors
<1>5. ErrorInv'
  BY <1>2, <1>3 DEF TrainInv, ErrorInv, errors
<1>6. QED
  BY <1>3, <1>4, <1>5 DEF TrainInv

(* The steps that are not one of the four that start or run a loop.        *)
AroundLoops ==
  \/ \E m \in 0 .. MaxNeurons, desired \in DesiredErrors,
        reports \in ReportIntervals :
       StartTraining(m, desired, reports)
  \/ Report \/ NoReport \/ CallbackReturns
  \/ \E s \in Settings : CallerSets(s)
  \/ CallerTests
  \/ InitializeCandidates \/ InstallCandidate

(* Every step of the training or of the caller is one of these.            *)
LEMMA StepsSplit ==
  ASSUME Next
  PROVE  \/ AroundLoops
         \/ InitialEpoch \/ OutputEpoch \/ TrainCandidates \/ CandidateEpoch
BY DEF Next, Training, Caller, AroundLoops

(* The invariant is inductive.                                             *)
LEMMA TrainStep == TrainInv /\ [Next]_vars => TrainInv'
<1> SUFFICES ASSUME TrainInv, [Next]_vars PROVE TrainInv'
  OBVIOUS
<1>1. CASE AroundLoops
  BY <1>1, AroundLoopsKeepsInv DEF AroundLoops
<1>2. CASE InitialEpoch
  BY <1>2, InitialEpochKeepsInv
<1>3. CASE OutputEpoch
  BY <1>3, OutputEpochKeepsInv
<1>4. CASE TrainCandidates
  BY <1>4, TrainCandidatesKeepsInv
<1>5. CASE CandidateEpoch
  BY <1>5, CandidateEpochKeepsInv
<1>6. CASE UNCHANGED vars
  BY <1>6 DEF vars, round_vars, errors, goal, TrainInv, TypeOK, ErrorInv,
              LoopInv, StagnationInv, InLoop, Quota, Significant
<1>7. QED
  BY <1>1, <1>2, <1>3, <1>4, <1>5, <1>6, StepsSplit

(* The types of the state, what is left of the error where it is divided   *)
(* by, and the bounds of both loops hold in every reachable state.         *)
THEOREM TrainInvariant == Spec => []TrainInv
<1>1. Init => TrainInv
  BY InitTrain
<1>2. TrainInv /\ [Next]_vars => TrainInv'
  BY TrainStep
<1>3. QED
  BY <1>1, <1>2, PTL DEF Spec

(* fann_train_candidates divides by an error that is not 0                 *)
(* (fann_cascade.c:507), unless the callback tested the network on other   *)
(* data.                                                                   *)
THEOREM CandidatesDivide == Spec => []CandidatesHaveAnError
<1>1. TrainInv => CandidatesHaveAnError
  <2> SUFFICES ASSUME TrainInv, pc \in {"train", "cand_epoch"}, ~history.tested
               PROVE  MSE_value > 0
    BY DEF CandidatesHaveAnError
  <2>1. QED
    BY DEF TrainInv, ErrorInv
<1>2. QED
  BY <1>1, TrainInvariant, PTL

(* An improved error or score that no longer changes ends its loop within  *)
(* the quota (fann_cascade.c:176-190, 518-542), for every change fraction  *)
(* of at most 1.                                                           *)
THEOREM LoopsStagnate == Spec => []ImprovedStagnates
<1>1. TrainInv => ImprovedStagnates
  <2> SUFFICES ASSUME TrainInv, InLoop, history.value > 0
               PROVE  i - 1 - history.changed < Quota
    BY DEF ImprovedStagnates
  <2>1. /\ i - 1 < stagnation
        /\ stagnation <= history.changed + Quota
    BY DEF TrainInv, LoopInv, StagnationInv
  <2>2. i \in Nat /\ stagnation \in Nat /\ history.changed \in Nat /\ Quota \in Nat
    BY SettingsTyped DEF TrainInv, TypeOK
  <2>3. QED
    BY <2>1, <2>2
<1>2. QED
  BY <1>1, TrainInvariant, PTL

----------------------------------------------------------------------------
(* The epochs counted, where the outputs are allowed one at all.           *)

(* An epoch keeps the count.                                               *)
LEMMA EpochCounted ==
  ASSUME TrainInv, CountInv, InLoop,
         NEW value \in Int, NEW reached \in BOOLEAN,
         NEW to \in Locations, to \notin {"out_epoch", "cand_epoch"},
         EndEpoch(value, Quota, reached, to)
  PROVE  CountInv'
<1>1. /\ i \in Nat /\ max_epochs \in Nat /\ i < max_epochs
      /\ history.ran = i
      /\ history \in [ran : Nat, value : Int, changed : Nat, significant : Nat,
                      tested : BOOLEAN]
  BY DEF TrainInv, TypeOK, LoopInv, CountInv
<1>2. history'.ran = i + 1
  BY <1>1 DEF EndEpoch, Recorded
<1>3. \/ pc' = to /\ returned' = EpochsDone
      \/ pc' = to /\ ~EpochsLeft /\ returned' = max_epochs
      \/ pc' = pc /\ i' = i + 1
  BY DEF EndEpoch
<1>4. CASE pc' = to
  <2>1. ~InLoop'
    BY <1>4 DEF InLoop
  <2>2. returned' = i + 1
    BY <1>1, <1>3, <1>4 DEF EpochsDone, EpochsLeft, InLoop
  <2>3. QED
    BY <1>2, <2>1, <2>2 DEF CountInv
<1>5. CASE pc' = pc /\ i' = i + 1
  BY <1>2, <1>5 DEF CountInv, InLoop
<1>6. QED
  BY <1>3, <1>4, <1>5

(* Every step keeps the count.                                             *)
LEMMA CountStep ==
  ASSUME 0 \notin OutEpochs, TrainInv, CountInv, [Next]_vars
  PROVE  CountInv'
<1> USE ConstantsTyped
<1>1. CASE AroundLoops
  BY <1>1, AroundLoopsKeepsInv DEF AroundLoops, CountInv
<1>2. CASE InitialEpoch
  <2>1. /\ i' = 1 /\ history'.ran = 1
        /\ \/ pc' = AfterOutputs /\ returned' = 1
           \/ pc' = "out_epoch"
           \/ /\ pc' = AfterOutputs /\ ~(1 < settings.max_out_epochs)
              /\ returned' = settings.max_out_epochs
    BY <1>2 DEF InitialEpoch
  <2>2. settings.max_out_epochs \in Nat /\ settings.max_out_epochs # 0
    BY SettingsTyped DEF TrainInv, TypeOK
  <2>3. pc' = AfterOutputs => returned' = 1 /\ ~InLoop'
    BY <2>1, <2>2 DEF AfterOutputs, InLoop
  <2>4. pc' = "out_epoch" => InLoop'
    BY DEF InLoop
  <2>5. QED
    BY <2>1, <2>3, <2>4 DEF CountInv
<1>3. CASE OutputEpoch
  <2>1. PICK o \in Outcomes :
          /\ initial_error - o[1] \in Int
          /\ fann_desired_error_reached(o[1], o[2], Goal) \in BOOLEAN
          /\ EndEpoch(initial_error - o[1], Quota,
                      fann_desired_error_reached(o[1], o[2], Goal),
                      AfterOutputs)
          /\ AfterOutputs \in {"idle", "report"}
    BY <1>3, OutputEpochIsEpoch
  <2>2. InLoop /\ AfterOutputs \in Locations
        /\ AfterOutputs \notin {"out_epoch", "cand_epoch"}
    BY <1>3, <2>1 DEF OutputEpoch, InLoop, Locations
  <2>3. QED
    BY <2>1, <2>2, EpochCounted
<1>4. CASE TrainCandidates
  BY <1>4 DEF TrainCandidates, CountInv, InLoop
<1>5. CASE CandidateEpoch
  <2>1. PICK score \in Int :
          /\ AboveLimit(score) \in BOOLEAN
          /\ EndEpoch(score, Quota, AboveLimit(score), "install")
    BY <1>5, CandidateEpochIsEpoch
  <2>2. InLoop
    BY <1>5 DEF CandidateEpoch, InLoop
  <2>3. QED
    BY <2>1, <2>2, EpochCounted DEF Locations
<1>6. CASE UNCHANGED vars
  BY <1>6 DEF vars, CountInv, InLoop
<1>7. QED
  BY <1>1, <1>2, <1>3, <1>4, <1>5, <1>6, StepsSplit

(* Unless the limit is no epoch at all, what total_epochs adds up          *)
(* (fann_cascade.c:52, 99) is the number of epochs that ran.               *)
THEOREM EpochsAreReported ==
  ASSUME 0 \notin OutEpochs
  PROVE  Spec => []EpochsReported
<1>1. Init => CountInv
  BY DEF Init, CountInv, InLoop
<1>2. TrainInv /\ CountInv /\ [Next]_vars => CountInv'
  BY CountStep
<1>3. CountInv => EpochsReported
  BY DEF CountInv, EpochsReported
<1>4. QED
  BY <1>1, <1>2, <1>3, TrainInvariant, PTL DEF Spec

----------------------------------------------------------------------------
(* The quota after a significant change, where nothing wraps round.        *)

(* Of an epoch: the quota that is set is the whole one.                    *)
LEMMA EpochQuota ==
  ASSUME NothingWraps, TrainInv, QuotaInv, InLoop,
         NEW value \in Int, NEW reached \in BOOLEAN,
         NEW to \in Locations, to \notin {"out_epoch", "cand_epoch"},
         EndEpoch(value, Quota, reached, to),
         UNCHANGED <<settings, max_epochs>>
  PROVE  /\ QuotaInv'
         /\ pc' # pc /\ EpochsLeft /\ ~reached
              => i - history'.significant >= Quota
<1> USE ConstantsTyped
<1>1. /\ i \in Nat /\ max_epochs \in Nat /\ i < max_epochs /\ Quota \in Nat
      /\ history \in [ran : Nat, value : Int, changed : Nat, significant : Nat,
                      tested : BOOLEAN]
      /\ stagnation \in Nat
  BY SettingsTyped DEF TrainInv, TypeOK, LoopInv
<1>2. i + Quota < UIntModulus
  <2>1. max_epochs + Quota <= UIntModulus
    <3>1. CASE pc = "out_epoch"
      <4>1. Quota \in OutQuotas /\ max_epochs \in OutEpochs
        BY <3>1, SettingsTyped DEF TrainInv, TypeOK, LoopInv, Quota
      <4>2. QED
        BY <4>1 DEF NothingWraps
    <3>2. CASE pc = "cand_epoch"
      <4>1. Quota \in CandQuotas /\ max_epochs \in CandEpochs
        BY <3>2, SettingsTyped DEF TrainInv, TypeOK, LoopInv, Quota
      <4>2. QED
        BY <4>1 DEF NothingWraps
    <3>3. QED
      BY <3>1, <3>2 DEF InLoop
  <2>2. QED
    BY <1>1, <2>1
<1>3. history'.significant = IF Significant(value) THEN i
                                                   ELSE history.significant
  BY <1>1 DEF EndEpoch, Recorded
<1>4. CASE reached
  <2>1. ~InLoop'
    BY <1>4 DEF EndEpoch, InLoop
  <2>2. QED
    BY <1>4, <2>1 DEF QuotaInv
<1>5. CASE ~reached
  <2>1. stagnation' \in {max_epochs, history'.significant + Quota}
    <3>1. SetGoal(value, Quota)
      BY <1>5 DEF EndEpoch
    <3>2. CASE Significant(value)
      <4>1. stagnation' = NewQuota(Quota)
        BY <3>1, <3>2 DEF SetGoal
      <4>2. stagnation' = i + Quota
        BY <1>1, <1>2, <4>1, QuotaBounded
      <4>3. QED
        BY <1>3, <3>2, <4>2
    <3>3. CASE ~Significant(value)
      <4>1. stagnation' = stagnation
        BY <3>1, <3>3 DEF SetGoal, goal
      <4>2. QED
        BY <1>3, <3>3, <4>1 DEF QuotaInv
    <3>4. QED
      BY <3>2, <3>3
  <2>2. ASSUME pc' # pc, EpochsLeft
        PROVE  i - history'.significant >= Quota
    <3>1. i >= stagnation'
      BY <1>5, <2>2 DEF EndEpoch
    <3>2. i + 1 < max_epochs
      BY <2>2 DEF EpochsLeft
    <3>3. history'.significant \in Nat
      BY <1>1, <1>3
    <3>4. i >= history'.significant + Quota
      BY <1>1, <2>1, <3>1, <3>2
    <3>5. QED
      BY <1>1, <3>3, <3>4
  <2>3. QuotaInv'
    <3>1. InLoop' => pc' = pc
      BY DEF EndEpoch, InLoop
    <3>2. pc' = pc => Quota' = Quota
      BY DEF Quota
    <3>3. QED
      BY <2>1, <3>1, <3>2 DEF QuotaInv
  <2>4. QED
    BY <2>2, <2>3
<1>6. QED
  BY <1>4, <1>5

(* Every step keeps the quota, and one that ends a loop early has used it. *)
LEMMA QuotaStep ==
  ASSUME NothingWraps, TrainInv, QuotaInv, [Next]_vars
  PROVE  /\ QuotaInv'
         /\ InLoop /\ pc' # pc /\ EpochsLeft /\ ~ReachedGoal
              => i - history'.significant >= Quota
<1>1. CASE AroundLoops
  BY <1>1, AroundLoopsKeepsInv DEF AroundLoops, QuotaInv
<1>2. CASE InitialEpoch
  <2>1. stagnation' = max_epochs' /\ ~InLoop
    BY <1>2 DEF InitialEpoch, StartLoop, InLoop
  <2>2. QED
    BY <2>1 DEF QuotaInv
<1>3. CASE OutputEpoch
  <2>1. PICK o \in Outcomes :
          /\ MSE_value' = o[1] /\ num_bit_fail' = o[2]
          /\ initial_error - o[1] \in Int
          /\ fann_desired_error_reached(o[1], o[2], Goal) \in BOOLEAN
          /\ EndEpoch(initial_error - o[1], Quota,
                      fann_desired_error_reached(o[1], o[2], Goal),
                      AfterOutputs)
          /\ AfterOutputs \in {"idle", "report"}
    BY <1>3, OutputEpochIsEpoch
  <2>2. /\ pc = "out_epoch" /\ InLoop /\ AfterOutputs \in Locations
        /\ AfterOutputs \notin {"out_epoch", "cand_epoch"}
        /\ UNCHANGED <<settings, max_epochs>>
    BY <1>3, <2>1 DEF OutputEpoch, InLoop, Locations
  <2>3. ReachedGoal = fann_desired_error_reached(o[1], o[2], Goal)
    BY <2>1, <2>2 DEF ReachedGoal
  <2>4. QED
    BY <2>1, <2>2, <2>3, EpochQuota
<1>4. CASE TrainCandidates
  <2>1. stagnation' = max_epochs' /\ ~InLoop
    BY <1>4 DEF TrainCandidates, StartLoop, InLoop
  <2>2. QED
    BY <2>1 DEF QuotaInv
<1>5. CASE CandidateEpoch
  <2>1. PICK score \in Int :
          /\ AboveLimit(score) \in BOOLEAN
          /\ EndEpoch(score, Quota, AboveLimit(score), "install")
    BY <1>5, CandidateEpochIsEpoch
  <2>2. /\ pc = "cand_epoch" /\ InLoop
        /\ UNCHANGED <<settings, max_epochs, MSE_value>>
    BY <1>5 DEF CandidateEpoch, InLoop, errors
  <2>3. history'.value = score
    BY <2>1 DEF EndEpoch, Recorded, TrainInv, TypeOK
  <2>4. ReachedGoal = AboveLimit(score)
    BY <2>2, <2>3 DEF ReachedGoal
  <2>5. QED
    BY <2>1, <2>2, <2>4, EpochQuota DEF Locations
<1>6. CASE UNCHANGED vars
  BY <1>6 DEF vars, goal, QuotaInv, InLoop, Quota
<1>7. QED
  BY <1>1, <1>2, <1>3, <1>4, <1>5, <1>6, StepsSplit

(* "After any significant change, set a new goal and allow a new quota of  *)
(* epochs to reach it" (fann_cascade.c:176), as long as no quota added to  *)
(* an epoch wraps round: a loop that ends early has run the whole quota.   *)
THEOREM QuotasAreGranted ==
  ASSUME NothingWraps
  PROVE  Spec => EachChangeGetsItsQuota
<1>1. Init => QuotaInv
  BY DEF Init, QuotaInv, InLoop
<1>2. TrainInv /\ QuotaInv /\ [Next]_vars => QuotaInv'
  BY QuotaStep
<1>3. TrainInv /\ QuotaInv /\ [Next]_vars
        => [InLoop /\ pc' # pc /\ EpochsLeft /\ ~ReachedGoal
              => i - history'.significant >= Quota]_vars
  BY QuotaStep
<1>4. QED
  BY <1>1, <1>2, <1>3, TrainInvariant, PTL DEF Spec, EachChangeGetsItsQuota
=============================================================================
