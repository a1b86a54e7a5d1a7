------------------------- MODULE CandidateTraining -------------------------
(***************************************************************************)
(* The epochs of cascade training (fann_cascade.c): those that train the   *)
(* outputs of a shortcut network, and those that train the candidates      *)
(* behind it.  CascadeTrain says how many there are and CascadeLayout how  *)
(* a candidate is installed; here is what an epoch computes.               *)
(*                                                                         *)
(* As in Propagation, numbers are integers and neurons FANN_LINEAR.  The   *)
(* algorithm is RPROP with rprop_delta_zero, _min and _max of 1, so each   *)
(* weight moves by 1.  There is one pattern for each seed.                 *)
(***************************************************************************)
EXTENDS Propagation

CONSTANTS
  CandidateCounts,    \* numbers of candidates
  CandidateSeeds,     \* each gives the random weights of the candidates,
  RandomBias,         \* but for those of the bias, which may be negative
  MaxOutEpochs, MaxCandEpochs  \* bounds: epochs of one training

ASSUME CandidatesAssumption ==
  /\ CandidateCounts \subseteq Nat \ {0}
  /\ CandidateSeeds \subseteq Nat /\ RandomBias \subseteq Int
  /\ {MaxOutEpochs, MaxCandEpochs} \subseteq Nat

VARIABLES
  num_cand,                  \* 0 while there are none
  prev_train_slopes,
  cascade_candidate_scores, cascade_best_candidate,
  epochs                     \* of the outputs, and of the candidates, so far

cascade == <<num_cand, prev_train_slopes, cascade_candidate_scores,
             cascade_best_candidate, epochs>>
untouched == <<vars, stage, steepness, prev_weights_deltas, desired_output, rounds>>
run_vars == <<value, train_errors, num_MSE>>

Patterns == Seeds
InputOf(p) == [i \in 0 .. num_input - 1 |-> Input(p, i)]
\* The network's answer and error for a pattern, with the outputs counted from 0
ValuesOf(p) == Values(weights, InputOf(p))
FirstOutput == layers[num_layers].first
OutputIndex == 0 .. num_output - 1
ErrorOf(p, j) == Desired(p, FirstOutput + j) - ValuesOf(p)[FirstOutput + j]

\* The values and errors of the last pattern stay where they are.
LeaveLastPattern(factor(_)) ==
  LET p == Max(Patterns)
  IN /\ value' = ValuesOf(p)
     /\ train_errors' = [n \in Neurons |->
          IF n < FirstOutput THEN 0 ELSE factor(n) * ErrorOf(p, n - FirstOutput)]

-----------------------------------------------------------------------------
(* Weights of the candidates, behind those of the network *)

connections_in == total_neurons - num_output
FirstCon(k) == total_connections + total_neurons * (k + 1)
LastCon(k) == FirstCon(k) + connections_in
Candidates == 0 .. num_cand - 1
SlotsOf(k) == FirstCon(k) .. LastCon(k) + num_output - 1

BeforeLastCon == LastCon(num_cand - 1)  \* a mutant: without the output weights
PastEnd == LastCon(num_cand - 1) + num_output

\* What the nested loops over functions, steepnesses and groups give candidate k
steepness_of(k) == 1 + (k % 2)

RandomWeight(seed, i, k) == (i \div (1 + k) + seed) % 3

fann_initialize_candidates ==
  /\ stage = "ready" /\ network_type = "SHORTCUT" /\ num_cand = 0 /\ epochs.outputs > 0
  /\ num_cand' \in CandidateCounts
  /\ \E seed \in CandidateSeeds, bias \in RandomBias :
       weights' = [c \in 0 .. FirstCon(num_cand') - 1 |->
         IF c \in DOMAIN connections THEN weights[c]
         ELSE IF c < FirstCon(0) THEN 0
         ELSE LET i == (c - total_connections) % total_neurons
                  k == (c - FirstCon(0)) \div total_neurons
              IN IF i = num_input THEN bias ELSE RandomWeight(seed, i, k)]
  /\ train_slopes' = [c \in DOMAIN weights' |->
                        IF c \in DOMAIN train_slopes THEN train_slopes[c] ELSE 0]
  /\ prev_train_slopes' = [c \in DOMAIN weights' |->
       IF c \in DOMAIN prev_train_slopes THEN prev_train_slopes[c] ELSE 0]
  /\ UNCHANGED <<untouched, run_vars, MSE_value, cascade_candidate_scores,
                 cascade_best_candidate, epochs>>

-----------------------------------------------------------------------------
(* fann_update_weights_irpropm, for the connections first .. past_end - 1 *)

\* A slope that has changed its sign counts as zero, and zero is not below zero.
SlopeUsed(prev_slope, slope) == IF prev_slope * slope >= 0 THEN slope ELSE 0
Moved(w, slope) == IF slope < 0 THEN w - 1 ELSE w + 1

fann_update_weights_irpropm(slopes, first, past_end) ==
  LET used == [c \in first .. past_end - 1 |-> SlopeUsed(prev_train_slopes[c], slopes[c])]
  IN /\ weights' = [c \in DOMAIN weights |->
          IF c \in DOMAIN used THEN Moved(weights[c], used[c]) ELSE weights[c]]
     /\ prev_train_slopes' = [c \in DOMAIN weights |->
          IF c \in DOMAIN used THEN used[c] ELSE prev_train_slopes[c]]
     /\ train_slopes' = [c \in DOMAIN weights |->
          IF c \in DOMAIN used THEN 0 ELSE slopes[c]]

-----------------------------------------------------------------------------
(* The epochs *)

\* What fann_compute_MSE and fann_update_slopes_batch of the last layer add
OutputSlope(c) ==
  LET n == Destination(c)
  IN IF n < FirstOutput THEN 0
     ELSE SumFunction([p \in Patterns |->
            fann_activation_derived(n) * ErrorOf(p, n - FirstOutput)
              * ValuesOf(p)[Source(n, c - first_con[n])]])

fann_train_outputs_epoch ==
  /\ stage = "ready" /\ network_type = "SHORTCUT" /\ num_cand = 0
  /\ epochs.outputs < MaxOutEpochs
  /\ MSE_value' = SumFunction([p \in Patterns |->
       SumFunction([j \in OutputIndex |-> ErrorOf(p, j) * ErrorOf(p, j)])])
  /\ fann_update_weights_irpropm(
       [c \in DOMAIN connections |-> train_slopes[c] + OutputSlope(c)],
       first_con[FirstOutput], total_connections)
  /\ LeaveLastPattern(fann_activation_derived)
  /\ num_MSE' = Cardinality(Patterns) * num_output
  /\ epochs' = [epochs EXCEPT !.outputs = @ + 1]
  /\ UNCHANGED <<untouched, num_cand, cascade_candidate_scores, cascade_best_candidate>>

\* The forward pass of a candidate, unrolled as in fann_run, but cut off before
\* the steepness comes in
Activation(k, p) ==
  LET sum == SumFunction([i \in Unrolled(connections_in) |->
                            weights[FirstCon(k) + i] * ValuesOf(p)[i]])
  IN steepness_of(k) * Clipped(sum, 150 \div steepness_of(k))

CandidateDiff(k, p, j) ==
  Activation(k, p) * weights[LastCon(k) + j] - ErrorOf(p, j)

KeepScore(k) ==  \* a mutant: the score of the epoch before is where this one starts
  IF k \in DOMAIN cascade_candidate_scores THEN cascade_candidate_scores[k] ELSE MSE_value
StartScore(k) == MSE_value

\* fann_update_candidate_slopes, for all patterns
Score(k) ==
  StartScore(k) - SumFunction([p \in Patterns |->
    SumFunction([j \in OutputIndex |-> CandidateDiff(k, p, j) * CandidateDiff(k, p, j)])])

CandidateSlope(k, c) ==
  SumFunction([p \in Patterns |->
    IF c >= LastCon(k) THEN -2 * CandidateDiff(k, p, c - LastCon(k)) * Activation(k, p)
    ELSE -steepness_of(k) * ValuesOf(p)[c - FirstCon(k)]
           * SumFunction([j \in OutputIndex |->
                            CandidateDiff(k, p, j) * weights[LastCon(k) + j]])])

fann_train_candidates_epoch ==
  LET slopes == [c \in DOMAIN weights |->
        IF c < FirstCon(0) THEN train_slopes[c]
        ELSE train_slopes[c]
               + CandidateSlope((c - FirstCon(0)) \div total_neurons, c)]
      scores == [k \in Candidates |-> Score(k)]
  IN /\ num_cand > 0 /\ epochs.candidates < MaxCandEpochs
     /\ cascade_candidate_scores' = scores
     /\ cascade_best_candidate' = total_neurons + 1 +
          Min({k \in Candidates : \A l \in Candidates : scores[l] <= scores[k]})
     /\ fann_update_weights_irpropm(slopes, FirstCon(0), PastEnd)
     /\ LeaveLastPattern(LAMBDA n : 1)
     /\ epochs' = [epochs EXCEPT !.candidates = @ + 1]
     /\ UNCHANGED <<untouched, MSE_value, num_MSE, num_cand>>

-----------------------------------------------------------------------------

NoEpochs == [outputs |-> 0, candidates |-> 0]

\* The caller sets the weights, and the steepness of the outputs back to 1.
Prepare ==
  /\ fann_set_weight_array /\ network_type = "SHORTCUT"
  /\ prev_train_slopes' = Zero(DOMAIN connections)
  /\ UNCHANGED <<num_cand, cascade_candidate_scores, cascade_best_candidate, epochs>>

fann_set_activation_steepness_output ==
  /\ stage = "ready" /\ network_type = "SHORTCUT" /\ epochs = NoEpochs
  /\ steepness' = [n \in Neurons |-> IF n >= FirstOutput THEN 1 ELSE steepness[n]]
  /\ steepness' # steepness
  /\ UNCHANGED <<vars, stage, weights, value, train_errors, train_slopes,
                 prev_weights_deltas, desired_output, MSE_value, num_MSE, rounds, cascade>>

NoCandidates ==
  /\ num_cand' = 0 /\ prev_train_slopes' = <<>>
  /\ cascade_candidate_scores' = <<>> /\ cascade_best_candidate' = 0
  /\ epochs' = NoEpochs

CandidateInit ==
  /\ PropagationInit
  /\ num_cand = 0 /\ prev_train_slopes = <<>>
  /\ cascade_candidate_scores = <<>> /\ cascade_best_candidate = 0
  /\ epochs = NoEpochs

CandidateNext ==
  \/ fann_create_shortcut_array /\ UNCHANGED <<stage, net, cascade>>
  \/ Prepare \/ fann_set_activation_steepness_output
  \/ fann_train_outputs_epoch
  \/ fann_initialize_candidates \/ fann_train_candidates_epoch
  \/ fann_destroy /\ Forget /\ NoCandidates

CandidateSpec == CandidateInit /\ [][CandidateNext]_<<all, cascade>>

-----------------------------------------------------------------------------
(* Properties *)

ErrorAt(p, n, v) == Desired(p, n) - v[n]

\* What the outputs would lack of the desired ones with weights w.
NetworkError(w) ==
  SumFunction([p \in Patterns |->
    LET v == LinearValuesFrom(w, InputOf(p))
    IN SumFunction([n \in Outputs |-> ErrorAt(p, n, v) * ErrorAt(p, n, v)])])

\* The same if candidate k, with weights w, were a neuron before the outputs.
CandidateAnswer(k, w, v) ==
  steepness_of(k) *
    SumFunction([i \in 0 .. FirstOutput - 1 |-> w[FirstCon(k) + i] * v[i]])

ErrorWith(k, w) ==
  SumFunction([p \in Patterns |->
    LET v == LinearValuesFrom(w, InputOf(p))
        answer == CandidateAnswer(k, w, v)
        e(n) == ErrorAt(p, n, v) - w[LastCon(k) + n - FirstOutput] * answer
    IN SumFunction([n \in Outputs |-> e(n) * e(n)])])

\* No neuron or candidate has a sum that is cut off.
Within(x, s) == -(150 \div s) < x /\ x < 150 \div s
NothingClipped ==
  \A p \in Patterns :
    LET v == LinearValuesFrom(weights, InputOf(p))
    IN /\ \A n \in Receivers : Within(v[n], steepness[n])
       /\ \A k \in Candidates : Within(CandidateAnswer(k, weights, v), 1)

\* The score of a candidate is how much of the squared error it would take away,
\* with an output of steepness 1 and the weights it had in this epoch; and the
\* best candidate is one that leaves the least (fann_cascade.c:687, :741).
ScoreIsErrorRemoved ==
  [][fann_train_candidates_epoch /\ NothingClipped
       /\ (\A n \in Outputs : steepness[n] = 1) =>
     /\ \A k \in Candidates :
          cascade_candidate_scores'[k] = MSE_value - ErrorWith(k, weights)
     /\ \A k \in Candidates :
          ErrorWith(cascade_best_candidate' - total_neurons - 1, weights)
            <= ErrorWith(k, weights)]_<<all, cascade>>

\* Twice the derivative of a quadratic function at weight c.
Rise(error(_), c) ==
  error([weights EXCEPT ![c] = @ + 1]) - error([weights EXCEPT ![c] = @ - 1])

\* Weight c goes down if that makes the error smaller, and up otherwise; where
\* the slope has changed its sign, always up.
FollowsError(error(_), c) ==
  LET rise == Rise(error, c)
  IN weights'[c] = weights[c] +
       (IF rise > 0 /\ prev_train_slopes[c] * rise <= 0 THEN -1 ELSE 1)

\* An epoch of the candidates moves each of their weights, those to the outputs
\* included, along the derivative of the error the network would have with that
\* candidate; one of the outputs, theirs.  All other weights stand still: while
\* candidates are trained the network they are trained for does not change.
EpochsFollowError ==
  [][/\ fann_train_outputs_epoch /\ NothingClipped =>
          \A c \in DOMAIN weights :
            IF Destination(c) \in Outputs THEN FollowsError(NetworkError, c)
            ELSE weights'[c] = weights[c]
     /\ fann_train_candidates_epoch /\ NothingClipped =>
          /\ \A c \in 0 .. FirstCon(0) - 1 : weights'[c] = weights[c]
          /\ \A k \in Candidates : \A c \in SlotsOf(k) :
               FollowsError(LAMBDA w : ErrorWith(k, w), c)]_<<all, cascade>>
=============================================================================
