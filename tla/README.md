# Verification of FANN

FANN is a C library of artificial neural networks: a `struct fann` that holds a
network, functions that build, run, train, save and load one, and a
`struct fann_train_data` that holds training patterns. This project models the
parts of `src/` whose correctness depends on the order of steps and on the
agreement of several pieces of state: how networks are built, run and trained,
how **cascade training** changes their structure, how data sets and files are
made, copied, read and freed, and how data is scaled.

Paths below are relative to the repository; `src/fann_cascade.c` is listed in
`PROJECT.json` as `src/src/fann_cascade.c`.

## 1. The system

The library is single threaded and calls back into its caller in two places (the
training callback, and the function that gives training data). There are no
messages. Components share the `struct fann`: what one of them leaves in it the
next one relies on.

| Component | State | Operations | Modelled in |
|---|---|---|---|
| Network creation (`fann.c`) | layers, neurons, weights, connections, totals and allocated totals | `fann_create_standard/sparse/shortcut`, `fann_allocate_structure/neurons/connections`, `fann_destroy`, `fann_get_*_array`, `fann_init_weights` | `NetworkCreation`; failing allocations in `NetworkFile` |
| Running (`fann.c`) | values of neurons | `fann_run` | `Propagation` |
| Ordinary training (`fann_train.c`, `fann_train_data.c`) | `train_errors`, `train_slopes`, `prev_steps`, `prev_train_slopes`, `prev_weights_deltas`, `MSE_value`, `num_MSE` | `fann_train`, `fann_train_epoch` of four algorithms, `fann_train_on_data` | `Propagation` (one pattern), `OrdinaryTraining` (epochs and trainings) |
| Cascade training (`fann_cascade.c`) | all of the above, candidate neurons behind the network, score array, `cascade_best_candidate`, candidate lists | `fann_cascadetrain_on_data` and its 15 internal steps, setters of the candidate lists | `CascadeLayout` (memory), `CascadeTrain` (loops), `CandidateTraining` (one epoch) |
| Training data (`fann_train_data.c`, class `training_data` of `fann_cpp.h`) | two blocks of values, two arrays of pointers into them | read, save, create, copy, subset, merge, shuffle, destroy | `TrainData` |
| Scaling (`fann_train_data.c`, `fann_allocate_scale`) | eight parameter arrays of a network, the data | `fann_set_*_scaling_params`, `fann_clear_scaling_params`, `fann_scale_*`, `fann_descale_*` | `Scaling` |
| Saving and loading (`fann_io.c`) | file | `fann_save`, `fann_save_to_fixed`, `fann_create_from_file` | `NetworkFile` |
| Errors (`fann_error.c`) | `errno_f`, `errstr`, `error_log` | `fann_error`, `fann_get_errstr`, `fann_reset_*` | `TrainData` |
| Fixed point (`fixedfann.c`) | `decimal_point`, `multiplier` | conversion on saving, integer `fann_run` | conversion in `NetworkFile` |
| Activation functions, class `neural_net`, Python bindings | none of their own | | not modelled |

### What is hard about each of them

- **Cascade training, memory.** Candidates are written behind the network into
  the blocks the network lives in. Installing one moves output neurons and their
  weights upwards over free slots, towards the candidate that is being copied
  from. Seven heap blocks have to keep their sizes in step with two totals; they
  are grown one after the other and any of them can fail; several are allocated
  only when training first needs them. *Correct when:* layers and weights remain a
  shortcut network; candidates lie inside the blocks; what is installed is one of
  the round's candidates, undamaged; the connection pointers are right at the end.
- **Cascade training, control.** Three nested loops with five ways out, targets
  that are fractions of the last improvement, unsigned arithmetic on epochs, a
  callback that may change every limit. *Correct when:* trainings end, stagnate
  when nothing changes, grant each change its quota, count their epochs.
- **Cascade training, epochs.** Candidates share weight and slope arrays with the
  network, their output weights have no pointers of their own, and their score
  starts from an error left behind by another function. *Correct when:* each
  candidate's weights, and no others, follow the error it would leave, and the
  scores rank candidates by that error.
- **Creation of sparse networks.** Rounded splitting of connections and random
  choice until something free is found. *Correct when:* the parts add up, every
  neuron is used, nothing is connected twice, and the random loops end.
- **Running and training a pattern.** Connections are found by position in fully
  connected networks and through pointers in sparse ones; sums are unrolled by
  four; errors flow backwards through layers that may skip. *Correct when:* a run
  computes the weighted sums and a training the derivatives.
- **Epochs.** Arrays that are allocated lazily and keep what the last algorithm
  left in them, a callback that changes everything between two epochs.
  *Correct when:* no array is missing or shorter than the network, slopes are
  counted once, no step is stuck at zero, the last epoch is reported.
- **Training data.** Failure paths that run destructors on half built objects;
  unsigned overflow in ranges; pointers into shared blocks. *Correct when:* rows
  stay rows, memory is freed once and not lost.
- **Scaling.** Parameters fitted, cleared and allocated by different calls, used
  by others. *Correct when:* descaling undoes scaling, ranges are met.
- **Saving and loading.** What is not in the file is computed; what is, has few
  digits. *Correct when:* the loaded network is the saved one, and a file that
  ends early leaves nothing behind.
- **Errors.** A number and a message that are set, reset and freed apart, in a
  struct that begins like two others.

`PROJECT.json` lists every hazard at its line, with the properties that cover it
or the reason why none does.

## 2. Modules

| Module | What it is | Composes |
|---|---|---|
| `NetworkCreation` | building a network, and what is told about its topology | |
| `Propagation` | running it, and what one pattern of training does | `NetworkCreation` |
| `OrdinaryTraining` | `fann_train_on_data`: epochs, callback, training arrays | |
| `CascadeLayout` | the memory of a network through `fann_cascadetrain_on_data` | |
| `CascadeTrain` | the loops of cascade training: epochs, goals, stagnation, callback | |
| `CandidateTraining` | what an epoch of the outputs, and one of the candidates, computes | `Propagation` |
| `CascadeNet` | abstract: what growing a network promises, without memory | |
| `CascadeRefinement` | refinement mapping from the layout to the promise | `CascadeLayout`, `CascadeNet` |
| `CascadeLayoutProofs` | theorems: the structure of the network, the sizes on record, connections, the candidate that is installed undamaged; the layout implements the promise | `CascadeRefinement` |
| `CascadeTrainProofs` | theorems about the loops | `CascadeTrain` |
| `OrdinaryTrainingProofs` | theorems about `fann_train_on_data` | `OrdinaryTraining` |
| `DataInduction` | lemmas: induction over numbers, folds, sums over sets | |
| `TrainDataProofs` | theorems about data sets | `TrainData`, `DataInduction` |
| `NetworkProofs` | theorems about networks, of all sizes a float can count, and their files | `NetworkFile`, `DataInduction` |
| `PropagationProofs` | theorems about running networks, training a pattern, and the epochs of cascade training | `CandidateTraining`, `NetworkProofs` |
| `ScalingProofs` | theorems about scaling, whatever the data | `Scaling`, `DataInduction` |
| `TrainData` | data sets, their errors, files and C++ owners | |
| `Scaling` | data and scaling parameters | |
| `NetworkFile` | saving and loading, fixed point | `NetworkCreation` |
| `MC...` | instances for TLC | |

A line marked "a mutant", or an operator that nothing uses, such as
`ResizeOneTooMany`, is a plausible bug: replacing the definition after it by the
mutant makes the property named in `PROJECT.json` fail. They show that the
properties can fail.

Several modules have variables that are no part of the code (`history`,
`defined`, `refused`, `foreign`, `owner`, `epochs`, `lost`, `excused`, `since`, `depth`, `fitted`, `asked`): they
remember what the properties are about, and no action of the code depends on one,
but for the bounds on `epochs` and `calls`, which end a run of the program.
`Restart` stands for a new start of the program; it keeps a bounded run going, so
that a deadlock is a real one.

### NetworkCreation

Neurons and connections are numbered as in the code; a connection is the number
of the neuron it comes from.

| Action | Code |
|---|---|
| `fann_create_sparse_array` | layers of at most 2^24 possible connections (`FloatAssumption`: more than that a float does not count) and the division of the connections (`Allotted`, with the unsigned product of the code); the whole of a fully connected network, which is what `fann_create_standard_array` makes |
| `ConnectBias`, `ConnectInput`, `ConnectRest` | the three passes over a layer of a sparse network, one random choice per step; a draw that is refused is a step not taken |
| `fann_create_shortcut_array` | shortcut networks of any number of layers |
| `fann_destroy` | and another network is built |

`fann_get_layer_array`, `fann_get_bias_array`, `fann_get_connection_array`,
`fann_print_connections` and `fann_init_weights` are operators: they read a
network, and `ReportsMatch` and `WellConnected` say what they have to find.

### Propagation

Weights, inputs and values are integers and all neurons linear, with steepness 1
or 2, so that the derivative of the squared error by a weight can be computed as
a difference (`Gradient`) and compared with what the backpropagation finds. Each
loop has the source of a connection as the code finds it: `ByPosition`,
`ByPointer`, `UpdateSource`. `LinearValues` and `Gradient` are the reference, from
the connections on record alone.

| Action | Code |
|---|---|
| `fann_set_weight_array` | the weights, through the walk of `fann_get_connection_array` |
| `fann_run` | values in the order of the neurons, with the clipped sum |
| `fann_compute_MSE`, `fann_backpropagate_MSE` | errors of the outputs, then of all neurons |
| `fann_update_slopes_batch` | slopes of the three batch algorithms |
| `fann_update_weights` | incremental training with momentum |

### OrdinaryTraining

The error surface is replaced by its slope: an epoch may find any of `Slopes` for
the connection that is followed. Each training array has a length and the value
of that connection. Steps are in units of 1/10000, so 0.0001, the least step of
RPROP, is 1.

| Action | Code |
|---|---|
| `fann_train_on_data` | the call, and its limits |
| `Epoch` | `fann_train_epoch` of the current algorithm with all its lazy allocations (`Incremental`, `Batchwise`), the weight updates (`RpropStep`, `QuickpropStep`), and the comparison with the goal |
| `Report`, `NoReport`, `CallbackReturns` | the rest of the loop body |
| `fann_train`, `fann_set_training_algorithm`, `fann_randomize_weights` | also in the callback, of cascade training as well |
| `fann_cascadetrain_on_data` | the call, and the arrays cleared by its first `fann_train_outputs` |
| `fann_train_outputs_epoch` | the slopes of all patterns, and with RPROP or Quickprop the update; the other two algorithms are refused after that (`RefusedAfter`), which leaves the slopes |
| `NextNeuron` | a candidate installed, with all arrays but the deltas grown if there was no room, and the outputs trained again |
| `RoomIsMissing`, `NetworkIsLost` | the `realloc`s that fail: the training ends with what is left of the arrays, or with a network that is gone |
| `StopGrowing` | the goal or the callback ends the rounds; the outputs are trained one last time |

Of a cascade training this module has what it does to the arrays: which
`pc` (`"outputs"`, `"trained"`, `"last"`) follows which is left open where it
depends on errors (`CascadeTrain`) or on the blocks of the network (`CascadeLayout`).

### CascadeLayout

Neurons, weights and connections are functions from slots (from 0, as in the
code) to their contents. A weight is a *token*, the name of the weight it was
created as; training changes its value and not its name. `cap` holds the true
sizes of the heap blocks, next to `total_*_allocated`, the sizes on record:
the code can let them differ, and the properties are about that. A pointer into
a neuron block is the neuron's index, or `Dangling`.

| Action | Code |
|---|---|
| `StartTraining` | entry of `fann_cascadetrain_on_data` |
| `TrainOutputs`, `TrainOutputsLastTime` | `fann_train_outputs`: uses the whole network, allocates missing training arrays |
| `StopGrowing`, `KeepGrowing` | callback, goal test |
| `fann_initialize_candidates` | room for the candidates, then the candidates |
| `NeuronReallocFails`, `ConnectionReallocFails` | each point where one of the seven `realloc`s fails, and what it leaves |
| `fann_train_candidates` | score array, epochs, choice of the best |
| `fann_add_layer`, `fann_add_candidate_neuron`, `MoveOutputNeuron`, `PlaceNeuron` | `fann_install_candidate`, one action per iteration of the loop that moves an output neuron |
| `fann_set_shortcut_connections` | connection pointers |
| `SetCandidateList`, `SetCandidateScalar` | setters, between trainings or in the callback |

When C no longer defines the run (a null pointer, a slot outside its block), `pc`
becomes `"undefined"` and nothing more is said. Each property states what holds
before that point, and `AlwaysDefined` that it is never reached.

### CascadeNet and CascadeRefinement

`CascadeNet` knows lists of hidden and output neurons and one step: take one
candidate on offer, append it, and append one of its output weights to each
output neuron. `CascadeRefinement` reads those lists out of the flat arrays, also
in the middle of an installation, and shows that every step of the layout is an
installation or changes nothing. `Pairing` says which weight goes to which
output. With the pairing the candidate was trained with, the refinement fails as
soon as there are two outputs (`refines_trained`); with the reversed pairing it holds.

### CascadeTrain

Errors are integers in units of which `One` make 1.0, and each epoch may produce
any of them; a candidate's score is what is left of the error, so at most the
error. Both loops share `EndEpoch`, as their code is the same. `history`
records how many epochs really ran, when the value last
changed, and when it last changed significantly. `UIntModulus` is the range of
`unsigned int`, so `i + quota` wraps as in the code. Its actions are
`StartTraining`, `InitialEpoch` and `OutputEpoch` (`fann_train_outputs`),
`Report`, `NoReport`, `CallbackReturns`, `InitializeCandidates`,
`TrainCandidates` and `CandidateEpoch` (`fann_train_candidates`),
`InstallCandidate`, and the caller's `CallerSets` and `CallerTests`.

### CandidateTraining

A shortcut network of `Propagation`, with candidates behind it. RPROP takes steps
of 1 (`rprop_delta_zero`, `_min` and `_max` are 1), so weights stay integers and
only directions matter; there is one training pattern for each seed. `ErrorWith`
is the reference: the error of the network if a candidate were a part of it.

| Action | Code |
|---|---|
| `Prepare` | the caller sets weights; `fann_clear_train_arrays` at the start of a training |
| `fann_set_activation_steepness_output` | the caller makes the outputs plain sums |
| `fann_train_outputs_epoch` | all patterns, then `fann_update_weights_irpropm` of the outputs' weights |
| `fann_initialize_candidates` | the weights; their places are those of `CascadeLayout`, for a number of candidates given |
| `fann_train_candidates_epoch` | scores and slopes of all candidates for all patterns (`fann_update_candidate_slopes`), their update, and the choice of the best |

### TrainData

An object of class `training_data` holds a set or none. A set has its two blocks
and, for each row, where in the blocks it begins. A call that can fail has one
outcome per allocation that may be the one to fail; `Outcome` says what set comes
out, which blocks were lost, whether C defined what happened, and whether it is
one of the known ways to lose something (`excused`).

| Action | Code |
|---|---|
| `create_train_from_callback`, `set_train_data`, `copy_training_data`, `merge_train_data`, `subset_train_data`, `destroy_train` | the methods of `training_data` with the functions of `fann_train_data.c` they call and the `fann_error`s these report |
| `shuffle_train_data` | any permutation the swaps can make, swap by swap |
| `save_train`, `read_train_from_file` | one file; a value is written with `%d` or `%f` (`Written`), a file may end after any value |
| `fann_get_errstr`, `fann_reset_errstr`, `fann_reset_errno` | the record of a set |

### Scaling

The network has `num_input` inputs and `num_output` outputs. A *place* is one of
them, and has a column of the data and its own four parameters (`Places`,
`Of(sides)`). Numbers are exact rationals; `<<0, 0>>` is what a division by zero leaves.
`Reduced` writes a number with the least denominator it has, so that equal numbers
are equal pairs. `Root` is rounded down; the columns of the instance have whole
deviations, and `FittedRange` speaks of columns whose variance has an exact root.
A range has its ends in order, as its name says (`ScalingAssumption`); the code does
not look.

`fann_set_scaling_params(sides)` stands for the three functions for inputs,
outputs and both, and likewise the other operations. Fitting goes by the column;
`fann_scale_train_data` goes by the `Block` of a side, all its columns together, so
that one column need not reach the ends of the range. `Mismatched` is each of these
calls refused for data of another size. When `fann_allocate_scale` cannot allocate
it destroys the network its callers go on using: `pc` becomes `"freed"`.

### NetworkFile

A network from `NetworkCreation` is given parameters (`Configure`), saved, and
loaded. A file is the record of its eight sections, and may end before any of
them; `Saved` rounds what `%f` rounds. `Loading(f)` is the set of outcomes of
`fann_create_from_file`: the network, or why there is none, with the blocks
nobody can free any more, for every place where the file may stop and for every
allocation that may fail. `Stops(f)` says how far a file is read: one that ends
before the line on scaling is read on, as one without it, to the neurons. `OldFile` are files of the versions 1.1 and 2.0, which
the code still reads. `FixedFile` is `fann_save_to_fixed`, whose decimal point is
computed from the weights; the number of bits left is a `size_t`, which becomes
negative as an `int` where it has 64 bits, and then counts as 0.

## 3. Runs

| Run | Shows | Instance, and why it is enough |
|---|---|---|
| `propagation` | however the random choices fall, networks are well connected and the draws end; a run gives the weighted sums, a pattern the derivatives | all networks of two layers of 1 to 3 neurons, three of three layers, one of four, and 5, 6 connections per neuron so that the unrolled loop has a remainder of 1 and 2; rates 1/4, 3/4 and above 1; two seeds for weights and data, two patterns, so that momentum and summed slopes are there |
| `training` | any mixture of algorithms, calls, cascade trainings and failures between epochs | slopes of both signs and zero, of which two differ by a factor of two; trainings of 0, 1 and 3 epochs, with and without data, reports every 3 epochs or never |
| `refines_built` | growing a network, with working allocations | 3 outputs, so that reversal, identity and rotation differ; four hidden neurons |
| `layout_failures` | with every failure, stale candidates and overgrown lists, the network that is left keeps its structure; the inductive invariant holds | 2 hidden neurons, three values for uninitialised memory (in, at and beyond the network) |
| `train_loops` | quotas, stagnation, counts, no division by zero, termination | errors 0..2, scores -1..2, limits 1, 5 and 0, 4, quotas 1 and 2, a callback that tests the network |
| `candidates` | scores are the error a candidate would remove, and each epoch moves exactly its own weights along the error | 2, 3, 4 and 5 inputs of a candidate, so that the unrolled loop has each remainder; one or two outputs, a hidden neuron; two candidates of steepness 1 and 2; two epochs of each kind, so that slopes change their sign |
| `train_data` | rows stay rows, memory is lost only in listed ways | two objects, two shapes, up to 3 rows, four calls between two starts: create, and three that work on what came out |
| `scaling` | descaling undoes scaling, ranges are met | two inputs and one output, so that a side has several columns; columns with deviation 5 and 2, in all combinations, and empty ones; a range and one of a single value; three calls: fit, scale, descale or any other three |
| `network_file` | round trips, cut off files, failing allocations, fixed point | networks of each kind with up to three layers; a rate that is 1, two that a file tells from 1 and one that it rounds to 1; parameters with and without digits a file cannot hold; lists of length 0 to 2; an `int` of 8 bits and weights below and above 1, so that different networks get different decimal points |

The network of one input and two outputs is the smallest in which an output has
a neighbour to be moved over; the moves depend on the number of outputs and on
nothing else about them. Candidate lists of one and two entries give one, two and
four candidates: the best one can be first, last or in between. That arrays which
are reallocated again and again stay long enough is proved for every size
(`RecordCorrect`, `RoomCorrect`).
The errors 0..2 with a change fraction of one half give improvements that are
significant, insignificant and backsliding, above and below zero; limits
of four or five epochs exceed the quotas by enough for two significant changes
and a stagnation after them.

Runs that end in a violation check one sentence of the documentation, each of
which is quoted in `PROJECT.json`:

| Run | The code against its word |
|---|---|
| `refines_trained` | output weights of a candidate go to the outputs in reverse order (`fann_cascade.c:906`) |
| `sparse` | incremental training of a sparse network uses the values of unconnected neurons (`fann_train.c:438`) |
| `grown` | the array of the last weight changes does not grow with the network (`fann_train.c:386`) |

`CHECK_DEADLOCK FALSE` is used by `layout_failures` alone: an undefined run has
no next step.

### Environment

- `AllocMayFail` lets every `malloc`, `calloc` and `realloc` fail.
- `OutgrowScores = FALSE` restricts callers of `refines_built` to as many
  candidates as the score array holds.
- In `CascadeLayout`, `CascadeTrain` and `CandidateTraining` the caller of cascade
  training uses RPROP or Quickprop. What the other two algorithms do there, and
  leave behind, is in `OrdinaryTraining`; `SlopesCountOnce` makes an exception of it
  (`refused`).
- `bit_fail_limit` is above 0, so a training without an error has no failing bits.
- A callback that tests the network overwrites `MSE_value`, which the candidate
  loop divides by: `CandidatesHaveAnError` speaks of trainings without such a test.
- Weights of `propagation` are set before the first run. Sums that reach the
  limit fann_run cuts them to are left out of the properties (`Unclipped`).

### Fairness

`CascadeTrain` and `OrdinaryTraining` assume weak fairness of `Training`, the
steps of the running call: the thread that runs it goes on running, and a
callback returns. Nothing is assumed of the caller between trainings. Within a
callback the caller may change settings any number of times but not for ever,
which is what "returns" means.

`NetworkCreation` (`FairSpec`, and `PropagationSpec` with the variables of
`Propagation`) assumes weak fairness of the passes over a layer. It means that a
random number generator which can draw a number that leads on will do so some
time. The property that is checked under it is that there always is one: a state
in which every draw would be refused violates `RandomDrawsEnd`.

### Disagreements outside the runs

Besides what the runs above show, the properties exclude the following, each at
the place where it is stated; most were found as counterexamples of a property
without the exclusion. A hazard of which the excluded case is all there is has no
property in `PROJECT.json`, but a note.

Cascade training:

- `fann_reallocate_neurons` stores the new total before it knows whether `realloc`
  worked (`fann_cascade.c:294`); the next training writes candidates behind the old
  block. `RoomIsMade` fails with `AllocMayFail`.
- With `cascade_max_cand_epochs` 0 no candidate is chosen, and what is installed is
  0 or the best one of an earlier round (`:503`, against `fann_data.h:632`: "The
  current best candidate, which will be installed"). `refines_built` has at least one
  epoch, `layout_failures` none or one.
- `fann_train_outputs_epoch` adds the slopes of all patterns (`:205-210`) before it
  refuses batch and incremental training (`:222-226`). They stay when the training
  returns, and the next batch training adds its own to them; `fann_data.h:53-54` has
  its weights updated "after calculating the mean square error for the whole training
  set", once. `SlopesCountOnce` fails without its exception (`refused`).
- The score array keeps its first size (`:492`); with `OutgrowScores` candidates
  are written past it.
- An error that never gets better than at the start is trained to the last epoch
  (`:150`), and above the start the same error again counts as a significant change
  (`:184`). `ImprovedStagnates` speaks of improved trainings.
- A quota near the largest `unsigned int` makes `i + quota` wrap, so the loop ends
  at its first significant change (`:186`; `EachChangeGetsItsQuota` fails when
  `UIntModulus - 1` is among the quotas); a limit of no output epochs runs one and
  counts none (`:196`; `EpochsReported` fails when 0 is among `OutEpochs`).
- A score is not what a candidate is worth when it is installed. It is the error
  of the epoch before the outputs' weights were last moved, and that of the
  candidate before its own weights were (`:687`, `:738`); it is
  cut off before the steepness comes in, where `fann_run` cuts after it; and it
  takes the outputs for plain sums, so with another steepness than 1 it is only a
  rank among candidates (`ScoreIsErrorRemoved` asks for steepness 1).
- A weight whose slope changes its sign is moved up instead of left alone
  (`fann_train.c:740`); `EpochsFollowError` allows it. The slope of a candidate's
  input weights lacks a factor of 2 that the one of its output weights has
  (`fann_cascade.c:627`, `:648`), which a rule that goes by the sign does not see.

Ordinary training: Quickprop that starts from the steps of RPROP may divide by
zero (`QuickpropDivides` excludes it as `foreign`); training without patterns
divides by their number; batch training of a new network without patterns goes
through a null pointer (`ArraysAreThere`).

Training data (`LossesExcused` lists them as excuses): `fann_destroy_train` never
frees the message, and on a half built set reads uninitialised pointers
(`fann_train_data.c:816`, a failed allocation of `output`); merging sets that do not
fit, and a refused subset, lose the struct; `pos + length` may wrap (`:633`), and a
subset far beyond the set is not refused; the blocks of a set without rows are freed through a row that is not there; the copy
constructor of `training_data` destroys an uninitialised pointer
(`fann_cpp.h:377`), `set_train_data` leaves the record uninitialised, and
`subset_train_data` destroys the data also when the subset failed.
`fann_get_errstr` frees the message it returns.

Scaling: a column that does not vary is divided by zero when it is fitted or
scaled (`fann_train_data.c:412`, `:1098`). A range of which both ends are the same
makes the factor 0, by which descaling divides (`:979`): data that is scaled to it
once lies in it, and is lost when it is descaled. `DescaleUndoesScale` and
`FittedRange` leave both out.

Building a network: the product `num_connections * (i + 1)` that hands out the
remainder of a division (`fann.c:194`) is an `unsigned int`. In a sparse network with
two neighbouring layers of 1800 neurons and a connection rate of 0.9001 it wraps, and
60 of the 2918124 connections belong to no neuron; `DivisionIsExact` assumes
`ProductsFit`. Fully connected networks have no remainder to hand out and are not
affected. The product of the rate and the possible connections of a layer is a float
(`fann.c:175`), which has 24 bits: of 201 neurons with 83503 sources each it makes
one connection more than there are, also in a fully connected network.
`FloatAssumption` limits the layers to 2^24 possible connections. Below that a float
may still round the product of a rate below 1 to another whole number than the model,
within the same limits, which are all that the properties and proofs use.

Files: parameters are written with `%f`, six digits behind the point
(`fann_io.c:178`), so "an exact copy" (`fann_io.h:47`) of a learning rate of
0.0000003 is 0; `SavedIsLoaded` says to what the settings are rounded. A rate of
0.9999996 is 1 in the file, and `fann_run` looks for the connections of the loaded
network by position (`fann.c:601`) instead of where its pointers say: a rate within
half a digit of 1 is the exception `SavedIsLoaded` makes. A network with an empty candidate list is saved but refused when loaded
(`fann_io.c:453`). A list that cannot be grown is lost, and so are both lists when the
layers cannot be allocated (`fann.c:1411`), which `RefusedCleanly` allows. A failing `fann_allocate_scale` frees the network its callers
go on using (`fann_io.c:548`); a value of a training file that six digits
cannot tell from the whole number above it, such as 0.9999999, is saved as the whole
number below (`IsOf`, `fann_train_data.c:753`), and the same test multiplies by 1000000 in
`int`, which overflows for values of 2148 and more.

## 4. Proofs

Theorems hold for every value of the constants that the assumption of the module
allows: every number of inputs, outputs, candidates and rounds, every set of
limits, quotas and errors, every set of examples and shapes. TLC checked an
inductive invariant on the instance of section 3 before it was proved, if it can
evaluate it; some speak of all integers (`NetInv`, `CandInv`) or of a function that
exists (`ScalingInv`), and TLC has checked the properties they are for.

| Module | Theorems | Hypotheses beyond the module's assumption |
|---|---|---|
| `CascadeLayoutProofs` | `LayoutAlways` (`LayoutInv`), and from it `TypeCorrect`, `LayersCorrect`, `WeightsCorrect` | none: allocations may fail |
| | `RecordCorrect`, `RoomCorrect` | `~AllocMayFail` |
| | `OrderAlways`, `ConnectionsCorrect` | none: allocations may fail |
| | `ChoiceAlways`, and from it `NothingUndefined`, `CandidateIsIntact` | `NothingFails` |
| | `RefinesCascadeNet` | `NothingFails` |
| `CascadeTrainProofs` | `TrainInvariant`, `CandidatesDivide`, `LoopsStagnate` | none |
| | `EpochsAreReported` | `0 \notin OutEpochs` |
| | `QuotasAreGranted` | `NothingWraps` |
| `OrdinaryTrainingProofs` | `TrainingInvariant`, `ArraysAreFound`, `SlopesCountedOnce`, `LastEpochIsReported`, `QuickpropNeverDividesByZero` | none: allocations may fail |
| | `RpropStepsStayUsable` | `DeltaMax > 0`, `DeltaMin <= DeltaMax` |
| `TrainDataProofs` | `DataInvariant`, `ExamplesStay`, `LossesAreExcused`, `MessagesMatch` | none: allocations may fail |
| `NetworkProofs` | `NetworkInvariant`, `DivisionIsExact`, `NetworksAreConnected`, `ReportsAgree` | `ProductsFit` |
| | `FilesKeepNetworks`, `FilesAreOfNetworks`, `FilesAreRefusedCleanly` | none: allocations may fail |
| | `SavedNetworksComeBack` | `ProductsFit` |
| | `FixedPointLeavesRoom` | `ProductsFit`, and `TwoBitsAreLeft` by the weights that are saved |
| `PropagationProofs` | `TrainedNetworksAreBuilt`, `EpochsAreOfBuiltNetworks` | none |
| | `NetInvariant`, `RunsAreWeightedSums`, `BackpropagationIsDerivative`, `IncrementalIsDescent` | `ProductsFit` |
| | `EpochInvariant`, `ScoresAreErrorRemoved`, `EpochsAreDescents` | `ProductsFit` |
| `ScalingProofs` | `ScalingInvariant`, `ScalingIsReversible`, `FittedDataIsInRange`, `RangesAreReached` | none |

Each hypothesis is there because its theorem is false without it (`FixedPointLeavesRoom`
takes `ProductsFit` over from `NetworkInvariant`, for the ranges of the connections); section 3
describes what happens then. `NothingFails` says that
allocations succeed, that a callback does not raise the number of candidates above
the one the score array was made for, and that candidates are trained for at least
one epoch (`cascade_max_cand_epochs` is 150 unless a caller changes it).
`NothingWraps` says that no limit of epochs plus a quota exceeds an `unsigned int`.
`ProductsFit` says that the product of the division fits an `unsigned int` wherever
a network is not fully connected; with layers of 3 and 2 neurons, a rate of 3/4 and
integers up to 7 it does not, and one of 7 connections is lost.
`TwoBitsAreLeft` says that the weights of no neuron add up to 2^30, if an `int` has 32 bits.
The limits of RPROP are 50.0 and 0.0 unless a caller changes them
(`fann.c:1397-1398`).

### The memory of a growing network

`LayersPartitionNeurons` and `WeightsPartition` are not inductive: installation
takes them apart. `LayersWhileInstalling` says how the layers look with the new
layer still empty. `WeightsWhileMoving` is the loop invariant of the moves: below
`neuron_it` the old arrangement, above it the new one, and between them a hole for
the weights of the new neuron plus one weight per output still to be moved. When
`neuron_it` reaches the new neuron's slot the hole has exactly its size.
`RoomHeld` carries the room made for the candidates to the installation, and
`NeuronsPresent` relates the neuron block to the network after a failure. For the
record, `RecordInv` adds that a training array that is missing will be allocated
with the size on record, and that none is missing while candidates are made.

`WeightsPartition` gives the start of a neuron's range from the neuron before it.
Rebuilding the connections needs more: that no two ranges meet, so that a weight
tells which neuron it belongs to. That would take an induction over neurons in
every step, so it is an invariant of its own, `RangesInOrder`, which the moves keep
because the hole is where the moved ranges go. `ConnectionsRestored` follows at
`fann_set_shortcut_connections`, after failures as well.

`ChoiceInv` is about one round, and needs that nothing fails: the candidates behind
the network are what `fann_initialize_candidates` wrote, the best one is among
them, and while outputs move up over the free slots the weights of the best
candidate that are still to be read (its input weights, and the output weights of
the outputs not yet moved) are not overwritten. The outputs move into the slots
behind the network, which is where the candidates are. They get away with it
because a free slot and its weights come first (`first_candidate_neuron`), and the
proof of `MoveKeepsChoice` shows that they do for any number of outputs.

### Growing a list

The refinement reads `hidden` and `outputs` out of the flat arrays in every state,
with a case for the middle of an installation. `StepRefines` has three parts. A
step that touches neither the neurons nor the weights of the network stutters. A
step of the moves stutters as well, because each neuron is found with the same
weights in its new place; this needs `RangesInOrder` and `WeightsWhileMoving`.
`PlaceNeuron` is `Built!Next`, with the candidate `ChoiceInv` speaks of.

### The loops

`LoopInv` and `StagnationInv` relate `stagnation` and `target` to `history`. The
point is that a change that is not significant need not be small: `target` is set
at the last significant one, so a value can creep up to it. A value above 0 lies
within the goal it set itself if the change fraction is at most 1, which is why
`ImprovedStagnates` asks for improvement. `QuotaInv` says that the quota in force
was granted at the last significant change or is still the limit of epochs.

For ordinary training, `ArraysInv` orders the arrays: as long as no allocation has
failed, the last of those that are made together is never there alone, so that one test
for `NULL` stands for three. After a failure any of them may be missing, but those that
are left have grown with the network. `SlopesInv` says that slopes are used up outside
of an epoch, unless `refused`.
`QuickpropInv` says that a step of Quickprop's own has the sign of its slope, and
therefore a slope that has not changed is never divided by.

### Data sets

`DataInv` holds of every object and of the file. A set is well formed (`IsSet`) when
its two blocks have the length of its rows, the rows begin in them in some order,
each once, and each row with its outputs is one of the examples; a file (`IsFile`)
is a list of rows that were. "Is one of the examples" has to survive writing and
reading, so it compares what is written of each value (`Fits`), which is stronger
than the property: from the value alone the next file would not follow.
`LossesExcused` is not inductive alone: a set that `fann_destroy_train` frees must
have rows and no message (`IsHeld`). There is one lemma for each function of
`fann_train_data.c` (copying a range, merging, shuffling, swap by swap) and one for
each method. `TrainDataAssumption` says that twice the most rows fits an
`unsigned int`; without it a merge wraps.

### Building a network

`ConnectionsShared` follows from `DividedInv`: the ranges of the neurons are a `Row`,
each beginning where the one before it ends, and the range of each neuron has a
length that its kind of network allows (`Fan`). The lengths are where the arithmetic
is. The code compares what it has given out so far with `num * k \div out`, and the proof
(`Allotment`) is that after k neurons exactly that many are given out; from there a neuron gets at
most one connection more than the quotient, which is at least 2 and at most the number of sources
because of the two `fann_max`. That the totals agree takes sums over the layers.

The passes over a sparse network need `WiringInv`, which says of each layer whether
it is `Untouched`, `PartlyWired` or `Wired`. In a layer that is partly wired each neuron
has the bias in its first place, no source twice, and its free places at the end, so
that the code can tell a full neuron by its last place. The second pass takes the
sources in order: `InputsWired` says that those before `neuron_it` are used and that it
and those after it are not, so it cannot be connected twice. The bias is used because
each neuron got it first. `WellConnected` and `ReportsMatch` then hold of a network
that is done; the walk that counts destinations is followed through the layers, of
which the last may end with a bias neuron without connections, or with none.

### Files

No file operation changes the network, and `Another` is `fann_destroy`, so `FileSpec => Spec`
and all of the above holds of networks that are saved. `FileInv` relates the file to
the network in memory and what was loaded to the file, for new files, those of the two earlier
versions, and files that end anywhere. `RefusedCleanly` needs no more than that: it goes
through the outcomes of `Loading`, of which those for want of memory may lose the two lists.
`SavedIsLoaded` needs what is true of the network: `fann_create_from_fd` does not read
where connections begin but adds up how many each neuron has, which gives the same
numbers because the ranges are a `Row`; and it computes the number of inputs and outputs
from the sizes of the first and the last layer. A setting is rounded once when it is written,
and once more, to the same number, when it is written again (`Rounds`); 1.0 is a number
a file can hold (`FileAssumption`), and of the rates below it only those within half a
digit are rounded to it.

### Fixed point

`FileInv` also says that a file in fixed point is `FixedFile` of the network in memory.
`1 << n` is a fold (`TwoTo`), from which follows what is needed of powers, by `DataInduction`:
each doubles the one before, exceeds its exponent, and exponents add up. So the loop of
`fann_save_to_fixed` ends, and the b bits it counts hold the sum of the weights of every neuron
(`BitsHoldWeights`). The code sets no bit aside for rounding, and a neuron with very many
weights, each rounded up, might overflow; it does not, because a weight below half a unit
becomes 0, so that none more than doubles (`FixedIsClose`). With 2d + b at most
two less than the width, the sum of the exact products is less than a quarter of what
the width counts to, and that of the rounded ones less than half, which leaves the sign
(`ProductsFitTheInt`). The hypothesis `TwoBitsAreLeft` is about the other case: weights
that take all bits but one get the decimal point 0, which does not help any more. The run
meets the hypothesis in every file it writes.

### Running and training a pattern

`PropagationSpec => Spec`, so a network that is run is one that `NetworkCreation`
built, and what is proved of those is there to use: `LayersInARow` and
`ConnectionsInPlace` are what the loops need of it, that connections of a neuron come from
neurons before it, by position if the network is fully connected and by pointer in
any case. Assumed are the constants of `Propagation` (seeds, an integer rate and momentum)
and those of the modules below.

The properties speak of one step, and the invariant says what the steps before have
left: between operations weights and slopes are integers, a network that
`ran` has the values of a run of its weights (`HasRun`), and the errors are the
differences of the outputs after `fann_compute_MSE` and `HandsBack` after
`fann_backpropagate_MSE`. Without the last, `fann_update_slopes_batch`
could multiply any errors with any values.

- *A run is unique.* A step reads only neurons before it, so two functions that
  both obey the steps are equal (`RunsAgree`). The code's loop, unrolled by four
  and by position or by pointer, is one; the reference over the connections on record is the other.
- *The derivative.* `Gradient` is a difference of errors of two runs, one weight
  apart. In a linear network the difference of the runs obeys the steps
  too, with the value at the source of the weight as the only thing that is
  put in (`HandsOn`). Backpropagation is the same sum the other way round:
  `BackIsForth` exchanges the two sums over connections, so a change measured
  where it begins, by the errors there, is the change measured at the outputs. The
  loop over the layers keeps `BackInv`: what is behind a layer has handed back
  all it has, what is before has it still to come, shortcuts included.
- *Incremental training* adds, for each neuron, what the derivative says, if the network is fully
  connected. In a sparse one it does not (`sparse`), and `IncrementalFollowsGradient`
  says so.

### Epochs of candidates

Here too, every step is one of network creation or leaves the structure alone.
`CandInv` says that the weights and last slopes are integers on every
connection of the network and every slot of a candidate, that slopes are 0
between epochs, which makes the ones an epoch sums up its own, and that there are no candidates
before there is a shortcut network.

`ScoreIsErrorRemoved` compares what the code sums up over patterns and outputs, with the
sign of the error turned and the outputs numbered from the candidate's side, with the
error of a network of which the candidate is a part. Both are sums of squares of the same
numbers, once they are exchanged (`DataInduction`). `EpochsFollowError` needs the
derivative of the error by one weight for three kinds of weights: of the outputs and from
the inputs into a candidate it is -4 times the slope the code has, from a candidate to an output -2
times. The factors differ, the sign does not, and the rule goes by the sign
(`MovesAgainstRise`). The candidates that come later in the array are not touched
because their slots are apart.

### Scaling

The proofs begin with the numbers, because the model computes with reduced fractions. A
number is the fraction of least denominator (`LowestTerms`), so two fractions with
the same cross products are the same pair (`SameNumber`); from this follow the laws
of addition and multiplication, and the order. A division by zero stays in every result
(`NaNStays`).

`DescaleUndoesScale` is not inductive: it speaks of a column that has been scaled as
often as descaled, and says nothing of those on the way. `ScalingInv` says of each place
that its column lies on an `Orbit`: a row of columns around the one the parameters were set
for, each the scaled one of the one before it and the descaled one of the one after it.
A step moves along the row, or makes it longer at one end, which is possible because
scaling and descaling undo each other for every number, and for what is no number any
more. A place with the default parameters has its column unchanged, and a place that is
fitted has the parameters of its column; both depend on which call fitted, cleared or
allocated what, and for which side.

`FittedRange` follows from how sum, mean and variance of a column change when a number is added to
each row, or each row is multiplied (`SumsChange`, `MeansChange`, `VariancesChange`):
the mean goes to 0, to 1, to half the range, to its middle. That the deviation
is half the range at the end takes the root of the square of a half, which is exact
because an odd number has an odd square (`RootOfHalf`). For `RangeReached` the factor is
not negative, and the least and the greatest value of the block, in whichever column they
are, come out at the ends, so nothing between is cut off.

### Induction

The library's induction theorems take a predicate, which the installed provers
cannot instantiate. `DataInduction` states induction with sets instead (what holds
for 0 and for the next number holds up to n: the numbers it holds for are a set that
is given), and the folds of the community modules are unfolded with functions on
subsets: `FoldExists` shows that the function a fold chooses exists and takes one
step at a time. Rows joined one by one and swaps done one by one are proved from it,
and so are sums: `SumFunction` adds in an order of its own choice, and the lemmas show
that the order does not matter, that a sum over a range grows by its last term, that
a sum can be split by what its terms belong to, and that two sums can be exchanged.

### Only model-checked

- `Terminates`, `TrainingEnds` and `RandomDrawsEnd`: they need fairness, which is
  out of the prover's reach.

## 5. Not modelled, and what comes next

Not modelled:

- Activation functions and error functions other than linear: formulas on floating
  point numbers without state. `Propagation` uses the linear ones, so rounding is
  left out, and with it whether a training converges.
- Testing (`fann_test`, `fann_test_data`): a run and an error without an update;
  their effect on a running cascade training is `CallerTests`.
- Quickprop in the epochs of `CandidateTraining`, and the other activation
  functions of candidates.
- The integer build beyond the conversion: the same loops with shifts.
- Class `neural_net` of `fann_cpp.h`, which forwards each call, the Python
  bindings, examples, benchmarks and build files.
- Write errors: `fann_save` and `fann_save_train` check none, so a file may be
  incomplete after a call that reported success; `NetworkFile` has such files.
- A file cut off inside its last number, which is loaded with a shorter number.
- The error log, a stream of the caller.

Next would come the weighted sums of the integer build, whose shifts round each product,
and the other activation functions, as functions of which only the sign of the derivative is known.
