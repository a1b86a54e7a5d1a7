----------------------------- MODULE CascadeNet -----------------------------
(***************************************************************************)
(* What growing a network by cascade training promises, with no word about *)
(* memory: hidden neurons are only ever added, each with the input weights *)
(* of a trained candidate, and every output neuron keeps the weights it    *)
(* has and gets one more, from the same candidate.                         *)
(***************************************************************************)
EXTENDS Naturals, Sequences

CONSTANTS
  NumOutput,
  InitialOutputs,   \* the output neurons as they were created
  Pairing(_)        \* which of the candidate's output weights an output gets

VARIABLES
  candidates,  \* the trained candidates on offer, which come and go
  hidden,      \* the hidden neurons, oldest first: [kind, weights]
  outputs      \* the output neurons: [kind, weights]

Init == hidden = <<>> /\ outputs = InitialOutputs

Install(c) ==
  /\ hidden' = Append(hidden, [kind |-> c.kind, weights |-> c.inputs])
  /\ outputs' = [j \in 0 .. NumOutput - 1 |->
       [outputs[j] EXCEPT !.weights = Append(@, c.outputs[Pairing(j)])]]

Next == \E c \in candidates : Install(c)

Spec == Init /\ [][Next]_<<hidden, outputs>>
=============================================================================
