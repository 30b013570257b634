# MicroGrad in TLA+

MicroGrad is a small automatic-differentiation library: a C++ core that records
the operations of a forward pass as a graph and sweeps it backwards, with a
Python package on top. This directory holds TLA+ models of that core, of the
tracing and training built on it, and of its files; the TLC configurations that
check them on small instances; and proofs, checked by TLAPS, of the main
invariants for all values of the constants.

Paths below are relative to `src/`, the root of the repository; `core/` stands
for `src/src/core/`, `python/` for `src/python/micrograd/`, and `bind/` for
`src/src/python/`.

## 1. The system and its parts

| part | code | state | operations |
|---|---|---|---|
| Autograd engine | `core/autograd.cpp`, `core/ir.cpp` | `Graph`: nodes with ids of inputs, cached inputs and outputs, `output_id`; during a pass the order, the gradients by node, the reference counts | `add_node`, `reverse_order`, `compute_refcounts`, `backward` |
| Tracing | `core/op_registry.cpp`, `core/active_fn.cpp`, `core/tensor.cpp`, `bind/py_tensor.cpp`, `bind/py_function.cpp`, `python/function.py`, `python/transforms/grad.py` | thread-local `Tracer` (recording, graph, function), the active Function, Functions on the heap, per-tensor `requires_grad`, grad tensor and the raw pointer and node id of its producer | `run_op` (through pointers, by value), entering and leaving a Function, `no_grad`, `requires_grad_`, `Function.backward`, `Tensor.backward`, `grad` |
| Function in C++ | `core/function.cpp` | graph, parameter ids, input ids; Scopes, which save the tracer | `enter`, `capture`, `apply`, `backward`, `grad`, `vmap`, `jit`, `pmap` |
| Op registry | `core/op_registry.cpp`, `core/op_kernels.cpp` | map from (name, dtype, device) to Ops behind a mutex | register, find, list, `init_cpu_ops` |
| CPU kernels | `core/op_kernels.cpp`, `src/src/kernels/cpu/` | none between calls, float arrays within one | forward and backward of each op |
| Modules, losses, vmap | `core/{linear,softmax,conv2d,module,loss}.cpp`, `python/nn`, `python/transforms/vmap.py` | parameters by name | `forward`, `parameters`, `state_dict`, `load_state_dict` |
| Optimizers and loop | `core/{optimizer,sgd,momentum,adam}.cpp`, `python/train/loop.py`, `python/transforms/jit.py` | parameters, velocities, moments, step count; the cached call of `jit` | `step`, `zero_grad`, `set_lr`, `train`, `jit` |
| Serializer | `core/serializer.cpp` | a JSON file for a graph, one file per tensor content, one for an optimizer | `save_function`, `load_function`, `save_blob`, `load_blob`, `save_optimizer`, `load_optimizer` |

How they interact. A tensor op of Python reaches `run_op` with pointers to its
tensors; a C++ layer or loss calls it with values. `run_op` asks the thread-local
tracer which graph is recording, adds a param node for every tensor that needs a
gradient and is not in that graph yet, calls the forward kernel and appends the
op node with its caches. `backward` runs over that graph, calls the backward
kernels and copies the gradients into the grad tensors of the param nodes, which
those share with the user's tensors. Optimizers read them through the modules'
parameters. `apply` looks each op of a graph up in the registry again and runs
it on other values; the serializer writes and reads the graph.

There is one thread of control (Python holds the GIL, no kernel starts a
thread), so the hard behaviours are not races. They are *orders of legal calls*:
contexts nested, left, re-entered and released while tensors that point into them
live on; a backward repeated, with another loss, or interrupted by an exception;
caches released by a count; addresses reused by the allocator; evaluation, freezing
and loading between the steps of an optimizer; ops replaced between a capture and a
replay; processes that die while a file is being written; shapes on the border of
broadcasting.

What makes each part correct:

- engine: the order is topological and complete, a kernel runs on a complete
  gradient with its caches alive, and the leaves hold the derivatives or none is
  touched;
- tracing: every recorded edge leads to the node of the tensor that was used, the
  entered Function is the one that records, the program finds in its own tensors
  the gradients of what it computed, and finished graphs stay apart;
- Function and registry: a replay computes what the program would compute on the
  bindings with the ops that are registered now, it returns when all inputs were captured (unless a backward
  released some), and the tracer is afterwards what it was;
- kernels: forward is the function the op is named after, backward is its derivative,
  on all broadcastable shapes, also through the losses and layers;
- training: a step uses the gradients of one loss only (its own, unless a backward threw in that
  graph), frozen parameters stay, and the weights are where the textbook update puts them;
- serializer: a whole file restores its graph, and a file cut behind the first brace of the node list is never
  taken for a smaller one (cut before it, it loads as a graph of no nodes, section 5); a content hash never
  yields the data of another tensor.

`PROJECT.json` lists all parts and, under `hazards`, the lines where each of
these can go wrong.

## 2. Modules and how they correspond to the code

| module | models |
|---|---|
| `IRGraph` | `ir.hpp`: a graph as a sequence of nodes, and derivatives along it, defined forwards |
| `LeafGradients` | abstract specification: what a call of backward promises |
| `Autograd` | `backward`, `reverse_order`, `compute_refcounts` step by step |
| `Tracing` | tracer, Functions, `run_op`, contexts, `requires_grad_`, the grad transform, both ways to call backward |
| `Replay` | the C++ interface of Function: Scopes, `apply`, the copying transforms, save and load, with the op registry |
| `Broadcasting` | shapes, strides and offsets; a reference for them on coordinates |
| `FloatArithmetic` | the numbers that kernels and optimizers are run on |
| `KernelOps` | forward and backward of every op of `init_cpu_ops`, offset by offset |
| `Compositions` | losses, Linear, operators with a number as lists of ops; Softmax modules, axis reductions and vmap, which are not recorded |
| `Kernels` | a call of any of these, with its backward, and the reference it is compared with |
| `Training` | the loop, the three optimizers, jit, freezing, state dicts, checkpoints, restarts |
| `Serializer` | graph files and blobs, with crashes and full disks |
| `Ranks` | the elements of a set of positions in ascending order, as the loops of `run_op` meet them |
| `AutogradProofs`, `TracingProofs`, `ReplayProofs`, `TrainingProofs`, `SerializerProofs` | theorems about the module each is named after; the first also shows that `Autograd` implements `LeafGradients` |
| `KernelProofs` | theorems about `Broadcasting`, `KernelOps` and `Kernels` for tensors of every shape |
| `LeafProofs` | that a first pass puts into the program's leaves, and `grad` returns, what `Tracing` calls the true derivative |
| `DataLemmas` | induction over numbers and finite sets, existence of recursive functions, sums over sets, remainders, ranks, sequences: what the other proofs keep needing |
| `MC*` | small instances |

How they compose. `Autograd` implements `LeafGradients` (the property
`LeavesHoldDerivatives`); `Tracing` and `Training` take the engine as `LeafGradients` has it, a pass that
assigns derivatives to the leaves or throws and assigns none. `Tracing` and `Replay` share the graphs of
`IRGraph`. `Kernels` runs `Compositions` over `KernelOps` over `Broadcasting`.

Conventions. An id in a model is the C++ id plus one, and `NoNode` = 0 is the
placeholder -1. An operator named `X_Fault` is `X` with a plausible bug; nothing in
a specification uses it, and `PROJECT.json` names the property that fails when it
takes the place of `X`.

### Autograd

Each iteration of each loop of the code is an action. `BackwardCall` and
`BackwardReturnsEarly` are the entry of `backward`; `DfsRoot`, `DfsSkip`,
`DfsDescend` and `DfsFinish` are the four things that happen in `reverse_order`:
`stack` holds the calls of its recursive lambda that have not returned, each with the input
its range-for has come to. `StartSweep` reverses the order and computes
the counts; `SweepSkip`, `RunKernel`, `SkipInput`, `AccumulateInput` and
`NodeDone` are the sweep; `CopyToLeaves` is the last loop. `BackwardThrows` is an
exception from a kernel or from adding gradients of different shapes.
`RunKernelOnReleased` is a kernel that indexes a cleared cache: undefined
behaviour, after which the process is gone or has computed one of `Garbage`.
Between calls `RecordParam` and `RecordOp` append nodes.

Tensor data is abstracted to integers: an op has one partial derivative for each
input position (`Partial`), the seed of a pass is 1 and its gradients are integers. What the engine
does with gradients is adding and passing on, which integers tell apart when the
partial derivatives are different. The inputs of recorded nodes are any earlier
nodes or none, so that the same tensor in two places, diamonds, and parts
that do not reach the output all occur. Ops in `ForwardOnly` were registered without a
backward kernel, such as an argmax: the sweep passes over their nodes (`HasKernel`), nothing counts for a kernel
of their own, and they are what a count of 0 releases. To `LeafGradients` the result of such
an op is given, like a leaf that nobody asks about.

### Tracing

`heap` maps addresses to Functions and `live` tells which exist; a tensor's
`producer` is an address and an id, as the raw pointer in the code is, so that a
Function put at a released address inherits the tensors of the old one. The
tracer is `recording` and `function`, `active` is the global of `active_fn.cpp`.
`RunOp` is the whole of `run_op`: registration of leaves (`Registered`),
grad tensors that are made or shared (`NewGrads`, `GradOf`), the op node, and the
Function it starts when none is active. `SetRequiresGrad` is `requires_grad_`,
which lets the grad tensor go. `GradTransformBegins` and `GradTransformEnds` are the
two ends of a call of `grad(f)(x)`, with whatever f does between them. `Programs`
says what kinds of calls a user program makes and how many; a behaviour starts by
choosing one of them. `tape`, `of` and `serial` are history variables: what the program
computed, independent of what was recorded about it.

### Replay

The value of a tensor is the term that was evaluated: the implementation that ran and
its arguments. `Captured`, `CapturedInNew` and `NotCaptured` are `run_op`; `Enter` and
`Leave` are a Scope and its destructor; `BackwardOf` is what a backward sets and releases in a graph
(`Released`); `Apply` is one call of `apply` with each of its endings (`Endings`), of which a kernel without
inputs ends the process. `Register` and `InitOps` replace ops between them.

### Kernels

A behaviour is one call: `Forward` once for each op, or `Throw`, then `StartBackward` and
`Backward` once for each op, the last first, as the steps in which `run_op` and the engine
use the kernels. Kernels are translated offset by offset, with the code's strides,
divisions and skipped iterations. The numbers are the integers modulo a prime
with a NaN: a field, in which sums of products and quotients are exact and a lost or
misplaced term shows; rounding, overflow and order of summation are not
modelled. `Exp` and `Log` are powers and discrete logarithms of a generator of the field, which have
the laws the ops rely on, and comparisons are those of the residues. Inputs are
different and nonzero at every offset. The reference works on coordinates and never on
strides: broadcasting by projecting positions, rows, products and correlations by their
definitions, derivatives by slopes, or by the change of the loss when one element
grows by one (ops linear in each input).

### Training

A parameter is one number, since the optimizers treat elements alike. `ZeroGrad`, `Forward`,
`Backward` and `StepBegins` to `StepReturns` are an iteration of `train`, `step()` with one action per turn
of its loop. `here` are the parameters that are nodes of the graph in the tracer, `shared` those whose grad
tensor the node still shares. Around the iteration come `Evaluate` (a forward pass
that nobody differentiates), `Freeze`, `Unfreeze`, `SetRate`, `LoadStateDict` (which may stop half way), `BackwardThrows`,
`SaveCheckpoint` and `Restart`. After a backward that threw the graph stays in the tracer with its `output_id`, here
`root`: later losses join it, and a later backward starts from the loss that failed (`StartsFrom`), and may throw
again or return. `own`, `origin`, `taken` and `iterations` are history.

### Serializer

The JSON text is a sequence of tokens, cut where `load_function` searches for
something. Streams are buffered and not checked, so a save that stops leaves any prefix
(`WriteToken`, `WriteElement`, `SaveReturns`), of a blob perhaps with a part of its last number
(`TearElement`, where `Leading` is what such a part reads as); `Restart` keeps the files only.
`After` keeps the code's arithmetic at the end of the search: `npos + 1` in an `int`
is 0, and the scan begins again.

## 3. What is checked

Runs that pass:

| run | instance | shows |
|---|---|---|
| `Autograd_graphs` | every graph of up to 4 nodes over a two-input op with one call; of up to 3 nodes growing between 2 calls, with an op that reads its cached outputs, one without a backward kernel and one that may throw | the order is topological, gradients are final when used, counts are the remaining uses, no first pass reads a released cache, leaves hold the derivatives or are untouched |
| `Tracing_programs` | 3 addresses; five kinds of programs of 3 or 4 tensors, 2 or 3 Functions and 1 or 2 calls: re-entering, releasing, by value, `no_grad` and exceptions; nesting with releasing or by value; `grad`, alone and with `requires_grad_` | edges are those of the program; what is entered records unless with-blocks are nested; gradients arrive in the program's tensors and in what `grad` returns; graphs started by `run_op` stay apart |
| `Replay_apply` | 4 tensors in one Function, 3 in two; two implementations to register, one without backward, one that may throw; scopes two deep | what `apply` returns is the program run again, it returns when everything was captured and not released, and the Function of the scope records afterwards |
| `Kernels_reference` | pairs of shapes of up to two axes of extent 0 to 3, and up to three axes of extent 1 and 2; images 2x3 and 3x3 with 1 or 2 channels and batches, kernels 1 to 3, strides 1 and 2, padding 0 and 1 | forward and backward of all ops, losses, layers, operators with a number, axis reductions and vmap agree with the reference, and calls throw exactly when they should |
| `Training_loop` | 2 parameters, one possibly listed twice; every optimizer; up to 3 steps and 3 other events, together 5 for SGD with momentum and 4 for the others (`Bounded`) | a step uses the gradients of one loss, weights follow the closed form of their gradients, frozen parameters stay |
| `Serializer_torn` | 3 graphs, 3 tensors, saves cut anywhere, restarts | loads give the whole graph, or no node of a file that has none; whole files restore every node and their loads come back; blobs are not mixed |

Runs that end in a violation of what a comment or a document says:

| run | instance | what is violated |
|---|---|---|
| `Autograd_startsFromLoss` | 3 nodes, 2 calls | a second call starts from the first loss |
| `Autograd_storageFreed` | 3 nodes, 1 call | cached inputs are never freed |
| `Tracing_nested` | 2 addresses, nesting only | leaving an inner Function stops the outer one from recording |
| `Tracing_reuse` | 1 address, 2 Functions | a tensor of a released Function is taken for one of the new Function |
| `Kernels_divisor` | the divisions of `Kernels_reference` | the gradient of a repeated divisor is not the derivative |
| `Training_jit` | as `Training_loop`, 1 event | a training step wrapped by `jit` trains once |

Why the bounds are enough. Four nodes hold a leaf used twice by one op, a diamond
(leaf, two consumers, join), and a part beside the output; these are the shapes
in which order and counts can go wrong. What concerns repeated calls needs one node of each
kind. Two Functions and two calls are the least in which one graph can
disturb another; four tensors hold two leaves and two results of them. A replay needs two leaves
and an op to confuse bindings, a second op to release the inputs of the first, and a second Function for
tensors of another graph. Broadcasting treats an axis by whether it is missing, 1, equal or different, and
the runs have all combinations on three axes, with extents 0 to 3 on two. In training, two
parameters tell a loss that uses one from a loss that uses both, three steps separate the
powers of a momentum, and two events are a freeze and an unfreeze, an evaluation and an
exception, or a checkpoint and a restart. `MaxLoaded` is above the number of
nodes of every saved graph. Every property of a passing run has a mutant, a changed
definition that breaks it.

`Garbage` is empty in the runs of `Autograd`: a kernel that reads a released cache kills the
process there. A build in which such a read goes unnoticed puts anything at all into the leaves,
and `LeavesHoldDerivatives` would fail for second passes over a softmax (section 5). Of the theorems only
`DerivativesCorrect` depends on this choice, and says so.

The bounds are all named: `MaxNodes`, `MaxCalls`, `MaxTensors`, `MaxFunctions`, `MaxScopes`, `MaxLoaded`,
`MaxSteps`, `MaxEvents` and those of `Programs` are in guards, and the `Bounded` of `MCAutograd`, `MCReplay` and
`MCTraining` is a state constraint that leaves out the combinations of both bounds at their
largest. Deadlock is checked for `Serializer`, whose process can go on from every state but exhausted memory,
where `Restart` follows; the other programs may stop at a bound.
Addresses are interchangeable, and `Tracing` runs with that symmetry, with safety properties
only.

Fairness. Only `Serializer` states fairness, `WF_vars(LoadNode \/ Exhaust \/ LoadReturns)`: a load is a loop of
the calling thread, which nothing else can hold up. `WholeFilesReturn` uses it, and nothing else does. Nothing is assumed of
the user, who need not save, record or call anything. That the loops of `backward` end needs no property of its own: they are
range-for loops over containers that nothing changes meanwhile, and a recursion that marks each node before it descends.

`LeavesHoldDerivatives` is the refinement of `LeafGradients` by `Autograd`. The abstract root is `output_id` and a
call is pending while `pc` is neither idle nor crashed. Derivatives are defined forwards there (from the leaf to later
nodes) and accumulated backwards here.

What the main properties leave out, because the code is known to be otherwise there (section 5):

- `LeafGradsComplete`, `GradTransformRight`: leaves that were passed by value, leaves that
  `requires_grad_` took a grad tensor from, programs in which kernels throw, and Functions that were interrupted by
  another one between two of their ops, in which a leaf has two nodes (`core/autograd.cpp:99`). The second
  also leaves out functions that enter a Function of their own: a backward in there may leave its gradient in x.
- `UnnestedRecords`: programs that enter a Function inside the context of another.
- `ReplayIsForward`: tensors that are a leaf and a result of one graph, or twice a leaf. `ReplayReturns`:
  inputs that need no gradient, and loaded graphs; and it allows one more ending than a return and a kernel that throws, at
  the released inputs of an op without a backward kernel whose result an op with one uses (`core/function.cpp:86`).
- `StepsUseOneLoss`: which loss it is, after a backward that threw in the same graph; and whether a gradient arrives, for a
  parameter frozen since its node was made.
- `LoadsAreAllOrNothing`: a file cut before its first node, which comes back as a graph of no nodes (`CutBeforeNodes`).
  `WholeFilesLoad`, `WholeFilesReturn`: files that were cut.
- `WeightsFollowGradients`: under Adam, a parameter that missed a step or was moved twice in one.
- `ScopeRecords`: after a kernel that throws under `apply`, until the scope is left.

## 4. What is proved

For every set of ops, all partial derivatives, every graph and any number of calls (`AutogradProofs`):

- `TypeCorrect`: `Spec => []TypeOK`.
- `OrderCorrect`: `Spec => []OrderIsTopological`. The invariant is not inductive;
  `OrderInv` adds `DfsInv`, what the search keeps while it runs: a visited node is on
  the stack or in the order, the stack descends strictly along ids, the inputs a
  frame has passed are visited, the order has no repetitions, lists
  the inputs of each of its nodes before it, and contains the roots already started. When
  the stack is empty and the roots are done, this makes the order complete, and its reverse
  topological. The descent along ids, which is what excludes a node met again below itself,
  rests on `Recorded`: inputs are earlier nodes.
- `GradFinalCorrect`: `Spec => GradFinal`, from the order: an accumulation goes to an
  input of the current node, which the order puts later.
- `RefcountsCorrect`: `Spec => []RefcountsAreRemainingUses` (a count is the remaining uses, and one more for a node that has
  a kernel of its own), by itself inductive over the order:
  an accumulation takes exactly one use from the set of remaining uses
  (`AccumulateUsesOne`), and every other step takes none.
- `CachesCorrect`: `Spec => []KernelReadsLiveCaches`. Since the count of a node with a kernel is one above
  its remaining uses, it never reaches 0 (`NothingReleased`): the cached inputs of such a node
  are never released at all, and its cached outputs only by its own turn. `CacheInv` says
  so. The theorem is thus also the reason why `StorageIsFreed` fails.

and, about the whole of a call:

- `DerivativesCorrect`: `NoStaleReads => (Spec => LeavesHoldDerivatives)`, the refinement, step by step. What
  makes it true is `SweepInv`, the equation of reverse accumulation: at every point of the sweep, for every leaf,
  the derivative of the root is what the gradients of the *open* nodes (leaves, and nodes whose turn is not over) are
  worth in that leaf, plus what the current kernel has returned and nobody has taken (`ChainRule`); gradients are where the
  root leads (`OnlyReached`, `AllReached`) and the others are 0. The equation starts as D = 1 * D at the seed; a
  kernel moves the term of its node into terms of its inputs, by the defining equation of `Derivative`; an
  accumulation moves one of those into the gradient of an input that is still open, which `GradFinal`'s order gives; and
  when no op node is open, only the leaf's own term is left. That `Derivative` satisfies its equation has to be
  proved first, since to the prover a recursive function is one that may not exist (`DerivativeExists`).
  `NoStaleReads` (`Garbage = {} \/ ReadsOutputs = {}`) says that no kernel computes with what is left of a cleared
  cache; the code does not guarantee it for second calls (section 5), so it is a hypothesis and not an assumption.
- `FirstCallCorrect`: without that hypothesis, every step up to the end of the first call on a graph is one of
  `LeafGradients`.

For every set of ops and addresses and all programs, of any length (`TracingProofs`):

- `UnnestedCorrect`: `Spec => []UnnestedRecords`.
- `IsolatedCorrect`: `Spec => EagerGraphsIsolated`.

  Both from `TracingInv`. The first needs to know, of all contexts the program is in, that
  each of a Function is of one that exists, that Python made and that no other context is of
  (`ContextsOK`), that an active Function is the one in the tracer (`TracerOK`), and that
  without nesting there is one such context (`NestingOK`): then a backward inside it finds the Function
  active and leaves the tracer, and a release cannot hit it. The second needs `Closed`: a Function of
  `run_op` that was differentiated is not in the tracer, which holds because `py_backward` resets the tracer
  exactly when no Function is active, and a Function of `run_op` never is.

- `TracingTypeOK`: `Spec => []TypeOK`, by `TracingInv` and `TypeInv`, also with reused addresses. That the Function in
  the tracer exists needs its reason: it is one of `run_op`, which owns itself, or it has a with-block, in which
  it cannot be released (`ControlTypes`). That grad tensors hold numbers is more than typing, since what a pass puts
  there is the value of a recursion: every node of a graph has as many inputs as its op (`OpNodes`), `Edges` sends each
  input to an earlier node, and then every value is a number (`DerivativeIsInt`, counting up the nodes). A
  recorded call of `run_op` extends nodes, cells and history of its graph by as much as each other, and makes the
  grad tensors it refers to (`RecordedTypes`, `NewGradsAre`).

For the same programs, as long as no Function is put where another one was:

- `EdgesCorrect`: `Spec => [](Does("reuse") \/ EdgesFaithful)`, by `EdgeInv`. It relates three things: the graph at an address has a
  tensor of the program for each node (`GraphOK`); a tensor whose producer is at an address is the one of its node
  there (`ProducedBy`), and none comes from an address where no Function has been; and each edge is the one the history says
  (`EdgesOK`). A recorded op extends all three: its inputs are nodes by `ProducedBy`, or were registered just before,
  in the order of their positions (`InOrderProperties`, by counting), or needed no gradient (`InputIds`, for which
  a tensor given twice is followed to its first position). With reuse `ProducedBy` fails: a tensor keeps the address
  of a Function that is gone, which is the defect that run `Tracing_reuse` shows.

And from there to the numbers, for all partial derivatives (`LeafProofs`):

- `LeafGradsCorrect`: `Spec /\ ~Does("reuse") => LeafGradsComplete`. Two recursions have to meet: the engine's runs
  over the recorded graph, the program's over its whole history. `LeafInv` adds to `EdgeInv` what makes their
  equations the same. Of the history (`HistoryOK`): the steps recorded in a Function are those of its op nodes, one each. Of a
  graph (`GraphOK`, `LeavesOK`): a tensor that was not interrupted has one node at most, and whatever needs a gradient
  and was not taken by value or dropped by `requires_grad_` shares its grad tensor with its node.
  Then, for a leaf with a node in the graph, the value of each node of the graph is the value of its tensor in the
  history (`Follows`, `DerivativeFollows`), by induction over the nodes: an edge is missing exactly where the history does not count the
  input. And a leaf of which the loss was computed has such a node, which the sweep reaches and no other node
  overwrites (`DependsOnLeaf`, `LeafIsWritten`).
- `GradTransformCorrect`: `Spec /\ ~Does("reuse") => GradTransformRight`. A pass leaves alone the grad tensors that it
  has no node for, so an x that fn did not use is right only if nothing but zero was there. `GradInv` says so of every
  with-block of `grad(fn)(x)`: x was not computed in its Function, and until that Function is differentiated the grad
  tensor of x holds nothing. `run_op` and `requires_grad_` only make grad tensors of 0, and without nesting there is no other
  Function that a backward in the block could differentiate (`PassesWait`). At the end x either has a node that the
  sweep reaches, which is written (`NodeIsWritten`), or the loss was not computed from it, and the pass leaves the 0 there, which
  is the derivative (`NothingIsWritten`, `NotComputedFrom`).

For all parameters, optimizers, lists, rates and losses, and any number of steps and events (`TrainingProofs`):

- `StepsCorrect`: `Spec => []StepsUseOneLoss`. `GradInv` follows a grad tensor: a frozen parameter has
  none; a param node shares its parameter's until that is frozen, and from then on the parameter has none
  while the node is in the tracer; between `zero_grad` and backward everything in the list is zero or missing. So
  what backward does not assign is zero, and what it assigns is of the loss it starts from. That may be a loss that failed
  earlier, whose parameters are then still nodes of the graph in the tracer: a throw is followed by other losses and
  evaluations, but only a backward that returns, or a restart, closes that graph.
- `FrozenCorrect`: `Spec => FrozenDoNotMove`, from the first part of `GradInv`.
- `TrainingTypeOK`: `Spec => []TypeOK`. The arithmetic stays in the field (`ArithmeticInFloats`, `OverInFloats`);
  `MoreTypes` adds the history variables and that a step is begun below the bound only.
- `WeightsCorrect`: `Spec => []WeightsFollowGradients`. The code accumulates (a velocity times its
  decay plus the gradient), the property has sums over the history (a gradient times a power of the decay), and
  `FollowInv` states both at every moment: the moments are the geometric sums of the gradients taken
  (`MomentsAfter`), and the weight is where the moves since it was last set lead (`Follows`; for Adam, if its step count
  has counted this parameter's moves, which section 5 says it may not). A step needs that a sum to n + 1, times the decay in
  every term, is the sum to n times the decay plus one term, modulo a prime and with NaN.

For any ops with at least one input (`run_op` throws otherwise, `core/op_registry.cpp:60`), all kernels, captures,
registrations and applies, and scopes nested to any depth (`ReplayProofs`):

- `ScopesCorrect`: `Spec => []ScopeRecords`. `SavedScopes` carries the property to what each scope will
  put back.
- `ReplayTypeOK`: `Spec => []TypeOK`.
- `ReplayIsForwardCorrect`: `Spec => []ReplayIsForward`.
- `ReplayReturnsCorrect`: `Spec => []ReplayReturns`.

  The last two compare a graph with a program that has moved on, and the invariant `DataInv` is what links them: for
  each Function there is a map from its nodes to the tensors they were made for, by which each op node has the op
  and the inputs of its tensor on the tape, an edge is missing only if the input needed no gradient, the leaves are
  the tensors of the param nodes in order, and the output is the loss (`Traces`); and a tensor that points into the
  graph is the one of its node (`Leads`). Capturing extends the map, backward leaves it alone, and `grad`, `jit`
  and so on copy the graph with it. Loaded graphs have no such map, and need none: apply stops at their
  first node (`Stuck`), unless they are empty. `OutcomeOK` says of an outcome what apply could have done (`MayEnd`), as long
  as the caller looks at it. Then `ReplayIsForward` is an induction over the nodes, at each of which
  the value of the replay is that of its tensor in the program run again; and if an apply of a complete capture did not return,
  an edge would be missing, so that a tensor computed in the graph would need no gradient; the first such
  tensor would have inputs that are all leaves or need one, which is a contradiction, as ops have inputs. The
  released inputs are the exception that `ReplayReturns` names: only nodes without a kernel whose result one with a kernel uses are released, since a
  release needs a consumer that ran (`ReleasedByKernels`), and apply stops at no others (`OnlyReleasedStop`).

For all tensors and any interleaving of saves, loads, crashes and full disks (`SerializerProofs`):

- `BlobsCorrect`: `Spec => []BlobsAreNotMixed`. `BlobInv`: a file holds the beginning of the content it is
  named after (`BlobsOK`), the rest of which is in the stream while it is written (`StreamOK`), a
  hash stands for one content (`HandlesOK`), and so a load finds a beginning of it (`ReadOK`). The last number of a file may be
  cut (`Remains`); nothing is appended to it, since the stream that failed writes no more.

For all graphs, as many as fit into memory (`Len(g.nodes) <= MaxLoaded`: those that are saved were there):

- `LoadsCorrect`: `Spec => []LoadsAreAllOrNothing`.
- `WholeFilesCorrect`: `Spec => []WholeFilesLoad`.
- `SerializerTypeOK`: `Spec => []TypeOK`.

  By `GraphInv`. The file is a beginning of the tokens of the last graph saved and the stream holds the
  rest (`FileInv`). The file is flattened from one sequence for each node, so the position of every token
  is computed first (`FileKeys`). A scan of a whole file is always at the object behind those it has restored (`WholeScan`);
  a scan of a torn one never gets past the object that nothing closes, where it starts again (`TornScan`), and so never
  returns, until memory is exhausted, which is the defect of section 5. Only a torn file in which no object begins is
  scanned to its end, at once, and gives a graph of no nodes (`LoadedOK`).

For tensors of every rank and all extents, 0 and 1 included, and every prime (`KernelProofs`):

- `ReadsInRange`, `ReducesWhereRead`, `ShortcutsAgree`: about the loops of an elementwise op alone. The forward
  reads inside both arrays; the reduction of a gradient, which is another loop, adds each element to the one
  the forward read for it; and the shortcuts for equal shapes and equal counts agree with the loops they replace.
  The quotient of an offset by a stride, modulo the extent, is the coordinate on that axis; an axis that is repeated
  contributes nothing in either loop; and a repeated axis makes the count smaller unless the output is empty.
- `ForwardsAreRight`: `Spec => [](call.op \in Direct => ForwardIsRight)`, where `Direct` is the five elementwise ops, the
  unary ones, `softmax`, `sum`, `mean` and `matmul`. The reference is on coordinates, the code on offsets; between them is
  `OffsetIs`, by which `OffsetOf` is the row-major sum, stays in range and has the coordinates as its quotients. That
  rests on the order of positions by their first difference (`PositionsOrdered`, `BeforeIsBelow`). With it, `ReadsProjected` says that the
  operand's offset is that of the projected position, and `BroadcastIs` that the shape computed by the code is the one
  that both operands are repeated to. Of softmax, the offsets that the loop over a row visits are those of the
  positions that differ in the last coordinate only (`RowLine`), and shifting the row by its maximum multiplies every exp
  and the total by the same number, which the division cancels (`ShiftedRow`, by `ExpAdds`). `CallInv` carries the rest: what a call has computed is its op of what it was given.
- `GradientsAreRight`: `Spec => [](call.op \in Direct => GradientsAreDerivatives)`. `GradsInv` says which gradients have
  arrived; what they are is one lemma for each kind of op:
  - An elementwise backward reduces an array that has at every element of the output the seed times the partial
    derivative there (`Reduces`, from the laws of the field for each op). What the reduction leaves at an element is
    the total over the offsets that the forward read it for (`ReducedIs`, by `ReducesWhereRead`), and renumbering offsets as
    positions gives the sum of the reference.
  - The kernels of sigmoid and tanh compute the slope from the output, the reference from the input, with `exp` and
    divisions. The two agree where the divisor is not 0, by inverses: x^(P-2) inverts x because the powers of
    the generator reach every number but 0 (`GeneratorAssumption`), so that none of them occurs twice (`LogInverts`), they return to 1 after P - 1
    of them (`GeneratorTurns`), and every number but 0 is one (`Inverses`). Where it is 0, both are NaN.
  - `sum`, `mean` and `matmul` are linear in each input, and the reference is the change of the weighted output when an
    element grows by one. That is the total of the weighted changes (`TotalMinus`); the products that change are those of one
    row (`LeftChanges`) or column (`RightChanges`), and their total is the one that `cpu_matmul_T`, or `cpu_matmul` of the transposed
    factor, computes (`LeftOwed`, `RightOwed`).
  - What the backward of softmax leaves for an element is the total of what every element of its row owes it
    (`RowGradient`). A row that totals 0 in the field has no quotients: then both are NaN (`RowIsNumbers`).

The proofs rest on `OpsAssumption`, `AutogradAssumption`, `TracingAssumption`, `TrainingAssumption` (with the
`PrimeAssumption` and `GeneratorAssumption` of `FloatArithmetic`), `ReplayAssumption`, `SerializerAssumption` and `CallsAssumption`, each of
which TLC evaluates on a run, and on no axiom.

Inductions. The library's induction theorems take an operator as a parameter, which no installed prover can
instantiate. `DataLemmas` therefore states induction about sets: a set of numbers that contains 0 and the successor of each
of its elements contains all (`UpTo`, `AllNat`), and the same for finite sets (`SubsetInduction`), both from
well-foundedness. With the property as a set comprehension they are used like any lemma. A recursive function is first shown to
exist, by such an induction over its initial segments, and its equation then follows from CHOOSE.

Model-checked only:

- `WholeFilesReturn`, which is liveness, and the use of fairness.
- Of `Kernels`: its type invariant, and the forwards and gradients of conv2d, the losses, Linear, scalar operands, vmap and the axis
  reductions. Each is compared with a definition of another kind, over arrays of any shape, so a proof is one of arithmetic
  for each op.

## 5. Known defects of the code

With a run that shows them:

- `core/autograd.cpp:17`: `output_id` of the first call is preferred to the loss of later
  ones, although `function.py:42` says "Run backward starting from `loss`."
- `core/ir.cpp:56`: the use by a node's own kernel is never taken off, so no storage is
  freed, against `docs/architecture.md:43-45`.
- `python/function.py:38`: `__exit__` sets the tracer to None, not to what was active before.
- `core/op_registry.cpp:118`: membership of a graph is decided by an address that may be reused. So a repeated
  `grad(f)(x)` may take x for a node it was in the previous call.
- `core/op_kernels.cpp:201`: a repeated divisor is divided by zeros.
- `python/transforms/jit.py:17`: the cache ignores the values of arguments; a step wrapped by `jit`,
  as in `examples/06_jit_speedup.py`, runs once.

Met while modelling, without a run of their own.

Engine and tracing:

- `core/autograd.cpp:84`: cached outputs are cleared during the first pass, and a second pass hands
  the kernel of softmax (`core/op_kernels.cpp`) an empty vector, which it indexes. `KernelReadsLiveCaches` states for cached outputs
  what holds, the first pass.
- `core/op_registry.cpp:167`: `run_op` by value marks copies, so a leaf used only by C++ layers or
  losses has no gradient (compare `function.hpp:25-27`); the parameters of the C++ Linear never get one.
- `core/autograd.cpp:99`: a leaf with two param nodes in one graph (after another Function recorded
  between two ops of this one) gets one of its two gradients and not the sum.
- `bind/py_tensor.cpp:63`: `loss.backward()` differentiates the graph in the tracer, also if it is
  not the graph of the loss; `:64`: an exception skips the reset of the tracer
  (`docs/stability_and_fixes.md:18`), so that later losses join the graph that failed and their backwards start from the
  failed loss (`core/autograd.cpp:15`): when such a backward returns, the leaves hold the gradients of the failed loss, and
  the next `step` uses them; `:76`: after the with-block it does nothing, since only
  `run_op` sets an owner (compare the comment at 71-74), and reads freed memory when the Function is gone.
- `core/tensor.cpp:43`: `requires_grad_(False)` and `(True)` while the parameter is a node of a graph leave its
  gradient to a tensor nobody holds, and `step` silently skips the parameter.
- `core/op_registry.cpp:107`: a Function made by `run_op` owns itself and is never released.
- `python/transforms/grad.py:31`: results are the grad tensors that the next call overwrites; of the identity the
  gradient is 0 or an exception; `:22` zeroes x before the call only, so a function that enters a Function of its own and calls
  backward there may leave that gradient in x.

Function and registry:

- `core/function.cpp`: nothing fills `input_ids`, so `apply` throws "missing live input" for every op with a
  data input that needs no gradient (compare `function.hpp:21-22`); before a backward it returns nothing, since
  only backward sets the output; a loaded graph throws or calls kernels without inputs; `:86`: `apply` counts the
  inputs of an op by its `cached_inputs`, which a backward releases for an op without a backward kernel whose result
  one with a kernel uses (`core/autograd.cpp:78`), so a later `apply` calls it with none, against `function.hpp:21`, "Run the captured
  forward again" (`Replay_apply` reaches it, as the ending "no inputs"); dtypes and shapes of bindings are not
  checked; `:95`: a kernel that throws leaves recording off and the Function in the tracer.
- `core/function.cpp`: `grad`, `vmap`, `jit` and `pmap` of a Function only copy its graph.
- `init_cpu_ops` replaces ops that the user registered under built-in names, though `op.hpp:14` calls it idempotent;
  `core/op_registry.cpp:42`: a pointer from `find` is used after the lock is released, which only the GIL makes safe.

Kernels, layers, vmap:

- `core/op_kernels.cpp:439`: division rounds towards zero, so a kernel one larger than the padded
  image is accepted under a stride of 2 or more; `:368`: softmax of rows of length 0 divides by zero, and so does the
  Softmax module along an empty axis.
- The Softmax modules compute outside `run_op`: no gradient passes them.
- `python/transforms/vmap.py:73`: data are stacked along axis 0 and labelled with the batch axis of the input,
  `out_axes` is ignored; a batch of 0 returns None; an argument that is shorter along the axis than the first is
  read at wrong offsets or throws.

Training and files:

- `core/adam.cpp:11`: one step count for all parameters, so the correction is too small for one that
  missed steps; a parameter that `parameters()` lists twice is stepped twice, by every optimizer.
- `bind/py_optim.cpp:23`: an optimizer holds raw pointers and keeps no tensor alive.
- `core/module.cpp:27`: a `load_state_dict` that throws has loaded a part; `:23`: `state_dict` shares storage with the
  parameters, so it is no snapshot, and that of a Sequential is empty.
- `core/serializer.cpp:168`: a file cut behind the first brace of the node list makes the scan start again for ever; `:130`: one
  cut between the bracket of the list and that brace loads without an error, as a graph of no nodes with the saved
  `output_id`; `:151`: a load drops shapes, dtypes and
  parameter ids (compare `serializer.hpp:14-16`); `:46`: saving
  a content again truncates a good file first, and short files read as zeros; `:176`: of an
  optimizer only the learning rate is saved, with six digits (compare `serializer.hpp:26`), and a file cut short reads as
  another rate or 0.

## 6. What is not modelled

- In `Autograd`: the C++ stack that the recursion of `reverse_order` takes (`core/ir.cpp:31`, one call for each node of
  a path), which a long chain of ops may overflow; the shape of the seed; edges to later nodes, which only a stale id of a reused
  address makes (`Tracing` stops there: `NoForwardEdge`).
- In `Tracing`: `grad` of several arguments, `Tensor.zero_grad`; the `Ops` are of one kind, since
  registration does not depend on the op.
- In `Replay`: attributes and documentation of ops; ops for another dtype or device, of which there are none; the mutex, since one
  thread at a time holds the GIL; kernels that re-enter the tracer.
- In `Kernels`: rounding, overflow and the order of float sums, so nothing is said about accuracy or about
  the `1e-12` of the losses; vmap along an axis other than the first.
- In `Training`: tensors of more than one element, random initialisation, names and nesting of modules, a model that is released
  before its optimizer, jit of a function with arguments.
- In `Serializer`: hash collisions, the escaping of names (they have no special
  characters), directories that cannot be written.
- Toy data (constant tables and random numbers); storage, devices, streams and dtypes (one CPU storage, a stream
  that does nothing, enumerations); bindings, build files, examples: no behaviour of their own that a model would add to.

## 7. Plan

What could follow, in this order:

1. Type correctness of `Kernels`, and the forward of conv2d.
