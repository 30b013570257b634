------------------------------ MODULE Training ------------------------------
(***************************************************************************)
(* Training a model: the loop of python/micrograd/train/loop.py around     *)
(* the optimizers (core/sgd.cpp, momentum.cpp, adam.cpp, optimizer.cpp),   *)
(* with what a program does between and inside its iterations: evaluation, *)
(* requires_grad_, set_lr, state dicts, checkpoints, restarts, and a step  *)
(* wrapped by jit.                                                         *)
(*                                                                         *)
(* A parameter is one number of FloatArithmetic.  The backward pass is     *)
(* taken from LeafGradients: it assigns the derivative of its loss to the  *)
(* leaves the loss depends on and touches no other; the derivative is any  *)
(* of Gradients.  The forward pass runs outside a with-block, so run_op    *)
(* collects ops in a graph of its own until a backward returns.            *)
(*                                                                         *)
(* An operator X_Fault is X with a plausible bug; nothing uses it, and the *)
(* properties fail when it takes the place of X.                           *)
(***************************************************************************)
EXTENDS FloatArithmetic, Sequences

CONSTANTS
    Params,        \* the parameters of the model
    NoTensor,      \* no grad tensor, no moment
    Programs,      \* optimizers (a kind and the list parameters() gave), with jit or not
    Uses,          \* sets of parameters that a forward pass may use
    Start,         \* the value of a new parameter
    Rates,         \* learning rates the program sets, the first of them RateOne
    RateOne,
    Momentum, WeightDecay, Beta1, Beta2, Eps,
    Root,          \* sqrt: of which only Root[x] = Root[y] => x = y is used
    Printed,       \* Printed[r]: the rate r after it was written with six digits
    Gradients,     \* the derivatives a loss may have, by each parameter
    Loaded,        \* the values a state dict may hold
    MaxSteps,      \* bound on the steps of an optimizer
    MaxEvents      \* bound on what the program does beside its loop

AllKinds == {"sgd", "sgd with momentum", "momentum", "adam"}

ASSUME TrainingAssumption ==
    /\ NoTensor \notin Floats
    /\ Programs \subseteq [kind : AllKinds, list : Seq(Params), jit : BOOLEAN]
    /\ Uses \subseteq SUBSET Params
    /\ Start \in Elements /\ Rates \subseteq Elements /\ RateOne \in Rates
    /\ {Momentum, WeightDecay, Beta1, Beta2, Eps} \subseteq Elements
    /\ Root \in [Elements -> Elements] /\ Printed \in [Elements -> Elements]
    /\ Gradients \subseteq [Params -> Elements] /\ Loaded \subseteq Elements
    /\ MaxSteps \in Nat /\ MaxEvents \in Nat

VARIABLES
    weight,        \* the data of each parameter
    requiresGrad,  \* Tensor::requires_grad_
    grad,          \* Tensor::grad_, NoTensor or its number
    here,          \* parameters whose producer is the graph in the tracer
    shared,        \* those whose grad tensor the param node shares
    lossOf,        \* parameters that the last loss has an edge path to
    root,          \* the same of the loss that the last backward started from
    failed,        \* a backward threw in the graph of the tracer
    pc,            \* where the loop is
    i,             \* step(): index in params_
    program,       \* the optimizer, and whether jit wraps the iteration
    rate,          \* Optimizer::lr_
    moment,        \* velocity_, or m_ of Adam
    second,        \* v_ of Adam
    t,             \* t_ of Adam, for the others only a count of the steps
    disk,          \* the checkpoint, NoTensor or weights and a rate
    cached,        \* jit: last_result is set
    events,        \* events so far
    own,           \* history: own[p], the derivative by p of the loss that backward started from
    toggled,       \* history: parameters frozen since their graph was begun
    origin,        \* history: weight and Len(taken) when p was last written
    taken,         \* history: the moves of each parameter by this optimizer
    iterations     \* history: calls of the iteration that returned

leaves == <<weight, requiresGrad, grad>>
graph == <<here, shared, lossOf, root, failed>>
optimizer == <<rate, moment, second, t>>
history == <<own, toggled, origin, taken, iterations>>
vars == <<leaves, graph, optimizer, program, history, pc, i, disk, cached, events>>

kind == program.kind
list == program.list
jit == program.jit

Listed == {list[k] : k \in DOMAIN list}

\* The weights are w and no move has been taken from them.
Unmoved(w) == [p \in Params |-> [weight |-> w[p], from |-> 0]]

Init ==
    /\ weight = [p \in Params |-> Start]
    /\ requiresGrad = [p \in Params |-> TRUE]
    /\ grad = [p \in Params |-> NoTensor]
    /\ here = {} /\ shared = {} /\ lossOf = {} /\ root = {} /\ failed = FALSE
    /\ pc = "idle" /\ i = 1
    /\ program \in Programs
    /\ rate = RateOne
    /\ moment = [p \in Params |-> NoTensor]
    /\ second = [p \in Params |-> NoTensor]
    /\ t = 0
    /\ disk = NoTensor
    /\ cached = FALSE
    /\ events = 0
    /\ own = [p \in Params |-> 0] /\ toggled = {}
    /\ origin = Unmoved(weight) /\ taken = [p \in Params |-> <<>>]
    /\ iterations = 0

-----------------------------------------------------------------------------
(* One iteration of the loop. *)

Zeroed_KeepsUnused == grad

\* Optimizer::zero_grad: the grad tensors that exist are filled with zeros.
Zeroed == [p \in Params |-> IF p \in Listed /\ grad[p] # NoTensor THEN 0 ELSE grad[p]]

ZeroGrad ==
    /\ pc = "idle" /\ t < MaxSteps
    /\ jit => ~cached
    /\ grad' = Zeroed
    /\ pc' = "zeroed"
    /\ UNCHANGED <<weight, requiresGrad, graph, optimizer, program, history, i,
                   disk, cached, events>>

\* jit: the signature of a call without arguments is always the same, so a
\* second call returns the loss of the first one and runs nothing.
JitReturnsCached ==
    /\ pc = "idle" /\ jit /\ cached
    /\ iterations < MaxSteps
    /\ iterations' = iterations + 1
    /\ UNCHANGED <<leaves, graph, optimizer, program, own, toggled, origin, taken,
                   pc, i, disk, cached, events>>

Registered_Frozen(used) == {p \in used : p \notin here}

\* run_op registers the parameters that need a gradient and are not in the
\* graph of the tracer yet, and gives them a grad tensor if they have none.
Registered(used) == {p \in used : requiresGrad[p] /\ p \notin here}

Initialised(R) == [p \in Params |-> IF p \in R /\ grad[p] = NoTensor THEN 0 ELSE grad[p]]

ModelForward(used) ==
    LET R == Registered(used) IN
    /\ grad' = Initialised(R)
    /\ here' = here \cup R
    /\ shared' = shared \cup R
    /\ toggled' = toggled \ R

Forward(used) ==
    /\ pc = "zeroed"
    /\ ModelForward(used)
    /\ lossOf' = used \cap here'
    /\ pc' = "evaluated"
    /\ UNCHANGED <<weight, requiresGrad, root, failed, optimizer, program, own, origin,
                   taken, iterations, i, disk, cached, events>>

\* backward starts from output_id if the graph has one: from the loss of the
\* backward that threw, and from its own loss otherwise.
StartsFrom == IF failed THEN root ELSE lossOf

\* The grad tensors that the param nodes share are assigned the derivatives.
Assigned(gs) ==
    [p \in Params |-> IF p \in StartsFrom \cap shared THEN gs[p] ELSE grad[p]]

\* loss.backward() returns and closes the graph in the tracer.
Backward(gs) ==
    /\ pc = "evaluated"
    /\ grad' = Assigned(gs)
    /\ here' = {} /\ shared' = {}
    /\ root' = StartsFrom
    /\ failed' = FALSE
    /\ own' = [p \in Params |-> IF p \in StartsFrom THEN gs[p] ELSE 0]
    /\ pc' = "differentiated"
    /\ UNCHANGED <<weight, requiresGrad, lossOf, optimizer, program, toggled,
                   origin, taken, iterations, i, disk, cached, events>>

\* A kernel throws and the exception leaves the loop.  The graph stays in the
\* tracer, and with it its output_id: later losses join that graph, and a later
\* backward starts from the loss that failed.  It may throw again, or return.
BackwardThrows ==
    /\ pc = "evaluated"
    /\ failed \/ events < MaxEvents
    /\ events' = IF failed THEN events ELSE events + 1
    /\ failed' = TRUE
    /\ root' = StartsFrom
    /\ pc' = "idle"
    /\ UNCHANGED <<leaves, here, shared, lossOf, optimizer, program, history, i,
                   disk, cached>>

StepBegins ==
    /\ pc = "differentiated"
    /\ t' = t + 1
    /\ i' = 1
    /\ pc' = "stepping"
    /\ UNCHANGED <<leaves, graph, rate, moment, second, program, history, disk,
                   cached, events>>

OrZero(x) == IF x = NoTensor THEN 0 ELSE x

\* gi: the gradient with weight decay.
Decayed(g, w) == Plus(g, Times(WeightDecay, w))

Square(x) == Times(x, x)

NextMoment_Fresh(m, g) ==
    IF kind = "adam" THEN Times(Minus(1, Beta1), g) ELSE g

\* vp[i] or mp[i] after the step; a moment is made of zeros when it is missing.
NextMoment(m, g) ==
    CASE kind = "sgd"  -> m
      [] kind = "adam" -> Plus(Times(Beta1, OrZero(m)), Times(Minus(1, Beta1), g))
      [] OTHER         -> Plus(Times(Momentum, OrZero(m)), g)

NextSecond(v, g) ==
    IF kind = "adam"
    THEN Plus(Times(Beta2, OrZero(v)), Times(Minus(1, Beta2), Square(g)))
    ELSE v

RootOf(x) == IF x = NaN THEN NaN ELSE Root[x]

\* bc1 and bc2 of Adam.
Correction(beta, n) == Minus(1, Power(beta, n))

\* What the weight is moved by, for a moment and second moment of after the step.
Direction(m, v, g) ==
    CASE kind = "sgd"  -> g
      [] kind = "adam" -> Over(Over(m, Correction(Beta1, t)),
                               Plus(RootOf(Over(v, Correction(Beta2, t))), Eps))
      [] OTHER         -> m

\* A turn of the loop in step() that updates its parameter.
StepMoves ==
    /\ pc = "stepping" /\ i <= Len(list)
    /\ grad[list[i]] # NoTensor
    /\ LET p == list[i]
           g == Decayed(grad[p], weight[p])
       IN
       /\ moment' = [moment EXCEPT ![p] = NextMoment(@, g)]
       /\ second' = [second EXCEPT ![p] = NextSecond(@, g)]
       /\ weight' = [weight EXCEPT ![p] =
                        Minus(@, Times(rate, Direction(moment'[p], second'[p], g)))]
       /\ taken' = [taken EXCEPT ![p] =
             Append(@, [g |-> Decayed(own[p], weight[p]), rate |-> rate, t |-> t])]
    /\ i' = i + 1
    /\ UNCHANGED <<requiresGrad, grad, graph, rate, t, program, own, toggled,
                   origin, iterations, pc, disk, cached, events>>

\* if (!p->has_grad()) continue;
StepSkips ==
    /\ pc = "stepping" /\ i <= Len(list)
    /\ grad[list[i]] = NoTensor
    /\ i' = i + 1
    /\ UNCHANGED <<leaves, graph, optimizer, program, history, pc, disk, cached,
                   events>>

\* The call of the iteration is over; jit keeps the loss it returned.
StepReturns ==
    /\ pc = "stepping" /\ i > Len(list)
    /\ pc' = "idle"
    /\ cached' = jit
    /\ iterations' = iterations + 1
    /\ UNCHANGED <<leaves, graph, optimizer, program, own, toggled, origin, taken,
                   i, disk, events>>

-----------------------------------------------------------------------------
(* What the program does beside: at most MaxEvents times. *)

Event ==
    /\ events < MaxEvents
    /\ events' = events + 1

\* model(x_test) outside no_grad: its ops wait in the tracer for the next loss.
Evaluate(used) ==
    /\ pc = "idle" /\ Event
    /\ ModelForward(used)
    /\ UNCHANGED <<weight, requiresGrad, lossOf, root, failed, optimizer, program, own,
                   origin, taken, iterations, pc, i, disk, cached>>

AfterFreezing_Kept(p) == grad

\* set_requires_grad(false) lets the grad tensor go.
AfterFreezing(p) == [grad EXCEPT ![p] = NoTensor]

Freeze(p) ==
    /\ pc # "stepping" /\ Event
    /\ requiresGrad[p]
    /\ requiresGrad' = [requiresGrad EXCEPT ![p] = FALSE]
    /\ grad' = AfterFreezing(p)
    /\ shared' = shared \ {p}
    /\ toggled' = toggled \cup {p}
    /\ UNCHANGED <<weight, here, lossOf, root, failed, optimizer, program, own, origin,
                   taken, iterations, pc, i, disk, cached>>

Unfreeze(p) ==
    /\ pc # "stepping" /\ Event
    /\ ~requiresGrad[p]
    /\ requiresGrad' = [requiresGrad EXCEPT ![p] = TRUE]
    /\ UNCHANGED <<weight, grad, graph, optimizer, program, history, pc, i, disk,
                   cached>>

SetRate(r) ==
    /\ pc = "idle" /\ Event
    /\ rate' = r
    /\ UNCHANGED <<leaves, graph, moment, second, t, program, history, pc, i, disk,
                   cached>>

\* load_state_dict copies entry by entry and throws at the first that does not
\* fit: it writes some entries, all of them or not.  (A dict that state_dict
\* returned shares the data of the parameters, and copies them onto themselves.)
LoadStateDict(entries, w) ==
    /\ pc = "idle" /\ Event
    /\ weight' = [p \in Params |-> IF p \in entries THEN w ELSE weight[p]]
    /\ origin' = [p \in Params |-> IF p \in entries
                                   THEN [weight |-> w, from |-> Len(taken[p])]
                                   ELSE origin[p]]
    /\ UNCHANGED <<requiresGrad, grad, graph, optimizer, program, own, toggled,
                   taken, iterations, pc, i, disk, cached>>

\* A blob for each weight, and save_optimizer: of an optimizer, its rate.
SaveCheckpoint ==
    /\ pc = "idle" /\ Event
    /\ disk' = [weight |-> weight, rate |-> Printed[rate]]
    /\ UNCHANGED <<leaves, graph, optimizer, program, history, pc, i, cached>>

\* A new process with a new model and optimizer, and the checkpoint if any.
Restart ==
    /\ Event
    /\ \E saved \in {disk, NoTensor} :
          IF saved = NoTensor
          THEN weight' = [p \in Params |-> Start] /\ rate' = RateOne
          ELSE weight' = saved.weight /\ rate' = saved.rate
    /\ requiresGrad' = [p \in Params |-> TRUE]
    /\ grad' = [p \in Params |-> NoTensor]
    /\ here' = {} /\ shared' = {} /\ lossOf' = {} /\ root' = {} /\ failed' = FALSE
    /\ moment' = [p \in Params |-> NoTensor]
    /\ second' = [p \in Params |-> NoTensor]
    /\ t' = 0
    /\ pc' = "idle" /\ i' = 1
    /\ cached' = FALSE
    /\ iterations' = 0
    /\ own' = [p \in Params |-> 0] /\ toggled' = {}
    /\ origin' = Unmoved(weight') /\ taken' = [p \in Params |-> <<>>]
    /\ UNCHANGED <<program, disk>>

-----------------------------------------------------------------------------

Next ==
    \/ ZeroGrad \/ JitReturnsCached
    \/ \E used \in Uses : Forward(used) \/ Evaluate(used)
    \/ \E gs \in Gradients : Backward(gs)
    \/ BackwardThrows
    \/ StepBegins \/ StepMoves \/ StepSkips \/ StepReturns
    \/ \E p \in Params : Freeze(p) \/ Unfreeze(p)
    \/ \E r \in Rates \ {rate} : SetRate(r)
    \/ \E entries \in (SUBSET Params) \ {{}}, w \in Loaded : LoadStateDict(entries, w)
    \/ SaveCheckpoint \/ Restart

Spec == Init /\ [][Next]_vars

-----------------------------------------------------------------------------
(* Properties *)

TypeOK ==
    /\ weight \in [Params -> Floats]
    /\ requiresGrad \in [Params -> BOOLEAN]
    /\ grad \in [Params -> Floats \cup {NoTensor}]
    /\ here \subseteq Params /\ lossOf \subseteq Params /\ root \subseteq Params
    /\ shared \subseteq {p \in here : requiresGrad[p] /\ grad[p] # NoTensor}
    /\ failed \in BOOLEAN
    /\ pc \in {"idle", "zeroed", "evaluated", "differentiated", "stepping"}
    /\ i \in 1 .. Len(list) + 1
    /\ program \in Programs /\ cached \in BOOLEAN
    /\ rate \in Elements
    /\ moment \in [Params -> Floats \cup {NoTensor}]
    /\ second \in [Params -> Floats \cup {NoTensor}]
    /\ t \in 0 .. MaxSteps
    /\ events \in 0 .. MaxEvents

\* When the optimizer steps, what it finds in the grad tensors are derivatives
\* of one and the same loss, the one that the last backward started from, and 0
\* where that loss does not depend on the parameter: nothing of an iteration
\* that returned, of an evaluation that went into the same graph, or from
\* before a freeze (train/loop.py:15-19).  That loss is the one of this
\* iteration, unless a backward threw in this graph: then it is the first that
\* failed there (autograd.cpp:15-24, py_tensor.cpp:64-67).  And a parameter that
\* the loss depends on has a grad tensor, unless it was frozen after its node
\* was made: then backward assigns to a tensor that nobody holds (tensor.cpp:43).
StepsUseOneLoss ==
    pc \in {"differentiated", "stepping"} =>
       \A p \in Listed :
          /\ grad[p] \in {NoTensor, own[p]}
          /\ p \in root \ toggled => grad[p] = own[p]

\* A parameter that is frozen is not moved, whatever gradient, velocity or
\* weight decay it had: only loading and a restart write it.
FrozenDoNotMove ==
    [][\A p \in Params : ~requiresGrad[p] /\ pc = "stepping" /\ pc' # "idle"
                            => weight'[p] = weight[p]]_vars

\* The sum of rate^(n - j) xs[j] over 1 .. n.
Geometric(beta, xs, n) ==
    Total(1 .. n, LAMBDA j : Times(Power(beta, n - j), xs[j].g))

GeometricSquares(beta, xs, n) ==
    Total(1 .. n, LAMBDA j : Times(Power(beta, n - j), Square(xs[j].g)))

\* The direction of the n-th move from the gradients of the moves up to it.
TextbookDirection(xs, n) ==
    LET average(beta, sum) == Over(Times(Minus(1, beta), sum), Minus(1, Power(beta, n)))
    IN  CASE kind = "sgd"  -> xs[n].g
          [] kind = "adam" ->
                Over(average(Beta1, Geometric(Beta1, xs, n)),
                     Plus(RootOf(average(Beta2, GeometricSquares(Beta2, xs, n))), Eps))
          [] OTHER         -> Geometric(Momentum, xs, n)

\* Adam counts its steps for all parameters together, so its correction is
\* right for a parameter that took part in each of them, once.
CountsItsSteps(p) == kind = "adam" => \A n \in DOMAIN taken[p] : taken[p][n].t = n

\* While the optimizer steps, a weight is where its gradients lead: its last written value less, for each
\* step it took part in since, the rate of that step times the direction that
\* the textbook gives for the gradients of all its steps so far, as a closed
\* form: powers of the momentum (momentum.cpp:21), and for Adam averages whose
\* factors sum to one (adam.cpp:29-33).  Moments that are made late, a freeze in
\* between, new rates, loaded weights and other parameters make no difference.
WeightsFollowGradients ==
    pc = "stepping" => \A p \in Listed : CountsItsSteps(p) =>
       weight[p] = Minus(origin[p].weight,
                         Total(origin[p].from + 1 .. Len(taken[p]), LAMBDA n :
                             Times(taken[p][n].rate, TextbookDirection(taken[p], n))))

\* A step wrapped by jit is a step: "warm cache via @jit, then run a tight
\* training loop" (examples/06_jit_speedup.py:1).
JitTrains == pc = "idle" => t = iterations
=============================================================================
