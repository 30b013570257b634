------------------------------ MODULE Tracing ------------------------------
(***************************************************************************)
(* How the forward pass of one Python thread becomes graphs, and which     *)
(* graph a call of backward differentiates: the thread-local Tracer, the   *)
(* Functions on the heap, run_op (src/core/op_registry.cpp), the contexts  *)
(* `with Function()` and no_grad(), Function.backward and Tensor.backward. *)
(*                                                                         *)
(* The engine itself is taken from LeafGradients, which Autograd           *)
(* implements: a pass that completes puts the derivative of the output     *)
(* into the grad tensor of each leaf node the output depends on, and one   *)
(* that throws leaves them alone.                                          *)
(*                                                                         *)
(* Tensors point to Functions by address and addresses can be reused, so   *)
(* the heap is a function on Addresses.  tr.graph is always the graph of   *)
(* tr.function (set_active_function, run_op and py_backward write both),   *)
(* so the tracer keeps the function only.                                  *)
(*                                                                         *)
(* An operator X_Fault is X with a plausible bug; nothing uses it, and the *)
(* properties fail when it takes the place of X.                           *)
(***************************************************************************)
EXTENDS IRGraph, SequencesExt, Ranks

CONSTANTS
    Addresses,     \* where the allocator may put a Function
    NoFn,          \* the null pointer
    Programs       \* user programs: what they do, and bounds on how much

AllPatterns ==
    {"nested",     \* enters a Function inside the context of another
     "reenter",    \* enters a Function a second time
     "drop",       \* releases a Function while tensors of it are alive
     "reuse",      \* and the allocator gives its address to another one
     "by value",   \* calls run_op through the C++ layers, losses and modules
     "no_grad",    \* uses no_grad() and enable_grad()
     "toggle",     \* calls requires_grad_ on tensors
     "grad",       \* calls functions that the grad transform returned
     "throw"}      \* has kernels that throw in backward

ASSUME TracingAssumption ==
    /\ NoFn \notin Addresses
    /\ Programs \subseteq [patterns : SUBSET AllPatterns, tensors : Nat,
                           functions : Nat, calls : Nat]

VARIABLES
    program,       \* the program that is run
    heap,          \* heap[a]: the Function last allocated at address a
    live,          \* the addresses of the Functions that exist
    tensors,       \* the Tensors the program holds
    gradOf,        \* gradOf[c]: what grad tensor c holds
    recording,     \* Tracer::recording
    function,      \* Tracer::function
    active,        \* g_active of active_fn.cpp
    contexts,      \* the with-blocks the program is in, innermost last
    created,       \* Functions created so far
    calls,         \* calls of backward so far
    dead,          \* the process has read freed memory and died
    tape           \* history: how each tensor was computed, and in which Function

tracer == <<recording, function, active>>
vars == <<program, heap, live, tensors, gradOf, tracer, contexts, created,
          calls, dead, tape>>

Does(pattern) == pattern \in program.patterns

NoProducer == [graph |-> NoFn, node |-> NoNode]

\* cells[i] is the grad tensor of leaf node i, no grad tensor being 0; of and
\* serial are history: the tensor node i stands for, the how-manieth Function.
NewFunction(hasOwner) ==
    [nodes |-> <<>>, cells |-> <<>>, output |-> NoNode, owner |-> hasOwner,
     of |-> <<>>, serial |-> 0]

Init ==
    /\ program \in Programs
    /\ heap = [a \in Addresses |-> NewFunction(FALSE)]
    /\ live = {}
    /\ tensors = <<>> /\ gradOf = <<>> /\ tape = <<>>
    /\ recording = TRUE /\ function = NoFn /\ active = NoFn
    /\ contexts = <<>>
    /\ created = 0 /\ calls = 0 /\ dead = FALSE

-----------------------------------------------------------------------------
(* Tensors and Functions *)

\* How a tensor was computed: in the how-manieth Function, 0 for none, from
\* which inputs, and which of them needed a gradient.  dropped: requires_grad_
\* has taken its grad tensor away.
Step(op, ins, byValue, serial) ==
    [op |-> op, inputs |-> ins, byValue |-> byValue, in |-> serial,
     needed |-> [k \in DOMAIN ins |-> tensors[ins[k]].requiresGrad],
     dropped |-> FALSE]

NewTensor(requiresGrad) ==
    /\ ~dead /\ Len(tensors) < program.tensors
    /\ tensors' = Append(tensors, [requiresGrad |-> requiresGrad,
                                  producer |-> NoProducer, grad |-> 0])
    /\ tape' = Append(tape, Step("leaf", <<>>, FALSE, 0))
    /\ UNCHANGED <<heap, live, gradOf, tracer, contexts, created, calls, dead>>

\* t.requires_grad_(value)
SetRequiresGrad(t, value) ==
    /\ ~dead /\ Does("toggle")
    /\ tensors[t].requiresGrad # value
    /\ tensors' = [tensors EXCEPT ![t].requiresGrad = value,
                                 ![t].grad = IF value THEN @ ELSE 0]
    /\ tape' = [tape EXCEPT ![t].dropped = @ \/ tensors[t].grad # 0]
    /\ UNCHANGED <<heap, live, gradOf, tracer, contexts, created, calls, dead>>

\* Where the allocator may put the next Function.
Free ==
    IF created = program.functions THEN {}
    ELSE IF Does("reuse") THEN Addresses \ live
    ELSE {a \in Addresses : heap[a].serial = 0}

Allocated(hasOwner) == [NewFunction(hasOwner) EXCEPT !.serial = created + 1]

MayEnter ==
    Does("nested") \/ \A i \in DOMAIN contexts : contexts[i].kind # "fn"

FunctionContext(a, arg) == [kind |-> "fn", fn |-> a, arg |-> arg, prev |-> TRUE]

EnterNewFunction(arg) ==
    /\ ~dead /\ MayEnter
    /\ \E a \in Free :
          /\ heap' = [heap EXCEPT ![a] = Allocated(FALSE)]
          /\ live' = live \cup {a}
          /\ active' = a /\ function' = a
          /\ contexts' = Append(contexts, FunctionContext(a, arg))
    /\ created' = created + 1
    /\ UNCHANGED <<recording, calls, dead, tape>>

\* with mg.Function() as fn:
EnterFunction == EnterNewFunction(0) /\ UNCHANGED <<tensors, gradOf>>

Zeroed_Kept(c) == gradOf

\* zero_grad() on grad tensor c.
Zeroed(c) == [gradOf EXCEPT ![c] = 0]

\* A call of grad(fn)(t), until it calls fn.
GradTransformBegins(t) ==
    /\ Does("grad")
    /\ tensors' = [tensors EXCEPT ![t].requiresGrad = TRUE]
    /\ gradOf' = IF tensors[t].grad = 0 THEN gradOf ELSE Zeroed(tensors[t].grad)
    /\ EnterNewFunction(t)

Entered(a) == \E i \in DOMAIN contexts :
                 contexts[i].kind = "fn" /\ contexts[i].fn = a

InGradTransform == contexts # <<>> /\ Last(contexts).arg # 0

\* The Functions the user holds; run_op and grad keep theirs to themselves.
Held == {a \in live : /\ ~heap[a].owner
                      /\ ~\E i \in DOMAIN contexts :
                            contexts[i].fn = a /\ contexts[i].arg # 0}

ReenterFunction ==
    /\ ~dead /\ Does("reenter") /\ MayEnter
    /\ \E a \in Held :
          /\ ~Entered(a)
          /\ active' = a /\ function' = a
          /\ contexts' = Append(contexts, FunctionContext(a, 0))
    /\ UNCHANGED <<heap, live, tensors, gradOf, recording, created, calls, dead,
                   tape>>

ExitFunction_KeepsTracer ==
    /\ ~dead /\ contexts # <<>> /\ Last(contexts).kind = "fn" /\ ~InGradTransform
    /\ active' = NoFn
    /\ contexts' = Front(contexts)
    /\ UNCHANGED <<heap, live, tensors, gradOf, recording, function, created,
                   calls, dead, tape>>

ExitFunction ==
    /\ ~dead /\ contexts # <<>> /\ Last(contexts).kind = "fn" /\ ~InGradTransform
    /\ active' = NoFn /\ function' = NoFn
    /\ contexts' = Front(contexts)
    /\ UNCHANGED <<heap, live, tensors, gradOf, recording, created, calls, dead,
                   tape>>

\* with no_grad(): and with enable_grad():
EnterGradMode ==
    /\ ~dead /\ Does("no_grad")
    /\ ~\E i \in DOMAIN contexts : contexts[i].kind = "mode"
    /\ recording' \in BOOLEAN
    /\ contexts' = Append(contexts, [kind |-> "mode", fn |-> NoFn, arg |-> 0,
                                    prev |-> recording])
    /\ UNCHANGED <<heap, live, tensors, gradOf, function, active, created, calls,
                   dead, tape>>

ExitGradMode ==
    /\ ~dead /\ contexts # <<>> /\ Last(contexts).kind = "mode"
    /\ recording' = Last(contexts).prev
    /\ contexts' = Front(contexts)
    /\ UNCHANGED <<heap, live, tensors, gradOf, function, active, created, calls,
                   dead, tape>>

\* The last reference to a Function goes away; its tensors may live on.
DropFunction ==
    /\ ~dead /\ Does("drop")
    /\ \E a \in Held : ~Entered(a) /\ live' = live \ {a}
    /\ UNCHANGED <<heap, tensors, gradOf, tracer, contexts, created, calls, dead,
                   tape>>

-----------------------------------------------------------------------------
(* run_op(op, ins): through pointers the Tensors of the caller are marked, *)
(* by value copies of them are, which share the grad tensor if there is    *)
(* one already and are gone when run_op returns.                           *)

RequiresGrad(ins) == \E k \in DOMAIN ins : tensors[ins[k]].requiresGrad

Output(ins, producer) ==
    [requiresGrad |-> RequiresGrad(ins), producer |-> producer, grad |-> 0]

OpNotRecorded(op, ins, byValue) ==
    /\ ~recording
    /\ tensors' = Append(tensors, Output(ins, NoProducer))
    /\ tape' = Append(tape, Step(op, ins, byValue, 0))
    /\ UNCHANGED <<heap, live, gradOf, tracer, contexts, created, calls, dead>>

Registered_NoProducer(a, ins, byValue) ==
    {k \in DOMAIN ins :
        /\ tensors[ins[k]].requiresGrad
        /\ tensors[ins[k]].producer.graph = NoFn
        /\ byValue \/ \A j \in 1..(k - 1) : ins[j] # ins[k]}

\* The positions whose Tensor is not yet a node of the graph at a: they get a
\* param node each.  A pointer given twice has one from the first time on.
Registered(a, ins, byValue) ==
    {k \in DOMAIN ins :
        /\ tensors[ins[k]].requiresGrad
        /\ tensors[ins[k]].producer.graph # a
        /\ byValue \/ \A j \in 1..(k - 1) : ins[j] # ins[k]}

NewGrads_Always(R, ins) == R

\* init_grad() of the Tensors registered: those without a grad tensor get one.
NewGrads(R, ins) == {k \in R : tensors[ins[k]].grad = 0}

GradOf(R, ins, k) ==
    IF k \in NewGrads(R, ins)
    THEN Len(gradOf) + Rank(NewGrads(R, ins), k)
    ELSE tensors[ins[k]].grad

\* The position whose param node stands for input k, when R are registered.
SameInput(R, ins, byValue, k) ==
    {j \in R : IF byValue THEN j = k ELSE ins[j] = ins[k]}

\* The id of input k in the graph at a, n nodes of which were there before.
InputId(a, n, R, ins, byValue, k) ==
    LET same == SameInput(R, ins, byValue, k) IN
    IF same # {} THEN n + Rank(R, CHOOSE j \in same : TRUE)
    ELSE IF tensors[ins[k]].producer.graph = a
    THEN tensors[ins[k]].producer.node
    ELSE NoNode

\* The Tensors after the registration: those of the caller are marked.
Marked(a, n, R, ins, byValue) ==
    [t \in DOMAIN tensors |->
       IF byValue \/ ~\E k \in R : ins[k] = t THEN tensors[t]
       ELSE LET k == CHOOSE k \in R : ins[k] = t IN
            [tensors[t] EXCEPT !.grad = GradOf(R, ins, k),
                               !.producer = [graph |-> a, node |-> n + Rank(R, k)]]]

OpRecordedAt(a, f, op, ins, byValue) ==
    LET n == Len(f.nodes)
        R == Registered(a, ins, byValue)
        params == InOrder(R)
        id == n + Len(params) + 1
        new == Len(tensors) + 1
        inputs == [k \in DOMAIN ins |-> InputId(a, n, R, ins, byValue, k)]
    IN
    /\ heap' = [heap EXCEPT ![a] =
          [f EXCEPT
             !.nodes = @ \o [i \in DOMAIN params |-> ParamNode] \o <<OpNode(op, inputs)>>,
             !.cells = @ \o [i \in DOMAIN params |-> GradOf(R, ins, params[i])] \o <<0>>,
             !.of = @ \o [i \in DOMAIN params |-> ins[params[i]]] \o <<new>>]]
    /\ gradOf' = gradOf \o [i \in 1..Cardinality(NewGrads(R, ins)) |-> 0]
    /\ tensors' = Append(Marked(a, n, R, ins, byValue),
                         Output(ins, [graph |-> a, node |-> id]))
    /\ tape' = Append(tape, Step(op, ins, byValue, f.serial))
    /\ UNCHANGED <<recording, active, contexts, calls, dead>>

OpRecorded(op, ins, byValue) ==
    /\ recording /\ function # NoFn
    /\ OpRecordedAt(function, heap[function], op, ins, byValue)
    /\ UNCHANGED <<live, function, created>>

\* No Function is active: run_op makes one, which keeps itself alive.
OpStartsFunction(op, ins, byValue) ==
    /\ recording /\ function = NoFn
    /\ \E a \in Free :
          /\ OpRecordedAt(a, Allocated(TRUE), op, ins, byValue)
          /\ live' = live \cup {a}
          /\ function' = a
    /\ created' = created + 1

RunOp ==
    /\ ~dead /\ Len(tensors) < program.tensors
    /\ \E op \in Ops, byValue \in BOOLEAN :
       \E ins \in [1..Arity(op) -> 1..Len(tensors)] :
          /\ byValue => Does("by value")
          /\ \/ OpNotRecorded(op, ins, byValue)
             \/ OpRecorded(op, ins, byValue)
             \/ OpStartsFunction(op, ins, byValue)

-----------------------------------------------------------------------------
(* backward(f, loss) as LeafGradients has it. *)

OutputOf(a, t) ==
    IF heap[a].output # NoNode THEN heap[a].output
    ELSE IF tensors[t].producer.graph = a THEN tensors[t].producer.node
    ELSE NoNode

\* An edge to the node itself or past the end adds to no other node.
Edges(a) ==
    [i \in DOMAIN heap[a].nodes |->
        [heap[a].nodes[i] EXCEPT !.inputs =
            [k \in DOMAIN @ |-> IF @[k] < i THEN @[k] ELSE NoNode]]]

\* Left out: an edge to a later node, which only a stale id gives.
NoForwardEdge(a) ==
    \A i \in DOMAIN heap[a].nodes : \A k \in DOMAIN heap[a].nodes[i].inputs :
       heap[a].nodes[i].inputs[k] \notin (i + 1)..Len(heap[a].nodes)

\* The leaf nodes are copied in the order they were registered, so that of
\* the nodes with the same grad tensor the last one stays.
GradsAfter(a, root) ==
    LET g == Edges(a) IN
    [c \in DOMAIN gradOf |->
       LET reached == {i \in Ids(g) : /\ IsParam(g, i) /\ heap[a].cells[i] = c
                                      /\ DependsOn(g, root, i)} IN
       IF reached = {} THEN gradOf[c] ELSE Derivative(g, root, Max(reached))]

Completes(a, t) ==
    /\ heap[a].nodes # <<>> /\ OutputOf(a, t) \in Ids(heap[a].nodes)
    /\ NoForwardEdge(a)
    /\ heap' = [heap EXCEPT ![a].output = OutputOf(a, t)]
    /\ gradOf' = GradsAfter(a, OutputOf(a, t))
    /\ UNCHANGED dead

Throws(a, t) ==
    /\ Does("throw")
    /\ heap[a].nodes # <<>> /\ OutputOf(a, t) \in Ids(heap[a].nodes)
    /\ ~IsParam(heap[a].nodes, OutputOf(a, t))
    /\ heap' = [heap EXCEPT ![a].output = OutputOf(a, t)]
    /\ UNCHANGED <<gradOf, dead>>

ReturnsEarly(a, t) ==
    /\ heap[a].nodes = <<>> \/ OutputOf(a, t) = NoNode
    /\ UNCHANGED <<heap, gradOf, dead>>

\* A stale id past the end of the graph: reverse_order indexes visited with it.
Overruns(a, t) ==
    /\ heap[a].nodes # <<>> /\ OutputOf(a, t) > Len(heap[a].nodes)
    /\ dead' = TRUE
    /\ UNCHANGED <<heap, gradOf>>

Returns(a, t) == Completes(a, t) \/ ReturnsEarly(a, t)

\* fn.backward(loss): outside its context, fn is entered for the call.
FunctionBackward(a, t) ==
    /\ ~dead /\ calls < program.calls
    /\ a \in Held /\ t \in DOMAIN tensors
    /\ Returns(a, t) \/ Throws(a, t) \/ Overruns(a, t)
    /\ IF Entered(a)
       THEN UNCHANGED <<function, active>>
       ELSE MayEnter /\ function' = NoFn /\ active' = NoFn
    /\ calls' = calls + 1
    /\ UNCHANGED <<live, tensors, recording, contexts, created, tape>>

\* Then fn has returned t, or backward has thrown: the with-block is left, and
\* the Function goes with it.
GradTransformEnds(t) ==
    /\ ~dead /\ InGradTransform /\ calls < program.calls
    /\ LET a == Last(contexts).fn IN
       /\ Returns(a, t) \/ Throws(a, t)
       /\ live' = live \ {a}
    /\ active' = NoFn /\ function' = NoFn
    /\ contexts' = Front(contexts)
    /\ calls' = calls + 1
    /\ UNCHANGED <<tensors, recording, created, tape>>

TracerAfter_Kept == function

TracerAfter_Reset == NoFn

\* py_backward closes a graph that run_op started.
TracerAfter == IF active = NoFn THEN NoFn ELSE function

\* loss.backward() while the tracer has a Function: that one is taken.  An
\* exception skips the reset of the tracer.
TensorBackwardHere(t) ==
    /\ ~dead /\ calls < program.calls
    /\ t \in DOMAIN tensors /\ function # NoFn
    /\ \/ /\ Returns(function, t)
          /\ function' = TracerAfter
       \/ /\ Throws(function, t) \/ Overruns(function, t)
          /\ UNCHANGED function
    /\ calls' = calls + 1
    /\ UNCHANGED <<live, tensors, recording, active, contexts, created, tape>>

\* loss.backward() otherwise: the owner of the graph of the loss, if the graph
\* has one; the graph of a Function made by Python has none.  It may be gone,
\* and reading it may go unnoticed.
TensorBackwardElsewhere(t) ==
    /\ ~dead /\ calls < program.calls
    /\ t \in DOMAIN tensors /\ function = NoFn
    /\ tensors[t].producer.graph # NoFn
    /\ LET a == tensors[t].producer.graph IN
       IF a \in live
       THEN IF heap[a].owner
            THEN Returns(a, t) \/ Throws(a, t) \/ Overruns(a, t)
            ELSE UNCHANGED <<heap, gradOf, dead>>
       ELSE dead' \in BOOLEAN /\ UNCHANGED <<heap, gradOf>>
    /\ calls' = calls + 1
    /\ UNCHANGED <<live, tensors, tracer, contexts, created, tape>>

-----------------------------------------------------------------------------

Backward ==
    \E t \in DOMAIN tensors :
       \/ \E a \in Addresses : FunctionBackward(a, t)
       \/ TensorBackwardHere(t)
       \/ TensorBackwardElsewhere(t)

Operation ==
    \/ \E requiresGrad \in BOOLEAN : NewTensor(requiresGrad)
    \/ \E t \in DOMAIN tensors, value \in BOOLEAN : SetRequiresGrad(t, value)
    \/ EnterFunction \/ ReenterFunction \/ ExitFunction \/ DropFunction
    \/ EnterGradMode \/ ExitGradMode
    \/ RunOp
    \/ Backward
    \/ \E t \in DOMAIN tensors : GradTransformBegins(t) \/ GradTransformEnds(t)

Next == Operation /\ UNCHANGED program

Spec == Init /\ [][Next]_vars

-----------------------------------------------------------------------------
(* Properties *)

NodeRecord == [op : Ops \cup {"param"}, inputs : Seq(Nat)]

FunctionOK(f) ==
    /\ f.nodes \in Seq(NodeRecord)
    /\ f.cells \in [Ids(f.nodes) -> 0..Len(gradOf)]
    /\ f.of \in [Ids(f.nodes) -> DOMAIN tensors]
    /\ f.output \in NoNode..Len(f.nodes)
    /\ f.owner \in BOOLEAN
    /\ f.serial \in 0..created

TensorOK(t) ==
    /\ t.requiresGrad \in BOOLEAN
    /\ t.producer \in [graph : Addresses \cup {NoFn}, node : Nat]
    /\ t.grad \in 0..Len(gradOf)

TypeOK ==
    /\ \A a \in Addresses : FunctionOK(heap[a])
    /\ live \subseteq Addresses
    /\ Len(tensors) <= program.tensors /\ Len(tape) = Len(tensors)
    /\ \A t \in DOMAIN tensors : TensorOK(tensors[t])
    /\ gradOf \in Seq(Int)
    /\ recording \in BOOLEAN /\ dead \in BOOLEAN
    /\ function \in live \cup {NoFn} /\ active \in {function, NoFn}
    /\ \A i \in DOMAIN contexts :
          contexts[i].kind = "fn" => contexts[i].fn \in live
    /\ created \in 0..program.functions /\ calls \in 0..program.calls

\* Every edge of a recorded graph leads to the node of the very tensor the op
\* was given, and only a tensor that needed no gradient has no edge, however
\* tensors move between graphs, contexts and the C++ layers
\* (op_registry.cpp:118 and 139 compare addresses).
EdgesFaithful ==
    \A a \in live : LET g == heap[a].nodes IN
       \A i \in Ids(g) : ~IsParam(g, i) =>
          \A k \in DOMAIN g[i].inputs :
             LET step == tape[heap[a].of[i]]
                 p == g[i].inputs[k]
             IN  IF p = NoNode THEN ~step.needed[k]
                 ELSE p < i /\ heap[a].of[p] = step.inputs[k]

\* Input k of step i takes part in the differentiation of the s-th Function:
\* it was computed there, or it needed a gradient.
Counts(s, i, k) == tape[i].needed[k] \/ tape[tape[i].inputs[k]].in = s

\* What the program computed, from its history alone: tensors differentiated
\* through the ops that the s-th Function was recording.
TrueDerivative(s, l, w) ==
    LET d[i \in DOMAIN tape] ==
            IF i = w THEN 1
            ELSE IF tape[i].in # s THEN 0
            ELSE SumFunction([k \in DOMAIN tape[i].inputs |->
                                 IF Counts(s, i, k)
                                 THEN Partial[tape[i].op][k] * d[tape[i].inputs[k]]
                                 ELSE 0])
    IN  d[l]

ComputedFrom(s, l, w) ==
    LET dep[i \in DOMAIN tape] ==
            \/ i = w
            \/ /\ tape[i].in = s
               /\ \E k \in DOMAIN tape[i].inputs :
                     Counts(s, i, k) /\ dep[tape[i].inputs[k]]
    IN  dep[l]

PassedByValue(s, w) ==
    \E i \in DOMAIN tape : /\ tape[i].in = s /\ tape[i].byValue
                           /\ \E k \in DOMAIN tape[i].inputs : tape[i].inputs[k] = w

\* Another Function recorded between two ops of the s-th: the tensors that it
\* used have moved there (op_registry.cpp:139), and are leaves when they
\* come back.
Interrupted(s) ==
    \E i, j, k \in DOMAIN tape :
       /\ i < j /\ j < k
       /\ tape[i].in = s /\ tape[j].in \notin {0, s} /\ tape[k].in = s

Leaves(s, l) ==
    {w \in DOMAIN tensors : /\ tensors[w].requiresGrad /\ tape[w].in # s
                            /\ ComputedFrom(s, l, w)}

\* The first backward of a Function takes its output from the loss.
FirstPass(a) ==
    /\ heap'[a].serial = heap[a].serial
    /\ heap[a].output = NoNode /\ heap'[a].output # NoNode

GradIsRight(s, l, w) ==
    /\ tensors[w].grad # 0
    /\ gradOf'[tensors[w].grad] = TrueDerivative(s, l, w)

\* After the first backward of a Function, the program finds in w.grad() the
\* derivative of the loss with respect to w, for every tensor w the loss was
\* computed from in that Function and that w.requires_grad(); except those
\* that went through the C++ layers by value, and those that requires_grad_
\* took a grad tensor from; and unless the Function was interrupted: a leaf
\* has several nodes then, and the last one's part is all that stays
\* (autograd.cpp:99).
LeafGradsComplete ==
    [][Does("throw") \/ \A a \in live :
          LET s == heap[a].serial
              l == heap[a].of[heap'[a].output]
          IN  FirstPass(a) /\ ~Interrupted(s) =>
                 \A w \in Leaves(s, l) :
                    ~PassedByValue(s, w) /\ ~tape[w].dropped
                       => GradIsRight(s, l, w)]_vars

\* What grad(fn)(t) returns is the derivative of what fn returned with respect
\* to t, and 0 if it does not depend on t, whatever gradient t held from an
\* earlier call or backward (grad.py:22); unless t has no grad tensor, when
\* there is an exception, except for the leaves of LeafGradsComplete, and as
\* long as fn enters no other Function: a backward there leaves its own
\* gradient in t.
GradTransformRight ==
    [][LET a == Last(contexts).fn
           t == Last(contexts).arg
           s == heap[a].serial
       IN
       /\ InGradTransform /\ Len(contexts') < Len(contexts)
       /\ FirstPass(a) /\ ~Does("throw") /\ ~Does("nested") /\ ~Interrupted(s)
       /\ tensors[t].grad # 0 /\ ~PassedByValue(s, t) /\ ~tape[t].dropped
       => gradOf'[tensors[t].grad] = TrueDerivative(s, heap[a].of[heap'[a].output], t)]_vars

\* In a with-block of a Function it is that Function that records, whatever
\* is differentiated meanwhile ("Ops recorded during the call populate the
\* graph", function.py:4).
EnteredRecords ==
    \A i \in DOMAIN contexts :
       /\ contexts[i].kind = "fn"
       /\ \A j \in (i + 1)..Len(contexts) : contexts[j].kind # "fn"
       => function = contexts[i].fn

\* That is so in a program that enters no Function inside the context of
\* another: leaving the inner one clears the tracer.
UnnestedRecords == Does("nested") \/ EnteredRecords

\* A graph that run_op started on its own is complete once backward has been
\* called on it: later ops go into another one ("isolating subsequent test
\* graphs", docs/stability_and_fixes.md:18).
EagerGraphsIsolated ==
    [][Does("throw") \/ \A a \in live :
          heap[a].owner /\ heap[a].output # NoNode => heap'[a].nodes = heap[a].nodes]_vars
=============================================================================
