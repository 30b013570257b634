------------------------------- MODULE Replay -------------------------------
(***************************************************************************)
(* The C++ interface of Function (src/core/function.cpp) with the registry *)
(* of ops (src/core/op_registry.cpp): Function::apply runs a captured      *)
(* graph again, with other values for its parameters and with the ops that *)
(* are registered by then.  Around it are what makes and changes graphs    *)
(* and the tracer: Function::enter, run_op through pointers, backward,     *)
(* grad, vmap, jit and pmap, which all copy the graph, and save and load.  *)
(*                                                                         *)
(* A value is the term that was evaluated.  An op stands for its key       *)
(* (name, dtype, device), and only ops with the right dtype and device are *)
(* registered; tr.graph is always the graph of tr.function.                *)
(*                                                                         *)
(* An operator X_Fault is X with a plausible bug; nothing uses it, and the *)
(* properties fail when it takes the place of X.                           *)
(***************************************************************************)
EXTENDS IRGraph, SequencesExt, Ranks

CONSTANTS
    BuiltIn,       \* the ops of init_cpu_ops, a subset of Ops
    Kernels,       \* implementations a user registers
    ForwardOnly,   \* those without a backward kernel
    MayThrow,      \* those whose forward may throw
    MaxTensors,    \* bound on the tensors
    MaxFunctions,  \* bound on the Functions
    MaxScopes      \* bound on the scopes entered at a time

ASSUME ReplayAssumption ==
    /\ BuiltIn \subseteq Ops
    /\ \A op \in Ops : Arity(op) > 0
    /\ "builtin" \notin Kernels \cup {"none"} /\ "none" \notin Kernels
    /\ ForwardOnly \subseteq Kernels /\ MayThrow \subseteq Kernels
    /\ MaxTensors \in Nat /\ MaxFunctions \in Nat /\ MaxScopes \in Nat

VARIABLES
    table,         \* OpRegistry::table_: the implementation of each op, or "none"
    functions,     \* the Functions, in the order they were made
    tensors,       \* the Tensors the program holds
    recording,     \* Tracer::recording
    function,      \* Tracer::function, NoFunction or an index in functions
    scopes,        \* the Function::Scopes alive, innermost last
    outcome,       \* of the apply that has just ended
    dead,          \* a kernel has read inputs that are not there
    disturbed,     \* history: a kernel threw under apply in this scope
    tape           \* history: how each tensor was computed

tracer == <<recording, function, scopes, disturbed>>
vars == <<table, functions, tensors, tracer, outcome, dead, tape>>

NoFunction == 0
NoOutcome == [status |-> "none"]

\* released: nodes without cached_inputs; kernels: nodes with a backward kernel.
\* of, computed, leaves, loss and loaded are history: the tensor of each node,
\* the tensors computed and bound here, the loss of the first backward.
NewFunction ==
    [nodes |-> <<>>, params |-> <<>>, released |-> {}, kernels |-> {},
     output |-> NoNode, computed |-> {}, leaves |-> <<>>, loss |-> 0,
     loaded |-> FALSE]

Init ==
    /\ table = [op \in Ops |-> IF op \in BuiltIn THEN "builtin" ELSE "none"]
    /\ functions = <<>> /\ tensors = <<>> /\ tape = <<>>
    /\ recording = TRUE /\ function = NoFunction /\ scopes = <<>>
    /\ outcome = NoOutcome /\ dead = FALSE /\ disturbed = FALSE

-----------------------------------------------------------------------------
(* The registry *)

\* An op that is there already is replaced.
Register(op, kernel) ==
    /\ table[op] # kernel
    /\ table' = [table EXCEPT ![op] = kernel]
    /\ UNCHANGED <<functions, tensors, tracer, tape>>

\* init_cpu_ops again: the built-in ops replace what the user registered.
InitOps ==
    /\ table' = [op \in Ops |-> IF op \in BuiltIn THEN "builtin" ELSE table[op]]
    /\ UNCHANGED <<functions, tensors, tracer, tape>>

-----------------------------------------------------------------------------
(* Functions and scopes *)

MakeFunction(f) ==
    /\ Len(functions) < MaxFunctions
    /\ functions' = Append(functions, f)

NewEmptyFunction ==
    /\ MakeFunction(NewFunction)
    /\ UNCHANGED <<table, tensors, tracer, tape>>

\* grad, vmap, jit and pmap.
Transform(f) ==
    /\ MakeFunction(functions[f])
    /\ UNCHANGED <<table, tensors, tracer, tape>>

\* save and load: names, edges and the output are read back, param_ids are not,
\* and there is no kernel and no cached tensor in the file.
SaveAndLoad(f) ==
    /\ MakeFunction([functions[f] EXCEPT !.params = <<>>, !.kernels = {},
                                         !.released = Ids(functions[f].nodes),
                                         !.loaded = TRUE])
    /\ UNCHANGED <<table, tensors, tracer, tape>>

\* Function::enter
Enter(f) ==
    /\ Len(scopes) < MaxScopes
    /\ scopes' = Append(scopes, [fn |-> f, recording |-> recording,
                                function |-> function, disturbed |-> disturbed])
    /\ recording' = TRUE /\ function' = f /\ disturbed' = FALSE
    /\ UNCHANGED <<table, functions, tensors, tape>>

\* The destructor of the innermost Scope.
Leave ==
    /\ scopes # <<>>
    /\ scopes' = Front(scopes)
    /\ recording' = Last(scopes).recording
    /\ function' = Last(scopes).function
    /\ disturbed' = Last(scopes).disturbed
    /\ UNCHANGED <<table, functions, tensors, tape>>

-----------------------------------------------------------------------------
(* Capturing *)

NewTensor(requiresGrad) ==
    /\ Len(tensors) < MaxTensors
    /\ tensors' = Append(tensors, [requiresGrad |-> requiresGrad,
                                  fn |-> NoFunction, node |-> NoNode])
    /\ tape' = Append(tape, [op |-> "leaf", inputs |-> <<>>])
    /\ UNCHANGED <<table, functions, tracer>>

\* The tensors among the inputs that become param nodes of Function f, in order.
ToRegister(f, ins) ==
    LET needed(t) == tensors[t].requiresGrad /\ tensors[t].fn # f
        places == InOrder({k \in DOMAIN ins :
                             needed(ins[k]) /\ \A j \in 1 .. k - 1 : ins[j] # ins[k]})
    IN  [i \in DOMAIN places |-> ins[places[i]]]

Output(ins) ==
    [requiresGrad |-> \E k \in DOMAIN ins : tensors[ins[k]].requiresGrad,
     fn |-> NoFunction, node |-> NoNode]

NotCaptured(op, ins) ==
    /\ ~recording
    /\ tensors' = Append(tensors, Output(ins))
    /\ UNCHANGED <<functions, tracer>>

EdgeTo_AnyGraph(tensor, f) == tensor.node

EdgeTo(tensor, f) == IF tensor.fn = f THEN tensor.node ELSE NoNode

CapturedIn(f, fs, op, ins) ==
    LET F == fs[f]
        n == Len(F.nodes)
        params == ToRegister(f, ins)
        id == n + Len(params) + 1
        \* where the tensors are after the registration
        moved == [t \in DOMAIN tensors |->
                    IF \E k \in DOMAIN params : params[k] = t
                    THEN [tensors[t] EXCEPT
                            !.fn = f,
                            !.node = n + (CHOOSE k \in DOMAIN params : params[k] = t)]
                    ELSE tensors[t]]
    IN
    /\ functions' = [fs EXCEPT ![f] =
          [F EXCEPT
             !.nodes = @ \o [k \in DOMAIN params |-> ParamNode]
                         \o <<OpNode(op, [k \in DOMAIN ins |-> EdgeTo(moved[ins[k]], f)])>>,
             !.params = @ \o [k \in DOMAIN params |-> n + k],
             !.kernels = IF table[op] \in ForwardOnly THEN @ ELSE @ \cup {id},
             !.leaves = @ \o params,
             !.computed = @ \cup {Len(tensors) + 1}]]
    /\ tensors' = Append(moved, [Output(ins) EXCEPT !.fn = f, !.node = id])

Captured(op, ins) ==
    /\ recording /\ function # NoFunction
    /\ CapturedIn(function, functions, op, ins)
    /\ UNCHANGED tracer

\* Without a Function run_op makes one, which stays in the tracer.
CapturedInNew(op, ins) ==
    /\ recording /\ function = NoFunction
    /\ Len(functions) < MaxFunctions
    /\ CapturedIn(Len(functions) + 1, Append(functions, NewFunction), op, ins)
    /\ function' = Len(functions) + 1
    /\ UNCHANGED <<recording, scopes, disturbed>>

\* run_op: of an op that is not registered, or when forward throws, nothing is
\* left; otherwise the node gets the backward kernel that is registered.
RunOp(op, ins) ==
    /\ table[op] # "none" /\ Len(tensors) < MaxTensors
    /\ \/ NotCaptured(op, ins)
       \/ Captured(op, ins)
       \/ CapturedInNew(op, ins)
    /\ tape' = Append(tape, [op |-> op, inputs |-> ins])
    /\ UNCHANGED table

\* The nodes whose backward kernel is run from the output on: those that a
\* gradient reaches, through nodes that have one.
Ran(F, output) ==
    LET reached[i \in Ids(F.nodes)] ==
            \/ i = output
            \/ \E u \in (i + 1 .. Len(F.nodes)) \cap F.kernels :
                  reached[u] /\ \E k \in DOMAIN F.nodes[u].inputs : F.nodes[u].inputs[k] = i
    IN  {i \in F.kernels : reached[i]}

Released_NotItsOwn(F, output) ==
    {p \in Ids(F.nodes) \ Range(F.params) :
        /\ Uses(F.nodes, p) # {}
        /\ \A use \in Uses(F.nodes, p) : use[1] \in Ran(F, output)}

\* The nodes whose reference count comes down to zero: those that have no
\* backward kernel of their own, when all their consumers have run.
Released(F, output) ==
    {p \in Ids(F.nodes) \ (F.kernels \cup Range(F.params)) :
        /\ Uses(F.nodes, p) # {}
        /\ \A use \in Uses(F.nodes, p) : use[1] \in Ran(F, output)}

OutputOf_Latest(f, t) == IF tensors[t].fn = f THEN tensors[t].node ELSE functions[f].output

\* The node that backward(f, loss) starts from, and apply returns.
OutputOf(f, t) ==
    IF functions[f].output # NoNode THEN functions[f].output
    ELSE IF tensors[t].fn = f THEN tensors[t].node ELSE NoNode

BackwardOf(f, t) ==
    /\ functions[f].nodes # <<>> /\ OutputOf(f, t) # NoNode
    /\ LET F == functions[f] IN
       functions' = [functions EXCEPT ![f] =
          [F EXCEPT !.output = OutputOf(f, t),
                    !.released = @ \cup Released(F, OutputOf(f, t)),
                    !.loss = IF @ = 0 THEN t ELSE @]]
    /\ UNCHANGED <<table, tensors, tracer, tape>>

-----------------------------------------------------------------------------
(* Function::apply *)

ParamPlace(F, i) == CHOOSE k \in DOMAIN F.params : F.params[k] = i

Bound(k) == [kernel |-> "binding", place |-> k, args |-> <<>>]
Computed(kernel, args) == [kernel |-> kernel, place |-> 0, args |-> args]
NoValue == Computed("none", <<>>)

\* live, once the nodes have been gone through.
LiveValue(F) ==
    LET value[i \in Ids(F.nodes)] ==
            IF i \in Range(F.params) THEN Bound(ParamPlace(F, i))
            ELSE Computed(table[F.nodes[i].op],
                          [k \in DOMAIN F.nodes[i].inputs |-> value[F.nodes[i].inputs[k]]])
    IN  value

\* What stops apply at node i, when the nodes before it have a value.
Obstacle(F, i) ==
    LET node == F.nodes[i] IN
    IF i \in Range(F.params) THEN "nothing"
    ELSE IF IsParam(F.nodes, i) \/ table[node.op] = "none" THEN "op not registered"
    ELSE IF i \in F.released THEN "no inputs"
    ELSE IF \E k \in DOMAIN node.inputs : node.inputs[k] = NoNode THEN "missing live input"
    ELSE "nothing"

Calls(F, i) == IF i \in Range(F.params) \/ IsParam(F.nodes, i) THEN "none"
               ELSE table[F.nodes[i].op]

Without(status) == [status |-> status, value |-> NoValue]

\* The ways apply may end: at the first obstacle, at a kernel before it that
\* throws, or with the value of the output.
Endings(F, bindings) ==
    LET stops == {i \in Ids(F.nodes) : Obstacle(F, i) # "nothing"}
        first == IF stops = {} THEN Len(F.nodes) + 1 ELSE Min(stops)
        throws == \E i \in 1 .. first - 1 : Calls(F, i) \in MayThrow
    IN
    IF bindings < Len(F.params) THEN {Without("not enough bindings")}
    ELSE (IF throws THEN {Without("kernel throws")} ELSE {})
         \cup {IF stops # {} THEN Without(Obstacle(F, first))
               ELSE IF F.output = NoNode THEN Without("nothing returned")
               ELSE [status |-> "returned", value |-> LiveValue(F)[F.output]]}

Restores_NotOnMissing(status) == status \notin {"kernel throws", "missing live input"}

\* Each return and throw of apply puts the tracer back; an exception of a
\* kernel passes through.
Restores(status) == status # "kernel throws"

Apply(f, bindings) ==
    \E ending \in Endings(functions[f], bindings) :
       /\ outcome' = [fn |-> f, bindings |-> bindings,
                      status |-> ending.status, value |-> ending.value]
       /\ dead' = (ending.status = "no inputs")
       /\ disturbed' = (disturbed \/ ending.status = "kernel throws")
       /\ IF Restores(ending.status)
          THEN UNCHANGED <<recording, function>>
          ELSE recording' = FALSE /\ function' = f
       /\ UNCHANGED <<table, functions, tensors, scopes, tape>>

\* The caller has its result or exception and goes on.
ApplyIsOver ==
    /\ outcome # NoOutcome /\ ~dead
    /\ outcome' = NoOutcome
    /\ UNCHANGED <<table, functions, tensors, tracer, dead, tape>>

-----------------------------------------------------------------------------

Quietly ==
    \/ \E op \in Ops, kernel \in Kernels : Register(op, kernel)
    \/ InitOps
    \/ NewEmptyFunction
    \/ \E f \in DOMAIN functions : Transform(f) \/ SaveAndLoad(f) \/ Enter(f)
    \/ Leave
    \/ \E requiresGrad \in BOOLEAN : NewTensor(requiresGrad)
    \/ \E op \in Ops : \E ins \in [1 .. Arity(op) -> DOMAIN tensors] : RunOp(op, ins)
    \/ \E f \in DOMAIN functions, t \in DOMAIN tensors : BackwardOf(f, t)

Next ==
    \/ outcome = NoOutcome /\ Quietly /\ UNCHANGED <<outcome, dead>>
    \/ /\ outcome = NoOutcome
       /\ \E f \in DOMAIN functions :
             LET n == Len(functions[f].params) IN
             \E bindings \in (n - 1 .. n) \cap Nat : Apply(f, bindings)
    \/ ApplyIsOver

Spec == Init /\ [][Next]_vars

-----------------------------------------------------------------------------
(* Properties *)

FunctionOK(F) ==
    /\ Recorded(F.nodes)
    /\ F.loaded \/ F.params = InOrder({i \in Ids(F.nodes) : IsParam(F.nodes, i)})
    /\ F.released \cup F.kernels \subseteq Ids(F.nodes)
    /\ F.output \in NoNode .. Len(F.nodes)

TypeOK ==
    /\ table \in [Ops -> Kernels \cup {"builtin", "none"}]
    /\ \A f \in DOMAIN functions : FunctionOK(functions[f])
    /\ \A t \in DOMAIN tensors : tensors[t].fn \in NoFunction .. Len(functions)
    /\ recording \in BOOLEAN /\ dead \in BOOLEAN
    /\ function \in NoFunction .. Len(functions)

\* The program again, by its history: the leaves are what they are bound to,
\* and the ops are what is registered for them now.
Rerun(F, t) ==
    LET value[u \in DOMAIN tape] ==
            IF \E k \in DOMAIN F.leaves : F.leaves[k] = u
            THEN Bound(CHOOSE k \in DOMAIN F.leaves : F.leaves[k] = u)
            ELSE Computed(table[tape[u].op],
                          [k \in DOMAIN tape[u].inputs |-> value[tape[u].inputs[k]]])
    IN  value[t]

\* No tensor went to another graph and came back: each has one node here.
Unmixed(F) ==
    /\ IsInjective(F.leaves)
    /\ \A k \in DOMAIN F.leaves : F.leaves[k] \notin F.computed

\* "Run the captured forward again" (function.hpp:21): what apply returns is
\* what the ops of the program give for the bindings, bound to the parameters
\* in the order of their first use, up to the loss of the first backward;
\* whatever was captured, registered, transformed or applied since.
ReplayIsForward ==
    outcome.status = "returned" =>
       LET F == functions[outcome.fn] IN
       Unmixed(F) => outcome.value = Rerun(F, F.loss)

\* The Function was captured, not loaded, every input of every op captured in it
\* is a parameter or computed here, and backward has set the output.
Complete(F) ==
    /\ ~F.loaded /\ F.output # NoNode
    /\ \A t \in F.computed : \A k \in DOMAIN tape[t].inputs :
          tape[t].inputs[k] \in F.computed \cup Range(F.leaves)

UsedByKernel(F, i) == \E use \in Uses(F.nodes, i) : use[1] \in F.kernels

\* An op without a backward kernel has its result used by an op with one.
ForwardOnlyUsed(F) ==
    \E i \in Ids(F.nodes) \ F.kernels : ~IsParam(F.nodes, i) /\ UsedByKernel(F, i)

CompleteApply ==
    /\ outcome # NoOutcome
    /\ Complete(functions[outcome.fn])
    /\ outcome.bindings >= Len(functions[outcome.fn].leaves)

\* And it does return, given a binding for each parameter, unless a kernel
\* throws: whatever backward released of the graph (autograd.cpp:76-82), nothing
\* else is in the way than the inputs of an op without a backward kernel, which
\* the kernels of its consumers have counted down to zero.
ReplayReturns ==
    CompleteApply =>
       \/ outcome.status \in {"returned", "kernel throws"}
       \/ outcome.status = "no inputs" /\ ForwardOnlyUsed(functions[outcome.fn])

\* In a Scope of a Function it is that Function that records, and outside of
\* all recording is on, whichever way an apply ended (function.cpp:60-104); but
\* for a kernel that threw under apply, and then until the scope is left.
ScopeRecords ==
    ~disturbed => /\ recording
                  /\ scopes # <<>> => function = Last(scopes).fn
=============================================================================
