------------------------------ MODULE Autograd ------------------------------
(***************************************************************************)
(* The backward engine (src/core/autograd.cpp, src/core/ir.cpp) on one     *)
(* captured graph, one action per step of its loops: the depth-first       *)
(* search of Graph::reverse_order, the sweep over the reversed order, the  *)
(* backward kernel of a node, the accumulation into each of its inputs     *)
(* with the reference count that releases caches, and the copy into the    *)
(* leaves.  Between calls of backward the user goes on recording.          *)
(*                                                                         *)
(* An operator X_Fault is X with a plausible bug; nothing uses it, and the *)
(* properties fail when it takes the place of X.                           *)
(***************************************************************************)
EXTENDS IRGraph, SequencesExt

CONSTANTS
    ForwardOnly,   \* ops registered without a backward kernel
    ReadsOutputs,  \* ops whose backward kernel reads cached_outputs
    MayThrow,      \* ops whose backward kernel may throw
    Garbage,       \* what reading a destroyed tensor may yield
    MaxNodes,      \* bound on the nodes recorded
    MaxCalls       \* bound on the calls of backward

ASSUME AutogradAssumption ==
    /\ ForwardOnly \subseteq Ops
    /\ ReadsOutputs \subseteq Ops
    /\ MayThrow \subseteq Ops
    /\ Garbage \subseteq Int
    /\ MaxNodes \in Nat
    /\ MaxCalls \in Nat

VARIABLES
    graph,         \* Graph::nodes
    outputId,      \* Graph::output_id
    inCached,      \* nodes whose cached_inputs are not cleared
    outCached,     \* nodes whose cached_outputs are not cleared
    leafGrad,      \* leafGrad[i]: the grad tensor of the leaf of param node i
    pc,            \* where backward() is
    loss,          \* its argument, NoNode when another graph produced it
    root,          \* reverse_order: next root, NoNode for output_id
    stack,         \* reverse_order: calls of dfs, each at input k
    visited,       \* reverse_order: visited
    order,         \* reverse_order: order
    pos,           \* backward: index in order
    hasGrad,       \* backward: the keys of grad_for_node
    grads,         \* backward: the values of grad_for_node
    refcounts,     \* backward: refcounts
    inGrads,       \* backward: in_grads of the current node
    input,         \* backward: the current input of the current node
    calls          \* calls so far

recorded == <<graph, inCached, outCached, leafGrad>>
dfsVars == <<root, stack, visited>>
passVars == <<pos, hasGrad, grads, refcounts, inGrads, input>>
vars == <<recorded, outputId, pc, loss, dfsVars, order, passVars, calls>>

Init ==
    /\ graph = <<>> /\ outputId = NoNode
    /\ inCached = {} /\ outCached = {}
    /\ leafGrad = <<>>
    /\ calls = 0
    /\ pc = "idle" /\ loss = NoNode
    /\ root = NoNode /\ stack = <<>> /\ visited = {} /\ order = <<>>
    /\ pos = 1 /\ hasGrad = {} /\ grads = <<>> /\ refcounts = <<>>
    /\ inGrads = <<>> /\ input = 1

-----------------------------------------------------------------------------
(* Recording: what run_op appends to the graph. *)

AddNode(node) ==
    /\ pc = "idle"
    /\ Len(graph) < MaxNodes
    /\ graph' = Append(graph, node)
    /\ inCached' = inCached \cup {Len(graph) + 1}
    /\ outCached' = outCached \cup {Len(graph) + 1}
    /\ leafGrad' = Append(leafGrad, 0)
    /\ UNCHANGED <<outputId, pc, loss, dfsVars, order, passVars, calls>>

RecordParam == AddNode(ParamNode)

RecordOp(op) ==
    \E ins \in [1..Arity(op) -> NoNode..Len(graph)] : AddNode(OpNode(op, ins))

-----------------------------------------------------------------------------
(* backward(f, loss) up to the call of reverse_order. *)

OutputFor_OneBased(l) == IF outputId = NoNode THEN l + 1 ELSE outputId

\* output_id, or the producer of the loss when it is not set yet.
OutputFor(l) == IF outputId = NoNode THEN l ELSE outputId

BackwardReturnsEarly(l) ==
    /\ pc = "idle" /\ calls < MaxCalls
    /\ graph = <<>> \/ OutputFor(l) = NoNode
    /\ calls' = calls + 1
    /\ UNCHANGED <<recorded, outputId, pc, loss, dfsVars, order, passVars>>

BackwardCall(l) ==
    /\ pc = "idle" /\ calls < MaxCalls
    /\ graph # <<>> /\ OutputFor(l) # NoNode
    /\ outputId' = OutputFor(l)
    /\ loss' = l
    /\ pc' = "dfs"
    /\ calls' = calls + 1
    /\ UNCHANGED <<recorded, dfsVars, order, passVars>>

-----------------------------------------------------------------------------
(* Graph::reverse_order: depth-first search, inputs before the node.  The   *)
(* lambda dfs calls itself from a loop over the inputs; a call in progress  *)
(* is a frame of the node and the place in that loop.                       *)

Frame(u) == [node |-> u, k |-> 1]

Top == stack[Len(stack)]

TopInputs_First ==
    SelectSeq(graph[Top.node].inputs, LAMBDA p : p = graph[Top.node].inputs[1])

TopInputs == graph[Top.node].inputs

Pop == SubSeq(stack, 1, Len(stack) - 1)

NextInput == Append(Pop, [Top EXCEPT !.k = @ + 1])

DfsRoot ==
    LET u == IF root = NoNode THEN outputId ELSE root IN
    /\ pc = "dfs" /\ stack = <<>> /\ root <= Len(graph)
    /\ root' = root + 1
    /\ IF u \in visited
       THEN UNCHANGED <<stack, visited>>
       ELSE stack' = <<Frame(u)>> /\ visited' = visited \cup {u}
    /\ UNCHANGED <<recorded, outputId, pc, loss, order, passVars, calls>>

DfsSkip ==
    /\ pc = "dfs" /\ stack # <<>>
    /\ Top.k <= Len(TopInputs)
    /\ TopInputs[Top.k] \in visited \cup {NoNode}
    /\ stack' = NextInput
    /\ UNCHANGED <<recorded, outputId, pc, loss, root, visited, order,
                   passVars, calls>>

DfsDescend ==
    /\ pc = "dfs" /\ stack # <<>>
    /\ Top.k <= Len(TopInputs)
    /\ TopInputs[Top.k] \notin visited \cup {NoNode}
    /\ stack' = Append(NextInput, Frame(TopInputs[Top.k]))
    /\ visited' = visited \cup {TopInputs[Top.k]}
    /\ UNCHANGED <<recorded, outputId, pc, loss, root, order, passVars, calls>>

DfsFinish ==
    /\ pc = "dfs" /\ stack # <<>>
    /\ Top.k > Len(TopInputs)
    /\ order' = Append(order, Top.node)
    /\ stack' = Pop
    /\ UNCHANGED <<recorded, outputId, pc, loss, root, visited, passVars, calls>>

-----------------------------------------------------------------------------
(* The sweep of backward() over the reversed order. *)

\* run_op gives a node the backward kernel of its op, if that has one.
HasKernel(i) == graph[i].op \notin ForwardOnly \cup {"param"}

RefcountOf_Consumers(p) ==
    Cardinality({e[1] : e \in Uses(graph, p)}) + (IF HasKernel(p) THEN 1 ELSE 0)

RefcountOf_NoKernel(p) == Cardinality(Uses(graph, p))

\* Graph::compute_refcounts: the uses, and one for a node's own kernel.
RefcountOf(p) ==
    Cardinality(Uses(graph, p)) + (IF HasKernel(p) THEN 1 ELSE 0)

ReverseOrder_Missing == order

ReverseOrder == Reverse(order)

StartSweep ==
    /\ pc = "dfs" /\ stack = <<>> /\ root > Len(graph)
    /\ order' = ReverseOrder
    /\ pos' = 1
    /\ hasGrad' = {outputId}
    /\ grads' = [i \in Ids(graph) |-> IF i = outputId THEN 1 ELSE 0]
    /\ refcounts' = [i \in Ids(graph) |-> RefcountOf(i)]
    /\ pc' = "sweep"
    /\ UNCHANGED <<recorded, outputId, loss, dfsVars, inGrads, input, calls>>

Current == order[pos]

SweepSkip ==
    /\ pc = "sweep" /\ pos <= Len(order)
    /\ Current \notin hasGrad \/ ~HasKernel(Current)
    /\ pos' = pos + 1
    /\ UNCHANGED <<recorded, outputId, pc, loss, dfsVars, order, hasGrad,
                   grads, refcounts, inGrads, input, calls>>

\* What the kernel of node i needs has not been cleared.
CachesLive(i) ==
    /\ i \in inCached
    /\ graph[i].op \in ReadsOutputs => i \in outCached

KernelGrads(i) ==
    [k \in 1..Arity(graph[i].op) |-> Partial[graph[i].op][k] * grads[i]]

AtKernel ==
    /\ pc = "sweep" /\ pos <= Len(order)
    /\ Current \in hasGrad /\ HasKernel(Current)

RunKernel ==
    /\ AtKernel
    /\ CachesLive(Current)
    /\ inGrads' = KernelGrads(Current)
    /\ input' = 1
    /\ pc' = "inputs"
    /\ UNCHANGED <<recorded, outputId, loss, dfsVars, order, pos, hasGrad,
                   grads, refcounts, calls>>

\* The kernel indexes a cleared vector: the process dies, or goes on with
\* whatever the destroyed tensors still hold.
RunKernelOnReleased ==
    /\ AtKernel
    /\ ~CachesLive(Current)
    /\ \/ pc' = "crashed" /\ UNCHANGED <<inGrads, input>>
       \/ /\ inGrads' \in [1..Arity(graph[Current].op) -> Garbage]
          /\ input' = 1
          /\ pc' = "inputs"
    /\ UNCHANGED <<recorded, outputId, loss, dfsVars, order, pos, hasGrad,
                   grads, refcounts, calls>>

InputsOf(i) == graph[i].inputs

SkipInput ==
    /\ pc = "inputs" /\ input <= Len(InputsOf(Current))
    /\ InputsOf(Current)[input] = NoNode
    /\ input' = input + 1
    /\ UNCHANGED <<recorded, outputId, pc, loss, dfsVars, order, pos, hasGrad,
                   grads, refcounts, inGrads, calls>>

AddTo_Overwrites(p) == [grads EXCEPT ![p] = inGrads[input]]

AddTo(p) == [grads EXCEPT ![p] = @ + inGrads[input]]

AccumulateInput ==
    LET p == InputsOf(Current)[input] IN
    /\ pc = "inputs" /\ input <= Len(InputsOf(Current))
    /\ p # NoNode
    /\ hasGrad' = hasGrad \cup {p}
    /\ grads' = AddTo(p)
    /\ IF IsParam(graph, p)
       THEN UNCHANGED <<refcounts, inCached, outCached>>
       ELSE LET rc == refcounts[p] - 1
                released == IF rc = 0 THEN {p} ELSE {} IN
            /\ refcounts' = [refcounts EXCEPT ![p] = rc]
            /\ inCached' = inCached \ released
            /\ outCached' = outCached \ released
    /\ input' = input + 1
    /\ UNCHANGED <<graph, outputId, leafGrad, pc, loss, dfsVars, order, pos,
                   inGrads, calls>>

NodeDone ==
    /\ pc = "inputs" /\ input > Len(InputsOf(Current))
    /\ outCached' = outCached \ {Current}
    /\ pos' = pos + 1
    /\ pc' = "sweep"
    /\ UNCHANGED <<graph, outputId, inCached, leafGrad, loss, dfsVars, order,
                   hasGrad, grads, refcounts, inGrads, input, calls>>

\* The locals of backward() and of reverse_order() are destroyed.
LocalsGone ==
    /\ pc' = "idle" /\ loss' = NoNode
    /\ root' = NoNode /\ stack' = <<>> /\ visited' = {} /\ order' = <<>>
    /\ pos' = 1 /\ hasGrad' = {} /\ grads' = <<>> /\ refcounts' = <<>>
    /\ inGrads' = <<>> /\ input' = 1

LeafGradAfter(i) ==
    IF IsParam(graph, i) /\ i \in hasGrad /\ i \in inCached
    THEN grads[i]
    ELSE leafGrad[i]

CopyToLeaves ==
    /\ pc = "sweep" /\ pos > Len(order)
    /\ leafGrad' = [i \in Ids(graph) |-> LeafGradAfter(i)]
    /\ LocalsGone
    /\ UNCHANGED <<graph, outputId, inCached, outCached, calls>>

\* A kernel throws, or hands back a gradient of another shape than the one
\* accumulated so far.  The exception unwinds backward(): output_id and the
\* caches cleared so far stay as they are.
BackwardThrows ==
    /\ \/ AtKernel
       \/ /\ pc = "inputs" /\ input <= Len(InputsOf(Current))
          /\ InputsOf(Current)[input] \in hasGrad
    /\ graph[Current].op \in MayThrow
    /\ LocalsGone
    /\ UNCHANGED <<recorded, outputId, calls>>

-----------------------------------------------------------------------------

Record == RecordParam \/ \E op \in Ops : RecordOp(op)

Dfs == DfsRoot \/ DfsSkip \/ DfsDescend \/ DfsFinish

Sweep ==
    \/ StartSweep \/ SweepSkip \/ RunKernel \/ RunKernelOnReleased
    \/ SkipInput \/ AccumulateInput \/ NodeDone \/ CopyToLeaves

Next ==
    \/ Record
    \/ \E l \in NoNode..Len(graph) : BackwardReturnsEarly(l) \/ BackwardCall(l)
    \/ Dfs
    \/ Sweep
    \/ BackwardThrows

Spec == Init /\ [][Next]_vars

-----------------------------------------------------------------------------
(* Properties *)

Running == {"sweep", "inputs"}

GraphOK ==
    /\ graph \in Seq([op : Ops \cup {"param"}, inputs : Seq(Nat)])
    /\ Recorded(graph)
    /\ outputId \in NoNode..Len(graph)
    /\ inCached \subseteq Ids(graph)
    /\ outCached \subseteq Ids(graph)
    /\ leafGrad \in [Ids(graph) -> Int]

DfsOK ==
    /\ root \in NoNode..(Len(graph) + 1)
    /\ stack \in Seq([node : Ids(graph), k : Nat \ {0}])
    /\ visited \subseteq Ids(graph)
    /\ order \in Seq(Ids(graph))
    /\ pc = "idle" => root = NoNode /\ stack = <<>> /\ visited = {} /\ order = <<>>
    /\ pc # "idle" => outputId # NoNode

PassOK ==
    /\ pos \in 1..(Len(order) + 1)
    /\ pc \in {"idle", "dfs"} => pos = 1
    /\ hasGrad \subseteq Ids(graph)
    /\ pc \in Running =>
          /\ grads \in [Ids(graph) -> Int]
          /\ refcounts \in [Ids(graph) -> Int]
    /\ inGrads \in Seq(Int)
    /\ input \in Nat \ {0}
    /\ pc = "inputs" =>
          /\ pos <= Len(order)
          /\ Current \in hasGrad /\ HasKernel(Current)
          /\ Len(inGrads) = Len(InputsOf(Current))
          /\ input <= Len(InputsOf(Current)) + 1

TypeOK ==
    /\ pc \in {"idle", "dfs", "sweep", "inputs", "crashed"}
    /\ loss \in NoNode..Len(graph)
    /\ calls \in 0..MaxCalls
    /\ GraphOK /\ DfsOK /\ PassOK

\* reverse_order() lists every node once, and every node before the nodes it
\* was computed from (ir.hpp: "reverse-topological order"; the comment of
\* reverse_order: "the output node is processed first").
OrderIsTopological ==
    pc \in Running =>
       /\ \A i \in Ids(graph) : \E a \in DOMAIN order : order[a] = i
       /\ \A a, b \in DOMAIN order :
             /\ a # b => order[a] # order[b]
             /\ (\E k \in DOMAIN InputsOf(order[a]) :
                    InputsOf(order[a])[k] = order[b]) => a < b

\* The gradient a kernel has been given is complete: nothing is added to it
\* later in the pass, and a node passed over receives no gradient later
\* (autograd.cpp reads it->second at line 52 and writes dst at line 74).
Passed(a) == a < pos \/ (a = pos /\ pc = "inputs")

PassedGradsUnchanged ==
    pc \in Running /\ pc' \in Running =>
       \A a \in DOMAIN order : Passed(a) =>
          /\ grads'[order[a]] = grads[order[a]]
          /\ order[a] \in hasGrad' <=> order[a] \in hasGrad

GradFinal == [][PassedGradsUnchanged]_vars

\* While the sweep runs, the reference count of an op node is the number of
\* its uses whose gradient has not been accumulated, and one more for its own
\* kernel, if it has one (the comment in compute_refcounts), so that no use is
\* counted twice when an op takes the same tensor in two places.  A use by a
\* node without a kernel or without a gradient is never accumulated.
Accumulated(u, k) ==
    \E a \in DOMAIN order :
        /\ order[a] = u /\ u \in hasGrad /\ HasKernel(u)
        /\ \/ a < pos
           \/ a = pos /\ pc = "inputs" /\ k < input

RemainingUses(p) == {e \in Uses(graph, p) : ~Accumulated(e[1], e[2])}

RefcountsAreRemainingUses ==
    pc \in Running =>
       \A p \in Ids(graph) :
          ~IsParam(graph, p) =>
             refcounts[p] = (IF HasKernel(p) THEN 1 ELSE 0) + Cardinality(RemainingUses(p))

\* Whatever was released before, in this pass or in an earlier one, a kernel
\* still has the cached inputs it differentiates at, and in the first pass
\* its cached outputs ("keep the cache alive until this node's backward
\* runs", ir.cpp:53).
KernelReadsLiveCaches ==
    AtKernel =>
       /\ Current \in inCached
       /\ calls = 1 => Current \in outCached

Ended == pc \in {"idle", "crashed"}

\* What Autograd implements.
Promise == INSTANCE LeafGradients WITH
              root <- outputId, pending <- ~Ended

\* The engine leaves in the leaves what LeafGradients promises, computed in
\* reverse: the derivative of the root with respect to each leaf along the ops
\* that have a backward kernel, all of them or, when a kernel throws or the process dies, none.
LeavesHoldDerivatives == Promise!Spec

-----------------------------------------------------------------------------
(* What the documentation says and the code does not do. *)

\* "Run backward starting from `loss`." (python/micrograd/function.py:42)
StartsFromLoss == pc # "idle" /\ loss # NoNode => outputId = loss

\* "each input's refcount is decremented and its storage freed when it hits
\* zero" (docs/architecture.md:43-45): once its own kernel has run and all its
\* uses have been accumulated, an op node that is an input holds no cache.
StorageIsFreed ==
    pc = "sweep" /\ pos > Len(order) =>
       \A p \in Ids(graph) :
          (/\ HasKernel(p) /\ p \in hasGrad
           /\ Uses(graph, p) # {}
           /\ \A e \in Uses(graph, p) : Accumulated(e[1], e[2]))
          => p \notin inCached
=============================================================================
