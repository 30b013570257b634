--------------------------- MODULE LeafGradients ---------------------------
(***************************************************************************)
(* What one captured graph promises its user, without the backward pass:   *)
(* ops are recorded, and a call of backward leaves in every leaf parameter *)
(* the loss depends on the derivative of the loss, and touches no other    *)
(* leaf.  The result of an op without a backward kernel counts as given.   *)
(* "The loss" is the root of the graph: backward() remembers the loss of   *)
(* the first call in Graph::output_id and prefers it from then on.         *)
(* A call that throws, or dies with the process, changes no leaf at all.   *)
(***************************************************************************)
EXTENDS IRGraph

CONSTANT ForwardOnly   \* ops registered without a backward kernel

VARIABLES
    graph,      \* the recorded nodes
    root,       \* the node the gradients are taken of, NoNode before a call
    pending,    \* a backward call is running
    leafGrad    \* leafGrad[i]: what the grad tensor of leaf i holds

vars == <<graph, root, pending, leafGrad>>

Init ==
    /\ graph = <<>>
    /\ root = NoNode
    /\ pending = FALSE
    /\ leafGrad = <<>>

Record ==
    /\ ~pending
    /\ \E node \in {ParamNode} \cup
                   UNION {{OpNode(op, ins) :
                             ins \in [1..Arity(op) -> NoNode..Len(graph)]} :
                          op \in Ops} :
          graph' = Append(graph, node)
    /\ leafGrad' = Append(leafGrad, 0)
    /\ UNCHANGED <<root, pending>>

\* A call whose loss this graph does not know is ignored.
Call(l) ==
    /\ ~pending
    /\ root' = IF root = NoNode THEN l ELSE root
    /\ root' # NoNode
    /\ pending' = TRUE
    /\ UNCHANGED <<graph, leafGrad>>

\* The graph as far as gradients flow.
Differentiable(g) ==
    [i \in Ids(g) |-> IF g[i].op \in ForwardOnly THEN ParamNode ELSE g[i]]

Return ==
    /\ pending
    /\ leafGrad' = [i \in Ids(graph) |->
                       IF IsParam(graph, i) /\ DependsOn(Differentiable(graph), root, i)
                       THEN Derivative(Differentiable(graph), root, i)
                       ELSE leafGrad[i]]
    /\ pending' = FALSE
    /\ UNCHANGED <<graph, root>>

\* A backward kernel threw, or killed the process: every leaf is as it was.
Abort ==
    /\ pending
    /\ pending' = FALSE
    /\ UNCHANGED <<graph, root, leafGrad>>

Next == Record \/ Return \/ Abort \/ \E l \in NoNode..Len(graph) : Call(l)

Spec == Init /\ [][Next]_vars
=============================================================================
