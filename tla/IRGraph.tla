------------------------------ MODULE IRGraph ------------------------------
(***************************************************************************)
(* The captured forward graph (include/micrograd/ir.hpp): a vector of      *)
(* nodes, each one a leaf parameter or a recorded op whose inputs are the  *)
(* ids of earlier nodes.                                                   *)
(*                                                                         *)
(* An id here is the C++ id plus one, so a graph is a sequence indexed by  *)
(* its ids, and NoNode (0) stands for the C++ placeholder id -1.           *)
(*                                                                         *)
(* Tensor data is abstracted to what differentiation tells apart: an op    *)
(* has, for each input position k, one integer partial derivative          *)
(* Partial[op][k] (for sub, <<1, -1>>), and a gradient is an integer.      *)
(***************************************************************************)
EXTENDS Integers, Sequences, FiniteSets, Functions

CONSTANTS
    Ops,           \* the registered ops
    Partial        \* Partial[op][k]: d output / d input k of op

ASSUME OpsAssumption ==
    /\ "param" \notin Ops
    /\ Partial \in [Ops -> Seq(Int)]

NoNode == 0

Arity(op) == Len(Partial[op])

ParamNode == [op |-> "param", inputs |-> <<>>]

OpNode(op, ins) == [op |-> op, inputs |-> ins]

Ids(g) == 1..Len(g)

IsParam(g, i) == g[i].op = "param"

\* The uses of node p as an input: pairs of a consumer and a position.
Uses(g, p) == {e \in UNION {{u} \X DOMAIN g[u].inputs : u \in Ids(g)} :
                  g[e[1]].inputs[e[2]] = p}

\* Every input of a node was recorded before the node.
Recorded(g) ==
    \A i \in Ids(g) :
        \/ g[i] = ParamNode
        \/ /\ g[i].op \in Ops
           /\ g[i].inputs \in Seq(NoNode..(i - 1))
           /\ Len(g[i].inputs) = Arity(g[i].op)

-----------------------------------------------------------------------------
(***************************************************************************)
(* What differentiation means, defined the other way round from the code:  *)
(* forwards, from the leaf w to every later node.                          *)
(***************************************************************************)

\* d node l / d node w
Derivative(g, l, w) ==
    LET d[i \in NoNode..Len(g)] ==
            IF i = w THEN 1
            ELSE IF i = NoNode THEN 0
            ELSE SumFunction([k \in DOMAIN g[i].inputs |->
                                 Partial[g[i].op][k] * d[g[i].inputs[k]]])
    IN  d[l]

\* Node l was computed from node w.
DependsOn(g, l, w) ==
    LET dep[i \in NoNode..Len(g)] ==
            \/ i = w
            \/ /\ i # NoNode
               /\ \E k \in DOMAIN g[i].inputs : dep[g[i].inputs[k]]
    IN  dep[l]
=============================================================================
