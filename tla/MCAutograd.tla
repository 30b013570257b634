----------------------------- MODULE MCAutograd -----------------------------
(***************************************************************************)
(* Small instances of Autograd.  sub has two inputs with opposite partial  *)
(* derivatives, so a gradient sent to the wrong input, dropped or counted  *)
(* twice shows; softmax is the one op whose kernel reads cached_outputs,   *)
(* user one that may throw and argmax one without a backward kernel.       *)
(***************************************************************************)
EXTENDS Autograd

MCPartial ==
    [op \in Ops |-> CASE op = "sub"     -> <<1, -1>>
                      [] op = "softmax" -> <<2>>
                      [] op = "user"    -> <<3>>
                      [] op = "argmax"  -> <<5>>]

\* Two calls on graphs of three nodes with every op, one on graphs of four
\* nodes with sub and argmax; a pass never leaves the bound.
Bounded ==
    Len(graph) = 4 => calls <= 1 /\ \A i \in Ids(graph) : graph[i].op \in {"param", "sub", "argmax"}

=============================================================================
