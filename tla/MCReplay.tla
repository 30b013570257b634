------------------------------ MODULE MCReplay ------------------------------
(* Small instances of Replay: one op of two inputs, which the library has.  *)
EXTENDS Replay

MCPartial == [op \in Ops |-> <<2, 3>>]

\* Four tensors in one Function, three in two, and two with scopes in scopes.
Bounded ==
    /\ Len(tensors) = 4 => Len(functions) <= 1
    /\ Len(tensors) >= 3 => Len(scopes) <= 1
=============================================================================
