----------------------------- MODULE MCTracing -----------------------------
(***************************************************************************)
(* Small instances of Tracing: one op of two inputs, a product taken at a  *)
(* point where its partial derivatives are 2 and 3, and interchangeable    *)
(* addresses.                                                              *)
(***************************************************************************)
EXTENDS Tracing

MCPartial == [op \in Ops |-> <<2, 3>>]

Symmetry == Permutations(Addresses)

Program(patterns, t, f, c) ==
    [patterns |-> patterns, tensors |-> t, functions |-> f, calls |-> c]

MCPrograms ==
    {Program({"reenter", "drop", "by value", "no_grad", "throw"}, 3, 3, 1),
     Program({"nested", "drop"}, 4, 2, 2),
     Program({"nested", "by value"}, 4, 2, 1),
     Program({"grad"}, 4, 2, 2),
     Program({"grad", "toggle", "drop"}, 3, 2, 2)}

MCNested == {Program({"nested"}, 4, 2, 2)}

MCReuse == {Program({"drop", "reuse"}, 3, 2, 1)}

=============================================================================
