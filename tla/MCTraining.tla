------------------------------ MODULE MCTraining ------------------------------
(* Small instances of Training: two parameters, once each or one of them    *)
(* twice, as when a layer is used in two places of a Sequential.            *)
EXTENDS Training, TLC

Once(k) == [kind |-> k, list |-> <<"w", "b">>, jit |-> FALSE]

MCPrograms ==
    {Once(k) : k \in AllKinds}
        \cup {[Once("momentum") EXCEPT !.list = <<"w", "b", "w">>],
              [Once("sgd") EXCEPT !.jit = TRUE]}

\* Every loss depends on w, some also on b.
MCUses == {{"w"}, {"w", "b"}}

MCGradients == {("w" :> 1 @@ "b" :> 4), ("w" :> 4 @@ "b" :> 9)}

MCRoot == [x \in Elements |-> (3 * x + 1) % P]

\* A rate of more digits loses some.
MCPrinted == [x \in Elements |-> IF x = 5 THEN 4 ELSE x]

\* Three steps with two events, or two steps with three; one less for most programs.
Bounded == t + events <= IF kind = "sgd with momentum" THEN 5 ELSE 4
===============================================================================
