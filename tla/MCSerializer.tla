----------------------------- MODULE MCSerializer -----------------------------
(* An empty graph, one op on a placeholder, and a parameter squared; tensors *)
(* whose contents are prefixes of each other or the same in another shape.   *)
EXTENDS Serializer

Node(op, inputs, shape) ==
    [op |-> op, inputs |-> inputs, dtype |-> "float32",
     input_shapes |-> IF op = "param" THEN <<shape>> ELSE [i \in DOMAIN inputs |-> shape],
     output_shapes |-> <<shape>>]

MCGraphs ==
    {NoGraph,
     [output_id |-> 0, input_ids |-> <<>>, param_ids |-> <<>>,
      nodes |-> <<Node("relu", <<-1>>, <<2>>)>>],
     [output_id |-> 1, input_ids |-> <<>>, param_ids |-> <<0>>,
      nodes |-> <<Node("param", <<>>, <<2>>), Node("mul", <<0, 0>>, <<2>>)>>]}

\* Other numbers than any tensor holds.
MCLeading == [x \in {5, 6, 7} |-> 10 * x]

MCTensors == {[shape |-> <<1>>, data |-> <<5>>],
              [shape |-> <<2>>, data |-> <<5, 6>>],
              [shape |-> <<1, 2>>, data |-> <<7, 6>>]}

\* Every graph without blobs, and the empty one between saves and loads of
\* blobs: a graph and the blobs share no file.
Bounded == handles # {} => saved = NoGraph
=============================================================================
