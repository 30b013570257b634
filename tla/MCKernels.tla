------------------------------ MODULE MCKernels ------------------------------
(* The calls the kernels are checked on: every pair of shapes of up to two  *)
(* axes with extents 0 to 3, and of up to three axes with extents 1 and 2;  *)
(* rows, matrices and small images.                                         *)
EXTENDS Kernels

CONSTANTS MaxExtent,  \* extents of the shapes with up to two axes
          DeepExtent  \* extents of the shapes with three axes

ShapesUpTo(rank, extents) == UNION {[1 .. r -> extents] : r \in 0 .. rank}

Plain(op, shapes) == [op |-> op, shapes |-> shapes]

Flat == ShapesUpTo(2, 0 .. MaxExtent)
Deep == ShapesUpTo(3, 1 .. DeepExtent)

ElementwiseCalls ==
    {Plain(op, s) : op \in Elementwise, s \in (Flat \X Flat) \cup (Deep \X Deep)}

\* No empty row: the code would divide by its length.
RowCalls ==
    {Plain(op, <<s>>) : op \in {"sum", "mean"}, s \in Flat \cup Deep} \cup
    {Plain(op, <<s>>) : op \in Unary, s \in Flat} \cup
    {Plain("softmax", <<s>>) :
        s \in {t \in Flat \cup Deep : Len(t) > 0 => t[Len(t)] > 0}}

\* a + 3, 3 - a and so on; Python has no 3 ** a.
ScalarCalls ==
    {[op |-> "scalar", fn |-> fn, reversed |-> FALSE, shapes |-> <<s>>] :
        fn \in Elementwise, s \in Flat} \cup
    {[op |-> "scalar", fn |-> fn, reversed |-> TRUE, shapes |-> <<s>>] :
        fn \in Elementwise \ {"pow"}, s \in Flat}

\* The targets of a cross entropy have the shape of its logits.
LossCalls ==
    {Plain(op, s) : op \in {"mse", "bce"}, s \in Deep \X Deep} \cup
    {Plain("cross_entropy", <<s, s>>) :
        s \in {t \in Flat \cup Deep : Len(t) > 0 => t[Len(t)] > 0}}

Batches == {s \in Flat \cup Deep : \A i \in DOMAIN s : s[i] > 0}

\* Softmax modules and sums along every axis, named from either end; vmap over the
\* leading axis, which is what it is for.
UnrecordedCalls ==
    {[op |-> op, shapes |-> <<s>>, axis |-> d] :
        op \in {"Softmax", "sum_axis", "mean_axis"}, <<s, d>> \in {t \in Batches \X (-3 .. 2) : t[2] \in -Len(t[1]) .. Len(t[1]) - 1}} \cup
    {[op |-> "vmap", fn |-> fn, shapes |-> <<s>>, axis |-> 1] :
        fn \in {"neg", "sum"}, s \in Batches} \cup
    {[op |-> "vmap", fn |-> "mul", shapes |-> s, axis |-> 1] :
        s \in ShapesUpTo(2, 1 .. 2) \X Batches}

MatmulCalls ==
    {Plain("matmul", s) : s \in (Flat \X Flat) \ ({<<>>} \X {<<>>})} \cup
    {Plain("linear", s) :
        s \in [1 .. 2 -> 1 .. 2] \X {<<2, 1>>, <<2, 2>>, <<2, 3>>} \X ShapesUpTo(1, 1 .. 3)}

\* Batches, channels, borders, strides that do not divide; kernels that do
\* not fit at all with stride 1, where the code notices it.
ConvCalls ==
    {[op |-> "conv2d", stride |-> st, padding |-> pd,
      shapes |-> <<<<n, ci, h, 3>>, <<co, cw, k, k>>, <<co>>, <<1>>, <<1>>>>] :
        n \in 1 .. 2, ci \in 1 .. 2, h \in 2 .. 3, co \in 1 .. 2, cw \in 1 .. 2,
        k \in 1 .. 3, st \in 1 .. 2, pd \in 0 .. 1}

Small(c) == c.shapes[1][1] + c.shapes[1][2] + c.shapes[2][1] <= 4

KernelFits(c) ==
    c.stride = 1 \/ c.shapes[2][3] <= c.shapes[1][3] + 2 * c.padding

MCCalls == ElementwiseCalls \cup RowCalls \cup MatmulCalls \cup LossCalls \cup ScalarCalls
              \cup UnrecordedCalls \cup {c \in ConvCalls : KernelFits(c) /\ Small(c)}

DivCalls == {c \in ElementwiseCalls : c.op = "div"}
=============================================================================
