---------------------------- MODULE Broadcasting ----------------------------
(***************************************************************************)
(* Shapes, row-major offsets and broadcasting, as the CPU kernels compute  *)
(* them with strides (include/micrograd/shape.hpp, kernels/cpu/            *)
(* binary_kernels.*, reduce_to_input_shape of core/op_kernels.cpp), and a  *)
(* second definition of the same things on coordinates, with neither       *)
(* strides nor division, that the first one is compared with.              *)
(*                                                                         *)
(* A shape is a sequence of naturals.  The elements of a tensor are a      *)
(* function on 0 .. Numel(shape) - 1, the float array behind it.           *)
(***************************************************************************)
EXTENDS Integers, FiniteSets, SequencesExt

-----------------------------------------------------------------------------
(* The code.                                                               *)

\* Shape::numel.
Numel(shape) == FoldSeq(LAMBDA m, n : m * n, 1, shape)

\* The offsets of a float array of that shape.
Offsets(shape) == 0 .. Numel(shape) - 1

\* row_strides: the elements skipped by one step along each axis.
RowStrides(shape) ==
    [i \in DOMAIN shape |-> Numel(SubSeq(shape, i + 1, Len(shape)))]

\* The axis of shape that lies under axis i of a shape of rank rn: aligned
\* on the right, not positive when shape is too short to have one.
Aligned(shape, rn, i) == i - (rn - Len(shape))

\* The extent of shape under axis i: missing axes count as 1.
DimUnder(shape, rn, i) ==
    IF Aligned(shape, rn, i) > 0 THEN shape[Aligned(shape, rn, i)] ELSE 1

BroadcastRank(a, b) == IF Len(a) > Len(b) THEN Len(a) ELSE Len(b)

\* broadcast_shape throws unless, on every axis, the extents agree or one
\* of them is 1.
Broadcastable(a, b) ==
    \A i \in 1 .. BroadcastRank(a, b) :
        LET ad == DimUnder(a, BroadcastRank(a, b), i)
            bd == DimUnder(b, BroadcastRank(a, b), i)
        IN  ad = bd \/ ad = 1 \/ bd = 1

\* What broadcast_shape returns when it returns.
BroadcastShape(a, b) ==
    [i \in 1 .. BroadcastRank(a, b) |->
        LET ad == DimUnder(a, BroadcastRank(a, b), i)
            bd == DimUnder(b, BroadcastRank(a, b), i)
        IN  IF ad = 1 THEN bd ELSE ad]

\* The coordinates of linear offset idx of an array of that shape: the loop
\* divides by each stride and keeps the remainder for the next axis.
Decode(idx, shape) ==
    [i \in DOMAIN shape |->
        (IF i = 1 THEN idx ELSE idx % RowStrides(shape)[i - 1])
            \div RowStrides(shape)[i]]

BroadcastStrides_LeftAligned(a, c) ==
    [i \in DOMAIN c |->
        IF i \in DOMAIN a /\ a[i] = c[i] /\ a[i] > 1
        THEN RowStrides(a)[i] ELSE 0]

\* a_strides and b_strides of cpu_binary_broadcast: a's strides laid under
\* the axes of c, 0 on an axis that a does not have or repeats.
BroadcastStrides(a, c) ==
    [i \in DOMAIN c |->
        LET ad == DimUnder(a, Len(c), i)
        IN  IF ad = c[i] /\ ad > 1
            THEN RowStrides(a)[Aligned(a, Len(c), i)]
            ELSE 0]

\* Where element idx of c reads a: off_a of cpu_binary_broadcast.
OperandOffset(idx, a, c) ==
    FoldSeq(+, 0, [i \in DOMAIN c |->
                      Decode(idx, c)[i] * BroadcastStrides(a, c)[i]])

ReducedOffset_KeepsOnes(idx, og, target) ==
    FoldSeq(+, 0, [i \in DOMAIN og |->
                      IF Aligned(target, Len(og), i) > 0
                      THEN Decode(idx, og)[i]
                               * RowStrides(target)[Aligned(target, Len(og), i)]
                      ELSE 0])

\* Where element idx of an output gradient is added to the gradient of an
\* input of shape target: dst_idx of reduce_to_input_shape.
ReducedOffset(idx, og, target) ==
    FoldSeq(+, 0, [i \in DOMAIN og |->
        LET ti == Aligned(target, Len(og), i)
        IN  IF ti <= 0 \/ DimUnder(target, Len(og), i) = 1
            THEN 0
            ELSE Decode(idx, og)[i] * RowStrides(target)[ti]])

-----------------------------------------------------------------------------
(* The reference, on coordinates.                                          *)

\* The coordinates of an array of that shape.
Positions(shape) ==
    {p \in [DOMAIN shape -> 0 .. FoldSeq(+, 0, shape)] :
        \A i \in DOMAIN shape : p[i] < shape[i]}

\* Row-major order: the first axis on which p and q differ decides.
Before(p, q) ==
    \E i \in DOMAIN p : /\ p[i] < q[i]
                        /\ \A j \in 1 .. i - 1 : p[j] = q[j]

\* The offset of p: how many positions come before it.
OffsetOf(p, shape) == Cardinality({q \in Positions(shape) : Before(q, p)})

\* The element of an array that is repeated at position p of a broadcast.
ProjectTo(p, shape) ==
    [j \in DOMAIN shape |->
        IF shape[j] = 1 THEN 0 ELSE p[j + Len(p) - Len(shape)]]
=============================================================================
