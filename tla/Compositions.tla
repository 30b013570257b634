---------------------------- MODULE Compositions ----------------------------
(***************************************************************************)
(* What is built from the kernels: the losses of core/loss.cpp, the Linear *)
(* layers and Python's operators between a tensor and a number, as the     *)
(* lists of ops they run; and the computations that read their inputs      *)
(* themselves and are not recorded, the Softmax modules, the reductions    *)
(* along an axis and vmap.  The eps of the losses, 1e-12, is 0 in this     *)
(* arithmetic.                                                             *)
(***************************************************************************)
EXTENDS KernelOps

\* An op and the tensors it is given, by number: the arguments of the loss
\* are the first ones and each op appends its output.
Run(op, args) == [op |-> op, args |-> args]

\* A tensor of constants of the shape of another one: no op, nothing is
\* recorded of it.
Constant(value, like) == [op |-> "full", args |-> <<like>>, value |-> value]

\* The number in `a - 3`, as a tensor without axes.
Number(value) == [op |-> "number", args |-> <<>>, value |-> value]

Constants == {"full", "number"}

Full(shape, value) == Tensor(shape, LAMBDA i : value)

\* x @ weight + bias.
LinearOps == <<Run("matmul", <<1, 2>>), Run("add", <<4, 3>>)>>

\* The mean of (pred - target) ** 2.
MseOps == <<Run("sub", <<1, 2>>), Constant(2, 3), Run("pow", <<3, 4>>), Run("mean", <<5>>)>>

\* The mean of -log(softmax(logits) + eps) * target.
CrossEntropyOps ==
    <<Run("softmax", <<1>>), Constant(0, 3), Run("add", <<3, 4>>), Run("log", <<5>>),
      Run("neg", <<6>>), Run("mul", <<7, 2>>), Run("mean", <<8>>)>>

\* Minus the mean of target * log(pred + eps) + (1 - target) * log(1 - pred).
BceOps ==
    <<Constant(0, 1), Run("add", <<1, 3>>), Constant(1, 1), Run("sub", <<5, 4>>),
      Run("log", <<4>>), Run("log", <<6>>), Run("mul", <<2, 7>>), Run("sub", <<5, 2>>),
      Run("mul", <<10, 8>>), Run("add", <<9, 11>>), Run("neg", <<12>>), Run("mean", <<13>>)>>

\* a op 3, and reversed 3 op a.
ScalarOps(op, reversed) == <<Number(3), Run(op, IF reversed THEN <<2, 1>> ELSE <<1, 2>>)>>

-----------------------------------------------------------------------------
(* Softmax::forward and nn.Softmax along any axis.                         *)

AxisOf(dim, shape) == (IF dim < 0 THEN dim + Len(shape) ELSE dim) + 1

\* The offsets o * reduce * inner + r * inner + i of the loop that normalises
\* the element at an offset.
LineOf(offset, axis, shape) ==
    LET inner  == Numel(SubSeq(shape, axis + 1, Len(shape)))
        reduce == shape[axis]
        o      == offset \div (inner * reduce)
    IN  {o * reduce * inner + r * inner + (offset % inner) : r \in 0 .. reduce - 1}

SoftmaxModule(x, dim) ==
    LET line(i)    == LineOf(i, AxisOf(dim, x.shape), x.shape)
        largest(i) == CHOOSE m \in {x.data[j] : j \in line(i)} :
                          \A j \in line(i) : x.data[j] <= m
    IN  Tensor(x.shape, LAMBDA i :
            Over(Exp(x.data[i] - largest(i)),
                 Total(line(i), LAMBDA j : Exp(x.data[j] - largest(i)))))

\* cpu_sum_axis and cpu_mean_axis: element k of the result is the sum of the
\* line through element outer * reduce * inner + i, k being outer * inner + i.
LineTotal(a, axis, k) ==
    LET inner == Numel(SubSeq(a.shape, axis + 1, Len(a.shape)))
        first == (k \div inner) * a.shape[axis] * inner + (k % inner)
    IN  Total(LineOf(first, axis, a.shape), LAMBDA j : a.data[j])

SumAxis(a, dim) ==
    LET axis == AxisOf(dim, a.shape)
    IN  Tensor(RemoveAt(a.shape, axis), LAMBDA k : LineTotal(a, axis, k))

MeanAxis(a, dim) ==
    LET axis == AxisOf(dim, a.shape)
    IN  Tensor(RemoveAt(a.shape, axis), LAMBDA k : Over(LineTotal(a, axis, k), a.shape[axis] % P))

-----------------------------------------------------------------------------
(* vmap of a function over one axis of every argument.                     *)

Others(shape, axis) == RemoveAt(shape, axis)

\* base + full: where element j of slice i is read.
SliceOffset(j, i, shape, axis) ==
    LET coords == InsertAt(Decode(j, Others(shape, axis)), axis, i)
    IN  FoldSeq(+, 0, [k \in DOMAIN shape |-> coords[k] * RowStrides(shape)[k]])

\* flat[base + full] is in range for every element of the slice.
SliceExists(i, shape, axis) ==
    \A j \in Offsets(Others(shape, axis)) : SliceOffset(j, i, shape, axis) \in Offsets(shape)

\* The slice keeps its axis, with extent 1.
Slice(a, i, axis) ==
    Tensor([a.shape EXCEPT ![axis] = 1],
           LAMBDA j : a.data[SliceOffset(j, i, a.shape, axis)])

\* The functions that are mapped.
Mapped(fn, args) ==
    CASE fn = "neg" -> UnaryForward("neg", args[1])
      [] fn = "sum" -> SumForward(args[1])
      [] fn = "mul" -> Binary("mul", args[1], args[2])

SlicesOf(in, i, axis) == [k \in DOMAIN in |-> Slice(in[k], i, axis)]

\* No argument lacks the axis or, as args[0] counts the slices, is too short
\* on it, and fn accepts the slices.
VmapAccepts(fn, shapes, axis) ==
    LET one(s) == [s EXCEPT ![axis] = 1]
    IN  /\ \A k \in DOMAIN shapes : axis \in DOMAIN shapes[k]
        /\ \A k \in DOMAIN shapes, i \in 0 .. shapes[1][axis] - 1 :
              SliceExists(i, shapes[k], axis)
        /\ fn = "mul" => Broadcastable(one(shapes[1]), one(shapes[2]))

\* The outputs one after the other, in the shape of the last with the number
\* of slices inserted.
Vmap(fn, in, axis) ==
    LET bs     == in[1].shape[axis]
        out    == [i \in 0 .. bs - 1 |-> Mapped(fn, SlicesOf(in, i, axis))]
        shape  == out[bs - 1].shape
        size   == Numel(shape)
    IN  Tensor(IF axis > Len(shape) THEN Append(shape, bs) ELSE InsertAt(shape, axis, bs),
               LAMBDA j : out[j \div size].data[j % size])
=============================================================================
