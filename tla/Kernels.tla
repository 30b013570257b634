------------------------------- MODULE Kernels -------------------------------
(***************************************************************************)
(* A call of an op, of a loss or of a function that is not recorded.  Its  *)
(* ops run one after the other, each accepts its inputs and appends its    *)
(* output or rejects them; then the backwards of the recorded ops run, the *)
(* last first, from a gradient of the last output.  One behaviour is one   *)
(* call.  The second half of the module is a definition of the same        *)
(* results on coordinates, with which the offsets, strides and loop bounds *)
(* of KernelOps and Compositions are compared.                             *)
(***************************************************************************)
EXTENDS Compositions

CONSTANT Calls  \* the calls that are run: [op, shapes] and, where the op has
                \* them, stride, padding, the axis or dim, and the mapped fn

ASSUME CallsAssumption ==
    \A c \in Calls :
        /\ {"op", "shapes"} \subseteq DOMAIN c
        /\ c.shapes \in Seq(Seq(Nat))
        /\ c.op \in Elementwise \cup {"matmul"} => Len(c.shapes) = 2
        /\ c.op \in Unary \cup {"sum", "mean", "softmax"} => Len(c.shapes) = 1
        \* The code divides by the length of the rows.
        /\ c.op = "softmax" => LET s == c.shapes[1] IN s # <<>> => s[Len(s)] > 0

VARIABLES pc,      \* "forward", "thrown", "recorded", "backward" or "done"
          call,    \* the member of Calls that is run
          values,  \* the tensors it is given, then the outputs of its ops
          grads,   \* the gradients that have arrived, by number of tensor
          done     \* how many backwards have run

vars == <<pc, call, values, grads, done>>

\* Test data: no zero (a divisor, a base of pow) and no two arrays alike.
Filled(shape, k) == Tensor(shape, LAMBDA i : 1 + ((i * (k + 1) + 3 * k) % (P - 2)))

-----------------------------------------------------------------------------
\* The exceptions of the forwards.
MatmulAccepts(a, b) == Len(a) = 2 /\ Len(b) = 2 /\ a[2] = b[1]

ConvAccepts(x, w, stride, padding) ==
    /\ Len(x) = 4 /\ Len(w) = 4
    /\ x[2] = w[2]
    /\ OutExtent(x[3], w[3], stride, padding) > 0
    /\ OutExtent(x[4], w[4], stride, padding) > 0

\* The forward of the op accepts inputs of these shapes.
Accepts(c, s) ==
    CASE c.op \in Elementwise -> Broadcastable(s[1], s[2])
      [] c.op = "softmax"     -> Len(s[1]) >= 1
      [] c.op = "matmul"      -> MatmulAccepts(s[1], s[2])
      [] c.op = "conv2d"      -> ConvAccepts(s[1], s[2], c.stride, c.padding)
      [] c.op = "vmap"        -> VmapAccepts(c.fn, s, c.axis)
      [] OTHER                -> TRUE

\* The forward of an op that accepts.
Computed(c, in) ==
    CASE c.op \in Elementwise -> Binary(c.op, in[1], in[2])
      [] c.op \in Unary       -> UnaryForward(c.op, in[1])
      [] c.op = "sum"         -> SumForward(in[1])
      [] c.op = "mean"        -> MeanForward(in[1])
      [] c.op = "softmax"     -> SoftmaxForward(in[1])
      [] c.op = "matmul"      -> MatmulForward(in[1], in[2])
      [] c.op = "conv2d"      -> ConvForward(in[1], in[2], in[3], c.stride, c.padding)
      [] c.op = "full"        -> Full(in[1].shape, c.value)
      [] c.op = "number"      -> Full(<<>>, c.value)
      [] c.op = "Softmax"     -> SoftmaxModule(in[1], c.axis)
      [] c.op = "sum_axis"    -> SumAxis(in[1], c.axis)
      [] c.op = "mean_axis"   -> MeanAxis(in[1], c.axis)
      [] c.op = "vmap"        -> Vmap(c.fn, in, c.axis)

\* The backward of an op, from what autograd cached of it.
Propagated(c, in, y, g) ==
    CASE c.op \in Elementwise -> ElementwiseBackward(c.op, in[1], in[2], g)
      [] c.op \in Unary       -> UnaryBackward(c.op, in[1], g)
      [] c.op = "sum"         -> SumBackward(in[1], g)
      [] c.op = "mean"        -> MeanBackward(in[1], g)
      [] c.op = "softmax"     -> SoftmaxBackward(y, g)
      [] c.op = "matmul"      -> MatmulBackward(in[1], in[2], g)
      [] c.op = "conv2d"      -> ConvBackward(in[1], in[2], in[3], c.stride, c.padding, g)
      [] c.op \in Constants  -> <<>>

Losses == {"mse", "bce", "cross_entropy"}

\* f, and what g has beside it.
Joined(f, g) == [x \in DOMAIN f \cup DOMAIN g |-> IF x \in DOMAIN f THEN f[x] ELSE g[x]]

\* The ops that a call runs: a loss runs several, anything else is one.
OpsOf(c) ==
    CASE c.op = "scalar"        -> ScalarOps(c.fn, c.reversed)
      [] c.op = "linear"        -> LinearOps
      [] c.op = "mse"           -> MseOps
      [] c.op = "bce"           -> BceOps
      [] c.op = "cross_entropy" -> CrossEntropyOps
      [] OTHER                  -> <<Joined([args |-> [k \in DOMAIN c.shapes |-> k]], c)>>

Inputs == DOMAIN call.shapes

\* The op to run next, and what it is given.
NextOp == OpsOf(call)[Len(values) - Len(call.shapes) + 1]
Given(o) == [k \in DOMAIN o.args |-> values[o.args[k]]]

Init == /\ pc = "forward"
        /\ call \in Calls
        /\ values = [k \in DOMAIN call.shapes |-> Filled(call.shapes[k], k)]
        /\ grads = <<>>
        /\ done = 0

Throw == /\ pc = "forward"
         /\ ~Accepts(NextOp, [k \in DOMAIN NextOp.args |-> Given(NextOp)[k].shape])
         /\ pc' = "thrown"
         /\ UNCHANGED <<call, values, grads, done>>

\* run_op looks the kernel up and calls its forward with the tensors.
Forward == /\ pc = "forward"
           /\ Accepts(NextOp, [k \in DOMAIN NextOp.args |-> Given(NextOp)[k].shape])
           /\ values' = Append(values, Computed(NextOp, Given(NextOp)))
           /\ pc' = IF Len(values') = Len(call.shapes) + Len(OpsOf(call))
                    THEN "recorded" ELSE "forward"
           /\ UNCHANGED <<call, grads, done>>

\* Computed outside run_op: there is nothing to differentiate.
Unrecorded == {"Softmax", "sum_axis", "mean_axis", "vmap"}

\* backward() puts a gradient in the last output.
StartBackward ==
    /\ pc = "recorded"
    /\ call.op \notin Unrecorded
    /\ pc' = "backward"
    /\ grads' = [k \in {Len(values)} |-> Filled(values[k].shape, 4)]
    /\ UNCHANGED <<call, values, done>>

\* The gradient of tensor k when g arrives too: the first one is taken as
\* it is, a later one is added element by element.
Arrived(k, g) ==
    IF k \in DOMAIN grads
    THEN [g EXCEPT !.data = [i \in DOMAIN g.data |-> Plus(grads[k].data[i], g.data[i])]]
    ELSE g

\* The backward of the last op that has not had its turn.  No op of these
\* is given a tensor twice.
Backward ==
    /\ pc = "backward"
    /\ LET n == Len(OpsOf(call)) - done
           o == OpsOf(call)[n]
           y == Len(call.shapes) + n
           g == Propagated(o, Given(o), values[y], grads[y])
       IN  grads' = IF y \notin DOMAIN grads \/ o.op \in Constants THEN grads
                    ELSE Joined([k \in {o.args[i] : i \in DOMAIN o.args} |->
                                 Arrived(k, g[CHOOSE i \in DOMAIN o.args : o.args[i] = k])], grads)
    /\ done' = done + 1
    /\ pc' = IF done' = Len(OpsOf(call)) THEN "done" ELSE "backward"
    /\ UNCHANGED <<call, values>>

Next == Throw \/ Forward \/ StartBackward \/ Backward

Spec == Init /\ [][Next]_vars

\* What went in, what came out and the gradient put in there.
inputs == SubSeq(values, 1, Len(call.shapes))
output == values[Len(values)]
og     == grads[Len(values)]

-----------------------------------------------------------------------------
(* The reference: arrays on coordinates, no offsets and no strides.        *)

\* The element of t at position p, t repeated where p has more axes or more
\* coordinates than t.
At(t, p) == t.data[OffsetOf(ProjectTo(p, t.shape), t.shape)]

\* Rows and columns of two matrices multiplied.
ProductAt(a, b, p) ==
    Total(0 .. a.shape[2] - 1, LAMBDA k : Times(At(a, <<p[1], k>>), At(b, <<k, p[2]>>)))

Inside(t, p) == \A i \in DOMAIN p : p[i] \in 0 .. t.shape[i] - 1

\* The correlation of x, zero outside its extents, with w.
CorrelationAt(x, w, bias, stride, padding, p) ==
    Plus(bias.data[p[2]],
         Total(Positions(<<x.shape[2], w.shape[3], w.shape[4]>>), LAMBDA t :
            LET source == <<p[1], t[1], p[3] * stride + t[2] - padding,
                                        p[4] * stride + t[3] - padding>>
            IN  IF Inside(x, source)
                THEN Times(x.data[OffsetOf(source, x.shape)],
                           At(w, <<p[2], t[1], t[2], t[3]>>))
                ELSE 0))

\* How often a kernel of extent k fits in a padded axis.
Fits(len, k, stride, padding) ==
    Cardinality({h \in 0 .. len + 2 * padding : h * stride + k <= len + 2 * padding})

\* The positions of t that differ from p in coordinate k only.
LineAround(t, p, k) ==
    {q \in Positions(t.shape) : \A i \in DOMAIN p \ {k} : q[i] = p[i]}

\* ... in the last coordinate only.
RowAround(t, p) == LineAround(t, p, Len(t.shape))

\* Softmax on coordinates, along coordinate k.
SoftmaxAt(t, p, k) ==
    Over(Exp(At(t, p)), Total(LineAround(t, p, k), LAMBDA q : Exp(At(t, q))))

\* The coordinate that dim names, from either end.
Named(c, rank) == 1 + (c.axis % rank)

\* The sum over the elements of t that p is left of without coordinate k.
LineSum(t, p, k) ==
    Total({q \in Positions(t.shape) :
               \A i \in DOMAIN p : p[i] = q[IF i < k THEN i ELSE i + 1]},
          LAMBDA q : At(t, q))

\* The mean over the positions of shape.
MeanOver(shape, f(_)) == Over(Total(Positions(shape), f), Cardinality(Positions(shape)) % P)

\* The term of each loss at position p of the broadcast inputs x and y.
LossAt(op, x, y, p) ==
    LET u == At(x, p)
        v == At(y, p)
    IN  CASE op = "mse" -> Times(Minus(u, v), Minus(u, v))
          [] op = "bce" -> Minus(0, Plus(Times(v, Log(u)), Times(Minus(1, v), Log(Minus(1, u)))))
          [] op = "cross_entropy" -> Minus(0, Times(v, Log(SoftmaxAt(x, p, Len(x.shape)))))

\* A slice of the first axis keeps it, with one coordinate.
Sliced(s) == <<1>> \o Tail(s)

\* The element of slice p[1] of t that is repeated at position Tail(p).
SliceAt(t, p) ==
    t.data[OffsetOf([ProjectTo(Tail(p), Sliced(t.shape)) EXCEPT ![1] = p[1]], t.shape)]

\* The element at position p of the stack of the mapped function's values.
MappedAt(fn, in, p) ==
    CASE fn = "neg" -> Minus(0, SliceAt(in[1], p))
      [] fn = "mul" -> Times(SliceAt(in[1], p), SliceAt(in[2], p))
      [] fn = "sum" -> Total({q \in Positions(in[1].shape) : q[1] = p[1]},
                             LAMBDA q : At(in[1], q))

\* The shape that two shapes are both repeated to, or none.
RightBroadcasts(a, b) ==
    LET rank == BroadcastRank(a, b)
        dims == [i \in 1 .. rank |-> <<DimUnder(a, rank, i), DimUnder(b, rank, i)>>]
    IN  {t \in [1 .. rank -> UNION {{dims[i][1], dims[i][2]} : i \in 1 .. rank}] :
            \A i \in 1 .. rank, k \in {1, 2} :
                dims[i][k] # t[i] => dims[i][k] = 1 /\ t[i] = dims[i][3 - k]}

\* The shape of a product of matrices, or none.
RightProducts(a, b) ==
    IF Len(a) = 2 /\ Len(b) = 2 /\ a[2] = b[1] THEN {<<a[1], b[2]>>} ELSE {}

\* The slices of every argument stacked: none if the first has more of them.
RightStacks(fn, s) ==
    IF \E k \in DOMAIN s : Len(s[k]) = 0 \/ s[k][1] < s[1][1]
    THEN {}
    ELSE CASE fn = "sum" -> {<<s[1][1]>>}
           [] fn = "neg" -> {<<s[1][1]>> \o Sliced(s[1])}
           [] fn = "mul" -> {<<s[1][1]>> \o t :
                                t \in RightBroadcasts(Sliced(s[1]), Sliced(s[2]))}

\* The shape that a call should return, <<>> inside the set, or none.
RightShapes(c) ==
    LET s == c.shapes
    IN  CASE c.op \in Elementwise     -> RightBroadcasts(s[1], s[2])
          [] c.op \in Losses          ->
                {<<>> : t \in {u \in RightBroadcasts(s[1], s[2]) :
                                 c.op = "cross_entropy" => Len(s[1]) > 0}}
          [] c.op \in Unary \cup {"Softmax", "scalar"} -> {s[1]}
          [] c.op \in {"sum", "mean"} -> {<<>>}
          [] c.op \in {"sum_axis", "mean_axis"} ->
                {[i \in 1 .. Len(s[1]) - 1 |-> s[1][IF i < Named(c, Len(s[1])) THEN i ELSE i + 1]]}
          [] c.op = "vmap"    -> RightStacks(c.fn, s)
          [] c.op = "linear"  ->
                UNION {RightBroadcasts(t, s[3]) : t \in RightProducts(s[1], s[2])}
          [] c.op = "softmax" -> {s[1]} \ {<<>>}
          [] c.op = "matmul"  -> RightProducts(s[1], s[2])
          [] c.op = "conv2d"  ->
                {t \in {<<s[1][1], s[2][1], Fits(s[1][3], s[2][3], c.stride, c.padding),
                                            Fits(s[1][4], s[2][4], c.stride, c.padding)>>} :
                    s[1][2] = s[2][2] /\ t[3] > 0 /\ t[4] > 0}

\* The operands of an operator between x and a number.
WithNumber(c, x) == IF c.reversed THEN <<3, x>> ELSE <<x, 3>>

\* The element that the call should return at position p.
RightElement(c, in, p) ==
    CASE c.op \in Elementwise -> Scalar(c.op, At(in[1], p), At(in[2], p))
      [] c.op = "scalar"  -> LET u == WithNumber(c, At(in[1], p)) IN Scalar(c.fn, u[1], u[2])
      [] c.op = "sum"     -> SumOf(in[1])
      [] c.op = "mean"    -> Over(SumOf(in[1]), Numel(in[1].shape) % P)
      [] c.op \in Unary   -> UnaryScalar(c.op, At(in[1], p))
      [] c.op \in Losses  ->
            LET shape == BroadcastShape(in[1].shape, in[2].shape)
            IN  MeanOver(shape, LAMBDA q : LossAt(c.op, in[1], in[2], q))
      [] c.op = "softmax" -> SoftmaxAt(in[1], p, Len(p))
      [] c.op = "Softmax" -> SoftmaxAt(in[1], p, Named(c, Len(p)))
      [] c.op = "sum_axis"  -> LineSum(in[1], p, Named(c, Len(in[1].shape)))
      [] c.op = "mean_axis" -> LET k == Named(c, Len(in[1].shape))
                               IN  Over(LineSum(in[1], p, k), in[1].shape[k] % P)
      [] c.op = "vmap"    -> MappedAt(c.fn, in, p)
      [] c.op = "matmul"  -> ProductAt(in[1], in[2], p)
      [] c.op = "linear"  -> Plus(ProductAt(in[1], in[2], p), At(in[3], p))
      [] c.op = "conv2d"  -> CorrelationAt(in[1], in[2], in[3], c.stride, c.padding, p)

\* The partial derivatives of the elementwise ops.
Slope(op, x, y) ==
    CASE op = "add" -> <<1, 1>>
      [] op = "sub" -> <<1, P - 1>>
      [] op = "mul" -> <<y, x>>
      [] op = "div" -> <<Over(1, y), Minus(0, Over(x, Times(y, y)))>>
      [] op = "pow" -> <<Times(y, Power(x, y - 1)), Times(Power(x, y), Log(x))>>

\* The derivatives of the unary ops, by the rules for quotients.
UnarySlope(op, x) ==
    CASE op = "neg"     -> P - 1
      [] op = "exp"     -> Exp(x)
      [] op = "log"     -> Over(1, x)
      [] op = "abs"     -> Over(x, UnaryScalar("abs", x))
      [] op = "relu"    -> IF Positive(x) THEN 1 ELSE 0
      [] op = "sigmoid" -> Over(Exp(-x), Times(Plus(1, Exp(-x)), Plus(1, Exp(-x))))
      [] op = "tanh"    -> Over(4, Times(Plus(Exp(x), Exp(-x)), Plus(Exp(x), Exp(-x))))

\* The partial derivatives of the terms of the losses of numbers u and v.
LossSlope(op, u, v) ==
    CASE op = "mse" -> <<Times(2, Minus(u, v)), Times(2, Minus(v, u))>>
      [] op = "bce" -> <<Minus(Over(Minus(1, v), Minus(1, u)), Over(v, u)),
                         Minus(Log(Minus(1, u)), Log(u))>>

\* The sum over the positions of the output that read element i of input k
\* of what each owes it.
ElementwiseGrad(k, i) ==
    Total({p \in Positions(output.shape) :
               OffsetOf(ProjectTo(p, inputs[k].shape), inputs[k].shape) = i},
          LAMBDA p : Times(At(og, p), Slope(call.op, At(inputs[1], p), At(inputs[2], p))[k]))

SoftmaxGrad(p) ==
    Total(RowAround(output, p), LAMBDA q :
        Times(At(og, q), Times(At(output, q),
                               Minus(IF p = q THEN 1 ELSE 0, At(output, p)))))

\* The sum over the positions of the broadcast inputs that read element i of
\* input k.
LossGrad(k, i) ==
    LET shape == BroadcastShape(inputs[1].shape, inputs[2].shape)
    IN  MeanOver(shape, LAMBDA p :
            IF OffsetOf(ProjectTo(p, inputs[k].shape), inputs[k].shape) = i
            THEN Times(og.data[0], LossSlope(call.op, At(inputs[1], p), At(inputs[2], p))[k])
            ELSE 0)

\* The derivative of the mean of -log(softmax(x)) * y, element by element.
CrossEntropyGrad(p) ==
    LET x    == inputs[1]
        y    == inputs[2]
        s(q) == SoftmaxAt(x, q, Len(q))
        n    == Cardinality(Positions(x.shape)) % P
        scale == Over(og.data[0], n)
    IN  <<Times(scale, Total(RowAround(x, p), LAMBDA q :
                    Times(At(y, q), Minus(s(p), IF p = q THEN 1 ELSE 0)))),
          Times(scale, Minus(0, Log(s(p))))>>

\* The loss whose gradient the kernel is given, as a function of the inputs.
Loss(in) ==
    IF call.op = "linear"
    THEN Total(Positions(output.shape), LAMBDA p : Times(At(og, p), RightElement(call, in, p)))
    ELSE LET y == Computed(call, in)
         IN  Total(DOMAIN y.data, LAMBDA o : Times(og.data[o], y.data[o]))

\* Its change when element i of input k grows by one: the derivative, for an
\* op that is linear in each of its inputs.
LinearGrad(k, i, loss) ==
    Minus(Loss([inputs EXCEPT ![k].data[i] = Plus(@, 1)]), loss)

IsDerivative(k) ==
    LET x    == inputs[k]
        g(i) == grads[k].data[i]
    IN  CASE call.op \in Elementwise ->
                \A i \in Offsets(x.shape) : g(i) = ElementwiseGrad(k, i)
          [] call.op \in Unary ->
                \A i \in Offsets(x.shape) :
                    g(i) = Times(og.data[i], UnarySlope(call.op, x.data[i]))
          [] call.op = "scalar" ->
                \A i \in Offsets(x.shape) :
                    LET u == WithNumber(call, x.data[i]) IN
                    g(i) = Times(og.data[i],
                                 Slope(call.fn, u[1], u[2])[IF call.reversed THEN 2 ELSE 1])
          [] call.op \in {"mse", "bce"} ->
                \A i \in Offsets(x.shape) : g(i) = LossGrad(k, i)
          [] call.op = "cross_entropy" ->
                \A p \in Positions(x.shape) : At(grads[k], p) = CrossEntropyGrad(p)[k]
          [] call.op = "softmax" ->
                \A p \in Positions(x.shape) : At(grads[k], p) = SoftmaxGrad(p)
          [] OTHER ->
                LET loss == Loss(inputs)
                IN  \A i \in Offsets(x.shape) : g(i) = LinearGrad(k, i, loss)

\* stride and padding are no differentiable inputs of conv2d.
Differentiable == {k \in Inputs : k <= 3}

\* A divisor that the numerator repeats: DivGradientIsDerivative is about it.
RepeatedDivisor(k) ==
    call.op = "div" /\ k = 2 /\ Numel(inputs[2].shape) < Numel(output.shape)

-----------------------------------------------------------------------------
(* Properties.                                                             *)

\* Every tensor has one number per offset of its shape, and the gradient of
\* an input has the shape of that input (autograd.cpp allocates it so, and
\* adds it element by element).
IsTensor(t) == DOMAIN t.data = Offsets(t.shape) /\ \A i \in DOMAIN t.data : t.data[i] \in Floats

TypeOK ==
    /\ pc \in {"forward", "thrown", "recorded", "backward", "done"}
    /\ done \in 0 .. Len(OpsOf(call))
    /\ \A k \in DOMAIN values : IsTensor(values[k])
    /\ DOMAIN grads \subseteq DOMAIN values
    /\ \A k \in DOMAIN grads : /\ IsTensor(grads[k])
                               /\ grads[k].shape = values[k].shape
    /\ pc = "done" => Inputs \subseteq DOMAIN grads

\* Every forward returns the array that the op is named after, on every
\* combination of shapes, and throws exactly when there is no such array.
\* The strides, offsets and skipped iterations of the code are compared with
\* coordinates: broadcasting aligned on the right, rows of the last axis,
\* products of rows and columns, correlation with a zero border, stacked
\* slices; and the ops of a loss or layer with the formula it stands for.
ForwardIsRight ==
    /\ pc = "thrown" => RightShapes(call) = {}
    /\ pc = "recorded" =>
          /\ output.shape \in RightShapes(call)
          /\ \A p \in Positions(output.shape) :
                output.data[OffsetOf(p, output.shape)] = RightElement(call, inputs, p)

\* What the backwards leave in the gradients of the inputs of a call is its
\* derivative along the gradient put in its output: contributions of repeated
\* elements are summed into the element they repeat, none is lost and none is
\* added to a neighbour, and in a loss the gradients of all ops that read a
\* tensor arrive in a shape that can be added.  The divisor of a broadcast div is left to
\* DivGradientIsDerivative.
GradientsAreDerivatives ==
    pc = "done" => \A k \in Differentiable : RepeatedDivisor(k) \/ IsDerivative(k)

\* op_kernels.cpp:194 promises "d/da = og / b; d/db = -og * a / b^2" of div.
\* When b is repeated, b * b is computed offset by offset into an array of
\* the shape of the output: the offsets past the last one of b stay at zero
\* and are divided by.
DivGradientIsDerivative ==
    pc = "done" /\ call.op = "div" => \A k \in Differentiable : IsDerivative(k)
=============================================================================
