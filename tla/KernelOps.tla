------------------------------ MODULE KernelOps ------------------------------
(***************************************************************************)
(* The CPU kernels of core/op_kernels.cpp: what the forward of each op     *)
(* puts in its output and what its backward puts in the gradients of its   *)
(* inputs, on float arrays addressed by offsets.                           *)
(*                                                                         *)
(* A tensor is [shape, data] with data on 0 .. Numel(shape) - 1.  Tensors  *)
(* made inside a kernel start at zero (CPUStorage fills its bytes with 0), *)
(* and so do the gradients a backward adds to (autograd.cpp:48-50).        *)
(***************************************************************************)
EXTENDS Broadcasting, FloatArithmetic

Tensor(shape, Data(_)) == [shape |-> shape, data |-> [i \in Offsets(shape) |-> Data(i)]]

Zeros(shape) == Tensor(shape, LAMBDA i : 0)

Elementwise == {"add", "sub", "mul", "div", "pow"}

\* The lambda given to the loop of each elementwise op.
Scalar(op, x, y) ==
    CASE op = "add" -> Plus(x, y)
      [] op = "sub" -> Minus(x, y)
      [] op = "mul" -> Times(x, y)
      [] op = "div" -> Over(x, y)
      [] op = "pow" -> Power(x, y)

\* run_binary_bwd_op and the forwards: inputs of one shape are combined
\* offset by offset, as many as THEY have, whatever the shape of c is.
RunBinary(op, a, b, c) ==
    IF a.shape = b.shape
    THEN Tensor(c, LAMBDA i : IF i < Numel(a.shape) THEN Scalar(op, a.data[i], b.data[i]) ELSE 0)
    ELSE Tensor(c, LAMBDA i : Scalar(op, a.data[OperandOffset(i, a.shape, c)],
                                         b.data[OperandOffset(i, b.shape, c)]))

ReduceTo_KeepsShape(g, target) ==
    IF Numel(g.shape) = Numel(target)
    THEN g
    ELSE Tensor(target, LAMBDA o :
             Total({i \in Offsets(g.shape) : ReducedOffset(i, g.shape, target) = o},
                   LAMBDA i : g.data[i]))

\* reduce_to_input_shape: the gradient of the output, copied when it has as
\* many elements as the input, and else summed over the repeated axes.
ReduceTo(g, target) ==
    IF Numel(g.shape) = Numel(target)
    THEN Tensor(target, LAMBDA i : g.data[i])
    ELSE Tensor(target, LAMBDA o :
             Total({i \in Offsets(g.shape) : ReducedOffset(i, g.shape, target) = o},
                   LAMBDA i : g.data[i]))

\* The forward of an elementwise op on inputs that broadcast.
Binary(op, a, b) == RunBinary(op, a, b, BroadcastShape(a.shape, b.shape))

Negated(t) == Tensor(t.shape, LAMBDA i : Minus(0, t.data[i]))

\* The gradients that the backward of each elementwise op computes from the
\* inputs a and b and the gradient g of its output.
AddBackward(a, b, g) == <<ReduceTo(g, a.shape), ReduceTo(g, b.shape)>>

SubBackward(a, b, g) == <<ReduceTo(g, a.shape), ReduceTo(Negated(g), b.shape)>>

MulBackward(a, b, g) ==
    <<ReduceTo(RunBinary("mul", b, g, g.shape), a.shape),
      ReduceTo(RunBinary("mul", a, g, g.shape), b.shape)>>

DivBackward(a, b, g) ==
    LET tmp1 == RunBinary("mul", g, a, g.shape)
        tmp2 == RunBinary("mul", b, b, g.shape)
    IN  <<ReduceTo(RunBinary("div", g, b, g.shape), a.shape),
          ReduceTo(Negated(RunBinary("div", tmp1, tmp2, g.shape)), b.shape)>>

\* The base is positive here, so a_safe = max(a, 1e-12) is a.
PowBackward(a, b, g) ==
    LET ones        == Tensor(b.shape, LAMBDA i : 1)
        b_minus_one == RunBinary("sub", b, ones, b.shape)
        a_pow       == RunBinary("pow", a, b_minus_one, g.shape)
        tmp_ga      == RunBinary("mul", a_pow, b, g.shape)
        ab          == RunBinary("pow", a, b, g.shape)
        log_a       == Tensor(a.shape, LAMBDA i : Log(a.data[i]))
        ab_log_a    == RunBinary("mul", ab, log_a, g.shape)
    IN  <<ReduceTo(RunBinary("mul", tmp_ga, g, g.shape), a.shape),
          ReduceTo(RunBinary("mul", ab_log_a, g, g.shape), b.shape)>>

ElementwiseBackward(op, a, b, g) ==
    CASE op = "add" -> AddBackward(a, b, g)
      [] op = "sub" -> SubBackward(a, b, g)
      [] op = "mul" -> MulBackward(a, b, g)
      [] op = "div" -> DivBackward(a, b, g)
      [] op = "pow" -> PowBackward(a, b, g)

Unary == {"neg", "exp", "log", "abs", "relu", "sigmoid", "tanh"}

Sigmoid(x) == Over(1, Plus(1, Exp(-x)))

\* The loop body of each unary forward.
UnaryScalar(op, x) ==
    CASE op = "neg"     -> Minus(0, x)
      [] op = "exp"     -> Exp(x)
      [] op = "log"     -> Log(x)
      [] op = "abs"     -> IF Positive(x) THEN x ELSE Minus(0, x)
      [] op = "relu"    -> IF Positive(x) THEN x ELSE 0
      [] op = "sigmoid" -> Sigmoid(x)
      [] op = "tanh"    -> Tanh(x)

\* The lambda given to register_unary for the backward: the gradient of an
\* element x of the input whose output has the gradient g.
UnaryGrad(op, x, g) ==
    CASE op = "neg"     -> Minus(0, g)
      [] op = "exp"     -> Times(Exp(x), g)
      [] op = "log"     -> Over(g, x)
      [] op = "abs"     -> IF Positive(x) THEN g
                           ELSE IF x = 0 THEN 0 ELSE Minus(0, g)
      [] op = "relu"    -> IF Positive(x) THEN g ELSE 0
      [] op = "sigmoid" -> Times(Times(Sigmoid(x), Minus(1, Sigmoid(x))), g)
      [] op = "tanh"    -> Times(Minus(1, Times(Tanh(x), Tanh(x))), g)

UnaryForward(op, a) == Tensor(a.shape, LAMBDA i : UnaryScalar(op, a.data[i]))

UnaryBackward(op, a, g) ==
    <<Tensor(a.shape, LAMBDA i : UnaryGrad(op, a.data[i], g.data[i]))>>

SumOf(a) == Total(DOMAIN a.data, LAMBDA i : a.data[i])

SumForward(a) == Tensor(<<>>, LAMBDA i : SumOf(a))

SumBackward(a, g) == <<Tensor(a.shape, LAMBDA i : g.data[0])>>

MeanForward(a) == Tensor(<<>>, LAMBDA i : Over(SumOf(a), Numel(a.shape) % P))

MeanBackward(a, g) ==
    <<Tensor(a.shape, LAMBDA i : Over(g.data[0], Numel(a.shape) % P))>>

\* The offsets of the row of C elements that offset i is in.
RowOf(i, C) == {(i \div C) * C + c : c \in 0 .. C - 1}

\* softmax along the last axis, each row shifted by its largest element.
SoftmaxForward(a) ==
    LET C == a.shape[Len(a.shape)]
        shifted(i) ==
            Exp(a.data[i] - (CHOOSE m \in {a.data[j] : j \in RowOf(i, C)} :
                                \A j \in RowOf(i, C) : a.data[j] <= m))
    IN  Tensor(a.shape, LAMBDA i : Over(shifted(i), Total(RowOf(i, C), shifted)))

SoftmaxBackward(y, g) ==
    LET C == y.shape[Len(y.shape)]
        dot(i) == Total(RowOf(i, C), LAMBDA j : Times(g.data[j], y.data[j]))
    IN  <<Tensor(y.shape, LAMBDA i : Times(y.data[i], Minus(g.data[i], dot(i))))>>

\* cpu_matmul and cpu_matmul_T: an M x K by a K x N product, the second with
\* B stored as N x K.
MatmulData(A, B, M, K, N) ==
    [o \in 0 .. M * N - 1 |->
        Total(0 .. K - 1, LAMBDA k : Times(A[(o \div N) * K + k], B[k * N + (o % N)]))]

MatmulTData(A, B, M, K, N) ==
    [o \in 0 .. M * N - 1 |->
        Total(0 .. K - 1, LAMBDA k : Times(A[(o \div N) * K + k], B[(o % N) * K + k]))]

MatmulForward(a, b) ==
    [shape |-> <<a.shape[1], b.shape[2]>>,
     data  |-> MatmulData(a.data, b.data, a.shape[1], a.shape[2], b.shape[2])]

MatmulBackward(a, b, g) ==
    LET M == a.shape[1]
        K == a.shape[2]
        N == b.shape[2]
        at == [o \in 0 .. K * M - 1 |-> a.data[(o % M) * K + (o \div M)]]
    IN  <<[shape |-> a.shape, data |-> MatmulTData(g.data, b.data, M, N, K)],
          [shape |-> b.shape, data |-> MatmulData(at, g.data, K, M, N)]>>

\* Integer division of C++ rounds towards zero.
Quotient(n, d) == IF n >= 0 THEN n \div d ELSE -((-n) \div d)

OutExtent(len, k, stride, padding) == Quotient(len - k + 2 * padding, stride) + 1

ConvShape(x, w, stride, padding) ==
    <<x[1], w[1], OutExtent(x[3], w[3], stride, padding),
                  OutExtent(x[4], w[4], stride, padding)>>

At4(shape, i, j, k, l) == ((i * shape[2] + j) * shape[3] + k) * shape[4] + l

\* The innermost iterations of the loops of conv2d, forward and backward,
\* that are not skipped for falling into the padding: the offsets they use.
Steps(x, w, out, stride, padding) ==
    {[out |-> At4(out, s.n, s.co, s.h, s.v), w |-> At4(w, s.co, s.ci, s.kh, s.kw),
      x |-> At4(x, s.n, s.ci, s.h * stride - padding + s.kh, s.v * stride - padding + s.kw)] :
        s \in {t \in [n : 0 .. x[1] - 1, co : 0 .. w[1] - 1, ci : 0 .. x[2] - 1,
                      h : 0 .. out[3] - 1, v : 0 .. out[4] - 1,
                      kh : 0 .. w[3] - 1, kw : 0 .. w[4] - 1] :
                  /\ t.h * stride - padding + t.kh \in 0 .. x[3] - 1
                  /\ t.v * stride - padding + t.kw \in 0 .. x[4] - 1}}

\* The output channel of an offset of the output.
ChannelOf(o, out) == (o \div (out[3] * out[4])) % out[2]

ConvForward(x, w, bias, stride, padding) ==
    LET out   == ConvShape(x.shape, w.shape, stride, padding)
        steps == Steps(x.shape, w.shape, out, stride, padding)
    IN  Tensor(out, LAMBDA o :
            Plus(bias.data[ChannelOf(o, out)],
                 Total({s \in steps : s.out = o},
                       LAMBDA s : Times(x.data[s.x], w.data[s.w]))))

\* stride and padding are tensors too; their gradients stay at zero.
ConvBackward(x, w, bias, stride, padding, g) ==
    LET steps == Steps(x.shape, w.shape, g.shape, stride, padding)
    IN  <<Tensor(x.shape, LAMBDA i : Total({s \in steps : s.x = i},
                      LAMBDA s : Times(g.data[s.out], w.data[s.w]))),
          Tensor(w.shape, LAMBDA i : Total({s \in steps : s.w = i},
                      LAMBDA s : Times(g.data[s.out], x.data[s.x]))),
          Tensor(bias.shape, LAMBDA c : Total({o \in DOMAIN g.data : ChannelOf(o, g.shape) = c},
                      LAMBDA o : g.data[o])),
          Zeros(<<1>>), Zeros(<<1>>)>>
=============================================================================
