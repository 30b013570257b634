------------------------------ MODULE LeafProofs ------------------------------
(***************************************************************************)
(* Theorems about the gradients that the program finds in its tensors, for *)
(* every set of ops, addresses and programs in which no Function is put    *)
(* where another one was: the recorded graph of a Function, differentiated *)
(* node by node, has the derivatives that the program's history has, and   *)
(* they arrive in the grad tensors of the very tensors, the one that the   *)
(* grad transform hands out included.                                      *)
(***************************************************************************)
EXTENDS TracingProofs

(* What the history tp says of the s-th Function.                          *)

TakenByValue(tp, s, w) ==
    \E i \in 1 .. Len(tp) : /\ tp[i].in = s /\ tp[i].byValue
                            /\ \E k \in DOMAIN tp[i].inputs : tp[i].inputs[k] = w

Broken(tp, s) ==
    \E i, j, k \in 1 .. Len(tp) :
       /\ i < j /\ j < k
       /\ tp[i].in = s /\ tp[j].in \notin {0, s} /\ tp[k].in = s

\* No other Function has recorded since it last did.
Latest(tp, s) ==
    \A i, j \in 1 .. Len(tp) : i < j /\ tp[i].in = s => tp[j].in \in {0, s}

\* A tensor is computed from earlier ones, with an op unless it is not recorded.
HistoryOK(tp, last) ==
    \A i \in 1 .. Len(tp) :
       /\ tp[i].in \in 0 .. last
       /\ \A k \in DOMAIN tp[i].inputs : tp[i].inputs[k] \in 1 .. (i - 1)
       /\ tp[i].in # 0 => tp[i].op \in Ops /\ DOMAIN tp[i].inputs = 1 .. Arity(tp[i].op)

(* What the graph of a Function has to do with it.                         *)

\* The nodes of ops are steps of it, and all steps of it have one.
NodesAreSteps(f, tp) ==
    \A n \in 1 .. Len(f.nodes) : ~IsParam(f.nodes, n) =>
       /\ tp[f.of[n]].in = f.serial /\ tp[f.of[n]].op = f.nodes[n].op
       /\ DOMAIN f.nodes[n].inputs = DOMAIN tp[f.of[n]].inputs

StepsAreNodes(f, tp) ==
    \A i \in 1 .. Len(tp) : tp[i].in = f.serial =>
       \E n \in 1 .. Len(f.nodes) : ~IsParam(f.nodes, n) /\ f.of[n] = i

HasStarted(f, tp) ==
    1 .. Len(f.nodes) # {} => \E i \in 1 .. Len(tp) : tp[i].in = f.serial

\* A param node has the grad tensor of its tensor.
GradsShared(f, ts, tp) ==
    \A n \in 1 .. Len(f.nodes) : IsParam(f.nodes, n) =>
       \/ tp[f.of[n]].dropped \/ TakenByValue(tp, f.serial, f.of[n])
       \/ f.cells[n] # 0 /\ f.cells[n] = ts[f.of[n]].grad

\* What was computed in the Function is no leaf of it.
ParamsAreLeaves(f, tp) ==
    \A n \in 1 .. Len(f.nodes) : IsParam(f.nodes, n) => tp[f.of[n]].in # f.serial

NodesDiffer(f, tp) ==
    \A n, m \in 1 .. Len(f.nodes) : f.of[n] = f.of[m] =>
       n = m \/ TakenByValue(tp, f.serial, f.of[n])

\* Only edges that do not count are missing, and an edge to a leaf counts.
EdgesCount(f, tp) ==
    \A n \in 1 .. Len(f.nodes) : ~IsParam(f.nodes, n) =>
       \A k \in DOMAIN f.nodes[n].inputs :
          LET p == f.nodes[n].inputs[k]
              t == tp[f.of[n]].inputs[k]
          IN  IF p = NoNode THEN tp[t].in # f.serial
              ELSE \/ ~IsParam(f.nodes, p) \/ tp[f.of[n]].needed[k]
                   \/ tp[t].dropped \/ TakenByValue(tp, f.serial, t)

TensorsAreHere(a, f, ts, tp) ==
    Latest(tp, f.serial) =>
       \A n \in 1 .. Len(f.nodes) :
          \/ ts[f.of[n]].producer = [graph |-> a, node |-> n]
          \/ IsParam(f.nodes, n) /\ TakenByValue(tp, f.serial, f.of[n])

Whole(a, f, ts, tp) ==
    /\ ParamsAreLeaves(f, tp) /\ NodesDiffer(f, tp) /\ EdgesCount(f, tp)
    /\ TensorsAreHere(a, f, ts, tp)

LeafGraph(a, f, ts, tp) ==
    /\ NodesAreSteps(f, tp) /\ StepsAreNodes(f, tp) /\ HasStarted(f, tp)
    /\ GradsShared(f, ts, tp)
    /\ Broken(tp, f.serial) \/ Whole(a, f, ts, tp)

-----------------------------------------------------------------------------
(* A graph that does not change, when tensors and history do.              *)

SameStep(x, y) ==
    /\ y.in = x.in /\ y.op = x.op /\ y.inputs = x.inputs /\ y.needed = x.needed
    /\ y.byValue = x.byValue /\ (x.dropped => y.dropped)

Grows(tp, tq, N, M) ==
    /\ Len(tp) = N /\ Len(tq) = M /\ N <= M
    /\ \A i \in 1 .. N : SameStep(tp[i], tq[i])

LEMMA HistoryKept ==
    ASSUME NEW N \in Nat, NEW M \in Nat, NEW tp, NEW tq, Grows(tp, tq, N, M), NEW s
    PROVE  /\ \A w : TakenByValue(tp, s, w) => TakenByValue(tq, s, w)
           /\ Broken(tp, s) => Broken(tq, s)
           /\ Latest(tq, s) => Latest(tp, s)
<1>1. 1 .. N \subseteq 1 .. M /\ Len(tp) = N /\ Len(tq) = M
  BY DEF Grows
<1>2. \A i \in 1 .. N : /\ tq[i].in = tp[i].in /\ tq[i].byValue = tp[i].byValue
                        /\ tq[i].inputs = tp[i].inputs
  BY DEF Grows, SameStep
<1>3. \A w : TakenByValue(tp, s, w) => TakenByValue(tq, s, w)
  BY <1>1, <1>2 DEF TakenByValue
<1>4. Broken(tp, s) => Broken(tq, s)
  <2> HAVE Broken(tp, s)
  <2>1. PICK i, j, k \in 1 .. N :
          i < j /\ j < k /\ tp[i].in = s /\ tp[j].in \notin {0, s} /\ tp[k].in = s
    BY <1>1 DEF Broken
  <2>2. QED
    BY <1>1, <1>2, <2>1 DEF Broken
<1>5. Latest(tq, s) => Latest(tp, s)
  <2> HAVE Latest(tq, s)
  <2>1. ASSUME NEW i \in 1 .. N, NEW j \in 1 .. N, i < j, tp[i].in = s
        PROVE  tp[j].in \in {0, s}
    BY <1>1, <1>2, <2>1 DEF Latest
  <2>2. QED
    BY <1>1, <2>1 DEF Latest
<1>6. QED
  BY <1>3, <1>4, <1>5

LEMMA GraphStays ==
    ASSUME NEW N \in Nat, NEW M \in Nat, NEW tp, NEW tq, Grows(tp, tq, N, M),
           NEW last, HistoryOK(tp, last),
           NEW a, NEW f, NEW g,
           g.nodes = f.nodes, g.cells = f.cells, g.of = f.of, g.serial = f.serial,
           \A n \in 1 .. Len(f.nodes) : f.of[n] \in 1 .. N,
           \A i \in (N + 1) .. M : tq[i].in # f.serial,
           NEW ts, NEW us,
           \A t \in 1 .. N : tq[t].dropped \/ ts[t].grad = 0 \/ us[t].grad = ts[t].grad,
           \/ \A t \in 1 .. N : us[t].producer = ts[t].producer
           \/ \E j \in (N + 1) .. M : tq[j].in \notin {0, f.serial},
           LeafGraph(a, f, ts, tp)
    PROVE  LeafGraph(a, g, us, tq)
<1> DEFINE s == f.serial
<1>1. /\ Len(tp) = N /\ Len(tq) = M /\ 1 .. N \subseteq 1 .. M
      /\ \A i \in 1 .. M : i \in 1 .. N \/ i \in (N + 1) .. M
  BY DEF Grows
<1>2. /\ \A i \in 1 .. N : SameStep(tp[i], tq[i])
      /\ \A w : TakenByValue(tp, s, w) => TakenByValue(tq, s, w)
      /\ Broken(tp, s) => Broken(tq, s)
      /\ Latest(tq, s) => Latest(tp, s)
  BY HistoryKept DEF Grows
<1>3. NodesAreSteps(g, tq)
  <2>1. NodesAreSteps(f, tp)
    BY DEF LeafGraph
  <2>2. \A i \in 1 .. N : tq[i].in = tp[i].in /\ tq[i].op = tp[i].op /\ tq[i].inputs = tp[i].inputs
    BY <1>2, Zenon DEF SameStep
  <2> SUFFICES ASSUME NEW i \in 1 .. Len(f.nodes), ~IsParam(f.nodes, i)
               PROVE  /\ tq[f.of[i]].in = f.serial /\ tq[f.of[i]].op = f.nodes[i].op
                      /\ DOMAIN f.nodes[i].inputs = DOMAIN tq[f.of[i]].inputs
    BY DEF NodesAreSteps, IsParam
  <2>3. QED
    BY <2>1, <2>2, Zenon DEF NodesAreSteps
<1>4. StepsAreNodes(g, tq)
  <2>1. ASSUME NEW i \in 1 .. M, tq[i].in = s
        PROVE  \E n \in 1 .. Len(g.nodes) : ~IsParam(g.nodes, n) /\ g.of[n] = i
    <3>1. i \in 1 .. N /\ tp[i].in = s
      BY <1>1, <1>2, <2>1 DEF SameStep
    <3>2. QED
      BY <1>1, <3>1 DEF LeafGraph, StepsAreNodes
  <2>2. QED
    BY <1>1, <2>1 DEF StepsAreNodes
<1>5. HasStarted(g, tq)
  <2> SUFFICES ASSUME 1 .. Len(f.nodes) # {} PROVE \E i \in 1 .. M : tq[i].in = s
    BY <1>1 DEF HasStarted
  <2>1. PICK i \in 1 .. N : tp[i].in = s
    BY <1>1 DEF LeafGraph, HasStarted
  <2>2. QED
    <3>1. tq[i].in = tp[i].in
      BY <1>2, Zenon DEF SameStep
    <3>2. QED
      BY <1>1, <2>1, <3>1, Zenon
<1>6. GradsShared(g, us, tq)
  <2>1. ASSUME NEW n \in 1 .. Len(f.nodes), IsParam(f.nodes, n)
        PROVE  \/ tq[f.of[n]].dropped \/ TakenByValue(tq, s, f.of[n])
               \/ f.cells[n] # 0 /\ f.cells[n] = us[f.of[n]].grad
    <3>1. \/ tp[f.of[n]].dropped \/ TakenByValue(tp, s, f.of[n])
          \/ f.cells[n] # 0 /\ f.cells[n] = ts[f.of[n]].grad
      BY <2>1 DEF LeafGraph, GradsShared
    <3>2. f.of[n] \in 1 .. N
      OBVIOUS
    <3>3. tp[f.of[n]].dropped => tq[f.of[n]].dropped
      BY <1>2, <3>2 DEF SameStep
    <3>4. QED
      BY <1>2, <3>1, <3>2, <3>3
  <2>2. QED
    BY <2>1 DEF GradsShared, IsParam
<1>7. ASSUME ~Broken(tq, s) PROVE Whole(a, g, us, tq)
  <2>1. Whole(a, f, ts, tp)
    BY <1>2, <1>7 DEF LeafGraph
  <2>2. ParamsAreLeaves(g, tq)
    BY <1>2, <2>1 DEF Whole, ParamsAreLeaves, SameStep, IsParam
  <2>3. NodesDiffer(g, tq)
    BY <1>2, <2>1 DEF Whole, NodesDiffer
  <2>4. EdgesCount(g, tq)
    <3> SUFFICES ASSUME NEW n \in 1 .. Len(f.nodes), ~IsParam(f.nodes, n),
                        NEW k \in DOMAIN f.nodes[n].inputs
                 PROVE  LET p == f.nodes[n].inputs[k]
                            t == tq[f.of[n]].inputs[k]
                        IN  IF p = NoNode THEN tq[t].in # s
                            ELSE \/ ~IsParam(f.nodes, p) \/ tq[f.of[n]].needed[k]
                                 \/ tq[t].dropped \/ TakenByValue(tq, s, t)
      BY DEF EdgesCount, IsParam
    <3> DEFINE i == f.of[n]
    <3> DEFINE t == tp[i].inputs[k]
    <3>1. i \in 1 .. N /\ k \in DOMAIN tp[i].inputs
      BY DEF LeafGraph, NodesAreSteps
    <3>2. t \in 1 .. N
      <4>1. t \in 1 .. (i - 1)
        BY <1>1, <3>1 DEF HistoryOK
      <4> HIDE DEF t, i
      <4>2. QED
        BY <3>1, <4>1
    <3>3. /\ tq[i].inputs[k] = t /\ tq[i].needed[k] = tp[i].needed[k]
          /\ tq[t].in = tp[t].in /\ (tp[t].dropped => tq[t].dropped)
      BY <1>2, <3>1, <3>2 DEF SameStep
    <3>4. LET p == f.nodes[n].inputs[k]
          IN  IF p = NoNode THEN tp[t].in # s
              ELSE \/ ~IsParam(f.nodes, p) \/ tp[i].needed[k]
                   \/ tp[t].dropped \/ TakenByValue(tp, s, t)
      BY <2>1 DEF Whole, EdgesCount
    <3> HIDE DEF t
    <3>5. QED
      BY <1>2, <3>3, <3>4
  <2>5. TensorsAreHere(a, g, us, tq)
    <3> SUFFICES ASSUME Latest(tq, s), NEW n \in 1 .. Len(f.nodes)
                 PROVE  \/ us[f.of[n]].producer = [graph |-> a, node |-> n]
                        \/ IsParam(f.nodes, n) /\ TakenByValue(tq, s, f.of[n])
      BY DEF TensorsAreHere, IsParam
    <3>1. \/ ts[f.of[n]].producer = [graph |-> a, node |-> n]
          \/ IsParam(f.nodes, n) /\ TakenByValue(tp, s, f.of[n])
      BY <1>2, <2>1 DEF Whole, TensorsAreHere
    <3>2. \A t \in 1 .. N : us[t].producer = ts[t].producer
      <4> SUFFICES ASSUME NEW j \in (N + 1) .. M, tq[j].in \notin {0, s} PROVE FALSE
        OBVIOUS
      <4>1. PICK i \in 1 .. N : tp[i].in = s
        BY <1>1 DEF LeafGraph, HasStarted
      <4>2. i \in 1 .. M /\ tq[i].in = s /\ j \in 1 .. M /\ i < j
        BY <1>1, <1>2, <4>1 DEF SameStep
      <4>3. QED
        BY <1>1, <4>2 DEF Latest
    <3>3. QED
      BY <1>2, <3>1, <3>2
  <2>6. QED
    BY <2>2, <2>3, <2>4, <2>5 DEF Whole
<1>8. QED
  BY <1>3, <1>4, <1>5, <1>6, <1>7 DEF LeafGraph

-----------------------------------------------------------------------------
(* What a recorded call adds: param nodes n + 1 .. n + c of the positions   *)
(* in R, in their order, node n + c + 1 of the op, and tensor N + 1.        *)

Listed(R, c, params) == \A i \in 1 .. c : params[i] \in R /\ Rank(R, params[i]) = i

RegisteredOK(a, R, ins, byValue, ts) ==
    \A k \in R : /\ ts[ins[k]].requiresGrad = TRUE /\ ts[ins[k]].producer.graph # a
                 /\ \A j \in R : ins[j] = ins[k] => byValue \/ j = k

\* cell[k] is the grad tensor of the tensor at position k.
GradsMade(R, ins, cell, ts) ==
    \A k \in R : /\ cell[k] # 0
                 /\ ts[ins[k]].grad # 0 => cell[k] = ts[ins[k]].grad

CellsAdded(f, g, n, c, params, cell) ==
    /\ \A i \in 1 .. n : g.cells[i] = f.cells[i]
    /\ \A i \in 1 .. c : g.cells[n + i] = cell[params[i]]
    /\ g.cells[n + c + 1] = 0

MarkedAs(a, n, R, ins, byValue, cell, t, x, y) ==
    \/ y = x /\ (byValue \/ \A k \in R : ins[k] # t)
    \/ \E k \in R : /\ ~byValue /\ ins[k] = t
                    /\ y.producer = [graph |-> a, node |-> n + Rank(R, k)]
                    /\ y.grad = cell[k] /\ y.requiresGrad = x.requiresGrad

TensorsMarked(a, n, c, N, R, ins, byValue, cell, ts0, ts1) ==
    /\ ts1[N + 1].producer = [graph |-> a, node |-> n + c + 1] /\ ts1[N + 1].grad = 0
    /\ \A t \in 1 .. N : MarkedAs(a, n, R, ins, byValue, cell, t, ts0[t], ts1[t])

InputsAre(a, n, m, R, ins, inputs, ts) ==
    /\ DOMAIN inputs = 1 .. m
    /\ \A k \in 1 .. m :
          \/ \E j \in R : inputs[k] = n + Rank(R, j) /\ ins[j] = ins[k]
          \/ ts[ins[k]].producer.graph = a /\ inputs[k] = ts[ins[k]].producer.node
          \/ inputs[k] = NoNode /\ ts[ins[k]].producer.graph # a

StepAdded(N, op, ins, byValue, s, needed, tp0, tp1) ==
    /\ Len(tp0) = N /\ Len(tp1) = N + 1
    /\ \A t \in 1 .. N : tp1[t] = tp0[t]
    /\ tp1[N + 1].in = s /\ tp1[N + 1].op = op /\ tp1[N + 1].inputs = ins
    /\ tp1[N + 1].byValue = byValue /\ tp1[N + 1].needed = needed

\* No tensor has a grad tensor without needing a gradient.
GradsNeeded(ts, N) == \A t \in 1 .. N : ts[t].grad # 0 => ts[t].requiresGrad = TRUE

CallRecorded(N, m, n, c, a, f, g, ts0, ts1, tp0, tp1, last, R, inputs, params, cell,
             op, byValue, ins, needed) ==
    /\ N \in Nat /\ m \in Nat /\ n \in Nat /\ c \in Nat
    /\ op # "param" /\ byValue \in BOOLEAN /\ ins \in [1 .. m -> 1 .. N]
    /\ \A k \in 1 .. m : needed[k] = ts0[ins[k]].requiresGrad
    /\ Len(f.nodes) = n /\ GraphOK(f, ts0) /\ Len(ts0) = N /\ ProducedBy(a, f, ts0)
    /\ EdgesOK(f, tp0)
    /\ \A i \in 1 .. n : \A k \in DOMAIN f.nodes[i].inputs : f.nodes[i].inputs[k] \in Nat
    /\ Chosen(R, c, m, params) /\ Listed(R, c, params)
    /\ RegisteredOK(a, R, ins, byValue, ts0)
    /\ GradsMade(R, ins, cell, ts0) /\ GradsNeeded(ts0, N) /\ HistoryOK(tp0, last)
    /\ NodesAdded(f, g, n, c, inputs) /\ g.nodes[n + c + 1].op = op
    /\ TensorsOfNodes(f, g, n, c, N, ins, params) /\ CellsAdded(f, g, n, c, params, cell)
    /\ TensorsMarked(a, n, c, N, R, ins, byValue, cell, ts0, ts1)
    /\ InputsAre(a, n, m, R, ins, inputs, ts0)
    /\ StepAdded(N, op, ins, byValue, f.serial, needed, tp0, tp1)
    /\ g.serial = f.serial /\ f.serial # 0 /\ LeafGraph(a, f, ts0, tp0)

LEMMA RecordedLeafGraph ==
    ASSUME NEW N, NEW m, NEW n, NEW c, NEW a, NEW f, NEW g, NEW ts0, NEW ts1, NEW tp0, NEW tp1,
           NEW last, NEW R, NEW inputs, NEW params, NEW cell, NEW op, NEW byValue, NEW ins,
           NEW needed,
           CallRecorded(N, m, n, c, a, f, g, ts0, ts1, tp0, tp1, last, R, inputs, params, cell,
                        op, byValue, ins, needed)
    PROVE  LeafGraph(a, g, ts1, tp1)
<1>0. /\ N \in Nat /\ m \in Nat /\ n \in Nat /\ c \in Nat
      /\ op # "param" /\ byValue \in BOOLEAN /\ ins \in [1 .. m -> 1 .. N]
      /\ \A k \in 1 .. m : needed[k] = ts0[ins[k]].requiresGrad
      /\ Len(f.nodes) = n /\ GraphOK(f, ts0) /\ Len(ts0) = N /\ ProducedBy(a, f, ts0)
      /\ EdgesOK(f, tp0)
      /\ \A i \in 1 .. n : \A k \in DOMAIN f.nodes[i].inputs : f.nodes[i].inputs[k] \in Nat
      /\ Chosen(R, c, m, params) /\ Listed(R, c, params)
      /\ RegisteredOK(a, R, ins, byValue, ts0)
      /\ GradsMade(R, ins, cell, ts0) /\ GradsNeeded(ts0, N) /\ HistoryOK(tp0, last)
      /\ NodesAdded(f, g, n, c, inputs) /\ g.nodes[n + c + 1].op = op
      /\ TensorsOfNodes(f, g, n, c, N, ins, params) /\ CellsAdded(f, g, n, c, params, cell)
      /\ TensorsMarked(a, n, c, N, R, ins, byValue, cell, ts0, ts1)
      /\ InputsAre(a, n, m, R, ins, inputs, ts0)
      /\ StepAdded(N, op, ins, byValue, f.serial, needed, tp0, tp1)
      /\ g.serial = f.serial /\ f.serial # 0 /\ LeafGraph(a, f, ts0, tp0)
  BY DEF CallRecorded
<1> USE <1>0
<1> DEFINE s == f.serial
<1> DEFINE z == n + c + 1
<1>1. /\ Len(tp0) = N /\ Len(tp1) = N + 1 /\ Len(g.nodes) = z
      /\ \A t \in 1 .. N : tp1[t] = tp0[t]
      /\ tp1[N + 1].in = s /\ tp1[N + 1].op = op /\ tp1[N + 1].inputs = ins
      /\ tp1[N + 1].byValue = byValue /\ tp1[N + 1].needed = needed
  BY DEF StepAdded, NodesAdded
<1>2. /\ 1 .. N \subseteq 1 .. N + 1 /\ N + 1 \in 1 .. N + 1
      /\ \A t \in 1 .. N + 1 : t \in 1 .. N \/ t = N + 1
      /\ z \in 1 .. z /\ 1 .. n \subseteq 1 .. z /\ N + 1 \notin 1 .. N
      /\ \A i \in 1 .. c : n + i \in 1 .. z
  OBVIOUS
<1>3. \A i \in 1 .. z : i \in 1 .. n \/ i = z \/ \E j \in 1 .. c : i = n + j
  BY NewNode
<1>4. \A i \in 1 .. n : /\ g.nodes[i] = f.nodes[i] /\ g.of[i] = f.of[i]
                        /\ g.cells[i] = f.cells[i] /\ f.of[i] \in 1 .. N
                        /\ IsParam(g.nodes, i) = IsParam(f.nodes, i)
  BY DEF NodesAdded, TensorsOfNodes, CellsAdded, GraphOK, IsParam
<1>5. \A i \in 1 .. c : /\ IsParam(g.nodes, n + i) /\ params[i] \in R
                        /\ g.of[n + i] = ins[params[i]] /\ ins[params[i]] \in 1 .. N
                        /\ g.cells[n + i] = cell[params[i]] /\ Rank(R, params[i]) = i
  <2> SUFFICES ASSUME NEW i \in 1 .. c
               PROVE  /\ IsParam(g.nodes, n + i) /\ params[i] \in R
                      /\ g.of[n + i] = ins[params[i]] /\ ins[params[i]] \in 1 .. N
                      /\ g.cells[n + i] = cell[params[i]] /\ Rank(R, params[i]) = i
    OBVIOUS
  <2>1. params[i] \in R /\ Rank(R, params[i]) = i
    BY DEF Listed
  <2>2. params[i] \in 1 .. m
    BY <2>1 DEF Chosen
  <2>3. ins[params[i]] \in 1 .. N
    BY <2>2
  <2>4. g.of[n + i] = ins[params[i]] /\ g.cells[n + i] = cell[params[i]]
    BY DEF TensorsOfNodes, CellsAdded
  <2>5. IsParam(g.nodes, n + i)
    <3>1. g.nodes[n + i] = ParamNode
      BY DEF NodesAdded
    <3>2. QED
      BY <3>1 DEF IsParam, ParamNode
  <2>6. QED
    BY <2>1, <2>3, <2>4, <2>5
<1>6. ~IsParam(g.nodes, z) /\ g.nodes[z].inputs = inputs /\ g.of[z] = N + 1 /\ g.nodes[z].op = op
  BY DEF NodesAdded, TensorsOfNodes, IsParam
<1>7. Grows(tp0, tp1, N, N + 1)
  BY <1>1 DEF Grows, SameStep
<1>8. /\ \A w : TakenByValue(tp0, s, w) => TakenByValue(tp1, s, w)
      /\ Broken(tp0, s) => Broken(tp1, s)
  <2>1. N \in Nat /\ N + 1 \in Nat
    OBVIOUS
  <2> HIDE <1>0
  <2>2. QED
    BY <1>7, <2>1, HistoryKept
<1>9. \A k \in R : byValue => TakenByValue(tp1, s, ins[k])
  <2> SUFFICES ASSUME NEW k \in R, byValue PROVE TakenByValue(tp1, s, ins[k])
    OBVIOUS
  <2>1. k \in DOMAIN ins
    BY DEF Chosen
  <2>2. QED
    BY <1>1, <1>2, <2>1 DEF TakenByValue
<1> HIDE DEF z
<1>10. NodesAreSteps(g, tp1)
  <2> SUFFICES ASSUME NEW i \in 1 .. z, ~IsParam(g.nodes, i)
               PROVE  /\ tp1[g.of[i]].in = s /\ tp1[g.of[i]].op = g.nodes[i].op
                      /\ DOMAIN g.nodes[i].inputs = DOMAIN tp1[g.of[i]].inputs
    BY <1>1 DEF NodesAreSteps
  <2>1. CASE i \in 1 .. n
    <3>1. g.nodes[i] = f.nodes[i] /\ g.of[i] = f.of[i] /\ tp1[f.of[i]] = tp0[f.of[i]]
          /\ ~IsParam(f.nodes, i)
      BY <1>1, <1>4, <2>1
    <3>2. /\ tp0[f.of[i]].in = s /\ tp0[f.of[i]].op = f.nodes[i].op
          /\ DOMAIN f.nodes[i].inputs = DOMAIN tp0[f.of[i]].inputs
      BY <2>1, <3>1 DEF LeafGraph, NodesAreSteps
    <3>3. QED
      BY <3>1, <3>2
  <2>2. CASE i = z
    BY <1>1, <1>6, <2>2 DEF InputsAre
  <2>3. QED
    BY <1>3, <1>5, <2>1, <2>2
<1>11. StepsAreNodes(g, tp1)
  <2> SUFFICES ASSUME NEW t \in 1 .. N + 1, tp1[t].in = s
               PROVE  \E i \in 1 .. z : ~IsParam(g.nodes, i) /\ g.of[i] = t
    BY <1>1 DEF StepsAreNodes
  <2>1. CASE t \in 1 .. N
    <3>1. PICK i \in 1 .. n : ~IsParam(f.nodes, i) /\ f.of[i] = t
      BY <1>1, <2>1 DEF LeafGraph, StepsAreNodes
    <3>2. QED
      BY <1>2, <1>4, <3>1
  <2>2. CASE t = N + 1
    BY <1>2, <1>6, <2>2
  <2>3. QED
    BY <1>2, <2>1, <2>2
<1>12. HasStarted(g, tp1)
  BY <1>1, <1>2 DEF HasStarted
<1>13. GradsShared(g, ts1, tp1)
  <2> SUFFICES ASSUME NEW i \in 1 .. z, IsParam(g.nodes, i)
               PROVE  \/ tp1[g.of[i]].dropped \/ TakenByValue(tp1, s, g.of[i])
                      \/ g.cells[i] # 0 /\ g.cells[i] = ts1[g.of[i]].grad
    BY <1>1 DEF GradsShared
  <2>1. CASE i \in 1 .. n
    <3> DEFINE t == f.of[i]
    <3>1. \/ tp1[t].dropped \/ TakenByValue(tp1, s, t)
          \/ f.cells[i] # 0 /\ f.cells[i] = ts0[t].grad
      BY <1>1, <1>4, <1>8, <2>1 DEF LeafGraph, GradsShared
    <3>2. t \in 1 .. N /\ g.of[i] = t /\ g.cells[i] = f.cells[i]
      BY <1>4, <2>1
    <3>3. ts0[t].grad # 0 => ts1[t].grad = ts0[t].grad
      <4>1. MarkedAs(a, n, R, ins, byValue, cell, t, ts0[t], ts1[t])
        BY <3>2 DEF TensorsMarked
      <4>2. QED
        BY <4>1 DEF MarkedAs, GradsMade
    <3>4. QED
      BY <3>1, <3>2, <3>3
  <2>2. ASSUME NEW j \in 1 .. c, i = n + j
        PROVE  \/ TakenByValue(tp1, s, g.of[i])
               \/ g.cells[i] # 0 /\ g.cells[i] = ts1[g.of[i]].grad
    <3> DEFINE k == params[j]
    <3>1. k \in R /\ g.of[i] = ins[k] /\ ins[k] \in 1 .. N /\ g.cells[i] = cell[k]
      BY <1>5, <2>2
    <3> HIDE DEF k
    <3>2. CASE byValue
      BY <1>9, <3>1, <3>2
    <3>3. CASE ~byValue
      <4>1. MarkedAs(a, n, R, ins, byValue, cell, ins[k], ts0[ins[k]], ts1[ins[k]])
        BY <3>1 DEF TensorsMarked
      <4>2. \A l \in R : ins[l] = ins[k] => l = k
        BY <3>1, <3>3 DEF RegisteredOK
      <4>3. ts1[ins[k]].grad = cell[k]
        BY <3>1, <3>3, <4>1, <4>2 DEF MarkedAs
      <4>4. QED
        BY <3>1, <4>3 DEF GradsMade
    <3>4. QED
      BY <3>2, <3>3
  <2>3. QED
    BY <1>3, <1>6, <2>1, <2>2
<1>14. ASSUME ~Broken(tp1, s) PROVE Whole(a, g, ts1, tp1)
  <2>1. Whole(a, f, ts0, tp0)
    BY <1>8, <1>14 DEF LeafGraph
  <2>2. Latest(tp0, s)
    <3> SUFFICES ASSUME NEW i \in 1 .. N, NEW j \in 1 .. N, i < j, tp0[i].in = s,
                        tp0[j].in \notin {0, s}
                 PROVE  FALSE
      BY <1>1 DEF Latest
    <3>1. i \in 1 .. N + 1 /\ j \in 1 .. N + 1 /\ j < N + 1
      BY <1>2
    <3>2. tp1[i].in = s /\ tp1[j].in \notin {0, s} /\ tp1[N + 1].in = s
      BY <1>1
    <3>3. QED
      BY <1>1, <1>2, <1>14, <3>1, <3>2 DEF Broken
  <2>3. \A i \in 1 .. n : \/ ts0[f.of[i]].producer = [graph |-> a, node |-> i]
                          \/ IsParam(f.nodes, i) /\ TakenByValue(tp0, s, f.of[i])
    BY <2>1, <2>2 DEF Whole, TensorsAreHere
  <2>4. \A t \in 1 .. N : tp0[t].in = s => ts0[t].producer.graph = a
    <3> SUFFICES ASSUME NEW t \in 1 .. N, tp0[t].in = s PROVE ts0[t].producer.graph = a
      OBVIOUS
    <3>1. PICK i \in 1 .. n : ~IsParam(f.nodes, i) /\ f.of[i] = t
      BY <1>1 DEF LeafGraph, StepsAreNodes
    <3>2. ts0[t].producer = [graph |-> a, node |-> i]
      BY <2>3, <3>1
    <3>3. QED
      BY <3>2
  <2>5. \A k \in R : ins[k] \in 1 .. N /\ ts0[ins[k]].producer.graph # a
    BY DEF RegisteredOK, Chosen
  <2>6. ParamsAreLeaves(g, tp1)
    <3> SUFFICES ASSUME NEW i \in 1 .. z, IsParam(g.nodes, i) PROVE tp1[g.of[i]].in # s
      BY <1>1 DEF ParamsAreLeaves
    <3>1. CASE i \in 1 .. n
      <4>1. g.of[i] = f.of[i] /\ f.of[i] \in 1 .. N /\ IsParam(f.nodes, i)
        BY <1>4, <3>1
      <4>2. tp0[f.of[i]].in # s
        BY <2>1, <3>1, <4>1 DEF Whole, ParamsAreLeaves
      <4>3. QED
        BY <1>1, <4>1, <4>2
    <3>2. ASSUME NEW j \in 1 .. c, i = n + j PROVE tp1[g.of[i]].in # s
      <4> DEFINE t == ins[params[j]]
      <4>1. g.of[i] = t /\ params[j] \in R /\ t \in 1 .. N
        BY <1>5, <3>2
      <4>2. ts0[t].producer.graph # a
        BY <2>5, <4>1
      <4> HIDE DEF t
      <4>3. tp0[t].in # s
        BY <2>4, <4>1, <4>2
      <4>4. QED
        BY <1>1, <4>1, <4>3
    <3>3. QED
      BY <1>3, <1>6, <3>1, <3>2
  <2>7. NodesDiffer(g, tp1)
    <3>1. ASSUME NEW i \in 1 .. n, NEW j \in 1 .. n, g.of[i] = g.of[j]
          PROVE  i = j \/ TakenByValue(tp1, s, g.of[i])
      BY <1>4, <1>8, <2>1, <3>1 DEF Whole, NodesDiffer
    <3>2. ASSUME NEW i \in 1 .. n, NEW j \in 1 .. c, g.of[i] = g.of[n + j]
          PROVE  TakenByValue(tp1, s, g.of[i])
      <4> DEFINE t == ins[params[j]]
      <4>1. g.of[n + j] = t /\ params[j] \in R /\ f.of[i] = t /\ g.of[i] = t
        BY <1>4, <1>5, <3>2
      <4>2. ts0[t].producer.graph # a
        BY <2>5, <4>1
      <4> HIDE DEF t
      <4>3. ts0[t].producer # [graph |-> a, node |-> i]
        BY <4>2
      <4>4. TakenByValue(tp0, s, t)
        BY <2>3, <4>1, <4>3
      <4>5. QED
        BY <1>8, <4>1, <4>4
    <3>3. ASSUME NEW i \in 1 .. c, NEW j \in 1 .. c, g.of[n + i] = g.of[n + j]
          PROVE  n + i = n + j \/ TakenByValue(tp1, s, g.of[n + i])
      <4>1. params[i] \in R /\ params[j] \in R /\ ins[params[i]] = ins[params[j]]
        BY <1>5, <3>3
      <4>2. CASE byValue
        BY <1>5, <1>9, <4>1, <4>2
      <4>3. CASE ~byValue
        <5>1. params[i] = params[j]
          BY <4>1, <4>3 DEF RegisteredOK
        <5>2. QED
          BY <1>5, <5>1
      <4>4. QED
        BY <4>2, <4>3
    <3>4. \A i \in 1 .. n : g.of[i] # g.of[z]
      <4> SUFFICES ASSUME NEW i \in 1 .. n PROVE g.of[i] # g.of[z]
        OBVIOUS
      <4>1. g.of[i] \in 1 .. N /\ g.of[z] = N + 1
        BY <1>4, <1>6, Zenon
      <4>2. QED
        BY <1>2, <4>1
    <3>5. \A i \in 1 .. c : g.of[n + i] # g.of[z]
      <4> SUFFICES ASSUME NEW i \in 1 .. c PROVE g.of[n + i] # g.of[z]
        OBVIOUS
      <4>1. g.of[n + i] = ins[params[i]] /\ ins[params[i]] \in 1 .. N
        BY <1>5, Zenon
      <4>2. QED
        BY <1>2, <1>6, <4>1
    <3>6. QED
      <4> SUFFICES ASSUME NEW i \in 1 .. z, NEW j \in 1 .. z, g.of[i] = g.of[j]
                   PROVE  i = j \/ TakenByValue(tp1, s, g.of[i])
        BY <1>1 DEF NodesDiffer
      <4>1. CASE i \in 1 .. n
        BY <1>3, <3>1, <3>2, <3>4, <4>1
      <4>2. CASE i = z
        BY <1>3, <3>4, <3>5, <4>2
      <4>3. ASSUME NEW k \in 1 .. c, i = n + k
            PROVE  i = j \/ TakenByValue(tp1, s, g.of[i])
        BY <1>3, <3>2, <3>3, <3>5, <4>3, ZenonT(30)
      <4>4. QED
        BY <1>3, <4>1, <4>2, <4>3
  <2>8. EdgesCount(g, tp1)
    <3> DEFINE Good(i, k) ==
           LET p == g.nodes[i].inputs[k]
               t == tp1[g.of[i]].inputs[k]
           IN  IF p = NoNode THEN tp1[t].in # s
               ELSE \/ ~IsParam(g.nodes, p) \/ tp1[g.of[i]].needed[k]
                    \/ tp1[t].dropped \/ TakenByValue(tp1, s, t)
    <3>1. ASSUME NEW i \in 1 .. n, ~IsParam(g.nodes, i), NEW k \in DOMAIN g.nodes[i].inputs
          PROVE  Good(i, k)
      <4> DEFINE p == f.nodes[i].inputs[k]
      <4> DEFINE u == f.of[i]
      <4> DEFINE t == tp0[u].inputs[k]
      <4>1. /\ u \in 1 .. N /\ k \in DOMAIN f.nodes[i].inputs /\ ~IsParam(f.nodes, i)
            /\ g.nodes[i] = f.nodes[i] /\ g.of[i] = u
        BY <1>4, <3>1
      <4>2. k \in DOMAIN tp0[u].inputs
        BY <4>1 DEF LeafGraph, NodesAreSteps
      <4>3. t \in 1 .. (u - 1)
        BY <1>1, <4>1, <4>2 DEF HistoryOK
      <4>4. t \in 1 .. N
        <5> HIDE DEF t, u
        <5>1. QED
          BY <4>1, <4>3
      <4>5. p # NoNode => p \in 1 .. n
        <5>1. p \in Nat
          BY <4>1
        <5>2. EdgeOK(f, tp0, i, k)
          BY <4>1 DEF EdgesOK
        <5>3. p # NoNode => p < i
          BY <5>2, ZenonT(30) DEF EdgeOK
        <5> HIDE DEF p
        <5>4. QED
          BY <5>1, <5>3 DEF NoNode
      <4>6. IF p = NoNode THEN tp0[t].in # s
            ELSE \/ ~IsParam(f.nodes, p) \/ tp0[u].needed[k]
                 \/ tp0[t].dropped \/ TakenByValue(tp0, s, t)
        BY <2>1, <4>1 DEF Whole, EdgesCount
      <4>7. tp1[u] = tp0[u] /\ tp1[t] = tp0[t] /\ p = g.nodes[i].inputs[k]
        BY <1>1, <4>1, <4>4, ZenonT(30)
      <4>8. p # NoNode => IsParam(g.nodes, p) = IsParam(f.nodes, p)
        BY <1>4, <4>5, Zenon
      <4> HIDE DEF p
      <4>9. QED
        BY <1>8, <4>1, <4>6, <4>7, <4>8
    <3>2. ASSUME NEW k \in 1 .. m PROVE Good(z, k)
      <4> DEFINE p == inputs[k]
      <4> DEFINE t == ins[k]
      <4>1. /\ t \in 1 .. N /\ tp1[t] = tp0[t] /\ g.nodes[z].inputs[k] = p
            /\ tp1[g.of[z]].inputs[k] = t /\ tp1[g.of[z]].needed[k] = ts0[t].requiresGrad
        BY <1>1, <1>6
      <4>2. ASSUME NEW j \in R, p = n + Rank(R, j), ins[j] = t PROVE Good(z, k)
        <5>1. ts0[t].requiresGrad = TRUE
          BY <4>2 DEF RegisteredOK
        <5>2. n + Rank(R, j) # NoNode
          <6>1. Rank(R, j) \in 1 .. c
            BY ZenonT(30) DEF Chosen
          <6>2. QED
            BY <6>1 DEF NoNode
        <5>3. QED
          BY <4>1, <4>2, <5>1, <5>2
      <4>3. CASE ts0[t].producer.graph = a /\ p = ts0[t].producer.node
        <5>1. p \in 1 .. n /\ f.of[p] = t
          BY <4>1, <4>3 DEF ProducedBy
        <5>2. p # NoNode
          BY <5>1 DEF NoNode
        <5>3. CASE ~IsParam(f.nodes, p)
          BY <1>4, <4>1, <5>1, <5>2, <5>3
        <5>4. CASE IsParam(f.nodes, p)
          <6>1. tp0[t].dropped \/ TakenByValue(tp0, s, t) \/ ts0[t].grad # 0
            BY <5>1, <5>4 DEF LeafGraph, GradsShared
          <6>2. ts0[t].grad # 0 => ts0[t].requiresGrad = TRUE
            BY <4>1 DEF GradsNeeded
          <6>3. QED
            BY <1>8, <4>1, <5>2, <6>1, <6>2
        <5>5. QED
          BY <5>3, <5>4
      <4>4. CASE p = NoNode /\ ts0[t].producer.graph # a
        BY <2>4, <4>1, <4>4
      <4>5. QED
        BY <4>2, <4>3, <4>4 DEF InputsAre
    <3> HIDE DEF Good
    <3>3. ASSUME NEW i \in 1 .. z, ~IsParam(g.nodes, i), NEW k \in DOMAIN g.nodes[i].inputs
          PROVE  Good(i, k)
      <4>1. CASE i \in 1 .. n
        BY <3>1, <3>3, <4>1
      <4>2. CASE i = z
        <5>1. k \in 1 .. m
          BY <1>6, <3>3, <4>2 DEF InputsAre
        <5>2. QED
          BY <3>2, <4>2, <5>1
      <4>3. QED
        BY <1>3, <1>5, <3>3, <4>1, <4>2
    <3>4. g.serial = s /\ Len(g.nodes) = z
      BY <1>1
    <3>5. QED
      <4> SUFFICES ASSUME NEW i \in 1 .. z, ~IsParam(g.nodes, i), NEW k \in DOMAIN g.nodes[i].inputs
                   PROVE  Good(i, k)
        BY <3>4, ZenonT(60) DEF EdgesCount, Good
      <4>1. QED
        BY <3>3
  <2>9. TensorsAreHere(a, g, ts1, tp1)
    <3> SUFFICES ASSUME NEW i \in 1 .. z
                 PROVE  \/ ts1[g.of[i]].producer = [graph |-> a, node |-> i]
                        \/ IsParam(g.nodes, i) /\ TakenByValue(tp1, s, g.of[i])
      BY <1>1 DEF TensorsAreHere
    <3>1. CASE i \in 1 .. n
      <4> DEFINE t == f.of[i]
      <4>1. t \in 1 .. N /\ g.of[i] = t
        BY <1>4, <3>1
      <4>2. \/ ts0[t].producer = [graph |-> a, node |-> i]
            \/ IsParam(f.nodes, i) /\ TakenByValue(tp0, s, t)
        BY <2>3, <3>1
      <4>3. ts0[t].producer = [graph |-> a, node |-> i] => ts1[t] = ts0[t]
        <5> HAVE ts0[t].producer = [graph |-> a, node |-> i]
        <5>1. ts0[t].producer.graph = a
          OBVIOUS
        <5>2. MarkedAs(a, n, R, ins, byValue, cell, t, ts0[t], ts1[t])
          BY <4>1 DEF TensorsMarked
        <5>3. QED
          BY <2>5, <5>1, <5>2 DEF MarkedAs
      <4>4. QED
        BY <1>4, <1>8, <3>1, <4>1, <4>2, <4>3
    <3>2. ASSUME NEW j \in 1 .. c, i = n + j
          PROVE  \/ ts1[g.of[i]].producer = [graph |-> a, node |-> i]
                 \/ IsParam(g.nodes, i) /\ TakenByValue(tp1, s, g.of[i])
      <4> DEFINE k == params[j]
      <4>1. k \in R /\ g.of[i] = ins[k] /\ ins[k] \in 1 .. N /\ Rank(R, k) = j
        BY <1>5, <3>2
      <4> HIDE DEF k
      <4>2. CASE byValue
        BY <1>5, <1>9, <3>2, <4>1, <4>2
      <4>3. CASE ~byValue
        <5>1. MarkedAs(a, n, R, ins, byValue, cell, ins[k], ts0[ins[k]], ts1[ins[k]])
          BY <4>1 DEF TensorsMarked
        <5>2. \A l \in R : ins[l] = ins[k] => l = k
          BY <4>1, <4>3 DEF RegisteredOK
        <5>3. ts1[ins[k]].producer = [graph |-> a, node |-> n + Rank(R, k)]
          BY <4>1, <4>3, <5>1, <5>2 DEF MarkedAs
        <5>4. QED
          BY <3>2, <4>1, <5>3
      <4>4. QED
        BY <4>2, <4>3
    <3>3. CASE i = z
      BY <1>6, <3>3 DEF TensorsMarked, z
    <3>4. QED
      BY <1>3, <3>1, <3>2, <3>3
  <2>10. QED
    BY <2>6, <2>7, <2>8, <2>9 DEF Whole
<1>15. QED
  BY <1>10, <1>11, <1>12, <1>13, <1>14 DEF LeafGraph

-----------------------------------------------------------------------------
(* run_op does that.                                                        *)

LEMMA ListedInputs ==
    ASSUME NEW m \in Nat, NEW ins, DOMAIN ins = 1 .. m, NEW a, NEW byValue,
           NEW R, R = Registered(a, ins, byValue)
    PROVE  Listed(R, Cardinality(R), InOrder(R))
<1>1. R \subseteq 1 .. m /\ R \in SUBSET Nat
  BY DEF Registered
<1>2. IsFiniteSet(R)
  <2>1. IsFiniteSet(1 .. m)
    BY FS_Interval
  <2>2. QED
    BY <1>1, <2>1, FS_Subset
<1>3. Cardinality(R) \in Nat /\ {Rank(R, k) : k \in R} = 1 .. Cardinality(R)
  BY <1>1, <1>2, RankRange
<1>4. ASSUME NEW i \in 1 .. Cardinality(R)
      PROVE  InOrder(R)[i] \in R /\ Rank(R, InOrder(R)[i]) = i
  <2>1. \E k \in R : Rank(R, k) = i
    BY <1>3
  <2>2. InOrder(R)[i] = CHOOSE k \in R : Rank(R, k) = i
    BY DEF InOrder
  <2>3. QED
    BY <2>1, <2>2
<1>5. QED
  BY <1>4 DEF Listed

LEMMA RegisteredAre ==
    ASSUME NEW m \in Nat, NEW ins \in [1 .. m -> 1 .. Len(tensors)], NEW a,
           NEW byValue \in BOOLEAN, \A t \in 1 .. Len(tensors) : tensors[t].requiresGrad \in BOOLEAN,
           NEW R, R = Registered(a, ins, byValue)
    PROVE  RegisteredOK(a, R, ins, byValue, tensors)
<1> SUFFICES ASSUME NEW k \in R
             PROVE  /\ tensors[ins[k]].requiresGrad = TRUE
                    /\ tensors[ins[k]].producer.graph # a
                    /\ \A j \in R : ins[j] = ins[k] => byValue \/ j = k
  BY DEF RegisteredOK
<1>1. /\ k \in 1 .. m /\ tensors[ins[k]].requiresGrad /\ tensors[ins[k]].producer.graph # a
      /\ ins[k] \in 1 .. Len(tensors)
  BY DEF Registered
<1>2. ASSUME NEW j \in R, ins[j] = ins[k], ~byValue, j # k PROVE FALSE
  <2>1. j \in 1 .. m /\ \A i \in 1 .. (j - 1) : ins[i] # ins[j]
    BY <1>2 DEF Registered
  <2>2. \A i \in 1 .. (k - 1) : ins[i] # ins[k]
    BY <1>2 DEF Registered
  <2>3. j \in 1 .. (k - 1) \/ k \in 1 .. (j - 1)
    BY <1>1, <1>2, <2>1
  <2>4. QED
    BY <1>2, <2>1, <2>2, <2>3
<1>3. QED
  BY <1>1, <1>2

\* Whatever tensors the grad tensors are of, the new ones are of their tensors.
OwnersExtend(C, R, ins, cell) ==
    \A own : \E new : /\ \A i \in 1 .. C : new[i] = own[i]
                      /\ \A k \in R : \/ new[cell[k]] = ins[k]
                                        \/ cell[k] = tensors[ins[k]].grad

LEMMA GradsOfInputs ==
    ASSUME NEW m \in Nat, NEW C \in Nat, Len(gradOf) = C, NEW ins, DOMAIN ins = 1 .. m,
           NEW R, R \subseteq 1 .. m, NEW cell, cell = [k \in R |-> GradOf(R, ins, k)],
           \A k \in R : tensors[ins[k]].grad \in 0 .. C
    PROVE  /\ GradsMade(R, ins, cell, tensors)
           /\ OwnersExtend(C, R, ins, cell)
<1> DEFINE G == NewGrads(R, ins)
<1> DEFINE e == Cardinality(G)
<1>1. G \subseteq R /\ G \in SUBSET Nat
  <2>1. G \subseteq R
    BY DEF NewGrads
  <2>2. \A k \in G : k \in 1 .. m
    BY <2>1
  <2>3. QED
    BY <2>1, <2>2
<1>2. IsFiniteSet(G)
  <2>1. IsFiniteSet(1 .. m)
    BY FS_Interval
  <2> HIDE DEF G
  <2>2. QED
    BY <1>1, <2>1, FS_Subset
<1>3. /\ e \in Nat /\ InOrder(G) \in [1 .. e -> G]
      /\ \A k \in G : Rank(G, k) \in 1 .. e /\ InOrder(G)[Rank(G, k)] = k
  BY <1>1, <1>2, InOrderProperties
<1>4. ASSUME NEW k \in R
      PROVE  IF k \in G THEN cell[k] = C + Rank(G, k) /\ tensors[ins[k]].grad = 0
             ELSE cell[k] = tensors[ins[k]].grad /\ cell[k] # 0
  BY DEF GradOf, NewGrads
<1> HIDE DEF G, e
<1>5. GradsMade(R, ins, cell, tensors)
  <2>1. \A k \in G : C + Rank(G, k) # 0
    <3>1. \A k \in G : Rank(G, k) \in 1 .. e
      BY <1>3
    <3>2. QED
      BY <1>3, <3>1
  <2>2. QED
    BY <1>4, <2>1 DEF GradsMade
<1>6. ASSUME NEW own
      PROVE  \E new : /\ \A i \in 1 .. C : new[i] = own[i]
                      /\ \A k \in R : \/ new[cell[k]] = ins[k]
                                        \/ cell[k] = tensors[ins[k]].grad
  <2> DEFINE new == [i \in 1 .. C + e |->
                       IF i \in 1 .. C THEN own[i] ELSE ins[InOrder(G)[i - C]]]
  <2>1. \A i \in 1 .. C : new[i] = own[i]
    BY <1>3
  <2>2. ASSUME NEW k \in R PROVE new[cell[k]] = ins[k] \/ cell[k] = tensors[ins[k]].grad
    <3>1. CASE k \in G
      <4> PICK r : r = Rank(G, k)
        OBVIOUS
      <4>1. r \in 1 .. e /\ InOrder(G)[r] = k /\ cell[k] = C + r
        BY <1>3, <1>4, <3>1
      <4>2. C + r \in 1 .. C + e /\ C + r \notin 1 .. C /\ (C + r) - C = r
        BY <1>3, <4>1
      <4>3. QED
        BY <4>1, <4>2
    <3>2. CASE k \notin G
      BY <1>4, <3>2
    <3>3. QED
      BY <3>1, <3>2
  <2> HIDE DEF new
  <2>3. QED
    BY <2>1, <2>2
<1>7. QED
  BY <1>5, <1>6 DEF OwnersExtend

LEMMA MarkedTensors ==
    ASSUME TensorsOK, NEW a, NEW n, NEW R, NEW ins, NEW byValue \in BOOLEAN,
           NEW ts, ts = Marked(a, n, R, ins, byValue),
           NEW cell, cell = [k \in R |-> GradOf(R, ins, k)]
    PROVE  \A t \in 1 .. Len(tensors) :
              MarkedAs(a, n, R, ins, byValue, cell, t, tensors[t], ts[t])
<1> SUFFICES ASSUME NEW t \in 1 .. Len(tensors)
             PROVE  MarkedAs(a, n, R, ins, byValue, cell, t, tensors[t], ts[t])
  OBVIOUS
<1>1. t \in DOMAIN tensors /\ DOMAIN tensors[t] = TensorFields
  BY LenProperties DEF TensorsOK
<1>2. CASE byValue \/ ~\E k \in R : ins[k] = t
  <2>1. ts[t] = tensors[t]
    BY <1>1, <1>2 DEF Marked
  <2>2. QED
    BY <1>2, <2>1 DEF MarkedAs
<1>3. CASE ~byValue /\ \E k \in R : ins[k] = t
  <2> DEFINE k == CHOOSE k \in R : ins[k] = t
  <2>1. k \in R /\ ins[k] = t
    BY <1>3
  <2>2. ts[t] = [tensors[t] EXCEPT !.grad = GradOf(R, ins, k),
                    !.producer = [graph |-> a, node |-> n + Rank(R, k)]]
    BY <1>1, <1>3 DEF Marked
  <2>3. cell[k] = GradOf(R, ins, k)
    BY <2>1
  <2> HIDE DEF k
  <2>4. /\ ts[t].grad = cell[k] /\ ts[t].requiresGrad = tensors[t].requiresGrad
        /\ ts[t].producer = [graph |-> a, node |-> n + Rank(R, k)]
    BY <1>1, <2>2, <2>3 DEF TensorFields
  <2>5. QED
    BY <1>3, <2>1, <2>4 DEF MarkedAs
<1>4. QED
  BY <1>2, <1>3

LEMMA InputsOfCall ==
    ASSUME NEW m \in Nat, NEW ins, DOMAIN ins = 1 .. m, NEW a, NEW n, NEW R, NEW byValue,
           NEW inputs, inputs = [k \in DOMAIN ins |-> InputId(a, n, R, ins, byValue, k)]
    PROVE  InputsAre(a, n, m, R, ins, inputs, tensors)
<1> SUFFICES ASSUME NEW k \in 1 .. m
             PROVE  \/ \E j \in R : inputs[k] = n + Rank(R, j) /\ ins[j] = ins[k]
                    \/ /\ tensors[ins[k]].producer.graph = a
                       /\ inputs[k] = tensors[ins[k]].producer.node
                    \/ inputs[k] = NoNode /\ tensors[ins[k]].producer.graph # a
  BY DEF InputsAre
<1> DEFINE same == SameInput(R, ins, byValue, k)
<1>1. CASE same # {}
  <2>1. PICK j \in same : inputs[k] = n + Rank(R, j)
    BY <1>1 DEF InputId
  <2>2. j \in R /\ ins[j] = ins[k]
    BY <2>1 DEF SameInput
  <2>3. QED
    BY <2>1, <2>2
<1>2. CASE same = {}
  BY <1>2 DEF InputId
<1>3. QED
  BY <1>1, <1>2

-----------------------------------------------------------------------------
(* own[c]: the tensor that grad tensor c is of.                             *)

OwnsTensors(own, ts, N) == \A t \in 1 .. N : ts[t].grad # 0 => own[ts[t].grad] = t

OwnsNodes(own, f) ==
    \A n \in 1 .. Len(f.nodes) : f.cells[n] # 0 => own[f.cells[n]] = f.of[n]

OwnersKept(own, new, C) == \A i \in 1 .. C : new[i] = own[i]

LEMMA OwnersStay ==
    ASSUME NEW own, NEW new, NEW C \in Nat, OwnersKept(own, new, C), NEW f, OwnsNodes(own, f),
           \A n \in 1 .. Len(f.nodes) : f.cells[n] \in 0 .. C
    PROVE  OwnsNodes(new, f)
<1> SUFFICES ASSUME NEW n \in 1 .. Len(f.nodes), f.cells[n] # 0
             PROVE  new[f.cells[n]] = f.of[n]
  BY DEF OwnsNodes
<1>1. f.cells[n] \in 1 .. C
  OBVIOUS
<1>2. QED
  BY <1>1 DEF OwnsNodes, OwnersKept

\* The Function, the tensors and the history after a recorded call.
CallDone(a, f, g, N, C, op, ins, own) ==
    /\ LeafGraph(a, g, tensors', tape') /\ g.serial = f.serial
    /\ Len(tensors') = N + 1 /\ Len(tape') = N + 1
    /\ GradsNeeded(tensors', N + 1)
    /\ \A t \in 1 .. N : /\ tape'[t] = tape[t]
                         /\ tensors[t].grad = 0 \/ tensors'[t].grad = tensors[t].grad
    /\ tape'[N + 1].in = f.serial /\ tape'[N + 1].op = op /\ tape'[N + 1].inputs = ins
    /\ \E new : /\ OwnersKept(own, new, C) /\ OwnsTensors(new, tensors', N + 1)
                /\ OwnsNodes(new, g)

LEMMA RecordedCall ==
    ASSUME DOMAIN heap = Addresses, DataTypes, TensorsOK, NEW a \in Addresses,
           NEW f, DOMAIN f = Fields, f.serial # 0, GraphInv(a, f, tensors, tape),
           NEW last, FunctionTypes(f, Len(tensors), Len(gradOf), last),
           NEW op \in Ops, NEW byValue \in BOOLEAN,
           NEW ins \in [1 .. Arity(op) -> 1 .. Len(tensors)],
           OpRecordedAt(a, f, op, ins, byValue),
           GradsNeeded(tensors, Len(tensors)), HistoryOK(tape, created),
           LeafGraph(a, f, tensors, tape),
           NEW own, OwnsTensors(own, tensors, Len(tensors)), OwnsNodes(own, f)
    PROVE  CallDone(a, f, heap'[a], Len(tensors), Len(gradOf), op, ins, own)
<1> DEFINE N == Len(tensors)
<1> DEFINE C == Len(gradOf)
<1> DEFINE m == Arity(op)
<1> DEFINE n == Len(f.nodes)
<1> DEFINE R == Registered(a, ins, byValue)
<1> DEFINE c == Cardinality(R)
<1> DEFINE params == InOrder(R)
<1> DEFINE inputs == [k \in DOMAIN ins |-> InputId(a, n, R, ins, byValue, k)]
<1> DEFINE needed == [k \in DOMAIN ins |-> tensors[ins[k]].requiresGrad]
<1> DEFINE cell == [k \in R |-> GradOf(R, ins, k)]
<1> DEFINE g == heap'[a]
<1> DEFINE ts == Marked(a, n, R, ins, byValue)
<1>1. m \in Nat /\ DOMAIN ins = 1 .. m /\ op # "param"
  BY OpsAssumption, LenProperties DEF Arity
<1>2. /\ GraphOK(f, tensors) /\ ProducedBy(a, f, tensors) /\ EdgesOK(f, tape)
      /\ f.nodes \in Seq(NodeRecord) /\ f.of \in Seq(Nat) /\ Len(f.of) = n /\ n \in Nat
  BY LenProperties DEF GraphInv, GraphOK
<1>3. /\ c \in Nat /\ DOMAIN params = 1 .. c /\ Len(params) = c
      /\ Chosen(R, c, m, params)
  BY <1>1, ChosenInputs
<1>4. Listed(R, c, params)
  BY <1>1, ListedInputs
<1>5. /\ N \in Nat /\ C \in Nat /\ Len(tape) = N
      /\ \A t \in 1 .. N : tensors[t].requiresGrad \in BOOLEAN /\ tensors[t].grad \in 0 .. C
  BY Lengths DEF TensorType
<1>6. inputs \in Seq(Nat)
  BY <1>1, <1>2, <1>3, InputsOfOp, ZenonT(40)
<1>7. /\ g.nodes = f.nodes \o [i \in DOMAIN params |-> ParamNode] \o <<OpNode(op, inputs)>>
      /\ g.of = f.of \o [i \in DOMAIN params |-> ins[params[i]]] \o <<N + 1>>
      /\ g.serial = f.serial
      /\ tensors' = Append(ts, Output(ins, [graph |-> a, node |-> n + Len(params) + 1]))
      /\ tape' = Append(tape, Step(op, ins, byValue, f.serial))
  BY RecordedAs, ZenonT(30)
<1>8. /\ g.cells = f.cells \o [i \in DOMAIN params |-> GradOf(R, ins, params[i])] \o <<0>>
      /\ gradOf' = gradOf \o [i \in 1 .. Cardinality(NewGrads(R, ins)) |-> 0]
      /\ g.output = f.output /\ g.owner = f.owner
  BY RecordedGrads, ZenonT(30)
<1>9. RegisteredOK(a, R, ins, byValue, tensors)
  BY <1>1, <1>5, RegisteredAre
<1>10. GradsMade(R, ins, cell, tensors) /\ OwnersExtend(C, R, ins, cell)
  <2>1. R \subseteq 1 .. m /\ \A k \in R : ins[k] \in 1 .. N
    BY DEF Registered
  <2>2. \A k \in R : tensors[ins[k]].grad \in 0 .. C
    BY <1>5, <2>1
  <2>3. Len(gradOf) = C /\ C \in Nat /\ cell = [k \in R |-> GradOf(R, ins, k)]
    BY <1>5
  <2> HIDE DEF R, m, C, cell
  <2>4. QED
    BY <1>1, <2>1, <2>2, <2>3, GradsOfInputs, ZenonT(60)
<1>11. \A t \in 1 .. N : MarkedAs(a, n, R, ins, byValue, cell, t, tensors[t], ts[t])
  <2> HIDE DEF R, n
  <2>1. QED
    BY MarkedTensors
<1>12. InputsAre(a, n, m, R, ins, inputs, tensors)
  <2> HIDE DEF R, n, m
  <2>1. QED
    BY <1>1, InputsOfCall
<1>13. (\E T : ts \in Seq(T)) /\ Len(ts) = N /\ \A t \in 1 .. N : DOMAIN ts[t] = TensorFields
  BY MarkedProperties
<1>14. \A k \in R : cell[k] = GradOf(R, ins, k)
  OBVIOUS
<1>15. \A k \in 1 .. m : needed[k] = tensors[ins[k]].requiresGrad
  BY <1>1
<1> HIDE DEF n, R, c, params, inputs, g, ts, cell
<1>16. /\ StepAdded(N, op, ins, byValue, f.serial, needed, tape, tape')
       /\ TensorsMarked(a, n, c, N, R, ins, byValue, cell, tensors, tensors')
       /\ Len(tensors') = N + 1
  <2> DEFINE t1 == Output(ins, [graph |-> a, node |-> n + c + 1])
  <2> DEFINE s1 == Step(op, ins, byValue, f.serial)
  <2>1. /\ DOMAIN t1 = TensorFields /\ t1.producer = [graph |-> a, node |-> n + c + 1]
        /\ t1.grad = 0
    BY DEF Output, TensorFields
  <2>2. /\ {"inputs", "needed", "dropped"} \subseteq DOMAIN s1 /\ s1.inputs = ins /\ s1.in = f.serial
        /\ s1.op = op /\ s1.byValue = byValue /\ s1.needed = needed
    BY DEF Step
  <2>3. tensors' = Append(ts, t1) /\ tape' = Append(tape, s1)
    BY <1>3, <1>7
  <2> HIDE DEF t1, s1
  <2>4. PICK T : ts \in Seq(T)
    BY <1>13
  <2>5. /\ TensorsOK'
        /\ N \in Nat /\ Len(tensors') = N + 1
        /\ DOMAIN tensors = 1 .. N
        /\ tensors'[N + 1] = t1 /\ tape'[N + 1] = s1
        /\ \A t \in 1 .. N : tensors'[t] = ts[t] /\ tape'[t] = tape[t]
    BY <1>13, <2>1, <2>2, <2>3, <2>4, OneMore, Zenon
  <2>6. Len(tape') = N + 1
    <3>1. PICK S : tape \in Seq(S)
      BY DEF TensorsOK
    <3>2. QED
      BY <1>5, <2>3, <3>1, Appended
  <2>7. StepAdded(N, op, ins, byValue, f.serial, needed, tape, tape')
    BY <1>5, <2>2, <2>5, <2>6 DEF StepAdded
  <2>8. TensorsMarked(a, n, c, N, R, ins, byValue, cell, tensors, tensors')
    BY <1>11, <2>1, <2>5 DEF TensorsMarked
  <2>9. QED
    BY <2>5, <2>7, <2>8
<1>17. NodesAdded(f, g, n, c, inputs) /\ g.nodes[n + c + 1].op = op
  <2>1. g.nodes = f.nodes \o [i \in 1 .. c |-> ParamNode] \o <<OpNode(op, inputs)>>
    BY <1>3, <1>7
  <2>2. Len(f.nodes) = n
    BY DEF n
  <2>3. NodesAdded(f, g, n, c, inputs)
    BY <1>2, <1>3, <1>6, <2>1, <2>2, NodesOfOp
  <2> DEFINE x == [i \in 1 .. c |-> ParamNode]
  <2> DEFINE y == OpNode(op, inputs)
  <2>4. y \in NodeRecord /\ ParamNode \in NodeRecord /\ y.op = op
    BY <1>6, EmptySeq DEF OpNode, ParamNode, NodeRecord
  <2>5. x \in [1 .. c -> NodeRecord]
    BY <2>4
  <2> HIDE DEF x, y
  <2>6. Extension(f.nodes \o x \o <<y>>, f.nodes, c, x, y, NodeRecord)
    BY <1>2, <1>3, <2>4, <2>5, Extended
  <2>7. g.nodes = f.nodes \o x \o <<y>>
    BY <2>1 DEF x, y
  <2>8. g.nodes[n + c + 1] = y
    BY <2>2, <2>6, <2>7 DEF Extension
  <2>9. QED
    BY <2>3, <2>4, <2>8
<1>18. TensorsOfNodes(f, g, n, c, N, ins, params)
  <2>1. g.of = f.of \o [i \in 1 .. c |-> ins[params[i]]] \o <<N + 1>>
    BY <1>3, <1>7
  <2>2. params \in [1 .. c -> 1 .. m]
    BY <1>3 DEF Chosen
  <2>3. QED
    BY <1>1, <1>2, <1>3, <1>5, <2>1, <2>2, TensorsOfOp
<1>19. CellsAdded(f, g, n, c, params, cell)
  <2> DEFINE x == [i \in 1 .. c |-> GradOf(R, ins, params[i])]
  <2> DEFINE S == (0 .. C) \cup {x[i] : i \in 1 .. c}
  <2>1. x \in [1 .. c -> S] /\ 0 \in S /\ 0 .. C \subseteq S
    BY <1>5
  <2>2. \A i \in 1 .. c : x[i] = cell[params[i]]
    BY <1>3, <1>14 DEF Chosen
  <2>3. g.cells = f.cells \o x \o <<0>>
    BY <1>3, <1>8
  <2>4. f.cells \in Seq(0 .. C) /\ Len(f.cells) = n
    BY DEF FunctionTypes, n
  <2> HIDE DEF x, S, C
  <2>5. f.cells \in Seq(S)
    BY <2>1, <2>4, SeqMonotonic
  <2>6. Extension(f.cells \o x \o <<0>>, f.cells, c, x, 0, S)
    BY <1>3, <2>1, <2>5, Extended
  <2>7. Extension(g.cells, f.cells, c, x, 0, S)
    BY <2>3, <2>6
  <2>8. QED
    BY <2>2, <2>4, <2>7 DEF CellsAdded, Extension
<1>20. \A i \in 1 .. n : \A k \in DOMAIN f.nodes[i].inputs : f.nodes[i].inputs[k] \in Nat
  <2> SUFFICES ASSUME NEW i \in 1 .. n, NEW k \in DOMAIN f.nodes[i].inputs
               PROVE  f.nodes[i].inputs[k] \in Nat
    OBVIOUS
  <2> PICK x : x = f.nodes[i]
    OBVIOUS
  <2>1. x \in NodeRecord
    BY <1>2, ElementOf DEF n
  <2>2. x.inputs \in Seq(Nat)
    BY <2>1 DEF NodeRecord
  <2>3. k \in 1 .. Len(x.inputs)
    BY <2>2, LenProperties
  <2>4. x.inputs[k] \in Nat
    BY <2>2, <2>3, ElementOf
  <2>5. QED
    BY <2>4
<1>21. ins \in [1 .. m -> 1 .. N] /\ Len(f.nodes) = n /\ Len(tensors) = N
       /\ GradsNeeded(tensors, N)
  BY DEF n
<1>22. LeafGraph(a, g, tensors', tape')
  <2> HIDE DEF N, C, m, needed
  <2>1. g.serial = f.serial
    BY <1>7
  <2>2. CallRecorded(N, m, n, c, a, f, g, tensors, tensors', tape, tape', created, R, inputs,
                     params, cell, op, byValue, ins, needed)
    BY <1>1, <1>2, <1>3, <1>4, <1>5, <1>9, <1>10, <1>12, <1>15, <1>16, <1>17, <1>18,
       <1>19, <1>20, <1>21, <2>1 DEF CallRecorded
  <2>3. QED
    BY <2>2, RecordedLeafGraph, Zenon
<1>23. ASSUME NEW t \in 1 .. N
       PROVE  /\ tensors[t].grad = 0 \/ tensors'[t].grad = tensors[t].grad
              /\ tensors'[t].grad # 0 => tensors'[t].requiresGrad = TRUE
              /\ \/ tensors'[t].grad = tensors[t].grad
                 \/ \E k \in R : ins[k] = t /\ tensors'[t].grad = cell[k]
  <2>1. MarkedAs(a, n, R, ins, byValue, cell, t, tensors[t], tensors'[t])
    BY <1>16 DEF TensorsMarked
  <2>2. CASE tensors'[t] = tensors[t]
    BY <2>2 DEF GradsNeeded
  <2>3. ASSUME NEW k \in R, ins[k] = t, tensors'[t].grad = cell[k],
               tensors'[t].requiresGrad = tensors[t].requiresGrad
        PROVE  /\ tensors[t].grad = 0 \/ tensors'[t].grad = tensors[t].grad
               /\ tensors'[t].requiresGrad = TRUE
    BY <1>9, <1>10, <2>3 DEF RegisteredOK, GradsMade
  <2>4. QED
    BY <2>1, <2>2, <2>3 DEF MarkedAs
<1>24. /\ \A t \in 1 .. N + 1 : t \in 1 .. N \/ t = N + 1
       /\ tensors'[N + 1].grad = 0
  BY <1>5, <1>16 DEF TensorsMarked
<1>25. GradsNeeded(tensors', N + 1)
  BY <1>23, <1>24 DEF GradsNeeded
<1>26. \E new : /\ OwnersKept(own, new, C) /\ OwnsTensors(new, tensors', N + 1)
                /\ OwnsNodes(new, g)
  <2>1. PICK new : /\ \A i \in 1 .. C : new[i] = own[i]
                   /\ \A k \in R : \/ new[cell[k]] = ins[k]
                                     \/ cell[k] = tensors[ins[k]].grad
    BY <1>10 DEF OwnersExtend
  <2>2. OwnersKept(own, new, C)
    BY <2>1 DEF OwnersKept
  <2>3. ASSUME NEW t \in 1 .. N, tensors[t].grad # 0 PROVE new[tensors[t].grad] = t
    <3> PICK x : x = tensors[t].grad
      OBVIOUS
    <3>1. x \in 1 .. C
      BY <1>5, <2>3
    <3>2. own[x] = t
      BY <2>3 DEF OwnsTensors
    <3>3. QED
      BY <2>1, <3>1, <3>2
  <2>4. ASSUME NEW k \in R PROVE ins[k] \in 1 .. N /\ cell[k] # 0 /\ new[cell[k]] = ins[k]
    <3>1. k \in 1 .. m
      BY <1>3 DEF Chosen
    <3>2. ins[k] \in 1 .. N
      BY <3>1
    <3>3. cell[k] # 0
      BY <1>10 DEF GradsMade
    <3>4. QED
      BY <2>1, <2>3, <3>2, <3>3
  <2>5. OwnsTensors(new, tensors', N + 1)
    <3> SUFFICES ASSUME NEW t \in 1 .. N + 1, tensors'[t].grad # 0
                 PROVE  new[tensors'[t].grad] = t
      BY DEF OwnsTensors
    <3>1. t \in 1 .. N
      BY <1>24
    <3>2. CASE tensors'[t].grad = tensors[t].grad
      BY <2>3, <3>1, <3>2
    <3>3. ASSUME NEW k \in R, ins[k] = t, tensors'[t].grad = cell[k]
          PROVE  new[tensors'[t].grad] = t
      BY <2>4, <3>3
    <3>4. QED
      BY <1>23, <3>1, <3>2, <3>3
  <2>6. OwnsNodes(new, g)
    <3>1. Len(g.nodes) = n + c + 1
      BY <1>17 DEF NodesAdded
    <3> SUFFICES ASSUME NEW i \in 1 .. n + c + 1, g.cells[i] # 0
                 PROVE  new[g.cells[i]] = g.of[i]
      BY <3>1 DEF OwnsNodes
    <3>2. CASE i \in 1 .. n
      <4>1. g.cells[i] = f.cells[i] /\ g.of[i] = f.of[i]
        BY <1>18, <1>19, <3>2 DEF CellsAdded, TensorsOfNodes
      <4>2. own[f.cells[i]] = f.of[i]
        BY <3>2, <4>1 DEF OwnsNodes, n
      <4>3. f.cells[i] \in 1 .. C
        <5>1. Len(f.cells) = n /\ f.cells \in Seq(0 .. C) /\ f.cells[i] # 0
          BY <3>2, <4>1 DEF FunctionTypes, n
        <5>2. f.cells[i] \in 0 .. C
          BY <3>2, <5>1, ElementOf
        <5>3. QED
          BY <5>1, <5>2
      <4>4. QED
        BY <2>1, <4>1, <4>2, <4>3
    <3>3. ASSUME NEW j \in 1 .. c, i = n + j PROVE new[g.cells[i]] = g.of[i]
      <4>1. g.cells[i] = cell[params[j]] /\ g.of[i] = ins[params[j]] /\ params[j] \in R
        BY <1>4, <1>18, <1>19, <3>3 DEF CellsAdded, TensorsOfNodes, Listed
      <4>2. QED
        BY <2>4, <4>1
    <3>4. CASE i = n + c + 1
      BY <1>19, <3>4 DEF CellsAdded
    <3>5. i \in 1 .. n \/ i = n + c + 1 \/ \E j \in 1 .. c : i = n + j
      BY <1>2, <1>3, NewNode
    <3>6. CASE \E j \in 1 .. c : i = n + j
      BY <3>3, <3>6, Zenon
    <3>7. QED
      BY <3>2, <3>4, <3>5, <3>6, Zenon
  <2>7. QED
    BY <2>2, <2>5, <2>6
<1>27. QED
  BY <1>7, <1>16, <1>22, <1>23, <1>25, <1>26 DEF CallDone, StepAdded, g

-----------------------------------------------------------------------------
(* The invariant of the leaves.                                             *)

SerialsDiffer ==
    \A a, b \in Addresses : heap[a].serial # 0 /\ heap[a].serial = heap[b].serial => a = b

LeafInv ==
    /\ GradsNeeded(tensors, Len(tensors)) /\ HistoryOK(tape, created) /\ SerialsDiffer
    /\ \A a \in Addresses : heap[a].serial # 0 => LeafGraph(a, heap[a], tensors, tape)
    /\ \E own : /\ OwnsTensors(own, tensors, Len(tensors))
                 /\ \A a \in Addresses : OwnsNodes(own, heap[a])

LEMMA FreshLeafGraph ==
    ASSUME NEW f, f.nodes = <<>>, NEW ts, NEW tp, \A i \in 1 .. Len(tp) : tp[i].in # f.serial,
           NEW a
    PROVE  LeafGraph(a, f, ts, tp)
<1>1. 1 .. Len(f.nodes) = {}
  BY EmptySeq
<1>2. Whole(a, f, ts, tp)
  BY <1>1 DEF Whole, ParamsAreLeaves, NodesDiffer, EdgesCount, TensorsAreHere
<1>3. QED
  BY <1>1, <1>2 DEF LeafGraph, NodesAreSteps, StepsAreNodes, HasStarted, GradsShared

LEMMA HistoryGrows ==
    ASSUME NEW N \in Nat, NEW M \in Nat, NEW tp, NEW tq, Grows(tp, tq, N, M),
           NEW last \in Nat, NEW later \in Nat, last <= later, HistoryOK(tp, last),
           \A i \in (N + 1) .. M :
              /\ tq[i].in \in 0 .. later
              /\ \A k \in DOMAIN tq[i].inputs : tq[i].inputs[k] \in 1 .. (i - 1)
              /\ tq[i].in # 0 => /\ tq[i].op \in Ops
                                 /\ DOMAIN tq[i].inputs = 1 .. Arity(tq[i].op)
    PROVE  HistoryOK(tq, later)
<1> SUFFICES ASSUME NEW i \in 1 .. M
             PROVE  /\ tq[i].in \in 0 .. later
                    /\ \A k \in DOMAIN tq[i].inputs : tq[i].inputs[k] \in 1 .. (i - 1)
                    /\ tq[i].in # 0 => /\ tq[i].op \in Ops
                                       /\ DOMAIN tq[i].inputs = 1 .. Arity(tq[i].op)
  BY DEF HistoryOK, Grows
<1>1. CASE i \in 1 .. N
  <2>1. SameStep(tp[i], tq[i])
    BY <1>1 DEF Grows
  <2>2. /\ tp[i].in \in 0 .. last
        /\ \A k \in DOMAIN tp[i].inputs : tp[i].inputs[k] \in 1 .. (i - 1)
        /\ tp[i].in # 0 => tp[i].op \in Ops /\ DOMAIN tp[i].inputs = 1 .. Arity(tp[i].op)
    BY <1>1 DEF HistoryOK, Grows
  <2>3. 0 .. last \subseteq 0 .. later
    OBVIOUS
  <2>4. QED
    BY <2>1, <2>2, <2>3 DEF SameStep
<1>2. CASE i \in (N + 1) .. M
  BY <1>2
<1>3. QED
  BY <1>1, <1>2 DEF Grows

\* A step that changes no graph, but may make an empty one.
KeepsGraph(b) ==
    /\ heap'[b].nodes = heap[b].nodes /\ heap'[b].cells = heap[b].cells
    /\ heap'[b].of = heap[b].of /\ heap'[b].serial = heap[b].serial

GraphsKept == created' = created /\ \A b \in Addresses : KeepsGraph(b)

GraphBegins ==
    /\ created' = created + 1
    /\ \E a \in Addresses : /\ heap'[a].nodes = <<>> /\ heap'[a].serial = created + 1
                             /\ \A b \in Addresses \ {a} : KeepsGraph(b)

\* A step that may take a grad tensor away, and add tensors that are not recorded.
TensorsKept(N, M) ==
    /\ Len(tensors) = N /\ Len(tensors') = M /\ Grows(tape, tape', N, M)
    /\ \A t \in 1 .. N :
          /\ tensors'[t].producer = tensors[t].producer
          /\ tape'[t].dropped \/ tensors[t].grad = 0 \/ tensors'[t].grad = tensors[t].grad
          /\ tensors'[t].grad # 0 => /\ tensors'[t].grad = tensors[t].grad
                                     /\ tensors'[t].requiresGrad = TRUE
    /\ \A t \in (N + 1) .. M :
          /\ tensors'[t].grad = 0 /\ tape'[t].in = 0
          /\ \A k \in DOMAIN tape'[t].inputs : tape'[t].inputs[k] \in 1 .. (t - 1)

LEMMA QuietStep ==
    ASSUME DataTypes, LeafInv, GraphsKept \/ GraphBegins,
           NEW N \in Nat, NEW M \in Nat, TensorsKept(N, M)
    PROVE  LeafInv'
<1>1. created \in Nat /\ created' \in Nat /\ created <= created' /\ N <= M
  BY Lengths DEF GraphsKept, GraphBegins, TensorsKept, Grows
<1>2. /\ Grows(tape, tape', N, M) /\ Len(tensors) = N /\ Len(tensors') = M
      /\ Len(tape) = N /\ Len(tape') = M
      /\ \A t \in 1 .. M : t \in 1 .. N \/ t \in (N + 1) .. M
  BY DEF TensorsKept, Grows
<1>3. GradsNeeded(tensors', M)
  BY <1>2 DEF GradsNeeded, TensorsKept
<1>4. HistoryOK(tape', created')
  <2>1. \A i \in (N + 1) .. M :
          /\ tape'[i].in \in 0 .. created'
          /\ \A k \in DOMAIN tape'[i].inputs : tape'[i].inputs[k] \in 1 .. (i - 1)
          /\ tape'[i].in # 0 => /\ tape'[i].op \in Ops
                                /\ DOMAIN tape'[i].inputs = 1 .. Arity(tape'[i].op)
    BY <1>1 DEF TensorsKept
  <2>2. HistoryOK(tape, created)
    BY DEF LeafInv
  <2>3. QED
    BY <1>1, <1>2, <2>1, <2>2, HistoryGrows
<1>5. ASSUME NEW b \in Addresses, KeepsGraph(b), heap'[b].serial # 0
      PROVE  LeafGraph(b, heap'[b], tensors', tape')
  <2> DEFINE f == heap[b]
  <2> DEFINE g == heap'[b]
  <2>1. /\ g.nodes = f.nodes /\ g.cells = f.cells /\ g.of = f.of /\ g.serial = f.serial
        /\ f.serial # 0
    BY <1>5 DEF KeepsGraph
  <2>2. LeafGraph(b, f, tensors, tape) /\ HistoryOK(tape, created)
    BY <2>1 DEF LeafInv
  <2>3. \A n \in 1 .. Len(f.nodes) : f.of[n] \in 1 .. N
    <3>1. f.of \in Seq(1 .. N) /\ Len(f.of) = Len(f.nodes)
      BY <1>2 DEF DataTypes, FunctionTypes
    <3>2. QED
      BY <3>1, ElementOf
  <2>4. \A i \in (N + 1) .. M : tape'[i].in # f.serial
    BY <2>1 DEF TensorsKept
  <2>5. /\ \A t \in 1 .. N : \/ tape'[t].dropped \/ tensors[t].grad = 0
                             \/ tensors'[t].grad = tensors[t].grad
        /\ \A t \in 1 .. N : tensors'[t].producer = tensors[t].producer
    BY DEF TensorsKept
  <2> HIDE DEF f, g
  <2>6. LeafGraph(b, g, tensors', tape')
    BY <1>2, <2>1, <2>2, <2>3, <2>4, <2>5, GraphStays, ZenonT(90)
  <2>7. QED
    BY <2>6 DEF g
<1>6. ASSUME NEW a \in Addresses, heap'[a].nodes = <<>>, heap'[a].serial = created + 1
      PROVE  LeafGraph(a, heap'[a], tensors', tape')
  <2>1. \A i \in 1 .. Len(tape') : tape'[i].in # heap'[a].serial
    <3> SUFFICES ASSUME NEW i \in 1 .. M, tape'[i].in = created + 1 PROVE FALSE
      BY <1>2, <1>6
    <3>1. CASE i \in 1 .. N
      <4>1. tape[i].in = tape'[i].in
        BY <1>2, <3>1 DEF Grows, SameStep
      <4>2. tape[i].in \in 0 .. created
        BY <1>2, <3>1 DEF LeafInv, HistoryOK
      <4>3. QED
        BY <1>1, <4>1, <4>2
    <3>2. CASE i \in (N + 1) .. M
      BY <1>1, <3>2 DEF TensorsKept
    <3>3. QED
      BY <1>2, <3>1, <3>2
  <2>2. QED
    BY <1>6, <2>1, FreshLeafGraph
<1>7. \A a \in Addresses : heap'[a].serial # 0 => LeafGraph(a, heap'[a], tensors', tape')
  BY <1>5, <1>6 DEF GraphsKept, GraphBegins
<1>8. SerialsDiffer'
  <2>1. \A b \in Addresses : heap[b].serial \in 0 .. created
    BY DEF DataTypes, FunctionTypes
  <2>2. SerialsDiffer
    BY DEF LeafInv
  <2>3. CASE GraphsKept
    BY <2>2, <2>3 DEF GraphsKept, KeepsGraph, SerialsDiffer
  <2>4. CASE GraphBegins
    <3>1. PICK a \in Addresses : /\ heap'[a].serial = created + 1
                                 /\ \A b \in Addresses \ {a} : heap'[b].serial = heap[b].serial
      BY <2>4 DEF GraphBegins, KeepsGraph
    <3>2. created + 1 \notin 0 .. created
      BY <1>1
    <3>3. QED
      BY <2>1, <2>2, <3>1, <3>2 DEF SerialsDiffer
  <2>5. QED
    BY <2>3, <2>4
<1>9. PICK own : /\ OwnsTensors(own, tensors, N)
                 /\ \A a \in Addresses : OwnsNodes(own, heap[a])
  BY <1>2 DEF LeafInv
<1>10. OwnsTensors(own, tensors', M)
  BY <1>2, <1>9 DEF OwnsTensors, TensorsKept
<1>11. \A a \in Addresses : OwnsNodes(own, heap'[a])
  <2>1. ASSUME NEW a \in Addresses, heap'[a].nodes = <<>> PROVE OwnsNodes(own, heap'[a])
    BY <2>1, EmptySeq DEF OwnsNodes
  <2>2. ASSUME NEW a \in Addresses, KeepsGraph(a) PROVE OwnsNodes(own, heap'[a])
    BY <1>9, <2>2 DEF OwnsNodes, KeepsGraph
  <2>3. QED
    BY <2>1, <2>2 DEF GraphsKept, GraphBegins
<1>12. QED
  BY <1>2, <1>3, <1>4, <1>7, <1>8, <1>10, <1>11 DEF LeafInv

LEMMA RecordedLeaves ==
    ASSUME TracingInv, EdgeInv, DataTypes, LeafInv, NEW a \in Addresses,
           NEW f, DOMAIN f = Fields, f.serial # 0, GraphInv(a, f, tensors, tape),
           FunctionTypes(f, Len(tensors), Len(gradOf), created'),
           \/ f = heap[a] /\ created' = created
           \/ f.nodes = <<>> /\ f.serial = created + 1 /\ created' = created + 1,
           NEW op \in Ops, NEW byValue \in BOOLEAN,
           NEW ins \in [1 .. Arity(op) -> 1 .. Len(tensors)],
           OpRecordedAt(a, f, op, ins, byValue)
    PROVE  LeafInv'
<1> DEFINE N == Len(tensors)
<1> DEFINE C == Len(gradOf)
<1>1. /\ DOMAIN heap = Addresses /\ TensorsOK /\ N \in Nat /\ N + 1 \in Nat /\ C \in Nat
      /\ created \in Nat /\ created' \in Nat /\ created <= created' /\ Len(tape) = N
  BY Lengths DEF TracingInv, HeapOK, EdgeInv
<1>2. GradsNeeded(tensors, N) /\ HistoryOK(tape, created) /\ SerialsDiffer
  BY DEF LeafInv
<1>3. \A b \in Addresses : /\ heap[b].serial \in 0 .. created
                           /\ heap[b].serial # 0 => LeafGraph(b, heap[b], tensors, tape)
  BY DEF LeafInv, DataTypes, FunctionTypes
<1>4. LeafGraph(a, f, tensors, tape)
  <2>1. CASE f = heap[a]
    BY <1>3, <2>1
  <2>2. CASE f.nodes = <<>> /\ f.serial = created + 1
    <3>1. \A i \in 1 .. Len(tape) : tape[i].in # f.serial
      <4>1. \A i \in 1 .. Len(tape) : tape[i].in \in 0 .. created
        BY <1>2 DEF HistoryOK
      <4>2. QED
        BY <1>1, <2>2, <4>1
    <3>2. QED
      BY <2>2, <3>1, FreshLeafGraph
  <2>3. QED
    BY <2>1, <2>2
<1>5. PICK own : /\ OwnsTensors(own, tensors, N)
                 /\ \A b \in Addresses : OwnsNodes(own, heap[b])
  BY DEF LeafInv
<1>6. OwnsNodes(own, f)
  <2>1. f.nodes = <<>> => 1 .. Len(f.nodes) = {}
    BY EmptySeq
  <2>2. QED
    BY <1>5, <2>1 DEF OwnsNodes
<1>7. CallDone(a, f, heap'[a], N, C, op, ins, own)
  BY <1>1, <1>2, <1>4, <1>5, <1>6, RecordedCall, ZenonT(30)
<1> DEFINE g == heap'[a]
<1>8. /\ LeafGraph(a, g, tensors', tape') /\ g.serial = f.serial
      /\ Len(tensors') = N + 1 /\ Len(tape') = N + 1
      /\ GradsNeeded(tensors', N + 1)
      /\ \A t \in 1 .. N : /\ tape'[t] = tape[t]
                           /\ tensors[t].grad = 0 \/ tensors'[t].grad = tensors[t].grad
      /\ tape'[N + 1].in = f.serial /\ tape'[N + 1].op = op /\ tape'[N + 1].inputs = ins
  BY <1>7 DEF CallDone
<1>9. PICK new : /\ OwnersKept(own, new, C) /\ OwnsTensors(new, tensors', N + 1)
                 /\ OwnsNodes(new, g)
  BY <1>7 DEF CallDone
<1>10. \A b \in Addresses \ {a} : heap'[b] = heap[b]
  BY <1>1, RecordedAt
<1>11. \A t \in (N + 1) .. (N + 1) : t = N + 1
  BY <1>1
<1>12. Grows(tape, tape', N, N + 1)
  BY <1>1, <1>8 DEF Grows, SameStep
<1>13. HistoryOK(tape', created')
  <2>1. DOMAIN ins = 1 .. Arity(op) /\ f.serial \in 0 .. created'
    BY DEF FunctionTypes
  <2>2. \A k \in DOMAIN ins : ins[k] \in 1 .. ((N + 1) - 1)
    BY <1>1
  <2> HIDE DEF N
  <2>3. \A i \in (N + 1) .. (N + 1) :
          /\ tape'[i].in \in 0 .. created'
          /\ \A k \in DOMAIN tape'[i].inputs : tape'[i].inputs[k] \in 1 .. (i - 1)
          /\ tape'[i].in # 0 => /\ tape'[i].op \in Ops
                                /\ DOMAIN tape'[i].inputs = 1 .. Arity(tape'[i].op)
    BY <1>8, <1>11, <2>1, <2>2
  <2>4. QED
    BY <1>1, <1>2, <1>12, <2>3, HistoryGrows
<1>14. ASSUME NEW b \in Addresses \ {a}, heap[b].serial # 0
       PROVE  heap[b].serial # f.serial /\ LeafGraph(b, heap[b], tensors', tape')
  <2> DEFINE h == heap[b]
  <2>1. h.serial # f.serial
    BY <1>1, <1>2, <1>3, <1>14 DEF SerialsDiffer
  <2>2. LeafGraph(b, h, tensors, tape)
    BY <1>3, <1>14
  <2>3. \A n \in 1 .. Len(h.nodes) : h.of[n] \in 1 .. N
    <3>1. h.of \in Seq(1 .. N) /\ Len(h.of) = Len(h.nodes)
      BY DEF DataTypes, FunctionTypes
    <3>2. QED
      BY <3>1, ElementOf
  <2> HIDE DEF h, N
  <2>4. \A i \in (N + 1) .. (N + 1) : tape'[i].in # h.serial
    BY <1>8, <1>11, <2>1
  <2>5. \A t \in 1 .. N : \/ tape'[t].dropped \/ tensors[t].grad = 0
                         \/ tensors'[t].grad = tensors[t].grad
    BY <1>8
  <2>6. \E j \in (N + 1) .. (N + 1) : tape'[j].in \notin {0, h.serial}
    BY <1>1, <1>8, <2>1
  <2>7. h.nodes = h.nodes /\ h.cells = h.cells /\ h.of = h.of /\ h.serial = h.serial
    OBVIOUS
  <2>8. LeafGraph(b, h, tensors', tape')
    BY <1>1, <1>2, <1>12, <2>2, <2>3, <2>4, <2>5, <2>6, <2>7, GraphStays, ZenonT(90)
  <2>9. QED
    BY <2>1, <2>8 DEF h
<1>15. \A b \in Addresses : heap'[b].serial # 0 => LeafGraph(b, heap'[b], tensors', tape')
  BY <1>8, <1>10, <1>14
<1>16. SerialsDiffer'
  BY <1>8, <1>10, <1>14, <1>2 DEF SerialsDiffer
<1>17. \A b \in Addresses : OwnsNodes(new, heap'[b])
  <2>1. ASSUME NEW b \in Addresses \ {a} PROVE OwnsNodes(new, heap[b])
    <3>1. \A n \in 1 .. Len(heap[b].nodes) : heap[b].cells[n] \in 0 .. C
      <4>1. heap[b].cells \in Seq(0 .. C) /\ Len(heap[b].cells) = Len(heap[b].nodes)
        BY DEF DataTypes, FunctionTypes
      <4>2. QED
        BY <4>1, ElementOf
    <3> HIDE DEF C
    <3>2. QED
      BY <1>1, <1>5, <1>9, <3>1, OwnersStay
  <2>2. QED
    BY <1>9, <1>10, <2>1
<1>18. QED
  BY <1>8, <1>9, <1>13, <1>15, <1>16, <1>17 DEF LeafInv

LEMMA TensorsUntouched ==
    ASSUME DataTypes, LeafInv, UNCHANGED <<tensors, tape>>
    PROVE  Len(tensors) \in Nat /\ TensorsKept(Len(tensors), Len(tensors))
<1>1. Len(tensors) \in Nat /\ Len(tape) = Len(tensors)
  BY Lengths
<1>2. GradsNeeded(tensors, Len(tensors))
  BY DEF LeafInv
<1>3. QED
  BY <1>1, <1>2 DEF TensorsKept, Grows, SameStep, GradsNeeded

LEMMA TensorMade ==
    ASSUME DataTypes, TensorsOK, LeafInv, UNCHANGED <<heap, created>>,
           NEW t1, DOMAIN t1 = TensorFields, t1.grad = 0,
           NEW s1, {"inputs", "needed", "dropped"} \subseteq DOMAIN s1, s1.in = 0,
           \A k \in DOMAIN s1.inputs : s1.inputs[k] \in 1 .. Len(tensors),
           tensors' = Append(tensors, t1), tape' = Append(tape, s1)
    PROVE  LeafInv'
<1> DEFINE N == Len(tensors)
<1>1. N \in Nat /\ N + 1 \in Nat /\ Len(tape) = N
  BY Lengths
<1>2. PICK S : tensors \in Seq(S)
  BY DEF TensorsOK
<1>3. \A t \in 1 .. N : DOMAIN tensors[t] = TensorFields
  BY <1>2, LenProperties DEF TensorsOK
<1>4. /\ TensorsOK'
      /\ N \in Nat /\ Len(tensors') = N + 1
      /\ DOMAIN tensors = 1 .. N
      /\ tensors'[N + 1] = t1 /\ tape'[N + 1] = s1
      /\ \A t \in 1 .. N : tensors'[t] = tensors[t] /\ tape'[t] = tape[t]
  BY <1>2, <1>3, OneMore, Zenon
<1>5. Len(tape') = N + 1
  BY <1>4 DEF TensorsOK
<1>6. GradsNeeded(tensors, N)
  BY DEF LeafInv
<1>7. \A t \in (N + 1) .. (N + 1) : t = N + 1
  BY <1>1
<1>8. TensorsKept(N, N + 1)
  <2>1. Grows(tape, tape', N, N + 1)
    BY <1>1, <1>4, <1>5 DEF Grows, SameStep
  <2>2. \A k \in DOMAIN s1.inputs : s1.inputs[k] \in 1 .. ((N + 1) - 1)
    BY <1>1
  <2>3. /\ tensors'[N + 1].grad = 0 /\ tape'[N + 1].in = 0
        /\ \A k \in DOMAIN tape'[N + 1].inputs : tape'[N + 1].inputs[k] \in 1 .. ((N + 1) - 1)
    BY <1>4, <2>2
  <2>4. \A t \in 1 .. N :
          /\ tensors'[t].producer = tensors[t].producer
          /\ tape'[t].dropped \/ tensors[t].grad = 0 \/ tensors'[t].grad = tensors[t].grad
          /\ tensors'[t].grad # 0 => /\ tensors'[t].grad = tensors[t].grad
                                     /\ tensors'[t].requiresGrad = TRUE
    BY <1>4, <1>6 DEF GradsNeeded
  <2> HIDE DEF N
  <2>5. Len(tensors) = N
    BY DEF N
  <2>6. QED
    BY <1>4, <1>7, <2>1, <2>3, <2>4, <2>5 DEF TensorsKept
<1>9. GraphsKept
  BY DEF GraphsKept, KeepsGraph
<1> HIDE DEF N
<1>10. QED
  BY <1>1, <1>8, <1>9, QuietStep

LEMMA TensorRedone ==
    ASSUME DataTypes, LeafInv, NEW t \in DOMAIN tensors, NEW r, NEW c,
           DOMAIN tensors[t] = TensorFields, "dropped" \in DOMAIN tape[t],
           tensors' = [tensors EXCEPT ![t].requiresGrad = r, ![t].grad = c],
           Len(tensors') = Len(tensors), Len(tape') = Len(tape),
           \/ c = tensors[t].grad /\ r = TRUE /\ UNCHANGED tape
           \/ /\ c = 0 \/ (c = tensors[t].grad /\ r = TRUE)
              /\ \E d \in BOOLEAN : /\ tape' = [tape EXCEPT ![t].dropped = d]
                                    /\ tape[t].dropped \/ tensors[t].grad # 0 => d = TRUE
    PROVE  Len(tensors) \in Nat /\ TensorsKept(Len(tensors), Len(tensors))
<1> DEFINE N == Len(tensors)
<1>1. N \in Nat /\ Len(tape) = N /\ DOMAIN tensors = 1 .. N /\ DOMAIN tape = 1 .. N
  BY Lengths
<1>2. GradsNeeded(tensors, N)
  BY DEF LeafInv
<1>3. ASSUME NEW u \in 1 .. N
      PROVE  tensors'[u].producer = tensors[u].producer
  BY <1>1 DEF TensorFields
<1>4. \A u \in 1 .. N : u # t => tensors'[u] = tensors[u] /\ tape'[u] = tape[u]
  BY <1>1
<1>5. tensors'[t].requiresGrad = r /\ tensors'[t].grad = c
  BY <1>1 DEF TensorFields
<1>6. SameStep(tape[t], tape'[t])
  <2>1. CASE UNCHANGED tape
    BY <2>1 DEF SameStep
  <2>2. ASSUME NEW d \in BOOLEAN, tape' = [tape EXCEPT ![t].dropped = d], tape[t].dropped => d = TRUE
        PROVE  SameStep(tape[t], tape'[t])
    <3>1. tape'[t] = [tape[t] EXCEPT !.dropped = d]
      BY <1>1, <2>2
    <3>2. /\ tape'[t].in = tape[t].in /\ tape'[t].op = tape[t].op
          /\ tape'[t].inputs = tape[t].inputs /\ tape'[t].needed = tape[t].needed
          /\ tape'[t].byValue = tape[t].byValue
      BY <3>1
    <3>3. tape[t].dropped => tape'[t].dropped
      BY <2>2, <3>1
    <3>4. QED
      BY <3>2, <3>3 DEF SameStep
  <2>3. QED
    BY <2>1, <2>2
<1>7. Grows(tape, tape', N, N)
  BY <1>1, <1>4, <1>6 DEF Grows, SameStep
<1>8. tape'[t].dropped \/ tensors[t].grad = 0 \/ tensors'[t].grad = tensors[t].grad
  <2>1. ASSUME NEW d \in BOOLEAN, tape' = [tape EXCEPT ![t].dropped = d],
               tensors[t].grad # 0 => d = TRUE, tensors[t].grad # 0
        PROVE  tape'[t].dropped
    <3>1. tape'[t] = [tape[t] EXCEPT !.dropped = d]
      BY <1>1, <2>1
    <3>2. QED
      BY <2>1, <3>1
  <2>2. QED
    BY <1>5, <2>1
<1>9. \A u \in 1 .. N :
         /\ tape'[u].dropped \/ tensors[u].grad = 0 \/ tensors'[u].grad = tensors[u].grad
         /\ tensors'[u].grad # 0 => /\ tensors'[u].grad = tensors[u].grad
                                    /\ tensors'[u].requiresGrad = TRUE
  BY <1>2, <1>4, <1>5, <1>8 DEF GradsNeeded
<1>10. (N + 1) .. N = {} /\ Len(tensors') = N
  BY <1>1
<1>11. QED
  BY <1>1, <1>3, <1>7, <1>9, <1>10 DEF TensorsKept

LEMMA RunOpLeaves ==
    ASSUME TracingInv, TypeInv, EdgeInv, LeafInv, UNCHANGED program, RunOp
    PROVE  LeafInv'
<1> SUFFICES ASSUME NEW op \in Ops, NEW byValue \in BOOLEAN,
                    NEW ins \in [1 .. Arity(op) -> 1 .. Len(tensors)],
                    \/ OpNotRecorded(op, ins, byValue)
                    \/ OpRecorded(op, ins, byValue)
                    \/ OpStartsFunction(op, ins, byValue)
             PROVE  LeafInv'
  BY DEF RunOp
<1>1. /\ HeapOK /\ DataTypes /\ TensorsOK /\ function \in Addresses \cup {NoFn}
      /\ Len(tensors) \in Nat /\ Len(gradOf) \in Nat /\ created \in Nat
  BY Lengths DEF TracingInv, TypeInv, EdgeInv, TracerOK
<1>2. CASE OpNotRecorded(op, ins, byValue)
  <2> DEFINE t1 == Output(ins, NoProducer)
  <2> DEFINE s1 == Step(op, ins, byValue, 0)
  <2>1. /\ DOMAIN t1 = TensorFields /\ t1.grad = 0
        /\ {"inputs", "needed", "dropped"} \subseteq DOMAIN s1 /\ s1.in = 0 /\ s1.inputs = ins
    BY DEF Output, Step, TensorFields
  <2>2. /\ tensors' = Append(tensors, t1) /\ tape' = Append(tape, s1)
        /\ UNCHANGED <<heap, created>>
    BY <1>2 DEF OpNotRecorded
  <2> HIDE DEF t1, s1
  <2>3. \A k \in DOMAIN s1.inputs : s1.inputs[k] \in 1 .. Len(tensors)
    BY <2>1
  <2>4. QED
    BY <1>1, <2>1, <2>2, <2>3, TensorMade
<1>3. CASE OpRecorded(op, ins, byValue)
  <2>1. /\ function \in Addresses /\ created' = created
        /\ OpRecordedAt(function, heap[function], op, ins, byValue)
        /\ DOMAIN heap[function] = Fields /\ heap[function].serial # 0
        /\ GraphInv(function, heap[function], tensors, tape)
        /\ FunctionTypes(heap[function], Len(tensors), Len(gradOf), created')
    BY <1>1, <1>3 DEF OpRecorded, HeapOK, EdgeInv, DataTypes
  <2>2. QED
    BY <1>1, <2>1, RecordedLeaves
<1>4. CASE OpStartsFunction(op, ins, byValue)
  <2>1. PICK a \in Free : OpRecordedAt(a, Allocated(TRUE), op, ins, byValue)
    BY <1>4 DEF OpStartsFunction
  <2> PICK f : f = Allocated(TRUE)
    OBVIOUS
  <2>2. /\ a \in Addresses /\ DOMAIN f = Fields /\ f.serial = created + 1
        /\ created' = created + 1 /\ f.serial # 0 /\ GraphInv(a, f, tensors, tape)
    BY <1>1, <1>4, FreshGraph, NewlyAllocated DEF OpStartsFunction
  <2>3. f.nodes = <<>>
    BY DEF Allocated, NewFunction
  <2>4. FunctionTypes(f, Len(tensors), Len(gradOf), created')
    BY <1>1, <2>2, AllocatedTypes
  <2>5. OpRecordedAt(a, f, op, ins, byValue)
    BY <2>1
  <2>6. QED
    BY <1>1, <2>2, <2>3, <2>4, <2>5, RecordedLeaves
<1>5. QED
  BY <1>2, <1>3, <1>4

LEMMA EnterLeaves ==
    ASSUME TracingInv, TypeInv, EdgeInv, LeafInv, NEW arg, EnterNewFunction(arg),
           NEW N \in Nat, TensorsKept(N, N)
    PROVE  LeafInv'
<1>1. PICK a \in Free : /\ heap' = [heap EXCEPT ![a] = Allocated(FALSE)]
                        /\ created' = created + 1
  BY DEF EnterNewFunction
<1>2. a \in Addresses /\ DOMAIN heap = Addresses /\ DataTypes
  BY NewlyAllocated DEF TracingInv, HeapOK, TypeInv
<1>3. heap'[a].nodes = <<>> /\ heap'[a].serial = created + 1
  BY <1>1, <1>2 DEF Allocated, NewFunction
<1>4. GraphBegins
  BY <1>1, <1>2, <1>3 DEF GraphBegins, KeepsGraph
<1>5. QED
  BY <1>2, <1>4, QuietStep

LEMMA PassLeaves ==
    ASSUME TracingInv, TypeInv, LeafInv, UNCHANGED <<tensors, tape, created>>,
           NEW a \in Addresses, NEW t, Returns(a, t) \/ Throws(a, t) \/ Overruns(a, t)
    PROVE  LeafInv'
<1>1. /\ DOMAIN heap = Addresses /\ \A b \in Addresses : DOMAIN heap[b] = Fields
      /\ DataTypes
  BY DEF TracingInv, HeapOK, TypeInv
<1>2. GraphsKept
  <2>1. CASE UNCHANGED heap
    BY <2>1 DEF GraphsKept, KeepsGraph
  <2>2. CASE \E o : heap' = [heap EXCEPT ![a].output = o]
    BY <1>1, <2>2 DEF GraphsKept, KeepsGraph, Fields
  <2>3. QED
    BY <2>1, <2>2 DEF Returns, Completes, ReturnsEarly, Throws, Overruns
<1>3. QED
  BY <1>1, <1>2, TensorsUntouched, QuietStep

\* requires_grad_ and the grad transform let at most a grad tensor go.
LEMMA ToggleKeeps ==
    ASSUME DataTypes, TensorsOK, LeafInv, NEW t \in DOMAIN tensors, NEW value \in BOOLEAN,
           SetRequiresGrad(t, value)
    PROVE  Len(tensors) \in Nat /\ TensorsKept(Len(tensors), Len(tensors))
<1> PICK c : c = IF value THEN tensors[t].grad ELSE 0
  OBVIOUS
<1> PICK d : d = (tape[t].dropped \/ tensors[t].grad # 0)
  OBVIOUS
<1>1. /\ DOMAIN tensors[t] = TensorFields /\ "dropped" \in DOMAIN tape[t]
      /\ c \in 0 .. Len(gradOf)
  BY Lengths DEF TensorsOK, TensorType
<1>2. TensorChanges(t, value, c)
  BY <1>1 DEF SetRequiresGrad, TensorChanges, TensorFields
<1>3. tape' = [tape EXCEPT ![t].dropped = d] /\ UNCHANGED <<heap, created, gradOf>>
  BY DEF SetRequiresGrad
<1>4. Len(tensors') = Len(tensors) /\ Len(tape') = Len(tape)
  <2>1. \E e : tape' = [tape EXCEPT ![t].dropped = e]
    BY <1>3
  <2>2. TensorTypes(tensors', tape', gradOf') /\ Len(tensors') = Len(tensors)
    BY <1>1, <1>2, <1>3, <2>1, TensorsChanged
  <2>3. QED
    BY <2>2, Lengths DEF TensorTypes
<1>5. d \in BOOLEAN /\ (tape[t].dropped \/ tensors[t].grad # 0 => d = TRUE)
  OBVIOUS
<1>6. c = 0 \/ (c = tensors[t].grad /\ value = TRUE)
  OBVIOUS
<1>7. tensors' = [tensors EXCEPT ![t].requiresGrad = value, ![t].grad = c]
  BY <1>2 DEF TensorChanges
<1>8. QED
  <2>1. \E e \in BOOLEAN : /\ tape' = [tape EXCEPT ![t].dropped = e]
                           /\ tape[t].dropped \/ tensors[t].grad # 0 => e = TRUE
    BY <1>3, <1>5
  <2>2. QED
    BY <1>1, <1>4, <1>6, <1>7, <2>1, TensorRedone, ZenonT(30)

LEMMA BeginsKeeps ==
    ASSUME DataTypes, TensorsOK, LeafInv, NEW t \in DOMAIN tensors, GradTransformBegins(t)
    PROVE  Len(tensors) \in Nat /\ TensorsKept(Len(tensors), Len(tensors))
<1> PICK c : c = tensors[t].grad
  OBVIOUS
<1>1. EnterNewFunction(t) /\ UNCHANGED tape
  BY DEF GradTransformBegins, EnterNewFunction
<1>2. /\ DOMAIN tensors[t] = TensorFields /\ "dropped" \in DOMAIN tape[t]
      /\ c \in 0 .. Len(gradOf)
  BY Lengths DEF TensorsOK, TensorType
<1>3. tensors' = [tensors EXCEPT ![t].requiresGrad = TRUE, ![t].grad = c]
  BY <1>2 DEF GradTransformBegins, TensorFields
<1>4. Len(tensors') = Len(tensors) /\ Len(tape') = Len(tape)
  <2>1. SameTensors /\ TensorsOK'
    BY <1>1, <1>3, TensorsRedone DEF SameTensors
  <2>2. tensors' = [u \in DOMAIN tensors |-> tensors'[u]]
    <3>1. DOMAIN tensors' = DOMAIN tensors
      BY <1>3
    <3>2. tensors' = [u \in DOMAIN tensors' |-> tensors'[u]]
      BY <1>3
    <3>3. QED
      BY <3>1, <3>2
  <2>3. DOMAIN tensors = 1 .. Len(tensors) /\ Len(tensors) \in Nat
    BY Lengths
  <2>4. Len(tensors') = Len(tensors)
    BY <2>2, <2>3, OfLength
  <2>5. QED
    BY <1>1, <2>4
<1>5. QED
  BY <1>1, <1>2, <1>3, <1>4, TensorRedone

LEMMA LeafStep == TracingInv /\ TypeInv /\ EdgeInv /\ LeafInv /\ [Next]_vars => LeafInv'
<1> SUFFICES ASSUME TracingInv, TypeInv, EdgeInv, LeafInv, [Next]_vars PROVE LeafInv'
  OBVIOUS
<1>1. UNCHANGED program /\ DataTypes /\ TensorsOK
  BY DEF Next, vars, TypeInv, EdgeInv
<1>2. CASE RunOp
  BY <1>1, <1>2, RunOpLeaves
<1>3. ASSUME NEW requiresGrad \in BOOLEAN, NewTensor(requiresGrad) PROVE LeafInv'
  <2> DEFINE t1 == [requiresGrad |-> requiresGrad, producer |-> NoProducer, grad |-> 0]
  <2> DEFINE s1 == Step("leaf", <<>>, FALSE, 0)
  <2>1. /\ DOMAIN t1 = TensorFields /\ t1.grad = 0
        /\ {"inputs", "needed", "dropped"} \subseteq DOMAIN s1 /\ s1.in = 0 /\ s1.inputs = <<>>
    BY DEF Step, TensorFields
  <2>2. /\ tensors' = Append(tensors, t1) /\ tape' = Append(tape, s1)
        /\ UNCHANGED <<heap, created>>
    BY <1>3 DEF NewTensor
  <2> HIDE DEF t1, s1
  <2>3. \A k \in DOMAIN s1.inputs : s1.inputs[k] \in 1 .. Len(tensors)
    BY <2>1
  <2>4. QED
    BY <1>1, <2>1, <2>2, <2>3, TensorMade
<1>4. ASSUME NEW t \in DOMAIN tensors, NEW value \in BOOLEAN, SetRequiresGrad(t, value)
      PROVE  LeafInv'
  <2>1. Len(tensors) \in Nat /\ TensorsKept(Len(tensors), Len(tensors))
    BY <1>1, <1>4, ToggleKeeps
  <2>2. GraphsKept
    BY <1>4 DEF SetRequiresGrad, GraphsKept, KeepsGraph
  <2>3. QED
    BY <1>1, <2>1, <2>2, QuietStep
<1>5. CASE EnterFunction
  <2>1. EnterNewFunction(0) /\ UNCHANGED <<tensors, tape>>
    BY <1>5 DEF EnterFunction, EnterNewFunction
  <2>2. QED
    BY <1>1, <2>1, TensorsUntouched, EnterLeaves
<1>6. ASSUME NEW t \in DOMAIN tensors, GradTransformBegins(t) PROVE LeafInv'
  <2>1. Len(tensors) \in Nat /\ TensorsKept(Len(tensors), Len(tensors))
    BY <1>1, <1>6, BeginsKeeps
  <2>2. QED
    BY <1>6, <2>1, EnterLeaves DEF GradTransformBegins
<1>7. ASSUME NEW t, Backward \/ GradTransformEnds(t) PROVE LeafInv'
  <2>1. ASSUME NEW a, NEW u, FunctionBackward(a, u) PROVE LeafInv'
    <3>1. a \in Addresses /\ UNCHANGED <<tensors, tape, created>>
      BY <2>1 DEF FunctionBackward, Held, TracingInv, HeapOK
    <3>2. QED
      BY <2>1, <3>1, PassLeaves DEF FunctionBackward
  <2>2. ASSUME NEW u, TensorBackwardHere(u) PROVE LeafInv'
    <3>1. function \in Addresses /\ UNCHANGED <<tensors, tape, created>>
      BY <2>2 DEF TensorBackwardHere, TracingInv, TracerOK
    <3>2. QED
      BY <2>2, <3>1, PassLeaves DEF TensorBackwardHere
  <2>3. ASSUME NEW u, TensorBackwardElsewhere(u) PROVE LeafInv'
    <3>1. UNCHANGED <<tensors, tape, created>>
      BY <2>3 DEF TensorBackwardElsewhere
    <3>2. CASE UNCHANGED heap
      <4>1. GraphsKept
        BY <3>1, <3>2 DEF GraphsKept, KeepsGraph
      <4>2. QED
        BY <1>1, <3>1, <4>1, TensorsUntouched, QuietStep
    <3>3. CASE \E a \in live : Returns(a, u) \/ Throws(a, u) \/ Overruns(a, u)
      BY <3>1, <3>3, PassLeaves DEF TracingInv, HeapOK
    <3>4. QED
      BY <2>3, <3>2, <3>3 DEF TensorBackwardElsewhere
  <2>4. CASE GradTransformEnds(t)
    <3>1. PICK S : contexts \in Seq(S)
      BY DEF TracingInv, ContextsOK
    <3>2. Last(contexts) = contexts[Len(contexts)] /\ Len(contexts) \in DOMAIN contexts
      BY <2>4, <3>1, Shortened DEF GradTransformEnds, InGradTransform
    <3>3. Last(contexts).fn \in Addresses
      BY <2>4, <3>2 DEF GradTransformEnds, InGradTransform, TracingInv, ContextsOK, HeapOK
    <3>4. UNCHANGED <<tensors, tape, created>>
      BY <2>4 DEF GradTransformEnds
    <3>5. QED
      BY <2>4, <3>3, <3>4, PassLeaves DEF GradTransformEnds
  <2>5. QED
    BY <1>7, <2>1, <2>2, <2>3, <2>4 DEF Backward
<1>8. ASSUME UNCHANGED <<heap, tensors, tape, created>> PROVE LeafInv'
  <2>1. GraphsKept
    BY <1>8 DEF GraphsKept, KeepsGraph
  <2>2. QED
    BY <1>1, <1>8, <2>1, TensorsUntouched, QuietStep
<1>9. CASE ReenterFunction \/ ExitFunction \/ DropFunction \/ EnterGradMode \/ ExitGradMode
            \/ UNCHANGED vars
  BY <1>8, <1>9 DEF ReenterFunction, ExitFunction, DropFunction, EnterGradMode,
                    ExitGradMode, vars
<1>10. QED
  BY <1>2, <1>3, <1>4, <1>5, <1>6, <1>7, <1>9 DEF Next, Operation

LEMMA LeafInit == Init => LeafInv
<1> SUFFICES ASSUME Init PROVE LeafInv
  OBVIOUS
<1>1. /\ tensors = <<>> /\ tape = <<>> /\ created = 0
      /\ \A a \in Addresses : heap[a] = NewFunction(FALSE)
  BY DEF Init
<1>2. Len(tensors) = 0 /\ Len(tape) = 0 /\ 1 .. 0 = {}
  BY <1>1
<1>3. \A a \in Addresses : heap[a].serial = 0 /\ Len(heap[a].nodes) = 0
  BY <1>1 DEF NewFunction
<1>4. /\ GradsNeeded(tensors, Len(tensors)) /\ HistoryOK(tape, created) /\ SerialsDiffer
      /\ \A a \in Addresses : heap[a].serial # 0 => LeafGraph(a, heap[a], tensors, tape)
  BY <1>2, <1>3 DEF GradsNeeded, HistoryOK, SerialsDiffer
<1>5. \A own : /\ OwnsTensors(own, tensors, Len(tensors))
              /\ \A a \in Addresses : OwnsNodes(own, heap[a])
  BY <1>2, <1>3 DEF OwnsTensors, OwnsNodes
<1>6. \E own : /\ OwnsTensors(own, tensors, Len(tensors))
              /\ \A a \in Addresses : OwnsNodes(own, heap[a])
  BY <1>5
<1>7. QED
  BY <1>4, <1>6, Zenon DEF LeafInv

-----------------------------------------------------------------------------
(* Derivatives and dependence, in the graph and in the history, are defined *)
(* by recursion on the later node or tensor; that they satisfy their        *)
(* equations rests on inputs being earlier.                                 *)

\* The right-hand side of the equation of DependsOn at node i of g.
DependsAt(g, dep, w, i) ==
    \/ i = w
    \/ /\ i # NoNode
       /\ \E k \in DOMAIN g[i].inputs : dep[g[i].inputs[k]]

LEMMA SidesAgree ==
    ASSUME NEW n \in Nat, NEW g, Descends(g, n), NEW w, NEW i \in 0 .. n, NEW d, NEW e,
           \A j \in 0 .. i - 1 : d[j] = e[j]
    PROVE  /\ DerivativeAt(g, d, w, i) = DerivativeAt(g, e, w, i)
           /\ DependsAt(g, d, w, i) <=> DependsAt(g, e, w, i)
<1>1. CASE i = NoNode
  BY <1>1 DEF DerivativeAt, DependsAt
<1>2. CASE i # NoNode
  <2>1. \A k \in DOMAIN g[i].inputs : d[g[i].inputs[k]] = e[g[i].inputs[k]]
    BY <1>2 DEF Descends, NoNode
  <2>2. [k \in DOMAIN g[i].inputs |-> Partial[g[i].op][k] * d[g[i].inputs[k]]]
        = [k \in DOMAIN g[i].inputs |-> Partial[g[i].op][k] * e[g[i].inputs[k]]]
    BY <2>1
  <2>3. DerivativeAt(g, d, w, i) = DerivativeAt(g, e, w, i)
    BY <2>2 DEF DerivativeAt
  <2>4. DependsAt(g, d, w, i) <=> DependsAt(g, e, w, i)
    BY <2>1 DEF DependsAt
  <2>5. QED
    BY <2>3, <2>4
<1>3. QED
  BY <1>1, <1>2

LEMMA SidesExist ==
    ASSUME NEW n \in Nat, NEW g, Descends(g, n), NEW w
    PROVE  /\ \E d : d = [i \in 0 .. n |-> DerivativeAt(g, d, w, i)]
           /\ \E d : d = [i \in 0 .. n |-> DependsAt(g, d, w, i)]
<1> DEFINE C == {m \in Nat : /\ \E d : d = [i \in 0 .. m |-> DerivativeAt(g, d, w, i)]
                             /\ \E d : d = [i \in 0 .. m |-> DependsAt(g, d, w, i)]}
<1>1. 0 \in C
  <2> DEFINE d == [i \in 0 .. 0 |-> IF i = w THEN 1 ELSE 0]
             e == [i \in 0 .. 0 |-> i = w]
  <2>1. d = [i \in 0 .. 0 |-> DerivativeAt(g, d, w, i)]
    BY DEF DerivativeAt, NoNode
  <2>2. e = [i \in 0 .. 0 |-> DependsAt(g, e, w, i)]
    <3>1. ASSUME NEW i \in 0 .. 0 PROVE DependsAt(g, e, w, i) = (i = w)
      <4>1. i = NoNode
        BY DEF NoNode
      <4>2. QED
        BY <4>1, Zenon DEF DependsAt
    <3>2. QED
      BY <3>1, Zenon
  <2>3. QED
    BY <2>1, <2>2
<1>2. ASSUME NEW m \in 0 .. n - 1, m \in C PROVE m + 1 \in C
  <2>1. m \in Nat /\ m + 1 \in Nat /\ \A i \in 0 .. m + 1 : i \in 0 .. n
    OBVIOUS
  <2>2. PICK d : d = [i \in 0 .. m |-> DerivativeAt(g, d, w, i)]
    BY <1>2
  <2>3. PICK e : e = [i \in 0 .. m |-> DependsAt(g, e, w, i)]
    BY <1>2
  <2> DEFINE f == [i \in 0 .. m + 1 |-> DerivativeAt(g, d, w, i)]
             h == [i \in 0 .. m + 1 |-> DependsAt(g, e, w, i)]
  <2>4. \A i \in 0 .. m + 1 : \A j \in 0 .. i - 1 : j \in 0 .. m /\ j \in 0 .. m + 1
    BY <2>1
  <2>5. \A j \in 0 .. m : j \in 0 .. m + 1
    BY <2>1
  <2>6. \A j \in 0 .. m : d[j] = f[j]
    BY <2>2, <2>5
  <2>7. \A j \in 0 .. m : e[j] = h[j]
    BY <2>3, <2>5
  <2>8. f = [i \in 0 .. m + 1 |-> DerivativeAt(g, f, w, i)]
    <3> HIDE DEF f
    <3>1. \A i \in 0 .. m + 1 : DerivativeAt(g, d, w, i) = DerivativeAt(g, f, w, i)
      BY <2>1, <2>4, <2>6, SidesAgree
    <3>2. QED
      BY <3>1 DEF f
  <2>9. h = [i \in 0 .. m + 1 |-> DependsAt(g, h, w, i)]
    <3> HIDE DEF h
    <3>1. \A i \in 0 .. m + 1 : DependsAt(g, e, w, i) <=> DependsAt(g, h, w, i)
      BY <2>1, <2>4, <2>7, SidesAgree
    <3>2. \A i \in 0 .. m + 1 : /\ DependsAt(g, e, w, i) \in BOOLEAN
                                /\ DependsAt(g, h, w, i) \in BOOLEAN
      BY DEF DependsAt
    <3>3. QED
      BY <3>1, <3>2 DEF h
  <2> HIDE DEF f, h
  <2>10. QED
    BY <2>1, <2>8, <2>9
<1>3. n \in C
  <2> HIDE DEF C
  <2>1. 0 .. n \subseteq C
    BY <1>1, <1>2, UpTo
  <2>2. QED
    BY <2>1
<1>4. QED
  BY <1>3

LEMMA GraphEquations ==
    ASSUME NEW n \in Nat, NEW g, Descends(g, n), NEW w, NEW i \in 0 .. n
    PROVE  /\ Derivative(g, i, w) =
                 IF i = w THEN 1
                 ELSE IF i = NoNode THEN 0
                 ELSE SumFunctionOnSet([k \in DOMAIN g[i].inputs |->
                          Partial[g[i].op][k] * Derivative(g, g[i].inputs[k], w)],
                          DOMAIN g[i].inputs)
           /\ DependsOn(g, i, w) <=>
                 \/ i = w
                 \/ /\ i # NoNode
                    /\ \E k \in DOMAIN g[i].inputs : DependsOn(g, g[i].inputs[k], w)
<1>1. NoNode .. Len(g) = 0 .. n
  BY DEF NoNode, Descends
<1> DEFINE Eq(d) == d = [j \in NoNode .. Len(g) |-> DerivativeAt(g, d, w, j)]
           d == CHOOSE d : Eq(d)
           Dep(e) == e = [j \in NoNode .. Len(g) |-> DependsAt(g, e, w, j)]
           dep == CHOOSE e : Dep(e)
<1>2. Eq(d)
  <2>1. \E x : Eq(x)
    BY <1>1, SidesExist
  <2>2. QED
    BY <2>1, Zenon
<1>3. Dep(dep)
  <2>1. \E x : Dep(x)
    BY <1>1, SidesExist
  <2>2. QED
    BY <2>1, Zenon
<1>4. ASSUME NEW j PROVE Derivative(g, j, w) = d[j]
  BY DEF Derivative, DerivativeAt
<1>5. ASSUME NEW j PROVE DependsOn(g, j, w) = dep[j]
  BY DEF DependsOn, DependsAt
<1> HIDE DEF d, dep
<1>6. d[i] = DerivativeAt(g, d, w, i)
  BY <1>1, <1>2
<1>7. dep[i] = DependsAt(g, dep, w, i)
  BY <1>1, <1>3
<1>8. [k \in DOMAIN g[i].inputs |-> Partial[g[i].op][k] * d[g[i].inputs[k]]]
      = [k \in DOMAIN g[i].inputs |-> Partial[g[i].op][k] * Derivative(g, g[i].inputs[k], w)]
  BY <1>4
<1>9. Derivative(g, i, w) =
         IF i = w THEN 1
         ELSE IF i = NoNode THEN 0
         ELSE SumFunctionOnSet([k \in DOMAIN g[i].inputs |->
                  Partial[g[i].op][k] * Derivative(g, g[i].inputs[k], w)],
                  DOMAIN g[i].inputs)
  BY <1>4, <1>6, <1>8 DEF DerivativeAt, SumFunction
<1>10. DependsOn(g, i, w) <=>
          \/ i = w
          \/ /\ i # NoNode
             /\ \E k \in DOMAIN g[i].inputs : DependsOn(g, g[i].inputs[k], w)
  BY <1>5, <1>7 DEF DependsAt
<1>11. QED
  BY <1>9, <1>10

\* The same for the history.
TrueAt(s, d, w, i) ==
    IF i = w THEN 1
    ELSE IF tape[i].in # s THEN 0
    ELSE SumFunction([k \in DOMAIN tape[i].inputs |->
                         IF Counts(s, i, k)
                         THEN Partial[tape[i].op][k] * d[tape[i].inputs[k]]
                         ELSE 0])

ComputedAt(s, dep, w, i) ==
    \/ i = w
    \/ /\ tape[i].in = s
       /\ \E k \in DOMAIN tape[i].inputs : Counts(s, i, k) /\ dep[tape[i].inputs[k]]

\* The history of N tensors.
Past(N) == /\ N \in Nat /\ DOMAIN tape = 1 .. N /\ Len(tape) = N
           /\ \E last : HistoryOK(tape, last)

LEMMA TrueSidesAgree ==
    ASSUME NEW N, Past(N), NEW s, NEW w, NEW i \in 1 .. N, NEW d, NEW e,
           \A j \in 1 .. i - 1 : d[j] = e[j]
    PROVE  /\ TrueAt(s, d, w, i) = TrueAt(s, e, w, i)
           /\ ComputedAt(s, d, w, i) <=> ComputedAt(s, e, w, i)
<1>1. \A k \in DOMAIN tape[i].inputs : tape[i].inputs[k] \in 1 .. i - 1
  BY DEF Past, HistoryOK
<1>2. \A k \in DOMAIN tape[i].inputs : d[tape[i].inputs[k]] = e[tape[i].inputs[k]]
  BY <1>1
<1>3. [k \in DOMAIN tape[i].inputs |-> IF Counts(s, i, k)
                                       THEN Partial[tape[i].op][k] * d[tape[i].inputs[k]]
                                       ELSE 0]
      = [k \in DOMAIN tape[i].inputs |-> IF Counts(s, i, k)
                                         THEN Partial[tape[i].op][k] * e[tape[i].inputs[k]]
                                         ELSE 0]
  BY <1>2
<1>4. TrueAt(s, d, w, i) = TrueAt(s, e, w, i)
  BY <1>3 DEF TrueAt
<1>5. ComputedAt(s, d, w, i) <=> ComputedAt(s, e, w, i)
  BY <1>2 DEF ComputedAt
<1>6. QED
  BY <1>4, <1>5

\* What TrueDerivative and ComputedFrom look up, for the first m tensors.
IsTrue(d, s, w, m) == d = [i \in 1 .. m |-> TrueAt(s, d, w, i)]

IsComputed(d, s, w, m) == d = [i \in 1 .. m |-> ComputedAt(s, d, w, i)]

LEMMA TrueSidesExist ==
    ASSUME NEW N, Past(N), NEW s, NEW w
    PROVE  /\ \E d : IsTrue(d, s, w, N)
           /\ \E d : IsComputed(d, s, w, N)
<1> DEFINE C == {m \in Nat : /\ \E d : d = [i \in 1 .. m |-> TrueAt(s, d, w, i)]
                             /\ \E d : d = [i \in 1 .. m |-> ComputedAt(s, d, w, i)]}
<1>1. 0 \in C
  <2> DEFINE d == [i \in 1 .. 0 |-> 0]
  <2>1. /\ d = [i \in 1 .. 0 |-> TrueAt(s, d, w, i)]
        /\ d = [i \in 1 .. 0 |-> ComputedAt(s, d, w, i)]
    OBVIOUS
  <2>2. QED
    BY <2>1
<1>2. N \in Nat
  BY DEF Past
<1>3. ASSUME NEW m \in 0 .. N - 1, m \in C PROVE m + 1 \in C
  <2>1. m \in Nat /\ m + 1 \in Nat /\ \A i \in 1 .. m + 1 : i \in 1 .. N
    BY <1>2
  <2>2. PICK d : d = [i \in 1 .. m |-> TrueAt(s, d, w, i)]
    BY <1>3
  <2>3. PICK e : e = [i \in 1 .. m |-> ComputedAt(s, e, w, i)]
    BY <1>3
  <2> DEFINE f == [i \in 1 .. m + 1 |-> TrueAt(s, d, w, i)]
             h == [i \in 1 .. m + 1 |-> ComputedAt(s, e, w, i)]
  <2>4. \A i \in 1 .. m + 1 : \A j \in 1 .. i - 1 : j \in 1 .. m /\ j \in 1 .. m + 1
    BY <2>1
  <2>5. \A j \in 1 .. m : j \in 1 .. m + 1
    BY <2>1
  <2>6. \A j \in 1 .. m : d[j] = f[j]
    BY <2>2, <2>5
  <2>7. \A j \in 1 .. m : e[j] = h[j]
    BY <2>3, <2>5
  <2>8. f = [i \in 1 .. m + 1 |-> TrueAt(s, f, w, i)]
    <3> HIDE DEF f
    <3>1. \A i \in 1 .. m + 1 : TrueAt(s, d, w, i) = TrueAt(s, f, w, i)
      BY <2>1, <2>4, <2>6, TrueSidesAgree
    <3>2. QED
      BY <3>1 DEF f
  <2>9. h = [i \in 1 .. m + 1 |-> ComputedAt(s, h, w, i)]
    <3> HIDE DEF h
    <3>1. \A i \in 1 .. m + 1 : ComputedAt(s, e, w, i) <=> ComputedAt(s, h, w, i)
      BY <2>1, <2>4, <2>7, TrueSidesAgree
    <3>2. \A i \in 1 .. m + 1 : /\ ComputedAt(s, e, w, i) \in BOOLEAN
                                /\ ComputedAt(s, h, w, i) \in BOOLEAN
      BY DEF ComputedAt
    <3>3. QED
      BY <3>1, <3>2 DEF h
  <2> HIDE DEF f, h
  <2>10. QED
    BY <2>1, <2>8, <2>9
<1>4. N \in C
  <2> HIDE DEF C
  <2>1. 0 .. N \subseteq C
    BY <1>1, <1>2, <1>3, UpTo
  <2>2. QED
    BY <1>2, <2>1
<1>5. QED
  BY <1>4 DEF IsTrue, IsComputed

LEMMA HistoryEquations ==
    ASSUME NEW N, Past(N), NEW s, NEW w, NEW i \in 1 .. N
    PROVE  /\ TrueDerivative(s, i, w) =
                 IF i = w THEN 1
                 ELSE IF tape[i].in # s THEN 0
                 ELSE SumFunctionOnSet([k \in DOMAIN tape[i].inputs |->
                          IF Counts(s, i, k)
                          THEN Partial[tape[i].op][k] * TrueDerivative(s, tape[i].inputs[k], w)
                          ELSE 0], DOMAIN tape[i].inputs)
           /\ ComputedFrom(s, i, w) <=>
                 \/ i = w
                 \/ /\ tape[i].in = s
                    /\ \E k \in DOMAIN tape[i].inputs :
                          Counts(s, i, k) /\ ComputedFrom(s, tape[i].inputs[k], w)
<1>1. DOMAIN tape = 1 .. N
  BY DEF Past
<1> DEFINE Eq(d) == d = [j \in DOMAIN tape |-> TrueAt(s, d, w, j)]
           d == CHOOSE d : Eq(d)
           Dep(e) == e = [j \in DOMAIN tape |-> ComputedAt(s, e, w, j)]
           dep == CHOOSE e : Dep(e)
<1>2. Eq(d)
  <2>1. PICK x : IsTrue(x, s, w, N)
    BY TrueSidesExist
  <2>2. Eq(x)
    BY <1>1, <2>1 DEF IsTrue
  <2>3. QED
    BY <2>2, Zenon
<1>3. Dep(dep)
  <2>1. PICK x : IsComputed(x, s, w, N)
    BY TrueSidesExist
  <2>2. Dep(x)
    BY <1>1, <2>1 DEF IsComputed
  <2>3. QED
    BY <2>2, Zenon
<1>4. ASSUME NEW j PROVE TrueDerivative(s, j, w) = d[j]
  BY DEF TrueDerivative, TrueAt
<1>5. ASSUME NEW j PROVE ComputedFrom(s, j, w) = dep[j]
  BY DEF ComputedFrom, ComputedAt
<1> HIDE DEF d, dep
<1>6. d[i] = TrueAt(s, d, w, i)
  BY <1>1, <1>2
<1>7. dep[i] = ComputedAt(s, dep, w, i)
  BY <1>1, <1>3
<1>8. [k \in DOMAIN tape[i].inputs |-> IF Counts(s, i, k)
                                       THEN Partial[tape[i].op][k] * d[tape[i].inputs[k]]
                                       ELSE 0]
      = [k \in DOMAIN tape[i].inputs |->
            IF Counts(s, i, k)
            THEN Partial[tape[i].op][k] * TrueDerivative(s, tape[i].inputs[k], w)
            ELSE 0]
  BY <1>4
<1>9. TrueDerivative(s, i, w) =
         IF i = w THEN 1
         ELSE IF tape[i].in # s THEN 0
         ELSE SumFunctionOnSet([k \in DOMAIN tape[i].inputs |->
                  IF Counts(s, i, k)
                  THEN Partial[tape[i].op][k] * TrueDerivative(s, tape[i].inputs[k], w)
                  ELSE 0], DOMAIN tape[i].inputs)
  BY <1>4, <1>6, <1>8 DEF TrueAt, SumFunction
<1>10. ComputedFrom(s, i, w) <=>
          \/ i = w
          \/ /\ tape[i].in = s
             /\ \E k \in DOMAIN tape[i].inputs :
                   Counts(s, i, k) /\ ComputedFrom(s, tape[i].inputs[k], w)
  BY <1>5, <1>7 DEF ComputedAt
<1>11. QED
  BY <1>9, <1>10

\* The equations case by case.
LEMMA TrueCases ==
    ASSUME NEW N, Past(N), NEW s, NEW w, NEW i \in 1 .. N
    PROVE  /\ i = w => TrueDerivative(s, i, w) = 1
           /\ i # w /\ tape[i].in # s => TrueDerivative(s, i, w) = 0
<1>1. TrueDerivative(s, i, w) =
         IF i = w THEN 1
         ELSE IF tape[i].in # s THEN 0
         ELSE SumFunctionOnSet([k \in DOMAIN tape[i].inputs |->
                  IF Counts(s, i, k)
                  THEN Partial[tape[i].op][k] * TrueDerivative(s, tape[i].inputs[k], w)
                  ELSE 0], DOMAIN tape[i].inputs)
  BY HistoryEquations
<1>2. QED
  BY <1>1

LEMMA ComputedCases ==
    ASSUME NEW N, Past(N), NEW s, NEW w, NEW i \in 1 .. N
    PROVE  /\ i = w => ComputedFrom(s, i, w)
           /\ i # w /\ ComputedFrom(s, i, w) =>
                 /\ tape[i].in = s
                 /\ \E k \in DOMAIN tape[i].inputs :
                       Counts(s, i, k) /\ ComputedFrom(s, tape[i].inputs[k], w)
           /\ \A k \in DOMAIN tape[i].inputs :
                 tape[i].in = s /\ Counts(s, i, k) /\ ComputedFrom(s, tape[i].inputs[k], w)
                 => ComputedFrom(s, i, w)
<1>1. ComputedFrom(s, i, w) <=>
         \/ i = w
         \/ /\ tape[i].in = s
            /\ \E k \in DOMAIN tape[i].inputs :
                  Counts(s, i, k) /\ ComputedFrom(s, tape[i].inputs[k], w)
  BY HistoryEquations
<1>2. QED
  BY <1>1

LEMMA DerivativeCases ==
    ASSUME NEW n \in Nat, NEW g, Descends(g, n), NEW w, NEW i \in 0 .. n
    PROVE  /\ i = w => Derivative(g, i, w) = 1 /\ DependsOn(g, i, w)
           /\ i # w /\ i = NoNode => Derivative(g, i, w) = 0
<1>1. Derivative(g, i, w) =
         IF i = w THEN 1
         ELSE IF i = NoNode THEN 0
         ELSE SumFunctionOnSet([k \in DOMAIN g[i].inputs |->
                  Partial[g[i].op][k] * Derivative(g, g[i].inputs[k], w)],
                  DOMAIN g[i].inputs)
  BY GraphEquations
<1>2. DependsOn(g, i, w) <=>
         \/ i = w
         \/ /\ i # NoNode
            /\ \E k \in DOMAIN g[i].inputs : DependsOn(g, g[i].inputs[k], w)
  BY GraphEquations
<1>3. i = w => Derivative(g, i, w) = 1
  BY <1>1
<1>4. QED
  BY <1>1, <1>2, <1>3

LEMMA StepInputs ==
    ASSUME NEW N, Past(N), NEW i \in 1 .. N
    PROVE  /\ \A k \in DOMAIN tape[i].inputs : tape[i].inputs[k] \in 1 .. i - 1
           /\ tape[i].in # 0 => /\ IsFiniteSet(DOMAIN tape[i].inputs)
                                /\ \A k \in DOMAIN tape[i].inputs : Partial[tape[i].op][k] \in Int
<1>1. \A k \in DOMAIN tape[i].inputs : tape[i].inputs[k] \in 1 .. i - 1
  BY DEF Past, HistoryOK
<1>2. ASSUME tape[i].in # 0
      PROVE  /\ IsFiniteSet(DOMAIN tape[i].inputs)
             /\ \A k \in DOMAIN tape[i].inputs : Partial[tape[i].op][k] \in Int
  <2>1. tape[i].op \in Ops /\ DOMAIN tape[i].inputs = 1 .. Arity(tape[i].op)
    BY <1>2 DEF Past, HistoryOK
  <2> PICK ps : ps = Partial[tape[i].op]
    OBVIOUS
  <2>2. ps \in Seq(Int)
    BY <2>1, OpsAssumption
  <2>3. Len(ps) \in Nat /\ DOMAIN tape[i].inputs = 1 .. Len(ps)
    BY <2>1, <2>2, LenProperties DEF Arity
  <2>4. \A k \in 1 .. Len(ps) : ps[k] \in Int
    BY <2>2, ElementOf
  <2>5. IsFiniteSet(1 .. Len(ps))
    <3>1. 1 \in Int /\ Len(ps) \in Int
      BY <2>3
    <3>2. QED
      BY <3>1, FS_Interval, Zenon
  <2>6. QED
    BY <2>3, <2>4, <2>5
<1>3. QED
  BY <1>1, <1>2

\* What a tensor was not computed from it does not vary with.
LEMMA NotComputedFrom ==
    ASSUME NEW N, Past(N), NEW s, s # 0, NEW w, NEW i \in 1 .. N, ~ComputedFrom(s, i, w)
    PROVE  TrueDerivative(s, i, w) = 0
<1> DEFINE C == {m \in Nat : \A j \in 1 .. m :
                    ~ComputedFrom(s, j, w) => TrueDerivative(s, j, w) = 0}
<1>1. N \in Nat
  BY DEF Past
<1>2. 0 \in C
  OBVIOUS
<1>3. ASSUME NEW m \in 0 .. N - 1, m \in C PROVE m + 1 \in C
  <2>1. ASSUME ~ComputedFrom(s, m + 1, w) PROVE TrueDerivative(s, m + 1, w) = 0
    <3> PICK j : j = m + 1
      OBVIOUS
    <3>1. j \in 1 .. N /\ 1 .. j - 1 = 1 .. m
      BY <1>1
    <3> DEFINE K == DOMAIN tape[j].inputs
    <3> DEFINE f == [k \in K |-> IF Counts(s, j, k)
                                 THEN Partial[tape[j].op][k] * TrueDerivative(s, tape[j].inputs[k], w)
                                 ELSE 0]
    <3>2. j # w
      BY <2>1, <3>1, ComputedCases
    <3>3. CASE tape[j].in # s
      BY <3>1, <3>2, <3>3, TrueCases
    <3>4. CASE tape[j].in = s
      <4>1. /\ IsFiniteSet(K)
            /\ \A k \in K : tape[j].inputs[k] \in 1 .. m /\ Partial[tape[j].op][k] \in Int
        BY <3>1, <3>4, StepInputs
      <4>2. ASSUME NEW k \in K PROVE f[k] = 0
        <5>1. Counts(s, j, k) => ~ComputedFrom(s, tape[j].inputs[k], w)
          BY <2>1, <3>1, <3>4, ComputedCases
        <5>2. Counts(s, j, k) => TrueDerivative(s, tape[j].inputs[k], w) = 0
          BY <1>3, <4>1, <5>1
        <5>3. \A x \in Int : x * 0 = 0
          OBVIOUS
        <5>4. QED
          BY <4>1, <5>2, <5>3
      <4>3. TrueDerivative(s, j, w) = SumFunctionOnSet(f, K)
        BY <3>1, <3>2, <3>4, HistoryEquations
      <4> HIDE DEF f, K
      <4>4. QED
        BY <4>1, <4>2, <4>3, SumZero
    <3>5. QED
      BY <3>3, <3>4
  <2>2. \A j \in 1 .. m + 1 : j \in 1 .. m \/ j = m + 1
    OBVIOUS
  <2>3. QED
    BY <1>3, <2>1, <2>2
<1>4. N \in C
  <2> HIDE DEF C
  <2>1. 0 .. N \subseteq C
    BY <1>1, <1>2, <1>3, UpTo
  <2>2. QED
    BY <1>1, <2>1
<1>5. QED
  BY <1>4

\* The n nodes of f, with the edges g that backward follows, are the steps of
\* the s-th Function in the history of N tensors.
EdgeFollows(g, f, s, i, k) ==
    LET q == g[i].inputs[k]
        t == tape[f.of[i]].inputs[k]
    IN  /\ q = NoNode => ~Counts(s, f.of[i], k)
        /\ q # NoNode => q \in 1 .. i - 1 /\ f.of[q] = t
        /\ \/ Counts(s, f.of[i], k) \/ q = NoNode
           \/ tape[t].dropped \/ TakenByValue(tape, s, t)

Follows(g, f, s, n, N) ==
    /\ n \in Nat /\ Past(N) /\ Descends(g, n) /\ s # 0
    /\ \A i \in 1 .. n :
          /\ f.of[i] \in 1 .. N
          /\ IsParam(f.nodes, i) => DOMAIN g[i].inputs = {} /\ tape[f.of[i]].in # s
          /\ ~IsParam(f.nodes, i) =>
                /\ tape[f.of[i]].in = s /\ tape[f.of[i]].op = g[i].op
                /\ DOMAIN g[i].inputs = DOMAIN tape[f.of[i]].inputs
                /\ \A k \in DOMAIN g[i].inputs : EdgeFollows(g, f, s, i, k)

\* What the output was computed from is a node it depends on.
LEMMA DependsOnLeaf ==
    ASSUME NEW g, NEW f, NEW s, NEW n, NEW N, Follows(g, f, s, n, N), NEW w,
           NEW l \in 1 .. n, ComputedFrom(s, f.of[l], w)
    PROVE  \E p \in 1 .. n : f.of[p] = w /\ DependsOn(g, l, p)
<1> DEFINE C == {m \in Nat : \A i \in 1 .. m : ComputedFrom(s, f.of[i], w) =>
                    \E p \in 1 .. n : f.of[p] = w /\ DependsOn(g, i, p)}
<1>1. n \in Nat /\ Past(N) /\ Descends(g, n)
  BY DEF Follows
<1>2. 0 \in C
  OBVIOUS
<1>3. ASSUME NEW m \in 0 .. n - 1, m \in C PROVE m + 1 \in C
  <2>1. ASSUME ComputedFrom(s, f.of[m + 1], w)
        PROVE  \E p \in 1 .. n : f.of[p] = w /\ DependsOn(g, m + 1, p)
    <3> PICK i : i = m + 1
      OBVIOUS
    <3>1. i \in 1 .. n /\ i \in 0 .. n /\ 1 .. i - 1 = 1 .. m /\ i # NoNode
      BY <1>1 DEF NoNode
    <3> PICK t : t = f.of[i]
      OBVIOUS
    <3>2. t \in 1 .. N
      BY <3>1 DEF Follows
    <3>3. CASE t = w
      <4>1. DependsOn(g, i, i)
        BY <1>1, <3>1, GraphEquations
      <4>2. QED
        BY <3>1, <3>3, <4>1
    <3>4. CASE t # w
      <4>1. /\ tape[t].in = s
            /\ \E k \in DOMAIN tape[t].inputs :
                  Counts(s, t, k) /\ ComputedFrom(s, tape[t].inputs[k], w)
        BY <1>1, <2>1, <3>2, <3>4, ComputedCases
      <4>2. PICK k \in DOMAIN tape[t].inputs :
               Counts(s, t, k) /\ ComputedFrom(s, tape[t].inputs[k], w)
        BY <4>1
      <4>3. ~IsParam(f.nodes, i)
        BY <3>1, <4>1 DEF Follows
      <4>4. k \in DOMAIN g[i].inputs /\ EdgeFollows(g, f, s, i, k)
        BY <3>1, <4>3 DEF Follows
      <4> PICK q : q = g[i].inputs[k]
        OBVIOUS
      <4>5. q \in 1 .. m /\ f.of[q] = tape[t].inputs[k]
        BY <3>1, <4>2, <4>4 DEF EdgeFollows
      <4>6. PICK p \in 1 .. n : f.of[p] = w /\ DependsOn(g, q, p)
        BY <1>3, <4>2, <4>5
      <4>7. DependsOn(g, i, p)
        BY <1>1, <3>1, <4>4, <4>6, GraphEquations
      <4>8. QED
        BY <4>6, <4>7
    <3>5. QED
      BY <3>3, <3>4
  <2>2. \A j \in 1 .. m + 1 : j \in 1 .. m \/ j = m + 1
    OBVIOUS
  <2>3. QED
    BY <1>3, <2>1, <2>2
<1>4. n \in C
  <2> HIDE DEF C
  <2>1. 0 .. n \subseteq C
    BY <1>1, <1>2, <1>3, UpTo
  <2>2. QED
    BY <1>1, <2>1
<1>5. QED
  BY <1>4

\* Differentiating the graph by the only node of a tensor is differentiating
\* the program by the tensor.
LEMMA DerivativeFollows ==
    ASSUME NEW g, NEW f, NEW s, NEW n, NEW N, Follows(g, f, s, n, N),
           NEW p \in 1 .. n, \A i \in 1 .. n : f.of[i] = f.of[p] => i = p,
           ~TakenByValue(tape, s, f.of[p]), ~tape[f.of[p]].dropped, NEW l \in 1 .. n
    PROVE  Derivative(g, l, p) = TrueDerivative(s, f.of[l], f.of[p])
<1> PICK w : w = f.of[p]
  OBVIOUS
<1> DEFINE D(i) == Derivative(g, i, p)
           T(t) == TrueDerivative(s, t, w)
           C == {m \in Nat : \A i \in 1 .. m : D(i) = T(f.of[i])}
<1>1. n \in Nat /\ Past(N) /\ Descends(g, n) /\ s # 0 /\ w \in 1 .. N
  BY DEF Follows
<1>2. 0 \in C
  OBVIOUS
<1>3. ASSUME NEW m \in 0 .. n - 1, m \in C PROVE m + 1 \in C
  <2> PICK i : i = m + 1
    OBVIOUS
  <2>1. i \in 1 .. n /\ i \in 0 .. n /\ 1 .. i - 1 = 1 .. m /\ i # NoNode
    BY <1>1 DEF NoNode
  <2> PICK t : t = f.of[i]
    OBVIOUS
  <2>2. t \in 1 .. N
    BY <2>1 DEF Follows
  <2>3. CASE i = p
    <3>1. D(i) = 1 /\ T(t) = 1
      BY <1>1, <2>1, <2>2, <2>3, DerivativeCases, TrueCases
    <3>2. QED
      BY <1>3, <3>1
  <2>4. CASE i # p
    <3> DEFINE K == DOMAIN g[i].inputs
    <3> DEFINE d == [k \in K |-> Partial[g[i].op][k] * D(g[i].inputs[k])]
    <3>1. t # w
      BY <2>1, <2>4
    <3>2. D(i) = SumFunctionOnSet(d, K)
      BY <1>1, <2>1, <2>4, GraphEquations
    <3>3. CASE IsParam(f.nodes, i)
      <4>1. K = {} /\ tape[t].in # s
        BY <2>1, <3>3 DEF Follows
      <4>2. D(i) = 0
        BY <3>2, <4>1, SumEmpty
      <4>3. T(t) = 0
        BY <1>1, <2>2, <3>1, <4>1, TrueCases
      <4>4. D(i) = T(f.of[i])
        BY <4>2, <4>3
      <4> HIDE DEF D, T
      <4>5. QED
        BY <1>3, <4>4
    <3>4. CASE ~IsParam(f.nodes, i)
      <4>1. /\ tape[t].in = s /\ tape[t].op = g[i].op /\ K = DOMAIN tape[t].inputs
            /\ \A k \in K : EdgeFollows(g, f, s, i, k)
        BY <2>1, <3>4 DEF Follows
      <4>2. \A k \in K : tape[t].inputs[k] \in 1 .. N /\ Partial[g[i].op][k] \in Int
        <5>1. N \in Nat
          BY <1>1 DEF Past
        <5>2. /\ \A k \in K : tape[t].inputs[k] \in 1 .. t - 1
              /\ \A k \in K : Partial[g[i].op][k] \in Int
          BY <1>1, <2>2, <4>1, StepInputs
        <5>3. \A j \in 1 .. t - 1 : j \in 1 .. N
          BY <2>2, <5>1
        <5>4. QED
          BY <5>2, <5>3
      <4>3. ASSUME NEW k \in K
            PROVE  d[k] = IF Counts(s, t, k)
                          THEN Partial[tape[t].op][k] * T(tape[t].inputs[k]) ELSE 0
        <5> PICK q : q = g[i].inputs[k]
          OBVIOUS
        <5> PICK u : u = tape[t].inputs[k]
          BY Zenon
        <5>1. /\ q = NoNode => ~Counts(s, t, k)
              /\ q # NoNode => q \in 1 .. m /\ f.of[q] = u
              /\ \/ Counts(s, t, k) \/ q = NoNode
                 \/ tape[u].dropped \/ TakenByValue(tape, s, u)
          BY <2>1, <4>1 DEF EdgeFollows
        <5>2. d[k] = Partial[g[i].op][k] * D(q)
          OBVIOUS
        <5>3. CASE Counts(s, t, k)
          <6>1. q \in 1 .. m /\ f.of[q] = u
            BY <5>1, <5>3
          <6>2. D(q) = T(u)
            BY <1>3, <6>1
          <6>3. QED
            BY <4>1, <5>2, <5>3, <6>2
        <5>4. CASE ~Counts(s, t, k)
          <6>1. tape[u].in # s
            BY <5>4 DEF Counts
          <6>2. D(q) = 0
            <7>1. CASE q = NoNode
              <8>1. q \in 0 .. n /\ q # p
                BY <1>1, <7>1 DEF NoNode
              <8>2. QED
                BY <1>1, <7>1, <8>1, DerivativeCases
            <7>2. CASE q # NoNode
              <8>1. q \in 1 .. m /\ f.of[q] = u /\ u # w /\ u \in 1 .. N
                BY <4>2, <5>1, <5>4, <7>2
              <8>2. T(u) = 0
                BY <1>1, <6>1, <8>1, TrueCases
              <8>3. D(q) = T(u)
                BY <1>3, <8>1
              <8>4. QED
                BY <8>2, <8>3
            <7>3. QED
              BY <7>1, <7>2
          <6>3. Partial[g[i].op][k] * 0 = 0
            BY <4>2
          <6>4. d[k] = 0
            BY <5>2, <6>2, <6>3
          <6> HIDE DEF d
          <6>5. QED
            BY <5>4, <6>4
        <5>5. QED
          BY <5>3, <5>4
      <4> DEFINE e == [k \in K |-> IF Counts(s, t, k)
                                   THEN Partial[tape[t].op][k] * T(tape[t].inputs[k]) ELSE 0]
      <4>4. d = e
        <5> HIDE DEF D, T, K
        <5>1. QED
          BY <4>3
      <4>5. T(t) = SumFunctionOnSet(e, K)
        BY <1>1, <2>2, <3>1, <4>1, HistoryEquations
      <4>6. D(i) = T(f.of[i])
        <5> HIDE DEF D, T, K, d, e
        <5>1. QED
          BY <3>2, <4>4, <4>5
      <4> HIDE DEF D, T
      <4>7. QED
        BY <1>3, <4>6
    <3>5. QED
      BY <3>3, <3>4
  <2>5. QED
    BY <2>3, <2>4
<1>4. n \in C
  <2> HIDE DEF C
  <2>1. 0 .. n \subseteq C
    BY <1>1, <1>2, <1>3, UpTo, Zenon
  <2>2. QED
    BY <1>1, <2>1
<1>5. QED
  BY <1>4

LEMMA EdgesAre ==
    ASSUME NEW a, heap[a].nodes \in Seq(OpNodes), NEW i \in 1 .. Len(heap[a].nodes)
    PROVE  /\ Edges(a)[i].op = heap[a].nodes[i].op
           /\ DOMAIN Edges(a)[i].inputs = DOMAIN heap[a].nodes[i].inputs
           /\ \A k \in DOMAIN heap[a].nodes[i].inputs :
                 /\ heap[a].nodes[i].inputs[k] \in Nat
                 /\ Edges(a)[i].inputs[k] = IF heap[a].nodes[i].inputs[k] < i
                                            THEN heap[a].nodes[i].inputs[k] ELSE NoNode
           /\ IsParam(heap[a].nodes, i) => DOMAIN heap[a].nodes[i].inputs = {}
<1> DEFINE g == heap[a].nodes
<1> PICK x : x = g[i]
  OBVIOUS
<1>1. x \in OpNodes
  BY ElementOf
<1>2. x.inputs \in Seq(Nat) /\ DOMAIN x = {"op", "inputs"}
  BY <1>1 DEF OpNodes, NodeRecord
<1> PICK m : m = Len(x.inputs)
  OBVIOUS
<1>3. m \in Nat /\ DOMAIN x.inputs = 1 .. m
  BY <1>2, LenProperties
<1>4. Len(g) \in Nat /\ DOMAIN g = 1 .. Len(g)
  BY LenProperties
<1>5. Edges(a)[i] = [x EXCEPT !.inputs = [k \in DOMAIN @ |-> IF @[k] < i THEN @[k] ELSE NoNode]]
  BY <1>4 DEF Edges
<1>6. /\ Edges(a)[i].op = x.op
      /\ Edges(a)[i].inputs = [k \in 1 .. m |-> IF x.inputs[k] < i THEN x.inputs[k] ELSE NoNode]
  BY <1>2, <1>3, <1>5
<1>7. ASSUME NEW k \in 1 .. m PROVE x.inputs[k] \in Nat
  BY <1>2, <1>3, ElementOf
<1>8. IsParam(g, i) => DOMAIN x.inputs = {}
  <2>1. ASSUME IsParam(g, i) PROVE DOMAIN x.inputs = {}
    <3>1. x = ParamNode
      BY <1>1, <2>1, OpsAssumption DEF IsParam, OpNodes
    <3>2. QED
      BY <3>1 DEF ParamNode
  <2>2. QED
    BY <2>1
<1>9. QED
  BY <1>3, <1>6, <1>7, <1>8

\* The graph of a Function that no other one interrupted.
LEMMA GraphFollows ==
    ASSUME DataTypes, EdgeInv, LeafInv, NEW a \in Addresses, heap[a].serial # 0,
           ~Broken(tape, heap[a].serial)
    PROVE  Follows(Edges(a), heap[a], heap[a].serial, Len(heap[a].nodes), Len(tensors))
<1> PICK f : f = heap[a]
  OBVIOUS
<1> DEFINE g == Edges(a)
           s == f.serial
           n == Len(f.nodes)
           N == Len(tensors)
<1>1. N \in Nat /\ Len(tape) = N /\ DOMAIN tape = 1 .. N
  BY Lengths
<1>2. Past(N)
  BY <1>1 DEF Past, LeafInv
<1>3. FunctionTypes(f, N, Len(gradOf), created)
  BY DEF DataTypes
<1>4. /\ f.nodes \in Seq(OpNodes) /\ n \in Nat
      /\ \A i \in 1 .. n : f.of[i] \in 1 .. N
  <2>1. f.nodes \in Seq(OpNodes) /\ f.of \in Seq(1 .. N) /\ Len(f.of) = n
    BY <1>3 DEF FunctionTypes
  <2>2. n \in Nat
    BY <2>1, LenProperties
  <2>3. \A i \in 1 .. n : f.of[i] \in 1 .. N
    <3> HIDE DEF N
    <3>1. QED
      BY <2>1, ElementOf
  <2>4. QED
    BY <2>1, <2>2, <2>3
<1>5. Descends(g, n)
  BY <1>4, EdgesDescend
<1>6. EdgesOK(f, tape)
  BY DEF EdgeInv, GraphInv
<1>7. /\ NodesAreSteps(f, tape) /\ ParamsAreLeaves(f, tape) /\ EdgesCount(f, tape)
  BY DEF LeafInv, LeafGraph, Whole
<1>8. ASSUME NEW i \in 1 .. n
      PROVE  /\ f.of[i] \in 1 .. N
             /\ IsParam(f.nodes, i) => DOMAIN g[i].inputs = {} /\ tape[f.of[i]].in # s
             /\ ~IsParam(f.nodes, i) =>
                   /\ tape[f.of[i]].in = s /\ tape[f.of[i]].op = g[i].op
                   /\ DOMAIN g[i].inputs = DOMAIN tape[f.of[i]].inputs
                   /\ \A k \in DOMAIN g[i].inputs : EdgeFollows(g, f, s, i, k)
  <2>1. /\ g[i].op = f.nodes[i].op
        /\ DOMAIN g[i].inputs = DOMAIN f.nodes[i].inputs
        /\ \A k \in DOMAIN f.nodes[i].inputs :
              /\ f.nodes[i].inputs[k] \in Nat
              /\ g[i].inputs[k] = IF f.nodes[i].inputs[k] < i
                                  THEN f.nodes[i].inputs[k] ELSE NoNode
        /\ IsParam(f.nodes, i) => DOMAIN f.nodes[i].inputs = {}
    BY <1>4, EdgesAre
  <2> HIDE DEF g
  <2>2. IsParam(f.nodes, i) => DOMAIN g[i].inputs = {} /\ tape[f.of[i]].in # s
    BY <1>7, <2>1 DEF ParamsAreLeaves
  <2>3. ASSUME ~IsParam(f.nodes, i)
        PROVE  /\ tape[f.of[i]].in = s /\ tape[f.of[i]].op = g[i].op
               /\ DOMAIN g[i].inputs = DOMAIN tape[f.of[i]].inputs
               /\ \A k \in DOMAIN g[i].inputs : EdgeFollows(g, f, s, i, k)
    <3>1. /\ tape[f.of[i]].in = s /\ tape[f.of[i]].op = g[i].op
          /\ DOMAIN g[i].inputs = DOMAIN tape[f.of[i]].inputs
      BY <1>7, <2>1, <2>3 DEF NodesAreSteps
    <3>2. ASSUME NEW k \in DOMAIN g[i].inputs PROVE EdgeFollows(g, f, s, i, k)
      <4> PICK p : p = f.nodes[i].inputs[k]
        OBVIOUS
      <4> PICK t : t = tape[f.of[i]].inputs[k]
        OBVIOUS
      <4>1. p \in Nat /\ g[i].inputs[k] = IF p < i THEN p ELSE NoNode
        BY <2>1
      <4>2. EdgeOK(f, tape, i, k)
        BY <1>6, <2>1, <2>3, ZenonT(40) DEF EdgesOK
      <4>3. IF p = NoNode THEN tape[t].in # s
            ELSE \/ ~IsParam(f.nodes, p) \/ tape[f.of[i]].needed[k]
                 \/ tape[t].dropped \/ TakenByValue(tape, s, t)
        BY <1>7, <2>1, <2>3 DEF EdgesCount
      <4>4. CASE p = NoNode
        <5>1. g[i].inputs[k] = NoNode
          BY <4>1, <4>4
        <5>2. ~Counts(s, f.of[i], k)
          BY <4>2, <4>3, <4>4, Zenon DEF EdgeOK, Counts
        <5>3. QED
          BY <5>1, <5>2 DEF EdgeFollows
      <4>5. CASE p # NoNode
        <5>1. p < i /\ f.of[p] = t
          BY <4>2, <4>5 DEF EdgeOK
        <5>2. g[i].inputs[k] = p /\ p \in 1 .. i - 1 /\ p \in 1 .. n
          <6>1. p \in 1 .. i - 1
            BY <4>1, <4>5, <5>1 DEF NoNode
          <6>2. g[i].inputs[k] = p
            BY <4>1, <5>1
          <6>3. p \in 1 .. n
            <7>1. n \in Nat /\ i \in 1 .. n
              BY <1>4, Zenon
            <7> HIDE DEF n
            <7>2. QED
              BY <6>1, <7>1
          <6>4. QED
            BY <6>1, <6>2, <6>3
        <5>3. ~IsParam(f.nodes, p) => Counts(s, f.of[i], k)
          BY <1>7, <5>1, <5>2 DEF NodesAreSteps, Counts
        <5>4. tape[f.of[i]].needed[k] => Counts(s, f.of[i], k)
          BY DEF Counts
        <5>5. QED
          BY <4>3, <4>5, <5>1, <5>2, <5>3, <5>4 DEF EdgeFollows
      <4>6. QED
        BY <4>4, <4>5
    <3>3. QED
      BY <3>1, <3>2
  <2>4. QED
    BY <1>4, <2>2, <2>3
<1>9. QED
  <2> HIDE DEF g, N
  <2>1. Follows(g, f, s, n, N)
    BY <1>2, <1>4, <1>5, <1>8 DEF Follows
  <2>2. QED
    BY <2>1 DEF g, N

-----------------------------------------------------------------------------
(* The gradients of the first backward of a Function.                       *)

LEMMA OutputAfterRunOp ==
    ASSUME TracingInv, RunOp, NEW a \in live
    PROVE  heap'[a].output = heap[a].output
<1> SUFFICES ASSUME NEW op, NEW byValue, NEW ins,
                    \/ OpNotRecorded(op, ins, byValue)
                    \/ OpRecorded(op, ins, byValue)
                    \/ OpStartsFunction(op, ins, byValue)
             PROVE  heap'[a].output = heap[a].output
  BY DEF RunOp
<1>1. HeapOK /\ function \in Addresses \cup {NoFn} /\ a \in Addresses
  BY DEF TracingInv, TracerOK, HeapOK
<1>2. CASE OpNotRecorded(op, ins, byValue)
  BY <1>2 DEF OpNotRecorded
<1>3. CASE OpRecorded(op, ins, byValue)
  <2>1. /\ function \in Addresses /\ DOMAIN heap[function] = Fields
        /\ OpRecordedAt(function, heap[function], op, ins, byValue)
    BY <1>1, <1>3 DEF OpRecorded, HeapOK
  <2>2. /\ heap'[function].output = heap[function].output
        /\ \A b \in Addresses \ {function} : heap'[b] = heap[b]
    BY <1>1, <2>1, RecordedAt DEF HeapOK
  <2>3. QED
    BY <1>1, <2>2
<1>4. CASE OpStartsFunction(op, ins, byValue)
  <2>1. PICK b \in Free : OpRecordedAt(b, Allocated(TRUE), op, ins, byValue)
    BY <1>4 DEF OpStartsFunction
  <2>2. b \in Addresses \ live /\ DOMAIN Allocated(TRUE) = Fields
    BY <1>1, NewlyAllocated
  <2>3. \A c \in Addresses \ {b} : heap'[c] = heap[c]
    BY <1>1, <2>1, <2>2, RecordedAt DEF HeapOK
  <2>4. QED
    BY <1>1, <2>2, <2>3
<1>5. QED
  BY <1>2, <1>3, <1>4

\* Only a pass that completes gives a Function its output.
GivesOutput(a) == heap[a].output = NoNode /\ heap'[a].output # NoNode

LEMMA PassGivesOutput ==
    ASSUME TracingInv, ~Does("throw"), NEW a \in live, GivesOutput(a),
           NEW b \in Addresses, NEW t, Returns(b, t) \/ Throws(b, t) \/ Overruns(b, t)
    PROVE  Completes(a, t)
<1>1. a \in Addresses /\ \A c \in Addresses : c # b => heap'[c] = heap[c]
  BY PassInPlace DEF TracingInv, HeapOK
<1>2. a = b /\ ~UNCHANGED heap
  BY <1>1 DEF GivesOutput
<1>3. QED
  BY <1>2 DEF Returns, ReturnsEarly, Throws, Overruns

LEMMA OutputComesFromPass ==
    ASSUME TracingInv, [Next]_vars, ~Does("throw"), NEW a \in live, GivesOutput(a)
    PROVE  \E t : Completes(a, t)
<1>1. ~UNCHANGED heap
  BY DEF GivesOutput
<1>2. ASSUME NEW arg PROVE ~EnterNewFunction(arg)
  <2> SUFFICES ASSUME EnterNewFunction(arg) PROVE FALSE
    OBVIOUS
  <2>1. PICK b \in Free : heap' = [heap EXCEPT ![b] = Allocated(FALSE)]
    BY DEF EnterNewFunction
  <2>2. b \notin live
    BY NewlyAllocated DEF TracingInv
  <2>3. QED
    BY <2>1, <2>2 DEF GivesOutput, TracingInv, HeapOK
<1>3. ~RunOp
  BY OutputAfterRunOp DEF GivesOutput
<1>4. ASSUME NEW b, NEW t, FunctionBackward(b, t) PROVE Completes(a, t)
  <2>1. b \in Addresses
    BY <1>4 DEF FunctionBackward, Held, TracingInv, HeapOK
  <2>2. QED
    BY <1>4, <2>1, PassGivesOutput DEF FunctionBackward
<1>5. ASSUME NEW t, TensorBackwardHere(t) PROVE Completes(a, t)
  <2>1. function \in Addresses
    BY <1>5 DEF TensorBackwardHere, TracingInv, TracerOK
  <2>2. QED
    BY <1>5, <2>1, PassGivesOutput DEF TensorBackwardHere
<1>6. ASSUME NEW t, TensorBackwardElsewhere(t) PROVE Completes(a, t)
  <2>1. PICK b \in live : Returns(b, t) \/ Throws(b, t) \/ Overruns(b, t)
    BY <1>1, <1>6 DEF TensorBackwardElsewhere
  <2>2. b \in Addresses
    BY DEF TracingInv, HeapOK
  <2>3. QED
    BY <2>1, <2>2, PassGivesOutput
<1>7. ASSUME NEW t, GradTransformEnds(t) PROVE Completes(a, t)
  <2>1. PICK S : contexts \in Seq(S)
    BY DEF TracingInv, ContextsOK
  <2>2. Last(contexts) = contexts[Len(contexts)] /\ Len(contexts) \in DOMAIN contexts
    BY <1>7, <2>1, Shortened DEF GradTransformEnds, InGradTransform
  <2>3. Last(contexts).fn \in Addresses
    BY <1>7, <2>2 DEF GradTransformEnds, InGradTransform, TracingInv, ContextsOK, HeapOK
  <2>4. QED
    BY <1>7, <2>3, PassGivesOutput DEF GradTransformEnds
<1>8. QED
  BY <1>1, <1>2, <1>3, <1>4, <1>5, <1>6, <1>7
     DEF Next, Operation, Backward, vars, NewTensor, SetRequiresGrad, EnterFunction,
         ReenterFunction, ExitFunction, DropFunction, EnterGradMode, ExitGradMode,
         GradTransformBegins

LEMMA MaxOfOne == ASSUME NEW p \in Nat PROVE Max({p}) = p
BY DEF Max

\* The last loop of backward writes the derivative of the program into the
\* grad tensor of the only node of a tensor.
LEMMA NodeIsWritten ==
    ASSUME DataTypes, EdgeInv, LeafInv, NEW a \in Addresses, heap[a].serial # 0,
           ~Broken(tape, heap[a].serial), NEW root \in Ids(heap[a].nodes),
           gradOf' = GradsAfter(a, root),
           NEW p \in 1 .. Len(heap[a].nodes), NEW w, heap[a].of[p] = w,
           IsParam(heap[a].nodes, p), DependsOn(Edges(a), root, p),
           NEW c, c = heap[a].cells[p], c # 0,
           ~TakenByValue(tape, heap[a].serial, w), ~tape[w].dropped
    PROVE  gradOf'[c] = TrueDerivative(heap[a].serial, heap[a].of[root], w)
<1> PICK f : f = heap[a]
  OBVIOUS
<1> DEFINE g == Edges(a)
           s == f.serial
           n == Len(f.nodes)
           N == Len(tensors)
<1>1. Follows(g, f, s, n, N)
  BY GraphFollows
<1>2. FunctionTypes(f, N, Len(gradOf), created)
  BY DEF DataTypes
<1>3. root \in 1 .. n /\ n \in Nat /\ f.nodes \in Seq(OpNodes)
  BY <1>2, LenProperties DEF FunctionTypes, Ids
<1>4. NodesDiffer(f, tape)
  BY DEF LeafInv, LeafGraph, Whole
<1>5. PICK own : OwnsNodes(own, f)
  BY DEF LeafInv
<1>6. \A i \in 1 .. n : IsParam(g, i) <=> IsParam(f.nodes, i)
  BY <1>3, EdgesAre DEF IsParam
<1>7. Ids(g) = 1 .. n
  BY <1>1 DEF Follows, Descends, Ids
<1>8. /\ p \in 1 .. n /\ f.of[p] = w /\ IsParam(f.nodes, p) /\ DependsOn(g, root, p)
      /\ c = f.cells[p] /\ ~TakenByValue(tape, s, w)
  OBVIOUS
<1>9. c \in DOMAIN gradOf
  <2>1. Len(gradOf) \in Nat /\ DOMAIN gradOf = 1 .. Len(gradOf)
    BY Lengths
  <2>2. f.cells \in Seq(0 .. Len(gradOf)) /\ p \in 1 .. Len(f.cells)
    BY <1>2 DEF FunctionTypes
  <2>3. c \in 0 .. Len(gradOf)
    BY <2>2, ElementOf
  <2>4. QED
    BY <2>1, <2>3
<1> HIDE DEF g, n, N, s
<1>10. \A i \in 1 .. n : f.of[i] = f.of[p] => i = p
  BY <1>4, <1>8 DEF NodesDiffer, n, s
<1>11. {i \in Ids(g) : IsParam(g, i) /\ f.cells[i] = c /\ DependsOn(g, root, i)} = {p}
  <2>1. ASSUME NEW i \in 1 .. n, f.cells[i] = c PROVE i = p
    <3>1. own[c] = f.of[i] /\ own[c] = f.of[p]
      BY <1>5, <1>8, <2>1 DEF OwnsNodes, n
    <3>2. QED
      BY <1>10, <3>1
  <2>2. QED
    BY <1>6, <1>7, <1>8, <2>1
<1>12. gradOf'[c] = Derivative(g, root, p)
  <2>1. p \in Nat /\ Max({p}) = p
    BY <1>3, <1>8, MaxOfOne
  <2>2. gradOf'[c] =
           LET reached == {i \in Ids(g) : IsParam(g, i) /\ f.cells[i] = c
                                          /\ DependsOn(g, root, i)} IN
           IF reached = {} THEN gradOf[c] ELSE Derivative(g, root, Max(reached))
    BY <1>9 DEF GradsAfter, g
  <2>3. QED
    BY <1>11, <2>1, <2>2
<1>13. Derivative(g, root, p) = TrueDerivative(s, f.of[root], f.of[p])
  BY <1>1, <1>3, <1>8, <1>10, DerivativeFollows
<1>14. QED
  BY <1>8, <1>12, <1>13 DEF s

\* A leaf of the output has a node, and the two share a grad tensor.
LEMMA LeafHasNode ==
    ASSUME DataTypes, EdgeInv, LeafInv, NEW a \in Addresses, NEW s, s = heap[a].serial,
           s # 0, ~Broken(tape, s), NEW root \in Ids(heap[a].nodes),
           NEW w, tape[w].in # s, ComputedFrom(s, heap[a].of[root], w),
           ~TakenByValue(tape, s, w), ~tape[w].dropped
    PROVE  \E p \in 1 .. Len(heap[a].nodes) :
              /\ heap[a].of[p] = w /\ IsParam(heap[a].nodes, p) /\ DependsOn(Edges(a), root, p)
              /\ heap[a].cells[p] # 0 /\ heap[a].cells[p] = tensors[w].grad
<1> PICK f : f = heap[a]
  OBVIOUS
<1> DEFINE g == Edges(a)
           n == Len(f.nodes)
           N == Len(tensors)
<1>1. Follows(g, f, s, n, N)
  BY GraphFollows
<1>2. GradsShared(f, tensors, tape) /\ NodesAreSteps(f, tape)
  BY DEF LeafInv, LeafGraph
<1>3. root \in 1 .. n
  <2>1. FunctionTypes(f, Len(tensors), Len(gradOf), created)
    BY DEF DataTypes
  <2>2. QED
    BY <2>1, LenProperties DEF FunctionTypes, Ids
<1> HIDE DEF g, n, N
<1>4. PICK p \in 1 .. n : f.of[p] = w /\ DependsOn(g, root, p)
  <2>1. ComputedFrom(s, f.of[root], w)
    OBVIOUS
  <2>2. QED
    BY <1>1, <1>3, <2>1, DependsOnLeaf
<1>5. IsParam(f.nodes, p)
  BY <1>2, <1>4 DEF NodesAreSteps, n
<1>6. f.cells[p] # 0 /\ f.cells[p] = tensors[w].grad
  BY <1>2, <1>4, <1>5 DEF GradsShared, n
<1>7. QED
  BY <1>4, <1>5, <1>6 DEF g, n

LEMMA LeafIsWritten ==
    ASSUME DataTypes, EdgeInv, LeafInv, NEW a \in Addresses, NEW s, s = heap[a].serial,
           s # 0, ~Broken(tape, s), NEW root \in Ids(heap[a].nodes),
           gradOf' = GradsAfter(a, root), NEW w,
           tape[w].in # s, ComputedFrom(s, heap[a].of[root], w),
           ~TakenByValue(tape, s, w), ~tape[w].dropped
    PROVE  GradIsRight(s, heap[a].of[root], w)
<1>1. PICK p \in 1 .. Len(heap[a].nodes) :
        /\ heap[a].of[p] = w /\ IsParam(heap[a].nodes, p) /\ DependsOn(Edges(a), root, p)
        /\ heap[a].cells[p] # 0 /\ heap[a].cells[p] = tensors[w].grad
  BY LeafHasNode
<1> PICK c : c = heap[a].cells[p]
  OBVIOUS
<1>2. gradOf'[c] = TrueDerivative(s, heap[a].of[root], w)
  BY <1>1, NodeIsWritten
<1>3. QED
  BY <1>1, <1>2 DEF GradIsRight

LEMMA InterruptedIs ==
    ASSUME DataTypes, NEW s
    PROVE  /\ Interrupted(s) <=> Broken(tape, s)
           /\ \A w : PassedByValue(s, w) <=> TakenByValue(tape, s, w)
<1>1. DOMAIN tape = 1 .. Len(tape)
  BY Lengths
<1>2. QED
  BY <1>1 DEF Interrupted, Broken, PassedByValue, TakenByValue

\* What LeafGradsComplete says of a step.
LeafGradsFound ==
    Does("throw") \/ \A a \in live :
       LET s == heap[a].serial
           l == heap[a].of[heap'[a].output]
       IN  FirstPass(a) /\ ~Interrupted(s) =>
              \A w \in Leaves(s, l) :
                 ~PassedByValue(s, w) /\ ~tape[w].dropped => GradIsRight(s, l, w)

LEMMA LeafGradsStep ==
    TracingInv /\ TypeInv /\ EdgeInv /\ LeafInv /\ [Next]_vars => LeafGradsFound
<1> SUFFICES ASSUME TracingInv, TypeInv, EdgeInv, LeafInv, [Next]_vars, ~Does("throw"),
                    NEW a \in live, NEW s, s = heap[a].serial,
                    NEW l, l = heap[a].of[heap'[a].output],
                    FirstPass(a), ~Interrupted(s),
                    NEW w \in Leaves(s, l), ~PassedByValue(s, w), ~tape[w].dropped
             PROVE  GradIsRight(s, l, w)
  BY DEF LeafGradsFound
<1>1. DataTypes /\ a \in Addresses /\ s # 0 /\ DOMAIN heap = Addresses
      /\ DOMAIN heap[a] = Fields
  BY DEF TypeInv, TracingInv, HeapOK
<1>2. PICK t : Completes(a, t)
  BY OutputComesFromPass DEF FirstPass, GivesOutput
<1> PICK root : root = OutputOf(a, t)
  OBVIOUS
<1>3. /\ root \in Ids(heap[a].nodes) /\ gradOf' = GradsAfter(a, root)
      /\ heap' = [heap EXCEPT ![a].output = root]
  BY <1>2 DEF Completes
<1>4. heap'[a].output = root
  BY <1>1, <1>3 DEF Fields
<1>5. /\ w \in 1 .. Len(tensors) /\ tape[w].in # s
      /\ ComputedFrom(s, heap[a].of[root], w)
  BY <1>1, <1>4, Lengths DEF Leaves
<1>6. ~Broken(tape, s) /\ ~TakenByValue(tape, s, w)
  BY <1>1, InterruptedIs
<1>7. GradIsRight(s, heap[a].of[root], w)
  BY <1>1, <1>3, <1>5, <1>6, LeafIsWritten
<1>8. QED
  BY <1>4, <1>7

\* After the first backward of a Function the program finds in the tensors
\* themselves the derivative of the loss, however many nested contexts, passes
\* before it, no_grad blocks, requires_grad_ calls and calls by value there
\* were: through the ops that were recorded (op_registry.cpp:118), the reverse
\* sweep and the copy into the leaves (autograd.cpp:99), in every program that
\* puts no Function where another one was and whose kernels do not throw.
THEOREM LeafGradsCorrect == Spec /\ ~Does("reuse") => LeafGradsComplete
<1> DEFINE Inv == TracingInv /\ TypeInv /\ EdgeInv /\ LeafInv
<1>1. Init /\ ~Does("reuse") => Inv
  BY TracingInit, TypeInit, EdgeInit, LeafInit
<1>2. Inv /\ [Next]_vars => Inv'
  BY TracingStep, TypeStep, EdgeStep, LeafStep
<1>3. Inv /\ [Next]_vars => [LeafGradsFound]_vars
  BY LeafGradsStep
<1>4. [LeafGradsFound]_vars =>
         [Does("throw") \/ \A a \in live :
             LET s == heap[a].serial
                 l == heap[a].of[heap'[a].output]
             IN  FirstPass(a) /\ ~Interrupted(s) =>
                    \A w \in Leaves(s, l) :
                       ~PassedByValue(s, w) /\ ~tape[w].dropped
                          => GradIsRight(s, l, w)]_vars
  BY DEF LeafGradsFound
<1> HIDE DEF Inv
<1>5. QED
  BY <1>1, <1>2, <1>3, <1>4, PTL DEF Spec, LeafGradsComplete

-----------------------------------------------------------------------------
(* What the grad transform returns.                                         *)

\* The grad tensor of t, if there is one, holds nothing.
NoGrad(t) == tensors[t].grad = 0 \/ gradOf[tensors[t].grad] = 0

\* Tensor t is an argument to be differentiated by, in the Function at a: it
\* was not computed there, and until the Function is differentiated it has
\* no gradient.
GradWaits(a, t) ==
    /\ t \in 1 .. Len(tensors) /\ tape[t].in # heap[a].serial
    /\ heap[a].output # NoNode \/ NoGrad(t)

GradInv ==
    Does("nested") \/ \A i \in DOMAIN contexts :
       contexts[i].arg # 0 => GradWaits(contexts[i].fn, contexts[i].arg)

LEMMA WaitsKept ==
    ASSUME NEW a, NEW t, GradWaits(a, t), Len(tensors) \in Nat, Len(tensors') \in Nat,
           Len(tensors) <= Len(tensors'), tape'[t].in = tape[t].in,
           heap'[a].serial = heap[a].serial,
           \/ (heap'[a].output = heap[a].output /\ (NoGrad(t) => NoGrad(t)'))
           \/ heap'[a].output # NoNode
    PROVE  GradWaits(a, t)'
BY DEF GradWaits

\* A recorded call of run_op puts no gradient anywhere: grad tensors stay, and
\* new ones hold 0.
LEMMA RecordedWaits ==
    ASSUME DOMAIN heap = Addresses, DataTypes, TensorsOK, NEW a \in Addresses,
           NEW f, DOMAIN f = Fields, NEW op \in Ops, NEW byValue \in BOOLEAN,
           NEW ins \in [1 .. Arity(op) -> 1 .. Len(tensors)],
           OpRecordedAt(a, f, op, ins, byValue), NEW t \in 1 .. Len(tensors)
    PROVE  /\ Len(tensors') = Len(tensors) + 1 /\ tape'[t] = tape[t]
           /\ NoGrad(t) => NoGrad(t)'
<1> DEFINE N == Len(tensors)
           n == Len(f.nodes)
           R == Registered(a, ins, byValue)
           inputs == [k \in DOMAIN ins |-> InputId(a, n, R, ins, byValue, k)]
           C == Len(gradOf)
           m == Arity(op)
           G == NewGrads(R, ins)
           e == Cardinality(G)
           cell == [k \in R |-> GradOf(R, ins, k)]
           ts == Marked(a, n, R, ins, byValue)
           t1 == Output(ins, [graph |-> a, node |-> n + Len(InOrder(R)) + 1])
           s1 == Step(op, ins, byValue, f.serial)
<1>1. m \in Nat /\ N \in Nat /\ C \in Nat /\ R \subseteq 1 .. m /\ G \subseteq R
      /\ DOMAIN ins = 1 .. m
  <2>1. m \in Nat /\ DOMAIN ins = 1 .. m
    BY OpsAssumption, LenProperties DEF Arity
  <2>2. N \in Nat /\ C \in Nat
    BY Lengths
  <2>3. R \subseteq 1 .. m
    BY <2>1 DEF Registered
  <2>4. G \subseteq R
    BY DEF NewGrads
  <2>5. QED
    BY <2>1, <2>2, <2>3, <2>4
<1>2. /\ heap'[a].nodes = f.nodes \o [i \in DOMAIN InOrder(R) |-> ParamNode]
                                 \o <<OpNode(op, inputs)>>
      /\ heap'[a].of = f.of \o [i \in DOMAIN InOrder(R) |-> ins[InOrder(R)[i]]] \o <<N + 1>>
      /\ heap'[a].serial = f.serial
      /\ tensors' = Append(ts, t1) /\ tape' = Append(tape, s1)
  BY RecordedAs, ZenonT(30)
<1>3. /\ heap'[a].cells = f.cells \o [i \in DOMAIN InOrder(R) |-> GradOf(R, ins, InOrder(R)[i])]
                                 \o <<0>>
      /\ gradOf' = gradOf \o [k \in 1 .. e |-> 0]
      /\ heap'[a].output = f.output /\ heap'[a].owner = f.owner
  BY RecordedGrads, ZenonT(30)
<1>4. e \in Nat /\ \A k \in G : Rank(G, k) \in 1 .. e
  <2>1. IsFiniteSet(1 .. m)
    <3>1. 1 \in Int /\ m \in Int
      BY <1>1
    <3>2. QED
      BY <3>1, FS_Interval, Zenon
  <2>2. \A k \in 1 .. m : k \in Nat
    BY <1>1
  <2> HIDE DEF G, R
  <2>3. IsFiniteSet(G) /\ G \in SUBSET Nat
    BY <1>1, <2>1, <2>2, FS_Subset
  <2>4. QED
    BY <2>3, InOrderProperties DEF e
<1>5. /\ \A c \in 1 .. C : gradOf'[c] = gradOf[c]
      /\ \A r \in 1 .. e : gradOf'[C + r] = 0
  <2> PICK z : z = [k \in 1 .. e |-> 0]
    OBVIOUS
  <2>1. z \in Seq(Int) /\ Len(z) = e /\ \A r \in 1 .. e : z[r] = 0
    <3>1. e \in Nat /\ z \in [1 .. e -> Int]
      BY <1>4
    <3>2. z \in Seq(Int) /\ Len(z) = e
      BY <3>1, IsASeq
    <3>3. QED
      BY <3>2
  <2>2. gradOf \in Seq(Int)
    BY DEF DataTypes, TensorTypes
  <2>3. gradOf' = gradOf \o z
    BY <1>3
  <2> HIDE DEF e
  <2>4. QED
    BY <1>1, <1>4, <2>1, <2>2, <2>3, ConcatProperties
<1>6. (\E T : ts \in Seq(T)) /\ Len(ts) = N /\ \A u \in 1 .. N : DOMAIN ts[u] = TensorFields
  BY MarkedProperties
<1>7. MarkedAs(a, n, R, ins, byValue, cell, t, tensors[t], ts[t])
  BY MarkedTensors
<1>8. tensors[t].grad \in 0 .. C
  BY Lengths DEF TensorType
<1>9. \A k \in R : cell[k] = IF k \in G THEN C + Rank(G, k) ELSE tensors[ins[k]].grad
  BY DEF GradOf
<1>10. DOMAIN t1 = TensorFields /\ {"inputs", "needed", "dropped"} \subseteq DOMAIN s1
  BY DEF Output, TensorFields, Step
<1> HIDE DEF R, G, e, n, inputs, cell, ts, t1, s1
<1>11. Len(tensors') = N + 1 /\ tensors'[t] = ts[t] /\ tape'[t] = tape[t]
  <2>1. PICK T : ts \in Seq(T)
    BY <1>6
  <2>2. Len(ts) = Len(tensors) /\ \A u \in 1 .. Len(tensors) : DOMAIN ts[u] = TensorFields
    BY <1>6
  <2>3. tensors' = Append(ts, t1) /\ tape' = Append(tape, s1)
    BY <1>2
  <2>4. /\ TensorsOK'
        /\ Len(tensors) \in Nat /\ Len(tensors') = Len(tensors) + 1
        /\ DOMAIN tensors = 1 .. Len(tensors)
        /\ tensors'[Len(tensors) + 1] = t1 /\ tape'[Len(tensors) + 1] = s1
        /\ \A u \in 1 .. Len(tensors) : tensors'[u] = ts[u] /\ tape'[u] = tape[u]
    BY <1>10, <2>1, <2>2, <2>3, OneMore, ZenonT(30)
  <2>5. QED
    BY <2>4
<1>12. ASSUME NoGrad(t) PROVE tensors'[t].grad = 0 \/ gradOf'[tensors'[t].grad] = 0
  <2>1. CASE ts[t] = tensors[t]
    <3>1. tensors'[t].grad = 0 \/ tensors'[t].grad \in 1 .. C
      BY <1>1, <1>8, <1>11, <2>1
    <3>2. QED
      BY <1>5, <1>11, <1>12, <2>1, <3>1 DEF NoGrad
  <2>2. CASE \E k \in R : ins[k] = t /\ ts[t].grad = cell[k]
    <3>1. PICK k \in R : ins[k] = t /\ ts[t].grad = cell[k]
      BY <2>2
    <3>2. CASE k \in G
      BY <1>4, <1>5, <1>9, <1>11, <3>1, <3>2
    <3>3. CASE k \notin G
      <4>1. tensors'[t].grad = tensors[t].grad
        BY <1>9, <1>11, <3>1, <3>3
      <4>2. tensors[t].grad = 0 \/ tensors[t].grad \in 1 .. C
        BY <1>1, <1>8
      <4>3. QED
        BY <1>5, <1>12, <4>1, <4>2 DEF NoGrad
    <3>4. QED
      BY <3>2, <3>3
  <2>3. QED
    BY <1>7, <2>1, <2>2 DEF MarkedAs
<1>13. QED
  BY <1>11, <1>12 DEF NoGrad

LEMMA AddedWaits ==
    ASSUME TensorsOK, NEW t1, DOMAIN t1 = TensorFields,
           NEW s1, {"inputs", "needed", "dropped"} \subseteq DOMAIN s1,
           tensors' = Append(tensors, t1), tape' = Append(tape, s1), UNCHANGED gradOf,
           NEW t \in 1 .. Len(tensors)
    PROVE  /\ Len(tensors') = Len(tensors) + 1 /\ tape'[t] = tape[t]
           /\ NoGrad(t) => NoGrad(t)'
<1>1. PICK T : tensors \in Seq(T)
  BY DEF TensorsOK
<1>2. \A u \in 1 .. Len(tensors) : DOMAIN tensors[u] = TensorFields
  BY <1>1, LenProperties DEF TensorsOK
<1>3. /\ TensorsOK'
      /\ Len(tensors) \in Nat /\ Len(tensors') = Len(tensors) + 1
      /\ DOMAIN tensors = 1 .. Len(tensors)
      /\ tensors'[Len(tensors) + 1] = t1 /\ tape'[Len(tensors) + 1] = s1
      /\ \A u \in 1 .. Len(tensors) : tensors'[u] = tensors[u] /\ tape'[u] = tape[u]
  BY <1>1, <1>2, OneMore, ZenonT(30)
<1>4. QED
  BY <1>3 DEF NoGrad

LEMMA RunOpWaits ==
    ASSUME TracingInv, TypeInv, EdgeInv, LeafInv, RunOp, NEW a \in live, NEW t, GradWaits(a, t)
    PROVE  GradWaits(a, t)'
<1> SUFFICES ASSUME NEW op \in Ops, NEW byValue \in BOOLEAN,
                    NEW ins \in [1 .. Arity(op) -> 1 .. Len(tensors)],
                    \/ OpNotRecorded(op, ins, byValue)
                    \/ OpRecorded(op, ins, byValue)
                    \/ OpStartsFunction(op, ins, byValue)
             PROVE  GradWaits(a, t)'
  BY DEF RunOp
<1>1. /\ HeapOK /\ DataTypes /\ TensorsOK /\ function \in Addresses \cup {NoFn}
      /\ Len(tensors) \in Nat /\ a \in Addresses /\ t \in 1 .. Len(tensors)
  BY Lengths DEF TracingInv, TypeInv, EdgeInv, TracerOK, HeapOK, GradWaits
<1>2. DOMAIN heap = Addresses /\ \A b \in Addresses : DOMAIN heap[b] = Fields
  BY <1>1 DEF HeapOK
<1>3. ASSUME Len(tensors') = Len(tensors) + 1, tape'[t] = tape[t], NoGrad(t) => NoGrad(t)',
             heap'[a].serial = heap[a].serial, heap'[a].output = heap[a].output
      PROVE  GradWaits(a, t)'
  BY <1>1, <1>3, WaitsKept
<1>4. CASE OpNotRecorded(op, ins, byValue)
  <2> DEFINE t1 == Output(ins, NoProducer)
  <2> DEFINE s1 == Step(op, ins, byValue, 0)
  <2>1. /\ DOMAIN t1 = TensorFields
        /\ {"inputs", "needed", "dropped"} \subseteq DOMAIN s1
    BY DEF Output, Step, TensorFields
  <2>2. /\ tensors' = Append(tensors, t1) /\ tape' = Append(tape, s1)
        /\ UNCHANGED <<heap, gradOf>>
    BY <1>4 DEF OpNotRecorded
  <2> HIDE DEF t1, s1
  <2>3. /\ Len(tensors') = Len(tensors) + 1 /\ tape'[t] = tape[t]
        /\ NoGrad(t) => NoGrad(t)'
    BY <1>1, <2>1, <2>2, AddedWaits
  <2>4. QED
    BY <1>3, <2>2, <2>3
<1>5. CASE OpRecorded(op, ins, byValue)
  <2>1. /\ function \in Addresses /\ DOMAIN heap[function] = Fields
        /\ OpRecordedAt(function, heap[function], op, ins, byValue)
    BY <1>1, <1>2, <1>5 DEF OpRecorded
  <2>2. /\ SameFunction(heap[function], heap'[function])
        /\ heap'[function].output = heap[function].output
        /\ \A b \in Addresses \ {function} : heap'[b] = heap[b]
    BY <1>2, <2>1, RecordedAt
  <2>3. heap'[a].serial = heap[a].serial /\ heap'[a].output = heap[a].output
    BY <1>1, <2>2 DEF SameFunction
  <2>4. /\ Len(tensors') = Len(tensors) + 1 /\ tape'[t] = tape[t]
        /\ NoGrad(t) => NoGrad(t)'
    BY <1>1, <1>2, <2>1, RecordedWaits
  <2>5. QED
    BY <1>3, <2>3, <2>4
<1>6. CASE OpStartsFunction(op, ins, byValue)
  <2>1. PICK b \in Free : OpRecordedAt(b, Allocated(TRUE), op, ins, byValue)
    BY <1>6 DEF OpStartsFunction
  <2> DEFINE f == Allocated(TRUE)
  <2>2. /\ b \in Addresses \ live /\ b \in Addresses
        /\ DOMAIN f = Fields /\ OpRecordedAt(b, f, op, ins, byValue)
    BY <1>1, <2>1, NewlyAllocated
  <2> HIDE DEF f
  <2>3. \A c \in Addresses \ {b} : heap'[c] = heap[c]
    BY <1>2, <2>2, RecordedAt
  <2>4. heap'[a] = heap[a]
    BY <1>1, <2>2, <2>3
  <2>5. /\ Len(tensors') = Len(tensors) + 1 /\ tape'[t] = tape[t]
        /\ NoGrad(t) => NoGrad(t)'
    BY <1>1, <1>2, <2>2, RecordedWaits
  <2>6. QED
    BY <1>3, <2>4, <2>5
<1>7. QED
  BY <1>4, <1>5, <1>6

\* A pass over a gives it an output, unless it changes no gradient.
LEMMA PassWaits ==
    ASSUME TracingInv, DataTypes, NEW a \in Addresses, NEW u,
           Returns(a, u) \/ Throws(a, u) \/ Overruns(a, u), UNCHANGED <<tensors, tape>>,
           NEW t, GradWaits(a, t)
    PROVE  GradWaits(a, t)'
<1>1. DOMAIN heap = Addresses /\ DOMAIN heap[a] = Fields /\ Len(tensors) \in Nat
  BY Lengths DEF TracingInv, HeapOK
<1>2. CASE UNCHANGED <<heap, gradOf>>
  BY <1>2 DEF GradWaits, NoGrad
<1>3. CASE Completes(a, u) \/ Throws(a, u)
  <2>1. PICK root : root \in Ids(heap[a].nodes) /\ heap' = [heap EXCEPT ![a].output = root]
    BY <1>3 DEF Completes, Throws
  <2>2. heap'[a].output = root /\ heap'[a].serial = heap[a].serial
    BY <1>1, <2>1 DEF Fields
  <2>3. root # NoNode
    <3>1. FunctionTypes(heap[a], Len(tensors), Len(gradOf), created)
      BY DEF DataTypes
    <3>2. root \in 1 .. Len(heap[a].nodes)
      BY <2>1, <3>1, LenProperties DEF FunctionTypes, Ids
    <3>3. QED
      BY <3>2 DEF NoNode
  <2>4. QED
    BY <2>2, <2>3 DEF GradWaits
<1>4. QED
  BY <1>2, <1>3 DEF Returns, ReturnsEarly, Overruns

\* A step that keeps or drops grad tensors, and adds none.
LEMMA KeptWaits ==
    ASSUME NEW N \in Nat, TensorsKept(N, N), NEW a, NEW t, GradWaits(a, t),
           heap'[a] = heap[a], \A c : c # 0 /\ gradOf[c] = 0 => gradOf'[c] = 0
    PROVE  GradWaits(a, t)'
<1>1. /\ Len(tensors) = N /\ Len(tensors') = N /\ t \in 1 .. N
      /\ tape'[t].in = tape[t].in
      /\ tensors'[t].grad # 0 => tensors'[t].grad = tensors[t].grad
  BY DEF TensorsKept, Grows, SameStep, GradWaits
<1>2. NoGrad(t) => NoGrad(t)'
  BY <1>1 DEF NoGrad
<1>3. QED
  BY <1>1, <1>2, WaitsKept

\* Whatever is done in the with-blocks that are left or entered again.
LEMMA GradInvStays ==
    ASSUME GradInv, UNCHANGED <<program, heap, tensors, gradOf, tape>>,
           Does("nested") \/ \A i \in DOMAIN contexts' : contexts'[i].arg # 0 =>
              \E j \in DOMAIN contexts : /\ contexts[j].arg = contexts'[i].arg
                                        /\ contexts[j].fn = contexts'[i].fn
    PROVE  GradInv'
<1> SUFFICES ASSUME ~Does("nested"), NEW i \in DOMAIN contexts', contexts'[i].arg # 0,
                    NEW a, a = contexts'[i].fn, NEW t, t = contexts'[i].arg
             PROVE  GradWaits(a, t)'
  BY DEF GradInv, Does, GradWaits, NoGrad
<1>1. PICK j \in DOMAIN contexts : contexts[j].arg = t /\ contexts[j].fn = a
  OBVIOUS
<1>2. GradWaits(a, t)
  BY <1>1 DEF GradInv
<1>3. QED
  BY <1>2 DEF GradWaits, NoGrad

\* A step in the with-blocks the program is in.
LEMMA GradInvKept ==
    ASSUME TracingInv, GradInv, UNCHANGED <<program, contexts>>,
           ~Does("nested") => \A a \in live : \A t : \A i \in DOMAIN contexts :
              /\ contexts[i].arg # 0 /\ contexts[i].fn = a /\ function = a
              /\ GradWaits(a, t)
              => GradWaits(a, t)'
    PROVE  GradInv'
<1> SUFFICES ASSUME ~Does("nested"), NEW i \in DOMAIN contexts, contexts[i].arg # 0,
                    NEW a, a = contexts[i].fn, NEW t, t = contexts[i].arg
             PROVE  GradWaits(a, t)'
  BY DEF GradInv, Does, GradWaits, NoGrad
<1>1. a \in live /\ function = a
  BY DEF TracingInv, ContextsOK, NestingOK
<1>2. GradWaits(a, t)
  BY DEF GradInv
<1>3. QED
  BY <1>1, <1>2

LEMMA GradBegins ==
    ASSUME TracingInv, DataTypes, TensorsOK, LeafInv, UNCHANGED program,
           NEW t \in DOMAIN tensors, GradTransformBegins(t)
    PROVE  GradInv'
<1> SUFFICES ASSUME ~Does("nested") PROVE GradInv'
  BY DEF GradInv, Does
<1>1. PICK S : contexts \in Seq(S)
  BY DEF TracingInv, ContextsOK
<1>2. PICK a \in Free : /\ heap' = [heap EXCEPT ![a] = Allocated(FALSE)]
                        /\ contexts' = Append(contexts, FunctionContext(a, t))
  BY DEF GradTransformBegins, EnterNewFunction
<1>3. /\ DOMAIN contexts' = 1 .. Len(contexts) + 1 /\ Len(contexts) \in Nat
      /\ DOMAIN contexts = 1 .. Len(contexts)
      /\ contexts'[Len(contexts) + 1] = FunctionContext(a, t)
      /\ \A k \in DOMAIN contexts : contexts'[k] = contexts[k]
  BY <1>1, <1>2, Pushed
<1>4. \A i \in DOMAIN contexts : contexts[i].arg = 0
  BY DEF GradTransformBegins, EnterNewFunction, MayEnter, TracingInv, ContextsOK
<1>5. GradWaits(a, t)'
  <2>1. heap'[a].serial = created + 1
    BY <1>2, NewlyAllocated DEF TracingInv, HeapOK
  <2>2. t \in 1 .. Len(tensors) /\ DOMAIN tensors[t] = TensorFields
    BY Lengths DEF TensorsOK
  <2>3. Len(tensors') = Len(tensors)
    BY BeginsKeeps DEF TensorsKept
  <2>4. tape'[t].in # heap'[a].serial
    <3>1. tape[t].in \in 0 .. created /\ tape' = tape
      BY <2>2, Lengths DEF LeafInv, HistoryOK, GradTransformBegins, EnterNewFunction
    <3>2. QED
      BY <2>1, <3>1, Lengths
  <2>5. NoGrad(t)'
    <3>1. tensors'[t].grad = tensors[t].grad
      BY <2>2 DEF GradTransformBegins, TensorFields
    <3>2. CASE tensors[t].grad = 0
      BY <3>1, <3>2 DEF NoGrad
    <3>3. CASE tensors[t].grad # 0
      <4> PICK c : c = tensors[t].grad
        OBVIOUS
      <4>1. tensors[t].grad \in 0 .. Len(gradOf)
        BY Lengths DEF TensorType
      <4>2. c \in DOMAIN gradOf
        BY <3>3, <4>1, Lengths
      <4>3. gradOf' = [gradOf EXCEPT ![c] = 0]
        BY <3>3 DEF GradTransformBegins, Zeroed
      <4>4. gradOf'[c] = 0
        BY <4>2, <4>3
      <4>5. QED
        BY <3>1, <4>4 DEF NoGrad
    <3>4. QED
      BY <3>2, <3>3
  <2>6. QED
    BY <2>2, <2>3, <2>4, <2>5 DEF GradWaits
<1>6. ASSUME NEW i \in DOMAIN contexts', contexts'[i].arg # 0, NEW b, b = contexts'[i].fn,
             NEW u, u = contexts'[i].arg
      PROVE  GradWaits(b, u)'
  <2>1. i = Len(contexts) + 1
    BY <1>3, <1>4, <1>6
  <2>2. b = a /\ u = t
    BY <1>3, <1>6, <2>1 DEF FunctionContext
  <2>3. QED
    BY <1>5, <2>2
<1>7. QED
  BY <1>6 DEF GradInv, GradWaits, NoGrad

\* A backward in the with-block of grad(fn)(x) is of fn: no other Function is
\* at hand there.
LEMMA PassesWait ==
    ASSUME TracingInv, DataTypes, GradInv, UNCHANGED program, ~Does("nested"), Backward,
           NEW a \in live, NEW t, GradWaits(a, t), function = a,
           NEW i \in DOMAIN contexts, contexts[i].arg # 0, contexts[i].fn = a
    PROVE  GradWaits(a, t)'
<1>1. /\ contexts[i].kind = "fn" /\ a \in Addresses /\ a # NoFn
      /\ \A j \in DOMAIN contexts : contexts[j].kind = "fn" => i = j
  BY TracingAssumption DEF TracingInv, ContextsOK, NestingOK, HeapOK
<1>2. ASSUME NEW b, NEW u, FunctionBackward(b, u) PROVE FALSE
  <2>1. b \in Held /\ (Entered(b) \/ MayEnter)
    BY <1>2 DEF FunctionBackward
  <2>2. ~MayEnter
    BY <1>1 DEF MayEnter
  <2>3. b = a
    BY <1>1, <2>1, <2>2 DEF Entered
  <2>4. QED
    BY <2>1, <2>3 DEF Held
<1>3. ASSUME NEW u, TensorBackwardHere(u) PROVE GradWaits(a, t)'
  <2>1. /\ Returns(a, u) \/ Throws(a, u) \/ Overruns(a, u)
        /\ UNCHANGED <<tensors, tape>>
    BY <1>3 DEF TensorBackwardHere
  <2>2. QED
    BY <1>1, <2>1, PassWaits
<1>4. ASSUME NEW u, TensorBackwardElsewhere(u) PROVE FALSE
  BY <1>1, <1>4 DEF TensorBackwardElsewhere
<1>5. QED
  BY <1>2, <1>3, <1>4 DEF Backward

\* The with-block of grad is the only one that is left there.
LEMMA GradEnds ==
    ASSUME TracingInv, UNCHANGED program, NEW t, GradTransformEnds(t)
    PROVE  GradInv'
<1> SUFFICES ASSUME ~Does("nested") PROVE GradInv'
  BY DEF GradInv, Does
<1>1. PICK S : contexts \in Seq(S)
  BY DEF TracingInv, ContextsOK
<1>2. /\ contexts # <<>> /\ Last(contexts).arg # 0 /\ contexts' = Front(contexts)
  BY DEF GradTransformEnds, InGradTransform
<1>3. /\ Len(contexts) \in Nat /\ DOMAIN contexts = 1 .. Len(contexts)
      /\ Len(contexts) \in DOMAIN contexts /\ Last(contexts) = contexts[Len(contexts)]
      /\ DOMAIN contexts' = 1 .. Len(contexts) - 1
      /\ \A k \in DOMAIN contexts' : contexts'[k] = contexts[k]
  BY <1>1, <1>2, Shortened
<1>4. \A k \in DOMAIN contexts' : k \in DOMAIN contexts /\ k # Len(contexts)
  BY <1>3
<1>5. \A k \in DOMAIN contexts' : contexts'[k].arg = 0
  BY <1>2, <1>3, <1>4 DEF TracingInv, ContextsOK, NestingOK
<1>6. QED
  BY <1>5 DEF GradInv

LEMMA GradStep ==
    TracingInv /\ TypeInv /\ EdgeInv /\ LeafInv /\ GradInv /\ [Next]_vars => GradInv'
<1> SUFFICES ASSUME TracingInv, TypeInv, EdgeInv, LeafInv, GradInv, [Next]_vars PROVE GradInv'
  OBVIOUS
<1>1. /\ UNCHANGED program /\ DataTypes /\ TensorsOK /\ DOMAIN heap = Addresses
      /\ live \subseteq Addresses
  BY DEF Next, vars, TypeInv, EdgeInv, TracingInv, HeapOK
<1>2. CASE RunOp
  <2>1. UNCHANGED contexts
    <3>1. ASSUME NEW a, NEW f, NEW op, NEW ins, NEW byValue,
                 OpRecordedAt(a, f, op, ins, byValue)
          PROVE  UNCHANGED contexts
      BY <3>1 DEF OpRecordedAt
    <3>2. QED
      BY <1>2, <3>1 DEF RunOp, OpNotRecorded, OpRecorded, OpStartsFunction
  <2>2. \A a \in live : \A t : GradWaits(a, t) => GradWaits(a, t)'
    BY <1>2, RunOpWaits
  <2>3. QED
    BY <1>1, <2>1, <2>2, GradInvKept
<1>3. ASSUME NEW requiresGrad \in BOOLEAN, NewTensor(requiresGrad) PROVE GradInv'
  <2> DEFINE t1 == [requiresGrad |-> requiresGrad, producer |-> NoProducer, grad |-> 0]
  <2> DEFINE s1 == Step("leaf", <<>>, FALSE, 0)
  <2>1. DOMAIN t1 = TensorFields /\ {"inputs", "needed", "dropped"} \subseteq DOMAIN s1
    BY DEF Step, TensorFields
  <2>2. /\ tensors' = Append(tensors, t1) /\ tape' = Append(tape, s1)
        /\ UNCHANGED <<heap, gradOf, contexts>>
    BY <1>3 DEF NewTensor
  <2> HIDE DEF t1, s1
  <2>3. ASSUME NEW a \in live, NEW t, GradWaits(a, t) PROVE GradWaits(a, t)'
    <3>1. t \in 1 .. Len(tensors) /\ Len(tensors) \in Nat
      BY <1>1, <2>3, Lengths DEF GradWaits
    <3>2. /\ Len(tensors') = Len(tensors) + 1 /\ tape'[t] = tape[t]
          /\ NoGrad(t) => NoGrad(t)'
      BY <1>1, <2>1, <2>2, <3>1, AddedWaits
    <3>3. /\ Len(tensors') \in Nat /\ Len(tensors) <= Len(tensors')
          /\ tape'[t].in = tape[t].in
          /\ heap'[a].serial = heap[a].serial /\ heap'[a].output = heap[a].output
      BY <2>2, <3>1, <3>2
    <3>4. QED
      BY <2>3, <3>1, <3>2, <3>3, WaitsKept
  <2>4. QED
    BY <1>1, <2>2, <2>3, GradInvKept
<1>4. ASSUME NEW t \in DOMAIN tensors, NEW value \in BOOLEAN, SetRequiresGrad(t, value)
      PROVE  GradInv'
  <2>1. TensorsKept(Len(tensors), Len(tensors)) /\ Len(tensors) \in Nat
    BY <1>1, <1>4, ToggleKeeps
  <2>2. UNCHANGED <<heap, gradOf, contexts>>
    BY <1>4 DEF SetRequiresGrad
  <2>3. \A a \in live : \A u : GradWaits(a, u) => GradWaits(a, u)'
    BY <2>1, <2>2, KeptWaits
  <2>4. QED
    BY <1>1, <2>2, <2>3, GradInvKept
<1>5. CASE EnterFunction \/ ReenterFunction
  <2>1. MayEnter /\ \E a : contexts' = Append(contexts, FunctionContext(a, 0))
    BY <1>5 DEF EnterFunction, EnterNewFunction, ReenterFunction
  <2>2. PICK a : contexts' = Append(contexts, FunctionContext(a, 0))
    BY <2>1
  <2>3. PICK S : contexts \in Seq(S)
    BY DEF TracingInv, ContextsOK
  <2>4. /\ DOMAIN contexts' = 1 .. Len(contexts) + 1 /\ Len(contexts) \in Nat
        /\ DOMAIN contexts = 1 .. Len(contexts)
        /\ contexts'[Len(contexts) + 1] = FunctionContext(a, 0)
        /\ \A k \in DOMAIN contexts : contexts'[k] = contexts[k]
    BY <2>2, <2>3, Pushed
  <2>5. ~Does("nested") => \A i \in DOMAIN contexts : contexts[i].arg = 0
    BY <2>1 DEF MayEnter, TracingInv, ContextsOK
  <2>6. \A i \in DOMAIN contexts' : i \in DOMAIN contexts \/ i = Len(contexts) + 1
    BY <2>4
  <2>7. ~Does("nested") => \A i \in DOMAIN contexts' : contexts'[i].arg = 0
    BY <2>4, <2>5, <2>6 DEF FunctionContext
  <2>8. QED
    BY <1>1, <2>7 DEF GradInv, Does
<1>6. ASSUME NEW t \in DOMAIN tensors, GradTransformBegins(t) PROVE GradInv'
  BY <1>1, <1>6, GradBegins
<1>7. CASE Backward
  <2>1. UNCHANGED contexts
    BY <1>7 DEF Backward, FunctionBackward, TensorBackwardHere, TensorBackwardElsewhere
  <2>2. ~Does("nested") => \A a \in live : \A t : \A i \in DOMAIN contexts :
           /\ contexts[i].arg # 0 /\ contexts[i].fn = a /\ function = a
           /\ GradWaits(a, t)
           => GradWaits(a, t)'
    BY <1>1, <1>7, PassesWait
  <2>3. QED
    BY <1>1, <2>1, <2>2, GradInvKept
<1>8. ASSUME NEW t, GradTransformEnds(t) PROVE GradInv'
  BY <1>1, <1>8, GradEnds
<1>9. CASE ExitFunction \/ ExitGradMode
  <2>1. /\ contexts # <<>> /\ contexts' = Front(contexts)
        /\ UNCHANGED <<heap, tensors, gradOf, tape>>
    BY <1>9 DEF ExitFunction, ExitGradMode
  <2>2. PICK S : contexts \in Seq(S)
    BY DEF TracingInv, ContextsOK
  <2>3. /\ Len(contexts) \in Nat /\ DOMAIN contexts = 1 .. Len(contexts)
        /\ DOMAIN contexts' = 1 .. Len(contexts) - 1
        /\ \A k \in DOMAIN contexts' : contexts'[k] = contexts[k]
    BY <2>1, <2>2, Shortened
  <2>4. \A k \in DOMAIN contexts' : k \in DOMAIN contexts
    BY <2>3
  <2>5. QED
    BY <1>1, <2>1, <2>3, <2>4, GradInvStays
<1>10. CASE EnterGradMode
  <2>1. PICK c : contexts' = Append(contexts, c) /\ c.arg = 0
    BY <1>10 DEF EnterGradMode
  <2>2. PICK S : contexts \in Seq(S)
    BY DEF TracingInv, ContextsOK
  <2>3. /\ DOMAIN contexts' = 1 .. Len(contexts) + 1 /\ Len(contexts) \in Nat
        /\ DOMAIN contexts = 1 .. Len(contexts)
        /\ contexts'[Len(contexts) + 1] = c
        /\ \A k \in DOMAIN contexts : contexts'[k] = contexts[k]
    BY <2>1, <2>2, Pushed
  <2>4. \A i \in DOMAIN contexts' : i \in DOMAIN contexts \/ i = Len(contexts) + 1
    BY <2>3
  <2>5. UNCHANGED <<heap, tensors, gradOf, tape>>
    BY <1>10 DEF EnterGradMode
  <2>6. QED
    BY <1>1, <2>1, <2>3, <2>4, <2>5, GradInvStays
<1>11. CASE DropFunction \/ UNCHANGED vars
  <2>1. UNCHANGED <<heap, tensors, gradOf, tape, contexts>>
    BY <1>11 DEF DropFunction, vars
  <2>2. QED
    BY <1>1, <2>1, GradInvStays
<1>12. QED
  BY <1>2, <1>3, <1>4, <1>5, <1>6, <1>7, <1>8, <1>9, <1>10, <1>11 DEF Next, Operation

LEMMA GradInit == Init => GradInv
<1> SUFFICES ASSUME Init PROVE GradInv
  OBVIOUS
<1>1. DOMAIN contexts = {}
  BY EmptySeq DEF Init
<1>2. QED
  BY <1>1 DEF GradInv

\* A pass that reaches no node of t writes nothing into its grad tensor.
LEMMA NothingIsWritten ==
    ASSUME DataTypes, LeafInv, NEW a \in Addresses, NEW root, gradOf' = GradsAfter(a, root),
           NEW t \in 1 .. Len(tensors), NEW c, c = tensors[t].grad, c # 0,
           ~ \E p \in 1 .. Len(heap[a].nodes) :
               /\ heap[a].of[p] = t /\ IsParam(heap[a].nodes, p)
               /\ DependsOn(Edges(a), root, p) /\ heap[a].cells[p] = c
    PROVE  gradOf'[c] = gradOf[c]
<1> PICK f : f = heap[a]
  OBVIOUS
<1> DEFINE g == Edges(a)
           n == Len(f.nodes)
<1>1. f.nodes \in Seq(OpNodes) /\ n \in Nat
  BY LenProperties DEF DataTypes, FunctionTypes
<1>2. PICK own : OwnsNodes(own, f) /\ OwnsTensors(own, tensors, Len(tensors))
  BY DEF LeafInv
<1>3. Ids(g) = 1 .. n
  BY <1>1, EdgesDescend DEF Descends, Ids
<1>4. \A i \in 1 .. n : IsParam(g, i) <=> IsParam(f.nodes, i)
  BY <1>1, EdgesAre DEF IsParam
<1>5. c \in DOMAIN gradOf
  <2>1. tensors[t].grad \in 0 .. Len(gradOf)
    BY Lengths DEF TensorType
  <2>2. QED
    BY <2>1, Lengths
<1>6. own[c] = t
  BY <1>2 DEF OwnsTensors
<1>7. gradOf'[c] =
         LET reached == {i \in Ids(g) : IsParam(g, i) /\ f.cells[i] = c
                                        /\ DependsOn(g, root, i)} IN
         IF reached = {} THEN gradOf[c] ELSE Derivative(g, root, Max(reached))
  BY <1>5 DEF GradsAfter
<1>8. ~ \E p \in 1 .. n : /\ f.of[p] = t /\ IsParam(f.nodes, p)
                        /\ DependsOn(g, root, p) /\ f.cells[p] = c
  OBVIOUS
<1> HIDE DEF g, n
<1>9. {i \in Ids(g) : IsParam(g, i) /\ f.cells[i] = c /\ DependsOn(g, root, i)} = {}
  <2> SUFFICES ASSUME NEW i \in 1 .. n, IsParam(f.nodes, i), f.cells[i] = c,
                      DependsOn(g, root, i)
               PROVE  FALSE
    BY <1>3, <1>4
  <2>1. own[c] = f.of[i]
    BY <1>2 DEF OwnsNodes, n
  <2>2. QED
    BY <1>6, <1>8, <2>1
<1>10. QED
  BY <1>7, <1>9

\* What GradTransformRight says of a step.
GradTransformFound ==
    LET a == Last(contexts).fn
        t == Last(contexts).arg
        s == heap[a].serial
    IN
    /\ InGradTransform /\ Len(contexts') < Len(contexts)
    /\ FirstPass(a) /\ ~Does("throw") /\ ~Does("nested") /\ ~Interrupted(s)
    /\ tensors[t].grad # 0 /\ ~PassedByValue(s, t) /\ ~tape[t].dropped
    => gradOf'[tensors[t].grad] = TrueDerivative(s, heap[a].of[heap'[a].output], t)

LEMMA GradTransformStep ==
    TracingInv /\ TypeInv /\ EdgeInv /\ LeafInv /\ GradInv /\ [Next]_vars => GradTransformFound
<1> SUFFICES ASSUME TracingInv, TypeInv, EdgeInv, LeafInv, GradInv, [Next]_vars,
                    NEW a, a = Last(contexts).fn, NEW t, t = Last(contexts).arg,
                    NEW s, s = heap[a].serial, InGradTransform, FirstPass(a),
                    ~Does("throw"), ~Does("nested"), ~Interrupted(s),
                    NEW c, c = tensors[t].grad, c # 0, ~PassedByValue(s, t), ~tape[t].dropped
             PROVE  gradOf'[c] = TrueDerivative(s, heap[a].of[heap'[a].output], t)
  BY DEF GradTransformFound
<1>1. /\ a \in live /\ GradWaits(a, t)
  <2>1. PICK S : contexts \in Seq(S)
    BY DEF TracingInv, ContextsOK
  <2>2. Last(contexts) = contexts[Len(contexts)] /\ Len(contexts) \in DOMAIN contexts
    BY <2>1, Shortened DEF InGradTransform
  <2> PICK i : i = Len(contexts)
    OBVIOUS
  <2>3. i \in DOMAIN contexts /\ contexts[i].arg = t /\ contexts[i].fn = a /\ t # 0
    BY <2>2 DEF InGradTransform
  <2>4. QED
    BY <2>3 DEF TracingInv, ContextsOK, GradInv
<1>2. /\ DataTypes /\ a \in Addresses /\ s # 0 /\ DOMAIN heap = Addresses
      /\ DOMAIN heap[a] = Fields /\ t \in 1 .. Len(tensors) /\ tape[t].in # s
      /\ gradOf[c] = 0
  BY <1>1 DEF TypeInv, TracingInv, HeapOK, GradWaits, NoGrad, FirstPass
<1>3. PICK u : Completes(a, u)
  BY <1>1, OutputComesFromPass DEF FirstPass, GivesOutput
<1> PICK root : root = OutputOf(a, u)
  OBVIOUS
<1>4. /\ root \in Ids(heap[a].nodes) /\ gradOf' = GradsAfter(a, root)
      /\ heap' = [heap EXCEPT ![a].output = root]
  BY <1>3 DEF Completes
<1>5. heap'[a].output = root
  BY <1>2, <1>4 DEF Fields
<1>6. ~Broken(tape, s) /\ ~TakenByValue(tape, s, t)
  BY <1>2, InterruptedIs
<1>7. CASE \E p \in 1 .. Len(heap[a].nodes) :
              /\ heap[a].of[p] = t /\ IsParam(heap[a].nodes, p)
              /\ DependsOn(Edges(a), root, p) /\ heap[a].cells[p] = c
  <2>1. PICK p \in 1 .. Len(heap[a].nodes) :
              /\ heap[a].of[p] = t /\ IsParam(heap[a].nodes, p)
              /\ DependsOn(Edges(a), root, p) /\ heap[a].cells[p] = c
    BY <1>7
  <2>2. gradOf'[c] = TrueDerivative(heap[a].serial, heap[a].of[root], t)
    BY <1>2, <1>4, <1>6, <2>1, NodeIsWritten
  <2>3. QED
    BY <1>5, <2>2
<1>8. CASE ~ \E p \in 1 .. Len(heap[a].nodes) :
              /\ heap[a].of[p] = t /\ IsParam(heap[a].nodes, p)
              /\ DependsOn(Edges(a), root, p) /\ heap[a].cells[p] = c
  <2>1. gradOf'[c] = 0
    BY <1>2, <1>4, <1>8, NothingIsWritten
  <2>2. ~ComputedFrom(s, heap[a].of[root], t)
    BY <1>2, <1>4, <1>6, <1>8, LeafHasNode
  <2>3. Past(Len(tensors)) /\ heap[a].of[root] \in 1 .. Len(tensors)
    <3>1. Follows(Edges(a), heap[a], heap[a].serial, Len(heap[a].nodes), Len(tensors))
      BY <1>2, <1>6, GraphFollows
    <3>2. FunctionTypes(heap[a], Len(tensors), Len(gradOf), created)
      BY <1>2 DEF DataTypes
    <3>3. root \in 1 .. Len(heap[a].nodes)
      BY <1>4, <3>2, LenProperties DEF FunctionTypes, Ids
    <3>4. QED
      BY <3>1, <3>3 DEF Follows
  <2>4. TrueDerivative(s, heap[a].of[root], t) = 0
    BY <1>2, <2>2, <2>3, NotComputedFrom
  <2>5. QED
    BY <1>5, <2>1, <2>4
<1>9. QED
  BY <1>7, <1>8

\* What grad(fn)(t) returns is the derivative of what fn returned with respect
\* to t, whatever gradient t held before (grad.py:22) and whatever fn does with
\* no_grad, requires_grad_ and the C++ layers, in every program that puts no
\* Function where another one was; up to what GradTransformRight leaves out.
THEOREM GradTransformCorrect == Spec /\ ~Does("reuse") => GradTransformRight
<1> DEFINE Inv == TracingInv /\ TypeInv /\ EdgeInv /\ LeafInv /\ GradInv
<1>1. Init /\ ~Does("reuse") => Inv
  BY TracingInit, TypeInit, EdgeInit, LeafInit, GradInit
<1>2. Inv /\ [Next]_vars => Inv'
  BY TracingStep, TypeStep, EdgeStep, LeafStep, GradStep
<1>3. Inv /\ [Next]_vars => [GradTransformFound]_vars
  BY GradTransformStep
<1>4. [GradTransformFound]_vars =>
         [LET a == Last(contexts).fn
              t == Last(contexts).arg
              s == heap[a].serial
          IN
          /\ InGradTransform /\ Len(contexts') < Len(contexts)
          /\ FirstPass(a) /\ ~Does("throw") /\ ~Does("nested") /\ ~Interrupted(s)
          /\ tensors[t].grad # 0 /\ ~PassedByValue(s, t) /\ ~tape[t].dropped
          => gradOf'[tensors[t].grad]
               = TrueDerivative(s, heap[a].of[heap'[a].output], t)]_vars
  BY DEF GradTransformFound
<1> HIDE DEF Inv
<1>5. QED
  BY <1>1, <1>2, <1>3, <1>4, PTL DEF Spec, GradTransformRight
=============================================================================
