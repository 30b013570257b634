--------------------------- MODULE AutogradProofs ---------------------------
(***************************************************************************)
(* Theorems about Autograd for every set of ops, every graph and every     *)
(* number of backward calls.                                               *)
(***************************************************************************)
EXTENDS Autograd, DataLemmas, SequenceTheorems

\* A sequence without its last element.
LEMMA FrontProperties ==
    ASSUME NEW S, NEW s \in Seq(S), s # <<>>
    PROVE  /\ Len(s) \in Nat \ {0}
           /\ SubSeq(s, 1, Len(s) - 1) \in Seq(S)
           /\ Len(SubSeq(s, 1, Len(s) - 1)) = Len(s) - 1
           /\ \A i \in 1..(Len(s) - 1) : SubSeq(s, 1, Len(s) - 1)[i] = s[i]
<1>1. Len(s) \in Nat \ {0}
  OBVIOUS
<1>2. ASSUME NEW n \in Nat, n + 1 = Len(s)
      PROVE  /\ SubSeq(s, 1, n) \in Seq(S)
             /\ Len(SubSeq(s, 1, n)) = n
             /\ \A i \in 1..n : SubSeq(s, 1, n)[i] = s[i]
  <2>1. \A i \in 1..n : s[i] \in S
    BY <1>2
  <2>2. QED
    BY <1>2, <2>1, SubSeqProperties
<1>3. \E n \in Nat : n + 1 = Len(s) /\ n = Len(s) - 1
  BY <1>1
<1>4. QED
  BY <1>1, <1>2, <1>3

\* The nodes of a recorded graph: an op node has one earlier input, or no
\* input, for every argument of its op.
LEMMA InputsAreEarlier ==
    ASSUME Recorded(graph), NEW i \in Ids(graph)
    PROVE  /\ InputsOf(i) \in Seq(NoNode..(i - 1))
           /\ \A k \in DOMAIN InputsOf(i) : InputsOf(i)[k] \in NoNode..(i - 1)
           /\ HasKernel(i) => /\ graph[i].op \in Ops
                              /\ Len(InputsOf(i)) = Arity(graph[i].op)
           /\ IsParam(graph, i) => InputsOf(i) = <<>>
<1>1. CASE graph[i] = ParamNode
  BY <1>1 DEF ParamNode, HasKernel, IsParam, InputsOf
<1>2. CASE graph[i] # ParamNode
  <2>1. /\ graph[i].op \in Ops
        /\ InputsOf(i) \in Seq(NoNode..(i - 1))
        /\ Len(InputsOf(i)) = Arity(graph[i].op)
    BY <1>2 DEF Recorded, InputsOf
  <2>2. \A S : InputsOf(i) \in Seq(S) =>
                 \A k \in DOMAIN InputsOf(i) : InputsOf(i)[k] \in S
    OBVIOUS
  <2>3. QED
    BY <2>1, <2>2, OpsAssumption DEF HasKernel, IsParam
<1>3. QED
  BY <1>1, <1>2

Frames == [node : Ids(graph), k : Nat \ {0}]

LEMMA StackFrames ==
    ASSUME DfsOK
    PROVE  /\ Len(stack) \in Nat /\ DOMAIN stack = 1..Len(stack)
           /\ stack \in Seq(Frames)
           /\ \A i \in DOMAIN stack : /\ stack[i].node \in Ids(graph)
                                     /\ stack[i].k \in Nat \ {0}
<1>1. stack \in Seq(Frames)
  BY DEF DfsOK, Frames
<1>2. \A i \in DOMAIN stack : stack[i] \in Frames
  BY <1>1
<1>3. QED
  BY <1>1, <1>2 DEF Frames

\* What Pop and NextInput do to the stack of the depth-first search.
LEMMA TopFrame ==
    ASSUME GraphOK, DfsOK, stack # <<>>
    PROVE  /\ Len(stack) \in Nat \ {0}
           /\ Top \in Frames
           /\ TopInputs \in Seq(NoNode..(Top.node - 1))
           /\ \A k \in DOMAIN TopInputs : TopInputs[k] \in NoNode..(Top.node - 1)
           /\ Pop \in Seq(Frames)
           /\ Len(Pop) = Len(stack) - 1
           /\ \A i \in 1..(Len(stack) - 1) : Pop[i] = stack[i]
           /\ NextInput \in Seq(Frames)
           /\ Len(NextInput) = Len(stack)
           /\ \A i \in 1..(Len(stack) - 1) : NextInput[i] = stack[i]
           /\ NextInput[Len(stack)] = [node |-> Top.node, k |-> Top.k + 1]
<1>1. Len(stack) \in Nat \ {0} /\ stack \in Seq(Frames)
  BY DEF DfsOK, Frames
<1>2. Top \in Frames
  BY <1>1 DEF Top
<1>3. /\ TopInputs \in Seq(NoNode..(Top.node - 1))
      /\ \A k \in DOMAIN TopInputs : TopInputs[k] \in NoNode..(Top.node - 1)
  BY <1>2, InputsAreEarlier DEF GraphOK, Frames, TopInputs, InputsOf
<1>4. /\ Pop \in Seq(Frames)
      /\ Len(Pop) = Len(stack) - 1
      /\ \A i \in 1..(Len(stack) - 1) : Pop[i] = stack[i]
  BY <1>1, FrontProperties DEF Pop
<1>5. [Top EXCEPT !.k = @ + 1] = [node |-> Top.node, k |-> Top.k + 1]
  BY <1>2 DEF Frames
<1>6. [node |-> Top.node, k |-> Top.k + 1] \in Frames
  BY <1>2 DEF Frames
<1>7. QED
  BY <1>1, <1>2, <1>3, <1>4, <1>5, <1>6 DEF NextInput

\* The node the sweep is at.
LEMMA CurrentNode ==
    ASSUME GraphOK, DfsOK, PassOK, pos <= Len(order)
    PROVE  /\ Current \in Ids(graph)
           /\ InputsOf(Current) \in Seq(NoNode..(Current - 1))
           /\ \A k \in DOMAIN InputsOf(Current) :
                 InputsOf(Current)[k] \in NoNode..(Current - 1)
           /\ HasKernel(Current) =>
                 /\ graph[Current].op \in Ops
                 /\ Len(InputsOf(Current)) = Arity(graph[Current].op)
                 /\ Partial[graph[Current].op] \in Seq(Int)
<1>1. Current \in Ids(graph)
  BY DEF DfsOK, PassOK, Current
<1>2. QED
  BY <1>1, InputsAreEarlier, OpsAssumption DEF GraphOK

\* A graph has finitely many uses of a node, each of them a position in the
\* inputs of a node.
LEMMA UsesFinite ==
    ASSUME GraphOK, NEW p
    PROVE  /\ IsFiniteSet(Uses(graph, p))
           /\ Cardinality(Uses(graph, p)) \in Nat
           /\ \A u, k : <<u, k>> \in Uses(graph, p) <=>
                 /\ u \in Ids(graph) /\ k \in DOMAIN InputsOf(u)
                 /\ InputsOf(u)[k] = p
           /\ \A e \in Uses(graph, p) : e = <<e[1], e[2]>>
<1> DEFINE slots == [u \in Ids(graph) |-> {u} \X DOMAIN graph[u].inputs]
           All == UNION {slots[u] : u \in Ids(graph)}
<1>1. IsFiniteSet({slots[u] : u \in Ids(graph)})
  <2>1. IsFiniteSet(Ids(graph))
    BY FS_Interval DEF Ids, GraphOK
  <2>2. slots \in Surjection(Ids(graph), {slots[u] : u \in Ids(graph)})
    BY DEF Surjection
  <2>3. QED
    BY <2>1, <2>2, FS_Surjection
<1>2. ASSUME NEW u \in Ids(graph) PROVE IsFiniteSet(slots[u])
  <2>1. IsFiniteSet(DOMAIN graph[u].inputs)
    <3>1. InputsOf(u) \in Seq(NoNode..(u - 1))
      BY InputsAreEarlier DEF GraphOK
    <3>2. DOMAIN InputsOf(u) = 1..Len(InputsOf(u)) /\ Len(InputsOf(u)) \in Nat
      BY <3>1
    <3>3. IsFiniteSet(1..Len(InputsOf(u)))
      BY <3>2, FS_Interval
    <3>4. QED
      BY <3>2, <3>3 DEF InputsOf
  <2>2. QED
    BY <2>1, FS_Singleton, FS_Product
<1>3. IsFiniteSet(All)
  BY <1>1, <1>2, FS_UNION
<1>4. Uses(graph, p) = {e \in All : graph[e[1]].inputs[e[2]] = p}
  BY DEF Uses
<1>5. IsFiniteSet(Uses(graph, p)) /\ Cardinality(Uses(graph, p)) \in Nat
  BY <1>3, <1>4, FS_Subset, FS_CardinalityType
<1>6. QED
  BY <1>4, <1>5 DEF InputsOf

-----------------------------------------------------------------------------
(* Type correctness. *)

\* Every step of the engine keeps every variable in its range.
THEOREM TypeCorrect == Spec => []TypeOK
<1>1. Init => TypeOK
  BY AutogradAssumption
     DEF Init, TypeOK, GraphOK, DfsOK, PassOK, Recorded, Ids, NoNode, Running
<1>2. TypeOK /\ [Next]_vars => TypeOK'
  <2> SUFFICES ASSUME TypeOK, [Next]_vars PROVE TypeOK'
    OBVIOUS
  <2> USE DEF TypeOK, NoNode
  <2>1. ASSUME NEW node, AddNode(node),
               \/ node = ParamNode
               \/ \E op \in Ops :
                     \E ins \in [1..Arity(op) -> NoNode..Len(graph)] :
                        node = OpNode(op, ins)
        PROVE  TypeOK'
    <3>1. node \in [op : Ops \cup {"param"}, inputs : Seq(Nat)]
      <4>1. ASSUME NEW op \in Ops,
                   NEW ins \in [1..Arity(op) -> NoNode..Len(graph)]
            PROVE  ins \in Seq(Nat)
        BY SMTT(30), OpsAssumption DEF Arity, GraphOK
      <4>2. ParamNode \in [op : Ops \cup {"param"}, inputs : Seq(Nat)]
        BY DEF ParamNode
      <4>3. QED
        BY <2>1, <4>1, <4>2 DEF OpNode
    <3>2. graph' \in Seq([op : Ops \cup {"param"}, inputs : Seq(Nat)])
      BY <2>1, <3>1 DEF AddNode, GraphOK
    <3>3. Recorded(graph')
      <4>1. /\ Len(graph') = Len(graph) + 1
            /\ graph'[Len(graph) + 1] = node
            /\ \A i \in Ids(graph) : graph'[i] = graph[i]
            /\ Ids(graph') = Ids(graph) \cup {Len(graph) + 1}
        BY <2>1, <3>1 DEF AddNode, GraphOK, Ids
      <4>2. ASSUME NEW op \in Ops,
                   NEW ins \in [1..Arity(op) -> NoNode..Len(graph)]
            PROVE  ins \in Seq(NoNode..Len(graph)) /\ Len(ins) = Arity(op)
        BY SMTT(30), OpsAssumption DEF Arity
      <4>3. \/ node = ParamNode
            \/ /\ node.op \in Ops
               /\ node.inputs \in Seq(NoNode..Len(graph))
               /\ Len(node.inputs) = Arity(node.op)
        BY <2>1, <4>2 DEF OpNode
      <4>4. Len(graph) \in Nat
        BY DEF GraphOK
      <4>5. ASSUME NEW i \in Ids(graph'), i = Len(graph) + 1
            PROVE  /\ graph'[i] = node
                   /\ i - 1 = Len(graph)
        BY <4>1, <4>4, <4>5
      <4>6. QED
        BY <4>1, <4>3, <4>5 DEF GraphOK, Recorded
    <3>4. GraphOK'
      <4>1. Len(graph) \in Nat /\ Len(graph') = Len(graph) + 1
        BY <2>1, <3>1 DEF AddNode, GraphOK
      <4>2. leafGrad \in Seq(Int) /\ Len(leafGrad) = Len(graph)
        <5>1. leafGrad \in [1..Len(graph) -> Int]
          BY DEF GraphOK, Ids
        <5>2. QED
          BY <4>1, <5>1
      <4>3. leafGrad' \in [Ids(graph') -> Int]
        <5>1. leafGrad' = Append(leafGrad, 0)
          BY <2>1 DEF AddNode
        <5>2. leafGrad' \in Seq(Int) /\ Len(leafGrad') = Len(graph')
          BY <4>1, <4>2, <5>1
        <5>3. QED
          BY <5>2 DEF Ids
      <4>4. /\ inCached' \subseteq Ids(graph')
            /\ outCached' \subseteq Ids(graph')
            /\ outputId' \in NoNode..Len(graph')
        <5>1. Ids(graph') = Ids(graph) \cup {Len(graph) + 1}
          BY <4>1 DEF Ids
        <5>2. outputId' = outputId /\ outputId \in NoNode..Len(graph)
          BY <2>1 DEF AddNode, GraphOK
        <5>3. outputId' \in NoNode..Len(graph')
          BY <4>1, <5>2
        <5>4. QED
          BY <2>1, <5>1, <5>3 DEF AddNode, GraphOK
      <4>5. QED
        BY <3>2, <3>3, <4>3, <4>4 DEF GraphOK
    <3>5. DfsOK'
      BY <2>1 DEF AddNode, DfsOK, GraphOK, Ids, dfsVars
    <3>6. PassOK'
      BY <2>1 DEF AddNode, PassOK, DfsOK, GraphOK, Ids, Running, passVars
    <3>7. QED
      BY <2>1, <3>2, <3>4, <3>5, <3>6 DEF AddNode, GraphOK
  <2>2. ASSUME NEW l \in NoNode..Len(graph), BackwardReturnsEarly(l)
        PROVE  TypeOK'
    <3>1. GraphOK'
      BY <2>2 DEF BackwardReturnsEarly, recorded, GraphOK, Ids
    <3>2. DfsOK'
      BY <2>2 DEF BackwardReturnsEarly, recorded, dfsVars, DfsOK, Ids
    <3>3. PassOK'
      BY <2>2 DEF BackwardReturnsEarly, recorded, passVars, PassOK, Ids, Running
    <3>4. QED
      BY <2>2, <3>1, <3>2, <3>3, AutogradAssumption
         DEF BackwardReturnsEarly, recorded
  <2>3. ASSUME NEW l \in NoNode..Len(graph), BackwardCall(l) PROVE TypeOK'
    <3>1. GraphOK'
      BY <2>3 DEF BackwardCall, OutputFor, recorded, GraphOK, Ids
    <3>2. DfsOK'
      BY <2>3 DEF BackwardCall, recorded, dfsVars, DfsOK, Ids
    <3>3. PassOK'
      BY <2>3 DEF BackwardCall, recorded, passVars, PassOK, Ids, Running
    <3>4. QED
      BY <2>3, <3>1, <3>2, <3>3, AutogradAssumption DEF BackwardCall, recorded
  <2>4. CASE DfsRoot
    <3>1. GraphOK'
      BY <2>4 DEF DfsRoot, Frame, recorded, GraphOK, Ids
    <3>2. DfsOK'
      <4> DEFINE u == IF root = NoNode THEN outputId ELSE root
      <4>1. u \in Ids(graph) /\ Frame(u) \in [node : Ids(graph), k : Nat \ {0}]
        BY <2>4 DEF DfsRoot, DfsOK, GraphOK, Ids, Frame
      <4>2. <<Frame(u)>> \in Seq([node : Ids(graph), k : Nat \ {0}])
        BY <4>1
      <4>3. /\ stack' \in Seq([node : Ids(graph), k : Nat \ {0}])
            /\ visited' \subseteq Ids(graph)
        BY <2>4, <4>1, <4>2 DEF DfsRoot, DfsOK
      <4>4. root' \in NoNode..(Len(graph) + 1)
        BY <2>4 DEF DfsRoot, DfsOK, GraphOK
      <4>5. QED
        BY <2>4, <4>3, <4>4 DEF DfsRoot, recorded, DfsOK
    <3>3. PassOK'
      BY <2>4 DEF DfsRoot, Frame, recorded, passVars, PassOK, DfsOK, GraphOK,
                   Ids, Running
    <3>4. QED
      BY <2>4, <3>1, <3>2, <3>3 DEF DfsRoot, Frame, recorded
  <2>5. CASE DfsSkip
    <3>1. GraphOK'
      BY <2>5 DEF DfsSkip, NextInput, Pop, Top, TopInputs, recorded, GraphOK, Ids
    <3>2. DfsOK'
      BY <2>5, TopFrame DEF DfsSkip, Frames, recorded, DfsOK
    <3>3. PassOK'
      BY <2>5 DEF DfsSkip, recorded, passVars, PassOK, DfsOK, GraphOK, Ids, Running
    <3>4. QED
      BY <2>5, <3>1, <3>2, <3>3 DEF DfsSkip, NextInput, Pop, Top, TopInputs, recorded
  <2>6. CASE DfsDescend
    <3>1. GraphOK'
      BY <2>6 DEF DfsDescend, NextInput, Pop, Top, TopInputs, Frame, recorded, GraphOK, Ids
    <3>2. DfsOK'
      <4>1. /\ TopInputs[Top.k] \in Ids(graph)
            /\ Frame(TopInputs[Top.k]) \in Frames
        <5>1. /\ Top.node \in Ids(graph) /\ Top.k \in Nat \ {0}
              /\ TopInputs \in Seq(NoNode..(Top.node - 1))
              /\ \A k \in DOMAIN TopInputs : TopInputs[k] \in NoNode..(Top.node - 1)
          BY <2>6, TopFrame DEF DfsDescend, Frames
        <5>2. TopInputs[Top.k] \in NoNode..(Top.node - 1)
          <6>1. DOMAIN TopInputs = 1..Len(TopInputs)
            BY <5>1
          <6>2. Top.k \in DOMAIN TopInputs
            BY <2>6, <5>1, <6>1 DEF DfsDescend
          <6>3. QED
            BY <5>1, <6>2
        <5>3. TopInputs[Top.k] \in Ids(graph)
          BY SMTT(30), <2>6, <5>1, <5>2 DEF DfsDescend, Ids
        <5>4. QED
          BY <5>3 DEF Frame, Frames
      <4>2. stack' \in Seq(Frames)
        BY <2>6, <4>1, TopFrame DEF DfsDescend
      <4>3. visited' \subseteq Ids(graph)
        BY <2>6, <4>1 DEF DfsDescend, DfsOK
      <4>4. QED
        BY <2>6, <4>2, <4>3 DEF DfsDescend, Frames, recorded, DfsOK
    <3>3. PassOK'
      BY <2>6 DEF DfsDescend, recorded, passVars, PassOK, DfsOK, GraphOK, Ids, Running
    <3>4. QED
      BY <2>6, <3>1, <3>2, <3>3 DEF DfsDescend, NextInput, Pop, Top, TopInputs, Frame, recorded
  <2>7. CASE DfsFinish
    <3>1. GraphOK'
      BY <2>7 DEF DfsFinish, Pop, Top, TopInputs, recorded, GraphOK, Ids
    <3>2. DfsOK'
      <4>1. stack' \in Seq(Frames) /\ Top.node \in Ids(graph)
        BY <2>7, TopFrame DEF DfsFinish, Frames
      <4>2. order' \in Seq(Ids(graph))
        BY <2>7, <4>1 DEF DfsFinish, DfsOK
      <4>3. QED
        BY <2>7, <4>1, <4>2 DEF DfsFinish, Frames, recorded, DfsOK
    <3>3. PassOK'
      <4>1. Len(order') = Len(order) + 1 /\ Len(order) \in Nat
        BY <2>7 DEF DfsFinish, DfsOK
      <4>2. QED
        BY <2>7, <4>1 DEF DfsFinish, recorded, passVars, PassOK, Running, Ids
    <3>4. QED
      BY <2>7, <3>1, <3>2, <3>3 DEF DfsFinish, Pop, Top, TopInputs, recorded
  <2>8. CASE StartSweep
    <3>1. GraphOK'
      BY <2>8 DEF StartSweep, ReverseOrder, Reverse, RefcountOf, recorded, GraphOK,
                  Ids
    <3>2. DfsOK'
      BY SMTT(30), <2>8 DEF StartSweep, ReverseOrder, Reverse, RefcountOf, recorded,
                  dfsVars, DfsOK, GraphOK, Ids
    <3>3. PassOK'
      <4>1. \A i \in Ids(graph) : RefcountOf(i) \in Int
        BY UsesFinite DEF RefcountOf
      <4>2. Len(order') = Len(order)
        BY <2>8 DEF StartSweep, ReverseOrder, Reverse, DfsOK
      <4>3. QED
        BY <2>8, <4>1, <4>2 DEF StartSweep, recorded, PassOK, DfsOK, GraphOK,
                   Ids, Running
    <3>4. QED
      BY <2>8, <3>1, <3>2, <3>3 DEF StartSweep, ReverseOrder, Reverse, RefcountOf,
                  recorded
  <2>9. CASE SweepSkip
    <3>1. GraphOK'
      BY <2>9 DEF SweepSkip, recorded, GraphOK, Ids
    <3>2. DfsOK'
      BY <2>9 DEF SweepSkip, recorded, dfsVars, DfsOK, GraphOK, Ids
    <3>3. PassOK'
      BY <2>9 DEF SweepSkip, recorded, passVars, PassOK, DfsOK, GraphOK,
                   Ids, Running
    <3>4. QED
      BY <2>9, <3>1, <3>2, <3>3 DEF SweepSkip, recorded
  <2>10. CASE RunKernel
    <3>1. GraphOK'
      BY <2>10 DEF RunKernel, AtKernel, KernelGrads, recorded, GraphOK, Ids
    <3>2. DfsOK'
      BY <2>10 DEF RunKernel, AtKernel, KernelGrads, recorded, dfsVars, DfsOK, GraphOK, Ids
    <3>3. PassOK'
      <4>1. inGrads' \in Seq(Int) /\ Len(inGrads') = Len(InputsOf(Current))
        <5> DEFINE ds == Partial[graph[Current].op]
        <5>1. /\ ds \in Seq(Int) /\ Len(InputsOf(Current)) = Len(ds)
              /\ grads[Current] \in Int
          BY <2>10, CurrentNode DEF RunKernel, AtKernel, PassOK, Running, Arity
        <5>2. inGrads' = [k \in 1..Len(ds) |-> ds[k] * grads[Current]]
          BY <2>10 DEF RunKernel, KernelGrads, Arity
        <5>3. \A k \in 1..Len(ds) : ds[k] * grads[Current] \in Int
          BY <5>1
        <5>4. Len(ds) \in Nat
          BY <5>1
        <5>5. inGrads' \in [1..Len(ds) -> Int]
          BY <5>2, <5>3
        <5>6. QED
          BY <5>1, <5>4, <5>5
      <4>2. QED
        BY SMTT(30), <2>10, <4>1 DEF RunKernel, AtKernel, recorded, PassOK, Running,
                   Current, HasKernel, IsParam, InputsOf, Ids
    <3>4. QED
      BY <2>10, <3>1, <3>2, <3>3 DEF RunKernel, AtKernel, KernelGrads, recorded
  <2>11. CASE RunKernelOnReleased
    <3>1. GraphOK'
      BY <2>11 DEF RunKernelOnReleased, AtKernel, recorded, GraphOK, Ids
    <3>2. DfsOK'
      BY <2>11 DEF RunKernelOnReleased, AtKernel, recorded, dfsVars, DfsOK, GraphOK, Ids
    <3>3. PassOK'
      <4>1. CASE pc' = "inputs"
        <5>1. inGrads' \in Seq(Int) /\ Len(inGrads') = Len(InputsOf(Current))
          <6> DEFINE n == Len(Partial[graph[Current].op])
          <6>1. n \in Nat /\ Len(InputsOf(Current)) = n
            BY <2>11, CurrentNode DEF RunKernelOnReleased, AtKernel, Arity
          <6>2. inGrads' \in [1..n -> Garbage]
            BY <2>11, <4>1 DEF RunKernelOnReleased, AtKernel, Arity
          <6>3. inGrads' \in [1..n -> Int]
            BY <6>2, AutogradAssumption
          <6>4. QED
            BY <6>1, <6>3
        <5>2. QED
          BY SMTT(30), <2>11, <4>1, <5>1 DEF RunKernelOnReleased, AtKernel, recorded,
                   PassOK, Running, Current, HasKernel, IsParam, InputsOf, Ids
      <4>2. CASE pc' # "inputs"
        BY <2>11, <4>2 DEF RunKernelOnReleased, AtKernel, recorded, PassOK,
                   Running, Ids
      <4>3. QED
        BY <4>1, <4>2
    <3>4. QED
      BY <2>11, <3>1, <3>2, <3>3 DEF RunKernelOnReleased, AtKernel, recorded
  <2>12. CASE SkipInput
    <3>1. GraphOK'
      BY <2>12 DEF SkipInput, recorded, GraphOK, Ids
    <3>2. DfsOK'
      BY <2>12 DEF SkipInput, recorded, dfsVars, DfsOK, GraphOK, Ids
    <3>3. PassOK'
      <4>1. input' <= Len(InputsOf(Current)) + 1
        BY <2>12, CurrentNode DEF SkipInput, PassOK
      <4>2. QED
        BY <2>12, <4>1 DEF SkipInput, recorded, PassOK, Running,
                   Current, HasKernel, IsParam, InputsOf, Ids
    <3>4. QED
      BY <2>12, <3>1, <3>2, <3>3 DEF SkipInput, recorded
  <2>13. CASE AccumulateInput
    <3>1. GraphOK'
      BY <2>13 DEF AccumulateInput, InputsOf, recorded, GraphOK, Ids
    <3>2. DfsOK'
      BY <2>13 DEF AccumulateInput, InputsOf, recorded, dfsVars, DfsOK, GraphOK, Ids
    <3>3. PassOK'
      <4>1. InputsOf(Current)[input] \in Ids(graph)
        <5>1. /\ Current \in Ids(graph)
              /\ InputsOf(Current) \in Seq(NoNode..(Current - 1))
              /\ \A k \in DOMAIN InputsOf(Current) :
                    InputsOf(Current)[k] \in NoNode..(Current - 1)
          BY <2>13, CurrentNode DEF AccumulateInput, PassOK
        <5>2. InputsOf(Current)[input] \in NoNode..(Current - 1)
          <6>1. DOMAIN InputsOf(Current) = 1..Len(InputsOf(Current))
            BY <5>1
          <6>2. input \in DOMAIN InputsOf(Current)
            BY <2>13, <6>1 DEF AccumulateInput, PassOK
          <6>3. QED
            BY <5>1, <6>2
        <5>3. QED
          BY <2>13, <5>1, <5>2 DEF AccumulateInput, Ids
      <4>2. inGrads[input] \in Int
        BY <2>13 DEF AccumulateInput, PassOK
      <4>3. Len(InputsOf(Current)) \in Nat
        BY <2>13, CurrentNode DEF PassOK
      <4>4. /\ grads' \in [Ids(graph) -> Int]
            /\ refcounts' \in [Ids(graph) -> Int]
        <5> DEFINE p == InputsOf(Current)[input]
        <5>1. /\ grads \in [Ids(graph) -> Int]
              /\ refcounts \in [Ids(graph) -> Int]
              /\ grads' = [grads EXCEPT ![p] = @ + inGrads[input]]
              /\ refcounts' \in
                    {refcounts, [refcounts EXCEPT ![p] = refcounts[p] - 1]}
          BY <2>13 DEF AccumulateInput, AddTo, PassOK, Running
        <5>2. QED
          BY <4>1, <4>2, <5>1
      <4>5. /\ input' = input + 1 /\ input' <= Len(InputsOf(Current)) + 1
            /\ hasGrad' \subseteq Ids(graph) /\ Current \in hasGrad'
        BY <2>13, <4>1, <4>3 DEF AccumulateInput, PassOK
      <4>6. QED
        <5>1. /\ graph' = graph /\ pos' = pos /\ order' = order
              /\ pc' = pc /\ pc = "inputs" /\ inGrads' = inGrads
          BY <2>13 DEF AccumulateInput
        <5>2. QED
          BY <4>4, <4>5, <5>1 DEF PassOK, Running, Current, HasKernel, IsParam,
               InputsOf, Ids
    <3>4. QED
      BY <2>13, <3>1, <3>2, <3>3 DEF AccumulateInput, InputsOf, recorded
  <2>14. CASE NodeDone
    <3>1. GraphOK'
      BY <2>14 DEF NodeDone, recorded, GraphOK, Ids
    <3>2. DfsOK'
      BY <2>14 DEF NodeDone, recorded, dfsVars, DfsOK, GraphOK, Ids
    <3>3. PassOK'
      BY SMTT(30), <2>14 DEF NodeDone, recorded, passVars, PassOK, DfsOK, GraphOK,
                   Ids, Running
    <3>4. QED
      BY <2>14, <3>1, <3>2, <3>3 DEF NodeDone, recorded
  <2>15. CASE CopyToLeaves
    <3>1. GraphOK'
      BY <2>15 DEF CopyToLeaves, LeafGradAfter, LocalsGone, GraphOK, Ids, PassOK,
                    Running
    <3>2. DfsOK'
      BY <2>15 DEF CopyToLeaves, LocalsGone, recorded, dfsVars, DfsOK, GraphOK, Ids
    <3>3. PassOK'
      BY <2>15 DEF CopyToLeaves, LocalsGone, recorded, passVars, PassOK, DfsOK, GraphOK,
                   Ids, Running
    <3>4. QED
      BY <2>15, <3>1, <3>2, <3>3 DEF CopyToLeaves, LocalsGone, recorded
  <2>16. CASE BackwardThrows
    <3>1. GraphOK'
      BY <2>16 DEF BackwardThrows, LocalsGone, recorded, GraphOK, Ids
    <3>2. DfsOK'
      BY <2>16 DEF BackwardThrows, LocalsGone, recorded, dfsVars, DfsOK, GraphOK, Ids
    <3>3. PassOK'
      BY <2>16 DEF BackwardThrows, LocalsGone, recorded, passVars, PassOK, DfsOK, GraphOK,
                   Ids, Running
    <3>4. QED
      BY <2>16, <3>1, <3>2, <3>3 DEF BackwardThrows, LocalsGone, recorded
  <2>17. CASE UNCHANGED vars
    <3>1. GraphOK'
      BY <2>17 DEF vars, recorded, GraphOK, Ids
    <3>2. DfsOK'
      BY <2>17 DEF vars, recorded, dfsVars, DfsOK, Ids
    <3>3. PassOK'
      BY <2>17 DEF vars, recorded, passVars, PassOK, Ids, Running, Current,
                   HasKernel, IsParam, InputsOf
    <3>4. QED
      BY <2>17, <3>1, <3>2, <3>3 DEF vars, recorded
  <2>18. QED
    BY <2>1, <2>2, <2>3, <2>4, <2>5, <2>6, <2>7, <2>8, <2>9, <2>10, <2>11,
       <2>12, <2>13, <2>14, <2>15, <2>16, <2>17
       DEF Next, Record, RecordParam, RecordOp, Dfs, Sweep
<1>3. QED
  BY <1>1, <1>2, PTL DEF Spec

-----------------------------------------------------------------------------
(***************************************************************************)
(* The order of the sweep.  OrderIsTopological speaks of the finished      *)
(* list, so the invariant describes the search while it runs: the nodes    *)
(* visited are on the stack or in the list; the stack descends from users  *)
(* to inputs, so an input of the top that was visited cannot be below it   *)
(* on the stack and is in the list already; the list has the inputs of     *)
(* each of its nodes before the node.                                      *)
(***************************************************************************)

VisitedIsStackOrOrder ==
    \A u \in Ids(graph) :
       u \in visited <=> \/ \E i \in DOMAIN stack : stack[i].node = u
                        \/ \E a \in DOMAIN order : order[a] = u

StackDescends ==
    \A i, j \in DOMAIN stack : i < j => stack[j].node < stack[i].node

InputsBeforeKVisited ==
    \A i \in DOMAIN stack :
       \A k \in DOMAIN InputsOf(stack[i].node) :
          k < stack[i].k => InputsOf(stack[i].node)[k] \in visited \cup {NoNode}

OrderDistinct ==
    /\ \A a, b \in DOMAIN order : a # b => order[a] # order[b]
    /\ \A i \in DOMAIN stack : \A a \in DOMAIN order : stack[i].node # order[a]

InputsListedBefore ==
    \A a \in DOMAIN order : \A k \in DOMAIN InputsOf(order[a]) :
       InputsOf(order[a])[k] # NoNode =>
          \E b \in DOMAIN order : b < a /\ order[b] = InputsOf(order[a])[k]

RootsVisited == \A u \in Ids(graph) : u < root => u \in visited

DfsInv ==
    pc = "dfs" => /\ VisitedIsStackOrOrder
                  /\ StackDescends
                  /\ InputsBeforeKVisited
                  /\ OrderDistinct
                  /\ InputsListedBefore
                  /\ RootsVisited

OrderInv == DfsInv /\ OrderIsTopological

\* A step of the search that changes neither the graph nor the stage.
LEMMA DfsRootKeepsOrder ==
    ASSUME TypeOK, OrderInv, DfsRoot
    PROVE  OrderInv'
<1> DEFINE u == IF root = NoNode THEN outputId ELSE root
<1>1. /\ pc = "dfs" /\ pc' = "dfs" /\ stack = <<>> /\ root \in Nat
      /\ root' = root + 1 /\ graph' = graph /\ order' = order
      /\ u \in Ids(graph) /\ Ids(graph) \subseteq Nat \ {0}
  BY DEF DfsRoot, recorded, TypeOK, DfsOK, GraphOK, Ids, NoNode
<1>2. CASE u \in visited
  <2>1. stack' = stack /\ visited' = visited
    BY <1>2 DEF DfsRoot
  <2>2. RootsVisited'
    BY <1>1, <1>2, <2>1 DEF OrderInv, DfsInv, RootsVisited, NoNode
  <2>3. QED
    BY <1>1, <2>1, <2>2
       DEF OrderInv, DfsInv, OrderIsTopological, Running,
           VisitedIsStackOrOrder, StackDescends, InputsBeforeKVisited,
           OrderDistinct, InputsListedBefore, InputsOf
<1>3. CASE u \notin visited
  <2>1. /\ visited' = visited \cup {u}
        /\ DOMAIN stack' = {1} /\ stack'[1].node = u /\ stack'[1].k = 1
        /\ DOMAIN stack = {}
    BY <1>1, <1>3 DEF DfsRoot, Frame
  <2>2. VisitedIsStackOrOrder'
    BY <1>1, <2>1 DEF OrderInv, DfsInv, VisitedIsStackOrOrder
  <2>3. StackDescends' /\ RootsVisited'
    BY <1>1, <2>1 DEF OrderInv, DfsInv, StackDescends, RootsVisited, NoNode
  <2>4. InputsBeforeKVisited'
    <3>1. InputsOf(u) \in Seq(NoNode..(u - 1))
      BY <1>1, InputsAreEarlier DEF TypeOK, GraphOK
    <3>2. \A k \in DOMAIN InputsOf(u) : ~(k < 1)
      BY <3>1
    <3>3. QED
      BY <1>1, <2>1, <3>2 DEF InputsBeforeKVisited, InputsOf
  <2>5. OrderDistinct' /\ InputsListedBefore'
    <3>1. \A a \in DOMAIN order : order[a] \in visited
      BY <1>1 DEF OrderInv, DfsInv, VisitedIsStackOrOrder, TypeOK, DfsOK
    <3>2. QED
      BY <1>1, <1>3, <2>1, <3>1
         DEF OrderInv, DfsInv, OrderDistinct, InputsListedBefore, InputsOf
  <2>6. QED
    BY <1>1, <2>2, <2>3, <2>4, <2>5
       DEF OrderInv, DfsInv, OrderIsTopological, Running
<1>4. QED
  BY <1>2, <1>3

LEMMA DfsSkipKeepsOrder ==
    ASSUME TypeOK, OrderInv, DfsSkip
    PROVE  OrderInv'
<1> DEFINE n == Len(stack)
<1>1. /\ pc = "dfs" /\ pc' = "dfs" /\ root' = root
      /\ graph' = graph /\ order' = order /\ visited' = visited
      /\ TopInputs[Top.k] \in visited \cup {NoNode}
  BY DEF DfsSkip, recorded
<1>2. /\ n \in Nat \ {0} /\ DOMAIN stack = 1..n /\ DOMAIN stack' = 1..n
      /\ \A i \in 1..n : stack'[i].node = stack[i].node
      /\ \A i \in 1..(n - 1) : stack'[i].k = stack[i].k
      /\ stack'[n].k = stack[n].k + 1 /\ stack[n] = Top
      /\ \A i \in 1..n : stack[i].node \in Ids(graph) /\ stack[i].k \in Nat
  <2>1. stack # <<>> /\ stack' = NextInput
    BY DEF DfsSkip
  <2>2. /\ n \in Nat \ {0} /\ DOMAIN stack = 1..n /\ stack[n] = Top
        /\ \A i \in 1..n : stack[i].node \in Ids(graph) /\ stack[i].k \in Nat
    BY <2>1, StackFrames, TopFrame DEF TypeOK, Top
  <2>3. /\ DOMAIN NextInput = 1..n
        /\ \A i \in 1..(n - 1) : NextInput[i] = stack[i]
        /\ NextInput[n] = [node |-> Top.node, k |-> Top.k + 1]
    BY SMTT(30), <2>1, TopFrame DEF TypeOK
  <2>4. /\ NextInput[n].node = stack[n].node
        /\ NextInput[n].k = stack[n].k + 1
    BY <2>2, <2>3
  <2>5. QED
    BY <2>1, <2>2, <2>3, <2>4
<1>3. VisitedIsStackOrOrder'
  BY <1>1, <1>2 DEF OrderInv, DfsInv, VisitedIsStackOrOrder
<1>4. StackDescends'
  BY <1>1, <1>2 DEF OrderInv, DfsInv, StackDescends
<1>5. InputsBeforeKVisited'
  <2>1. InputsOf(stack[n].node) = TopInputs
    BY <1>2 DEF TopInputs, InputsOf
  <2>2. DOMAIN TopInputs \subseteq Nat
    BY TopFrame DEF TypeOK, DfsSkip
  <2>3. ASSUME NEW i \in 1..n, NEW k \in DOMAIN InputsOf(stack[i].node),
               k < stack'[i].k
        PROVE  InputsOf(stack[i].node)[k] \in visited \cup {NoNode}
    <3>1. CASE k < stack[i].k
      BY <1>1, <1>2, <3>1 DEF OrderInv, DfsInv, InputsBeforeKVisited
    <3>2. CASE i = n /\ k = Top.k
      BY <1>1, <1>2, <2>1, <3>2
    <3>3. k < stack[i].k \/ (i = n /\ k = Top.k)
      <4>1. CASE i = n
        BY <4>1, <1>2, <2>1, <2>2, <2>3
      <4>2. CASE i # n
        BY <4>2, <1>2, <2>3
      <4>3. QED
        BY <4>1, <4>2
    <3>4. QED
      BY <3>1, <3>2, <3>3
  <2>4. QED
    BY <1>1, <1>2, <2>3 DEF InputsBeforeKVisited, InputsOf
<1>6. OrderDistinct' /\ InputsListedBefore' /\ RootsVisited'
  BY <1>1, <1>2 DEF OrderInv, DfsInv, OrderDistinct, InputsListedBefore,
                    RootsVisited, InputsOf
<1>7. QED
  BY <1>1, <1>3, <1>4, <1>5, <1>6 DEF OrderInv, DfsInv, OrderIsTopological, Running

LEMMA DfsDescendKeepsOrder ==
    ASSUME TypeOK, OrderInv, DfsDescend
    PROVE  OrderInv'
<1> DEFINE n == Len(stack)
           p == TopInputs[Top.k]
<1>1. /\ pc = "dfs" /\ pc' = "dfs" /\ root' = root
      /\ graph' = graph /\ order' = order /\ visited' = visited \cup {p}
      /\ p \notin visited \cup {NoNode}
  BY DEF DfsDescend, recorded
<1>2. /\ n \in Nat \ {0} /\ DOMAIN stack = 1..n /\ stack[n] = Top
      /\ \A i \in 1..n : stack[i].node \in Ids(graph) /\ stack[i].k \in Nat
  BY StackFrames, TopFrame DEF TypeOK, Top, DfsDescend
<1>3. p \in NoNode..(Top.node - 1) /\ p \in Ids(graph) /\ p < Top.node
  <2>1. Top.k \in DOMAIN TopInputs
    BY <1>2, TopFrame DEF TypeOK, DfsDescend, Frames
  <2>2. p \in NoNode..(Top.node - 1) /\ Top.node \in Ids(graph)
    BY <1>2, <2>1, TopFrame DEF TypeOK, DfsDescend
  <2>3. QED
    BY <1>1, <2>2 DEF Ids, NoNode
<1>4. /\ DOMAIN stack' = 1..(n + 1)
      /\ \A i \in 1..n : stack'[i].node = stack[i].node
      /\ \A i \in 1..(n - 1) : stack'[i].k = stack[i].k
      /\ stack'[n].k = stack[n].k + 1
      /\ stack'[n + 1].node = p /\ stack'[n + 1].k = 1
  <2>1. /\ NextInput \in Seq(Frames) /\ Len(NextInput) = n
        /\ \A i \in 1..(n - 1) : NextInput[i] = stack[i]
        /\ NextInput[n] = [node |-> Top.node, k |-> Top.k + 1]
    BY TopFrame DEF TypeOK, DfsDescend
  <2>2. stack' = Append(NextInput, Frame(p))
    BY DEF DfsDescend
  <2>3. /\ DOMAIN stack' = 1..(n + 1)
        /\ \A i \in 1..n : stack'[i] = NextInput[i]
        /\ stack'[n + 1] = Frame(p)
    BY <1>2, <2>1, <2>2
  <2>4. /\ NextInput[n].node = stack[n].node
        /\ NextInput[n].k = stack[n].k + 1
    BY <1>2, <2>1
  <2>5. QED
    BY SMTT(30), <1>2, <2>1, <2>3, <2>4 DEF Frame
<1> HIDE DEF n, p
<1>5. VisitedIsStackOrOrder'
  <2>1. ASSUME NEW u \in Ids(graph)
        PROVE  (\E i \in DOMAIN stack' : stack'[i].node = u)
                  <=> (u = p \/ \E i \in DOMAIN stack : stack[i].node = u)
    <3>1. \A i \in 1..(n + 1) : i \in 1..n \/ i = n + 1
      BY <1>2
    <3>2. 1..n \subseteq 1..(n + 1) /\ n + 1 \in 1..(n + 1)
      BY <1>2
    <3>3. QED
      BY <1>2, <1>4, <3>1, <3>2
  <2>2. QED
    BY <1>1, <2>1 DEF OrderInv, DfsInv, VisitedIsStackOrOrder
<1>6. StackDescends'
  <2>1. \A i \in 1..n : stack[i].node >= Top.node
    BY <1>1, <1>2 DEF OrderInv, DfsInv, StackDescends, Ids
  <2>2. ASSUME NEW i \in 1..(n + 1), NEW j \in 1..(n + 1), i < j
        PROVE  stack'[j].node < stack'[i].node
    <3>1. CASE j \in 1..n
      <4>1. i \in 1..n
        BY <1>2, <2>2, <3>1
      <4>2. stack[j].node < stack[i].node
        BY <1>1, <1>2, <2>2, <3>1, <4>1 DEF OrderInv, DfsInv, StackDescends
      <4>3. QED
        BY <1>4, <3>1, <4>1, <4>2
    <3>2. CASE j = n + 1
      BY <1>2, <1>3, <1>4, <2>1, <2>2, <3>2 DEF Ids
    <3>3. QED
      BY <1>2, <3>1, <3>2
  <2>3. QED
    BY <1>4, <2>2 DEF StackDescends
<1>7. InputsBeforeKVisited'
  <2>1. InputsOf(stack[n].node) = TopInputs
    BY <1>2 DEF TopInputs, InputsOf
  <2>2. /\ DOMAIN TopInputs \subseteq Nat
        /\ DOMAIN InputsOf(p) \subseteq Nat \ {0}
    <3>1. TopInputs \in Seq(NoNode..(Top.node - 1))
      BY TopFrame DEF TypeOK, DfsDescend
    <3>2. InputsOf(p) \in Seq(NoNode..(p - 1))
      BY <1>3, InputsAreEarlier DEF TypeOK, GraphOK
    <3>3. QED
      BY <3>1, <3>2
  <2>3. ASSUME NEW i \in 1..n, NEW k \in DOMAIN InputsOf(stack[i].node),
               k < stack'[i].k
        PROVE  InputsOf(stack[i].node)[k] \in visited' \cup {NoNode}
    <3>1. CASE k < stack[i].k
      BY <1>1, <1>2, <3>1 DEF OrderInv, DfsInv, InputsBeforeKVisited
    <3>2. CASE i = n /\ k = Top.k
      BY <1>1, <1>2, <2>1, <3>2 DEF p
    <3>3. k < stack[i].k \/ (i = n /\ k = Top.k)
      <4>1. CASE i = n
        <5>1. k \in Nat
          BY <4>1, <2>1, <2>2
        <5>2. stack'[i].k = Top.k + 1 /\ stack[i].k = Top.k /\ Top.k \in Nat
          BY <4>1, <1>2, <1>4
        <5>3. k < Top.k + 1
          BY <2>3, <5>2
        <5>4. QED
          BY <4>1, <5>1, <5>2, <5>3
      <4>2. CASE i # n
        <5>1. i \in 1..(n - 1)
          BY <1>2, <4>2
        <5>2. stack'[i].k = stack[i].k
          BY <1>4, <5>1
        <5>3. QED
          BY <2>3, <5>2
      <4>3. QED
        BY <4>1, <4>2
    <3>4. QED
      BY <3>1, <3>2, <3>3
  <2>4. \A k \in DOMAIN InputsOf(p) : ~(k < stack'[n + 1].k)
    BY <1>4, <2>2
  <2>5. QED
    BY <1>1, <1>2, <1>4, <2>3, <2>4 DEF InputsBeforeKVisited, InputsOf
<1>8. OrderDistinct'
  <2>1. \A a \in DOMAIN order : order[a] \in visited
    BY <1>1 DEF OrderInv, DfsInv, VisitedIsStackOrOrder, TypeOK, DfsOK
  <2>2. QED
    BY <1>1, <1>2, <1>4, <2>1 DEF OrderInv, DfsInv, OrderDistinct
<1>9. InputsListedBefore' /\ RootsVisited'
  BY <1>1 DEF OrderInv, DfsInv, InputsListedBefore, RootsVisited, InputsOf
<1>10. QED
  BY <1>1, <1>5, <1>6, <1>7, <1>8, <1>9
     DEF OrderInv, DfsInv, OrderIsTopological, Running

LEMMA DfsFinishKeepsOrder ==
    ASSUME TypeOK, OrderInv, DfsFinish
    PROVE  OrderInv'
<1> DEFINE n == Len(stack)
           m == Len(order)
           t == Top.node
<1>1. /\ pc = "dfs" /\ pc' = "dfs" /\ root' = root
      /\ graph' = graph /\ visited' = visited
  BY DEF DfsFinish, recorded
<1>2. /\ n \in Nat \ {0} /\ DOMAIN stack = 1..n /\ stack[n] = Top
      /\ \A i \in 1..n : stack[i].node \in Ids(graph) /\ stack[i].k \in Nat
  BY StackFrames, TopFrame DEF TypeOK, Top, DfsFinish
<1>3. /\ DOMAIN stack' = 1..(n - 1)
      /\ \A i \in 1..(n - 1) : stack'[i] = stack[i]
  BY <1>2, TopFrame DEF TypeOK, DfsFinish
<1>4. /\ m \in Nat /\ DOMAIN order = 1..m /\ DOMAIN order' = 1..(m + 1)
      /\ \A a \in 1..m : order'[a] = order[a]
      /\ order'[m + 1] = t
  BY DEF DfsFinish, TypeOK, DfsOK
<1> HIDE DEF n, m, t
<1>5. VisitedIsStackOrOrder'
  <2>1. ASSUME NEW u \in Ids(graph)
        PROVE  /\ (\E i \in DOMAIN stack : stack[i].node = u)
                     <=> (u = t \/ \E i \in DOMAIN stack' : stack'[i].node = u)
               /\ (\E a \in DOMAIN order' : order'[a] = u)
                     <=> (u = t \/ \E a \in DOMAIN order : order[a] = u)
    <3>1. /\ \A i \in 1..n : i \in 1..(n - 1) \/ i = n
          /\ 1..(n - 1) \subseteq 1..n /\ n \in 1..n
          /\ \A a \in 1..(m + 1) : a \in 1..m \/ a = m + 1
          /\ 1..m \subseteq 1..(m + 1) /\ m + 1 \in 1..(m + 1)
      BY <1>2, <1>4
    <3>2. stack[n].node = t
      BY <1>2 DEF t
    <3>3. (\E i \in DOMAIN stack : stack[i].node = u)
             <=> (u = t \/ \E i \in DOMAIN stack' : stack'[i].node = u)
      BY <1>2, <1>3, <3>1, <3>2
    <3>4. (\E a \in DOMAIN order' : order'[a] = u)
             <=> (u = t \/ \E a \in DOMAIN order : order[a] = u)
      BY <1>4, <3>1
    <3>5. QED
      BY <3>3, <3>4
  <2>2. QED
    BY <1>1, <2>1 DEF OrderInv, DfsInv, VisitedIsStackOrOrder
<1>6. StackDescends' /\ InputsBeforeKVisited' /\ RootsVisited'
  BY <1>1, <1>2, <1>3 DEF OrderInv, DfsInv, StackDescends,
     InputsBeforeKVisited, RootsVisited, InputsOf
<1>7. OrderDistinct'
  <2>1. \A a \in 1..m : order[a] # t
    BY <1>1, <1>2, <1>4 DEF OrderInv, DfsInv, OrderDistinct, t
  <2>2. ASSUME NEW i \in 1..(n - 1) PROVE stack[i].node # t
    <3>1. i \in 1..n /\ n \in 1..n /\ i < n
      BY <1>2
    <3>2. stack[n].node < stack[i].node
      BY <1>1, <1>2, <3>1 DEF OrderInv, DfsInv, StackDescends
    <3>3. QED
      BY <1>2, <3>1, <3>2 DEF t, Ids
  <2>3. ASSUME NEW a \in 1..(m + 1), NEW b \in 1..(m + 1), a # b
        PROVE  order'[a] # order'[b]
    <3>1. CASE a \in 1..m /\ b \in 1..m
      BY <1>1, <1>4, <2>3, <3>1 DEF OrderInv, DfsInv, OrderDistinct
    <3>2. CASE a = m + 1 /\ b \in 1..m
      BY <1>4, <2>1, <3>2
    <3>3. CASE b = m + 1 /\ a \in 1..m
      BY <1>4, <2>1, <3>3
    <3>4. QED
      BY <1>4, <2>3, <3>1, <3>2, <3>3
  <2>4. ASSUME NEW i \in 1..(n - 1), NEW a \in 1..(m + 1)
        PROVE  stack[i].node # order'[a]
    <3>1. CASE a \in 1..m
      BY SMTT(30), <1>1, <1>2, <1>4, <3>1 DEF OrderInv, DfsInv, OrderDistinct
    <3>2. CASE a = m + 1
      BY <1>4, <2>2, <3>2
    <3>3. QED
      BY <1>4, <3>1, <3>2
  <2>5. QED
    BY <1>3, <1>4, <2>3, <2>4 DEF OrderDistinct
<1>8. InputsListedBefore'
  <2>1. ASSUME NEW k \in DOMAIN TopInputs, TopInputs[k] # NoNode
        PROVE  \E b \in 1..m : order[b] = TopInputs[k]
    <3>1. /\ TopInputs[k] \in NoNode..(t - 1) /\ t \in Ids(graph)
          /\ k \in Nat /\ k < Top.k /\ InputsOf(t) = TopInputs
      <4>1. /\ TopInputs \in Seq(NoNode..(t - 1))
            /\ TopInputs[k] \in NoNode..(t - 1)
        BY TopFrame DEF TypeOK, DfsFinish, t
      <4>2. /\ k \in 1..Len(TopInputs) /\ Len(TopInputs) \in Nat
            /\ Top.k > Len(TopInputs) /\ Top.k \in Nat
        BY <1>2, <4>1 DEF DfsFinish
      <4>3. t \in Ids(graph) /\ InputsOf(t) = TopInputs
        BY <1>2 DEF t, TopInputs, InputsOf
      <4>4. QED
        BY <4>1, <4>2, <4>3
    <3>2. TopInputs[k] \in visited /\ TopInputs[k] \in Ids(graph)
      <4>1. /\ n \in DOMAIN stack /\ stack[n].node = t /\ k < stack[n].k
            /\ k \in DOMAIN InputsOf(stack[n].node)
        BY <1>2, <3>1 DEF t
      <4>2. InputsOf(stack[n].node)[k] \in visited \cup {NoNode}
        BY <1>1, <4>1 DEF OrderInv, DfsInv, InputsBeforeKVisited
      <4>3. TopInputs[k] \in visited
        BY <2>1, <3>1, <4>1, <4>2
      <4>4. QED
        BY <4>3 DEF TypeOK, DfsOK
    <3>3. \A i \in 1..n : stack[i].node >= t
      BY <1>1, <1>2 DEF OrderInv, DfsInv, StackDescends, Ids, t
    <3>4. \A i \in 1..n : stack[i].node # TopInputs[k]
      BY <1>2, <3>1, <3>3 DEF Ids, NoNode
    <3>5. QED
      BY <1>1, <1>2, <1>4, <3>2, <3>4
         DEF OrderInv, DfsInv, VisitedIsStackOrOrder
  <2>2. InputsOf(t) = TopInputs
    BY DEF TopInputs, InputsOf, t
  <2>3. ASSUME NEW a \in 1..(m + 1), NEW k \in DOMAIN InputsOf(order'[a]),
               InputsOf(order'[a])[k] # NoNode
        PROVE  \E b \in 1..(m + 1) :
                  b < a /\ order'[b] = InputsOf(order'[a])[k]
    <3>1. CASE a = m + 1
      <4>1. PICK b \in 1..m : order[b] = TopInputs[k]
        BY <1>4, <2>1, <2>2, <2>3, <3>1
      <4>2. QED
        BY <1>4, <2>2, <3>1, <4>1
    <3>2. CASE a \in 1..m
      <4>1. PICK b \in 1..m : b < a /\ order[b] = InputsOf(order[a])[k]
        BY <1>1, <1>4, <2>3, <3>2 DEF OrderInv, DfsInv, InputsListedBefore
      <4>2. QED
        BY <1>4, <3>2, <4>1
    <3>3. QED
      BY <1>4, <3>1, <3>2
  <2>4. QED
    BY <1>1, <1>4, <2>3 DEF InputsListedBefore, InputsOf
<1>9. QED
  BY <1>1, <1>5, <1>6, <1>7, <1>8
     DEF OrderInv, DfsInv, OrderIsTopological, Running

\* When every root has been tried the stack is empty and the list holds every
\* node; reversed, it has every node before its inputs.
LEMMA StartSweepEstablishesOrder ==
    ASSUME TypeOK, OrderInv, StartSweep
    PROVE  OrderInv'
<1> DEFINE m == Len(order)
<1>1. /\ pc = "dfs" /\ pc' = "sweep" /\ graph' = graph
      /\ stack = <<>> /\ root > Len(graph)
  BY DEF StartSweep, recorded
<1>2. /\ m \in Nat /\ DOMAIN order = 1..m /\ DOMAIN order' = 1..m
      /\ \A a \in 1..m : order'[a] = order[m - a + 1]
      /\ \A a \in 1..m : m - a + 1 \in 1..m
  BY DEF StartSweep, ReverseOrder, Reverse, TypeOK, DfsOK
<1>3. ASSUME NEW i \in Ids(graph)
      PROVE  \E a \in DOMAIN order' : order'[a] = i
  <2>1. i < root
    BY <1>1 DEF Ids, TypeOK, GraphOK, DfsOK
  <2>2. i \in visited
    BY <1>1, <2>1 DEF OrderInv, DfsInv, RootsVisited
  <2>3. PICK b \in 1..m : order[b] = i
    BY <1>1, <1>2, <2>2 DEF OrderInv, DfsInv, VisitedIsStackOrOrder
  <2>4. /\ m - b + 1 \in 1..m /\ m - (m - b + 1) + 1 = b
    BY <1>2
  <2>5. QED
    BY <1>2, <2>3, <2>4
<1>4. ASSUME NEW a \in DOMAIN order', NEW b \in DOMAIN order'
      PROVE  /\ a # b => order'[a] # order'[b]
             /\ (\E k \in DOMAIN InputsOf(order'[a]) :
                    InputsOf(order'[a])[k] = order'[b]) => a < b
  <2> DEFINE c == m - a + 1
             d == m - b + 1
  <2>1. /\ a \in 1..m /\ b \in 1..m /\ c \in 1..m /\ d \in 1..m
        /\ order'[a] = order[c] /\ order'[b] = order[d]
        /\ (c = d <=> a = b) /\ (d < c <=> a < b)
    BY <1>2
  <2>2. \A x, y \in 1..m : x # y => order[x] # order[y]
    BY <1>1, <1>2 DEF OrderInv, DfsInv, OrderDistinct
  <2>3. ASSUME NEW k \in DOMAIN InputsOf(order[c]),
               InputsOf(order[c])[k] = order[d]
        PROVE  a < b
    <3>1. order[d] # NoNode
      <4>1. \A x \in 1..m : order[x] \in Ids(graph)
        BY <1>2 DEF TypeOK, DfsOK
      <4>2. QED
        BY <2>1, <4>1 DEF Ids, NoNode
    <3>2. PICK e \in 1..m : e < c /\ order[e] = order[d]
      BY <1>1, <1>2, <2>1, <2>3, <3>1 DEF OrderInv, DfsInv, InputsListedBefore
    <3>3. e = d
      BY <2>1, <2>2, <3>2
    <3>4. QED
      BY <2>1, <3>2, <3>3
  <2>4. QED
    BY <2>1, <2>2, <2>3
<1>5. OrderIsTopological'
  BY <1>1, <1>3, <1>4 DEF OrderIsTopological, Ids, InputsOf
<1>6. QED
  BY <1>1, <1>5 DEF OrderInv, DfsInv

\* The sweep visits every node once and no node before one of its users.
THEOREM OrderCorrect == Spec => []OrderIsTopological
<1>1. Init => OrderInv
  BY DEF Init, OrderInv, DfsInv, OrderIsTopological, Running
<1>2. TypeOK /\ OrderInv /\ [Next]_vars => OrderInv'
  <2> SUFFICES ASSUME TypeOK, OrderInv, [Next]_vars PROVE OrderInv'
    OBVIOUS
  <2>1. CASE Dfs
    BY <2>1, DfsRootKeepsOrder, DfsSkipKeepsOrder, DfsDescendKeepsOrder,
       DfsFinishKeepsOrder DEF Dfs
  <2>2. CASE StartSweep
    BY <2>2, StartSweepEstablishesOrder
  <2>3. CASE pc' \notin Running \cup {"dfs"}
    BY <2>3 DEF OrderInv, DfsInv, OrderIsTopological, Running
  <2>4. CASE \E l \in NoNode..Len(graph) : BackwardCall(l)
    <3>1. /\ pc' = "dfs" /\ stack' = <<>> /\ order' = <<>>
          /\ visited' = {} /\ root' = NoNode
      BY <2>4 DEF BackwardCall, dfsVars, TypeOK, DfsOK
    <3>2. QED
      BY <3>1 DEF OrderInv, DfsInv, OrderIsTopological, Running,
         VisitedIsStackOrOrder, StackDescends, InputsBeforeKVisited,
         OrderDistinct, InputsListedBefore, RootsVisited, Ids, NoNode
  <2>5. CASE /\ pc \in Running /\ pc' \in Running
             /\ graph' = graph /\ order' = order
    BY <2>5 DEF OrderInv, DfsInv, OrderIsTopological, Running, Ids, InputsOf
  <2>6. CASE UNCHANGED vars
    BY <2>6 DEF vars, recorded, dfsVars, OrderInv, DfsInv, OrderIsTopological,
         Running, VisitedIsStackOrOrder, StackDescends, InputsBeforeKVisited,
         OrderDistinct, InputsListedBefore, RootsVisited, Ids, InputsOf
  <2>7. ASSUME Next, ~Dfs, ~StartSweep,
               ~\E l \in NoNode..Len(graph) : BackwardCall(l)
        PROVE  \/ pc' \notin Running \cup {"dfs"}
               \/ /\ pc \in Running /\ pc' \in Running
                  /\ graph' = graph /\ order' = order
    <3>1. CASE Record \/ \E l \in NoNode..Len(graph) : BackwardReturnsEarly(l)
      BY <3>1 DEF Record, RecordParam, RecordOp, AddNode, BackwardReturnsEarly,
                  Running
    <3>2. CASE CopyToLeaves \/ BackwardThrows
      BY <3>2 DEF CopyToLeaves, BackwardThrows, LocalsGone, Running
    <3>3. CASE SweepSkip \/ SkipInput \/ AccumulateInput \/ NodeDone
      BY <3>3 DEF SweepSkip, SkipInput, AccumulateInput, NodeDone, recorded,
                  Running
    <3>4. CASE RunKernel \/ RunKernelOnReleased
      BY <3>4 DEF RunKernel, RunKernelOnReleased, AtKernel, recorded, Running
    <3>5. QED
      BY <2>7, <3>1, <3>2, <3>3, <3>4 DEF Next, Sweep
  <2>8. QED
    BY <2>1, <2>2, <2>3, <2>4, <2>5, <2>6, <2>7
<1>3. QED
  BY <1>1, <1>2, TypeCorrect, PTL DEF Spec, OrderInv

-----------------------------------------------------------------------------
(* What follows from the order: gradients are complete when they are used. *)

\* The part of the type invariant that is about the order.
LEMMA OrderFacts ==
    ASSUME TypeOK
    PROVE  /\ DOMAIN order = 1..Len(order) /\ Len(order) \in Nat
           /\ DOMAIN order \subseteq Nat /\ pos \in Nat \ {0}
           /\ \A a \in DOMAIN order : order[a] \in Ids(graph)
<1>1. order \in Seq(Ids(graph)) /\ pos \in 1..(Len(order) + 1)
  BY DEF TypeOK, DfsOK, PassOK
<1>2. QED
  BY <1>1

\* The node a gradient is added to comes after the current one.
LEMMA InputComesLater ==
    ASSUME TypeOK, OrderIsTopological, AccumulateInput
    PROVE  /\ Current \in Ids(graph) /\ pos \in DOMAIN order
           /\ input \in DOMAIN InputsOf(Current)
           /\ InputsOf(Current)[input] \in Ids(graph)
           /\ \A a \in DOMAIN order :
                 order[a] = InputsOf(Current)[input] => pos < a
<1>1. /\ pc = "inputs" /\ pos <= Len(order)
      /\ input <= Len(InputsOf(Current)) /\ input \in Nat \ {0}
      /\ InputsOf(Current)[input] # NoNode
  BY DEF AccumulateInput, TypeOK, PassOK
<1>2. Current \in Ids(graph) /\ pos \in DOMAIN order /\ Current = order[pos]
  BY <1>1, CurrentNode DEF TypeOK, DfsOK, PassOK, Current
<1>3. /\ InputsOf(Current) \in Seq(NoNode..(Current - 1))
      /\ \A k \in DOMAIN InputsOf(Current) :
            InputsOf(Current)[k] \in NoNode..(Current - 1)
  BY <1>1, CurrentNode DEF TypeOK
<1>4. input \in DOMAIN InputsOf(Current)
  BY <1>1, <1>3
<1>5. InputsOf(Current)[input] \in Ids(graph)
  BY <1>1, <1>2, <1>3, <1>4 DEF Ids, NoNode
<1>6. QED
  BY <1>1, <1>2, <1>4, <1>5 DEF OrderIsTopological, Running

\* A node that was passed gets no gradient any more.
THEOREM GradFinalCorrect == Spec => GradFinal
<1>1. ASSUME TypeOK, OrderIsTopological, [Next]_vars
      PROVE  [PassedGradsUnchanged]_vars
  <2>1. CASE AccumulateInput
    <3> DEFINE p == InputsOf(Current)[input]
    <3>1. /\ hasGrad' = hasGrad \cup {p} /\ pc = "inputs"
          /\ grads' = [grads EXCEPT ![p] = @ + inGrads[input]]
      BY <2>1 DEF AccumulateInput, AddTo
    <3>2. \A a \in DOMAIN order : Passed(a) => order[a] # p
      <4>1. DOMAIN order \subseteq Nat /\ pos \in Nat
        BY <1>1, OrderFacts
      <4>2. \A a \in DOMAIN order : order[a] = p => pos < a
        BY <1>1, <2>1, InputComesLater
      <4>3. QED
        BY <4>1, <4>2 DEF Passed
    <3>3. \A a \in DOMAIN order : order[a] \in Ids(graph)
      BY <1>1, OrderFacts
    <3>4. grads \in [Ids(graph) -> Int]
      BY <1>1, <3>1 DEF TypeOK, PassOK, Running
    <3>5. QED
      BY <3>1, <3>2, <3>3, <3>4 DEF PassedGradsUnchanged
  <2>2. CASE pc \notin Running \/ pc' \notin Running
    BY <2>2 DEF PassedGradsUnchanged
  <2>3. CASE SweepSkip \/ SkipInput \/ NodeDone
    BY <2>3 DEF SweepSkip, SkipInput, NodeDone, PassedGradsUnchanged
  <2>4. CASE RunKernel \/ RunKernelOnReleased
    BY <2>4 DEF RunKernel, RunKernelOnReleased, PassedGradsUnchanged
  <2>5. CASE Next /\ ~Sweep
    <3>1. ASSUME Record \/ \E l \in NoNode..Len(graph) :
                               BackwardReturnsEarly(l) \/ BackwardCall(l)
          PROVE  pc \notin Running
      BY <3>1 DEF Record, RecordParam, RecordOp, AddNode,
                  BackwardReturnsEarly, BackwardCall, Running
    <3>2. ASSUME Dfs PROVE pc \notin Running
      BY <3>2 DEF Dfs, DfsRoot, DfsSkip, DfsDescend, DfsFinish, Running
    <3>3. ASSUME BackwardThrows PROVE pc' \notin Running
      BY <3>3 DEF BackwardThrows, LocalsGone, Running
    <3>4. QED
      BY <2>2, <2>5, <3>1, <3>2, <3>3 DEF Next
  <2>6. CASE StartSweep \/ CopyToLeaves
    BY <2>2, <2>6 DEF StartSweep, CopyToLeaves, LocalsGone, Running
  <2>7. QED
    BY <1>1, <2>1, <2>3, <2>4, <2>5, <2>6 DEF Sweep
<1>2. QED
  BY <1>1, TypeCorrect, OrderCorrect, PTL DEF Spec, GradFinal

-----------------------------------------------------------------------------
(***************************************************************************)
(* The caches.  A reference count is never taken below the uses that are   *)
(* still to come plus the node's own kernel, so that a kernel never finds  *)
(* its inputs released.                                                    *)
(***************************************************************************)

\* Accumulating one input uses up exactly one use.
LEMMA AccumulateUsesOne ==
    ASSUME TypeOK, OrderIsTopological, AccumulateInput, NEW q \in Ids(graph)
    PROVE  IF q = InputsOf(Current)[input]
           THEN /\ <<Current, input>> \in RemainingUses(q)
                /\ RemainingUses(q)' = RemainingUses(q) \ {<<Current, input>>}
           ELSE RemainingUses(q)' = RemainingUses(q)
<1> DEFINE p == InputsOf(Current)[input]
<1>1. /\ pc = "inputs" /\ pc' = "inputs" /\ graph' = graph /\ order' = order
      /\ pos' = pos /\ input' = input + 1 /\ hasGrad' = hasGrad \cup {p}
      /\ Current \in hasGrad /\ input \in Nat /\ pos \in Nat
      /\ DOMAIN order \subseteq Nat /\ HasKernel(Current)
  BY OrderFacts DEF AccumulateInput, TypeOK, PassOK
<1>2. \A a, b \in DOMAIN order : order[a] = order[b] => a = b
  BY <1>1 DEF OrderIsTopological, Running
<1>3. ASSUME NEW u \in Ids(graph), NEW k \in Nat
      PROVE  Accumulated(u, k)' <=>
                Accumulated(u, k) \/ (u = Current /\ k = input)
  <2>1. ASSUME NEW a \in DOMAIN order, order[a] = u, a <= pos
        PROVE  u \in hasGrad' <=> u \in hasGrad
    BY <1>1, <2>1, InputComesLater
  <2>2. Accumulated(u, k)' <=>
           \E a \in DOMAIN order :
              /\ order[a] = u /\ u \in hasGrad' /\ HasKernel(u)
              /\ a < pos \/ (a = pos /\ k < input + 1)
    BY <1>1 DEF Accumulated, HasKernel
  <2>3. Accumulated(u, k) <=>
           \E a \in DOMAIN order :
              /\ order[a] = u /\ u \in hasGrad /\ HasKernel(u)
              /\ a < pos \/ (a = pos /\ k < input)
    BY <1>1 DEF Accumulated
  <2>4. pos \in DOMAIN order /\ order[pos] = Current
    BY InputComesLater DEF Current
  <2>5. k < input + 1 <=> (k < input \/ k = input)
    BY <1>1
  <2>6. QED
    BY <1>1, <1>2, <2>1, <2>2, <2>3, <2>4, <2>5
<1>4. Uses(graph, q)' = Uses(graph, q)
  BY <1>1
<1>5. \A e \in Uses(graph, q) :
         /\ e = <<e[1], e[2]>> /\ e[1] \in Ids(graph) /\ e[2] \in Nat
         /\ InputsOf(e[1])[e[2]] = q
  <2>1. \A u \in Ids(graph) : DOMAIN InputsOf(u) \subseteq Nat
    <3>1. \A u \in Ids(graph) : InputsOf(u) \in Seq(NoNode..(u - 1))
      BY InputsAreEarlier DEF TypeOK, GraphOK
    <3>2. QED
      BY <3>1
  <2>2. QED
    BY <2>1, UsesFinite DEF TypeOK
<1>6. RemainingUses(q)' =
         {e \in RemainingUses(q) : e # <<Current, input>>}
  BY <1>3, <1>4, <1>5 DEF RemainingUses
<1>7. CASE q = p
  <2>1. <<Current, input>> \in Uses(graph, q)
    BY <1>7, UsesFinite, InputComesLater DEF TypeOK
  <2>2. ~Accumulated(Current, input)
    BY <1>1, <1>2, InputComesLater DEF Accumulated, Current
  <2>3. QED
    BY <1>6, <1>7, <2>1, <2>2 DEF RemainingUses
<1>8. CASE q # p
  <2>1. \A e \in Uses(graph, q) : e # <<Current, input>>
    BY <1>5, <1>8
  <2>2. QED
    BY <1>6, <1>8, <2>1 DEF RemainingUses
<1>9. QED
  BY <1>7, <1>8

\* The steps of the sweep that accumulate nothing use up nothing: a node is
\* passed over when it has no gradient or no kernel, and an input when it is
\* the placeholder.
LEMMA IdleStepUsesNone ==
    ASSUME TypeOK, OrderIsTopological, NEW q \in Ids(graph), pc' \in Running,
           \/ SweepSkip \/ SkipInput \/ NodeDone
           \/ RunKernel \/ RunKernelOnReleased
    PROVE  RemainingUses(q)' = RemainingUses(q)
<1>1. /\ graph' = graph /\ order' = order /\ hasGrad' = hasGrad
      /\ pc \in Running /\ pos <= Len(order)
  BY DEF SweepSkip, SkipInput, NodeDone, RunKernel, RunKernelOnReleased,
         AtKernel, recorded, Running, TypeOK, PassOK
<1>2. /\ DOMAIN order \subseteq Nat /\ pos \in Nat /\ pos \in DOMAIN order
      /\ input \in Nat
  BY <1>1, OrderFacts DEF TypeOK, PassOK
<1>3. \A a, b \in DOMAIN order : order[a] = order[b] => a = b
  BY <1>1 DEF OrderIsTopological
<1>4. ASSUME NEW e \in Uses(graph, q)
      PROVE  /\ e[1] \in Ids(graph) /\ e[2] \in DOMAIN InputsOf(e[1])
             /\ e[2] \in 1..Len(InputsOf(e[1])) /\ Len(InputsOf(e[1])) \in Nat
             /\ InputsOf(e[1])[e[2]] = q /\ q # NoNode
  <2>1. /\ e[1] \in Ids(graph) /\ e[2] \in DOMAIN InputsOf(e[1])
        /\ InputsOf(e[1])[e[2]] = q
    BY UsesFinite DEF TypeOK
  <2>2. InputsOf(e[1]) \in Seq(NoNode..(e[1] - 1))
    BY <2>1, InputsAreEarlier DEF TypeOK, GraphOK
  <2>3. QED
    BY <2>1, <2>2 DEF Ids, NoNode
<1>5. ASSUME NEW e \in Uses(graph, q)
      PROVE  Accumulated(e[1], e[2])' <=> Accumulated(e[1], e[2])
  <2>1. CASE SweepSkip
    <3>1. /\ pos' = pos + 1 /\ pc = "sweep" /\ pc' = "sweep"
          /\ Current \notin hasGrad \/ ~HasKernel(Current)
      BY <2>1 DEF SweepSkip
    <3>2. ~(order[pos] = e[1] /\ e[1] \in hasGrad /\ HasKernel(e[1]))
      BY <3>1 DEF Current
    <3>3. QED
      BY <1>1, <1>2, <3>1, <3>2 DEF Accumulated, HasKernel
  <2>2. CASE SkipInput
    <3>1. /\ pos' = pos /\ pc = "inputs" /\ pc' = "inputs"
          /\ input' = input + 1 /\ InputsOf(order[pos])[input] = NoNode
      BY <2>2 DEF SkipInput, Current
    <3>2. ~(order[pos] = e[1] /\ e[2] = input)
      BY <1>4, <3>1
    <3>3. e[2] \in Nat
      BY <1>4
    <3>4. \A a \in DOMAIN order :
             (order[a] = e[1] /\ a = pos) => (e[2] < input + 1 <=> e[2] < input)
      BY <1>2, <3>2, <3>3
    <3>5. QED
      BY <1>1, <3>1, <3>4 DEF Accumulated, HasKernel
  <2>3. CASE NodeDone
    <3>1. /\ pos' = pos + 1 /\ pc = "inputs" /\ pc' = "sweep"
          /\ input > Len(InputsOf(order[pos]))
      BY <2>3 DEF NodeDone, Current
    <3>2. order[pos] = e[1] => e[2] < input
      <4>1. ASSUME order[pos] = e[1] PROVE e[2] < input
        <5>1. e[2] \in 1..Len(InputsOf(e[1])) /\ Len(InputsOf(e[1])) \in Nat
          BY <1>4
        <5>2. QED
          BY <1>2, <3>1, <4>1, <5>1
      <4>2. QED
        BY <4>1
    <3>3. \A a \in DOMAIN order :
             order[a] = e[1] =>
                (a < pos + 1 <=> (a < pos \/ (a = pos /\ e[2] < input)))
      BY <1>2, <3>2
    <3>4. QED
      BY <1>1, <3>1, <3>3 DEF Accumulated, HasKernel
  <2>4. CASE RunKernel \/ RunKernelOnReleased
    <3>1. /\ pos' = pos /\ pc = "sweep" /\ pc' = "inputs" /\ input' = 1
      BY <2>4 DEF RunKernel, RunKernelOnReleased, AtKernel, Running
    <3>2. e[2] \in Nat \ {0}
      BY <1>4
    <3>3. QED
      BY <1>1, <3>1, <3>2 DEF Accumulated, HasKernel
  <2>5. QED
    BY <2>1, <2>2, <2>3, <2>4
<1>6. QED
  BY <1>1, <1>5 DEF RemainingUses

\* No other step leads into the sweep.
LEMMA StartsOutside ==
    ASSUME TypeOK, Next, ~Sweep
    PROVE  pc' \notin Running
<1>1. CASE Record \/ \E l \in NoNode..Len(graph) :
                       BackwardReturnsEarly(l) \/ BackwardCall(l)
  BY <1>1 DEF Record, RecordParam, RecordOp, AddNode, BackwardReturnsEarly,
              BackwardCall, Running
<1>2. CASE Dfs
  BY <1>2 DEF Dfs, DfsRoot, DfsSkip, DfsDescend, DfsFinish, Running
<1>3. CASE BackwardThrows
  BY <1>3 DEF BackwardThrows, LocalsGone, Running
<1>4. QED
  BY <1>1, <1>2, <1>3 DEF Next

\* compute_refcounts counts a node's own kernel as a use.
OwnKernel(p) == IF HasKernel(p) THEN 1 ELSE 0

\* A reference count is the uses still to come, and one for a kernel of the
\* node's own.
THEOREM RefcountsCorrect == Spec => []RefcountsAreRemainingUses
<1>1. Init => RefcountsAreRemainingUses
  BY DEF Init, RefcountsAreRemainingUses, Running
<1>2. ASSUME TypeOK, TypeOK', OrderIsTopological, RefcountsAreRemainingUses,
             [Next]_vars
      PROVE  RefcountsAreRemainingUses'
  <2> SUFFICES ASSUME TypeOK, TypeOK', OrderIsTopological,
                      RefcountsAreRemainingUses, [Next]_vars,
                      pc' \in Running, NEW q \in Ids(graph'),
                      ~IsParam(graph', q)
               PROVE  refcounts'[q] = OwnKernel(q)'
                                         + Cardinality(RemainingUses(q)')
    BY <1>2 DEF RefcountsAreRemainingUses, OwnKernel
  <2>0. /\ OwnKernel(q) \in {0, 1}
        /\ graph' = graph => OwnKernel(q)' = OwnKernel(q)
    BY DEF OwnKernel, HasKernel
  <2>1. CASE StartSweep
    <3>1. /\ pc' = "sweep" /\ pos' = 1 /\ graph' = graph
          /\ refcounts' = [i \in Ids(graph) |-> RefcountOf(i)]
      BY <2>1 DEF StartSweep, recorded
    <3>2. DOMAIN order' \subseteq Nat \ {0}
      <4>1. order' \in Seq(Ids(graph'))
        BY DEF TypeOK, DfsOK
      <4>2. QED
        BY <4>1
    <3>3. ASSUME NEW u, NEW k PROVE ~Accumulated(u, k)'
      BY <3>1, <3>2 DEF Accumulated
    <3>4. RemainingUses(q)' = Uses(graph, q)
      BY <3>1, <3>3 DEF RemainingUses
    <3>5. refcounts'[q] = Cardinality(Uses(graph, q)) + OwnKernel(q)
      BY <3>1 DEF RefcountOf, OwnKernel
    <3>6. Cardinality(Uses(graph, q)) \in Nat
      BY <3>1, UsesFinite, FS_CardinalityType DEF TypeOK
    <3>7. QED
      BY <2>0, <3>1, <3>4, <3>5, <3>6
  <2>2. ASSUME pc \in Running, graph' = graph
        PROVE  /\ refcounts[q] = OwnKernel(q) + Cardinality(RemainingUses(q))
               /\ refcounts \in [Ids(graph) -> Int]
               /\ IsFiniteSet(RemainingUses(q))
               /\ Cardinality(RemainingUses(q)) \in Nat
    <3>1. refcounts[q] = OwnKernel(q) + Cardinality(RemainingUses(q))
      BY <2>2 DEF RefcountsAreRemainingUses, OwnKernel, IsParam
    <3>2. refcounts \in [Ids(graph) -> Int]
      BY <2>2 DEF TypeOK, PassOK
    <3>3. IsFiniteSet(Uses(graph, q))
      BY <2>2, UsesFinite DEF TypeOK
    <3>4. RemainingUses(q) \subseteq Uses(graph, q)
      BY DEF RemainingUses
    <3>5. IsFiniteSet(RemainingUses(q))
      BY <3>3, <3>4, FS_Subset
    <3>6. QED
      BY <3>1, <3>2, <3>5, FS_CardinalityType
  <2>3. CASE AccumulateInput
    <3>1. /\ pc = "inputs" /\ graph' = graph
          /\ InputsOf(Current)[input] \in Ids(graph)
          /\ refcounts' = IF IsParam(graph, InputsOf(Current)[input])
                          THEN refcounts
                          ELSE [refcounts EXCEPT ![InputsOf(Current)[input]] =
                                   refcounts[InputsOf(Current)[input]] - 1]
      BY <2>3, InputComesLater DEF AccumulateInput
    <3>2. /\ refcounts[q] = OwnKernel(q) + Cardinality(RemainingUses(q))
          /\ refcounts \in [Ids(graph) -> Int]
          /\ IsFiniteSet(RemainingUses(q))
          /\ Cardinality(RemainingUses(q)) \in Nat
      BY <2>2, <3>1 DEF Running
    <3>3. CASE q = InputsOf(Current)[input]
      <4>1. /\ <<Current, input>> \in RemainingUses(q)
            /\ RemainingUses(q)' = RemainingUses(q) \ {<<Current, input>>}
        BY <2>3, <3>1, <3>3, AccumulateUsesOne
      <4>2. Cardinality(RemainingUses(q)') = Cardinality(RemainingUses(q)) - 1
        BY <3>2, <4>1, FS_RemoveElement
      <4>3. refcounts'[q] = refcounts[q] - 1
        BY <3>1, <3>2, <3>3
      <4>4. QED
        BY <2>0, <3>1, <3>2, <4>2, <4>3
    <3>4. CASE q # InputsOf(Current)[input]
      <4>1. RemainingUses(q)' = RemainingUses(q)
        BY <2>3, <3>1, <3>4, AccumulateUsesOne
      <4>2. refcounts'[q] = refcounts[q]
        BY <3>1, <3>2, <3>4
      <4>3. QED
        BY <2>0, <3>1, <3>2, <4>1, <4>2
    <3>5. QED
      BY <3>3, <3>4
  <2>4. ASSUME pc \in Running, graph' = graph, refcounts' = refcounts,
               RemainingUses(q)' = RemainingUses(q)
        PROVE  refcounts'[q] = OwnKernel(q)' + Cardinality(RemainingUses(q)')
    BY <2>0, <2>2, <2>4
  <2>5. CASE SweepSkip \/ SkipInput \/ NodeDone
    <3>1. /\ pc \in Running /\ graph' = graph /\ refcounts' = refcounts
      BY <2>5 DEF SweepSkip, SkipInput, NodeDone, Running, recorded
    <3>2. RemainingUses(q)' = RemainingUses(q)
      BY <2>5, <3>1, IdleStepUsesNone
    <3>3. QED
      BY <2>4, <3>1, <3>2
  <2>6. CASE RunKernel \/ RunKernelOnReleased
    <3>1. /\ pc \in Running /\ graph' = graph /\ refcounts' = refcounts
      BY <2>6 DEF RunKernel, RunKernelOnReleased, AtKernel, Running, recorded
    <3>2. RemainingUses(q)' = RemainingUses(q)
      BY <2>6, <3>1, IdleStepUsesNone
    <3>3. QED
      BY <2>4, <3>1, <3>2
  <2>7. CASE UNCHANGED vars
    <3>1. /\ pc \in Running /\ graph' = graph /\ refcounts' = refcounts
      BY <2>7 DEF vars, recorded, passVars
    <3>2. RemainingUses(q)' = RemainingUses(q)
      BY <2>7 DEF vars, recorded, passVars, RemainingUses, Accumulated,
         HasKernel
    <3>3. QED
      BY <2>4, <3>1, <3>2
  <2>8. CASE Next /\ ~Sweep
    BY <2>8, StartsOutside
  <2>9. CASE CopyToLeaves
    BY <2>9 DEF CopyToLeaves, LocalsGone, Running
  <2>10. QED
    BY <2>1, <2>3, <2>5, <2>6, <2>7, <2>8, <2>9 DEF Sweep
<1>3. QED
  BY <1>1, <1>2, TypeCorrect, OrderCorrect, PTL DEF Spec

-----------------------------------------------------------------------------
(***************************************************************************)
(* No kernel finds its inputs released, and in the first pass none finds   *)
(* its outputs released.  It takes the exact reference counts: released is *)
(* what reaches zero, and a count that still holds its own kernel does not.*)
(***************************************************************************)

KernelNodes == {i \in Ids(graph) : HasKernel(i)}

ReadNodes == KernelNodes \cup {i \in Ids(graph) : IsParam(graph, i)}

CacheInv ==
    /\ ReadNodes \subseteq inCached
    /\ calls = 0 => pc = "idle" /\ KernelNodes \subseteq outCached
    /\ calls = 1 /\ pc = "dfs" => KernelNodes \subseteq outCached
    /\ calls = 1 /\ pc \in Running =>
          \A a \in DOMAIN order :
             pos <= a /\ order[a] \in KernelNodes => order[a] \in outCached

\* Accumulating an input releases nothing that a kernel or the copy into the
\* leaves still reads.
LEMMA NothingReleased ==
    ASSUME TypeOK, OrderIsTopological, RefcountsAreRemainingUses,
           AccumulateInput
    PROVE  \A i \in ReadNodes : /\ i \in inCached => i \in inCached'
                                /\ i \in outCached => i \in outCached'
<1>1. /\ pc \in Running /\ InputsOf(Current)[input] \in Ids(graph)
  BY InputComesLater DEF AccumulateInput, Running
<1>2. ASSUME NEW q \in Ids(graph), q = InputsOf(Current)[input],
             HasKernel(q)
      PROVE  refcounts[q] - 1 # 0
  <2>1. refcounts[q] = 1 + Cardinality(RemainingUses(q))
    BY <1>1, <1>2 DEF RefcountsAreRemainingUses, HasKernel, IsParam
  <2>2. <<Current, input>> \in RemainingUses(q)
    BY <1>2, AccumulateUsesOne
  <2>3. IsFiniteSet(RemainingUses(q))
    <3>1. RemainingUses(q) \subseteq Uses(graph, q)
      BY DEF RemainingUses
    <3>2. QED
      BY <3>1, UsesFinite, FS_Subset DEF TypeOK
  <2>4. Cardinality(RemainingUses(q)) \in Nat \ {0}
    BY <2>2, <2>3, FS_CardinalityType, FS_EmptySet
  <2>5. QED
    BY <2>1, <2>4
<1> DEFINE p == InputsOf(Current)[input]
<1>3. CASE IsParam(graph, p)
  BY <1>3 DEF AccumulateInput
<1>4. CASE ~IsParam(graph, p) /\ HasKernel(p)
  <2>1. refcounts[p] - 1 # 0
    BY <1>1, <1>2, <1>4
  <2>2. /\ inCached' = inCached \ {}
        /\ outCached' = outCached \ {}
    BY <1>4, <2>1 DEF AccumulateInput
  <2>3. QED
    BY <2>2
<1>5. CASE ~IsParam(graph, p) /\ ~HasKernel(p)
  <2>1. /\ inCached \ {p} \subseteq inCached'
        /\ outCached \ {p} \subseteq outCached'
    BY <1>5 DEF AccumulateInput
  <2>2. p \notin ReadNodes
    BY <1>5 DEF ReadNodes, KernelNodes
  <2>3. QED
    BY <2>1, <2>2
<1>6. QED
  BY <1>3, <1>4, <1>5

LEMMA CachesKept == Spec => []CacheInv
<1>1. Init => CacheInv
  BY DEF Init, CacheInv, ReadNodes, KernelNodes, Ids
<1>2. ASSUME TypeOK, OrderIsTopological, RefcountsAreRemainingUses, CacheInv,
             [Next]_vars
      PROVE  CacheInv'
  <2> SUFFICES ASSUME TypeOK, OrderIsTopological, RefcountsAreRemainingUses,
                      CacheInv, [Next]_vars
               PROVE  CacheInv'
    BY <1>2
  <2>0. graph' = graph =>
           KernelNodes' = KernelNodes /\ ReadNodes' = ReadNodes
    BY DEF KernelNodes, ReadNodes, HasKernel, IsParam
  <2>1. CASE Record
    <3>1. /\ graph \in Seq([op : Ops \cup {"param"}, inputs : Seq(Nat)])
          /\ \E node : AddNode(node)
      BY <2>1 DEF Record, RecordParam, RecordOp, TypeOK, GraphOK
    <3>2. /\ Ids(graph') = Ids(graph) \cup {Len(graph) + 1}
          /\ inCached' = inCached \cup {Len(graph) + 1}
          /\ outCached' = outCached \cup {Len(graph) + 1}
          /\ pc = "idle" /\ pc' = "idle" /\ calls' = calls
          /\ \A i \in Ids(graph) : graph'[i] = graph[i]
      BY <3>1 DEF AddNode, Ids
    <3>3. /\ KernelNodes' \subseteq KernelNodes \cup {Len(graph) + 1}
          /\ ReadNodes' \subseteq ReadNodes \cup {Len(graph) + 1}
      BY <3>2 DEF KernelNodes, ReadNodes, HasKernel, IsParam
    <3>4. QED
      BY <3>2, <3>3 DEF CacheInv, Running
  <2>2. CASE \E l \in NoNode..Len(graph) :
                BackwardReturnsEarly(l) \/ BackwardCall(l)
    <3>1. /\ graph' = graph /\ inCached' = inCached /\ outCached' = outCached
          /\ calls' = calls + 1 /\ pc' \in {"idle", "dfs"} /\ calls \in Nat
      BY <2>2 DEF BackwardReturnsEarly, BackwardCall, recorded, TypeOK
    <3>2. QED
      BY <2>0, <3>1 DEF CacheInv, Running
  <2>3. CASE Dfs
    <3>1. /\ graph' = graph /\ inCached' = inCached /\ outCached' = outCached
          /\ calls' = calls /\ pc' = pc /\ pc = "dfs"
      BY <2>3 DEF Dfs, DfsRoot, DfsSkip, DfsDescend, DfsFinish, recorded
    <3>2. QED
      BY <2>0, <3>1 DEF CacheInv, Running
  <2>4. CASE StartSweep
    <3>1. /\ graph' = graph /\ inCached' = inCached /\ outCached' = outCached
          /\ calls' = calls /\ pc' = "sweep" /\ pc = "dfs"
          /\ order' = Reverse(order)
      BY <2>4 DEF StartSweep, ReverseOrder, recorded
    <3>2. \A a \in DOMAIN order' : order'[a] \in Ids(graph)
      <4>1. order \in Seq(Ids(graph))
        BY DEF TypeOK, DfsOK
      <4>2. \A a \in DOMAIN order' :
               /\ order'[a] = order[Len(order) - a + 1]
               /\ Len(order) - a + 1 \in 1..Len(order)
        BY <3>1, <4>1 DEF Reverse
      <4>3. QED
        BY <4>1, <4>2
    <3>3. QED
      BY <2>0, <3>1, <3>2 DEF CacheInv, Running
  <2>5. CASE SweepSkip \/ RunKernel \/ RunKernelOnReleased \/ SkipInput
    <3>1. /\ graph' = graph /\ inCached' = inCached /\ outCached' = outCached
          /\ calls' = calls /\ order' = order
          /\ pc \in Running /\ (pos' = pos \/ pos' = pos + 1)
          /\ pc' \in Running \cup {"crashed"}
      BY <2>5 DEF SweepSkip, RunKernel, RunKernelOnReleased, SkipInput,
                  AtKernel, recorded, Running
    <3>2. \A a \in DOMAIN order : pos' <= a => pos <= a
      BY <3>1, OrderFacts
    <3>3. calls # 0 /\ pc' \notin {"idle", "dfs"}
      BY <2>0, <3>1 DEF CacheInv, Running
    <3>4. QED
      BY <2>0, <3>1, <3>2, <3>3 DEF CacheInv
  <2>6. CASE AccumulateInput
    <3>1. /\ graph' = graph /\ calls' = calls /\ order' = order
          /\ pos' = pos /\ pc' = pc
          /\ pc \in Running
      BY <2>6 DEF AccumulateInput, Running
    <3>2. \A i \in ReadNodes : /\ i \in inCached => i \in inCached'
                               /\ i \in outCached => i \in outCached'
      BY <2>6, NothingReleased
    <3>3. calls # 0 /\ pc # "dfs" /\ KernelNodes \subseteq ReadNodes
      BY <3>1 DEF CacheInv, Running, ReadNodes
    <3>4. ReadNodes \subseteq inCached'
      BY <3>2 DEF CacheInv
    <3>5. ASSUME calls = 1, NEW a \in DOMAIN order, pos <= a,
                 order[a] \in KernelNodes
          PROVE  order[a] \in outCached'
      <4>1. order[a] \in outCached
        BY <3>1, <3>5 DEF CacheInv
      <4>2. order[a] \in ReadNodes
        BY <3>3, <3>5
      <4>3. QED
        BY <3>2, <4>1, <4>2
    <3>6. KernelNodes' = KernelNodes /\ ReadNodes' = ReadNodes
      BY <2>0, <3>1
    <3>7. pc' \notin {"idle", "dfs"} /\ calls' # 0
      BY <3>1, <3>3 DEF Running
    <3>8. QED
      BY <3>1, <3>4, <3>5, <3>6, <3>7 DEF CacheInv
  <2>7. CASE NodeDone
    <3>1. /\ graph' = graph /\ calls' = calls /\ order' = order
          /\ pos' = pos + 1 /\ pc' = "sweep" /\ pc \in Running
          /\ inCached' = inCached /\ outCached' = outCached \ {order[pos]}
      BY <2>7 DEF NodeDone, Running, Current
    <3>2. pos \in DOMAIN order
      BY <2>7, OrderFacts DEF NodeDone, TypeOK, PassOK
    <3>3. \A a \in DOMAIN order :
             pos' <= a => pos <= a /\ order[a] # order[pos]
      <4>1. \A a \in DOMAIN order : pos' <= a => pos <= a /\ a # pos
        BY <3>1, OrderFacts
      <4>2. QED
        BY <3>1, <3>2, <4>1 DEF OrderIsTopological
    <3>4. calls # 0
      BY <2>0, <3>1 DEF CacheInv, Running
    <3>5. QED
      BY <2>0, <3>1, <3>3, <3>4 DEF CacheInv
  <2>8. CASE CopyToLeaves \/ BackwardThrows
    <3>1. /\ graph' = graph /\ inCached' = inCached
          /\ calls' = calls /\ pc' = "idle" /\ pc \in Running
      BY <2>8 DEF CopyToLeaves, BackwardThrows, LocalsGone, AtKernel, recorded,
                  Running
    <3>2. QED
      BY <2>0, <3>1 DEF CacheInv, Running
  <2>9. CASE UNCHANGED vars
    BY <2>0, <2>9 DEF vars, recorded, passVars, CacheInv
  <2>10. QED
    BY <2>1, <2>2, <2>3, <2>4, <2>5, <2>6, <2>7, <2>8, <2>9 DEF Next, Sweep
<1>3. QED
  BY <1>1, <1>2, TypeCorrect, OrderCorrect, RefcountsCorrect, PTL DEF Spec

\* The caches a kernel reads are there.
THEOREM CachesCorrect == Spec => []KernelReadsLiveCaches
<1>1. TypeOK /\ CacheInv => KernelReadsLiveCaches
  <2> SUFFICES ASSUME TypeOK, CacheInv, AtKernel
               PROVE  /\ Current \in inCached
                      /\ calls = 1 => Current \in outCached
    BY DEF KernelReadsLiveCaches
  <2>1. pc \in Running /\ pos \in DOMAIN order /\ pos <= pos
    BY OrderFacts DEF AtKernel, Running
  <2>2. Current \in Ids(graph)
    BY <2>1, OrderFacts DEF Current
  <2>3. Current \in KernelNodes /\ Current \in ReadNodes
    BY <2>2 DEF AtKernel, KernelNodes, ReadNodes
  <2>4. QED
    BY <2>1, <2>3 DEF CacheInv, Current
<1>2. QED
  BY <1>1, TypeCorrect, CachesKept, PTL


-----------------------------------------------------------------------------
(* The main theorem about the engine: for every graph, the reverse sweep   *)
(* puts into the leaves the derivatives that LeafGradients defines         *)
(* forwards.                                                               *)

\* The graph as far as gradients flow: a node without a kernel passes none on.
Flow == [i \in Ids(graph) |->
            IF graph[i].op \in ForwardOnly THEN ParamNode ELSE graph[i]]

\* The derivative of a node by a node, and whether there is a way from one to
\* the other.
D(i, w) == Derivative(Flow, i, w)

Dep(i, w) == DependsOn(Flow, i, w)

LEMMA FlowNodes ==
    ASSUME GraphOK
    PROVE  /\ Len(Flow) = Len(graph)
           /\ \A i \in Ids(graph) :
                 /\ HasKernel(i) => Flow[i] = graph[i]
                 /\ ~HasKernel(i) => Flow[i].inputs = <<>>
<1>1. Len(graph) \in Nat
  BY DEF GraphOK
<1>2. Len(Flow) = Len(graph)
  BY <1>1 DEF Flow, Ids
<1>3. ASSUME NEW i \in Ids(graph), HasKernel(i) PROVE Flow[i] = graph[i]
  BY <1>3 DEF Flow, HasKernel
<1>4. ASSUME NEW i \in Ids(graph), ~HasKernel(i) PROVE Flow[i].inputs = <<>>
  <2>1. CASE graph[i].op \in ForwardOnly
    BY <2>1 DEF Flow, ParamNode
  <2>2. CASE graph[i].op \notin ForwardOnly
    <3>1. graph[i].inputs = <<>>
      BY <1>4, <2>2, InputsAreEarlier DEF GraphOK, HasKernel, IsParam, InputsOf
    <3>2. QED
      BY <2>2, <3>1 DEF Flow
  <2>3. QED
    BY <2>1, <2>2
<1>5. QED
  BY <1>2, <1>3, <1>4

-----------------------------------------------------------------------------
(* Derivative and DependsOn are recursive functions of the later node; that *)
(* they satisfy their equations rests on inputs being earlier nodes.        *)

\* The right-hand sides of the two equations at node i.
DValue(d, w, i) ==
    IF i = w THEN 1
    ELSE IF i = NoNode THEN 0
    ELSE SumFunction([k \in DOMAIN Flow[i].inputs |->
                         Partial[Flow[i].op][k] * d[Flow[i].inputs[k]]])

DependsValue(dep, w, i) ==
    \/ i = w
    \/ /\ i # NoNode
       /\ \E k \in DOMAIN Flow[i].inputs : dep[Flow[i].inputs[k]]

LEMMA ValuesAgree ==
    ASSUME GraphOK, NEW w, NEW m \in Nat, m < Len(graph), NEW i \in 0 .. m + 1,
           NEW d, NEW e, \A j \in 0 .. m : d[j] = e[j]
    PROVE  /\ DValue(d, w, i) = DValue(e, w, i)
           /\ DependsValue(d, w, i) <=> DependsValue(e, w, i)
<1>1. CASE i = NoNode
  BY <1>1 DEF DValue, DependsValue
<1>2. CASE i # NoNode
  <2>1. i \in Ids(graph) /\ i - 1 \in 0 .. m
    BY <1>2 DEF Ids, NoNode, GraphOK
  <2>2. \A k \in DOMAIN Flow[i].inputs : Flow[i].inputs[k] \in 0 .. m
    <3>1. CASE HasKernel(i)
      <4>1. \A k \in DOMAIN graph[i].inputs : graph[i].inputs[k] \in 0 .. m
        BY <2>1, InputsAreEarlier DEF GraphOK, InputsOf, NoNode
      <4>2. QED
        BY <2>1, <3>1, <4>1, FlowNodes
    <3>2. CASE ~HasKernel(i)
      <4>1. DOMAIN Flow[i].inputs = {}
        BY <2>1, <3>2, FlowNodes
      <4>2. QED
        BY <4>1
    <3>3. QED
      BY <3>1, <3>2
  <2>3. [k \in DOMAIN Flow[i].inputs |-> Partial[Flow[i].op][k] * d[Flow[i].inputs[k]]]
        = [k \in DOMAIN Flow[i].inputs |-> Partial[Flow[i].op][k] * e[Flow[i].inputs[k]]]
    BY <2>2
  <2>4. DValue(d, w, i) = DValue(e, w, i)
    BY <2>3 DEF DValue
  <2>5. DependsValue(d, w, i) <=> DependsValue(e, w, i)
    BY <2>2 DEF DependsValue
  <2>6. QED
    BY <2>4, <2>5
<1>3. QED
  BY <1>1, <1>2

LEMMA DerivativeExists ==
    ASSUME GraphOK, NEW w
    PROVE  /\ \E d : d = [i \in NoNode .. Len(graph) |-> DValue(d, w, i)]
           /\ \E d : d = [i \in NoNode .. Len(graph) |-> DependsValue(d, w, i)]
<1> DEFINE C == {m \in Nat : /\ \E d : d = [i \in 0 .. m |-> DValue(d, w, i)]
                             /\ \E d : d = [i \in 0 .. m |-> DependsValue(d, w, i)]}
<1>1. Len(graph) \in Nat
  BY DEF GraphOK
<1>2. 0 \in C
  <2> DEFINE d == [i \in 0 .. 0 |-> IF i = w THEN 1 ELSE 0]
             e == [i \in 0 .. 0 |-> i = w]
  <2>1. d = [i \in 0 .. 0 |-> DValue(d, w, i)]
    BY DEF DValue, NoNode
  <2>2. e = [i \in 0 .. 0 |-> DependsValue(e, w, i)]
    <3>1. ASSUME NEW i \in 0 .. 0 PROVE DependsValue(e, w, i) = (i = w)
      <4>1. i = NoNode
        BY DEF NoNode
      <4>2. QED
        BY <4>1, Zenon DEF DependsValue
    <3>2. QED
      BY <3>1, Zenon
  <2>3. QED
    BY <2>1, <2>2
<1>3. ASSUME NEW m \in 0 .. Len(graph) - 1, m \in C PROVE m + 1 \in C
  <2>1. m \in Nat /\ m < Len(graph)
    BY <1>1
  <2>2. PICK d : d = [i \in 0 .. m |-> DValue(d, w, i)]
    BY <1>3
  <2>3. PICK e : e = [i \in 0 .. m |-> DependsValue(e, w, i)]
    BY <1>3
  <2> DEFINE f == [i \in 0 .. m + 1 |-> DValue(d, w, i)]
             g == [i \in 0 .. m + 1 |-> DependsValue(e, w, i)]
  <2>4. \A j \in 0 .. m : j \in 0 .. m + 1
    BY <2>1
  <2>5. \A j \in 0 .. m : d[j] = f[j]
    BY <2>2, <2>4
  <2>6. \A j \in 0 .. m : e[j] = g[j]
    BY <2>3, <2>4
  <2>7. f = [i \in 0 .. m + 1 |-> DValue(f, w, i)]
    <3> HIDE DEF f
    <3>1. \A i \in 0 .. m + 1 : DValue(d, w, i) = DValue(f, w, i)
      BY <2>1, <2>5, ValuesAgree
    <3>2. QED
      BY <3>1 DEF f
  <2>8. g = [i \in 0 .. m + 1 |-> DependsValue(g, w, i)]
    <3> HIDE DEF g
    <3>1. \A i \in 0 .. m + 1 : DependsValue(e, w, i) <=> DependsValue(g, w, i)
      BY <2>1, <2>6, ValuesAgree
    <3>2. \A i \in 0 .. m + 1 : /\ DependsValue(e, w, i) \in BOOLEAN
                                /\ DependsValue(g, w, i) \in BOOLEAN
      BY DEF DependsValue
    <3>3. QED
      BY <3>1, <3>2 DEF g
  <2> HIDE DEF f, g
  <2>9. QED
    BY <2>1, <2>7, <2>8
<1>4. Len(graph) \in C
  <2> HIDE DEF C
  <2>1. 0 .. Len(graph) \subseteq C
    BY <1>1, <1>2, <1>3, UpTo
  <2>2. QED
    BY <1>1, <2>1
<1>5. QED
  BY <1>4 DEF NoNode

LEMMA DerivativeEquation ==
    ASSUME GraphOK, NEW w, NEW i \in NoNode .. Len(graph)
    PROVE  D(i, w) = IF i = w THEN 1
                     ELSE IF i = NoNode \/ ~HasKernel(i) THEN 0
                     ELSE SumFunctionOnSet([k \in DOMAIN InputsOf(i) |->
                             Partial[graph[i].op][k] * D(InputsOf(i)[k], w)],
                             DOMAIN InputsOf(i))
<1> DEFINE Eq(d) == d = [j \in NoNode .. Len(graph) |-> DValue(d, w, j)]
<1> DEFINE d == CHOOSE d : Eq(d)
<1>1. Eq(d)
  <2>1. \E e : Eq(e)
    BY DerivativeExists
  <2>2. QED
    BY <2>1, Zenon
<1>2. ASSUME NEW j PROVE D(j, w) = d[j]
  <2>1. Len(Flow) = Len(graph)
    BY FlowNodes
  <2> DEFINE f == CHOOSE f : f = [k \in NoNode .. Len(Flow) |-> DValue(f, w, k)]
  <2>2. D(j, w) = f[j]
    BY DEF D, Derivative, DValue
  <2>3. QED
    BY <2>1, <2>2
<1> HIDE DEF d
<1>3. d[i] = DValue(d, w, i)
  BY <1>1
<1>4. [k \in DOMAIN InputsOf(i) |-> Partial[graph[i].op][k] * d[InputsOf(i)[k]]]
      = [k \in DOMAIN InputsOf(i) |-> Partial[graph[i].op][k] * D(InputsOf(i)[k], w)]
  BY <1>2
<1>5. CASE i = w \/ i = NoNode
  BY <1>2, <1>3, <1>5 DEF DValue
<1>6. CASE i # w /\ i # NoNode
  <2>1. i \in Ids(graph)
    BY <1>6 DEF Ids, NoNode, GraphOK
  <2>2. CASE HasKernel(i)
    <3>1. Flow[i] = graph[i]
      BY <2>1, <2>2, FlowNodes
    <3>2. QED
      BY <1>2, <1>3, <1>4, <1>6, <2>2, <3>1 DEF DValue, InputsOf, SumFunction
  <2>3. CASE ~HasKernel(i)
    <3>1. DOMAIN Flow[i].inputs = {}
      BY <2>1, <2>3, FlowNodes
    <3>2. d[i] = 0
      BY <1>3, <1>6, <3>1, SumEmpty DEF DValue, SumFunction
    <3>3. QED
      BY <1>2, <1>6, <2>3, <3>2
  <2>4. QED
    BY <2>2, <2>3
<1>7. QED
  BY <1>5, <1>6

LEMMA DependsEquation ==
    ASSUME GraphOK, NEW w, NEW i \in NoNode .. Len(graph)
    PROVE  Dep(i, w) <=>
              \/ i = w
              \/ /\ i # NoNode /\ HasKernel(i)
                 /\ \E k \in DOMAIN InputsOf(i) : Dep(InputsOf(i)[k], w)
<1> DEFINE Eq(d) == d = [j \in NoNode .. Len(graph) |-> DependsValue(d, w, j)]
<1> DEFINE d == CHOOSE d : Eq(d)
<1>1. Eq(d)
  <2>1. \E e : Eq(e)
    BY DerivativeExists
  <2>2. QED
    BY <2>1, Zenon
<1>2. ASSUME NEW j PROVE Dep(j, w) = d[j]
  <2>1. Len(Flow) = Len(graph)
    BY FlowNodes
  <2> DEFINE f == CHOOSE f : f = [k \in NoNode .. Len(Flow) |-> DependsValue(f, w, k)]
  <2>2. Dep(j, w) = f[j]
    BY DEF Dep, DependsOn, DependsValue
  <2>3. QED
    BY <2>1, <2>2
<1> HIDE DEF d
<1>3. d[i] = DependsValue(d, w, i)
  BY <1>1
<1>4. CASE i = w \/ i = NoNode
  BY <1>2, <1>3, <1>4 DEF DependsValue
<1>5. CASE i # w /\ i # NoNode
  <2>1. i \in Ids(graph)
    BY <1>5 DEF Ids, NoNode, GraphOK
  <2>2. CASE HasKernel(i)
    <3>1. Flow[i] = graph[i]
      BY <2>1, <2>2, FlowNodes
    <3>2. QED
      BY <1>2, <1>3, <1>5, <2>2, <3>1 DEF DependsValue, InputsOf
  <2>3. CASE ~HasKernel(i)
    <3>1. DOMAIN Flow[i].inputs = {}
      BY <2>1, <2>3, FlowNodes
    <3>2. QED
      BY <1>2, <1>3, <1>5, <2>3, <3>1 DEF DependsValue
  <2>4. QED
    BY <2>2, <2>3
<1>6. QED
  BY <1>4, <1>5

-----------------------------------------------------------------------------
(* What follows by induction along the graph. *)

LEMMA DerivativeIsInt ==
    ASSUME TypeOK, NEW w, NEW i \in NoNode .. Len(graph)
    PROVE  D(i, w) \in Int
<1> DEFINE C == {m \in Nat : \A j \in 0 .. m : D(j, w) \in Int}
<1>1. GraphOK /\ Len(graph) \in Nat
  BY DEF TypeOK, GraphOK
<1>2. ASSUME NEW j \in NoNode .. Len(graph),
             j # NoNode => \A k \in DOMAIN InputsOf(j) : D(InputsOf(j)[k], w) \in Int
      PROVE  D(j, w) \in Int
  <2>1. CASE j = w \/ j = NoNode \/ ~HasKernel(j)
    <3>1. D(j, w) = 1 \/ D(j, w) = 0
      BY <1>1, <2>1, DerivativeEquation
    <3>2. QED
      BY <3>1
  <2>2. CASE j # w /\ j # NoNode /\ HasKernel(j)
    <3> DEFINE terms == [k \in DOMAIN InputsOf(j) |->
                            Partial[graph[j].op][k] * D(InputsOf(j)[k], w)]
    <3>1. j \in Ids(graph)
      BY <1>1, <2>2 DEF Ids, NoNode
    <3>2. D(j, w) = SumFunctionOnSet(terms, DOMAIN InputsOf(j))
      BY <1>1, <2>2, DerivativeEquation
    <3>3. InputsOf(j) \in Seq(NoNode .. j - 1) /\ Len(InputsOf(j)) = Arity(graph[j].op)
          /\ graph[j].op \in Ops
      BY <1>1, <2>2, <3>1, InputsAreEarlier DEF GraphOK
    <3>4. /\ DOMAIN InputsOf(j) = 1 .. Len(InputsOf(j)) /\ Len(InputsOf(j)) \in Nat
          /\ \A k \in DOMAIN InputsOf(j) : Partial[graph[j].op][k] \in Int
      <4>1. Partial[graph[j].op] \in Seq(Int)
        BY <3>3, OpsAssumption
      <4>2. \A k \in 1 .. Arity(graph[j].op) : Partial[graph[j].op][k] \in Int
        BY <4>1 DEF Arity
      <4>3. QED
        BY <3>3, <4>2
    <3>5. IsFiniteSet(DOMAIN InputsOf(j))
      BY <3>4, FS_Interval
    <3>6. \A k \in DOMAIN InputsOf(j) : terms[k] \in Int
      BY <1>2, <2>2, <3>4
    <3>7. QED
      BY <3>2, <3>5, <3>6, SumRemove
  <2>3. QED
    BY <2>1, <2>2
<1>3. 0 \in C
  BY <1>1, <1>2 DEF NoNode
<1>4. ASSUME NEW m \in 0 .. Len(graph) - 1, m \in C PROVE m + 1 \in C
  <2>1. m + 1 \in Ids(graph) /\ m + 1 \in NoNode .. Len(graph)
    BY <1>1 DEF Ids, NoNode
  <2>2. \A k \in DOMAIN InputsOf(m + 1) : InputsOf(m + 1)[k] \in 0 .. m
    BY <1>1, <2>1, InputsAreEarlier DEF GraphOK, NoNode
  <2>3. D(m + 1, w) \in Int
    BY <1>2, <1>4, <2>1, <2>2
  <2>4. \A j \in 0 .. m + 1 : j \in 0 .. m \/ j = m + 1
    OBVIOUS
  <2>5. QED
    BY <1>4, <2>3, <2>4
<1>5. 0 .. Len(graph) \subseteq C
  <2> HIDE DEF C
  <2>1. QED
    BY <1>1, <1>3, <1>4, UpTo
<1>6. i \in C /\ i \in 0 .. i
  BY <1>1, <1>5 DEF NoNode
<1>7. QED
  BY <1>6

\* What leads to a node leads to its inputs.
LEMMA DependsOnInputs ==
    ASSUME TypeOK, NEW l \in NoNode .. Len(graph), NEW i \in Ids(graph),
           HasKernel(i), NEW k \in DOMAIN InputsOf(i), Dep(l, i)
    PROVE  Dep(l, InputsOf(i)[k])
<1> DEFINE p == InputsOf(i)[k]
<1> DEFINE C == {m \in Nat : \A j \in 0 .. m :
                    Dep(j, i) => Dep(j, p)}
<1>1. GraphOK /\ Len(graph) \in Nat
  BY DEF TypeOK, GraphOK
<1>2. p \in NoNode .. Len(graph) /\ Dep(p, p)
  <2>1. p \in NoNode .. i - 1
    BY <1>1, InputsAreEarlier DEF GraphOK
  <2>2. p \in NoNode .. Len(graph)
    BY <1>1, <2>1 DEF Ids, NoNode
  <2>3. QED
    BY <1>1, <2>2, DependsEquation
<1>3. ASSUME NEW j \in NoNode .. Len(graph), Dep(j, i),
             \A n \in DOMAIN InputsOf(j) :
                j # NoNode /\ HasKernel(j) /\ Dep(InputsOf(j)[n], i)
                   => Dep(InputsOf(j)[n], p)
      PROVE  Dep(j, p)
  <2>1. CASE j = i
    <3>1. j # NoNode
      BY <2>1 DEF Ids, NoNode
    <3>2. QED
      BY <1>1, <1>2, <2>1, <3>1, DependsEquation
  <2>2. CASE j # i
    <3>1. /\ j # NoNode /\ HasKernel(j)
          /\ \E n \in DOMAIN InputsOf(j) : Dep(InputsOf(j)[n], i)
      BY <1>1, <1>3, <2>2, DependsEquation
    <3>2. QED
      BY <1>1, <1>3, <3>1, DependsEquation
  <2>3. QED
    BY <2>1, <2>2
<1>4. 0 \in C
  <2>1. NoNode \in NoNode .. Len(graph)
    BY <1>1 DEF NoNode
  <2>2. Dep(NoNode, i) => Dep(NoNode, p)
    BY <1>3, <2>1
  <2>3. QED
    BY <2>2 DEF NoNode
<1>5. ASSUME NEW m \in 0 .. Len(graph) - 1, m \in C PROVE m + 1 \in C
  <2>1. m + 1 \in Ids(graph) /\ m + 1 \in NoNode .. Len(graph)
    BY <1>1 DEF Ids, NoNode
  <2>2. \A n \in DOMAIN InputsOf(m + 1) : InputsOf(m + 1)[n] \in 0 .. m
    BY <1>1, <2>1, InputsAreEarlier DEF GraphOK, NoNode
  <2>3. Dep(m + 1, i) => Dep(m + 1, p)
    BY <1>3, <1>5, <2>1, <2>2
  <2>4. \A j \in 0 .. m + 1 : j \in 0 .. m \/ j = m + 1
    OBVIOUS
  <2>5. QED
    BY <1>5, <2>3, <2>4
<1>6. 0 .. Len(graph) \subseteq C
  <2> HIDE DEF C
  <2>1. QED
    BY <1>1, <1>4, <1>5, UpTo
<1>7. l \in C /\ l \in 0 .. l
  BY <1>1, <1>6 DEF NoNode
<1>8. QED
  BY <1>7

\* No way leads on from the placeholder, a leaf or a node without a kernel.
LEMMA NothingBehind ==
    ASSUME TypeOK, NEW w \in Ids(graph)
    PROVE  /\ D(NoNode, w) = 0 /\ ~Dep(NoNode, w)
           /\ D(w, w) = 1
           /\ \A j \in Ids(graph) \ {w} :
                 ~HasKernel(j) => D(j, w) = 0 /\ ~Dep(j, w)
<1>1. GraphOK /\ Len(graph) \in Nat /\ w # NoNode
  BY DEF TypeOK, GraphOK, Ids, NoNode
<1>2. NoNode \in NoNode .. Len(graph) /\ Ids(graph) \subseteq NoNode .. Len(graph)
  BY <1>1 DEF Ids, NoNode
<1>3. D(NoNode, w) = 0 /\ ~Dep(NoNode, w) /\ D(w, w) = 1
  BY <1>1, <1>2, DerivativeEquation, DependsEquation
<1>4. ASSUME NEW j \in Ids(graph) \ {w}, ~HasKernel(j)
      PROVE  D(j, w) = 0 /\ ~Dep(j, w)
  BY <1>1, <1>2, <1>4, DerivativeEquation, DependsEquation
<1>5. QED
  BY <1>3, <1>4

-----------------------------------------------------------------------------
\* Nodes whose gradient has not been handed to their inputs, and leaves and
\* nodes without a kernel, which keep theirs.
OpenNodes ==
    {i \in Ids(graph) :
        \/ ~HasKernel(i)
        \/ \E a \in DOMAIN order :
              order[a] = i /\ (a > pos \/ (a = pos /\ pc = "sweep"))}

\* What the gradients of the open nodes are worth in the leaf w,
OpenWorth(w) == [i \in Ids(graph) |-> grads[i] * D(i, w)]

\* and those that the current kernel has returned and nobody has taken yet.
TakenWorth(w) ==
    [k \in DOMAIN InputsOf(Current) |-> inGrads[k] * D(InputsOf(Current)[k], w)]

Untaken == IF pc = "inputs" THEN input .. Len(InputsOf(Current)) ELSE {}

\* The chain rule, at every point of the sweep.
ChainRule ==
    \A w \in Ids(graph) : ~HasKernel(w) =>
       D(outputId, w) = SumFunctionOnSet(OpenWorth(w), OpenNodes)
                           + SumFunctionOnSet(TakenWorth(w), Untaken)

NoGradIsZero == \A i \in Ids(graph) \ hasGrad : grads[i] = 0

\* Gradients go to nodes that the root depends on,
OnlyReached == \A i \in hasGrad : Dep(outputId, i)

\* and to all of them: the way to a leaf leads on from an open node or an
\* input of the current one.
AllReached ==
    \A w \in Ids(graph) : Dep(outputId, w) =>
       \/ w \in hasGrad
       \/ \E i \in OpenNodes \cap hasGrad : Dep(i, w)
       \/ \E k \in Untaken : Dep(InputsOf(Current)[k], w)

SweepInv == pc \in Running => ChainRule /\ NoGradIsZero /\ OnlyReached /\ AllReached
-----------------------------------------------------------------------------
(* One lemma for each step that moves the sweep on. *)

LEMMA SweepFacts ==
    ASSUME TypeOK, pc \in Running
    PROVE  /\ GraphOK /\ Len(graph) \in Nat
           /\ Ids(graph) \subseteq NoNode .. Len(graph)
           /\ OpenNodes \subseteq Ids(graph) /\ IsFiniteSet(OpenNodes)
           /\ Untaken \subseteq DOMAIN InputsOf(Current) /\ IsFiniteSet(Untaken)
           /\ \A w : \A i \in Ids(graph) : /\ OpenWorth(w)[i] = grads[i] * D(i, w)
                                           /\ OpenWorth(w)[i] \in Int
                                           /\ grads[i] \in Int /\ D(i, w) \in Int
           /\ \A w : \A k \in Untaken :
                 /\ TakenWorth(w)[k] = inGrads[k] * D(InputsOf(Current)[k], w)
                 /\ TakenWorth(w)[k] \in Int
<1>1. GraphOK /\ Len(graph) \in Nat /\ Ids(graph) \subseteq NoNode .. Len(graph)
  BY DEF TypeOK, GraphOK, Ids, NoNode
<1>2. OpenNodes \subseteq Ids(graph) /\ IsFiniteSet(OpenNodes)
  <2>1. IsFiniteSet(Ids(graph))
    BY <1>1, FS_Interval DEF Ids
  <2>2. OpenNodes \subseteq Ids(graph)
    BY DEF OpenNodes, HasKernel
  <2>3. QED
    BY <2>1, <2>2, FS_Subset
<1>3. \A i \in Ids(graph) : grads[i] \in Int
  BY DEF TypeOK, PassOK
<1>4. ASSUME NEW w, NEW i \in Ids(graph)
      PROVE  /\ OpenWorth(w)[i] = grads[i] * D(i, w)
             /\ OpenWorth(w)[i] \in Int
             /\ grads[i] \in Int /\ D(i, w) \in Int
  <2>1. D(i, w) \in Int
    BY <1>1, DerivativeIsInt
  <2>2. OpenWorth(w)[i] = grads[i] * D(i, w)
    BY DEF OpenWorth
  <2>3. QED
    BY <1>3, <2>1, <2>2
<1>5. CASE pc = "inputs"
  <2>1. /\ Current \in Ids(graph) /\ Len(inGrads) = Len(InputsOf(Current))
        /\ input \in Nat \ {0} /\ inGrads \in Seq(Int)
    BY <1>5, CurrentNode DEF TypeOK, DfsOK, PassOK, Current
  <2>2. /\ DOMAIN InputsOf(Current) = 1 .. Len(InputsOf(Current))
        /\ Len(InputsOf(Current)) \in Nat
        /\ \A k \in DOMAIN InputsOf(Current) :
              InputsOf(Current)[k] \in NoNode .. Len(graph)
    <3>1. /\ InputsOf(Current) \in Seq(NoNode .. Current - 1)
          /\ \A k \in DOMAIN InputsOf(Current) :
                InputsOf(Current)[k] \in NoNode .. Current - 1
      BY <1>1, <2>1, InputsAreEarlier DEF GraphOK
    <3>2. Current - 1 < Len(graph) /\ Current \in Nat
      BY <1>1, <2>1 DEF Ids
    <3>3. QED
      BY <1>1, <3>1, <3>2 DEF NoNode
  <2>3. Untaken = input .. Len(InputsOf(Current))
    BY <1>5 DEF Untaken
  <2>4. Untaken \subseteq DOMAIN InputsOf(Current) /\ IsFiniteSet(Untaken)
    <3>1. Untaken \subseteq DOMAIN InputsOf(Current)
      BY <2>1, <2>2, <2>3
    <3>2. IsFiniteSet(DOMAIN InputsOf(Current))
      BY <2>2, FS_Interval
    <3>3. QED
      BY <3>1, <3>2, FS_Subset
  <2>5. ASSUME NEW w, NEW k \in Untaken
        PROVE  /\ TakenWorth(w)[k] = inGrads[k] * D(InputsOf(Current)[k], w)
               /\ TakenWorth(w)[k] \in Int
    <3>1. k \in DOMAIN InputsOf(Current) /\ inGrads[k] \in Int
      BY <2>1, <2>2, <2>4
    <3>2. D(InputsOf(Current)[k], w) \in Int
      BY <2>2, <3>1, DerivativeIsInt
    <3>3. TakenWorth(w)[k] = inGrads[k] * D(InputsOf(Current)[k], w)
      BY <3>1 DEF TakenWorth
    <3>4. QED
      BY <3>1, <3>2, <3>3
  <2>6. QED
    BY <1>1, <1>2, <1>4, <2>4, <2>5
<1>6. CASE pc # "inputs"
  <2>1. Untaken = {}
    BY <1>6 DEF Untaken
  <2>2. QED
    BY <1>1, <1>2, <1>4, <2>1, FS_EmptySet
<1>7. QED
  BY <1>5, <1>6

\* One open node's share of the sum.
LEMMA OpenShare ==
    ASSUME TypeOK, pc \in Running, NEW w, NEW c \in OpenNodes
    PROVE  /\ SumFunctionOnSet(OpenWorth(w), OpenNodes) =
                 grads[c] * D(c, w) + SumFunctionOnSet(OpenWorth(w), OpenNodes \ {c})
           /\ SumFunctionOnSet(OpenWorth(w), OpenNodes \ {c}) \in Int
           /\ grads[c] \in Int /\ D(c, w) \in Int
<1> DEFINE f == OpenWorth(w)
<1>1. /\ \A i \in OpenNodes : f[i] \in Int
      /\ f[c] = grads[c] * D(c, w) /\ grads[c] \in Int /\ D(c, w) \in Int
      /\ IsFiniteSet(OpenNodes) /\ c \in Ids(graph)
  BY SweepFacts
<1>2. IsFiniteSet(OpenNodes \ {c})
  BY <1>1, FS_RemoveElement
<1>3. \A i \in OpenNodes \ {c} : f[i] \in Int
  BY <1>1
<1> HIDE DEF f
<1>4. SumFunctionOnSet(f, OpenNodes \ {c}) \in Int
  BY <1>2, <1>3, SumRemove
<1>5. SumFunctionOnSet(f, OpenNodes) = f[c] + SumFunctionOnSet(f, OpenNodes \ {c})
  BY <1>1, SumRemove
<1>6. QED
  BY <1>1, <1>4, <1>5 DEF f

\* The search is over: every node is open, and the root has the gradient 1.
LEMMA StartSweepBegins ==
    ASSUME TypeOK, TypeOK', OrderIsTopological', StartSweep
    PROVE  SweepInv'
<1>1. /\ graph' = graph /\ outputId' = outputId /\ pc' = "sweep" /\ pc = "dfs"
      /\ pos' = 1 /\ hasGrad' = {outputId}
      /\ grads' = [i \in Ids(graph) |-> IF i = outputId THEN 1 ELSE 0]
  BY DEF StartSweep, recorded
<1>2. outputId \in Ids(graph) /\ GraphOK /\ Len(graph) \in Nat
  BY <1>1 DEF TypeOK, DfsOK, GraphOK, Ids, NoNode
<1>3. Untaken' = {}
  BY <1>1 DEF Untaken
<1>4. OpenNodes' = Ids(graph)
  <2>1. \A i \in Ids(graph) : \E a \in DOMAIN order' : order'[a] = i
    BY <1>1 DEF OrderIsTopological, Running
  <2>2. \A a \in DOMAIN order' : a > 1 \/ a = 1
    <3>1. order' \in Seq(Ids(graph'))
      BY DEF TypeOK, DfsOK
    <3>2. QED
      BY <3>1
  <2>3. \A i \in Ids(graph) : \E a \in DOMAIN order' :
           order'[a] = i /\ (a > pos' \/ (a = pos' /\ pc' = "sweep"))
    BY <1>1, <2>1, <2>2
  <2>4. QED
    BY <1>1, <2>3 DEF OpenNodes, HasKernel
<1>5. ASSUME NEW w \in Ids(graph)
      PROVE  D(outputId, w) = SumFunctionOnSet(OpenWorth(w)', OpenNodes')
                                 + SumFunctionOnSet(TakenWorth(w)', Untaken')
  <2> DEFINE worth == [i \in Ids(graph) |-> grads'[i] * D(i, w)]
  <2>1. OpenWorth(w)' = worth
    BY <1>1 DEF OpenWorth, D, Flow
  <2>2. \A i \in Ids(graph) : D(i, w) \in Int
    BY <1>2, DerivativeIsInt DEF Ids, NoNode
  <2>3. \A i \in Ids(graph) : worth[i] = IF i = outputId THEN D(i, w) ELSE 0
    BY <1>1, <2>2
  <2>4. IsFiniteSet(Ids(graph))
    BY <1>2, FS_Interval DEF Ids
  <2> HIDE DEF worth
  <2>5. SumFunctionOnSet(worth, Ids(graph)) = D(outputId, w)
    <3>1. worth[outputId] = D(outputId, w) /\ worth[outputId] \in Int
      BY <1>2, <2>2, <2>3
    <3>2. \A i \in Ids(graph) \ {outputId} : worth[i] = 0
      BY <2>3
    <3>3. SumFunctionOnSet(worth, Ids(graph)) = worth[outputId]
      BY <1>2, <2>4, <3>1, <3>2, SumSingle
    <3>4. QED
      BY <3>1, <3>3
  <2>6. SumFunctionOnSet(TakenWorth(w)', {}) = 0
    BY SumEmpty
  <2>7. QED
    BY <1>2, <1>3, <1>4, <2>1, <2>2, <2>5, <2>6
<1>6. ChainRule'
  BY <1>1, <1>5 DEF ChainRule, D, Flow, HasKernel
<1>7. NoGradIsZero'
  BY <1>1 DEF NoGradIsZero
<1>8. OnlyReached'
  <2>1. Dep(outputId, outputId)
    BY <1>2, DependsEquation DEF Ids, NoNode
  <2>2. QED
    BY <1>1, <2>1 DEF OnlyReached, Dep, Flow
<1>9. AllReached'
  BY <1>1, <1>2, <1>4 DEF AllReached, Dep, Flow
<1>10. QED
  BY <1>6, <1>7, <1>8, <1>9 DEF SweepInv
\* The kernel of the current node hands its gradient to its inputs.
LEMMA KernelTakes ==
    ASSUME TypeOK, TypeOK', OrderIsTopological, SweepInv,
           AtKernel, inGrads' = KernelGrads(Current), input' = 1, pc' = "inputs",
           UNCHANGED <<graph, outputId, order, pos, hasGrad, grads>>
    PROVE  SweepInv'
<1> DEFINE c == Current
<1>1. /\ pc = "sweep" /\ pos <= Len(order) /\ c \in hasGrad /\ HasKernel(c)
      /\ c \in Ids(graph) /\ c = order[pos] /\ pos \in DOMAIN order
      /\ Current' = Current
  <2>1. pc = "sweep" /\ pos <= Len(order) /\ c \in hasGrad /\ HasKernel(c)
    BY DEF AtKernel
  <2>2. pos \in DOMAIN order
    BY <2>1, OrderFacts
  <2>3. QED
    BY <2>1, <2>2, OrderFacts DEF Current
<1>2. ChainRule /\ NoGradIsZero /\ OnlyReached /\ AllReached
  BY <1>1 DEF SweepInv, Running
<1>3. /\ Untaken = {} /\ Untaken' = 1 .. Len(InputsOf(c))
      /\ DOMAIN InputsOf(c) = 1 .. Len(InputsOf(c))
      /\ Len(InputsOf(c)) = Arity(graph[c].op) /\ IsFiniteSet(DOMAIN InputsOf(c))
      /\ \A k \in DOMAIN InputsOf(c) : InputsOf(c)[k] \in NoNode .. Len(graph)
      /\ \A k \in DOMAIN InputsOf(c) : Partial[graph[c].op][k] \in Int
  <2>1. Untaken = {} /\ Untaken' = 1 .. Len(InputsOf(c))
    BY <1>1 DEF Untaken, InputsOf
  <2>2. /\ InputsOf(c) \in Seq(NoNode .. c - 1)
        /\ \A k \in DOMAIN InputsOf(c) : InputsOf(c)[k] \in NoNode .. c - 1
        /\ Len(InputsOf(c)) = Arity(graph[c].op)
        /\ graph[c].op \in Ops
    BY <1>1, InputsAreEarlier DEF TypeOK, GraphOK
  <2>3. Partial[graph[c].op] \in Seq(Int)
    BY <2>2, OpsAssumption
  <2>4. \A k \in 1 .. Arity(graph[c].op) : Partial[graph[c].op][k] \in Int
    BY <2>3 DEF Arity
  <2>5. /\ DOMAIN InputsOf(c) = 1 .. Len(InputsOf(c)) /\ Len(InputsOf(c)) \in Nat
    BY <2>2
  <2>6. IsFiniteSet(DOMAIN InputsOf(c))
    BY <2>5, FS_Interval
  <2>7. c - 1 < Len(graph) /\ c \in Nat /\ Len(graph) \in Nat
    BY <1>1 DEF Ids, TypeOK, GraphOK
  <2>8. \A k \in DOMAIN InputsOf(c) : InputsOf(c)[k] \in NoNode .. Len(graph)
    BY <2>2, <2>7 DEF NoNode
  <2> HIDE DEF c
  <2>9. QED
    BY <2>1, <2>2, <2>4, <2>5, <2>6, <2>8
<1>4. c \in OpenNodes /\ OpenNodes' = OpenNodes \ {c}
  <2>1. c \in OpenNodes
    BY <1>1 DEF OpenNodes, HasKernel
  <2>2. \A a \in DOMAIN order : order[a] = c => a = pos
    BY <1>1 DEF OrderIsTopological, Running
  <2>3. \A i \in Ids(graph) \ {c} : \A a \in DOMAIN order : order[a] = i => a # pos
    BY <1>1
  <2>4. c \notin OpenNodes'
    <3>1. \A a \in DOMAIN order : order[a] = c => ~(a > pos)
      BY <2>2, OrderFacts
    <3>2. QED
      BY <1>1, <3>1 DEF OpenNodes, HasKernel
  <2>5. ASSUME NEW i \in Ids(graph), i # c PROVE i \in OpenNodes' <=> i \in OpenNodes
    BY <1>1, <2>3, <2>5 DEF OpenNodes, HasKernel
  <2>6. OpenNodes' \subseteq Ids(graph) /\ OpenNodes \subseteq Ids(graph)
    BY DEF OpenNodes, HasKernel
  <2> HIDE DEF c
  <2>7. QED
    BY <2>1, <2>4, <2>5, <2>6
<1>5. ASSUME NEW w \in Ids(graph), ~HasKernel(w)
      PROVE  D(outputId, w) = SumFunctionOnSet(OpenWorth(w)', OpenNodes')
                                 + SumFunctionOnSet(TakenWorth(w)', Untaken')
  <2> DEFINE f == OpenWorth(w)
             t == TakenWorth(w)'
             p == [k \in DOMAIN InputsOf(c) |->
                      Partial[graph[c].op][k] * D(InputsOf(c)[k], w)]
  <2>1. OpenWorth(w)' = f
    BY DEF OpenWorth, D, Flow
  <2>2. D(outputId, w) = SumFunctionOnSet(f, OpenNodes)
    <3>1. SumFunctionOnSet(TakenWorth(w), {}) = 0
      BY SumEmpty
    <3>2. SumFunctionOnSet(f, OpenNodes) \in Int
      BY <1>1, SweepFacts, SumRemove DEF Running
    <3>3. D(outputId, w) = SumFunctionOnSet(f, OpenNodes)
                              + SumFunctionOnSet(TakenWorth(w), Untaken)
      BY <1>2, <1>5 DEF ChainRule
    <3>4. Untaken = {}
      BY <1>3
    <3> HIDE DEF f
    <3>5. QED
      BY <3>1, <3>2, <3>3, <3>4
  <2>3. /\ SumFunctionOnSet(f, OpenNodes)
              = grads[c] * D(c, w) + SumFunctionOnSet(f, OpenNodes \ {c})
        /\ SumFunctionOnSet(f, OpenNodes \ {c}) \in Int
    BY <1>1, <1>4, OpenShare DEF Running
  <2>4. grads[c] \in Int /\ D(c, w) \in Int
    BY <1>1, SweepFacts DEF Running
  <2>5. \A k \in DOMAIN InputsOf(c) : p[k] \in Int /\ t[k] = grads[c] * p[k]
    <3>1. \A k \in DOMAIN InputsOf(c) : D(InputsOf(c)[k], w) \in Int
      BY <1>3, DerivativeIsInt
    <3>2. ASSUME NEW k \in DOMAIN InputsOf(c)
          PROVE  t[k] = (Partial[graph[c].op][k] * grads[c]) * D(InputsOf(c)[k], w)
      <4>1. inGrads'[k] = Partial[graph[c].op][k] * grads[c]
        BY <1>3 DEF KernelGrads
      <4>2. t = [j \in DOMAIN InputsOf(c) |-> inGrads'[j] * D(InputsOf(c)[j], w)]
        BY <1>1 DEF TakenWorth, InputsOf, D, Flow
      <4> HIDE DEF t
      <4>3. QED
        BY <4>1, <4>2
    <3>3. ASSUME NEW k \in DOMAIN InputsOf(c)
          PROVE  p[k] \in Int /\ t[k] = grads[c] * p[k]
      <4> DEFINE q == Partial[graph[c].op][k]
                 g == grads[c]
                 d == D(InputsOf(c)[k], w)
      <4>1. q \in Int /\ g \in Int /\ d \in Int
        BY <1>3, <2>4, <3>1
      <4>2. p[k] = q * d /\ t[k] = (q * g) * d
        BY <3>2
      <4> HIDE DEF c, t, p, q, g, d
      <4>3. (q * g) * d = g * (q * d) /\ q * d \in Int
        BY <4>1
      <4>4. QED
        BY <4>2, <4>3 DEF g
    <3>4. QED
      BY <3>3
  <2>6. D(c, w) = SumFunctionOnSet(p, DOMAIN InputsOf(c))
    <3>1. c # w /\ c # NoNode /\ c \in NoNode .. Len(graph)
      BY <1>1, <1>5 DEF Ids, NoNode, TypeOK, GraphOK
    <3>2. QED
      BY <1>1, <3>1, DerivativeEquation DEF TypeOK
  <2>7. SumFunctionOnSet(t, DOMAIN InputsOf(c)) = grads[c] * D(c, w)
    <3>1. IsFiniteSet(DOMAIN InputsOf(c)) /\ grads[c] \in Int
      BY <1>3, <2>4
    <3> HIDE DEF t, p, c
    <3>2. SumFunctionOnSet(t, DOMAIN InputsOf(c))
          = grads[c] * SumFunctionOnSet(p, DOMAIN InputsOf(c))
      BY <2>5, <3>1, SumTimes
    <3>3. QED
      BY <2>6, <3>2
  <2>8. grads[c] * D(c, w) \in Int
    BY <2>4
  <2>9. Untaken' = DOMAIN InputsOf(c)
    BY <1>3
  <2> HIDE DEF f, t, c
  <2>10. QED
    BY <1>4, <2>1, <2>2, <2>3, <2>7, <2>8, <2>9 DEF t
<1>6. ChainRule'
  BY <1>5 DEF ChainRule, D, Flow, HasKernel
<1>7. NoGradIsZero' /\ OnlyReached'
  BY <1>2 DEF NoGradIsZero, OnlyReached, Dep, Flow
<1>8. ASSUME NEW w \in Ids(graph), Dep(outputId, w), w \notin hasGrad
      PROVE  \/ \E i \in OpenNodes' \cap hasGrad : Dep(i, w)
             \/ \E k \in Untaken' : Dep(InputsOf(c)[k], w)
  <2>1. Untaken = {}
    BY <1>3
  <2>2. PICK i \in OpenNodes \cap hasGrad : Dep(i, w)
    BY <1>2, <1>8, <2>1 DEF AllReached, Dep, Flow
  <2>3. CASE i = c
    <3>1. c \in NoNode .. Len(graph) /\ GraphOK
      BY <1>1, SweepFacts DEF Running
    <3>2. c # w /\ Dep(c, w)
      BY <1>1, <1>8, <2>2, <2>3
    <3> HIDE DEF c
    <3>3. \E k \in DOMAIN InputsOf(c) : Dep(InputsOf(c)[k], w)
      BY <3>1, <3>2, DependsEquation
    <3>4. QED
      BY <1>3, <3>3
  <2>4. CASE i # c
    BY <1>4, <2>2, <2>4
  <2>5. QED
    BY <2>3, <2>4
<1>9. AllReached'
  <2>1. InputsOf(Current)' = InputsOf(c)
    BY <1>1 DEF InputsOf
  <2>2. QED
    BY <1>8, <2>1 DEF AllReached, Dep, Flow
<1>10. QED
  BY <1>6, <1>7, <1>9 DEF SweepInv

\* The sweep passes over a node without a kernel, which keeps its gradient, and over a node
\* that was given none.
LEMMA SkipKeeps ==
    ASSUME TypeOK, TypeOK', OrderIsTopological, SweepInv, SweepSkip
    PROVE  SweepInv'
<1> DEFINE c == Current
<1>1. /\ pc = "sweep" /\ pc' = "sweep" /\ pos' = pos + 1 /\ pos \in DOMAIN order
      /\ c \in Ids(graph) /\ c = order[pos]
      /\ c \notin hasGrad \/ ~HasKernel(c)
      /\ UNCHANGED <<graph, outputId, order, hasGrad, grads>>
  <2>1. pos <= Len(order) /\ (c \notin hasGrad \/ ~HasKernel(c))
    BY DEF SweepSkip
  <2>2. pos \in DOMAIN order
    BY <2>1, OrderFacts
  <2>3. QED
    BY <2>1, <2>2, OrderFacts DEF SweepSkip, Current, recorded
<1>2. ChainRule /\ NoGradIsZero /\ OnlyReached /\ AllReached
  BY <1>1 DEF SweepInv, Running
<1>3. Untaken = {} /\ Untaken' = {}
  BY <1>1 DEF Untaken
<1>4. /\ OpenNodes' \subseteq OpenNodes
      /\ \A i \in OpenNodes \ OpenNodes' : i \notin hasGrad
      /\ OpenNodes' = OpenNodes \/ (c \in OpenNodes /\ OpenNodes' = OpenNodes \ {c})
  <2>1. \A a \in DOMAIN order : order[a] = c => a = pos
    BY <1>1 DEF OrderIsTopological, Running
  <2>2. \A a \in DOMAIN order : (a > pos' \/ a = pos') <=> (a > pos \/ a = pos) /\ a # pos
    BY <1>1, OrderFacts
  <2>3. ASSUME NEW i \in Ids(graph), i # c PROVE i \in OpenNodes' <=> i \in OpenNodes
    <3>1. \A a \in DOMAIN order : order[a] = i => a # pos
      BY <1>1, <2>3
    <3>2. QED
      BY <1>1, <2>2, <3>1 DEF OpenNodes, HasKernel
  <2>4. c \in OpenNodes
    BY <1>1 DEF OpenNodes, HasKernel
  <2>5. c \in OpenNodes' <=> ~HasKernel(c)
    BY <1>1, <2>1, <2>2 DEF OpenNodes, HasKernel
  <2>6. OpenNodes' \subseteq Ids(graph) /\ OpenNodes \subseteq Ids(graph)
    BY <1>1 DEF OpenNodes, HasKernel
  <2> HIDE DEF c
  <2>7. QED
    BY <1>1, <2>3, <2>4, <2>5, <2>6
<1>5. ASSUME NEW w \in Ids(graph), ~HasKernel(w)
      PROVE  D(outputId, w) = SumFunctionOnSet(OpenWorth(w)', OpenNodes')
                                 + SumFunctionOnSet(TakenWorth(w)', Untaken')
  <2> DEFINE f == OpenWorth(w)
  <2>1. OpenWorth(w)' = f
    BY <1>1 DEF OpenWorth, D, Flow
  <2>2. /\ SumFunctionOnSet(TakenWorth(w), {}) = 0
        /\ SumFunctionOnSet(TakenWorth(w)', {}) = 0
    BY SumEmpty
  <2>3. D(outputId, w) = SumFunctionOnSet(f, OpenNodes)
                            + SumFunctionOnSet(TakenWorth(w), Untaken)
    BY <1>2, <1>5 DEF ChainRule
  <2>4. SumFunctionOnSet(f, OpenNodes') = SumFunctionOnSet(f, OpenNodes)
    <3>1. CASE OpenNodes' = OpenNodes
      BY <3>1
    <3>2. CASE OpenNodes' # OpenNodes
      <4>1. c \in OpenNodes /\ OpenNodes' = OpenNodes \ {c} /\ c \notin hasGrad
        BY <1>4, <3>2
      <4>2. /\ SumFunctionOnSet(f, OpenNodes)
                  = grads[c] * D(c, w) + SumFunctionOnSet(f, OpenNodes \ {c})
            /\ SumFunctionOnSet(f, OpenNodes \ {c}) \in Int
            /\ D(c, w) \in Int
        BY <1>1, <4>1, OpenShare DEF Running
      <4>3. grads[c] = 0
        BY <1>1, <1>2, <4>1 DEF NoGradIsZero
      <4>4. 0 * D(c, w) = 0
        BY <4>2
      <4> HIDE DEF f, c
      <4>5. QED
        BY <4>1, <4>2, <4>3, <4>4
    <3>3. QED
      BY <3>1, <3>2
  <2> HIDE DEF f
  <2>5. QED
    BY <1>3, <2>1, <2>2, <2>3, <2>4
<1>6. ChainRule'
  BY <1>1, <1>5 DEF ChainRule, D, Flow, HasKernel
<1>7. NoGradIsZero' /\ OnlyReached'
  BY <1>1, <1>2 DEF NoGradIsZero, OnlyReached, Dep, Flow
<1>8. AllReached'
  <2> SUFFICES ASSUME NEW w \in Ids(graph), Dep(outputId, w),
                      w \notin hasGrad
               PROVE  \E i \in OpenNodes' \cap hasGrad : Dep(i, w)
    BY <1>1 DEF AllReached, Dep, Flow
  <2>1. PICK i \in OpenNodes \cap hasGrad : Dep(i, w)
    BY <1>2, <1>3 DEF AllReached, Dep, Flow
  <2>2. QED
    BY <1>4, <2>1
<1>9. QED
  BY <1>6, <1>7, <1>8 DEF SweepInv

-----------------------------------------------------------------------------
\* The inputs of the current node take their gradients one after the other.
LEMMA TakeOne ==
    ASSUME TypeOK, OrderIsTopological, SweepInv, pc = "inputs",
           input <= Len(InputsOf(Current)), NEW w \in Ids(graph), ~HasKernel(w)
    PROVE  /\ input \in Untaken /\ Untaken \ {input} = input + 1 .. Len(InputsOf(Current))
           /\ SumFunctionOnSet(OpenWorth(w), OpenNodes) \in Int
           /\ SumFunctionOnSet(TakenWorth(w), Untaken \ {input}) \in Int
           /\ inGrads[input] \in Int
           /\ D(InputsOf(Current)[input], w) \in Int
           /\ D(outputId, w) = SumFunctionOnSet(OpenWorth(w), OpenNodes)
                 + (inGrads[input] * D(InputsOf(Current)[input], w)
                       + SumFunctionOnSet(TakenWorth(w), Untaken \ {input}))
<1>1. pc \in Running /\ input \in Nat /\ Len(InputsOf(Current)) \in Nat
  <2>1. InputsOf(Current) \in Seq(NoNode..(Current - 1))
    BY CurrentNode DEF TypeOK, PassOK
  <2>2. QED
    BY <2>1 DEF Running, TypeOK, PassOK
<1>2. /\ Untaken = input .. Len(InputsOf(Current))
      /\ input \in Untaken
      /\ Untaken \ {input} = input + 1 .. Len(InputsOf(Current))
  BY <1>1 DEF Untaken
<1>3. IsFiniteSet(Untaken) /\ IsFiniteSet(OpenNodes)
  BY <1>1, SweepFacts
<1>4. SumFunctionOnSet(OpenWorth(w), OpenNodes) \in Int
  <2>1. \A i \in OpenNodes : OpenWorth(w)[i] \in Int
    BY <1>1, SweepFacts
  <2>2. QED
    BY <1>3, <2>1, SumRemove
<1>5. /\ SumFunctionOnSet(TakenWorth(w), Untaken) =
            TakenWorth(w)[input] + SumFunctionOnSet(TakenWorth(w), Untaken \ {input})
      /\ SumFunctionOnSet(TakenWorth(w), Untaken \ {input}) \in Int
  <2>1. \A k \in Untaken : TakenWorth(w)[k] \in Int
    BY <1>1, SweepFacts
  <2>2. IsFiniteSet(Untaken \ {input})
    BY <1>3, FS_RemoveElement
  <2>3. QED
    BY <1>2, <1>3, <2>1, <2>2, SumRemove
<1>6. TakenWorth(w)[input] = inGrads[input] * D(InputsOf(Current)[input], w)
  BY <1>1, <1>2, SweepFacts
<1>7. inGrads[input] \in Int /\ D(InputsOf(Current)[input], w) \in Int
  <2>1. inGrads \in Seq(Int) /\ input \in 1 .. Len(inGrads)
    BY <1>1 DEF TypeOK, PassOK
  <2>2. InputsOf(Current)[input] \in NoNode .. Len(graph)
    <3>1. /\ Current \in Ids(graph)
          /\ \A k \in DOMAIN InputsOf(Current) :
                InputsOf(Current)[k] \in NoNode..(Current - 1)
      BY CurrentNode DEF TypeOK, PassOK
    <3>2. input \in DOMAIN InputsOf(Current)
      BY <1>1, <1>2, SweepFacts
    <3>3. QED
      BY <3>1, <3>2 DEF Ids, NoNode
  <2>3. QED
    BY <2>1, <2>2, DerivativeIsInt
<1>8. ChainRule
  BY <1>1 DEF SweepInv
<1>9. D(outputId, w) = SumFunctionOnSet(OpenWorth(w), OpenNodes)
                          + SumFunctionOnSet(TakenWorth(w), Untaken)
  BY <1>8 DEF ChainRule
<1>10. QED
  BY <1>2, <1>4, <1>5, <1>6, <1>7, <1>9

\* A missing input takes its gradient nowhere: it is a constant.
LEMMA SkipInputKeeps ==
    ASSUME TypeOK, TypeOK', OrderIsTopological, SweepInv, SkipInput
    PROVE  SweepInv'
<1>1. /\ pc = "inputs" /\ pc' = "inputs" /\ input' = input + 1
      /\ input <= Len(InputsOf(Current)) /\ InputsOf(Current)[input] = NoNode
      /\ UNCHANGED <<graph, outputId, order, pos, hasGrad, grads, inGrads>>
  BY DEF SkipInput, recorded
<1>2. Current' = Current /\ OpenNodes' = OpenNodes
      /\ InputsOf(Current)' = InputsOf(Current)
  BY <1>1 DEF Current, OpenNodes, HasKernel, InputsOf
<1>3. ChainRule /\ NoGradIsZero /\ OnlyReached /\ AllReached
  BY <1>1 DEF SweepInv, Running
<1>4. Untaken' = input + 1 .. Len(InputsOf(Current))
  BY <1>1, <1>2 DEF Untaken
<1>5. ASSUME NEW w \in Ids(graph), ~HasKernel(w)
      PROVE  D(outputId, w) = SumFunctionOnSet(OpenWorth(w)', OpenNodes')
                                 + SumFunctionOnSet(TakenWorth(w)', Untaken')
  <2>1. OpenWorth(w)' = OpenWorth(w)
    BY <1>1 DEF OpenWorth, D, Flow
  <2>2. TakenWorth(w)' = TakenWorth(w)
    BY <1>1, <1>2 DEF TakenWorth, D, Flow
  <2>3. D(InputsOf(Current)[input], w) = 0
    BY <1>1, NothingBehind
  <2> DEFINE open == SumFunctionOnSet(OpenWorth(w), OpenNodes)
             todo == SumFunctionOnSet(TakenWorth(w), Untaken \ {input})
  <2>4. /\ Untaken \ {input} = input + 1 .. Len(InputsOf(Current))
        /\ open \in Int /\ todo \in Int /\ inGrads[input] \in Int
        /\ D(outputId, w) = open + (inGrads[input] * 0 + todo)
    BY <1>1, <1>5, <2>3, TakeOne
  <2>5. /\ SumFunctionOnSet(OpenWorth(w)', OpenNodes') = open
        /\ SumFunctionOnSet(TakenWorth(w)', Untaken') = todo
    BY <1>2, <1>4, <2>1, <2>2, <2>4
  <2> HIDE DEF open, todo
  <2>6. QED
    BY <2>4, <2>5
<1>6. ChainRule'
  BY <1>1, <1>5 DEF ChainRule, D, Flow, HasKernel
<1>7. NoGradIsZero' /\ OnlyReached'
  BY <1>1, <1>3 DEF NoGradIsZero, OnlyReached, Dep, Flow
<1>8. AllReached'
  <2> SUFFICES ASSUME NEW w \in Ids(graph), Dep(outputId, w),
                      w \notin hasGrad,
                      ~ \E i \in OpenNodes \cap hasGrad : Dep(i, w)
               PROVE  \E k \in Untaken' : Dep(InputsOf(Current)[k], w)
    BY <1>1, <1>2 DEF AllReached, Dep, Flow
  <2>1. PICK k \in Untaken : Dep(InputsOf(Current)[k], w)
    BY <1>3 DEF AllReached, Dep, Flow
  <2>2. k # input
    BY <1>1, <2>1, NothingBehind
  <2>3. input \in Nat /\ Len(InputsOf(Current)) \in Nat
    <3>1. InputsOf(Current) \in Seq(NoNode..(Current - 1))
      BY <1>1, CurrentNode DEF TypeOK, PassOK
    <3>2. QED
      BY <3>1 DEF TypeOK, PassOK
  <2>4. Untaken = input .. Len(InputsOf(Current))
    BY <1>1 DEF Untaken
  <2>5. k \in Untaken'
    BY <1>4, <2>1, <2>2, <2>3, <2>4
  <2>6. QED
    BY <2>1, <2>5
<1>9. QED
  BY <1>6, <1>7, <1>8 DEF SweepInv

\* An input that is a node adds its gradient to what it was given before.
LEMMA AccumulateKeeps ==
    ASSUME TypeOK, TypeOK', OrderIsTopological, SweepInv, AccumulateInput
    PROVE  SweepInv'
<1> DEFINE p == InputsOf(Current)[input]
<1>1. /\ pc = "inputs" /\ pc' = "inputs" /\ input' = input + 1
      /\ input <= Len(InputsOf(Current)) /\ hasGrad' = hasGrad \cup {p}
      /\ grads' = [grads EXCEPT ![p] = @ + inGrads[input]]
      /\ UNCHANGED <<graph, outputId, order, pos, inGrads>>
  BY DEF AccumulateInput, AddTo
<1>2. Current' = Current /\ OpenNodes' = OpenNodes
      /\ InputsOf(Current)' = InputsOf(Current)
  BY <1>1 DEF Current, OpenNodes, HasKernel, InputsOf
<1>3. ChainRule /\ NoGradIsZero /\ OnlyReached /\ AllReached
  BY <1>1 DEF SweepInv, Running
<1>4. Untaken' = input + 1 .. Len(InputsOf(Current))
  BY <1>1, <1>2 DEF Untaken
<1>5. /\ Current \in Ids(graph) /\ input \in DOMAIN InputsOf(Current)
      /\ p \in OpenNodes /\ p \in Ids(graph)
  <2>1. /\ Current \in Ids(graph) /\ input \in DOMAIN InputsOf(Current)
        /\ p \in Ids(graph)
        /\ \A a \in DOMAIN order : order[a] = p => pos < a
    BY InputComesLater
  <2>2. \E a \in DOMAIN order : order[a] = p
    BY <1>1, <2>1 DEF OrderIsTopological, Running
  <2>3. \E a \in DOMAIN order : order[a] = p /\ a > pos
    BY <2>1, <2>2, OrderFacts
  <2>4. QED
    BY <2>1, <2>3 DEF OpenNodes, HasKernel
<1>6. ASSUME NEW w \in Ids(graph), ~HasKernel(w)
      PROVE  D(outputId, w) = SumFunctionOnSet(OpenWorth(w)', OpenNodes')
                                 + SumFunctionOnSet(TakenWorth(w)', Untaken')
  <2> DEFINE f == OpenWorth(w)
             g == OpenWorth(w)'
             d == D(p, w)
             rest == SumFunctionOnSet(f, OpenNodes \ {p})
             todo == SumFunctionOnSet(TakenWorth(w), Untaken \ {input})
  <2>1. \A i \in Ids(graph) : f[i] = grads[i] * D(i, w) /\ f[i] \in Int
                              /\ grads[i] \in Int /\ D(i, w) \in Int
    BY <1>1, SweepFacts DEF Running
  <2>2. \A i \in Ids(graph) : g[i] = grads'[i] * D(i, w)
    BY <1>1 DEF OpenWorth, D, Flow
  <2>3. g[p] = (grads[p] + inGrads[input]) * d /\ f[p] = grads[p] * d
        /\ \A i \in OpenNodes \ {p} : g[i] = f[i]
    <3>1. /\ grads'[p] = grads[p] + inGrads[input]
          /\ \A i \in Ids(graph) \ {p} : grads'[i] = grads[i]
      <4>1. grads \in [Ids(graph) -> Int]
        BY <1>1 DEF TypeOK, PassOK, Running
      <4> HIDE DEF p
      <4>2. QED
        BY <1>1, <1>5, <4>1
    <3> HIDE DEF f, g
    <3>2. QED
      BY <1>5, <2>1, <2>2, <3>1 DEF OpenNodes, HasKernel
  <2>4. IsFiniteSet(OpenNodes) /\ IsFiniteSet(OpenNodes \ {p})
        /\ OpenNodes \subseteq Ids(graph)
    BY <1>1, SweepFacts, FS_RemoveElement DEF Running
  <2>5. /\ inGrads[input] \in Int /\ grads[p] \in Int /\ d \in Int
        /\ todo \in Int
        /\ D(outputId, w) = SumFunctionOnSet(f, OpenNodes) + (inGrads[input] * d + todo)
        /\ Untaken \ {input} = input + 1 .. Len(InputsOf(Current))
    BY <1>1, <1>5, <1>6, <2>1, TakeOne
  <2> HIDE DEF f, g, d, p
  <2>6. SumFunctionOnSet(f, OpenNodes) = grads[p] * d + rest /\ rest \in Int
    BY <1>1, <1>5, OpenShare DEF f, d, Running
  <2>7. SumFunctionOnSet(g, OpenNodes) = (grads[p] + inGrads[input]) * d + rest
    <3>1. SumFunctionOnSet(g, OpenNodes \ {p}) = rest
      BY <2>3, <2>4, SumEqual
    <3>2. \A i \in OpenNodes : g[i] \in Int
      <4>1. g[p] \in Int
        BY <2>3, <2>5
      <4>2. \A i \in OpenNodes \ {p} : g[i] \in Int
        BY <2>1, <2>3, <2>4
      <4>3. QED
        BY <4>1, <4>2
    <3>3. SumFunctionOnSet(g, OpenNodes) = g[p] + SumFunctionOnSet(g, OpenNodes \ {p})
      BY <1>5, <2>4, <3>2, SumRemove
    <3>4. QED
      BY <2>3, <3>1, <3>3
  <2>8. (grads[p] + inGrads[input]) * d = grads[p] * d + inGrads[input] * d
    BY <2>5
  <2>9. grads[p] * d \in Int /\ inGrads[input] * d \in Int
    BY <2>5
  <2>10. TakenWorth(w)' = TakenWorth(w)
    BY <1>1, <1>2 DEF TakenWorth, D, Flow
  <2> DEFINE x == grads[p] * d
             y == inGrads[input] * d
  <2>11. D(outputId, w) = (x + rest) + (y + todo)
         /\ SumFunctionOnSet(g, OpenNodes) = (x + y) + rest
    BY <2>5, <2>6, <2>7, <2>8
  <2>12. SumFunctionOnSet(TakenWorth(w)', Untaken') = todo
    BY <1>4, <2>5, <2>10
  <2>13. D(outputId, w) = SumFunctionOnSet(g, OpenNodes) + todo
    <3>1. x \in Int /\ y \in Int /\ todo \in Int /\ rest \in Int
      BY <2>5, <2>6, <2>9
    <3> HIDE DEF x, y, todo, rest
    <3>2. QED
      BY <2>11, <3>1
  <2>14. QED
    BY <1>2, <2>12, <2>13 DEF g
<1>7. ChainRule'
  BY <1>1, <1>6 DEF ChainRule, D, Flow, HasKernel
<1>8. NoGradIsZero'
  <2>1. \A i \in Ids(graph) \ hasGrad' : grads'[i] = grads[i]
    <3>1. grads \in [Ids(graph) -> Int]
      BY <1>1 DEF TypeOK, PassOK, Running
    <3> HIDE DEF p
    <3>2. QED
      BY <1>1, <3>1
  <2>2. QED
    BY <1>1, <1>3, <2>1 DEF NoGradIsZero
<1>9. OnlyReached'
  <2>1. Dep(outputId, Current) /\ HasKernel(Current)
    BY <1>1, <1>3 DEF OnlyReached, TypeOK, PassOK
  <2>2. outputId \in NoNode .. Len(graph)
    BY DEF TypeOK, GraphOK
  <2>3. Dep(outputId, p)
    BY <1>5, <2>1, <2>2, DependsOnInputs
  <2> HIDE DEF p
  <2>4. QED
    BY <1>1, <1>3, <2>3 DEF OnlyReached, Dep, Flow
<1>10. AllReached'
  <2> SUFFICES ASSUME NEW w \in Ids(graph), Dep(outputId, w),
                      w \notin hasGrad',
                      ~ \E i \in OpenNodes \cap hasGrad' : Dep(i, w)
               PROVE  \E k \in Untaken' : Dep(InputsOf(Current)[k], w)
    BY <1>1, <1>2 DEF AllReached, Dep, Flow
  <2>1. PICK k \in Untaken : Dep(InputsOf(Current)[k], w)
    BY <1>1, <1>3 DEF AllReached, Dep, Flow
  <2>2. k # input
    BY <1>1, <1>5, <2>1
  <2>3. input \in Nat /\ Len(InputsOf(Current)) \in Nat
    <3>1. InputsOf(Current) \in Seq(NoNode..(Current - 1))
      BY <1>1, CurrentNode DEF TypeOK, PassOK
    <3>2. QED
      BY <3>1 DEF TypeOK, PassOK
  <2>4. Untaken = input .. Len(InputsOf(Current))
    BY <1>1 DEF Untaken
  <2>5. k \in Untaken'
    BY <1>4, <2>1, <2>2, <2>3, <2>4
  <2>6. QED
    BY <2>1, <2>5
<1>11. QED
  BY <1>7, <1>8, <1>9, <1>10 DEF SweepInv

\* All inputs have taken theirs.
LEMMA NodeDoneKeeps ==
    ASSUME TypeOK, TypeOK', OrderIsTopological, SweepInv, NodeDone
    PROVE  SweepInv'
<1>1. /\ pc = "inputs" /\ pc' = "sweep" /\ pos' = pos + 1
      /\ input > Len(InputsOf(Current))
      /\ UNCHANGED <<graph, outputId, order, hasGrad, grads>>
  BY DEF NodeDone
<1>2. ChainRule /\ NoGradIsZero /\ OnlyReached /\ AllReached
  BY <1>1 DEF SweepInv, Running
<1>3. Untaken = {} /\ Untaken' = {}
  <2>1. InputsOf(Current) \in Seq(NoNode..(Current - 1))
    BY <1>1, CurrentNode DEF TypeOK, PassOK
  <2>2. input \in Nat /\ Len(InputsOf(Current)) \in Nat
    BY <2>1 DEF TypeOK, PassOK
  <2>3. QED
    BY <1>1, <2>2 DEF Untaken
<1>4. OpenNodes' = OpenNodes
  <2>1. \A a \in DOMAIN order : (a > pos' \/ a = pos') <=> a > pos
    BY <1>1, OrderFacts
  <2>2. QED
    BY <1>1, <2>1 DEF OpenNodes, HasKernel
<1>5. ASSUME NEW w \in Ids(graph), ~HasKernel(w)
      PROVE  D(outputId, w) = SumFunctionOnSet(OpenWorth(w)', OpenNodes')
                                 + SumFunctionOnSet(TakenWorth(w)', Untaken')
  <2>1. OpenWorth(w)' = OpenWorth(w)
    BY <1>1 DEF OpenWorth, D, Flow
  <2>2. /\ SumFunctionOnSet(TakenWorth(w), {}) = 0
        /\ SumFunctionOnSet(TakenWorth(w)', {}) = 0
    BY SumEmpty
  <2>3. D(outputId, w) = SumFunctionOnSet(OpenWorth(w), OpenNodes)
                            + SumFunctionOnSet(TakenWorth(w), Untaken)
    BY <1>2, <1>5 DEF ChainRule
  <2>4. QED
    BY <1>3, <1>4, <2>1, <2>2, <2>3
<1>6. ChainRule'
  BY <1>1, <1>5 DEF ChainRule, D, Flow, HasKernel
<1>7. NoGradIsZero' /\ OnlyReached'
  BY <1>1, <1>2 DEF NoGradIsZero, OnlyReached, Dep, Flow
<1>8. AllReached'
  BY <1>1, <1>2, <1>3, <1>4 DEF AllReached, Dep, Flow
<1>9. QED
  BY <1>6, <1>7, <1>8 DEF SweepInv

-----------------------------------------------------------------------------
\* No kernel reads cached outputs, or what it reads of a cleared vector ends
\* the process: whatever a destroyed tensor holds, no kernel computes with it.
NoStaleReads == Garbage = {} \/ ReadsOutputs = {}

\* In the first call of backward the outputs are still there in any case.
FirstOrNoStaleReads == NoStaleReads \/ calls <= 1

LEMMA SweepKept ==
    ASSUME TypeOK, TypeOK', OrderIsTopological, OrderIsTopological', CacheInv,
           SweepInv, FirstOrNoStaleReads, [Next]_vars
    PROVE  SweepInv'
<1>1. CASE StartSweep
  BY <1>1, StartSweepBegins
<1>2. CASE RunKernel
  BY <1>2, KernelTakes DEF RunKernel, recorded
<1>3. CASE RunKernelOnReleased
  <2> SUFFICES ASSUME pc' \in Running PROVE SweepInv'
    BY DEF SweepInv
  <2>1. /\ AtKernel /\ ~CachesLive(Current)
        /\ inGrads' \in [1..Arity(graph[Current].op) -> Garbage]
        /\ input' = 1 /\ pc' = "inputs"
        /\ UNCHANGED <<graph, outputId, order, pos, hasGrad, grads>>
    BY <1>3 DEF RunKernelOnReleased, Running, recorded
  <2>2. Current \in Ids(graph) /\ Arity(graph[Current].op) \in Nat
    <3>1. pos <= Len(order) /\ HasKernel(Current)
      BY <2>1 DEF AtKernel
    <3>2. /\ Current \in Ids(graph) /\ Partial[graph[Current].op] \in Seq(Int)
      BY <3>1, CurrentNode DEF TypeOK
    <3>3. QED
      BY <3>2 DEF Arity
  <2>3. /\ ReadsOutputs # {} /\ Current \notin outCached
        /\ Current \in KernelNodes
    BY <2>1, <2>2 DEF AtKernel, CachesLive, CacheInv, KernelNodes, ReadNodes
  <2>4. Arity(graph[Current].op) = 0
    <3>1. Garbage = {}
      <4>1. pc = "sweep" /\ pos \in DOMAIN order /\ pos <= pos /\ calls \in Nat
        BY <2>1, OrderFacts DEF AtKernel, TypeOK
      <4>2. ~(calls <= 1)
        BY <2>3, <4>1 DEF CacheInv, Running, Current
      <4>3. QED
        BY <2>3, <4>2 DEF FirstOrNoStaleReads, NoStaleReads
    <3>2. 1..Arity(graph[Current].op) = {}
      BY <2>1, <3>1
    <3>3. QED
      BY <2>2, <3>2
  <2>5. inGrads' = KernelGrads(Current)
    <3>1. 1..Arity(graph[Current].op) = {}
      BY <2>4
    <3>2. QED
      BY <2>1, <3>1 DEF KernelGrads
  <2>6. QED
    BY <2>1, <2>5, KernelTakes
<1>4. CASE SweepSkip
  BY <1>4, SkipKeeps
<1>5. CASE SkipInput
  BY <1>5, SkipInputKeeps
<1>6. CASE AccumulateInput
  BY <1>6, AccumulateKeeps
<1>7. CASE NodeDone
  BY <1>7, NodeDoneKeeps
<1>8. CASE CopyToLeaves
  BY <1>8 DEF CopyToLeaves, LocalsGone, SweepInv, Running
<1>9. CASE Next /\ ~Sweep
  BY <1>9, StartsOutside DEF SweepInv
<1>10. CASE UNCHANGED vars
  BY <1>10 DEF vars, recorded, passVars, SweepInv, ChainRule, NoGradIsZero,
               OnlyReached, AllReached, OpenWorth, TakenWorth, OpenNodes,
               Untaken, D, Dep, Flow, HasKernel, Current, InputsOf, Running
<1>11. QED
  BY <1>1, <1>2, <1>3, <1>4, <1>5, <1>6, <1>7, <1>8, <1>9, <1>10 DEF Sweep

\* At the end only nodes without a kernel are open, and each is worth something in itself
\* alone: its gradient is the derivative.
LEMMA EndOfSweep ==
    ASSUME TypeOK, SweepInv, pc = "sweep", pos > Len(order),
           NEW w \in Ids(graph), ~HasKernel(w)
    PROVE  /\ grads[w] = D(outputId, w)
           /\ w \in hasGrad <=> Dep(outputId, w)
<1>1. /\ ChainRule /\ OnlyReached /\ AllReached /\ Untaken = {} /\ pc \in Running
      /\ GraphOK
  BY DEF SweepInv, Running, Untaken, TypeOK
<1>2. OpenNodes = {i \in Ids(graph) : ~HasKernel(i)}
  <2>1. \A a \in DOMAIN order : ~(a > pos \/ a = pos)
    BY OrderFacts
  <2>2. QED
    BY <2>1 DEF OpenNodes, HasKernel
<1>3. \A i \in OpenNodes \ {w} : D(i, w) = 0 /\ ~Dep(i, w)
  BY <1>2, NothingBehind
<1>4. grads[w] = D(outputId, w)
  <2> DEFINE f == OpenWorth(w)
  <2>1. D(outputId, w) = SumFunctionOnSet(f, OpenNodes)
                            + SumFunctionOnSet(TakenWorth(w), {})
    BY <1>1 DEF ChainRule
  <2>2. SumFunctionOnSet(TakenWorth(w), {}) = 0
    BY SumEmpty
  <2>3. w \in OpenNodes /\ IsFiniteSet(OpenNodes)
    BY <1>1, <1>2, SweepFacts
  <2>4. D(w, w) = 1 /\ grads[w] \in Int
    BY <1>1, SweepFacts, NothingBehind
  <2>5. \A i \in OpenNodes : f[i] = grads[i] * D(i, w) /\ grads[i] \in Int
    BY <1>1, SweepFacts
  <2>6. \A i \in OpenNodes \ {w} : f[i] = 0
    BY <1>3, <2>5
  <2>7. f[w] = grads[w]
    BY <2>3, <2>4, <2>5
  <2> HIDE DEF f
  <2>8. SumFunctionOnSet(f, OpenNodes) = f[w]
    BY <2>3, <2>4, <2>6, <2>7, SumSingle
  <2>9. QED
    BY <2>1, <2>2, <2>4, <2>7, <2>8
<1>5. w \in hasGrad => Dep(outputId, w)
  BY <1>1 DEF OnlyReached, Dep, Flow
<1>6. Dep(outputId, w) => w \in hasGrad
  <2> SUFFICES ASSUME Dep(outputId, w), w \notin hasGrad PROVE FALSE
    OBVIOUS
  <2>1. PICK i \in OpenNodes \cap hasGrad : Dep(i, w)
    BY <1>1 DEF AllReached, Dep, Flow
  <2>2. QED
    BY <1>3, <2>1
<1>7. QED
  BY <1>4, <1>5, <1>6

-----------------------------------------------------------------------------
(* The refinement, step by step. *)

LEMMA InitIsInit == Init => Promise!Init
BY DEF Init, Promise!Init, Ended, Promise!NoNode, NoNode

LEMMA RecordIsRecord ==
    ASSUME Record
    PROVE  Promise!Record
<1>1. PICK node \in {ParamNode} \cup
                   UNION {{OpNode(op, ins) :
                             ins \in [1..Arity(op) -> NoNode..Len(graph)]} :
                          op \in Ops} : AddNode(node)
  BY DEF Record, RecordParam, RecordOp
<1>2. /\ pc = "idle" /\ pc' = "idle" /\ outputId' = outputId
      /\ graph' = Append(graph, node) /\ leafGrad' = Append(leafGrad, 0)
  BY <1>1 DEF AddNode
<1>3. node \in {Promise!ParamNode} \cup
               UNION {{Promise!OpNode(op, ins) :
                         ins \in [1..Promise!Arity(op) -> Promise!NoNode..Len(graph)]} :
                      op \in Ops}
  <2>1. CASE node = ParamNode
    BY <2>1 DEF ParamNode, Promise!ParamNode
  <2>2. ASSUME NEW op \in Ops, NEW ins \in [1..Arity(op) -> NoNode..Len(graph)],
               node = OpNode(op, ins)
        PROVE  node \in UNION {{Promise!OpNode(o, i) :
                         i \in [1..Promise!Arity(o) -> Promise!NoNode..Len(graph)]} :
                      o \in Ops}
    BY <2>2 DEF OpNode, Promise!OpNode, Arity, Promise!Arity, NoNode, Promise!NoNode
  <2>3. QED
    BY <1>1, <2>1, <2>2
<1>4. ~~Ended /\ UNCHANGED Ended
  BY <1>2 DEF Ended
<1>5. QED
  BY <1>2, <1>3, <1>4 DEF Promise!Record

LEMMA CallIsCall ==
    ASSUME NEW l \in NoNode..Len(graph), BackwardCall(l)
    PROVE  Promise!Call(l)
<1>1. ~~Ended /\ ~Ended'
  BY DEF BackwardCall, Ended
<1>2. outputId' = (IF outputId = NoNode THEN l ELSE outputId) /\ outputId' # NoNode
  BY DEF BackwardCall, OutputFor
<1>3. graph' = graph /\ leafGrad' = leafGrad
  BY DEF BackwardCall, recorded
<1>4. QED
  BY <1>1, <1>2, <1>3 DEF Promise!Call, Promise!NoNode, NoNode

LEMMA CopyIsReturn ==
    ASSUME TypeOK, CacheInv, SweepInv, CopyToLeaves
    PROVE  Promise!Return
<1>1. ~Ended /\ Ended'
  BY DEF CopyToLeaves, LocalsGone, Ended
<1>2. /\ pc = "sweep" /\ pos > Len(order) /\ graph' = graph /\ outputId' = outputId
      /\ leafGrad' = [i \in Ids(graph) |-> LeafGradAfter(i)]
  BY DEF CopyToLeaves
<1>3. ASSUME NEW i \in Ids(graph)
      PROVE  LeafGradAfter(i) = IF IsParam(graph, i) /\ Dep(outputId, i)
                                THEN D(outputId, i)
                                ELSE leafGrad[i]
  <2>1. CASE IsParam(graph, i)
    <3>1. i \in inCached /\ ~HasKernel(i)
      BY <2>1 DEF CacheInv, ReadNodes, HasKernel, IsParam
    <3>2. grads[i] = D(outputId, i) /\ (i \in hasGrad <=> Dep(outputId, i))
      BY <1>2, <3>1, EndOfSweep
    <3>3. QED
      BY <2>1, <3>1, <3>2 DEF LeafGradAfter
  <2>2. CASE ~IsParam(graph, i)
    BY <2>2 DEF LeafGradAfter
  <2>3. QED
    BY <2>1, <2>2
<1>4. ASSUME NEW g, NEW l, NEW i
      PROVE  /\ Promise!Ids(g) = Ids(g)
             /\ Promise!IsParam(g, i) = IsParam(g, i)
             /\ Promise!DependsOn(g, l, i) = DependsOn(g, l, i)
             /\ Promise!Derivative(g, l, i) = Derivative(g, l, i)
  BY Zenon DEF Promise!Ids, Ids, Promise!IsParam, IsParam, Promise!DependsOn,
         DependsOn, Promise!Derivative, Derivative, Promise!NoNode, NoNode,
         Promise!SumFunction, SumFunction, Promise!SumFunctionOnSet,
         SumFunctionOnSet, Promise!FoldFunctionOnSet, FoldFunctionOnSet,
         Promise!MapThenFoldSet, MapThenFoldSet
<1>5. Promise!Differentiable(graph) = Flow
  BY Zenon DEF Promise!Differentiable, Flow, Promise!Ids, Ids, Promise!ParamNode,
               ParamNode
<1>6. leafGrad' = [i \in Promise!Ids(graph) |->
          IF /\ Promise!IsParam(graph, i)
             /\ Promise!DependsOn(Promise!Differentiable(graph), outputId, i)
          THEN Promise!Derivative(Promise!Differentiable(graph), outputId, i)
          ELSE leafGrad[i]]
  BY <1>2, <1>3, <1>4, <1>5 DEF D, Dep
<1>7. QED
  BY <1>1, <1>2, <1>6 DEF Promise!Return

\* A kernel that throws, or a cleared vector that is read, ends a call.
LEMMA EndIsAbort ==
    ASSUME ~Ended, Ended', UNCHANGED <<graph, outputId, leafGrad>>
    PROVE  Promise!Abort
BY DEF Promise!Abort

\* All the rest is hidden from the user.
LEMMA RestIsHidden ==
    ASSUME pc' = pc \/ (~Ended /\ ~Ended'), UNCHANGED <<graph, outputId, leafGrad>>
    PROVE  UNCHANGED Promise!vars
BY DEF Promise!vars, Ended

LEMMA StepIsPromised ==
    ASSUME TypeOK, CacheInv, FirstOrNoStaleReads => SweepInv, FirstOrNoStaleReads,
           [Next]_vars
    PROVE  [Promise!Next]_(Promise!vars)
<1>1. CASE Record
  BY <1>1, RecordIsRecord DEF Promise!Next
<1>2. ASSUME NEW l \in NoNode..Len(graph), BackwardCall(l)
      PROVE  Promise!Next
  BY <1>2, CallIsCall DEF Promise!Next, Promise!NoNode, NoNode
<1>3. ASSUME NEW l \in NoNode..Len(graph), BackwardReturnsEarly(l)
      PROVE  UNCHANGED Promise!vars
  BY <1>3, RestIsHidden DEF BackwardReturnsEarly, recorded
<1>4. CASE Dfs
  <2>1. pc' = pc /\ UNCHANGED <<graph, outputId, leafGrad>>
    BY <1>4 DEF Dfs, DfsRoot, DfsSkip, DfsDescend, DfsFinish, recorded
  <2>2. QED
    BY <2>1, RestIsHidden
<1>5. CASE StartSweep \/ SweepSkip \/ RunKernel \/ SkipInput \/ AccumulateInput \/ NodeDone
  <2>1. ~Ended /\ ~Ended' /\ UNCHANGED <<graph, outputId, leafGrad>>
    BY <1>5 DEF StartSweep, SweepSkip, RunKernel, AtKernel, SkipInput,
                AccumulateInput, NodeDone, recorded, Ended
  <2>2. QED
    BY <2>1, RestIsHidden
<1>6. CASE RunKernelOnReleased
  <2>1. /\ pc = "sweep" /\ pc' \in {"crashed", "inputs"}
        /\ UNCHANGED <<graph, outputId, leafGrad>>
    BY <1>6 DEF RunKernelOnReleased, AtKernel, recorded
  <2>2. CASE pc' = "crashed"
    BY <2>1, <2>2, EndIsAbort DEF Ended, Promise!Next
  <2>3. CASE pc' = "inputs"
    BY <2>1, <2>3, RestIsHidden DEF Ended
  <2>4. QED
    BY <2>1, <2>2, <2>3
<1>7. CASE CopyToLeaves
  BY <1>7, CopyIsReturn DEF Promise!Next, CopyToLeaves, SweepInv
<1>8. CASE BackwardThrows
  <2>1. ~Ended /\ Ended' /\ UNCHANGED <<graph, outputId, leafGrad>>
    BY <1>8 DEF BackwardThrows, AtKernel, LocalsGone, Ended, recorded
  <2>2. QED
    BY <2>1, EndIsAbort DEF Promise!Next
<1>9. CASE UNCHANGED vars
  BY <1>9, RestIsHidden DEF vars, recorded
<1>10. QED
  BY <1>1, <1>2, <1>3, <1>4, <1>5, <1>6, <1>7, <1>8, <1>9 DEF Next, Sweep

CleanSweep == FirstOrNoStaleReads => SweepInv

LEMMA CleanSweepKept == Spec => []CleanSweep
<1>1. Init => CleanSweep
  BY DEF Init, CleanSweep, SweepInv, Running
<1>2. ASSUME TypeOK, TypeOK', OrderIsTopological, OrderIsTopological', CacheInv,
             CleanSweep, [Next]_vars
      PROVE  CleanSweep'
  <2> SUFFICES ASSUME FirstOrNoStaleReads' PROVE SweepInv'
    BY DEF CleanSweep
  <2>1. FirstOrNoStaleReads
    <3>1. calls \in Nat /\ (calls' = calls \/ calls' = calls + 1)
      BY <1>2 DEF TypeOK, Next, Record, RecordParam, RecordOp, AddNode,
                  BackwardReturnsEarly, BackwardCall, Dfs, DfsRoot, DfsSkip,
                  DfsDescend, DfsFinish, Sweep, StartSweep, SweepSkip, RunKernel,
                  RunKernelOnReleased, SkipInput, AccumulateInput, NodeDone,
                  CopyToLeaves, BackwardThrows, vars
    <3>2. QED
      BY <3>1 DEF FirstOrNoStaleReads, NoStaleReads
  <2>2. QED
    BY <1>2, <2>1, SweepKept DEF CleanSweep
<1>3. QED
  BY <1>1, <1>2, TypeCorrect, OrderCorrect, CachesKept, PTL DEF Spec

\* The engine keeps its promise: after every call of backward each leaf the
\* root depends on holds the derivative of the root, every other leaf what it
\* held, and a call that is given up changes none.  It takes that no kernel
\* computes with what a destroyed tensor holds, which the second call on a
\* graph is exposed to.
THEOREM DerivativesCorrect == NoStaleReads => (Spec => LeavesHoldDerivatives)
<1> SUFFICES ASSUME NoStaleReads PROVE Spec => LeavesHoldDerivatives
  OBVIOUS
<1>1. ASSUME TypeOK, CacheInv, CleanSweep, [Next]_vars
      PROVE  [Promise!Next]_(Promise!vars)
  BY <1>1, StepIsPromised DEF CleanSweep, FirstOrNoStaleReads
<1>2. QED
  BY <1>1, InitIsInit, TypeCorrect, CachesKept, CleanSweepKept, PTL
     DEF Spec, LeavesHoldDerivatives, Promise!Spec

\* The first call on a graph keeps it whatever a cleared vector holds.
THEOREM FirstCallCorrect ==
    Spec => Promise!Init /\ [][calls' <= 1 => [Promise!Next]_(Promise!vars)]_vars
<1>1. ASSUME TypeOK, CacheInv, CleanSweep, Next, calls' <= 1
      PROVE  [Promise!Next]_(Promise!vars)
  <2>1. calls \in Nat /\ (calls' = calls \/ calls' = calls + 1)
    BY <1>1 DEF TypeOK, Next, Record, RecordParam, RecordOp, AddNode,
                  BackwardReturnsEarly, BackwardCall, Dfs, DfsRoot, DfsSkip,
                  DfsDescend, DfsFinish, Sweep, StartSweep, SweepSkip, RunKernel,
                  RunKernelOnReleased, SkipInput, AccumulateInput, NodeDone,
                  CopyToLeaves, BackwardThrows, vars
  <2>2. calls <= 1
    BY <1>1, <2>1
  <2>3. QED
    BY <1>1, <2>2, StepIsPromised DEF CleanSweep, FirstOrNoStaleReads
<1>2. QED
  BY <1>1, InitIsInit, TypeCorrect, CachesKept, CleanSweepKept, PTL DEF Spec
=============================================================================
