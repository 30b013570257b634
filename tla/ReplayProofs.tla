---------------------------- MODULE ReplayProofs ----------------------------
(***************************************************************************)
(* Theorems about Replay for every set of ops and kernels and any number   *)
(* of tensors, Functions and scopes: the scopes and the tracer, the graphs *)
(* that are captured, and what apply makes of them.                        *)
(***************************************************************************)
EXTENDS Replay, DataLemmas

-----------------------------------------------------------------------------
(* Scopes and the tracer. *)

ScopeRecord ==
    [fn : Nat \ {NoFunction}, recording : BOOLEAN, function : Nat, disturbed : BOOLEAN]

\* What each scope will put back: unless a kernel threw in the scope around
\* it, that one was recording.
SavedScopes ==
    \A i \in DOMAIN scopes :
       ~scopes[i].disturbed => /\ scopes[i].recording
                               /\ i > 1 => scopes[i].function = scopes[i - 1].fn

ScopeInv ==
    /\ \E S : functions \in Seq(S)
    /\ scopes \in Seq(ScopeRecord)
    /\ recording \in BOOLEAN /\ disturbed \in BOOLEAN /\ function \in Nat
    /\ SavedScopes /\ ScopeRecords

\* Functions are added at the end and changed in place.
LEMMA FunctionsGrow ==
    ASSUME NEW S, NEW fs \in Seq(S), NEW f
    PROVE  /\ \E T : Append(fs, f) \in Seq(T)
           /\ DOMAIN fs \subseteq Nat \ {0}
           /\ \A k : \E T : [fs EXCEPT ![k] = f] \in Seq(T)
<1>1. fs \in Seq(S \cup {f})
  BY SeqMonotonic
<1>2. Append(fs, f) \in Seq(S \cup {f})
  BY <1>1, AppendProperties
<1>3. Len(fs) \in Nat /\ DOMAIN fs = 1 .. Len(fs)
  BY LenProperties
<1>4. ASSUME NEW k PROVE [fs EXCEPT ![k] = f] \in Seq(S \cup {f})
  <2>1. CASE k \in DOMAIN fs
    BY <1>1, <1>3, <2>1, ExceptSeq
  <2>2. CASE k \notin DOMAIN fs
    <3>1. [fs EXCEPT ![k] = f] = fs
      BY <1>3, <2>2
    <3>2. QED
      BY <1>1, <3>1
  <2>3. QED
    BY <2>1, <2>2
<1>5. DOMAIN fs \subseteq Nat \ {0}
  BY <1>3
<1>6. QED
  BY <1>2, <1>4, <1>5

\* The Functions are still a sequence.
StillFunctions == \E S : functions' \in Seq(S)

LEMMA QuietlyKeepsFunctions ==
    ASSUME ScopeInv, Quietly
    PROVE  StillFunctions
<1> PICK S : functions \in Seq(S)
  BY DEF ScopeInv
<1>1. CASE UNCHANGED functions
  BY <1>1 DEF StillFunctions
<1>2. ASSUME NEW f, functions' = Append(functions, f) PROVE StillFunctions
  BY <1>2, FunctionsGrow DEF StillFunctions
<1>3. ASSUME NEW f, NEW k, functions' = [functions EXCEPT ![k] = f] PROVE StillFunctions
  BY <1>3, FunctionsGrow DEF StillFunctions
<1>4. ASSUME NEW f \in DOMAIN functions, NEW t, BackwardOf(f, t) PROVE StillFunctions
  BY <1>3, <1>4 DEF BackwardOf
<1>5. ASSUME NEW op, NEW ins, RunOp(op, ins) PROVE StillFunctions
  <2>1. CASE NotCaptured(op, ins)
    BY <1>1, <2>1 DEF NotCaptured
  <2>2. CASE Captured(op, ins)
    BY <1>3, <2>2 DEF Captured, CapturedIn
  <2>3. CASE CapturedInNew(op, ins)
    <3>1. \E T : Append(functions, NewFunction) \in Seq(T)
      BY FunctionsGrow
    <3>2. PICK T : Append(functions, NewFunction) \in Seq(T)
      BY <3>1
    <3>3. \E k, f : functions' = [Append(functions, NewFunction) EXCEPT ![k] = f]
      BY <2>3 DEF CapturedInNew, CapturedIn
    <3>4. QED
      BY <3>2, <3>3, FunctionsGrow DEF StillFunctions
  <2>4. QED
    BY <1>5, <2>1, <2>2, <2>3 DEF RunOp
<1>6. QED
  BY <1>1, <1>2, <1>4, <1>5
     DEF Quietly, Register, InitOps, NewEmptyFunction, Transform, SaveAndLoad,
         MakeFunction, Enter, Leave, NewTensor

LEMMA ScopeStep == ScopeInv /\ [Next]_vars => ScopeInv'
<1> SUFFICES ASSUME ScopeInv, [Next]_vars PROVE ScopeInv'
  OBVIOUS
<1> USE DEF tracer
<1>1. ASSUME UNCHANGED tracer, StillFunctions PROVE ScopeInv'
  BY <1>1 DEF ScopeInv, StillFunctions, SavedScopes, ScopeRecords
<1>2. Len(scopes) \in Nat /\ DOMAIN scopes = 1 .. Len(scopes)
  BY LenProperties DEF ScopeInv
<1>3. \A k \in DOMAIN scopes : scopes[k] \in ScopeRecord
  BY DEF ScopeInv
<1>4. ASSUME NEW f \in DOMAIN functions, Enter(f), StillFunctions PROVE ScopeInv'
  <2> DEFINE saved == [fn |-> f, recording |-> recording, function |-> function,
                       disturbed |-> disturbed]
  <2>1. scopes' = Append(scopes, saved) /\ recording' = TRUE /\ function' = f
        /\ disturbed' = FALSE
    BY <1>4 DEF Enter
  <2>2. saved \in ScopeRecord
    <3>1. f \in Nat \ {NoFunction}
      BY FunctionsGrow DEF ScopeInv, NoFunction
    <3>2. QED
      BY <3>1 DEF ScopeInv, ScopeRecord
  <2>3. /\ scopes' \in Seq(ScopeRecord)
        /\ Len(scopes') = Len(scopes) + 1 /\ DOMAIN scopes' = 1 .. Len(scopes) + 1
        /\ scopes'[Len(scopes) + 1] = saved
        /\ \A k \in DOMAIN scopes : scopes'[k] = scopes[k]
    BY <1>2, <2>1, <2>2, AppendProperties, LenProperties DEF ScopeInv
  <2>4. SavedScopes'
    <3> SUFFICES ASSUME NEW k \in DOMAIN scopes', ~scopes'[k].disturbed
                 PROVE  /\ scopes'[k].recording
                        /\ k > 1 => scopes'[k].function = scopes'[k - 1].fn
      BY DEF SavedScopes
    <3>1. CASE k \in DOMAIN scopes
      BY <1>2, <2>3, <3>1 DEF ScopeInv, SavedScopes
    <3>2. CASE k = Len(scopes) + 1
      BY <1>2, <2>3, <3>2 DEF ScopeInv, ScopeRecords, Last
    <3>3. QED
      BY <1>2, <2>3, <3>1, <3>2
  <2>5. ScopeRecords'
    BY <1>2, <2>1, <2>3 DEF ScopeRecords, Last
  <2>6. QED
    BY <1>4, <2>1, <2>2, <2>3, <2>4, <2>5 DEF ScopeInv, StillFunctions, ScopeRecord
<1>5. CASE Leave /\ StillFunctions
  <2>1. Len(scopes) \in Nat \ {0} /\ Last(scopes) = scopes[Len(scopes)]
    BY <1>2, <1>5 DEF Leave, ScopeInv, Last
  <2>2. scopes' = SubSeq(scopes, 1, Len(scopes) - 1)
    BY <1>5 DEF Leave, Front
  <2>3. /\ scopes' \in Seq(ScopeRecord)
        /\ Len(scopes') = Len(scopes) - 1 /\ DOMAIN scopes' = 1 .. Len(scopes) - 1
        /\ \A k \in 1 .. Len(scopes) - 1 : scopes'[k] = scopes[k]
    BY <1>2, <1>3, <2>1, <2>2, SubSeqProperties, LenProperties
  <2>4. SavedScopes'
    BY <1>2, <2>1, <2>3 DEF ScopeInv, SavedScopes
  <2>5. ScopeRecords'
    BY <1>2, <1>5, <2>1, <2>3 DEF Leave, ScopeInv, SavedScopes, ScopeRecords, Last
  <2>6. scopes[Len(scopes)] \in ScopeRecord
    BY <1>2, <1>3, <2>1
  <2>7. QED
    BY <1>5, <2>1, <2>3, <2>4, <2>5, <2>6
       DEF Leave, ScopeInv, StillFunctions, ScopeRecord
<1>6. ASSUME NEW op, NEW ins, RunOp(op, ins), StillFunctions PROVE ScopeInv'
  <2>1. CASE NotCaptured(op, ins) \/ Captured(op, ins)
    BY <1>1, <1>6, <2>1 DEF NotCaptured, Captured
  <2>2. CASE CapturedInNew(op, ins)
    <3>1. UNCHANGED <<recording, scopes, disturbed>> /\ function = NoFunction
      BY <2>2 DEF CapturedInNew
    <3>2. disturbed \/ scopes = <<>>
      <4> SUFFICES ASSUME ~disturbed, scopes # <<>> PROVE FALSE
        OBVIOUS
      <4>1. Len(scopes) \in Nat \ {0}
        BY EmptySeq DEF ScopeInv
      <4>2. scopes[Len(scopes)] \in ScopeRecord
        BY <1>2, <1>3, <4>1
      <4>3. function # NoFunction
        BY <4>2 DEF ScopeInv, ScopeRecords, Last, ScopeRecord
      <4>4. QED
        BY <3>1, <4>3
    <3>3. function' \in Nat
      BY <2>2, LenProperties DEF CapturedInNew, ScopeInv
    <3>4. QED
      BY <1>6, <3>1, <3>2, <3>3 DEF ScopeInv, StillFunctions, SavedScopes, ScopeRecords
  <2>3. QED
    BY <1>6, <2>1, <2>2 DEF RunOp
<1>7. ASSUME NEW f \in DOMAIN functions, NEW bindings, Apply(f, bindings) PROVE ScopeInv'
  <2>1. PICK ending \in Endings(functions[f], bindings) :
           /\ disturbed' = (disturbed \/ ending.status = "kernel throws")
           /\ IF Restores(ending.status)
              THEN UNCHANGED <<recording, function>>
              ELSE recording' = FALSE /\ function' = f
           /\ UNCHANGED <<functions, scopes>>
    BY <1>7 DEF Apply
  <2>2. StillFunctions
    BY <2>1 DEF ScopeInv, StillFunctions
  <2>3. f \in Nat
    BY FunctionsGrow DEF ScopeInv
  <2>4. CASE Restores(ending.status)
    BY <1>1, <2>1, <2>2, <2>4 DEF Restores, ScopeInv
  <2>5. CASE ~Restores(ending.status)
    BY <2>1, <2>2, <2>3, <2>5
       DEF Restores, ScopeInv, StillFunctions, SavedScopes, ScopeRecords
  <2>6. QED
    BY <2>4, <2>5
<1>8. CASE Quietly
  <2>1. StillFunctions
    BY <1>8, QuietlyKeepsFunctions
  <2>2. QED
    BY <1>1, <1>4, <1>5, <1>6, <1>8, <2>1
       DEF Quietly, Register, InitOps, NewEmptyFunction, Transform, SaveAndLoad,
           NewTensor, BackwardOf
<1>9. CASE ApplyIsOver \/ UNCHANGED vars
  <2>1. StillFunctions /\ UNCHANGED tracer
    BY <1>9 DEF ApplyIsOver, vars, ScopeInv, StillFunctions
  <2>2. QED
    BY <1>1, <2>1
<1>10. QED
  BY <1>7, <1>8, <1>9 DEF Next

LEMMA ScopeInit == Init => ScopeInv
<1> SUFFICES ASSUME Init PROVE ScopeInv
  OBVIOUS
<1>1. functions \in Seq({}) /\ scopes \in Seq(ScopeRecord) /\ DOMAIN scopes = {}
  BY EmptySeq DEF Init
<1>2. QED
  BY <1>1 DEF Init, ScopeInv, SavedScopes, ScopeRecords, NoFunction

\* In a Scope of a Function it is that Function that records, whichever way
\* an apply has ended (function.cpp:60-107), but for a kernel that threw.
THEOREM ScopesCorrect == Spec => []ScopeRecords
<1>1. Init => ScopeInv
  BY ScopeInit
<1>2. ScopeInv => ScopeRecords
  BY DEF ScopeInv
<1>3. QED
  BY <1>1, <1>2, ScopeStep, PTL DEF Spec

-----------------------------------------------------------------------------
(* What a graph is to the program that made it: with of, the tensor that    *)
(* each node stands for, T the tensors, tp the tape and tab the registry.   *)

Node == [op : Ops \cup {"param"}, inputs : Seq(Nat)]

FunctionRecord ==
    [nodes : Seq(Node), params : Seq(Nat), released : SUBSET Nat,
     kernels : SUBSET Nat, output : Nat, computed : SUBSET Nat,
     leaves : Seq(Nat), loss : Nat, loaded : BOOLEAN]

TensorRecord == [requiresGrad : BOOLEAN, fn : Nat, node : Nat]

TapeRecord == [op : Ops \cup {"leaf"}, inputs : Seq(Nat)]

\* Tensors are computed from earlier ones.
TapeOK(T, tp) ==
    /\ Len(tp) = Len(T)
    /\ \A t \in DOMAIN tp : \A k \in DOMAIN tp[t].inputs : tp[t].inputs[k] \in 1 .. t - 1

\* Tensor t is the result of an op.
IsResult(T, tp, t) ==
    /\ t \in DOMAIN tp /\ tp[t].op \in Ops /\ Len(tp[t].inputs) = Arity(tp[t].op)
    /\ T[t].requiresGrad <=> \E k \in DOMAIN tp[t].inputs : T[tp[t].inputs[k]].requiresGrad

Ascending(s) == \A j, k \in DOMAIN s : j < k => s[j] < s[k]

\* In a graph that was not loaded, kernels have released the inputs of nodes
\* that they used.
ReleasedByKernels(F) == F.loaded \/ \A i \in F.released : UsedByKernel(F, i)

\* What holds of every graph: the ops in it are registered, and a node whose
\* inputs were released has no backward kernel.
GraphOK(F, tab) ==
    /\ Recorded(F.nodes)
    /\ \A i \in Ids(F.nodes) : IsParam(F.nodes, i) \/ tab[F.nodes[i].op] # "none"
    /\ F.released \cup F.kernels \subseteq Ids(F.nodes) /\ F.released \cap F.kernels = {}
    /\ ReleasedByKernels(F)
    /\ F.output \in NoNode .. Len(F.nodes)
    /\ Ascending(F.params)
    /\ \A k \in DOMAIN F.params : F.params[k] \in Ids(F.nodes) /\ IsParam(F.nodes, F.params[k])

\* A loaded graph, at the first node of which apply stops.
Stuck(F) ==
    /\ F.loaded /\ F.nodes # <<>> /\ 1 \notin Range(F.params)
    /\ IsParam(F.nodes, 1) \/ 1 \in F.released

\* An edge leads to the node of tensor t, or t needs no gradient.
EdgeIs(F, of, T, i, k, t) ==
    IF F.nodes[i].inputs[k] = NoNode THEN ~T[t].requiresGrad
    ELSE of[F.nodes[i].inputs[k]] = t

ResultIs(F, of, T, tp, i) ==
    /\ of[i] \in F.computed /\ tp[of[i]].op = F.nodes[i].op
    /\ \A k \in 1 .. Arity(F.nodes[i].op) : EdgeIs(F, of, T, i, k, tp[of[i]].inputs[k])

LeavesAre(F, of, T) ==
    /\ Len(F.leaves) = Len(F.params)
    /\ \A k \in DOMAIN F.params :
          of[F.params[k]] = F.leaves[k] /\ T[F.leaves[k]].requiresGrad

Traces(F, of, T, tp) ==
    /\ \A i \in Ids(F.nodes) : IsParam(F.nodes, i) => i \in Range(F.params)
    /\ \A i \in Ids(F.nodes) : ~IsParam(F.nodes, i) => ResultIs(F, of, T, tp, i)
    /\ LeavesAre(F, of, T)
    /\ \A t \in F.computed : IsResult(T, tp, t)
    /\ F.output = NoNode => F.loss = 0
    /\ F.output # NoNode => of[F.output] = F.loss

\* A tensor that points into Function f is the one of its node.
Leads(f, of, T) == \A t \in DOMAIN T : T[t].fn = f => of[T[t].node] = t

FunctionInv(F, f, tab, T, tp) ==
    /\ GraphOK(F, tab)
    /\ \A t \in DOMAIN T : T[t].fn = f => T[t].node \in Ids(F.nodes)
    /\ \/ Stuck(F)
       \/ \E of \in [Ids(F.nodes) -> DOMAIN tp] : Traces(F, of, T, tp) /\ Leads(f, of, T)

FunctionsInv(fs, tab, T, tp) ==
    \A f \in DOMAIN fs : FunctionInv(fs[f], f, tab, T, tp)

\* The Functions fs, the tensors T and their tape tp.
Data(fs, T, tp) ==
    /\ fs \in Seq(FunctionRecord) /\ T \in Seq(TensorRecord) /\ tp \in Seq(TapeRecord)
    /\ TapeOK(T, tp) /\ FunctionsInv(fs, table, T, tp)
    /\ \A t \in DOMAIN T : T[t].fn \in NoFunction .. Len(fs)

PointersOK ==
    /\ function \in NoFunction .. Len(functions)
    /\ \A i \in DOMAIN scopes : scopes[i].function \in NoFunction .. Len(functions)

DataInv ==
    /\ table \in [Ops -> Kernels \cup {"builtin", "none"}]
    /\ Data(functions, tensors, tape) /\ PointersOK

\* What apply may do, said of a registry tab.
LiveValueIn(tab, F) ==
    LET value[i \in Ids(F.nodes)] ==
            IF i \in Range(F.params) THEN Bound(ParamPlace(F, i))
            ELSE Computed(tab[F.nodes[i].op],
                          [k \in DOMAIN F.nodes[i].inputs |-> value[F.nodes[i].inputs[k]]])
    IN  value

ObstacleIn(tab, F, i) ==
    IF i \in Range(F.params) THEN "nothing"
    ELSE IF IsParam(F.nodes, i) \/ tab[F.nodes[i].op] = "none" THEN "op not registered"
    ELSE IF i \in F.released THEN "no inputs"
    ELSE IF \E k \in DOMAIN F.nodes[i].inputs : F.nodes[i].inputs[k] = NoNode
    THEN "missing live input"
    ELSE "nothing"

Stops(tab, F) == {i \in Ids(F.nodes) : ObstacleIn(tab, F, i) # "nothing"}

\* What apply came to.
MayEnd(tab, F, b, status, value) ==
    \/ b < Len(F.params) /\ status = "not enough bindings"
    \/ ~(b < Len(F.params)) /\ status = "kernel throws"
    \/ /\ ~(b < Len(F.params)) /\ Stops(tab, F) # {}
       /\ status = ObstacleIn(tab, F, Min(Stops(tab, F)))
    \/ /\ ~(b < Len(F.params)) /\ Stops(tab, F) = {}
       /\ F.output = NoNode /\ status = "nothing returned"
    \/ /\ ~(b < Len(F.params)) /\ Stops(tab, F) = {} /\ F.output # NoNode
       /\ status = "returned" /\ value = LiveValueIn(tab, F)[F.output]

\* While the caller looks at it, an outcome is one that apply may have now.
OutcomeOK ==
    \/ outcome = NoOutcome
    \/ /\ outcome.fn \in DOMAIN functions /\ outcome.bindings \in Nat
       /\ MayEnd(table, functions[outcome.fn], outcome.bindings, outcome.status, outcome.value)

ReplayInv == DataInv /\ OutcomeOK /\ dead \in BOOLEAN

-----------------------------------------------------------------------------
(* What more tensors, and other graphs, change about a graph: nothing.       *)

\* The tensors U with their tape up come after T with tp.
Later(T, tp, U, up) ==
    /\ DOMAIN T \subseteq DOMAIN U /\ DOMAIN tp = DOMAIN T /\ DOMAIN tp \subseteq DOMAIN up
    /\ \A t \in DOMAIN T : U[t].requiresGrad = T[t].requiresGrad
    /\ \A t \in DOMAIN tp : up[t] = tp[t]
    /\ \A t \in DOMAIN tp : \A k \in DOMAIN tp[t].inputs : tp[t].inputs[k] \in DOMAIN T

LEMMA TapeEntries ==
    ASSUME NEW T \in Seq(TensorRecord), NEW tp \in Seq(TapeRecord), TapeOK(T, tp)
    PROVE  /\ DOMAIN T = 1 .. Len(T) /\ DOMAIN tp = 1 .. Len(T) /\ Len(T) \in Nat
           /\ \A t \in DOMAIN T : T[t] \in TensorRecord /\ tp[t] \in TapeRecord
           /\ \A t \in DOMAIN tp : tp[t].inputs \in Seq(Nat)
           /\ \A t \in DOMAIN tp : \A k \in DOMAIN tp[t].inputs : tp[t].inputs[k] \in 1 .. t - 1
           /\ \A t \in DOMAIN tp : \A k \in DOMAIN tp[t].inputs : tp[t].inputs[k] \in DOMAIN T
<1>1. DOMAIN T = 1 .. Len(T) /\ DOMAIN tp = 1 .. Len(T) /\ Len(T) \in Nat
  BY LenProperties DEF TapeOK
<1>2. \A t \in DOMAIN T : T[t] \in TensorRecord /\ tp[t] \in TapeRecord
  BY <1>1
<1>3. \A t \in DOMAIN tp : tp[t].inputs \in Seq(Nat)
  BY <1>1, <1>2 DEF TapeRecord
<1>4. \A t \in DOMAIN tp : \A k \in DOMAIN tp[t].inputs : tp[t].inputs[k] \in 1 .. t - 1
  BY DEF TapeOK
<1>5. ASSUME NEW t \in DOMAIN tp, NEW k \in DOMAIN tp[t].inputs PROVE tp[t].inputs[k] \in DOMAIN T
  <2>1. tp[t].inputs[k] \in 1 .. t - 1 /\ t \in 1 .. Len(T)
    BY <1>1, <1>4
  <2>2. QED
    BY <1>1, <2>1
<1>6. QED
  BY <1>1, <1>2, <1>3, <1>4, <1>5

LEMMA ResultLater ==
    ASSUME NEW T, NEW tp, NEW U, NEW up, Later(T, tp, U, up),
           NEW t, IsResult(T, tp, t)
    PROVE  IsResult(U, up, t)
BY DEF Later, IsResult

LEMMA TracesLater ==
    ASSUME NEW F \in FunctionRecord, NEW T, NEW tp, NEW U, NEW up, Later(T, tp, U, up),
           NEW of \in [Ids(F.nodes) -> DOMAIN tp], GraphOK(F, table), Traces(F, of, T, tp)
    PROVE  Traces(F, of, U, up) /\ of \in [Ids(F.nodes) -> DOMAIN up]
<1>1. of \in [Ids(F.nodes) -> DOMAIN up]
  BY DEF Later
<1>2. ASSUME NEW i \in Ids(F.nodes), ~IsParam(F.nodes, i)
      PROVE  ResultIs(F, of, U, up, i)
  <2>1. ResultIs(F, of, T, tp, i) /\ of[i] \in DOMAIN tp /\ up[of[i]] = tp[of[i]]
    BY <1>2 DEF Traces, Later
  <2>2. IsResult(T, tp, of[i]) /\ tp[of[i]].op = F.nodes[i].op
    BY <2>1 DEF Traces, ResultIs
  <2>3. ASSUME NEW k \in 1 .. Arity(F.nodes[i].op)
        PROVE  EdgeIs(F, of, U, i, k, up[of[i]].inputs[k])
    <3>1. EdgeIs(F, of, T, i, k, tp[of[i]].inputs[k])
      BY <2>1 DEF ResultIs
    <3>2. k \in DOMAIN tp[of[i]].inputs
      BY <2>2 DEF IsResult
    <3>3. tp[of[i]].inputs[k] \in DOMAIN T
      BY <2>1, <3>2 DEF Later
    <3>4. QED
      BY <2>1, <3>1, <3>3 DEF EdgeIs, Later
  <2>4. QED
    BY <2>1, <2>3 DEF ResultIs
<1>3. LeavesAre(F, of, U)
  <2>1. \A k \in DOMAIN F.params : F.params[k] \in Ids(F.nodes)
    BY DEF GraphOK
  <2>2. ASSUME NEW k \in DOMAIN F.params
        PROVE  of[F.params[k]] = F.leaves[k] /\ U[F.leaves[k]].requiresGrad
    <3>1. of[F.params[k]] = F.leaves[k] /\ T[F.leaves[k]].requiresGrad
      BY DEF Traces, LeavesAre
    <3>2. F.leaves[k] \in DOMAIN tp
      BY <2>1, <3>1
    <3>3. QED
      BY <3>1, <3>2 DEF Later
  <2>3. QED
    BY <2>2 DEF Traces, LeavesAre
<1>4. \A t \in F.computed : IsResult(U, up, t)
  BY ResultLater DEF Traces
<1>5. QED
  BY <1>1, <1>2, <1>3, <1>4 DEF Traces

\* No tensor has come to point into Function f.
Unvisited(f, T, U) ==
    \A t \in DOMAIN U : U[t].fn = f => t \in DOMAIN T /\ T[t].fn = f /\ T[t].node = U[t].node

LEMMA FunctionLater ==
    ASSUME NEW F \in FunctionRecord, NEW T, NEW tp, NEW U, NEW up, Later(T, tp, U, up),
           NEW f, Unvisited(f, T, U), FunctionInv(F, f, table, T, tp)
    PROVE  FunctionInv(F, f, table, U, up)
<1>1. \A t \in DOMAIN U : U[t].fn = f => U[t].node \in Ids(F.nodes)
  BY DEF FunctionInv, Unvisited
<1>2. ASSUME ~Stuck(F)
      PROVE  \E of \in [Ids(F.nodes) -> DOMAIN up] : Traces(F, of, U, up) /\ Leads(f, of, U)
  <2>1. PICK of \in [Ids(F.nodes) -> DOMAIN tp] : Traces(F, of, T, tp) /\ Leads(f, of, T)
    BY <1>2 DEF FunctionInv
  <2>2. Traces(F, of, U, up) /\ of \in [Ids(F.nodes) -> DOMAIN up]
    BY <2>1, TracesLater DEF FunctionInv
  <2>3. Leads(f, of, U)
    BY <2>1 DEF Leads, Unvisited
  <2>4. QED
    BY <2>2, <2>3
<1>3. QED
  BY <1>1, <1>2 DEF FunctionInv

\* A Function is added to which no tensor points yet.
LEMMA FunctionAdded ==
    ASSUME NEW fs \in Seq(FunctionRecord), NEW G \in FunctionRecord, NEW T, NEW tp,
           FunctionsInv(fs, table, T, tp), \A t \in DOMAIN T : T[t].fn \in 0 .. Len(fs),
           GraphOK(G, table),
           Stuck(G) \/ \E of \in [Ids(G.nodes) -> DOMAIN tp] : Traces(G, of, T, tp),
           NEW gs, gs = Append(fs, G)
    PROVE  /\ gs \in Seq(FunctionRecord) /\ Len(gs) = Len(fs) + 1
           /\ gs[Len(fs) + 1] = G /\ DOMAIN gs = 1 .. Len(fs) + 1 /\ Len(fs) \in Nat
           /\ FunctionsInv(gs, table, T, tp)
<1>1. /\ gs \in Seq(FunctionRecord) /\ Len(gs) = Len(fs) + 1 /\ Len(fs) \in Nat
      /\ DOMAIN fs = 1 .. Len(fs) /\ DOMAIN gs = 1 .. Len(fs) + 1
      /\ gs[Len(fs) + 1] = G /\ \A k \in 1 .. Len(fs) : gs[k] = fs[k]
  BY AppendProperties, LenProperties
<1>2. FunctionInv(G, Len(fs) + 1, table, T, tp)
  <2>1. \A t \in DOMAIN T : T[t].fn # Len(fs) + 1
    BY <1>1
  <2>2. QED
    BY <2>1 DEF FunctionInv, Leads
<1>3. ASSUME NEW f \in DOMAIN gs PROVE FunctionInv(gs[f], f, table, T, tp)
  <2>1. CASE f = Len(fs) + 1
    BY <1>1, <1>2, <2>1
  <2>2. CASE f # Len(fs) + 1
    <3>1. f \in 1 .. Len(fs)
      BY <1>1, <2>2
    <3>2. QED
      BY <1>1, <3>1 DEF FunctionsInv
  <2>3. QED
    BY <2>1, <2>2
<1>4. QED
  BY <1>1, <1>3 DEF FunctionsInv

\* What run_op registers: the tensors that need it, each once.
Registers(params, f, m, ins) ==
    /\ \E c \in Nat : params \in [1 .. c -> DOMAIN tensors]
    /\ \A i, j \in DOMAIN params : params[i] = params[j] => i = j
    /\ \A i \in DOMAIN params : tensors[params[i]].requiresGrad /\ tensors[params[i]].fn # f
    /\ \A k \in 1 .. m : tensors[ins[k]].requiresGrad /\ tensors[ins[k]].fn # f
         => \E i \in DOMAIN params : params[i] = ins[k]

LEMMA Registering ==
    ASSUME NEW f, NEW m \in Nat, NEW ins \in [1 .. m -> DOMAIN tensors],
           NEW params, params = ToRegister(f, ins)
    PROVE  Registers(params, f, m, ins)
<1> DEFINE needed(t) == tensors[t].requiresGrad /\ tensors[t].fn # f
<1> DEFINE R == {k \in 1 .. m : needed(ins[k]) /\ \A j \in 1 .. k - 1 : ins[j] # ins[k]}
<1> DEFINE c == Cardinality(R)
<1>1. R \in SUBSET Nat /\ IsFiniteSet(R)
  <2>1. R \subseteq 1 .. m /\ IsFiniteSet(1 .. m)
    BY FS_Interval
  <2>2. QED
    BY <2>1, FS_Subset
<1>2. c \in Nat /\ InOrder(R) \in [1 .. c -> R]
      /\ \A k \in R : Rank(R, k) \in 1 .. c /\ InOrder(R)[Rank(R, k)] = k
  <2> HIDE DEF R
  <2>1. QED
    BY <1>1, InOrderProperties
<1>3. \A i \in 1 .. c : Rank(R, InOrder(R)[i]) = i
  <2>1. {Rank(R, k) : k \in R} = 1 .. c
    <3> HIDE DEF R
    <3>1. QED
      BY <1>1, RankRange
  <2>2. \A i \in 1 .. c : \E k \in R : Rank(R, k) = i
    BY <2>1
  <2> HIDE DEF R, c
  <2>3. QED
    BY <2>2 DEF InOrder, c
<1>4. DOMAIN ins = 1 .. m
  OBVIOUS
<1>5. params = [i \in DOMAIN InOrder(R) |-> ins[InOrder(R)[i]]]
  BY <1>4 DEF ToRegister
<1>6. params = [i \in 1 .. c |-> ins[InOrder(R)[i]]]
  <2>1. DOMAIN InOrder(R) = 1 .. c
    BY <1>2
  <2> HIDE DEF R, c
  <2>2. QED
    BY <1>5, <2>1
<1>7. \A k \in R : k \in 1 .. m /\ needed(ins[k]) /\ \A j \in 1 .. k - 1 : ins[j] # ins[k]
  OBVIOUS
<1>8. ASSUME NEW k \in 1 .. m, needed(ins[k])
      PROVE  \E l \in R : ins[l] = ins[k]
  <2> DEFINE S == {j \in 1 .. m : ins[j] = ins[k]}
  <2>1. S \subseteq Nat /\ k \in S
    OBVIOUS
  <2>2. PICK l \in S : \A j \in S : l <= j
    <3> HIDE DEF S
    <3>1. QED
      BY <2>1, LeastNat
  <2>3. l \in 1 .. m /\ ins[l] = ins[k] /\ \A j \in 1 .. l - 1 : ins[j] # ins[l]
    BY <2>2
  <2>4. l \in R
    BY <1>8, <2>3
  <2>5. QED
    BY <2>3, <2>4
<1> HIDE DEF R, c
<1>9. params \in [1 .. c -> DOMAIN tensors]
  BY <1>2, <1>6, <1>7
<1>10. ASSUME NEW i \in DOMAIN params, NEW j \in DOMAIN params, params[i] = params[j]
       PROVE  i = j
  <2>1. i \in 1 .. c /\ j \in 1 .. c
    BY <1>9
  <2>2. PICK k, l : k = InOrder(R)[i] /\ l = InOrder(R)[j]
    OBVIOUS
  <2>3. k \in R /\ l \in R /\ ins[k] = ins[l]
    BY <1>2, <1>6, <1>10, <2>1, <2>2
  <2>4. k \in Nat /\ l \in Nat
    BY <1>1, <2>3
  <2>5. ~(k < l) /\ ~(l < k)
    BY <1>7, <2>3, <2>4
  <2>6. k = l
    BY <2>4, <2>5
  <2>7. QED
    BY <1>3, <2>1, <2>2, <2>6
<1>11. \A i \in DOMAIN params : needed(params[i])
  BY <1>2, <1>6, <1>7
<1>12. ASSUME NEW k \in 1 .. m, needed(ins[k]) PROVE \E i \in DOMAIN params : params[i] = ins[k]
  <2>1. PICK l \in R : ins[l] = ins[k]
    BY <1>8, <1>12
  <2>2. Rank(R, l) \in 1 .. c /\ InOrder(R)[Rank(R, l)] = l
    BY <1>2
  <2>3. QED
    BY <1>6, <2>1, <2>2
<1>13. QED
  BY <1>2, <1>9, <1>10, <1>11, <1>12 DEF Registers

-----------------------------------------------------------------------------
(* A call of run_op that is captured in F: n nodes before, c leaves          *)
(* registered, params, and the result, tensor u.                             *)

\* G is F with the leaves and the op.
Grown(F, G, op, edges, params, c, u) ==
    /\ G \in FunctionRecord
    /\ Extension(G.nodes, F.nodes, c, [k \in 1 .. c |-> ParamNode], OpNode(op, edges), Node)
    /\ Len(G.params) = Len(F.params) + c
    /\ \A k \in 1 .. Len(F.params) : G.params[k] = F.params[k]
    /\ \A k \in 1 .. c : G.params[Len(F.params) + k] = Len(F.nodes) + k
    /\ Len(G.leaves) = Len(F.leaves) + c
    /\ \A k \in 1 .. Len(F.leaves) : G.leaves[k] = F.leaves[k]
    /\ \A k \in 1 .. c : G.leaves[Len(F.leaves) + k] = params[k]
    /\ G.kernels \subseteq F.kernels \cup {Len(F.nodes) + c + 1}
    /\ F.kernels \subseteq G.kernels
    /\ G.computed = F.computed \cup {u}
    /\ G.released = F.released /\ G.output = F.output
    /\ G.loss = F.loss /\ G.loaded = F.loaded

\* An edge leads to a tensor of the graph, to one just registered, or the
\* input needs no gradient.
EdgeFound(F, T, f, params, c, e, t) ==
    \/ e = NoNode /\ ~T[t].requiresGrad
    \/ e \in Ids(F.nodes) /\ T[t].fn = f /\ T[t].node = e
    \/ \E j \in 1 .. c : e = Len(F.nodes) + j /\ params[j] = t

EdgesFound(F, T, f, op, ins, params, c, edges) ==
    /\ edges \in [1 .. Arity(op) -> 0 .. Len(F.nodes) + c]
    /\ \A k \in 1 .. Arity(op) : EdgeFound(F, T, f, params, c, edges[k], ins[k])

LEMMA ArityIs == \A op \in Ops : Arity(op) \in Nat /\ Arity(op) > 0
<1>1. \A op \in Ops : Partial[op] \in Seq(Int)
  BY OpsAssumption
<1>2. QED
  BY <1>1, ReplayAssumption, LenProperties DEF Arity

LEMMA FunctionFields ==
    ASSUME NEW F \in FunctionRecord
    PROVE  /\ F.nodes \in Seq(Node) /\ F.params \in Seq(Nat) /\ F.leaves \in Seq(Nat)
           /\ Len(F.nodes) \in Nat /\ DOMAIN F.nodes = 1 .. Len(F.nodes)
           /\ Len(F.params) \in Nat /\ DOMAIN F.params = 1 .. Len(F.params)
           /\ Len(F.leaves) \in Nat /\ DOMAIN F.leaves = 1 .. Len(F.leaves)
           /\ F.released \subseteq Nat /\ F.kernels \subseteq Nat /\ F.computed \subseteq Nat
           /\ F.output \in Nat /\ F.loss \in Nat /\ F.loaded \in BOOLEAN
BY LenProperties DEF FunctionRecord

StillGraph(F, G) == GraphOK(G, table) /\ (Stuck(F) => Stuck(G))

LEMMA GraphGrown ==
    ASSUME NEW F \in FunctionRecord, NEW G, NEW op \in Ops, NEW edges, NEW params,
           NEW c \in Nat, NEW u, NEW T, NEW f, NEW ins,
           Grown(F, G, op, edges, params, c, u), GraphOK(F, table),
           EdgesFound(F, T, f, op, ins, params, c, edges), table[op] # "none"
    PROVE  StillGraph(F, G)
<1> DEFINE n == Len(F.nodes)
           id == n + c + 1
<1>1. /\ n \in Nat /\ Len(G.nodes) = id /\ Ids(F.nodes) = 1 .. n /\ Ids(G.nodes) = 1 .. id
      /\ \A i \in 1 .. n : G.nodes[i] = F.nodes[i]
      /\ \A k \in 1 .. c : G.nodes[n + k] = ParamNode
      /\ G.nodes[id] = OpNode(op, edges)
  BY DEF Grown, Extension, Ids
<1>2. ASSUME NEW i \in 1 .. id PROVE i \in 1 .. n \/ (\E k \in 1 .. c : i = n + k) \/ i = id
  <2>1. CASE i > n /\ i # id
    <3>1. i - n \in 1 .. c /\ i = n + (i - n)
      BY <1>1, <2>1
    <3>2. QED
      BY <3>1
  <2>2. QED
    BY <1>1, <2>1
<1> HIDE DEF n, id
<1>3. Recorded(G.nodes)
  <2> SUFFICES ASSUME NEW i \in 1 .. id
               PROVE  \/ G.nodes[i] = ParamNode
                      \/ /\ G.nodes[i].op \in Ops
                         /\ G.nodes[i].inputs \in Seq(NoNode .. (i - 1))
                         /\ Len(G.nodes[i].inputs) = Arity(G.nodes[i].op)
    BY <1>1 DEF Recorded
  <2>1. CASE i \in 1 .. n
    BY <1>1, <2>1 DEF GraphOK, Recorded
  <2>2. CASE \E k \in 1 .. c : i = n + k
    BY <1>1, <2>2
  <2>3. CASE i = id
    <3>1. G.nodes[i].op = op /\ G.nodes[i].inputs = edges
      BY <1>1, <2>3 DEF OpNode
    <3>2. i - 1 = n + c
      BY <1>1, <2>3 DEF id
    <3>3. edges \in [1 .. Arity(op) -> NoNode .. (i - 1)] /\ Arity(op) \in Nat
      BY <3>2, ArityIs DEF EdgesFound, NoNode, n
    <3>4. edges \in Seq(NoNode .. (i - 1)) /\ Len(edges) = Arity(op)
      BY <3>3, IsSequence
    <3>5. QED
      BY <3>1, <3>4
  <2>4. QED
    BY <1>2, <2>1, <2>2, <2>3
<1>4. \A i \in Ids(G.nodes) : IsParam(G.nodes, i) \/ table[G.nodes[i].op] # "none"
  <2>1. ASSUME NEW i \in 1 .. n PROVE IsParam(G.nodes, i) \/ table[G.nodes[i].op] # "none"
    BY <1>1 DEF GraphOK, IsParam
  <2>2. ASSUME NEW k \in 1 .. c PROVE IsParam(G.nodes, n + k)
    <3>1. G.nodes[n + k] = ParamNode
      BY <1>1
    <3>2. QED
      BY <3>1 DEF IsParam, ParamNode
  <2>3. table[G.nodes[id].op] # "none"
    BY <1>1 DEF OpNode
  <2>4. QED
    BY <1>1, <1>2, <2>1, <2>2, <2>3
<1>5. Ids(F.nodes) \subseteq Ids(G.nodes) /\ id \in Ids(G.nodes) /\ id \notin Ids(F.nodes)
  BY <1>1 DEF id
<1>6. /\ G.released \cup G.kernels \subseteq Ids(G.nodes) /\ G.released \cap G.kernels = {}
      /\ G.output \in NoNode .. Len(G.nodes)
  <2>1. G.kernels \subseteq F.kernels \cup {id}
    BY DEF Grown, id, n
  <2>2. G.output \in NoNode .. Len(G.nodes)
    BY <1>1 DEF GraphOK, Grown, n, id, NoNode
  <2>3. QED
    BY <1>5, <2>1, <2>2 DEF GraphOK, Grown
<1>7. /\ Len(F.params) \in Nat /\ DOMAIN F.params = 1 .. Len(F.params)
      /\ DOMAIN G.params = 1 .. Len(F.params) + c
  BY FunctionFields DEF Grown
<1>8. ASSUME NEW j \in DOMAIN G.params
      PROVE  \/ j \in DOMAIN F.params /\ G.params[j] = F.params[j]
             \/ \E k \in 1 .. c : j = Len(F.params) + k /\ G.params[j] = n + k
  <2>1. CASE j \in 1 .. Len(F.params)
    BY <1>7, <2>1 DEF Grown
  <2>2. CASE j \notin 1 .. Len(F.params)
    <3>1. j - Len(F.params) \in 1 .. c /\ j = Len(F.params) + (j - Len(F.params))
      BY <1>7, <2>2
    <3>2. QED
      BY <3>1 DEF Grown, n
  <2>3. QED
    BY <2>1, <2>2
<1>9. Ascending(G.params)
  <2> SUFFICES ASSUME NEW j \in DOMAIN G.params, NEW k \in DOMAIN G.params, j < k
               PROVE  G.params[j] < G.params[k]
    BY DEF Ascending
  <2>1. CASE j \in DOMAIN F.params /\ k \in DOMAIN F.params
    BY <1>7, <2>1 DEF Grown, GraphOK, Ascending
  <2>2. CASE j \in DOMAIN F.params /\ k \notin DOMAIN F.params
    <3>1. G.params[j] \in 1 .. n
      <4>1. G.params[j] = F.params[j]
        BY <1>7, <2>2 DEF Grown
      <4>2. F.params[j] \in Ids(F.nodes)
        BY <2>2 DEF GraphOK
      <4>3. QED
        BY <1>1, <4>1, <4>2
    <3>2. PICK l \in 1 .. c : G.params[k] = n + l
      BY <1>8, <2>2
    <3>3. QED
      BY <1>1, <3>1, <3>2
  <2>3. CASE j \notin DOMAIN F.params
    <3>1. k \notin DOMAIN F.params
      BY <1>7, <2>3
    <3>2. PICK l \in 1 .. c : j = Len(F.params) + l /\ G.params[j] = n + l
      BY <1>8, <2>3
    <3>3. PICK h \in 1 .. c : k = Len(F.params) + h /\ G.params[k] = n + h
      BY <1>8, <3>1
    <3>4. QED
      BY <1>1, <1>7, <3>2, <3>3
  <2>4. QED
    BY <2>1, <2>2, <2>3
<1>10. ASSUME NEW k \in DOMAIN G.params
       PROVE  G.params[k] \in Ids(G.nodes) /\ IsParam(G.nodes, G.params[k])
  <2>1. CASE k \in DOMAIN F.params /\ G.params[k] = F.params[k]
    <3>1. F.params[k] \in 1 .. n /\ IsParam(F.nodes, F.params[k])
      BY <1>1, <2>1 DEF GraphOK
    <3>2. QED
      BY <1>1, <1>5, <2>1, <3>1 DEF IsParam
  <2>2. ASSUME NEW j \in 1 .. c, G.params[k] = n + j
        PROVE  G.params[k] \in Ids(G.nodes) /\ IsParam(G.nodes, G.params[k])
    <3>1. G.nodes[n + j] = ParamNode /\ n + j \in 1 .. id
      BY <1>1 DEF id
    <3>2. QED
      BY <1>1, <2>2, <3>1 DEF IsParam, ParamNode
  <2>3. QED
    BY <1>8, <2>1, <2>2
<1>14. ASSUME NEW i, UsedByKernel(F, i) PROVE UsedByKernel(G, i)
  <2>1. PICK use \in Uses(F.nodes, i) : use[1] \in F.kernels
    BY <1>14 DEF UsedByKernel
  <2>2. PICK user \in Ids(F.nodes) : \E k \in DOMAIN F.nodes[user].inputs : use = <<user, k>>
    BY <2>1 DEF Uses
  <2>3. PICK k \in DOMAIN F.nodes[user].inputs : use = <<user, k>>
    BY <2>2
  <2>4. F.nodes[user].inputs[k] = i /\ user \in F.kernels
    BY <2>1, <2>3 DEF Uses
  <2>5. user \in Ids(G.nodes) /\ G.nodes[user] = F.nodes[user] /\ user \in G.kernels
    BY <1>1, <1>5, <2>2, <2>4 DEF Grown
  <2>6. <<user, k>> \in Uses(G.nodes, i)
    BY <2>3, <2>4, <2>5 DEF Uses
  <2>7. QED
    BY <2>5, <2>6 DEF UsedByKernel
<1>15. ReleasedByKernels(G)
  BY <1>14 DEF GraphOK, ReleasedByKernels, Grown
<1>11. GraphOK(G, table)
  BY <1>3, <1>4, <1>6, <1>9, <1>10, <1>15 DEF GraphOK
<1>12. ASSUME Stuck(F) PROVE Stuck(G)
  <2>1. F.nodes \in Seq(Node) /\ G.nodes \in Seq(Node) /\ G.nodes # <<>> /\ 1 \in 1 .. n
    BY <1>1, <1>12, FunctionFields, EmptySeq DEF Stuck, Grown, Extension, n, id
  <2>2. G.nodes[1] = F.nodes[1]
    BY <1>1, <2>1
  <2>3. ASSUME NEW k \in DOMAIN G.params PROVE G.params[k] # 1
    <3>1. \A j \in DOMAIN F.params : F.params[j] # 1
      BY <1>12 DEF Stuck, Range
    <3>2. \A j \in 1 .. c : n + j # 1
      BY <1>1, <2>1
    <3>3. QED
      BY <1>8, <3>1, <3>2
  <2>4. 1 \notin Range(G.params)
    BY <2>3 DEF Range
  <2>5. QED
    BY <1>12, <2>1, <2>2, <2>4 DEF Stuck, Grown, IsParam
<1>13. QED
  BY <1>11, <1>12 DEF StillGraph

\* Tensor u is the result of op on ins, and the leaves were there before.
Computes(T, tp, U, up, op, ins, params, c, u) ==
    /\ Later(T, tp, U, up) /\ DOMAIN T = 1 .. Len(T) /\ Len(T) \in Nat /\ u = Len(T) + 1
    /\ DOMAIN U = 1 .. u /\ DOMAIN up = 1 .. u
    /\ up[u] = [op |-> op, inputs |-> ins] /\ ins \in [1 .. Arity(op) -> 1 .. Len(T)]
    /\ U[u].requiresGrad <=> \E k \in 1 .. Arity(op) : T[ins[k]].requiresGrad
    /\ params \in [1 .. c -> 1 .. Len(T)]
    /\ \A i \in 1 .. c : T[params[i]].requiresGrad

\* The registered leaves and the result point into Function f, n nodes long.
Points(T, U, f, n, params, c, u) ==
    /\ \A t \in DOMAIN T : U[t].fn = f =>
          \/ T[t].fn = f /\ U[t].node = T[t].node
          \/ \E j \in 1 .. c : params[j] = t /\ U[t].node = n + j
    /\ U[u].fn = f /\ U[u].node = n + c + 1

\* og: the tensors of the nodes of F, of, and those of the nodes that are new.
OfGrown(og, of, n, params, c, u) ==
    /\ DOMAIN og = 1 .. n + c + 1 /\ og = [i \in 1 .. n + c + 1 |-> og[i]]
    /\ \A i \in 1 .. n : og[i] = of[i]
    /\ \A k \in 1 .. c : og[n + k] = params[k]
    /\ og[n + c + 1] = u

LEMMA OfGrownExists ==
    ASSUME NEW of, NEW n \in Nat, NEW params, NEW c \in Nat, NEW u
    PROVE  \E og : OfGrown(og, of, n, params, c, u)
<1> DEFINE og == [i \in 1 .. n + c + 1 |->
                    IF i <= n THEN of[i] ELSE IF i <= n + c THEN params[i - n] ELSE u]
<1>1. ASSUME NEW k \in 1 .. c PROVE og[n + k] = params[k]
  <2>1. /\ n + k \in 1 .. n + c + 1 /\ ~(n + k <= n) /\ n + k <= n + c
        /\ (n + k) - n = k
    OBVIOUS
  <2>2. QED
    BY <2>1
<1>2. n + c + 1 \in 1 .. n + c + 1 /\ ~(n + c + 1 <= n) /\ ~(n + c + 1 <= n + c)
  OBVIOUS
<1>3. \A i \in 1 .. n : og[i] = of[i]
  OBVIOUS
<1>4. og[n + c + 1] = u
  BY <1>2
<1>5. DOMAIN og = 1 .. n + c + 1 /\ og = [i \in 1 .. n + c + 1 |-> og[i]]
  OBVIOUS
<1> HIDE DEF og
<1>6. OfGrown(og, of, n, params, c, u)
  BY <1>1, <1>3, <1>4, <1>5 DEF OfGrown
<1>7. QED
  BY <1>6

PointersInto(F, f, T) == \A t \in DOMAIN T : T[t].fn = f => T[t].node \in Ids(F.nodes)

Traced(F, f, T, tp) ==
    \E of \in [Ids(F.nodes) -> DOMAIN tp] : Traces(F, of, T, tp) /\ Leads(f, of, T)

LEMMA TracesGrown ==
    ASSUME NEW F \in FunctionRecord, NEW G, NEW op \in Ops, NEW edges, NEW params,
           NEW c \in Nat, NEW n \in Nat, n = Len(F.nodes), NEW id, id = n + c + 1,
           NEW u, NEW T, NEW tp, NEW U, NEW up, NEW f, NEW ins,
           Grown(F, G, op, edges, params, c, u), GraphOK(F, table),
           EdgesFound(F, T, f, op, ins, params, c, edges),
           Computes(T, tp, U, up, op, ins, params, c, u),
           Points(T, U, f, Len(F.nodes), params, c, u),
           NEW of \in [Ids(F.nodes) -> DOMAIN tp],
           Traces(F, of, T, tp), Leads(f, of, T),
           PointersInto(F, f, T)
    PROVE  Traced(G, f, U, up)
<1>1. /\ n \in Nat /\ Len(G.nodes) = id /\ Ids(F.nodes) = 1 .. n /\ Ids(G.nodes) = 1 .. id
      /\ \A i \in 1 .. n : G.nodes[i] = F.nodes[i]
      /\ \A k \in 1 .. c : G.nodes[n + k] = ParamNode
      /\ G.nodes[id] = OpNode(op, edges)
  BY DEF Grown, Extension, Ids
<1>2. ASSUME NEW i \in 1 .. id PROVE i \in 1 .. n \/ (\E k \in 1 .. c : i = n + k) \/ i = id
  <2>1. CASE i > n /\ i # id
    <3>1. i - n \in 1 .. c /\ i = n + (i - n)
      BY <1>1, <2>1
    <3>2. QED
      BY <3>1
  <2>2. QED
    BY <1>1, <2>1
<1>3. Traces(F, of, U, up) /\ of \in [Ids(F.nodes) -> DOMAIN up]
  BY TracesLater DEF Computes
<1> PICK og : OfGrown(og, of, n, params, c, u)
  BY OfGrownExists
<1>4. /\ DOMAIN og = 1 .. id
      /\ \A i \in 1 .. n : og[i] = of[i]
      /\ \A k \in 1 .. c : og[n + k] = params[k]
      /\ og[id] = u
  BY DEF OfGrown
<1>5. og \in [1 .. id -> DOMAIN up]
  <2>1. og = [i \in 1 .. id |-> og[i]]
    BY <1>4 DEF OfGrown
  <2>2. ASSUME NEW i \in 1 .. id PROVE og[i] \in DOMAIN up
    <3>1. CASE i \in 1 .. n
      BY <1>1, <1>3, <1>4, <3>1
    <3>2. ASSUME NEW k \in 1 .. c, i = n + k PROVE og[i] \in DOMAIN up
      <4>1. og[i] = params[k] /\ params[k] \in 1 .. Len(T)
        BY <1>4, <3>2 DEF Computes
      <4>2. 1 .. Len(T) \subseteq DOMAIN up
        BY DEF Computes
      <4>3. QED
        BY <4>1, <4>2
    <3>3. CASE i = id
      BY <1>4, <3>3 DEF Computes
    <3>4. QED
      BY <1>2, <3>1, <3>2, <3>3
  <2>3. QED
    BY <2>1, <2>2
<1>6. ASSUME NEW i \in 1 .. n, ~IsParam(G.nodes, i) PROVE ResultIs(G, og, U, up, i)
  <2>1. ~IsParam(F.nodes, i) /\ G.nodes[i] = F.nodes[i] /\ og[i] = of[i]
    BY <1>1, <1>4, <1>6 DEF IsParam
  <2>2. ResultIs(F, of, U, up, i)
    BY <1>1, <1>3, <2>1 DEF Traces
  <2>3. F.nodes[i].inputs \in Seq(NoNode .. (i - 1)) /\ Len(F.nodes[i].inputs) = Arity(F.nodes[i].op)
    <3>1. F.nodes[i] # ParamNode
      BY <2>1 DEF IsParam, ParamNode
    <3>2. QED
      BY <1>1, <3>1 DEF GraphOK, Recorded
  <2>4. ASSUME NEW k \in 1 .. Arity(F.nodes[i].op)
        PROVE  EdgeIs(G, og, U, i, k, up[og[i]].inputs[k])
    <3>1. F.nodes[i].inputs[k] \in NoNode .. (i - 1)
      <4>1. k \in 1 .. Len(F.nodes[i].inputs)
        BY <2>3
      <4>2. QED
        BY <2>3, <4>1, ElementOf
    <3>2. F.nodes[i].inputs[k] # NoNode => F.nodes[i].inputs[k] \in 1 .. n
      <4>1. \A e \in NoNode .. (i - 1) : e # NoNode => e \in 1 .. n
        BY <1>1 DEF NoNode
      <4>2. QED
        BY <3>1, <4>1
    <3>3. EdgeIs(F, of, U, i, k, up[of[i]].inputs[k])
      BY <2>2 DEF ResultIs
    <3>4. QED
      BY <1>4, <2>1, <3>2, <3>3 DEF EdgeIs
  <2>5. og[i] \in G.computed
    BY <2>1, <2>2 DEF ResultIs, Grown
  <2>6. QED
    BY <2>1, <2>2, <2>4, <2>5 DEF ResultIs
<1>7. ResultIs(G, og, U, up, id)
  <2>1. G.nodes[id].op = op /\ G.nodes[id].inputs = edges /\ og[id] = u
    BY <1>1, <1>4 DEF OpNode
  <2>2. up[u].op = op /\ up[u].inputs = ins /\ u \in G.computed
    BY DEF Computes, Grown
  <2>3. ASSUME NEW k \in 1 .. Arity(op) PROVE EdgeIs(G, og, U, id, k, ins[k])
    <3>1. ins[k] \in DOMAIN T /\ U[ins[k]].requiresGrad = T[ins[k]].requiresGrad
      BY DEF Computes, Later
    <3>2. EdgeFound(F, T, f, params, c, edges[k], ins[k])
      BY DEF EdgesFound
    <3>3. CASE edges[k] = NoNode /\ ~T[ins[k]].requiresGrad
      BY <2>1, <3>1, <3>3 DEF EdgeIs
    <3>4. CASE edges[k] \in Ids(F.nodes) /\ T[ins[k]].fn = f /\ T[ins[k]].node = edges[k]
      <4>1. of[edges[k]] = ins[k]
        BY <3>1, <3>4 DEF Leads
      <4>2. edges[k] # NoNode /\ edges[k] \in 1 .. n
        BY <1>1, <3>4 DEF NoNode
      <4>3. QED
        BY <1>4, <2>1, <4>1, <4>2 DEF EdgeIs
    <3>5. ASSUME NEW j \in 1 .. c, edges[k] = n + j, params[j] = ins[k]
          PROVE  EdgeIs(G, og, U, id, k, ins[k])
      <4>1. edges[k] # NoNode /\ og[edges[k]] = ins[k]
        BY <1>1, <1>4, <3>5 DEF NoNode
      <4>2. QED
        BY <2>1, <4>1 DEF EdgeIs
    <3>6. QED
      BY <3>2, <3>3, <3>4, <3>5 DEF EdgeFound
  <2>4. QED
    BY <2>1, <2>2, <2>3 DEF ResultIs
<1>8. /\ Len(F.params) \in Nat /\ DOMAIN F.params = 1 .. Len(F.params)
      /\ DOMAIN G.params = 1 .. Len(F.params) + c /\ Len(F.leaves) = Len(F.params)
      /\ \A k \in 1 .. c : Len(F.params) + k \in DOMAIN G.params
      /\ \A k \in DOMAIN F.params : k \in DOMAIN G.params
  <2>1. G.params \in Seq(Nat) /\ DOMAIN G.params = 1 .. Len(G.params)
    BY FunctionFields DEF Grown
  <2>2. /\ Len(F.params) \in Nat /\ DOMAIN F.params = 1 .. Len(F.params)
        /\ Len(F.leaves) = Len(F.params) /\ DOMAIN G.params = 1 .. Len(F.params) + c
    BY <2>1, FunctionFields DEF Grown, Traces, LeavesAre
  <2>3. QED
    BY <2>2
<1>9. ASSUME NEW i \in 1 .. id, IsParam(G.nodes, i) PROVE i \in Range(G.params)
  <2>1. CASE i \in 1 .. n
    <3>1. i \in Range(F.params)
      BY <1>1, <1>9, <2>1 DEF Traces, IsParam
    <3>2. PICK k \in DOMAIN F.params : F.params[k] = i
      BY <3>1 DEF Range
    <3>3. G.params[k] = i /\ k \in DOMAIN G.params
      BY <1>8, <3>2 DEF Grown
    <3>4. QED
      BY <3>3 DEF Range
  <2>2. ASSUME NEW k \in 1 .. c, i = n + k PROVE i \in Range(G.params)
    <3>1. G.params[Len(F.params) + k] = i /\ Len(F.params) + k \in DOMAIN G.params
      BY <1>8, <2>2 DEF Grown
    <3>2. QED
      BY <3>1 DEF Range
  <2>3. CASE i = id
    <3>1. G.nodes[id].op = "param"
      BY <1>9, <2>3 DEF IsParam
    <3>2. QED
      BY <1>1, <3>1, OpsAssumption DEF OpNode
  <2>4. QED
    BY <1>2, <2>1, <2>2, <2>3
<1>10. LeavesAre(G, og, U)
  <2>1. Len(G.leaves) = Len(G.params)
    BY <1>8 DEF Grown
  <2>2. ASSUME NEW k \in DOMAIN F.params
        PROVE  og[G.params[k]] = G.leaves[k] /\ U[G.leaves[k]].requiresGrad
    <3>1. G.params[k] = F.params[k] /\ G.leaves[k] = F.leaves[k]
      BY <1>8 DEF Grown
    <3>2. of[F.params[k]] = F.leaves[k] /\ U[F.leaves[k]].requiresGrad
      BY <1>3 DEF Traces, LeavesAre
    <3>3. F.params[k] \in 1 .. n
      BY <1>1 DEF GraphOK
    <3>4. QED
      BY <1>4, <3>1, <3>2, <3>3
  <2>3. ASSUME NEW j \in 1 .. c, NEW k, k = Len(F.params) + j
        PROVE  og[G.params[k]] = G.leaves[k] /\ U[G.leaves[k]].requiresGrad
    <3>1. G.params[k] = n + j /\ G.leaves[k] = params[j]
      BY <1>8, <2>3 DEF Grown
    <3>2. U[params[j]].requiresGrad
      BY DEF Computes, Later
    <3>3. QED
      BY <1>4, <3>1, <3>2
  <2>4. ASSUME NEW k \in DOMAIN G.params
        PROVE  k \in DOMAIN F.params \/ \E j \in 1 .. c : k = Len(F.params) + j
    <3>1. CASE k > Len(F.params)
      <4>1. k - Len(F.params) \in 1 .. c /\ k = Len(F.params) + (k - Len(F.params))
        BY <1>8, <3>1
      <4>2. QED
        BY <4>1
    <3>2. QED
      BY <1>8, <3>1
  <2>5. QED
    BY <2>1, <2>2, <2>3, <2>4 DEF LeavesAre
<1>11. \A t \in G.computed : IsResult(U, up, t)
  <2>1. \A t \in F.computed : IsResult(U, up, t)
    BY <1>3 DEF Traces
  <2>2. IsResult(U, up, u)
    <3>1. /\ u \in DOMAIN up /\ up[u].op = op /\ up[u].inputs = ins
          /\ DOMAIN ins = 1 .. Arity(op) /\ \A k \in 1 .. Arity(op) : ins[k] \in DOMAIN T
      <4>1. u \in DOMAIN up
        BY DEF Computes
      <4>2. up[u].op = op /\ up[u].inputs = ins
        BY DEF Computes
      <4>3. DOMAIN ins = 1 .. Arity(op) /\ \A k \in 1 .. Arity(op) : ins[k] \in DOMAIN T
        BY DEF Computes
      <4>4. QED
        BY <4>1, <4>2, <4>3
    <3>2. Len(ins) = Arity(op)
      <4>1. ins \in [1 .. Arity(op) -> 1 .. Len(T)] /\ Arity(op) \in Nat
        BY ArityIs DEF Computes
      <4>2. QED
        BY <4>1, IsSequence
    <3>3. U[u].requiresGrad <=> \E k \in 1 .. Arity(op) : U[ins[k]].requiresGrad
      BY <3>1 DEF Computes, Later
    <3>4. QED
      BY <3>1, <3>2, <3>3 DEF IsResult
  <2>3. QED
    BY <2>1, <2>2 DEF Grown
<1>12. (G.output = NoNode => G.loss = 0) /\ (G.output # NoNode => og[G.output] = G.loss)
  <2>1. F.output # NoNode => F.output \in 1 .. n
    BY <1>1 DEF GraphOK, NoNode
  <2>2. G.output = NoNode => G.loss = 0
    BY DEF Traces, Grown
  <2>3. G.output # NoNode => og[G.output] = G.loss
    BY <1>4, <2>1 DEF Traces, Grown
  <2>4. QED
    BY <2>2, <2>3
<1>13. Traces(G, og, U, up)
  <2>1. ASSUME NEW i \in 1 .. id, ~IsParam(G.nodes, i) PROVE ResultIs(G, og, U, up, i)
    <3>1. ASSUME NEW k \in 1 .. c PROVE IsParam(G.nodes, n + k)
      <4>1. G.nodes[n + k] = ParamNode
        BY <1>1
      <4>2. QED
        BY <4>1 DEF IsParam, ParamNode
    <3>2. QED
      BY <1>2, <1>6, <1>7, <2>1, <3>1
  <2>2. QED
    BY <1>1, <1>9, <1>10, <1>11, <1>12, <2>1 DEF Traces
<1>14. Leads(f, og, U)
  <2> SUFFICES ASSUME NEW t \in DOMAIN U, U[t].fn = f PROVE og[U[t].node] = t
    BY DEF Leads
  <2>1. CASE t = u
    BY <1>4, <2>1 DEF Points
  <2>2. CASE t \in DOMAIN T /\ T[t].fn = f /\ U[t].node = T[t].node
    <3>1. of[T[t].node] = t
      BY <2>2 DEF Leads
    <3>2. T[t].node \in 1 .. n
      BY <1>1, <2>2 DEF PointersInto
    <3>3. QED
      BY <1>4, <2>2, <3>1, <3>2
  <2>3. ASSUME NEW j \in 1 .. c, params[j] = t, U[t].node = n + j PROVE og[U[t].node] = t
    BY <1>4, <2>3
  <2>4. t = u \/ t \in DOMAIN T
    BY DEF Computes
  <2>5. QED
    BY <2>1, <2>2, <2>3, <2>4 DEF Points
<1>15. QED
  BY <1>1, <1>5, <1>13, <1>14 DEF Traced

-----------------------------------------------------------------------------
(* run_op. *)

\* Where t is among the params.
Place(params, t) == CHOOSE k \in DOMAIN params : params[k] = t

LEMMA PlaceIs ==
    ASSUME NEW params, NEW t, \E k \in DOMAIN params : params[k] = t
    PROVE  Place(params, t) \in DOMAIN params /\ params[Place(params, t)] = t
BY DEF Place

\* The tensors once params are registered in Function f, n nodes long.
Moved(moved, T, f, n, params) ==
    /\ moved \in [DOMAIN T -> TensorRecord]
    /\ \A t \in DOMAIN T :
          /\ moved[t] \in TensorRecord /\ moved[t].requiresGrad = T[t].requiresGrad
          /\ (\E k \in DOMAIN params : params[k] = t) =>
                /\ moved[t].fn = f
                /\ \E k \in DOMAIN params : params[k] = t /\ moved[t].node = n + k
          /\ (\A k \in DOMAIN params : params[k] # t) => moved[t] = T[t]

LEMMA SumIsNat ==
    ASSUME NEW params, DOMAIN params \subseteq Nat, NEW n \in Nat
    PROVE  \A k \in DOMAIN params : n + k \in Nat
OBVIOUS

LEMMA MovedExists ==
    ASSUME NEW T, DOMAIN T \subseteq Nat, \A t \in DOMAIN T : T[t] \in TensorRecord,
           NEW f \in Nat, NEW n \in Nat, NEW params, DOMAIN params \subseteq Nat,
           NEW moved,
           moved = [t \in DOMAIN T |->
                      IF \E k \in DOMAIN params : params[k] = t
                      THEN [T[t] EXCEPT !.fn = f,
                              !.node = n + Place(params, t)]
                      ELSE T[t]]
    PROVE  Moved(moved, T, f, n, params)
<1>1. ASSUME NEW t \in DOMAIN T, \A k \in DOMAIN params : params[k] # t
      PROVE  moved[t] = T[t]
  BY <1>1
<1>2. ASSUME NEW t \in DOMAIN T, NEW j \in DOMAIN params, params[j] = t
      PROVE  /\ moved[t] \in TensorRecord /\ moved[t].requiresGrad = T[t].requiresGrad
             /\ moved[t].fn = f
             /\ \E k \in DOMAIN params : params[k] = t /\ moved[t].node = n + k
  <2> DEFINE k == Place(params, t)
  <2>1. k \in DOMAIN params /\ params[k] = t
    BY <1>2, PlaceIs
  <2>2. n + k \in Nat
    BY <2>1, SumIsNat
  <2>3. moved[t] = [T[t] EXCEPT !.fn = f, !.node = n + k]
    BY <1>2
  <2> HIDE DEF k
  <2>4. T[t] \in TensorRecord
    OBVIOUS
  <2>5. /\ moved[t] \in TensorRecord /\ moved[t].requiresGrad = T[t].requiresGrad
        /\ moved[t].fn = f /\ moved[t].node = n + k
    BY <2>2, <2>3, <2>4 DEF TensorRecord
  <2>6. QED
    BY <2>1, <2>5
<1>4. ASSUME NEW t \in DOMAIN T
      PROVE  /\ moved[t] \in TensorRecord /\ moved[t].requiresGrad = T[t].requiresGrad
             /\ (\E k \in DOMAIN params : params[k] = t) =>
                   /\ moved[t].fn = f
                   /\ \E k \in DOMAIN params : params[k] = t /\ moved[t].node = n + k
             /\ (\A k \in DOMAIN params : params[k] # t) => moved[t] = T[t]
  <2>1. CASE \A k \in DOMAIN params : params[k] # t
    BY <1>1, <2>1
  <2>2. CASE \E k \in DOMAIN params : params[k] = t
    BY <1>2, <2>2
  <2>3. QED
    BY <2>1, <2>2
<1>5. moved \in [DOMAIN T -> TensorRecord]
  BY <1>4
<1>6. QED
  BY <1>4, <1>5 DEF Moved

NeededAre(params, T, f, op, ins) ==
    \A k \in 1 .. Arity(op) : T[ins[k]].requiresGrad /\ T[ins[k]].fn # f
       => \E i \in DOMAIN params : params[i] = ins[k]

\* The edges of the op.
EdgesAt(op, ins, moved, f) == [k \in 1 .. Arity(op) |-> EdgeTo(moved[ins[k]], f)]

LEMMA EdgesOfOp ==
    ASSUME NEW F \in FunctionRecord, NEW T, NEW f, NEW n \in Nat, n = Len(F.nodes),
           NEW c \in Nat, NEW params \in [1 .. c -> DOMAIN T], NEW moved,
           Moved(moved, T, f, n, params),
           NEW op, NEW ins \in [1 .. Arity(op) -> DOMAIN T],
           PointersInto(F, f, T), NeededAre(params, T, f, op, ins),
           NEW edges, edges = EdgesAt(op, ins, moved, f)
    PROVE  EdgesFound(F, T, f, op, ins, params, c, edges)
<1>1. Ids(F.nodes) = 1 .. n
  BY DEF Ids
<1>2. ASSUME NEW k \in 1 .. Arity(op)
      PROVE  edges[k] \in 0 .. n + c /\ EdgeFound(F, T, f, params, c, edges[k], ins[k])
  <2> PICK t \in DOMAIN T : t = ins[k]
    OBVIOUS
  <2>1. edges[k] = EdgeTo(moved[t], f)
    BY DEF EdgesAt
  <2>2. CASE \E i \in DOMAIN params : params[i] = t
    <3>1. PICK i \in DOMAIN params : params[i] = t /\ moved[t].node = n + i /\ moved[t].fn = f
      BY <2>2 DEF Moved
    <3>2. edges[k] = n + i /\ i \in 1 .. c
      BY <2>1, <3>1 DEF EdgeTo
    <3>3. QED
      BY <3>1, <3>2 DEF EdgeFound
  <2>3. CASE ~\E i \in DOMAIN params : params[i] = t
    <3>1. moved[t] = T[t]
      BY <2>3 DEF Moved
    <3>2. CASE T[t].fn = f
      <4>1. edges[k] = T[t].node /\ T[t].node \in 1 .. n
        BY <1>1, <2>1, <3>1, <3>2 DEF EdgeTo, PointersInto
      <4>2. QED
        BY <1>1, <3>2, <4>1 DEF EdgeFound
    <3>3. CASE T[t].fn # f
      <4>1. edges[k] = NoNode /\ ~T[t].requiresGrad
        BY <2>1, <2>3, <3>1, <3>3 DEF EdgeTo, NeededAre
      <4>2. QED
        BY <4>1 DEF EdgeFound, NoNode
    <3>4. QED
      BY <3>2, <3>3
  <2>4. QED
    BY <2>2, <2>3
<1>3. edges \in [1 .. Arity(op) -> 0 .. n + c]
  BY <1>2 DEF EdgesAt
<1>4. QED
  BY <1>2, <1>3 DEF EdgesFound

\* F with the leaves and the op.
GraphWith(F, n, c, op, edges, params, u) ==
    [F EXCEPT
       !.nodes = F.nodes \o [k \in 1 .. c |-> ParamNode] \o <<OpNode(op, edges)>>,
       !.params = F.params \o [k \in 1 .. c |-> n + k],
       !.kernels = IF table[op] \in ForwardOnly THEN F.kernels
                   ELSE F.kernels \cup {n + c + 1},
       !.leaves = F.leaves \o params,
       !.computed = F.computed \cup {u}]

OutputAt(ins, f, id) == [Output(ins) EXCEPT !.fn = f, !.node = id]

CallIs(fs, f, F, n, op, ins, params, c) ==
    \E moved :
       /\ Moved(moved, tensors, f, n, params)
       /\ functions' = [fs EXCEPT ![f] = GraphWith(F, n, c, op, EdgesAt(op, ins, moved, f),
                                                   params, Len(tensors) + 1)]
       /\ tensors' = Append(moved, OutputAt(ins, f, n + c + 1))

\* What CapturedIn says, in the terms above.
LEMMA CapturedIs ==
    ASSUME NEW fs \in Seq(FunctionRecord), NEW f \in DOMAIN fs,
           NEW F \in FunctionRecord, F = fs[f], NEW n \in Nat, n = Len(F.nodes),
           NEW op \in Ops, NEW m \in Nat, m = Arity(op),
           NEW ins \in [1 .. m -> DOMAIN tensors],
           NEW params, params = ToRegister(f, ins), NEW c \in Nat, c = Len(params),
           DOMAIN params = 1 .. c,
           CapturedIn(f, fs, op, ins),
           DOMAIN tensors \subseteq Nat, \A t \in DOMAIN tensors : tensors[t] \in TensorRecord
    PROVE  CallIs(fs, f, F, n, op, ins, params, c)
<1> DEFINE moved == [t \in DOMAIN tensors |->
                      IF \E k \in DOMAIN ToRegister(f, ins) : ToRegister(f, ins)[k] = t
                      THEN [tensors[t] EXCEPT !.fn = f,
                              !.node = Len(fs[f].nodes) + Place(ToRegister(f, ins), t)]
                      ELSE tensors[t]]
           q == [k \in DOMAIN ToRegister(f, ins) |-> ParamNode]
           r == [k \in DOMAIN ToRegister(f, ins) |-> Len(fs[f].nodes) + k]
           edges == [k \in DOMAIN ins |-> EdgeTo(moved[ins[k]], f)]
           id == Len(fs[f].nodes) + Len(ToRegister(f, ins)) + 1
           G == [fs[f] EXCEPT
                    !.nodes = @ \o q \o <<OpNode(op, edges)>>,
                    !.params = @ \o r,
                    !.kernels = IF table[op] \in ForwardOnly THEN @ ELSE @ \cup {id},
                    !.leaves = @ \o ToRegister(f, ins),
                    !.computed = @ \cup {Len(tensors) + 1}]
<1>1. functions' = [fs EXCEPT ![f] = G]
  BY DEF CapturedIn, Place
<1>2. tensors' = Append(moved, [Output(ins) EXCEPT !.fn = f, !.node = id])
  BY DEF CapturedIn, Place
<1>3. Moved(moved, tensors, f, n, params)
  <2>1. Moved(moved, tensors, f, Len(fs[f].nodes), ToRegister(f, ins))
    <3>1. f \in Nat /\ DOMAIN ToRegister(f, ins) \subseteq Nat /\ Len(fs[f].nodes) \in Nat
      BY LenProperties
    <3>2. QED
      BY <3>1, MovedExists
  <2> HIDE DEF moved
  <2>2. QED
    BY <2>1
<1> HIDE DEF moved
<1>4. edges = EdgesAt(op, ins, moved, f)
  <2>1. DOMAIN ins = 1 .. m
    OBVIOUS
  <2>2. QED
    BY <2>1 DEF EdgesAt
<1>5. q = [k \in 1 .. c |-> ParamNode]
  OBVIOUS
<1>6. r = [k \in 1 .. c |-> n + k]
  OBVIOUS
<1> HIDE DEF edges, q, r
<1>7. id = n + c + 1
  OBVIOUS
<1>8. G = GraphWith(F, n, c, op, edges, params, Len(tensors) + 1)
  BY <1>5, <1>6, <1>7 DEF GraphWith
<1>9. tensors' = Append(moved, OutputAt(ins, f, n + c + 1))
  BY <1>2, <1>7 DEF OutputAt
<1> HIDE DEF G
<1>10. QED
  BY <1>1, <1>3, <1>4, <1>8, <1>9 DEF CallIs

Concatenation(q, s, x, S) ==
    /\ q \in Seq(S) /\ Len(q) = Len(s) + Len(x)
    /\ \A i \in 1 .. Len(s) : q[i] = s[i]
    /\ \A i \in 1 .. Len(x) : q[Len(s) + i] = x[i]

LEMMA ConcatenationIs ==
    ASSUME NEW S, NEW s \in Seq(S), NEW x \in Seq(S)
    PROVE  Concatenation(s \o x, s, x, S)
<1> PICK q : q = s \o x
  OBVIOUS
<1>1. Concatenation(q, s, x, S)
  BY Concatenated DEF Concatenation
<1>2. QED
  BY <1>1

LEMMA NewGraph ==
    ASSUME NEW F \in FunctionRecord, NEW n \in Nat, n = Len(F.nodes), NEW c \in Nat,
           NEW op \in Ops, NEW edges \in Seq(Nat), NEW params \in [1 .. c -> Nat], NEW u \in Nat,
           NEW G, G = GraphWith(F, n, c, op, edges, params, u)
    PROVE  Grown(F, G, op, edges, params, c, u)
<1> DEFINE kernels == IF table[op] \in ForwardOnly THEN F.kernels
                      ELSE F.kernels \cup {n + c + 1}
           x == [k \in 1 .. c |-> ParamNode]
           y == OpNode(op, edges)
           r == [k \in 1 .. c |-> n + k]
           nodes == F.nodes \o x \o <<y>>
           ps == F.params \o r
           ls == F.leaves \o params
<1>1. x \in [1 .. c -> Node] /\ y \in Node
  BY EmptySeq DEF ParamNode, Node, OpNode
<1>2. F.nodes \in Seq(Node) /\ F.params \in Seq(Nat) /\ F.leaves \in Seq(Nat)
  BY FunctionFields
<1>3. Extension(nodes, F.nodes, c, x, y, Node)
  <2> HIDE DEF x, y
  <2>1. QED
    BY <1>1, <1>2, Extended
<1>4. r \in Seq(Nat) /\ Len(r) = c /\ params \in Seq(Nat) /\ Len(params) = c
  <2>1. r \in [1 .. c -> Nat]
    OBVIOUS
  <2>2. QED
    BY <2>1, IsSequence
<1>5. Concatenation(ps, F.params, r, Nat) /\ Concatenation(ls, F.leaves, params, Nat)
  BY <1>2, <1>4, ConcatenationIs
<1>6. /\ ps \in Seq(Nat) /\ Len(ps) = Len(F.params) + Len(r)
      /\ \A i \in 1 .. Len(F.params) : ps[i] = F.params[i]
      /\ \A i \in 1 .. Len(r) : ps[Len(F.params) + i] = r[i]
      /\ ls \in Seq(Nat) /\ Len(ls) = Len(F.leaves) + Len(params)
      /\ \A i \in 1 .. Len(F.leaves) : ls[i] = F.leaves[i]
      /\ \A i \in 1 .. Len(params) : ls[Len(F.leaves) + i] = params[i]
  <2> HIDE DEF ps, ls, r
  <2>1. QED
    BY <1>5 DEF Concatenation
<1>7. G = [F EXCEPT !.nodes = nodes, !.params = ps, !.kernels = kernels, !.leaves = ls,
                    !.computed = F.computed \cup {u}]
  BY DEF GraphWith
<1>20. \A k \in 1 .. c : r[k] = n + k
  OBVIOUS
<1>21. kernels \in {F.kernels, F.kernels \cup {n + c + 1}}
  OBVIOUS
<1> HIDE DEF nodes, ps, ls, r, kernels
<1>8. nodes \in Seq(Node)
  BY <1>3 DEF Extension
<1>9. /\ G.nodes = nodes /\ G.params = ps /\ G.kernels = kernels /\ G.leaves = ls
      /\ G.computed = F.computed \cup {u} /\ G.released = F.released
      /\ G.output = F.output /\ G.loss = F.loss /\ G.loaded = F.loaded
  BY <1>7 DEF FunctionRecord
<1>10. kernels \subseteq Nat /\ F.computed \cup {u} \subseteq Nat
  BY <1>21, FunctionFields
<1>11. G \in FunctionRecord
  BY <1>6, <1>7, <1>8, <1>10 DEF FunctionRecord
<1>12. \A k \in 1 .. c : ps[Len(F.params) + k] = n + k
  BY <1>4, <1>6, <1>20
<1>13. Extension(G.nodes, F.nodes, c, [k \in 1 .. c |-> ParamNode], OpNode(op, edges), Node)
  BY <1>3, <1>9
<1>14. /\ Len(G.params) = Len(F.params) + c
       /\ \A k \in 1 .. Len(F.params) : G.params[k] = F.params[k]
       /\ \A k \in 1 .. c : G.params[Len(F.params) + k] = Len(F.nodes) + k
  BY <1>4, <1>6, <1>9, <1>12
<1>15. /\ Len(G.leaves) = Len(F.leaves) + c
       /\ \A k \in 1 .. Len(F.leaves) : G.leaves[k] = F.leaves[k]
       /\ \A k \in 1 .. c : G.leaves[Len(F.leaves) + k] = params[k]
  BY <1>4, <1>6, <1>9
<1>16. QED
  BY <1>9, <1>11, <1>13, <1>14, <1>15, <1>21 DEF Grown

-----------------------------------------------------------------------------
(* One more tensor. *)

MoreBy(T, tp, M, out, rec, U, up, u) ==
    /\ U \in Seq(TensorRecord) /\ up \in Seq(TapeRecord) /\ TapeOK(U, up)
    /\ Later(T, tp, U, up)
    /\ DOMAIN T = 1 .. Len(T) /\ Len(T) \in Nat /\ DOMAIN U = 1 .. u /\ DOMAIN up = 1 .. u
    /\ U[u] = out /\ up[u] = rec /\ \A t \in DOMAIN T : U[t] = M[t]

LEMMA OneMore ==
    ASSUME NEW T \in Seq(TensorRecord), NEW tp \in Seq(TapeRecord), TapeOK(T, tp),
           NEW M \in [DOMAIN T -> TensorRecord],
           \A t \in DOMAIN T : M[t].requiresGrad = T[t].requiresGrad,
           NEW out \in TensorRecord, NEW U, U = Append(M, out),
           NEW rec \in TapeRecord, \A k \in DOMAIN rec.inputs : rec.inputs[k] \in DOMAIN T,
           NEW up, up = Append(tp, rec), NEW u, u = Len(T) + 1
    PROVE  MoreBy(T, tp, M, out, rec, U, up, u)
<1>1. /\ DOMAIN T = 1 .. Len(T) /\ DOMAIN tp = 1 .. Len(T) /\ Len(T) \in Nat /\ Len(tp) = Len(T)
      /\ \A t \in DOMAIN tp : \A k \in DOMAIN tp[t].inputs : tp[t].inputs[k] \in 1 .. t - 1
      /\ \A t \in DOMAIN tp : \A k \in DOMAIN tp[t].inputs : tp[t].inputs[k] \in DOMAIN T
  BY TapeEntries DEF TapeOK
<1>2. M \in Seq(TensorRecord) /\ Len(M) = Len(T)
  BY <1>1, IsSequence
<1>3. /\ U \in Seq(TensorRecord) /\ Len(U) = u /\ DOMAIN U = 1 .. u
      /\ U[u] = out /\ \A t \in 1 .. Len(T) : U[t] = M[t]
  BY <1>1, <1>2, AppendProperties, LenProperties
<1>4. /\ up \in Seq(TapeRecord) /\ Len(up) = u /\ DOMAIN up = 1 .. u
      /\ up[u] = rec /\ \A t \in 1 .. Len(T) : up[t] = tp[t]
  BY <1>1, AppendProperties, LenProperties
<1>5. ASSUME NEW t \in DOMAIN up, NEW k \in DOMAIN up[t].inputs
      PROVE  up[t].inputs[k] \in 1 .. t - 1
  <2>1. CASE t = u
    BY <1>1, <1>4, <2>1
  <2>2. CASE t # u
    <3>1. t \in 1 .. Len(T)
      BY <1>1, <1>4, <2>2
    <3>2. QED
      BY <1>1, <1>4, <3>1
  <2>3. QED
    BY <2>1, <2>2
<1>6. TapeOK(U, up)
  BY <1>3, <1>4, <1>5 DEF TapeOK
<1>7. 1 .. Len(T) \subseteq 1 .. u
  BY <1>1
<1>8. Later(T, tp, U, up)
  BY <1>1, <1>3, <1>4, <1>7 DEF Later
<1>9. QED
  BY <1>1, <1>3, <1>4, <1>6, <1>8 DEF MoreBy

\* What run_op puts on the tape.
LEMMA CallOnTape ==
    ASSUME NEW T \in Seq(TensorRecord), NEW op \in Ops, NEW ins \in [1 .. Arity(op) -> DOMAIN T],
           NEW rec, rec = [op |-> op, inputs |-> ins]
    PROVE  rec \in TapeRecord /\ \A k \in DOMAIN rec.inputs : rec.inputs[k] \in DOMAIN T
<1>1. Arity(op) \in Nat /\ DOMAIN T \subseteq Nat
  BY ArityIs, LenProperties
<1>2. ins \in [1 .. Arity(op) -> Nat]
  BY <1>1
<1>3. ins \in Seq(Nat)
  BY <1>1, <1>2, IsSequence
<1>4. QED
  BY <1>3 DEF TapeRecord

LEMMA FunctionsLater ==
    ASSUME NEW fs, NEW T, NEW tp, Data(fs, T, tp), NEW U, NEW up, Later(T, tp, U, up),
           NEW g \in DOMAIN fs, Unvisited(g, T, U)
    PROVE  FunctionInv(fs[g], g, table, U, up)
<1>1. fs[g] \in FunctionRecord /\ FunctionInv(fs[g], g, table, T, tp)
  BY LenProperties DEF Data, FunctionsInv
<1>2. QED
  BY <1>1, FunctionLater

LEMMA Uncaptured ==
    ASSUME NEW fs, NEW T, NEW tp, Data(fs, T, tp),
           NEW out \in TensorRecord, out.fn = NoFunction, NEW U, U = Append(T, out),
           NEW rec \in TapeRecord, \A k \in DOMAIN rec.inputs : rec.inputs[k] \in DOMAIN T,
           NEW up, up = Append(tp, rec)
    PROVE  Data(fs, U, up)
<1> PICK u : u = Len(T) + 1
  OBVIOUS
<1>1. T \in [DOMAIN T -> TensorRecord] /\ DOMAIN fs = 1 .. Len(fs) /\ Len(fs) \in Nat
  BY LenProperties DEF Data
<1>2. /\ U \in Seq(TensorRecord) /\ up \in Seq(TapeRecord) /\ TapeOK(U, up)
      /\ Later(T, tp, U, up)
      /\ DOMAIN T = 1 .. Len(T) /\ Len(T) \in Nat /\ DOMAIN U = 1 .. u /\ DOMAIN up = 1 .. u
      /\ U[u] = out /\ up[u] = rec /\ \A t \in DOMAIN T : U[t] = T[t]
  <2>1. /\ T \in Seq(TensorRecord) /\ tp \in Seq(TapeRecord) /\ TapeOK(T, tp)
        /\ \A t \in DOMAIN T : T[t].requiresGrad = T[t].requiresGrad
    BY DEF Data
  <2>2. MoreBy(T, tp, T, out, rec, U, up, u)
    BY <1>1, <2>1, OneMore
  <2>3. QED
    BY <2>2 DEF MoreBy
<1>3. \A t \in DOMAIN U : t \in DOMAIN T \/ t = u
  BY <1>2
<1>4. \A g \in DOMAIN fs : Unvisited(g, T, U)
  BY <1>1, <1>2, <1>3 DEF Unvisited, NoFunction
<1>5. FunctionsInv(fs, table, U, up)
  BY <1>2, <1>4, FunctionsLater DEF FunctionsInv
<1>6. \A t \in DOMAIN U : U[t].fn \in NoFunction .. Len(fs)
  BY <1>1, <1>2, <1>3 DEF Data, NoFunction
<1>7. QED
  BY <1>2, <1>5, <1>6 DEF Data

\* A call that is captured in Function f of fs: of the other Functions nothing
\* changes, and f has what TracesGrown says.
LEMMA CaptureKeepsData ==
    ASSUME NEW fs, Data(fs, tensors, tape), NEW f \in DOMAIN fs,
           NEW op \in Ops, table[op] # "none", NEW ins \in [1 .. Arity(op) -> DOMAIN tensors],
           CapturedIn(f, fs, op, ins), tape' = Append(tape, [op |-> op, inputs |-> ins])
    PROVE  Data(functions', tensors', tape') /\ Len(functions') = Len(fs)
<1> DEFINE F == fs[f]
           n == Len(F.nodes)
           params == ToRegister(f, ins)
           m == Arity(op)
           u == Len(tensors) + 1
           rec == [op |-> op, inputs |-> ins]
<1>1. /\ tensors \in Seq(TensorRecord) /\ tape \in Seq(TapeRecord) /\ TapeOK(tensors, tape)
      /\ fs \in Seq(FunctionRecord) /\ DOMAIN fs = 1 .. Len(fs) /\ Len(fs) \in Nat
      /\ DOMAIN tensors = 1 .. Len(tensors) /\ Len(tensors) \in Nat
      /\ DOMAIN tape = DOMAIN tensors
      /\ \A t \in DOMAIN tensors : tensors[t] \in TensorRecord
  BY TapeEntries, LenProperties DEF Data
<1>2. /\ F \in FunctionRecord /\ n \in Nat /\ f \in Nat /\ m \in Nat
      /\ FunctionInv(F, f, table, tensors, tape)
  <2>1. F \in FunctionRecord
    BY <1>1, ElementOf
  <2>2. n \in Nat
    BY <2>1, FunctionFields
  <2>3. QED
    BY <1>1, <2>1, <2>2, ArityIs DEF Data, FunctionsInv
<1>3. Registers(params, f, m, ins)
  BY <1>2, Registering
<1> HIDE DEF F, n, params, m, u, rec
<1> PICK c \in Nat : params \in [1 .. c -> DOMAIN tensors]
  BY <1>3 DEF Registers
<1>4. /\ \A i \in DOMAIN params : tensors[params[i]].requiresGrad /\ tensors[params[i]].fn # f
      /\ NeededAre(params, tensors, f, op, ins)
  BY <1>3 DEF Registers, NeededAre, m
<1>5. params \in Seq(Nat) /\ Len(params) = c /\ DOMAIN params = 1 .. c
      /\ params \in [1 .. c -> Nat]
  <2>1. params \in [1 .. c -> Nat]
    BY <1>1
  <2>2. QED
    BY <2>1, IsSequence
<1>6. CallIs(fs, f, F, n, op, ins, params, c)
  <2>1. DOMAIN tensors \subseteq Nat
    BY <1>1
  <2>2. ins \in [1 .. m -> DOMAIN tensors] /\ c = Len(params) /\ DOMAIN params = 1 .. c
        /\ m = Arity(op) /\ params = ToRegister(f, ins) /\ n = Len(F.nodes) /\ F = fs[f]
    BY <1>5 DEF F, n, m, params
  <2>3. QED
    BY <1>1, <1>2, <2>1, <2>2, CapturedIs
<1>7. PICK moved :
         /\ Moved(moved, tensors, f, n, params)
         /\ functions' = [fs EXCEPT ![f] = GraphWith(F, n, c, op, EdgesAt(op, ins, moved, f),
                                                     params, u)]
         /\ tensors' = Append(moved, OutputAt(ins, f, n + c + 1))
  BY <1>6 DEF CallIs, u
<1> DEFINE edges == EdgesAt(op, ins, moved, f)
           G == GraphWith(F, n, c, op, edges, params, u)
           out == OutputAt(ins, f, n + c + 1)
<1>30. functions' = [fs EXCEPT ![f] = G] /\ tensors' = Append(moved, out)
  BY <1>7
<1>31. edges = EdgesAt(op, ins, moved, f) /\ G = GraphWith(F, n, c, op, edges, params, u)
       /\ out = OutputAt(ins, f, n + c + 1)
  OBVIOUS
<1> HIDE DEF edges, G, out
<1>8. EdgesFound(F, tensors, f, op, ins, params, c, edges)
  <2>1. PointersInto(F, f, tensors) /\ n = Len(F.nodes)
    BY <1>2 DEF FunctionInv, PointersInto, n
  <2>2. QED
    BY <1>2, <1>4, <1>7, <1>31, <2>1, EdgesOfOp
<1>9. Grown(F, G, op, edges, params, c, u)
  <2>1. edges \in Seq(Nat) /\ u \in Nat
    <3>1. edges \in [1 .. m -> 0 .. n + c]
      BY <1>8 DEF EdgesFound, m, n
    <3>2. edges \in [1 .. m -> Nat]
      BY <1>2, <3>1
    <3>3. QED
      BY <1>1, <1>2, <3>2, IsSequence DEF u
  <2>2. n = Len(F.nodes)
    BY DEF n
  <2>3. QED
    BY <1>2, <1>5, <1>31, <2>1, <2>2, NewGraph
<1>10. out \in TensorRecord /\ out.fn = f /\ out.node = n + c + 1
       /\ out.requiresGrad = \E k \in DOMAIN ins : tensors[ins[k]].requiresGrad
  <2>1. PICK needs \in BOOLEAN : needs = \E k \in DOMAIN ins : tensors[ins[k]].requiresGrad
    OBVIOUS
  <2>2. PICK plain : plain = [requiresGrad |-> needs, fn |-> NoFunction, node |-> NoNode]
    OBVIOUS
  <2>3. plain = Output(ins)
    BY <2>1, <2>2, Zenon DEF Output
  <2>4. PICK id \in Nat : id = n + c + 1
    BY <1>2
  <2>5. out = [plain EXCEPT !.fn = f, !.node = id]
    BY <1>31, <2>3, <2>4, Zenon DEF OutputAt
  <2>6. out \in TensorRecord /\ out.fn = f /\ out.node = id /\ out.requiresGrad = needs
    BY <1>2, <2>2, <2>5 DEF TensorRecord
  <2>7. QED
    BY <2>1, <2>4, <2>6
<1>11. rec \in TapeRecord /\ \A k \in DOMAIN rec.inputs : rec.inputs[k] \in DOMAIN tensors
  BY <1>1, CallOnTape DEF rec
<1>12. /\ moved \in [DOMAIN tensors -> TensorRecord]
       /\ \A t \in DOMAIN tensors : moved[t].requiresGrad = tensors[t].requiresGrad
  BY <1>7 DEF Moved
<1> DEFINE U == tensors'
           up == tape'
<1>13. /\ U \in Seq(TensorRecord) /\ up \in Seq(TapeRecord) /\ TapeOK(U, up)
       /\ Later(tensors, tape, U, up)
       /\ DOMAIN U = 1 .. u /\ DOMAIN up = 1 .. u
       /\ U[u] = out /\ up[u] = rec /\ \A t \in DOMAIN tensors : U[t] = moved[t]
  <2>1. U = Append(moved, out) /\ up = Append(tape, rec) /\ u = Len(tensors) + 1
    BY <1>30 DEF rec, u
  <2> HIDE DEF U, up
  <2>2. MoreBy(tensors, tape, moved, out, rec, U, up, u)
    BY <1>1, <1>10, <1>11, <1>12, <2>1, OneMore
  <2>3. QED
    BY <2>2 DEF MoreBy
<1> HIDE DEF U, up
<1>14. \A t \in DOMAIN U : t \in DOMAIN tensors \/ t = u
  BY <1>1, <1>13 DEF u
<1>15. ASSUME NEW g \in DOMAIN fs, g # f PROVE Unvisited(g, tensors, U)
  <2> SUFFICES ASSUME NEW t \in DOMAIN U, U[t].fn = g
               PROVE  t \in DOMAIN tensors /\ tensors[t].fn = g /\ tensors[t].node = U[t].node
    BY DEF Unvisited
  <2>1. t # u
    BY <1>10, <1>13, <1>15
  <2>2. t \in DOMAIN tensors /\ U[t] = moved[t]
    BY <1>13, <1>14, <2>1
  <2>3. moved[t] = tensors[t]
    BY <1>7, <1>15, <2>2 DEF Moved
  <2>4. QED
    BY <2>2, <2>3
<1>16. Computes(tensors, tape, U, up, op, ins, params, c, u)
  <2>1. /\ DOMAIN tensors = 1 .. Len(tensors) /\ Len(tensors) \in Nat /\ u = Len(tensors) + 1
        /\ ins \in [1 .. Arity(op) -> 1 .. Len(tensors)] /\ DOMAIN ins = 1 .. Arity(op)
    BY <1>1 DEF u
  <2>2. params \in [1 .. c -> 1 .. Len(tensors)]
        /\ \A i \in 1 .. c : tensors[params[i]].requiresGrad
    BY <1>1, <1>3, <1>4
  <2>3. U[u].requiresGrad <=> \E k \in 1 .. Arity(op) : tensors[ins[k]].requiresGrad
    BY <1>10, <1>13, <2>1
  <2>4. QED
    BY <1>13, <2>1, <2>2, <2>3 DEF Computes, rec
<1>17. Points(tensors, U, f, n, params, c, u)
  <2>1. ASSUME NEW t \in DOMAIN tensors, U[t].fn = f
        PROVE  \/ tensors[t].fn = f /\ U[t].node = tensors[t].node
               \/ \E j \in 1 .. c : params[j] = t /\ U[t].node = n + j
    <3>1. CASE \A k \in DOMAIN params : params[k] # t
      BY <1>7, <1>13, <2>1, <3>1 DEF Moved
    <3>2. CASE \E k \in DOMAIN params : params[k] = t
      BY <1>5, <1>7, <1>13, <3>2 DEF Moved
    <3>3. QED
      BY <3>1, <3>2
  <2>2. QED
    BY <1>10, <1>13, <2>1 DEF Points
<1>18. FunctionInv(G, f, table, U, up)
  <2>1. GraphOK(F, table) /\ (\A t \in DOMAIN tensors : tensors[t].fn = f => tensors[t].node \in Ids(F.nodes))
    BY <1>2 DEF FunctionInv
  <2>2. GraphOK(G, table) /\ (Stuck(F) => Stuck(G))
    BY <1>2, <1>8, <1>9, <2>1, GraphGrown DEF StillGraph
  <2>3. ASSUME NEW t \in DOMAIN U, U[t].fn = f PROVE U[t].node \in Ids(G.nodes)
    <3>1. Ids(G.nodes) = 1 .. n + c + 1 /\ Ids(F.nodes) = 1 .. n
      BY <1>9 DEF Grown, Extension, Ids, n
    <3>2. CASE t = u
      BY <1>2, <1>17, <3>1, <3>2 DEF Points
    <3>3. CASE t # u
      <4>1. t \in DOMAIN tensors
        BY <1>14, <3>3
      <4>2. CASE tensors[t].fn = f /\ U[t].node = tensors[t].node
        <5>1. U[t].node \in 1 .. n
          BY <2>1, <3>1, <4>1, <4>2
        <5>2. QED
          BY <1>2, <3>1, <5>1
      <4>3. CASE \E j \in 1 .. c : params[j] = t /\ U[t].node = n + j
        BY <1>2, <3>1, <4>3
      <4>4. QED
        BY <1>17, <2>3, <4>1, <4>2, <4>3 DEF Points
    <3>4. QED
      BY <3>2, <3>3
  <2>4. ASSUME ~Stuck(F)
        PROVE  \E og \in [Ids(G.nodes) -> DOMAIN up] : Traces(G, og, U, up) /\ Leads(f, og, U)
    <3>1. PICK of \in [Ids(F.nodes) -> DOMAIN tape] : Traces(F, of, tensors, tape) /\ Leads(f, of, tensors)
      BY <1>2, <2>4 DEF FunctionInv
    <3>2. Points(tensors, U, f, Len(F.nodes), params, c, u) /\ n = Len(F.nodes)
      BY <1>17 DEF n
    <3>3. PICK id : id = n + c + 1
      OBVIOUS
    <3>4. PointersInto(F, f, tensors)
      BY <2>1 DEF PointersInto
    <3>5. QED
      BY <1>2, <1>8, <1>9, <1>16, <2>1, <3>1, <3>2, <3>3, <3>4, TracesGrown DEF Traced
  <2>5. QED
    BY <2>2, <2>3, <2>4 DEF FunctionInv
<1>19. functions' \in Seq(FunctionRecord) /\ Len(functions') = Len(fs)
       /\ DOMAIN functions' = DOMAIN fs /\ functions'[f] = G
       /\ \A g \in DOMAIN fs : g # f => functions'[g] = fs[g]
  <2>1. G \in FunctionRecord
    BY <1>9 DEF Grown
  <2>2. QED
    BY <1>1, <1>30, <2>1, ExceptSeq
<1>20. FunctionsInv(functions', table, U, up)
  <2>1. ASSUME NEW g \in DOMAIN fs, g # f PROVE FunctionInv(fs[g], g, table, U, up)
    BY <1>13, <1>15, <2>1, FunctionsLater
  <2>2. QED
    BY <1>18, <1>19, <2>1 DEF FunctionsInv
<1>21. \A t \in DOMAIN U : U[t].fn \in NoFunction .. Len(fs)
  <2> SUFFICES ASSUME NEW t \in DOMAIN U PROVE U[t].fn \in NoFunction .. Len(fs)
    OBVIOUS
  <2>1. f \in NoFunction .. Len(fs)
    BY <1>1 DEF NoFunction
  <2>2. CASE t = u
    BY <1>10, <1>13, <2>1, <2>2
  <2>3. CASE t \in DOMAIN tensors
    <3>1. U[t].fn = f \/ U[t] = tensors[t]
      BY <1>7, <1>13, <2>3 DEF Moved
    <3>2. tensors[t].fn \in NoFunction .. Len(fs)
      BY <2>3 DEF Data
    <3>3. QED
      BY <2>1, <3>1, <3>2
  <2>4. QED
    BY <1>14, <2>2, <2>3
<1>22. QED
  BY <1>13, <1>19, <1>20, <1>21 DEF Data, U, up

-----------------------------------------------------------------------------
(* The other steps. *)

LEMMA NewTensorKeepsData ==
    ASSUME Data(functions, tensors, tape), NEW requiresGrad \in BOOLEAN, NewTensor(requiresGrad)
    PROVE  Data(functions', tensors', tape') /\ UNCHANGED functions
<1> DEFINE out == [requiresGrad |-> requiresGrad, fn |-> NoFunction, node |-> NoNode]
           rec == [op |-> "leaf", inputs |-> <<>>]
<1>1. out \in TensorRecord /\ out.fn = NoFunction
  BY DEF TensorRecord, NoFunction, NoNode
<1>2. rec \in TapeRecord /\ \A k \in DOMAIN rec.inputs : rec.inputs[k] \in DOMAIN tensors
  <2>1. <<>> \in Seq(Nat) /\ DOMAIN <<>> = {}
    BY EmptySeq
  <2>2. QED
    BY <2>1 DEF TapeRecord
<1>3. tensors' = Append(tensors, out) /\ tape' = Append(tape, rec) /\ functions' = functions
  BY DEF NewTensor
<1> HIDE DEF out, rec
<1>4. QED
  BY <1>1, <1>2, <1>3, Uncaptured

\* A graph that has the same nodes.
LEMMA TracesSame ==
    ASSUME NEW F, NEW G, NEW of, NEW T, NEW tp, Traces(F, of, T, tp),
           G.nodes = F.nodes, G.params = F.params, G.leaves = F.leaves, G.computed = F.computed,
           G.output = NoNode => G.loss = 0, G.output # NoNode => of[G.output] = G.loss
    PROVE  Traces(G, of, T, tp)
BY DEF Traces, ResultIs, EdgeIs, LeavesAre

LEMMA BackwardKeepsData ==
    ASSUME Data(functions, tensors, tape), NEW f \in DOMAIN functions, NEW t \in DOMAIN tensors,
           BackwardOf(f, t)
    PROVE  Data(functions', tensors, tape) /\ Len(functions') = Len(functions)
<1> DEFINE F == functions[f]
           out == OutputOf(f, t)
           more == Released(F, out)
           G == [F EXCEPT !.output = out, !.released = F.released \cup more,
                          !.loss = IF F.loss = 0 THEN t ELSE F.loss]
<1>1. /\ tensors \in Seq(TensorRecord) /\ tape \in Seq(TapeRecord) /\ TapeOK(tensors, tape)
      /\ functions \in Seq(FunctionRecord) /\ DOMAIN functions = 1 .. Len(functions)
      /\ Len(functions) \in Nat
      /\ DOMAIN tensors = 1 .. Len(tensors) /\ Len(tensors) \in Nat
      /\ DOMAIN tape = DOMAIN tensors
      /\ \A g \in DOMAIN functions : functions[g] \in FunctionRecord
      /\ \A g \in DOMAIN functions : FunctionInv(functions[g], g, table, tensors, tape)
  BY TapeEntries, LenProperties DEF Data, FunctionsInv
<1>2. /\ F \in FunctionRecord /\ FunctionInv(F, f, table, tensors, tape) /\ GraphOK(F, table)
      /\ PointersInto(F, f, tensors)
  BY <1>1 DEF FunctionInv, PointersInto
<1>3. functions' = [functions EXCEPT ![f] = G] /\ out # NoNode
  <2>1. out # NoNode
    BY DEF BackwardOf
  <2>2. functions' = [functions EXCEPT ![f] = G]
    BY DEF BackwardOf
  <2>3. QED
    BY <2>1, <2>2
<1>4. /\ more \subseteq Ids(F.nodes) /\ more \cap F.kernels = {}
      /\ \A i \in more : UsedByKernel(F, i)
  <2>1. Ran(F, out) \subseteq F.kernels
    BY DEF Ran
  <2>2. QED
    BY <2>1 DEF Released, UsedByKernel
<1>5. /\ F.output # NoNode => out = F.output
      /\ F.output = NoNode => tensors[t].fn = f /\ out = tensors[t].node
  BY <1>3 DEF OutputOf
<1>6. out \in Ids(F.nodes)
  <2>1. F.output # NoNode => F.output \in Ids(F.nodes)
    BY <1>2, FunctionFields DEF GraphOK, Ids, NoNode
  <2>2. QED
    BY <1>2, <1>5, <2>1 DEF PointersInto
<1>7. Ids(F.nodes) = 1 .. Len(F.nodes) /\ Len(F.nodes) \in Nat
  BY <1>2, FunctionFields DEF Ids
<1> HIDE DEF F, out, more
<1>8. G \in FunctionRecord
  <2>1. F.released \cup more \subseteq Nat
    BY <1>2, <1>4, <1>7 DEF GraphOK
  <2>2. out \in Nat /\ t \in Nat
    BY <1>1, <1>6, <1>7
  <2>3. QED
    BY <1>2, <2>1, <2>2 DEF FunctionRecord
<1>9. /\ G.nodes = F.nodes /\ G.params = F.params /\ G.leaves = F.leaves
      /\ G.computed = F.computed /\ G.kernels = F.kernels /\ G.loaded = F.loaded
      /\ G.released = F.released \cup more /\ G.output = out
      /\ G.loss = IF F.loss = 0 THEN t ELSE F.loss
  BY <1>2 DEF FunctionRecord
<1> HIDE DEF G
<1>17. ReleasedByKernels(G)
  BY <1>2, <1>4, <1>9 DEF GraphOK, ReleasedByKernels, UsedByKernel
<1>10. GraphOK(G, table)
  BY <1>2, <1>4, <1>6, <1>7, <1>9, <1>17 DEF GraphOK, NoNode
<1>11. Stuck(F) => Stuck(G)
  BY <1>9 DEF Stuck
<1>12. ASSUME NEW of \in [Ids(F.nodes) -> DOMAIN tape], Traces(F, of, tensors, tape),
              Leads(f, of, tensors)
       PROVE  Traces(G, of, tensors, tape)
  <2>1. CASE F.output # NoNode
    <3>1. of[F.output] = F.loss /\ F.output = out
      BY <1>5, <1>12, <2>1 DEF Traces
    <3>2. F.loss # 0
      BY <1>1, <1>6, <3>1
    <3>3. G.output = out /\ of[out] = G.loss
      BY <1>9, <3>1, <3>2
    <3>4. QED
      BY <1>3, <1>9, <1>12, <3>3, TracesSame
  <2>2. CASE F.output = NoNode
    <3>1. F.loss = 0 /\ tensors[t].fn = f /\ out = tensors[t].node
      BY <1>5, <1>12, <2>2 DEF Traces
    <3>2. of[out] = t
      BY <1>12, <3>1 DEF Leads
    <3>3. G.output = out /\ of[out] = G.loss
      BY <1>9, <3>1, <3>2
    <3>4. QED
      BY <1>3, <1>9, <1>12, <3>3, TracesSame
  <2>3. QED
    BY <2>1, <2>2
<1>13. FunctionInv(G, f, table, tensors, tape)
  BY <1>2, <1>9, <1>10, <1>11, <1>12 DEF FunctionInv
<1>14. /\ functions' \in Seq(FunctionRecord) /\ Len(functions') = Len(functions)
       /\ DOMAIN functions' = DOMAIN functions /\ functions'[f] = G
       /\ \A g \in DOMAIN functions : g # f => functions'[g] = functions[g]
  BY <1>1, <1>3, <1>8, ExceptSeq
<1>15. FunctionsInv(functions', table, tensors, tape)
  BY <1>1, <1>13, <1>14 DEF FunctionsInv
<1>16. QED
  BY <1>14, <1>15 DEF Data

\* A Function that has its graph and no tensor that points into it.
LEMMA MakeFunctionKeepsData ==
    ASSUME NEW fs, NEW T, NEW tp, Data(fs, T, tp), NEW G \in FunctionRecord, GraphOK(G, table),
           Stuck(G) \/ \E of \in [Ids(G.nodes) -> DOMAIN tp] : Traces(G, of, T, tp),
           NEW gs, gs = Append(fs, G)
    PROVE  Data(gs, T, tp) /\ Len(gs) = Len(fs) + 1
<1>1. /\ fs \in Seq(FunctionRecord) /\ FunctionsInv(fs, table, T, tp)
      /\ \A t \in DOMAIN T : T[t].fn \in 0 .. Len(fs)
  BY DEF Data, NoFunction
<1>2. /\ gs \in Seq(FunctionRecord) /\ Len(gs) = Len(fs) + 1 /\ Len(fs) \in Nat
      /\ FunctionsInv(gs, table, T, tp)
  BY <1>1, FunctionAdded
<1>3. \A t \in DOMAIN T : T[t].fn \in NoFunction .. Len(gs)
  BY <1>1, <1>2 DEF NoFunction
<1>4. QED
  BY <1>2, <1>3 DEF Data

LEMMA EmptyGraph ==
    ASSUME NEW T, NEW tp
    PROVE  /\ NewFunction \in FunctionRecord /\ GraphOK(NewFunction, table)
           /\ \E of \in [Ids(NewFunction.nodes) -> DOMAIN tp] : Traces(NewFunction, of, T, tp)
<1> DEFINE G == NewFunction
<1>1. /\ G.nodes = <<>> /\ G.params = <<>> /\ G.leaves = <<>> /\ G.released = {}
      /\ G.kernels = {} /\ G.output = NoNode /\ G.computed = {} /\ G.loss = 0
      /\ G \in FunctionRecord
  <2>1. \A S : <<>> \in Seq(S)
    BY EmptySeq
  <2>2. QED
    BY <2>1 DEF NewFunction, FunctionRecord, NoNode
<1>2. Len(<<>>) = 0 /\ DOMAIN <<>> = {}
  BY EmptySeq
<1> HIDE DEF G
<1>3. Ids(G.nodes) = {}
  BY <1>1, <1>2 DEF Ids
<1>4. GraphOK(G, table)
  BY <1>1, <1>2, <1>3 DEF GraphOK, ReleasedByKernels, Recorded, Ascending, NoNode
<1>5. [i \in {} |-> 0] \in [Ids(G.nodes) -> DOMAIN tp]
  BY <1>3
<1>6. Traces(G, [i \in {} |-> 0], T, tp)
  BY <1>1, <1>2, <1>3 DEF Traces, LeavesAre
<1>7. QED
  BY <1>1, <1>4, <1>5, <1>6 DEF G

\* A graph that is read back from its file.
LEMMA LoadedGraph ==
    ASSUME NEW F \in FunctionRecord, NEW T, NEW tp, NEW f, FunctionInv(F, f, table, T, tp),
           NEW G, G = [F EXCEPT !.params = <<>>, !.kernels = {}, !.released = Ids(F.nodes),
                                !.loaded = TRUE]
    PROVE  /\ G \in FunctionRecord /\ GraphOK(G, table)
           /\ Stuck(G) \/ \E of \in [Ids(G.nodes) -> DOMAIN tp] : Traces(G, of, T, tp)
<1>1. <<>> \in Seq(Nat) /\ Len(<<>>) = 0 /\ DOMAIN <<>> = {} /\ Range(<<>>) = {}
  BY EmptySeq DEF Range
<1>2. Ids(F.nodes) = 1 .. Len(F.nodes) /\ Len(F.nodes) \in Nat /\ F.nodes \in Seq(Node)
  BY FunctionFields DEF Ids
<1>3. G \in FunctionRecord
  <2>1. PICK ids, none : ids = Ids(F.nodes) /\ none = <<>>
    OBVIOUS
  <2>2. ids \in SUBSET Nat /\ none \in Seq(Nat)
    BY <1>1, <1>2, <2>1
  <2>3. G = [F EXCEPT !.params = none, !.kernels = {}, !.released = ids, !.loaded = TRUE]
    BY <2>1
  <2>4. QED
    BY <2>2, <2>3 DEF FunctionRecord
<1>4. /\ G.nodes = F.nodes /\ G.params = <<>> /\ G.kernels = {} /\ G.released = Ids(F.nodes)
      /\ G.loaded = TRUE /\ G.output = F.output /\ G.leaves = F.leaves
      /\ G.computed = F.computed /\ G.loss = F.loss
  BY DEF FunctionRecord
<1>5. GraphOK(G, table)
  BY <1>1, <1>4 DEF FunctionInv, GraphOK, ReleasedByKernels, Ascending
<1>6. CASE F.nodes # <<>>
  <2>1. 1 \in Ids(F.nodes)
    BY <1>2, <1>6, EmptySeq
  <2>2. Stuck(G)
    BY <1>1, <1>4, <1>6, <2>1 DEF Stuck
  <2>3. QED
    BY <1>3, <1>5, <2>2
<1>7. CASE F.nodes = <<>>
  <2>1. Ids(F.nodes) = {}
    BY <1>1, <1>2, <1>7
  <2>2. PICK of \in [Ids(F.nodes) -> DOMAIN tp] : Traces(F, of, T, tp)
    BY <1>7 DEF FunctionInv, Stuck
  <2>3. F.params = <<>>
    <3>1. F.params \in Seq(Nat) /\ \A k \in DOMAIN F.params : FALSE
      BY <2>1, FunctionFields DEF FunctionInv, GraphOK
    <3>2. DOMAIN F.params = 1 .. Len(F.params) /\ Len(F.params) \in Nat
      BY FunctionFields
    <3>3. ASSUME NEW l \in Nat, 1 \notin 1 .. l PROVE l = 0
      BY <3>3
    <3>5. Len(F.params) = 0
      BY <3>1, <3>2, <3>3
    <3>4. QED
      BY <3>1, <3>5, EmptySeq
  <2>4. Traces(G, of, T, tp)
    BY <1>4, <2>2, <2>3 DEF Traces, ResultIs, EdgeIs, LeavesAre
  <2>5. QED
    BY <1>3, <1>4, <1>5, <2>2, <2>4
<1>8. QED
  BY <1>6, <1>7

\* Another table, in which the ops of the graphs are still registered.
LEMMA TableKeepsData ==
    ASSUME NEW fs, NEW T, NEW tp, FunctionsInv(fs, table, T, tp), NEW tab,
           \A op \in Ops : table[op] # "none" => tab[op] # "none"
    PROVE  FunctionsInv(fs, tab, T, tp)
<1>1. ASSUME NEW F, GraphOK(F, table) PROVE GraphOK(F, tab)
  <2>1. ASSUME NEW i \in Ids(F.nodes), ~IsParam(F.nodes, i) PROVE tab[F.nodes[i].op] # "none"
    <3>1. F.nodes[i].op \in Ops
      BY <1>1, <2>1 DEF GraphOK, Recorded, IsParam, ParamNode
    <3>2. QED
      BY <1>1, <2>1, <3>1 DEF GraphOK
  <2>2. QED
    BY <1>1, <2>1 DEF GraphOK
<1>2. QED
  BY <1>1 DEF FunctionsInv, FunctionInv

LEMMA RunOpKeepsData ==
    ASSUME Data(functions, tensors, tape), function \in NoFunction .. Len(functions),
           NEW op \in Ops, NEW ins \in [1 .. Arity(op) -> DOMAIN tensors], RunOp(op, ins)
    PROVE  /\ Data(functions', tensors', tape')
           /\ Len(functions') \in Nat /\ Len(functions') >= Len(functions)
           /\ function' \in NoFunction .. Len(functions') /\ UNCHANGED scopes
<1> PICK rec : rec = [op |-> op, inputs |-> ins]
  OBVIOUS
<1>1. tape' = Append(tape, rec) /\ table[op] # "none" /\ tape' = Append(tape, [op |-> op, inputs |-> ins])
  BY DEF RunOp
<1>2. functions \in Seq(FunctionRecord) /\ Len(functions) \in Nat
      /\ DOMAIN functions = 1 .. Len(functions) /\ tensors \in Seq(TensorRecord)
  BY LenProperties DEF Data
<1>3. CASE NotCaptured(op, ins)
  <2>1. PICK needs \in BOOLEAN : needs = \E k \in DOMAIN ins : tensors[ins[k]].requiresGrad
    OBVIOUS
  <2>2. PICK out : out = [requiresGrad |-> needs, fn |-> NoFunction, node |-> NoNode]
    OBVIOUS
  <2>3. tensors' = Append(tensors, out)
    BY <1>3, <2>1, <2>2, Zenon DEF NotCaptured, Output
  <2>4. out \in TensorRecord /\ out.fn = NoFunction
    BY <2>2 DEF TensorRecord, NoFunction, NoNode
  <2>5. rec \in TapeRecord /\ \A k \in DOMAIN rec.inputs : rec.inputs[k] \in DOMAIN tensors
    BY <1>2, CallOnTape
  <2>6. Data(functions, tensors', tape')
    BY <1>1, <2>3, <2>4, <2>5, Uncaptured
  <2>7. QED
    BY <1>2, <1>3, <2>6 DEF NotCaptured, tracer
<1>4. CASE Captured(op, ins)
  <2>1. /\ function # NoFunction /\ CapturedIn(function, functions, op, ins)
        /\ UNCHANGED <<function, scopes>>
    BY <1>4 DEF Captured, tracer
  <2>2. function \in DOMAIN functions
    BY <1>2, <2>1 DEF NoFunction
  <2>3. Data(functions', tensors', tape') /\ Len(functions') = Len(functions)
    BY <1>1, <2>1, <2>2, CaptureKeepsData
  <2>4. QED
    BY <1>2, <2>1, <2>3
<1>5. CASE CapturedInNew(op, ins)
  <2> DEFINE fs == Append(functions, NewFunction)
             f == Len(functions) + 1
  <2>1. CapturedIn(f, fs, op, ins) /\ function' = f /\ UNCHANGED scopes
    BY <1>5 DEF CapturedInNew
  <2> HIDE DEF fs
  <2>2. Data(fs, tensors, tape) /\ Len(fs) = Len(functions) + 1
    <3>1. fs = Append(functions, NewFunction)
      BY DEF fs
    <3>2. QED
      BY <3>1, EmptyGraph, MakeFunctionKeepsData
  <2>3. f \in DOMAIN fs /\ f \in NoFunction .. Len(fs)
    BY <1>2, <2>2, LenProperties DEF Data, NoFunction
  <2> HIDE DEF f
  <2>4. Data(functions', tensors', tape') /\ Len(functions') = Len(fs)
    BY <1>1, <2>1, <2>2, <2>3, CaptureKeepsData
  <2>5. QED
    BY <1>2, <2>1, <2>2, <2>3, <2>4
<1>6. QED
  BY <1>3, <1>4, <1>5 DEF RunOp

LEMMA EndingsAre ==
    ASSUME NEW F, NEW b, NEW ending \in Endings(F, b)
    PROVE  MayEnd(table, F, b, ending.status, ending.value)
<1>1. LiveValueIn(table, F) = LiveValue(F)
  BY DEF LiveValueIn, LiveValue
<1>2. \A i : ObstacleIn(table, F, i) = Obstacle(F, i)
  BY DEF ObstacleIn, Obstacle
<1> DEFINE stops == {i \in Ids(F.nodes) : Obstacle(F, i) # "nothing"}
           first == IF stops = {} THEN Len(F.nodes) + 1 ELSE Min(stops)
           throws == \E i \in 1 .. first - 1 : Calls(F, i) \in MayThrow
           few == b < Len(F.params)
           value == LiveValue(F)[F.output]
<1>3. stops = Stops(table, F)
  BY <1>2 DEF Stops
<1>4. Endings(F, b) =
         IF few THEN {Without("not enough bindings")}
         ELSE (IF throws THEN {Without("kernel throws")} ELSE {})
              \cup {IF stops # {} THEN Without(Obstacle(F, first))
                    ELSE IF F.output = NoNode THEN Without("nothing returned")
                    ELSE [status |-> "returned", value |-> value]}
  BY DEF Endings
<1>5. first = IF stops = {} THEN Len(F.nodes) + 1 ELSE Min(stops)
  OBVIOUS
<1> HIDE DEF throws, few, stops, first, value
<1>6. \A s : Without(s).status = s
  BY DEF Without
<1>7. stops # {} => Obstacle(F, first) = ObstacleIn(table, F, Min(Stops(table, F)))
  BY <1>2, <1>3, <1>5
<1>8. value = LiveValueIn(table, F)[F.output]
  BY <1>1 DEF value
<1>9. CASE few
  <2>1. ending = Without("not enough bindings")
    BY <1>4, <1>9
  <2>2. QED
    BY <1>6, <1>9, <2>1 DEF MayEnd, few
<1>10. CASE ~few
  <2> DEFINE throwing == IF throws THEN {Without("kernel throws")} ELSE {}
             other == IF stops # {} THEN Without(Obstacle(F, first))
                      ELSE IF F.output = NoNode THEN Without("nothing returned")
                      ELSE [status |-> "returned", value |-> value]
  <2>1. Endings(F, b) = throwing \cup {other}
    BY <1>4, <1>10
  <2>2. \A x \in throwing : x = Without("kernel throws")
    OBVIOUS
  <2>3. /\ stops # {} => other = Without(Obstacle(F, first))
        /\ stops = {} /\ F.output = NoNode => other = Without("nothing returned")
        /\ stops = {} /\ F.output # NoNode => other = [status |-> "returned", value |-> value]
    OBVIOUS
  <2> HIDE DEF throwing, other
  <2>4. ending = Without("kernel throws") \/ ending = other
    BY <2>1, <2>2
  <2>5. CASE ending = Without("kernel throws")
    BY <1>6, <1>10, <2>5 DEF MayEnd, few
  <2>6. CASE ending = other
    <3>1. CASE stops # {}
      BY <1>3, <1>6, <1>7, <1>10, <2>3, <2>6, <3>1 DEF MayEnd, few
    <3>2. CASE stops = {} /\ F.output = NoNode
      BY <1>3, <1>6, <1>10, <2>3, <2>6, <3>2 DEF MayEnd, few
    <3>3. CASE stops = {} /\ F.output # NoNode
      <4>1. \A x : [status |-> "returned", value |-> x].status = "returned"
                  /\ [status |-> "returned", value |-> x].value = x
        OBVIOUS
      <4>3. ending.status = "returned" /\ ending.value = value
        BY <2>3, <2>6, <3>3, <4>1, Zenon
      <4>2. QED
        BY <1>3, <1>8, <1>10, <3>3, <4>3 DEF MayEnd, few
    <3>4. QED
      BY <3>1, <3>2, <3>3
  <2>7. QED
    BY <2>4, <2>5, <2>6
<1>11. QED
  BY <1>9, <1>10

LEMMA ApplyStep ==
    ASSUME DataInv, NEW f \in DOMAIN functions, NEW b \in Nat, Apply(f, b)
    PROVE  OutcomeOK' /\ DataInv' /\ dead' \in BOOLEAN
<1>1. PICK ending \in Endings(functions[f], b) :
         /\ outcome' = [fn |-> f, bindings |-> b,
                        status |-> ending.status, value |-> ending.value]
         /\ dead' = (ending.status = "no inputs")
         /\ UNCHANGED recording \/ recording' = FALSE
         /\ function' = function \/ function' = f
         /\ UNCHANGED <<table, functions, tensors, scopes, tape>>
  BY DEF Apply
<1>2. MayEnd(table, functions[f], b, ending.status, ending.value)
  BY EndingsAre
<1>3. OutcomeOK'
  BY <1>1, <1>2 DEF OutcomeOK
<1>4. functions \in Seq(FunctionRecord)
  BY DEF DataInv, Data
<1>5. f \in NoFunction .. Len(functions)
  BY <1>4, LenProperties DEF NoFunction
<1>6. DataInv'
  BY <1>1, <1>5 DEF DataInv, Data, PointersOK
<1>7. QED
  BY <1>1, <1>3, <1>6

\* Whatever was made or put in front, the scopes still name Functions.
LEMMA PointersLater ==
    ASSUME PointersOK, Len(functions) \in Nat, Len(functions') \in Nat,
           Len(functions') >= Len(functions), UNCHANGED <<function, scopes>>
    PROVE  PointersOK'
BY DEF PointersOK, NoFunction

LEMMA MakingKeeps ==
    ASSUME DataInv, NEW G \in FunctionRecord, GraphOK(G, table),
           Stuck(G) \/ \E of \in [Ids(G.nodes) -> DOMAIN tape] : Traces(G, of, tensors, tape),
           MakeFunction(G), UNCHANGED <<table, tensors, tracer, tape>>
    PROVE  DataInv'
<1>1. functions' = Append(functions, G)
  BY DEF MakeFunction
<1>2. Data(functions', tensors, tape) /\ Len(functions') = Len(functions) + 1
  BY <1>1, MakeFunctionKeepsData DEF DataInv
<1>3. Len(functions) \in Nat
  BY LenProperties DEF DataInv, Data
<1>4. PointersOK'
  BY <1>2, <1>3, PointersLater DEF DataInv, tracer
<1>5. QED
  BY <1>2, <1>4 DEF DataInv, Data

LEMMA QuietlyStep ==
    ASSUME DataInv, ScopeInv, Quietly
    PROVE  DataInv'
<1>1. /\ Data(functions, tensors, tape) /\ functions \in Seq(FunctionRecord)
      /\ Len(functions) \in Nat /\ DOMAIN functions = 1 .. Len(functions)
      /\ \A f \in DOMAIN functions : functions[f] \in FunctionRecord
      /\ \A f \in DOMAIN functions : FunctionInv(functions[f], f, table, tensors, tape)
  BY LenProperties DEF DataInv, Data, FunctionsInv
<1>2. ASSUME NEW tab \in [Ops -> Kernels \cup {"builtin", "none"}], table' = tab,
             \A op \in Ops : table[op] # "none" => tab[op] # "none",
             UNCHANGED <<functions, tensors, tracer, tape>>
      PROVE  DataInv'
  <2>1. FunctionsInv(functions, tab, tensors, tape)
    BY <1>1, <1>2, TableKeepsData DEF Data
  <2>2. QED
    BY <1>2, <2>1 DEF DataInv, Data, PointersOK, tracer
<1>3. ASSUME NEW op \in Ops, NEW kernel \in Kernels, Register(op, kernel) PROVE DataInv'
  <2>1. kernel # "none"
    BY ReplayAssumption
  <2>2. table' = [table EXCEPT ![op] = kernel] /\ table \in [Ops -> Kernels \cup {"builtin", "none"}]
    BY <1>3 DEF Register, DataInv
  <2>3. /\ table' \in [Ops -> Kernels \cup {"builtin", "none"}]
        /\ \A o \in Ops : table[o] # "none" => table'[o] # "none"
    BY <2>1, <2>2
  <2>4. QED
    BY <1>2, <1>3, <2>3 DEF Register
<1>4. CASE InitOps
  <2>1. table' = [op \in Ops |-> IF op \in BuiltIn THEN "builtin" ELSE table[op]]
        /\ table \in [Ops -> Kernels \cup {"builtin", "none"}]
    BY <1>4 DEF InitOps, DataInv
  <2>2. /\ table' \in [Ops -> Kernels \cup {"builtin", "none"}]
        /\ \A o \in Ops : table[o] # "none" => table'[o] # "none"
    BY <2>1
  <2>3. QED
    BY <1>2, <1>4, <2>2 DEF InitOps
<1>5. CASE NewEmptyFunction
  BY <1>5, EmptyGraph, MakingKeeps DEF NewEmptyFunction
<1>6. ASSUME NEW f \in DOMAIN functions, Transform(f) PROVE DataInv'
  <2>1. GraphOK(functions[f], table)
    BY <1>1 DEF FunctionInv
  <2>2. \/ Stuck(functions[f])
        \/ \E of \in [Ids(functions[f].nodes) -> DOMAIN tape] : Traces(functions[f], of, tensors, tape)
    BY <1>1 DEF FunctionInv
  <2>3. QED
    BY <1>1, <1>6, <2>1, <2>2, MakingKeeps DEF Transform
<1>7. ASSUME NEW f \in DOMAIN functions, SaveAndLoad(f) PROVE DataInv'
  <2>1. PICK G : G = [functions[f] EXCEPT !.params = <<>>, !.kernels = {},
                              !.released = Ids(functions[f].nodes), !.loaded = TRUE]
    OBVIOUS
  <2>2. /\ G \in FunctionRecord /\ GraphOK(G, table)
        /\ Stuck(G) \/ \E of \in [Ids(G.nodes) -> DOMAIN tape] : Traces(G, of, tensors, tape)
    BY <1>1, <2>1, LoadedGraph
  <2>3. MakeFunction(G) /\ UNCHANGED <<table, tensors, tracer, tape>>
    BY <1>7, <2>1 DEF SaveAndLoad
  <2>4. QED
    BY <2>2, <2>3, MakingKeeps
<1>8. ASSUME NEW f \in DOMAIN functions, Enter(f) PROVE DataInv'
  <2> DEFINE saved == [fn |-> f, recording |-> recording, function |-> function,
                       disturbed |-> disturbed]
  <2>1. /\ scopes' = Append(scopes, saved) /\ function' = f
        /\ UNCHANGED <<table, functions, tensors, tape>>
    BY <1>8 DEF Enter
  <2>2. scopes \in Seq(ScopeRecord) /\ saved.function = function
    BY DEF ScopeInv
  <2> HIDE DEF saved
  <2>3. /\ Len(scopes) \in Nat /\ DOMAIN scopes = 1 .. Len(scopes)
        /\ DOMAIN scopes' = 1 .. Len(scopes) + 1 /\ scopes'[Len(scopes) + 1] = saved
        /\ \A k \in 1 .. Len(scopes) : scopes'[k] = scopes[k]
    BY <2>1, <2>2, Appended
  <2>4. \A i \in DOMAIN scopes' : i \in DOMAIN scopes \/ i = Len(scopes) + 1
    BY <2>3
  <2>5. PointersOK'
    BY <1>1, <2>1, <2>2, <2>3, <2>4 DEF DataInv, PointersOK, NoFunction
  <2>6. QED
    BY <2>1, <2>5 DEF DataInv, Data
<1>9. CASE Leave
  <2>1. Len(scopes) \in Nat /\ DOMAIN scopes = 1 .. Len(scopes) /\ scopes \in Seq(ScopeRecord)
    BY LenProperties DEF ScopeInv
  <2>2. Len(scopes) \in Nat \ {0} /\ Last(scopes) = scopes[Len(scopes)]
    BY <1>9, <2>1, EmptySeq DEF Leave, Last
  <2>3. scopes' = SubSeq(scopes, 1, Len(scopes) - 1)
    BY <1>9 DEF Leave, Front
  <2>4. /\ DOMAIN scopes' = 1 .. Len(scopes) - 1
        /\ \A k \in 1 .. Len(scopes) - 1 : scopes'[k] = scopes[k]
    BY <2>1, <2>2, <2>3, SubSeqProperties, LenProperties
  <2>5. function' = scopes[Len(scopes)].function /\ Len(scopes) \in DOMAIN scopes
        /\ DOMAIN scopes' \subseteq DOMAIN scopes /\ UNCHANGED <<table, functions, tensors, tape>>
    BY <1>9, <2>1, <2>2, <2>4 DEF Leave
  <2>6. PointersOK'
    BY <2>4, <2>5 DEF DataInv, PointersOK
  <2>7. QED
    BY <2>5, <2>6 DEF DataInv, Data
<1>10. ASSUME NEW requiresGrad \in BOOLEAN, NewTensor(requiresGrad) PROVE DataInv'
  <2>1. Data(functions', tensors', tape') /\ functions' = functions
    BY <1>1, <1>10, NewTensorKeepsData
  <2>2. UNCHANGED <<table, function, scopes>>
    BY <1>10 DEF NewTensor, tracer
  <2>3. QED
    BY <2>1, <2>2 DEF DataInv, Data, PointersOK
<1>11. ASSUME NEW op \in Ops, NEW ins \in [1 .. Arity(op) -> DOMAIN tensors], RunOp(op, ins)
       PROVE  DataInv'
  <2>1. /\ Data(functions', tensors', tape')
        /\ Len(functions') \in Nat /\ Len(functions') >= Len(functions)
        /\ function' \in NoFunction .. Len(functions') /\ UNCHANGED scopes
    BY <1>1, <1>11, RunOpKeepsData DEF DataInv, PointersOK
  <2>2. table' = table
    BY <1>11 DEF RunOp
  <2>3. PointersOK'
    BY <1>1, <2>1 DEF DataInv, PointersOK, NoFunction
  <2>4. QED
    BY <2>1, <2>2, <2>3 DEF DataInv, Data
<1>12. ASSUME NEW f \in DOMAIN functions, NEW t \in DOMAIN tensors, BackwardOf(f, t) PROVE DataInv'
  <2>1. Data(functions', tensors, tape) /\ Len(functions') = Len(functions)
    BY <1>1, <1>12, BackwardKeepsData
  <2>2. UNCHANGED <<table, tensors, function, scopes, tape>>
    BY <1>12 DEF BackwardOf, tracer
  <2>3. QED
    BY <2>1, <2>2 DEF DataInv, Data, PointersOK
<1>13. QED
  BY <1>3, <1>4, <1>5, <1>6, <1>7, <1>8, <1>9, <1>10, <1>11, <1>12 DEF Quietly

LEMMA ReplayStep == ReplayInv /\ ScopeInv /\ [Next]_vars => ReplayInv'
<1> SUFFICES ASSUME ReplayInv, ScopeInv, [Next]_vars PROVE ReplayInv'
  OBVIOUS
<1>1. CASE outcome = NoOutcome /\ Quietly /\ UNCHANGED <<outcome, dead>>
  BY <1>1, QuietlyStep DEF ReplayInv, OutcomeOK
<1>2. ASSUME NEW f \in DOMAIN functions, NEW b \in Nat, Apply(f, b) PROVE ReplayInv'
  BY <1>2, ApplyStep DEF ReplayInv
<1>3. CASE ApplyIsOver
  BY <1>3 DEF ReplayInv, DataInv, Data, PointersOK, OutcomeOK, ApplyIsOver, tracer
<1>4. CASE UNCHANGED vars
  BY <1>4 DEF ReplayInv, DataInv, Data, PointersOK, OutcomeOK, vars, tracer
<1>5. QED
  BY <1>1, <1>2, <1>3, <1>4 DEF Next

LEMMA ReplayInit == Init => ReplayInv
<1> SUFFICES ASSUME Init PROVE ReplayInv
  OBVIOUS
<1>1. \A S : <<>> \in Seq(S)
  BY EmptySeq
<1>2. Len(<<>>) = 0 /\ DOMAIN <<>> = {}
  BY EmptySeq
<1>3. Data(<<>>, <<>>, <<>>)
  BY <1>1, <1>2 DEF Data, TapeOK, FunctionsInv
<1>4. table \in [Ops -> Kernels \cup {"builtin", "none"}]
  BY DEF Init
<1>5. PointersOK
  BY <1>2 DEF Init, PointersOK, NoFunction
<1>6. QED
  BY <1>3, <1>4, <1>5 DEF Init, ReplayInv, DataInv, OutcomeOK

-----------------------------------------------------------------------------
(* What the invariant says of one graph.                                    *)

\* The graph of Function f, which is not a loaded one, with the tensors of its nodes.
Known(F, of) ==
    /\ F \in FunctionRecord /\ GraphOK(F, table) /\ of \in [Ids(F.nodes) -> DOMAIN tape]
    /\ Traces(F, of, tensors, tape)

LEMMA GraphsAreKnown ==
    ASSUME DataInv, NEW f \in DOMAIN functions, NEW F, F = functions[f]
    PROVE  /\ F \in FunctionRecord /\ GraphOK(F, table)
           /\ Stuck(F) \/ \E of : Known(F, of)
<1>1. functions \in Seq(FunctionRecord) /\ FunctionInv(F, f, table, tensors, tape)
  BY DEF DataInv, Data, FunctionsInv
<1>2. F \in FunctionRecord
  BY <1>1, LenProperties
<1>3. QED
  BY <1>1, <1>2 DEF FunctionInv, Known

\* The params of a graph are its leaf nodes.
LEMMA ParamsInOrder ==
    ASSUME NEW F, NEW of, Known(F, of)
    PROVE  F.params = InOrder({i \in Ids(F.nodes) : IsParam(F.nodes, i)})
<1> DEFINE S == {i \in Ids(F.nodes) : IsParam(F.nodes, i)}
<1>1. /\ F.params \in Seq(Nat) /\ Len(F.params) \in Nat /\ DOMAIN F.params = 1 .. Len(F.params)
      /\ Ids(F.nodes) = 1 .. Len(F.nodes) /\ Len(F.nodes) \in Nat
  BY FunctionFields DEF Known, Ids
<1>2. S \in SUBSET Nat
  BY <1>1
<1>3. F.params \in [1 .. Len(F.params) -> S]
  <2>1. \A k \in DOMAIN F.params : F.params[k] \in S
    BY DEF Known, GraphOK
  <2>2. F.params = [k \in 1 .. Len(F.params) |-> F.params[k]]
    BY <1>1
  <2> HIDE DEF S
  <2>3. QED
    BY <1>1, <2>1, <2>2
<1>4. \A x \in S : \E k \in 1 .. Len(F.params) : F.params[k] = x
  BY <1>1 DEF Known, Traces, Range
<1>5. \A j, k \in 1 .. Len(F.params) : j < k => F.params[j] < F.params[k]
  BY <1>1 DEF Known, GraphOK, Ascending
<1> HIDE DEF S
<1>6. F.params = InOrder(S)
  BY <1>1, <1>2, <1>3, <1>4, <1>5, InOrderIs
<1>7. QED
  BY <1>6 DEF S

LEMMA ReplayTypes == ReplayInv /\ ScopeInv => TypeOK
<1> SUFFICES ASSUME ReplayInv, ScopeInv PROVE TypeOK
  OBVIOUS
<1>1. ASSUME NEW f \in DOMAIN functions PROVE FunctionOK(functions[f])
  <2> PICK F : F = functions[f]
    OBVIOUS
  <2>1. GraphOK(F, table) /\ (Stuck(F) \/ \E of : Known(F, of))
    BY GraphsAreKnown DEF ReplayInv
  <2>2. F.loaded \/ F.params = InOrder({i \in Ids(F.nodes) : IsParam(F.nodes, i)})
    BY <2>1, ParamsInOrder DEF Stuck
  <2>3. FunctionOK(F)
    BY <2>1, <2>2 DEF FunctionOK, GraphOK
  <2>4. QED
    BY <2>3
<1>2. QED
  BY <1>1 DEF TypeOK, ReplayInv, DataInv, Data, PointersOK, ScopeInv

-----------------------------------------------------------------------------
(* What apply returns. *)

\* Tensors that are computed from leaves that need a gradient need one.
LEMMA ComputedNeedGradients ==
    ASSUME NEW F, NEW of, Known(F, of), DataInv,
           \A t \in F.computed : \A k \in DOMAIN tape[t].inputs :
              tape[t].inputs[k] \in F.computed \cup Range(F.leaves)
    PROVE  \A t \in F.computed \cup Range(F.leaves) : tensors[t].requiresGrad
<1> DEFINE bad == {t \in F.computed : ~tensors[t].requiresGrad}
<1>1. \A t \in Range(F.leaves) : tensors[t].requiresGrad
  <2>1. DOMAIN F.leaves = DOMAIN F.params
    BY FunctionFields DEF Known, Traces, LeavesAre
  <2>2. QED
    BY <2>1 DEF Known, Traces, LeavesAre, Range
<1>2. ASSUME bad # {} PROVE FALSE
  <2>1. bad \subseteq Nat
    BY FunctionFields DEF Known
  <2>2. PICK t \in bad : \A s \in bad : t <= s
    <3> HIDE DEF bad
    <3>1. QED
      BY <1>2, <2>1, LeastNat
  <2>3. t \in F.computed /\ ~tensors[t].requiresGrad /\ t \in Nat
    BY <2>1, <2>2
  <2>4. IsResult(tensors, tape, t)
    BY <2>3 DEF Known, Traces
  <2>5. 1 \in DOMAIN tape[t].inputs
    <3>1. tape[t].op \in Ops /\ Len(tape[t].inputs) = Arity(tape[t].op) /\ t \in DOMAIN tape
      BY <2>4 DEF IsResult
    <3>2. tape[t].inputs \in Seq(Nat)
      BY <3>1, TapeEntries DEF DataInv, Data
    <3>3. DOMAIN tape[t].inputs = 1 .. Arity(tape[t].op)
      BY <3>1, <3>2, LenProperties
    <3>4. QED
      BY <3>1, <3>3, ArityIs
  <2>6. PICK s : s = tape[t].inputs[1]
    OBVIOUS
  <2>7. s \in 1 .. t - 1
    BY <2>4, <2>5, <2>6 DEF DataInv, Data, TapeOK, IsResult
  <2>8. ~tensors[s].requiresGrad
    BY <2>3, <2>4, <2>5, <2>6 DEF IsResult
  <2>9. s \in F.computed
    BY <1>1, <2>3, <2>5, <2>6, <2>8
  <2>10. t <= s
    BY <2>2, <2>8, <2>9
  <2>11. QED
    BY <2>3, <2>7, <2>10
<1>3. QED
  BY <1>1, <1>2

\* Nothing stops apply in a graph that was captured with all its inputs, but
\* for a node without inputs that a kernel used.
LEMMA OnlyReleasedStop ==
    ASSUME NEW F, NEW of, Known(F, of), DataInv, Complete(F)
    PROVE  \A i \in Stops(table, F) :
              ObstacleIn(table, F, i) = "no inputs" /\ ForwardOnlyUsed(F)
<1>1. \A t \in F.computed \cup Range(F.leaves) : tensors[t].requiresGrad
  BY ComputedNeedGradients DEF Complete
<1>2. ASSUME NEW i \in Ids(F.nodes), i \notin Range(F.params)
      PROVE  \/ ObstacleIn(table, F, i) = "nothing"
             \/ ObstacleIn(table, F, i) = "no inputs" /\ ForwardOnlyUsed(F)
  <2>1. ~IsParam(F.nodes, i) /\ ResultIs(F, of, tensors, tape, i)
    BY <1>2 DEF Known, Traces
  <2>2. table[F.nodes[i].op] # "none"
    BY <2>1 DEF Known, GraphOK
  <2>3. i \in F.released => ForwardOnlyUsed(F)
    BY <1>2, <2>1 DEF Known, GraphOK, ReleasedByKernels, ForwardOnlyUsed, Complete
  <2>4. ASSUME NEW k \in DOMAIN F.nodes[i].inputs PROVE F.nodes[i].inputs[k] # NoNode
    <3>1. k \in 1 .. Arity(F.nodes[i].op) /\ F.nodes[i].op \in Ops
      <4>1. F.nodes[i] # ParamNode
        BY <2>1 DEF IsParam, ParamNode
      <4>2. /\ F.nodes[i].op \in Ops /\ F.nodes[i].inputs \in Seq(NoNode .. (i - 1))
            /\ Len(F.nodes[i].inputs) = Arity(F.nodes[i].op)
        BY <4>1 DEF Known, GraphOK, Recorded
      <4>3. QED
        BY <4>2, LenProperties
    <3>2. EdgeIs(F, of, tensors, i, k, tape[of[i]].inputs[k]) /\ of[i] \in F.computed
      BY <2>1, <3>1 DEF ResultIs
    <3>3. k \in DOMAIN tape[of[i]].inputs
      <4>1. IsResult(tensors, tape, of[i]) /\ tape[of[i]].op = F.nodes[i].op
        BY <2>1, <3>2 DEF Known, Traces, ResultIs
      <4>2. of[i] \in DOMAIN tape /\ Len(tape[of[i]].inputs) = Arity(F.nodes[i].op)
        BY <4>1 DEF IsResult
      <4>3. tape[of[i]].inputs \in Seq(Nat)
        BY <4>2, TapeEntries DEF DataInv, Data
      <4>4. QED
        BY <3>1, <4>2, <4>3, LenProperties
    <3>4. tape[of[i]].inputs[k] \in F.computed \cup Range(F.leaves)
      BY <3>2, <3>3 DEF Complete
    <3>5. QED
      BY <1>1, <3>2, <3>4 DEF EdgeIs
  <2>5. QED
    BY <1>2, <2>1, <2>2, <2>3, <2>4 DEF ObstacleIn
<1>3. ASSUME NEW i \in Ids(F.nodes), i \in Range(F.params)
      PROVE  ObstacleIn(table, F, i) = "nothing"
  BY <1>3 DEF ObstacleIn
<1>4. QED
  BY <1>2, <1>3 DEF Stops

LEMMA ReplayEnds == ReplayInv => ReplayReturns
<1> SUFFICES ASSUME ReplayInv, CompleteApply, NEW F, F = functions[outcome.fn]
             PROVE  \/ outcome.status \in {"returned", "kernel throws"}
                    \/ outcome.status = "no inputs" /\ ForwardOnlyUsed(F)
  BY DEF ReplayReturns
<1>1. /\ outcome.fn \in DOMAIN functions /\ outcome.bindings \in Nat
      /\ MayEnd(table, F, outcome.bindings, outcome.status, outcome.value)
      /\ Complete(F) /\ outcome.bindings >= Len(F.leaves)
  BY DEF ReplayInv, OutcomeOK, CompleteApply
<1>2. PICK of : Known(F, of)
  BY <1>1, GraphsAreKnown DEF ReplayInv, Complete, Stuck
<1>3. \A i \in Stops(table, F) :
         ObstacleIn(table, F, i) = "no inputs" /\ ForwardOnlyUsed(F)
  BY <1>1, <1>2, OnlyReleasedStop DEF ReplayInv
<1>4. Len(F.leaves) = Len(F.params) /\ Len(F.params) \in Nat
  BY <1>2, FunctionFields DEF Known, Traces, LeavesAre
<1>5. ~(outcome.bindings < Len(F.params))
  BY <1>1, <1>4
<1>6. Stops(table, F) # {} => Min(Stops(table, F)) \in Stops(table, F)
  <2>1. Stops(table, F) \subseteq Nat
    BY <1>2, FunctionFields DEF Known, Stops, Ids
  <2>2. ASSUME Stops(table, F) # {} PROVE Min(Stops(table, F)) \in Stops(table, F)
    <3>1. PICK m \in Stops(table, F) : \A n \in Stops(table, F) : m <= n
      BY <2>1, <2>2, LeastNat
    <3>2. QED
      BY <3>1 DEF Min
  <2>3. QED
    BY <2>2
<1>7. QED
  BY <1>1, <1>3, <1>5, <1>6 DEF MayEnd, Complete

-----------------------------------------------------------------------------
(* Values are terms, defined by recursion on the nodes and on the tape.     *)

\* The term at i: a[i] where it is bound, in B, otherwise o[i] of the terms at s[i].
TermAt(v, B, a, o, s, i) ==
    IF i \in B THEN a[i] ELSE Computed(o[i], [k \in DOMAIN s[i] |-> v[s[i][k]]])

AreTerms(v, n, B, a, o, s) == v = [i \in 1 .. n |-> TermAt(v, B, a, o, s, i)]

LEMMA TermsExist ==
    ASSUME NEW n \in Nat, NEW B, NEW a, NEW o, NEW s,
           \A i \in 1 .. n : i \notin B => \A k \in DOMAIN s[i] : s[i][k] \in 1 .. i - 1
    PROVE  \E v : AreTerms(v, n, B, a, o, s)
<1>1. ASSUME NEW i \in 1 .. n, NEW v, NEW w, \A j \in 1 .. i - 1 : v[j] = w[j]
      PROVE  TermAt(v, B, a, o, s, i) = TermAt(w, B, a, o, s, i)
  <2>1. CASE i \in B
    BY <2>1 DEF TermAt
  <2>2. CASE i \notin B
    <3>1. \A k \in DOMAIN s[i] : v[s[i][k]] = w[s[i][k]]
      BY <1>1, <2>2
    <3>2. [k \in DOMAIN s[i] |-> v[s[i][k]]] = [k \in DOMAIN s[i] |-> w[s[i][k]]]
      BY <3>1
    <3>3. QED
      BY <2>2, <3>2 DEF TermAt
  <2>3. QED
    BY <2>1, <2>2
<1> DEFINE C == {m \in Nat : \E v : v = [i \in 1 .. m |-> TermAt(v, B, a, o, s, i)]}
<1>2. 0 \in C
  <2> DEFINE v == [i \in 1 .. 0 |-> 0]
  <2>1. v = [i \in 1 .. 0 |-> TermAt(v, B, a, o, s, i)]
    OBVIOUS
  <2>2. QED
    BY <2>1
<1>3. ASSUME NEW m \in 0 .. n - 1, m \in C PROVE m + 1 \in C
  <2>1. PICK v : v = [i \in 1 .. m |-> TermAt(v, B, a, o, s, i)]
    BY <1>3
  <2> DEFINE w == [i \in 1 .. m + 1 |-> TermAt(v, B, a, o, s, i)]
  <2>2. \A j \in 1 .. m : v[j] = w[j]
    <3>1. \A j \in 1 .. m : j \in 1 .. m + 1
      OBVIOUS
    <3>2. QED
      BY <2>1, <3>1
  <2> HIDE DEF w
  <2>3. \A i \in 1 .. m + 1 : TermAt(v, B, a, o, s, i) = TermAt(w, B, a, o, s, i)
    <3> TAKE i \in 1 .. m + 1
    <3>1. i \in 1 .. n /\ \A j \in 1 .. i - 1 : v[j] = w[j]
      BY <2>2
    <3>2. QED
      BY <1>1, <3>1
  <2>4. w = [i \in 1 .. m + 1 |-> TermAt(w, B, a, o, s, i)]
    BY <2>3 DEF w
  <2>5. m + 1 \in Nat
    OBVIOUS
  <2>6. QED
    BY <2>4, <2>5
<1>4. n \in C
  <2> HIDE DEF C
  <2>1. 0 .. n \subseteq C
    BY <1>2, <1>3, UpTo
  <2>2. QED
    BY <2>1
<1>5. QED
  BY <1>4 DEF AreTerms

LiveBody(F, v, i) ==
    IF i \in Range(F.params) THEN Bound(ParamPlace(F, i))
    ELSE Computed(table[F.nodes[i].op],
                  [k \in DOMAIN F.nodes[i].inputs |-> v[F.nodes[i].inputs[k]]])

\* Where apply goes through, the values of the nodes are as the code computes them.
LEMMA LiveValues ==
    ASSUME NEW F, NEW of, Known(F, of), Stops(table, F) = {}, NEW v, v = LiveValueIn(table, F)
    PROVE  \A i \in Ids(F.nodes) : v[i] = LiveBody(F, v, i)
<1> DEFINE B == Range(F.params)
           a == [i \in Ids(F.nodes) |-> Bound(ParamPlace(F, i))]
           o == [i \in Ids(F.nodes) |-> table[F.nodes[i].op]]
           s == [i \in Ids(F.nodes) |-> F.nodes[i].inputs]
<1>1. Ids(F.nodes) = 1 .. Len(F.nodes) /\ Len(F.nodes) \in Nat
  BY FunctionFields DEF Known, Ids
<1>2. ASSUME NEW i \in Ids(F.nodes), i \notin B, NEW k \in DOMAIN F.nodes[i].inputs
      PROVE  F.nodes[i].inputs[k] \in 1 .. i - 1
  <2>1. ObstacleIn(table, F, i) = "nothing"
    BY DEF Stops
  <2>2. F.nodes[i].inputs[k] # NoNode
    BY <1>2, <2>1 DEF ObstacleIn
  <2>3. ~IsParam(F.nodes, i)
    BY <1>2 DEF Known, Traces
  <2>4. F.nodes[i].inputs \in Seq(NoNode .. (i - 1))
    BY <2>3 DEF Known, GraphOK, Recorded, IsParam, ParamNode
  <2>5. k \in 1 .. Len(F.nodes[i].inputs)
    BY <2>4, LenProperties
  <2>6. F.nodes[i].inputs[k] \in NoNode .. (i - 1)
    BY <2>4, <2>5, ElementOf
  <2>7. \A e \in NoNode .. (i - 1) : e # NoNode => e \in 1 .. i - 1
    BY <1>1 DEF NoNode
  <2>8. QED
    BY <2>2, <2>6, <2>7
<1>3. ASSUME NEW w, NEW i \in Ids(F.nodes) PROVE TermAt(w, B, a, o, s, i) = LiveBody(F, w, i)
  BY DEF TermAt, LiveBody
<1>4. \A i \in 1 .. Len(F.nodes) : i \notin B => \A k \in DOMAIN s[i] : s[i][k] \in 1 .. i - 1
  BY <1>1, <1>2
<1> HIDE DEF B, a, o, s
<1>5. PICK w : AreTerms(w, Len(F.nodes), B, a, o, s)
  BY <1>1, <1>4, TermsExist
<1>6. w = [i \in Ids(F.nodes) |-> LiveBody(F, w, i)]
  BY <1>1, <1>3, <1>5 DEF AreTerms
<1> DEFINE Is(x) == x = [i \in Ids(F.nodes) |-> LiveBody(F, x, i)]
<1>7. LiveValueIn(table, F) = CHOOSE x : Is(x)
  BY DEF LiveValueIn, LiveBody
<1>8. Is(v)
  <2>1. \E x : Is(x)
    BY <1>6
  <2> HIDE DEF Is
  <2>2. Is(CHOOSE x : Is(x))
    BY <2>1, Zenon
  <2>3. QED
    BY <1>7, <2>2
<1>9. QED
  BY <1>8

RerunBody(F, v, u) ==
    IF \E k \in DOMAIN F.leaves : F.leaves[k] = u
    THEN Bound(CHOOSE k \in DOMAIN F.leaves : F.leaves[k] = u)
    ELSE Computed(table[tape[u].op], [k \in DOMAIN tape[u].inputs |-> v[tape[u].inputs[k]]])

\* The program is run again.
LEMMA RerunValues ==
    ASSUME DataInv, NEW F
    PROVE  \E v : /\ \A u \in DOMAIN tape : v[u] = RerunBody(F, v, u)
                  /\ \A t : Rerun(F, t) = v[t]
<1> DEFINE B == {u \in DOMAIN tape : \E k \in DOMAIN F.leaves : F.leaves[k] = u}
           a == [u \in DOMAIN tape |-> Bound(CHOOSE k \in DOMAIN F.leaves : F.leaves[k] = u)]
           o == [u \in DOMAIN tape |-> table[tape[u].op]]
           s == [u \in DOMAIN tape |-> tape[u].inputs]
<1>1. /\ DOMAIN tape = 1 .. Len(tensors) /\ Len(tensors) \in Nat
      /\ \A u \in DOMAIN tape : \A k \in DOMAIN tape[u].inputs : tape[u].inputs[k] \in 1 .. u - 1
  BY TapeEntries DEF DataInv, Data
<1>2. ASSUME NEW w, NEW u \in DOMAIN tape PROVE TermAt(w, B, a, o, s, u) = RerunBody(F, w, u)
  BY DEF TermAt, RerunBody
<1>3. \A u \in 1 .. Len(tensors) : u \notin B => \A k \in DOMAIN s[u] : s[u][k] \in 1 .. u - 1
  BY <1>1
<1> HIDE DEF B, a, o, s
<1>4. PICK w : AreTerms(w, Len(tensors), B, a, o, s)
  BY <1>1, <1>3, TermsExist
<1>5. w = [u \in DOMAIN tape |-> RerunBody(F, w, u)]
  BY <1>1, <1>2, <1>4 DEF AreTerms
<1> DEFINE Is(x) == x = [u \in DOMAIN tape |-> RerunBody(F, x, u)]
<1> DEFINE v == CHOOSE x : Is(x)
<1>6. ASSUME NEW t PROVE Rerun(F, t) = v[t]
  BY DEF Rerun, RerunBody
<1>7. Is(v)
  <2>1. \E x : Is(x)
    BY <1>5
  <2> HIDE DEF Is
  <2>2. QED
    BY <2>1, Zenon
<1> HIDE DEF v
<1>8. \A u \in DOMAIN tape : v[u] = RerunBody(F, v, u)
  BY <1>7
<1>9. QED
  BY <1>6, <1>8

\* Node by node apply computes what the program did for the node's tensor.
LEMMA NodesAreRerun ==
    ASSUME DataInv, NEW F, NEW of, Known(F, of), Stops(table, F) = {}, Unmixed(F),
           NEW live, \A i \in Ids(F.nodes) : live[i] = LiveBody(F, live, i),
           NEW again, \A u \in DOMAIN tape : again[u] = RerunBody(F, again, u)
    PROVE  \A i \in Ids(F.nodes) : live[i] = again[of[i]]
<1> DEFINE bad == {i \in Ids(F.nodes) : live[i] # again[of[i]]}
<1>1. Ids(F.nodes) = 1 .. Len(F.nodes) /\ Len(F.nodes) \in Nat
  BY FunctionFields DEF Known, Ids
<1>2. /\ DOMAIN F.params = DOMAIN F.leaves
      /\ \A k \in DOMAIN F.params : of[F.params[k]] = F.leaves[k]
  BY FunctionFields DEF Known, Traces, LeavesAre
<1> SUFFICES ASSUME bad # {} PROVE FALSE
  OBVIOUS
<1>3. PICK i \in bad : \A j \in bad : i <= j
  <2>1. bad \subseteq Nat
    BY <1>1
  <2> HIDE DEF bad
  <2>2. QED
    BY <2>1, LeastNat
<1>4. /\ i \in Ids(F.nodes) /\ of[i] \in DOMAIN tape
      /\ live[i] = LiveBody(F, live, i) /\ again[of[i]] = RerunBody(F, again, of[i])
      /\ live[i] # again[of[i]]
  BY <1>3 DEF Known
<1>5. \A j \in 1 .. i - 1 : live[j] = again[of[j]]
  <2>1. ASSUME NEW j \in 1 .. i - 1 PROVE j \in Ids(F.nodes) /\ ~(i <= j)
    BY <1>1, <1>4
  <2>2. QED
    BY <1>3, <2>1
<1>6. CASE i \in Range(F.params)
  <2>1. PICK p : p = ParamPlace(F, i)
    OBVIOUS
  <2>2. p \in DOMAIN F.params /\ F.params[p] = i
    BY <1>6, <2>1 DEF Range, ParamPlace
  <2>3. live[i] = Bound(p)
    BY <1>4, <1>6, <2>1 DEF LiveBody
  <2>4. p \in DOMAIN F.leaves /\ F.leaves[p] = of[i]
    BY <1>2, <2>2
  <2>5. \A k \in DOMAIN F.leaves : F.leaves[k] = of[i] => k = p
    BY <2>4 DEF Unmixed, IsInjective
  <2>6. (CHOOSE k \in DOMAIN F.leaves : F.leaves[k] = of[i]) = p
    BY <2>4, <2>5
  <2>7. again[of[i]] = Bound(p)
    BY <1>4, <2>4, <2>6 DEF RerunBody
  <2>8. QED
    BY <1>4, <2>3, <2>7
<1>7. CASE i \notin Range(F.params)
  <2> PICK t : t = of[i]
    OBVIOUS
  <2>1. ~IsParam(F.nodes, i)
    BY <1>4, <1>7 DEF Known, Traces
  <2>2. ResultIs(F, of, tensors, tape, i) /\ t \in F.computed /\ tape[t].op = F.nodes[i].op
        /\ IsResult(tensors, tape, t)
    BY <1>4, <2>1 DEF Known, Traces, ResultIs
  <2>3. /\ F.nodes[i].op \in Ops /\ F.nodes[i].inputs \in Seq(NoNode .. (i - 1))
        /\ Len(F.nodes[i].inputs) = Arity(F.nodes[i].op)
    BY <1>4, <2>1 DEF Known, GraphOK, Recorded, IsParam, ParamNode
  <2> PICK m : m = Arity(F.nodes[i].op)
    OBVIOUS
  <2>4. DOMAIN F.nodes[i].inputs = 1 .. m
    BY <2>3, LenProperties
  <2>5. DOMAIN tape[t].inputs = 1 .. m
    <3>1. tape[t].inputs \in Seq(Nat) /\ Len(tape[t].inputs) = m
      BY <2>2, TapeEntries DEF IsResult, DataInv, Data
    <3>2. QED
      BY <3>1, LenProperties
  <2>6. ASSUME NEW k \in 1 .. m
        PROVE  live[F.nodes[i].inputs[k]] = again[tape[t].inputs[k]]
    <3>1. F.nodes[i].inputs[k] # NoNode
      <4>1. ObstacleIn(table, F, i) = "nothing"
        BY <1>4 DEF Stops
      <4>2. QED
        BY <1>7, <2>4, <4>1 DEF ObstacleIn
    <3>2. F.nodes[i].inputs[k] \in NoNode .. (i - 1)
      BY <2>3, <2>4, ElementOf
    <3>3. F.nodes[i].inputs[k] \in 1 .. i - 1
      <4>1. \A e \in NoNode .. (i - 1) : e # NoNode => e \in 1 .. i - 1
        BY <1>1, <1>4 DEF NoNode
      <4>2. QED
        BY <3>1, <3>2, <4>1
    <3>4. of[F.nodes[i].inputs[k]] = tape[t].inputs[k]
      BY <2>2, <3>1 DEF ResultIs, EdgeIs
    <3>5. QED
      BY <1>5, <3>3, <3>4
  <2>7. [k \in DOMAIN F.nodes[i].inputs |-> live[F.nodes[i].inputs[k]]]
        = [k \in DOMAIN tape[t].inputs |-> again[tape[t].inputs[k]]]
    BY <2>4, <2>5, <2>6
  <2>8. ~\E k \in DOMAIN F.leaves : F.leaves[k] = t
    BY <2>2 DEF Unmixed
  <2>9. live[i] = Computed(table[F.nodes[i].op],
                           [k \in DOMAIN F.nodes[i].inputs |-> live[F.nodes[i].inputs[k]]])
    BY <1>4, <1>7 DEF LiveBody
  <2>10. again[t] = Computed(table[tape[t].op],
                             [k \in DOMAIN tape[t].inputs |-> again[tape[t].inputs[k]]])
    BY <1>4, <2>8 DEF RerunBody
  <2>11. live[i] = again[t]
    BY <2>2, <2>7, <2>9, <2>10
  <2>12. QED
    BY <1>4, <2>11
<1>8. QED
  BY <1>6, <1>7

LEMMA NotStuck ==
    ASSUME NEW F \in FunctionRecord, Stuck(F)
    PROVE  Stops(table, F) # {}
<1>1. F.nodes # <<>> /\ F.nodes \in Seq(Node)
  BY FunctionFields DEF Stuck
<1>2. 1 \in Ids(F.nodes)
  BY <1>1, EmptySeq, LenProperties DEF Ids
<1>3. ObstacleIn(table, F, 1) # "nothing"
  BY DEF Stuck, ObstacleIn
<1>4. QED
  BY <1>2, <1>3 DEF Stops

LEMMA ReplayForwards == ReplayInv => ReplayIsForward
<1> SUFFICES ASSUME ReplayInv, outcome.status = "returned", NEW F, F = functions[outcome.fn],
                    Unmixed(F)
             PROVE  outcome.value = Rerun(F, F.loss)
  BY DEF ReplayIsForward
<1>1. outcome # NoOutcome
  BY DEF NoOutcome
<1>2. /\ outcome.fn \in DOMAIN functions
      /\ MayEnd(table, F, outcome.bindings, outcome.status, outcome.value)
  BY <1>1 DEF ReplayInv, OutcomeOK
<1>3. ObstacleIn(table, F, Min(Stops(table, F))) # "returned"
  BY DEF ObstacleIn
<1>4. /\ Stops(table, F) = {} /\ F.output # NoNode
      /\ outcome.value = LiveValueIn(table, F)[F.output]
  BY <1>2, <1>3 DEF MayEnd
<1>5. F \in FunctionRecord /\ (Stuck(F) \/ \E of : Known(F, of))
  BY <1>2, GraphsAreKnown DEF ReplayInv
<1>6. PICK of : Known(F, of)
  BY <1>4, <1>5, NotStuck
<1>7. PICK live : live = LiveValueIn(table, F)
  OBVIOUS
<1>8. \A i \in Ids(F.nodes) : live[i] = LiveBody(F, live, i)
  BY <1>4, <1>6, <1>7, LiveValues
<1>9. PICK again : /\ \A u \in DOMAIN tape : again[u] = RerunBody(F, again, u)
                   /\ \A t : Rerun(F, t) = again[t]
  BY RerunValues DEF ReplayInv
<1>10. \A i \in Ids(F.nodes) : live[i] = again[of[i]]
  BY <1>4, <1>6, <1>8, <1>9, NodesAreRerun DEF ReplayInv
<1>11. F.output \in Ids(F.nodes) /\ of[F.output] = F.loss
  <2>1. F.output \in NoNode .. Len(F.nodes) /\ Len(F.nodes) \in Nat
    BY <1>6, FunctionFields DEF Known, GraphOK
  <2>2. QED
    BY <1>4, <1>6, <2>1 DEF Known, Traces, Ids, NoNode
<1>12. QED
  BY <1>4, <1>7, <1>9, <1>10, <1>11

-----------------------------------------------------------------------------

\* The graphs and the outcome, with what the scopes need.
LEMMA ReplayInvariant == Spec => [](ReplayInv /\ ScopeInv)
<1>1. QED
  BY ReplayInit, ScopeInit, ReplayStep, ScopeStep, PTL DEF Spec

\* Each Function holds a graph that was recorded in order, with its leaf nodes
\* as params, and everything points to Functions there are.
THEOREM ReplayTypeOK == Spec => []TypeOK
BY ReplayInvariant, ReplayTypes, PTL

\* What apply returns is what the ops of the program give for the bindings, up
\* to the loss of the first backward (function.cpp:60-107).
THEOREM ReplayIsForwardCorrect == Spec => []ReplayIsForward
BY ReplayInvariant, ReplayForwards, PTL

\* And apply does return of a graph that was captured with all its inputs,
\* whatever backward released of it, unless a kernel throws: only the inputs of
\* an op without a backward kernel can be gone, when an op with one used its
\* result (autograd.cpp:76-82).
THEOREM ReplayReturnsCorrect == Spec => []ReplayReturns
BY ReplayInvariant, ReplayEnds, PTL
=============================================================================
