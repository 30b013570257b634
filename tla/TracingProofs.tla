---------------------------- MODULE TracingProofs ----------------------------
(***************************************************************************)
(* Theorems about Tracing for every set of ops, addresses and programs:    *)
(* any number of tensors, Functions, contexts and calls of backward; about *)
(* the edges, as long as no Function is put where another one was.         *)
(***************************************************************************)
EXTENDS Tracing, DataLemmas, SequenceTheorems, WellFoundedInduction

Fields == {"nodes", "cells", "output", "owner", "of", "serial"}

\* A Function has been made at every address in use.
HeapOK ==
    /\ DOMAIN heap = Addresses /\ live \subseteq Addresses /\ created \in Nat
    /\ \A a \in Addresses : DOMAIN heap[a] = Fields
    /\ \A a \in live : heap[a].serial # 0

\* A with-block is of a Function that exists and that Python made; no two are
\* of the same one.
ContextsOK ==
    /\ \E S : contexts \in Seq(S)
    /\ \A i \in DOMAIN contexts :
          /\ contexts[i].arg # 0 => contexts[i].kind = "fn"
          /\ contexts[i].kind = "fn" => /\ contexts[i].fn \in live
                                        /\ ~heap[contexts[i].fn].owner
    /\ \A i, j \in DOMAIN contexts :
          /\ contexts[i].kind = "fn" /\ contexts[j].kind = "fn"
          /\ contexts[i].fn = contexts[j].fn
          => i = j

\* While a Function is active it is the one in the tracer, and it is not one
\* that run_op made.
TracerOK ==
    /\ function \in Addresses \cup {NoFn}
    /\ active # NoFn => function = active /\ ~heap[active].owner

\* Without nesting there is at most one with-block of a Function, and that
\* Function is active.
NestingOK ==
    Does("nested") \/ \A i \in DOMAIN contexts : contexts[i].kind = "fn" =>
       /\ function = contexts[i].fn /\ active = contexts[i].fn
       /\ \A j \in DOMAIN contexts : contexts[j].kind = "fn" => i = j

\* A Function of run_op that has been differentiated is not in the tracer.
Closed ==
    Does("throw") \/ \A a \in live :
       heap[a].owner /\ heap[a].output # NoNode => function # a

TracingInv == HeapOK /\ ContextsOK /\ TracerOK /\ NestingOK /\ Closed

-----------------------------------------------------------------------------

LEMMA Pushed ==
    ASSUME NEW S, contexts \in Seq(S), NEW c, contexts' = Append(contexts, c)
    PROVE  /\ \E T : contexts' \in Seq(T)
           /\ Len(contexts) \in Nat /\ DOMAIN contexts = 1 .. Len(contexts)
           /\ DOMAIN contexts' = 1 .. Len(contexts) + 1
           /\ contexts'[Len(contexts) + 1] = c
           /\ \A k \in DOMAIN contexts : contexts'[k] = contexts[k]
<1>1. contexts \in Seq(S \cup {c}) /\ Len(contexts) \in Nat
      /\ DOMAIN contexts = 1 .. Len(contexts)
  BY SeqMonotonic, LenProperties
<1>2. /\ contexts' \in Seq(S \cup {c}) /\ Len(contexts') = Len(contexts) + 1
      /\ contexts'[Len(contexts) + 1] = c
      /\ \A k \in 1 .. Len(contexts) : contexts'[k] = contexts[k]
  BY <1>1, AppendProperties
<1>3. DOMAIN contexts' = 1 .. Len(contexts) + 1
  BY <1>2, LenProperties
<1>4. QED
  BY <1>1, <1>2, <1>3

LEMMA Shortened ==
    ASSUME NEW S, NEW s \in Seq(S), s # <<>>
    PROVE  /\ \E T : Front(s) \in Seq(T)
           /\ Len(s) \in Nat /\ DOMAIN s = 1 .. Len(s)
           /\ Len(s) \in DOMAIN s /\ Last(s) = s[Len(s)]
           /\ DOMAIN Front(s) = 1 .. Len(s) - 1
           /\ \A k \in DOMAIN Front(s) : Front(s)[k] = s[k]
<1>1. Len(s) \in Nat \ {0} /\ DOMAIN s = 1 .. Len(s)
  BY EmptySeq, LenProperties
<1>2. Front(s) = SubSeq(s, 1, Len(s) - 1) /\ \A k \in 1 .. Len(s) - 1 : s[k] \in S
  BY <1>1 DEF Front
<1>3. /\ Front(s) \in Seq(S) /\ DOMAIN Front(s) = 1 .. Len(s) - 1
      /\ \A k \in 1 .. Len(s) - 1 : Front(s)[k] = s[k]
  BY <1>1, <1>2, SubSeqProperties, LenProperties
<1>4. QED
  BY <1>1, <1>3 DEF Last

\* What a Function may become in place.
SameFunction(f, g) ==
    DOMAIN g = Fields /\ g.owner = f.owner /\ g.serial = f.serial

\* Recording into f at a leaves the other addresses alone, and changes no
\* more than the graph of f.
LEMMA RecordedAt ==
    ASSUME DOMAIN heap = Addresses, NEW a \in Addresses, NEW f, DOMAIN f = Fields,
           NEW op, NEW ins, NEW byValue, OpRecordedAt(a, f, op, ins, byValue)
    PROVE  /\ DOMAIN heap' = Addresses
           /\ SameFunction(f, heap'[a]) /\ heap'[a].output = f.output
           /\ \A b \in Addresses \ {a} : heap'[b] = heap[b]
           /\ UNCHANGED <<active, contexts>>
<1>1. PICK x, y, z : heap' = [heap EXCEPT ![a] =
                                [f EXCEPT !.nodes = x, !.cells = y, !.of = z]]
  BY DEF OpRecordedAt
<1>2. heap'[a] = [f EXCEPT !.nodes = x, !.cells = y, !.of = z]
  BY <1>1
<1>3. QED
  BY <1>1, <1>2 DEF OpRecordedAt, SameFunction, Fields

\* A pass changes at most the output of its Function.
LEMMA PassAt ==
    ASSUME DOMAIN heap = Addresses, NEW a \in Addresses, DOMAIN heap[a] = Fields, NEW t,
           Returns(a, t) \/ Throws(a, t) \/ Overruns(a, t)
    PROVE  /\ DOMAIN heap' = Addresses
           /\ SameFunction(heap[a], heap'[a]) /\ heap'[a].nodes = heap[a].nodes
           /\ \A b \in Addresses \ {a} : heap'[b] = heap[b]
<1>1. CASE UNCHANGED heap
  BY <1>1 DEF SameFunction
<1>2. CASE \E o : heap' = [heap EXCEPT ![a].output = o]
  BY <1>2 DEF SameFunction, Fields
<1>3. QED
  BY <1>1, <1>2 DEF Returns, Completes, ReturnsEarly, Throws, Overruns

LEMMA NewlyAllocated ==
    ASSUME HeapOK, NEW hasOwner \in BOOLEAN
    PROVE  /\ DOMAIN Allocated(hasOwner) = Fields
           /\ Allocated(hasOwner).owner = hasOwner
           /\ Allocated(hasOwner).output = NoNode
           /\ Allocated(hasOwner).serial = created + 1 /\ created + 1 # 0
           /\ Free \subseteq Addresses \ live
<1>1. Free \subseteq Addresses \ live
  BY DEF Free, HeapOK
<1>2. QED
  BY <1>1 DEF HeapOK, Allocated, NewFunction, Fields

-----------------------------------------------------------------------------
(* Each kind of step. *)

LEMMA EnterStep ==
    ASSUME TracingInv, UNCHANGED program, NEW arg, EnterNewFunction(arg)
    PROVE  TracingInv'
<1> USE DEF TracingInv
<1> PICK S : contexts \in Seq(S)
  BY DEF ContextsOK
<1>1. PICK a \in Free :
         /\ heap' = [heap EXCEPT ![a] = Allocated(FALSE)]
         /\ live' = live \cup {a} /\ active' = a /\ function' = a
         /\ contexts' = Append(contexts, FunctionContext(a, arg))
         /\ created' = created + 1
  BY DEF EnterNewFunction
<1>2. a \in Addresses /\ a \notin live
  BY NewlyAllocated
<1>3. /\ heap'[a] = Allocated(FALSE) /\ DOMAIN heap' = Addresses
      /\ \A b \in Addresses \ {a} : heap'[b] = heap[b]
  BY <1>1, <1>2 DEF HeapOK
<1>4. HeapOK'
  <2>1. DOMAIN heap'[a] = Fields /\ heap'[a].serial # 0
    BY <1>3, NewlyAllocated
  <2>2. \A b \in Addresses : DOMAIN heap'[b] = Fields
    BY <1>3, <2>1 DEF HeapOK
  <2>3. \A b \in live' : heap'[b].serial # 0
    BY <1>1, <1>2, <1>3, <2>1 DEF HeapOK
  <2>4. created' \in Nat /\ live' \subseteq Addresses
    BY <1>1, <1>2 DEF HeapOK
  <2>5. QED
    BY <1>3, <2>2, <2>3, <2>4 DEF HeapOK
<1>5. /\ \E T : contexts' \in Seq(T)
      /\ Len(contexts) \in Nat /\ DOMAIN contexts = 1 .. Len(contexts)
      /\ DOMAIN contexts' = 1 .. Len(contexts) + 1
      /\ contexts'[Len(contexts) + 1] = FunctionContext(a, arg)
      /\ \A k \in DOMAIN contexts : contexts'[k] = contexts[k]
  BY <1>1, Pushed
<1>6. FunctionContext(a, arg).kind = "fn" /\ FunctionContext(a, arg).fn = a
  BY DEF FunctionContext
<1>7. \A i \in DOMAIN contexts : contexts[i].kind = "fn" =>
         /\ contexts[i].fn \in live \ {a} /\ ~heap'[contexts[i].fn].owner
  BY <1>2, <1>3 DEF ContextsOK, HeapOK
<1>8. ~heap'[a].owner /\ heap'[a].output = NoNode
  BY <1>3, NewlyAllocated
<1>9. ContextsOK'
  <2>1. ASSUME NEW i \in DOMAIN contexts'
        PROVE  /\ contexts'[i].arg # 0 => contexts'[i].kind = "fn"
               /\ contexts'[i].kind = "fn" => /\ contexts'[i].fn \in live'
                                              /\ ~heap'[contexts'[i].fn].owner
    <3>1. CASE i \in DOMAIN contexts
      BY <1>1, <1>5, <1>7, <3>1 DEF ContextsOK
    <3>2. CASE i = Len(contexts) + 1
      BY <1>1, <1>5, <1>6, <1>8, <3>2
    <3>3. QED
      BY <1>5, <3>1, <3>2
  <2>2. ASSUME NEW i \in DOMAIN contexts', NEW j \in DOMAIN contexts',
               contexts'[i].kind = "fn", contexts'[j].kind = "fn",
               contexts'[i].fn = contexts'[j].fn
        PROVE  i = j
    BY <1>5, <1>6, <1>7, <2>2 DEF ContextsOK
  <2>3. QED
    BY <1>5, <2>1, <2>2 DEF ContextsOK
<1>10. TracerOK'
  BY <1>1, <1>2, <1>8 DEF TracerOK
<1>11. NestingOK'
  BY <1>1, <1>5, <1>6 DEF NestingOK, EnterNewFunction, MayEnter, Does
<1>12. Closed'
  BY <1>1, <1>8 DEF Closed, Does
<1>13. QED
  BY <1>4, <1>9, <1>10, <1>11, <1>12

LEMMA ReenterStep ==
    ASSUME TracingInv, UNCHANGED program, ReenterFunction
    PROVE  TracingInv'
<1> USE DEF TracingInv
<1> PICK S : contexts \in Seq(S)
  BY DEF ContextsOK
<1>1. PICK a \in Held :
         /\ ~Entered(a) /\ active' = a /\ function' = a
         /\ contexts' = Append(contexts, FunctionContext(a, 0))
         /\ UNCHANGED <<heap, live, created>>
  BY DEF ReenterFunction
<1>2. a \in Addresses /\ a \in live /\ ~heap[a].owner
  BY DEF Held, HeapOK
<1>3. /\ \E T : contexts' \in Seq(T)
      /\ Len(contexts) \in Nat /\ DOMAIN contexts = 1 .. Len(contexts)
      /\ DOMAIN contexts' = 1 .. Len(contexts) + 1
      /\ contexts'[Len(contexts) + 1] = FunctionContext(a, 0)
      /\ \A k \in DOMAIN contexts : contexts'[k] = contexts[k]
  BY <1>1, Pushed
<1>4. FunctionContext(a, 0).kind = "fn" /\ FunctionContext(a, 0).fn = a
  BY DEF FunctionContext
<1>5. \A i \in DOMAIN contexts : contexts[i].kind = "fn" => contexts[i].fn # a
  BY <1>1 DEF Entered
<1>6. ContextsOK'
  <2>1. \A i \in DOMAIN contexts' :
          /\ contexts'[i].arg # 0 => contexts'[i].kind = "fn"
          /\ contexts'[i].kind = "fn" => /\ contexts'[i].fn \in live'
                                         /\ ~heap'[contexts'[i].fn].owner
    BY <1>1, <1>2, <1>3, <1>4 DEF ContextsOK
  <2>2. ASSUME NEW i \in DOMAIN contexts', NEW j \in DOMAIN contexts',
               contexts'[i].kind = "fn", contexts'[j].kind = "fn",
               contexts'[i].fn = contexts'[j].fn
        PROVE  i = j
    BY <1>3, <1>4, <1>5, <2>2 DEF ContextsOK
  <2>3. QED
    BY <1>3, <2>1, <2>2 DEF ContextsOK
<1>7. NestingOK'
  BY <1>1, <1>3, <1>4 DEF NestingOK, ReenterFunction, MayEnter, Does
<1>8. QED
  BY <1>1, <1>2, <1>6, <1>7 DEF HeapOK, TracerOK, Closed, Does

\* Leaving a with-block, of a Function or a mode.
LEMMA ExitStep ==
    ASSUME TracingInv, UNCHANGED program, ExitFunction \/ ExitGradMode
    PROVE  TracingInv'
<1> USE DEF TracingInv
<1> PICK S : contexts \in Seq(S)
  BY DEF ContextsOK
<1>1. contexts # <<>> /\ contexts' = Front(contexts) /\ UNCHANGED <<heap, live, created>>
  BY DEF ExitFunction, ExitGradMode
<1>2. /\ \E T : contexts' \in Seq(T)
      /\ Len(contexts) \in Nat /\ DOMAIN contexts = 1 .. Len(contexts)
      /\ Len(contexts) \in DOMAIN contexts /\ Last(contexts) = contexts[Len(contexts)]
      /\ DOMAIN contexts' = 1 .. Len(contexts) - 1
      /\ \A k \in DOMAIN contexts' : contexts'[k] = contexts[k]
  BY <1>1, Shortened
<1>3. DOMAIN contexts' \subseteq DOMAIN contexts
  BY <1>2
<1>4. HeapOK' /\ ContextsOK'
  BY <1>1, <1>2, <1>3 DEF HeapOK, ContextsOK
<1>5. CASE ExitFunction
  <2>1. function' = NoFn /\ active' = NoFn /\ Last(contexts).kind = "fn"
    BY <1>5 DEF ExitFunction
  <2>2. NestingOK'
    BY <1>2, <2>1 DEF NestingOK, Does
  <2>3. TracerOK' /\ Closed'
    BY <1>1, <2>1, TracingAssumption DEF TracerOK, Closed, HeapOK, Does
  <2>4. QED
    BY <1>4, <2>2, <2>3
<1>6. CASE ExitGradMode
  <2>1. UNCHANGED <<function, active>>
    BY <1>6 DEF ExitGradMode
  <2>2. QED
    BY <1>1, <1>2, <1>3, <1>4, <2>1 DEF TracerOK, NestingOK, Closed, Does
<1>7. QED
  BY <1>5, <1>6

LEMMA EnterModeStep ==
    ASSUME TracingInv, UNCHANGED program, EnterGradMode
    PROVE  TracingInv'
<1> USE DEF TracingInv
<1> PICK S : contexts \in Seq(S)
  BY DEF ContextsOK
<1>1. PICK c : /\ contexts' = Append(contexts, c) /\ c.kind = "mode" /\ c.arg = 0
               /\ UNCHANGED <<heap, live, function, active, created>>
  BY DEF EnterGradMode
<1>2. /\ \E T : contexts' \in Seq(T)
      /\ Len(contexts) \in Nat /\ DOMAIN contexts = 1 .. Len(contexts)
      /\ DOMAIN contexts' = 1 .. Len(contexts) + 1
      /\ contexts'[Len(contexts) + 1] = c
      /\ \A k \in DOMAIN contexts : contexts'[k] = contexts[k]
  BY <1>1, Pushed
<1>3. \A i \in DOMAIN contexts' : contexts'[i].kind = "fn" \/ contexts'[i].arg # 0
         => i \in DOMAIN contexts /\ contexts'[i] = contexts[i]
  BY <1>1, <1>2
<1>4. ContextsOK' /\ NestingOK'
  BY <1>1, <1>2, <1>3 DEF ContextsOK, NestingOK, Does
<1>5. QED
  BY <1>1, <1>4 DEF HeapOK, TracerOK, Closed, Does

LEMMA DropStep ==
    ASSUME TracingInv, UNCHANGED program, DropFunction
    PROVE  TracingInv'
<1> USE DEF TracingInv
<1>1. PICK a \in Held : ~Entered(a) /\ live' = live \ {a}
  BY DEF DropFunction
<1>2. UNCHANGED <<heap, function, active, contexts, created>>
  BY DEF DropFunction, tracer
<1>3. ContextsOK'
  BY <1>1, <1>2 DEF ContextsOK, Entered
<1>4. QED
  BY <1>1, <1>2, <1>3 DEF HeapOK, TracerOK, NestingOK, Closed, Does

\* A step that changes nothing but what Functions hold: which exist, whose they
\* are and where they are stays.
LEMMA InPlace ==
    ASSUME TracingInv, UNCHANGED program, UNCHANGED <<live, contexts, created>>,
           DOMAIN heap' = Addresses,
           \A b \in Addresses : SameFunction(heap[b], heap'[b])
    PROVE  HeapOK' /\ ContextsOK'
<1>1. HeapOK'
  BY DEF TracingInv, HeapOK, SameFunction
<1>2. \A b \in live : heap'[b].owner = heap[b].owner
  BY DEF TracingInv, HeapOK, SameFunction
<1>3. ContextsOK'
  BY <1>2 DEF TracingInv, ContextsOK
<1>4. QED
  BY <1>1, <1>3

LEMMA RecordStep ==
    ASSUME TracingInv, UNCHANGED program, NEW op, NEW ins, NEW byValue,
           OpRecorded(op, ins, byValue)
    PROVE  TracingInv'
<1> USE DEF TracingInv
<1>1. function \in Addresses /\ OpRecordedAt(function, heap[function], op, ins, byValue)
      /\ UNCHANGED <<live, function, created>>
  BY DEF OpRecorded, TracerOK
<1>2. /\ DOMAIN heap' = Addresses
      /\ SameFunction(heap[function], heap'[function])
      /\ heap'[function].output = heap[function].output
      /\ \A b \in Addresses \ {function} : heap'[b] = heap[b]
      /\ UNCHANGED <<active, contexts>>
  BY <1>1, RecordedAt DEF HeapOK
<1>3. \A b \in Addresses : SameFunction(heap[b], heap'[b])
  BY <1>2 DEF HeapOK, SameFunction
<1>4. HeapOK' /\ ContextsOK'
  BY <1>1, <1>2, <1>3, InPlace
<1>5. \A b \in Addresses : /\ heap'[b].owner = heap[b].owner
                           /\ heap'[b].output = heap[b].output
  BY <1>2, <1>3 DEF SameFunction
<1>6. TracerOK' /\ NestingOK' /\ Closed'
  BY <1>1, <1>2, <1>5 DEF TracerOK, NestingOK, Closed, HeapOK, Does
<1>7. QED
  BY <1>4, <1>6

LEMMA StartStep ==
    ASSUME TracingInv, UNCHANGED program, NEW op, NEW ins, NEW byValue,
           OpStartsFunction(op, ins, byValue)
    PROVE  TracingInv'
<1> USE DEF TracingInv
<1>1. PICK a \in Free : /\ OpRecordedAt(a, Allocated(TRUE), op, ins, byValue)
                        /\ live' = live \cup {a} /\ function' = a
  BY DEF OpStartsFunction
<1>2. a \in Addresses /\ a \notin live /\ created' = created + 1 /\ function = NoFn
  BY <1>1, NewlyAllocated DEF OpStartsFunction
<1>3. /\ DOMAIN heap' = Addresses
      /\ SameFunction(Allocated(TRUE), heap'[a])
      /\ heap'[a].output = Allocated(TRUE).output
      /\ \A b \in Addresses \ {a} : heap'[b] = heap[b]
      /\ UNCHANGED <<active, contexts>>
  <2>1. DOMAIN Allocated(TRUE) = Fields /\ DOMAIN heap = Addresses
    BY NewlyAllocated DEF HeapOK
  <2>2. QED
    BY <1>1, <1>2, <2>1, RecordedAt
<1>4. /\ DOMAIN heap'[a] = Fields /\ heap'[a].serial # 0
      /\ heap'[a].output = NoNode
  BY <1>3, NewlyAllocated DEF SameFunction
<1>5. HeapOK'
  <2>1. \A b \in Addresses : DOMAIN heap'[b] = Fields
    BY <1>3, <1>4 DEF HeapOK
  <2>2. \A b \in live' : heap'[b].serial # 0
    BY <1>1, <1>2, <1>3, <1>4 DEF HeapOK
  <2>3. created' \in Nat /\ live' \subseteq Addresses
    BY <1>1, <1>2 DEF HeapOK
  <2>4. QED
    BY <1>3, <2>1, <2>2, <2>3 DEF HeapOK
<1>6. active = NoFn
  BY <1>2 DEF TracerOK
<1>7. \A i \in DOMAIN contexts : contexts[i].kind = "fn" =>
         /\ contexts[i].fn \in live' /\ contexts[i].fn \in Addresses \ {a}
  BY <1>1, <1>2 DEF ContextsOK, HeapOK
<1>8. ContextsOK'
  BY <1>3, <1>7 DEF ContextsOK
<1>9. NestingOK'
  BY <1>2, <1>3, <1>7, TracingAssumption DEF NestingOK, Does
<1>10. TracerOK' /\ Closed'
  BY <1>1, <1>2, <1>3, <1>4, <1>6 DEF TracerOK, Closed, HeapOK, Does
<1>11. QED
  BY <1>5, <1>8, <1>9, <1>10

\* A pass leaves everything in place but the output of its Function.
LEMMA PassInPlace ==
    ASSUME TracingInv, NEW a \in Addresses, NEW t,
           Returns(a, t) \/ Throws(a, t) \/ Overruns(a, t)
    PROVE  /\ DOMAIN heap' = Addresses
           /\ \A b \in Addresses : /\ SameFunction(heap[b], heap'[b])
                                   /\ heap'[b].owner = heap[b].owner
                                   /\ b # a => heap'[b] = heap[b]
<1>1. DOMAIN heap = Addresses /\ \A b \in Addresses : DOMAIN heap[b] = Fields
  BY DEF TracingInv, HeapOK
<1>2. /\ DOMAIN heap' = Addresses
      /\ SameFunction(heap[a], heap'[a])
      /\ \A b \in Addresses \ {a} : heap'[b] = heap[b]
  BY <1>1, PassAt
<1>3. QED
  BY <1>1, <1>2 DEF SameFunction

LEMMA FunctionBackwardStep ==
    ASSUME TracingInv, UNCHANGED program, NEW a, NEW t, FunctionBackward(a, t)
    PROVE  TracingInv'
<1> USE DEF TracingInv
<1>1. a \in Addresses /\ ~heap[a].owner
  BY DEF FunctionBackward, Held, HeapOK
<1>2. /\ DOMAIN heap' = Addresses
      /\ \A b \in Addresses : /\ SameFunction(heap[b], heap'[b])
                              /\ heap'[b].owner = heap[b].owner
                              /\ b # a => heap'[b] = heap[b]
  BY <1>1, PassInPlace DEF FunctionBackward
<1>3. UNCHANGED <<live, contexts, created>>
  BY DEF FunctionBackward
<1>4. HeapOK' /\ ContextsOK'
  BY <1>2, <1>3, InPlace
<1>5. \/ UNCHANGED <<function, active>>
      \/ MayEnter /\ function' = NoFn /\ active' = NoFn
  BY DEF FunctionBackward
<1>6. TracerOK'
  BY <1>2, <1>5 DEF TracerOK
<1>7. NestingOK'
  BY <1>3, <1>5 DEF NestingOK, MayEnter, Does
<1>8. Closed'
  BY <1>1, <1>2, <1>3, <1>5, TracingAssumption DEF Closed, HeapOK, Does
<1>9. QED
  BY <1>4, <1>6, <1>7, <1>8

LEMMA TensorBackwardHereStep ==
    ASSUME TracingInv, UNCHANGED program, NEW t, TensorBackwardHere(t)
    PROVE  TracingInv'
<1> USE DEF TracingInv
<1>1. function \in Addresses /\ UNCHANGED <<live, active, contexts, created>>
  BY DEF TensorBackwardHere, TracerOK
<1>2. /\ DOMAIN heap' = Addresses
      /\ \A b \in Addresses : /\ SameFunction(heap[b], heap'[b])
                              /\ heap'[b].owner = heap[b].owner
                              /\ b # function => heap'[b] = heap[b]
  BY <1>1, PassInPlace DEF TensorBackwardHere
<1>3. HeapOK' /\ ContextsOK'
  BY <1>1, <1>2, InPlace
<1>4. \/ active = NoFn /\ function' = NoFn
      \/ active # NoFn /\ function' = function
      \/ UNCHANGED <<heap, function>>
      \/ Does("throw") /\ UNCHANGED function
  BY DEF TensorBackwardHere, TracerAfter, Throws, Overruns
<1>5. TracerOK'
  BY <1>1, <1>2, <1>4 DEF TracerOK
<1>6. NestingOK'
  BY <1>1, <1>4, TracingAssumption DEF NestingOK, ContextsOK, HeapOK, Does
<1>7. Closed'
  BY <1>1, <1>2, <1>4, TracingAssumption DEF Closed, TracerOK, HeapOK, Does
<1>8. QED
  BY <1>3, <1>5, <1>6, <1>7

LEMMA TensorBackwardElsewhereStep ==
    ASSUME TracingInv, UNCHANGED program, NEW t, TensorBackwardElsewhere(t)
    PROVE  TracingInv'
<1> USE DEF TracingInv
<1>1. function = NoFn /\ UNCHANGED <<live, function, active, contexts, created>>
  BY DEF TensorBackwardElsewhere, tracer
<1>2. /\ DOMAIN heap' = Addresses
      /\ \A b \in Addresses : /\ SameFunction(heap[b], heap'[b])
                              /\ heap'[b].owner = heap[b].owner
  <2>1. CASE UNCHANGED heap
    BY <2>1 DEF HeapOK, SameFunction
  <2>2. CASE \E a \in live : Returns(a, t) \/ Throws(a, t) \/ Overruns(a, t)
    BY <2>2, PassInPlace DEF HeapOK
  <2>3. QED
    BY <2>1, <2>2 DEF TensorBackwardElsewhere
<1>3. HeapOK' /\ ContextsOK'
  BY <1>1, <1>2, InPlace
<1>4. TracerOK' /\ NestingOK' /\ Closed'
  BY <1>1, <1>2, TracingAssumption DEF TracerOK, NestingOK, Closed, HeapOK, Does
<1>5. QED
  BY <1>3, <1>4

LEMMA GradTransformEndsStep ==
    ASSUME TracingInv, UNCHANGED program, NEW t, GradTransformEnds(t)
    PROVE  TracingInv'
<1> USE DEF TracingInv
<1> PICK S : contexts \in Seq(S)
  BY DEF ContextsOK
<1> DEFINE a == Last(contexts).fn
<1>1. /\ contexts # <<>> /\ Last(contexts).arg # 0 /\ contexts' = Front(contexts)
      /\ live' = live \ {a} /\ UNCHANGED created
      /\ function' = NoFn /\ active' = NoFn
      /\ Returns(a, t) \/ Throws(a, t)
  BY DEF GradTransformEnds, InGradTransform
<1>2. /\ \E T : contexts' \in Seq(T)
      /\ Len(contexts) \in Nat /\ DOMAIN contexts = 1 .. Len(contexts)
      /\ Len(contexts) \in DOMAIN contexts /\ Last(contexts) = contexts[Len(contexts)]
      /\ DOMAIN contexts' = 1 .. Len(contexts) - 1
      /\ \A k \in DOMAIN contexts' : contexts'[k] = contexts[k]
  BY <1>1, Shortened
<1>3. Last(contexts).kind = "fn" /\ a \in Addresses
  BY <1>1, <1>2 DEF ContextsOK, HeapOK
<1>4. /\ DOMAIN heap' = Addresses
      /\ \A b \in Addresses : /\ SameFunction(heap[b], heap'[b])
                              /\ heap'[b].owner = heap[b].owner
                              /\ b # a => heap'[b] = heap[b]
  BY <1>1, <1>3, PassInPlace
<1>5. \A k \in DOMAIN contexts' : k \in DOMAIN contexts /\ k # Len(contexts)
  BY <1>2
<1>6. \A k \in DOMAIN contexts' : contexts'[k].kind = "fn" => contexts'[k].fn # a
  BY <1>2, <1>3, <1>5 DEF ContextsOK
<1>7. HeapOK'
  BY <1>1, <1>4 DEF HeapOK, SameFunction
<1>8. ContextsOK'
  BY <1>1, <1>2, <1>4, <1>5, <1>6 DEF ContextsOK, HeapOK
<1>9. NestingOK'
  BY <1>2, <1>3, <1>5 DEF NestingOK, Does
<1>10. TracerOK' /\ Closed'
  BY <1>1, <1>7, TracingAssumption DEF TracerOK, Closed, HeapOK, Does
<1>11. QED
  BY <1>7, <1>8, <1>9, <1>10

LEMMA TracingStep == TracingInv /\ [Next]_vars => TracingInv'
<1> SUFFICES ASSUME TracingInv, [Next]_vars PROVE TracingInv'
  OBVIOUS
<1>1. UNCHANGED program
  BY DEF Next, vars
<1>2. ASSUME UNCHANGED <<heap, live, tracer, contexts, created>> PROVE TracingInv'
  BY <1>1, <1>2
     DEF TracingInv, HeapOK, ContextsOK, TracerOK, NestingOK, Closed, tracer, Does
<1>3. ASSUME NEW op, NEW ins, NEW byValue,
             \/ OpNotRecorded(op, ins, byValue)
             \/ OpRecorded(op, ins, byValue)
             \/ OpStartsFunction(op, ins, byValue)
      PROVE  TracingInv'
  BY <1>1, <1>2, <1>3, RecordStep, StartStep DEF OpNotRecorded
<1>4. CASE RunOp
  BY <1>3, <1>4 DEF RunOp
<1>5. CASE Backward
  BY <1>1, <1>5, FunctionBackwardStep, TensorBackwardHereStep, TensorBackwardElsewhereStep
     DEF Backward
<1>6. CASE \/ EnterFunction \/ ReenterFunction \/ ExitFunction \/ DropFunction
           \/ EnterGradMode \/ ExitGradMode
  BY <1>1, <1>6, EnterStep, ReenterStep, ExitStep, DropStep, EnterModeStep
     DEF EnterFunction
<1>7. CASE \E t \in DOMAIN tensors : GradTransformBegins(t) \/ GradTransformEnds(t)
  BY <1>1, <1>7, EnterStep, GradTransformEndsStep DEF GradTransformBegins
<1>8. CASE \/ \E requiresGrad \in BOOLEAN : NewTensor(requiresGrad)
           \/ \E t \in DOMAIN tensors, value \in BOOLEAN : SetRequiresGrad(t, value)
           \/ UNCHANGED vars
  BY <1>2, <1>8 DEF NewTensor, SetRequiresGrad, vars
<1>9. QED
  BY <1>4, <1>5, <1>6, <1>7, <1>8 DEF Next, Operation

LEMMA TracingInit == Init => TracingInv
<1> SUFFICES ASSUME Init PROVE TracingInv
  OBVIOUS
<1>1. contexts \in Seq({}) /\ DOMAIN contexts = {}
  BY EmptySeq DEF Init
<1>2. DOMAIN NewFunction(FALSE) = Fields
  BY DEF NewFunction, Fields
<1>3. QED
  BY <1>1, <1>2
     DEF Init, TracingInv, HeapOK, ContextsOK, TracerOK, NestingOK, Closed

\* In a program that enters no Function inside the context of another, the
\* Function of the with-block is the one that records (function.py:4),
\* whatever is differentiated, dropped or thrown in it.
THEOREM UnnestedCorrect == Spec => []UnnestedRecords
<1>1. TracingInv => UnnestedRecords
  BY DEF TracingInv, NestingOK, UnnestedRecords, EnteredRecords
<1>2. QED
  BY <1>1, TracingInit, TracingStep, PTL DEF Spec

\* The Functions of run_op that have been differentiated keep their nodes.
KeepsClosed ==
    Does("throw") \/ \A a \in live :
       heap[a].owner /\ heap[a].output # NoNode => heap'[a].nodes = heap[a].nodes

LEMMA RunOpKeepsClosed == TracingInv /\ RunOp => KeepsClosed
<1> SUFFICES ASSUME TracingInv, NEW op, NEW ins, NEW byValue,
                    \/ OpNotRecorded(op, ins, byValue)
                    \/ OpRecorded(op, ins, byValue)
                    \/ OpStartsFunction(op, ins, byValue)
             PROVE  KeepsClosed
  BY DEF RunOp
<1> USE DEF TracingInv
<1>1. CASE OpNotRecorded(op, ins, byValue)
  BY <1>1 DEF OpNotRecorded, KeepsClosed
<1>2. CASE OpRecorded(op, ins, byValue)
  <2>1. function \in Addresses
        /\ OpRecordedAt(function, heap[function], op, ins, byValue)
    BY <1>2 DEF OpRecorded, TracerOK
  <2>2. \A b \in Addresses \ {function} : heap'[b] = heap[b]
    BY <2>1, RecordedAt DEF HeapOK
  <2>3. QED
    BY <2>2 DEF KeepsClosed, Closed, HeapOK
<1>3. CASE OpStartsFunction(op, ins, byValue)
  <2>1. PICK a \in Free : OpRecordedAt(a, Allocated(TRUE), op, ins, byValue)
    BY <1>3 DEF OpStartsFunction
  <2>2. a \in Addresses /\ a \notin live /\ DOMAIN Allocated(TRUE) = Fields
    BY NewlyAllocated
  <2>3. \A b \in Addresses \ {a} : heap'[b] = heap[b]
    BY <2>1, <2>2, RecordedAt DEF HeapOK
  <2>4. QED
    BY <2>2, <2>3 DEF KeepsClosed, HeapOK
<1>4. QED
  BY <1>1, <1>2, <1>3

LEMMA BackwardKeepsClosed ==
    ASSUME TracingInv, NEW t, Backward \/ GradTransformEnds(t)
    PROVE  KeepsClosed
<1> USE DEF TracingInv
<1>1. ASSUME NEW a \in Addresses, NEW u, Returns(a, u) \/ Throws(a, u) \/ Overruns(a, u)
      PROVE  KeepsClosed
  <2>1. /\ heap'[a].nodes = heap[a].nodes
        /\ \A b \in Addresses \ {a} : heap'[b] = heap[b]
    BY <1>1, PassAt DEF HeapOK
  <2>2. QED
    BY <2>1 DEF KeepsClosed, HeapOK
<1>2. CASE UNCHANGED heap
  BY <1>2 DEF KeepsClosed
<1>3. ASSUME NEW a, NEW u, FunctionBackward(a, u) PROVE KeepsClosed
  BY <1>1, <1>3 DEF FunctionBackward, Held, HeapOK
<1>4. ASSUME NEW u, TensorBackwardHere(u) PROVE KeepsClosed
  BY <1>1, <1>4 DEF TensorBackwardHere, TracerOK
<1>5. ASSUME NEW u, TensorBackwardElsewhere(u) PROVE KeepsClosed
  BY <1>1, <1>2, <1>5 DEF TensorBackwardElsewhere, HeapOK
<1>6. CASE GradTransformEnds(t)
  <2>1. PICK S : contexts \in Seq(S)
    BY DEF ContextsOK
  <2>2. Last(contexts) = contexts[Len(contexts)] /\ Len(contexts) \in DOMAIN contexts
    BY <1>6, <2>1, Shortened DEF GradTransformEnds, InGradTransform
  <2>3. Last(contexts).fn \in Addresses
    BY <1>6, <2>2 DEF GradTransformEnds, InGradTransform, ContextsOK, HeapOK
  <2>4. QED
    BY <1>1, <1>6, <2>3 DEF GradTransformEnds
<1>7. QED
  BY <1>3, <1>4, <1>5, <1>6 DEF Backward

LEMMA StepKeepsClosed == TracingInv /\ [Next]_vars => KeepsClosed
<1> SUFFICES ASSUME TracingInv, [Next]_vars PROVE KeepsClosed
  OBVIOUS
<1>1. CASE UNCHANGED heap
  BY <1>1 DEF KeepsClosed
<1>2. ASSUME NEW arg, EnterNewFunction(arg) PROVE KeepsClosed
  <2>1. PICK a \in Free : heap' = [heap EXCEPT ![a] = Allocated(FALSE)]
    BY <1>2 DEF EnterNewFunction
  <2>2. a \notin live
    BY NewlyAllocated DEF TracingInv
  <2>3. QED
    BY <2>1, <2>2 DEF KeepsClosed, TracingInv, HeapOK
<1>3. QED
  BY <1>1, <1>2, RunOpKeepsClosed, BackwardKeepsClosed
     DEF Next, Operation, vars, NewTensor, SetRequiresGrad, EnterFunction,
         ReenterFunction, ExitFunction, DropFunction, EnterGradMode, ExitGradMode,
         GradTransformBegins

\* A graph that run_op started on its own takes no more nodes once a backward
\* has returned on it (py_tensor.cpp:65), in any program whose kernels do not
\* throw, nested or not, through pointers or by value.
THEOREM IsolatedCorrect == Spec => EagerGraphsIsolated
<1>1. TracingInv /\ [Next]_vars => [KeepsClosed]_vars
  BY StepKeepsClosed
<1>2. [KeepsClosed]_vars =>
         [Does("throw") \/ \A a \in live :
             heap[a].owner /\ heap[a].output # NoNode => heap'[a].nodes = heap[a].nodes]_vars
  BY DEF KeepsClosed
<1>3. QED
  BY <1>1, <1>2, TracingInit, TracingStep, PTL DEF Spec, EagerGraphsIsolated

-----------------------------------------------------------------------------
(* The edges of the recorded graphs. *)

NoReuse == ~Does("reuse")

TensorFields == {"requiresGrad", "producer", "grad"}

\* Tensors and the history of them grow together.
TensorsOK ==
    /\ \E S : tensors \in Seq(S)
    /\ \E S : tape \in Seq(S)
    /\ Len(tape) = Len(tensors)
    /\ \A t \in DOMAIN tensors : DOMAIN tensors[t] = TensorFields
    /\ \A t \in DOMAIN tape : {"inputs", "needed", "dropped"} \subseteq DOMAIN tape[t]

\* The graph of f has a tensor for each node.
GraphOK(f, ts) ==
    /\ f.nodes \in Seq(NodeRecord) /\ f.of \in Seq(Nat)
    /\ Len(f.nodes) = Len(f.of)
    /\ \A i \in 1 .. Len(f.of) : f.of[i] \in 1 .. Len(ts)

\* A tensor whose producer is the graph of f, at a, is the one of its node.
ProducedBy(a, f, ts) ==
    \A t \in 1 .. Len(ts) : ts[t].producer.graph = a =>
       /\ ts[t].producer.node \in 1 .. Len(f.nodes)
       /\ f.of[ts[t].producer.node] = t

\* Edge k of node i is the one of the program.
EdgeOK(f, tp, i, k) ==
    LET step == tp[f.of[i]]
        p == f.nodes[i].inputs[k]
    IN  IF p = NoNode THEN ~step.needed[k]
        ELSE p < i /\ f.of[p] = step.inputs[k]

EdgesOK(f, tp) ==
    \A i \in 1 .. Len(f.nodes) : ~IsParam(f.nodes, i) =>
       \A k \in DOMAIN f.nodes[i].inputs : EdgeOK(f, tp, i, k)

\* And no tensor comes from where no Function has been yet.
GraphInv(a, f, ts, tp) ==
    /\ GraphOK(f, ts) /\ ProducedBy(a, f, ts) /\ EdgesOK(f, tp)
    /\ f.serial = 0 => \A t \in 1 .. Len(ts) : ts[t].producer.graph # a

EdgeInv ==
    /\ NoReuse /\ TensorsOK
    /\ function # NoFn => heap[function].serial # 0
    /\ \A a \in Addresses : GraphInv(a, heap[a], tensors, tape)

-----------------------------------------------------------------------------
(* One call of run_op that is recorded. *)

LEMMA RegisteredProperties ==
    ASSUME NEW m \in Nat, NEW ins, DOMAIN ins = 1 .. m, NEW a, NEW byValue,
           NEW R, R = Registered(a, ins, byValue)
    PROVE  /\ R \subseteq 1 .. m /\ Cardinality(R) \in Nat
           /\ InOrder(R) \in [1 .. Cardinality(R) -> R] /\ Len(InOrder(R)) = Cardinality(R)
           /\ \A k \in R : /\ Rank(R, k) \in 1 .. Cardinality(R)
                           /\ InOrder(R)[Rank(R, k)] = k
<1>1. R \subseteq 1 .. m /\ R \in SUBSET Nat
  BY DEF Registered
<1>2. IsFiniteSet(R)
  <2>1. IsFiniteSet(1 .. m)
    BY FS_Interval
  <2>2. QED
    BY <1>1, <2>1, FS_Subset
<1>3. /\ Cardinality(R) \in Nat
      /\ InOrder(R) \in [1 .. Cardinality(R) -> R]
      /\ \A k \in R : /\ Rank(R, k) \in 1 .. Cardinality(R)
                      /\ InOrder(R)[Rank(R, k)] = k
  BY <1>1, <1>2, InOrderProperties
<1>4. InOrder(R) \in Seq(R)
  BY <1>3, IsASeq
<1>5. Len(InOrder(R)) = Cardinality(R)
  BY <1>3, <1>4, LenProperties
<1>6. QED
  BY <1>1, <1>3, <1>5

LEMMA LeastElement ==
    ASSUME NEW S \in SUBSET Nat, S # {}
    PROVE  \E j \in S : \A l \in S : ~(l < j)
<1>1. PICK j \in S : \A l \in S : <<l, j>> \notin OpToRel(<, Nat)
  BY NatLessThanWellFounded, WFMin
<1>2. QED
  BY <1>1 DEF OpToRel

\* An input that needs a gradient is registered, at its first position if the
\* call is through pointers, or it is a node of the graph already.
LEMMA NeededIsRegistered ==
    ASSUME NEW m \in Nat, NEW ins \in [1 .. m -> 1 .. Len(tensors)], NEW a,
           NEW byValue \in BOOLEAN, NEW R, R = Registered(a, ins, byValue), NEW k \in 1 .. m,
           tensors[ins[k]].requiresGrad, tensors[ins[k]].producer.graph # a
    PROVE  SameInput(R, ins, byValue, k) # {}
<1>1. CASE byValue
  BY <1>1 DEF Registered, SameInput
<1>2. CASE ~byValue
  <2> DEFINE S == {j \in 1 .. m : ins[j] = ins[k]}
  <2>1. S \in SUBSET Nat /\ S # {}
    <3>1. \A j \in 1 .. m : j \in Nat
      OBVIOUS
    <3>2. S \subseteq Nat
      BY <3>1
    <3>3. k \in S
      OBVIOUS
    <3>4. QED
      BY <3>2, <3>3
  <2>2. PICK j \in S : \A l \in S : ~(l < j)
    BY <2>1, LeastElement
  <2>3. j \in 1 .. m /\ ins[j] = ins[k]
    BY <2>2
  <2>4. \A l \in 1 .. j - 1 : ins[l] # ins[j]
    BY <2>2, <2>3
  <2>5. j \in R
    BY <2>3, <2>4 DEF Registered
  <2>6. QED
    BY <1>2, <2>3, <2>5 DEF SameInput
<1>3. QED
  BY <1>1, <1>2

\* Edge k of the op, p: to a node before the call, to one just registered, or
\* none, and then the input needs no gradient.
IdOK(f, n, R, ins, k, p, needed) ==
    \/ p = NoNode /\ ~needed
    \/ p \in 1 .. n /\ f.of[p] = ins[k]
    \/ \E j \in R : p = n + Rank(R, j) /\ ins[j] = ins[k]

LEMMA InputIds ==
    ASSUME NEW m \in Nat, NEW ins \in [1 .. m -> 1 .. Len(tensors)], NEW a,
           NEW byValue \in BOOLEAN, NEW R, R = Registered(a, ins, byValue),
           NEW f, GraphOK(f, tensors), ProducedBy(a, f, tensors), NEW k \in 1 .. m,
           NEW n, n = Len(f.nodes)
    PROVE  IdOK(f, n, R, ins, k, InputId(a, n, R, ins, byValue, k),
                tensors[ins[k]].requiresGrad)
<1> DEFINE p == InputId(a, n, R, ins, byValue, k)
<1> DEFINE same == SameInput(R, ins, byValue, k)
<1>1. CASE same # {}
  <2>1. PICK j \in same : p = n + Rank(R, j)
    BY <1>1 DEF InputId
  <2>2. j \in R /\ ins[j] = ins[k]
    BY <2>1 DEF SameInput
  <2>3. QED
    BY <2>1, <2>2 DEF IdOK
<1>2. CASE same = {} /\ tensors[ins[k]].producer.graph = a
  <2>1. p = tensors[ins[k]].producer.node
    BY <1>2 DEF InputId
  <2>2. ins[k] \in 1 .. Len(tensors)
    OBVIOUS
  <2>3. QED
    BY <1>2, <2>1, <2>2 DEF ProducedBy, IdOK
<1>3. CASE same = {} /\ tensors[ins[k]].producer.graph # a
  <2>1. p = NoNode
    BY <1>3 DEF InputId
  <2>2. ~tensors[ins[k]].requiresGrad
    BY <1>3, NeededIsRegistered
  <2>3. QED
    BY <2>1, <2>2 DEF IdOK
<1>4. QED
  BY <1>1, <1>2, <1>3

\* What a step that adds a tensor does to tensors and tape.
LEMMA OneMore ==
    ASSUME TensorsOK, NEW T, NEW ts \in Seq(T), Len(ts) = Len(tensors),
           \A t \in 1 .. Len(tensors) : DOMAIN ts[t] = TensorFields,
           NEW t1, DOMAIN t1 = TensorFields, tensors' = Append(ts, t1),
           NEW s1, {"inputs", "needed", "dropped"} \subseteq DOMAIN s1, tape' = Append(tape, s1)
    PROVE  /\ TensorsOK'
           /\ Len(tensors) \in Nat /\ Len(tensors') = Len(tensors) + 1
           /\ DOMAIN tensors = 1 .. Len(tensors)
           /\ tensors'[Len(tensors) + 1] = t1 /\ tape'[Len(tensors) + 1] = s1
           /\ \A t \in 1 .. Len(tensors) : tensors'[t] = ts[t] /\ tape'[t] = tape[t]
<1>1. PICK S : tensors \in Seq(S)
  BY DEF TensorsOK
<1>2. Len(tensors) \in Nat /\ DOMAIN tensors = 1 .. Len(tensors)
  BY <1>1, LenProperties
<1>3. PICK U : tape \in Seq(U)
  BY DEF TensorsOK
<1>4. /\ \E W : tensors' \in Seq(W)
      /\ Len(tensors') = Len(tensors) + 1 /\ DOMAIN tensors' = 1 .. Len(tensors) + 1
      /\ tensors'[Len(tensors) + 1] = t1
      /\ \A t \in 1 .. Len(tensors) : tensors'[t] = ts[t]
  <2> PICK r : r = Append(ts, t1)
    OBVIOUS
  <2>1. /\ r \in Seq(T \cup {t1})
        /\ Len(r) = Len(ts) + 1 /\ DOMAIN r = 1 .. Len(ts) + 1
        /\ r[Len(ts) + 1] = t1
        /\ \A t \in 1 .. Len(ts) : r[t] = ts[t]
    BY Appended
  <2>2. tensors' = r
    OBVIOUS
  <2>3. QED
    BY <2>1, <2>2
<1>5. /\ \E W : tape' \in Seq(W)
      /\ Len(tape') = Len(tensors) + 1 /\ DOMAIN tape' = 1 .. Len(tensors) + 1
      /\ DOMAIN tape = 1 .. Len(tensors)
      /\ tape'[Len(tensors) + 1] = s1
      /\ \A t \in 1 .. Len(tensors) : tape'[t] = tape[t]
  <2> PICK r : r = Append(tape, s1)
    OBVIOUS
  <2>1. /\ r \in Seq(U \cup {s1})
        /\ Len(r) = Len(tape) + 1 /\ DOMAIN r = 1 .. Len(tape) + 1
        /\ DOMAIN tape = 1 .. Len(tape)
        /\ r[Len(tape) + 1] = s1
        /\ \A t \in 1 .. Len(tape) : r[t] = tape[t]
    BY <1>3, Appended
  <2>2. tape' = r
    OBVIOUS
  <2>3. QED
    BY <2>1, <2>2 DEF TensorsOK
<1>6. \A t \in 1 .. Len(tensors) + 1 : t \in 1 .. Len(tensors) \/ t = Len(tensors) + 1
  BY <1>2
<1>7. TensorsOK'
  <2>1. \A t \in DOMAIN tensors' : DOMAIN tensors'[t] = TensorFields
    BY <1>4, <1>6
  <2>2. \A t \in DOMAIN tape' : {"inputs", "needed", "dropped"} \subseteq DOMAIN tape'[t]
    BY <1>5, <1>6 DEF TensorsOK
  <2>3. QED
    BY <1>4, <1>5, <2>1, <2>2 DEF TensorsOK
<1>8. QED
  BY <1>2, <1>4, <1>5, <1>7

\* A graph that does not change stays right, whatever tensors there are more.
LEMMA GraphKept ==
    ASSUME NEW a, NEW f, GraphInv(a, f, tensors, tape),
           NEW g, g.nodes = f.nodes, g.of = f.of, g.serial = f.serial,
           Len(tensors) \in Nat, Len(tensors') \in Nat, Len(tensors) <= Len(tensors'),
           \A t \in 1 .. Len(tensors) : /\ tape'[t].inputs = tape[t].inputs
                                        /\ tape'[t].needed = tape[t].needed,
           \A t \in 1 .. Len(tensors') : tensors'[t].producer.graph = a =>
              /\ t \in 1 .. Len(tensors)
              /\ tensors'[t].producer = tensors[t].producer
    PROVE  GraphInv(a, g, tensors', tape')
<1>1. /\ f.of \in Seq(Nat) /\ f.nodes \in Seq(NodeRecord)
      /\ Len(f.of) \in Nat /\ Len(f.nodes) = Len(f.of)
      /\ \A i \in 1 .. Len(f.of) : f.of[i] \in 1 .. Len(tensors)
  BY LenProperties DEF GraphInv, GraphOK
<1>2. GraphOK(g, tensors')
  BY <1>1 DEF GraphOK
<1>3. ProducedBy(a, g, tensors')
  BY DEF GraphInv, ProducedBy
<1>4. EdgesOK(g, tape')
  <2> SUFFICES ASSUME NEW i \in 1 .. Len(f.nodes), ~IsParam(f.nodes, i),
                      NEW k \in DOMAIN f.nodes[i].inputs
               PROVE  EdgeOK(g, tape', i, k)
    BY DEF EdgesOK, IsParam
  <2>1. EdgeOK(f, tape, i, k)
    BY DEF GraphInv, EdgesOK
  <2>2. f.of[i] \in 1 .. Len(tensors)
    BY <1>1
  <2>3. QED
    BY <2>1, <2>2 DEF EdgeOK
<1>5. g.serial = 0 => \A t \in 1 .. Len(tensors') : tensors'[t].producer.graph # a
  BY DEF GraphInv
<1>6. QED
  BY <1>2, <1>3, <1>4, <1>5 DEF GraphInv
\* What recording puts at a.
LEMMA RecordedAs ==
    ASSUME DOMAIN heap = Addresses, NEW a \in Addresses, NEW f, DOMAIN f = Fields,
           NEW op, NEW ins, NEW byValue, OpRecordedAt(a, f, op, ins, byValue),
           NEW R, R = Registered(a, ins, byValue), NEW n, n = Len(f.nodes),
           NEW inputs, inputs = [k \in DOMAIN ins |-> InputId(a, n, R, ins, byValue, k)]
    PROVE  /\ heap'[a].nodes = f.nodes \o [i \in DOMAIN InOrder(R) |-> ParamNode]
                                       \o <<OpNode(op, inputs)>>
           /\ heap'[a].of = f.of \o [i \in DOMAIN InOrder(R) |-> ins[InOrder(R)[i]]]
                                 \o <<Len(tensors) + 1>>
           /\ heap'[a].serial = f.serial
           /\ tensors' = Append(Marked(a, n, R, ins, byValue),
                                Output(ins, [graph |-> a, node |-> n + Len(InOrder(R)) + 1]))
           /\ tape' = Append(tape, Step(op, ins, byValue, f.serial))
<1>1. PICK x, y, z :
        /\ heap' = [heap EXCEPT ![a] = [f EXCEPT !.nodes = x, !.cells = y, !.of = z]]
        /\ x = f.nodes \o [i \in DOMAIN InOrder(R) |-> ParamNode]
                       \o <<OpNode(op, inputs)>>
        /\ z = f.of \o [i \in DOMAIN InOrder(R) |-> ins[InOrder(R)[i]]]
                    \o <<Len(tensors) + 1>>
  BY Zenon DEF OpRecordedAt
<1>2. heap'[a] = [f EXCEPT !.nodes = x, !.cells = y, !.of = z]
  BY <1>1
<1>3. heap'[a].nodes = x /\ heap'[a].of = z /\ heap'[a].serial = f.serial
  BY <1>2 DEF Fields
<1>4. /\ tensors' = Append(Marked(a, n, R, ins, byValue),
                           Output(ins, [graph |-> a, node |-> n + Len(InOrder(R)) + 1]))
      /\ tape' = Append(tape, Step(op, ins, byValue, f.serial))
  BY Zenon DEF OpRecordedAt
<1>5. QED
  BY <1>1, <1>3, <1>4
LEMMA MarkedProperties ==
    ASSUME TensorsOK, NEW a, NEW n, NEW R, NEW ins, NEW byValue,
           NEW ts, ts = Marked(a, n, R, ins, byValue)
    PROVE  /\ \E T : ts \in Seq(T)
           /\ Len(ts) = Len(tensors)
           /\ \A t \in 1 .. Len(tensors) :
                 /\ DOMAIN ts[t] = TensorFields
                 /\ \/ ts[t].producer = tensors[t].producer
                    \/ \E k \in R : /\ ins[k] = t
                                    /\ ts[t].producer = [graph |-> a, node |-> n + Rank(R, k)]
<1>1. PICK S : tensors \in Seq(S)
  BY DEF TensorsOK
<1>2. Len(tensors) \in Nat /\ DOMAIN tensors = 1 .. Len(tensors)
  BY <1>1, LenProperties
<1> DEFINE T == {ts[t] : t \in 1 .. Len(tensors)}
<1>3. ts \in [1 .. Len(tensors) -> T]
  BY <1>2 DEF Marked
<1>4. ts \in Seq(T)
  BY <1>2, <1>3, IsASeq
<1>5. Len(ts) = Len(tensors)
  BY <1>2, <1>3, <1>4, LenProperties
<1>6. ASSUME NEW t \in 1 .. Len(tensors)
      PROVE  /\ DOMAIN ts[t] = TensorFields
             /\ \/ ts[t].producer = tensors[t].producer
                \/ \E k \in R : /\ ins[k] = t
                                /\ ts[t].producer = [graph |-> a, node |-> n + Rank(R, k)]
  <2>1. DOMAIN tensors[t] = TensorFields
    BY <1>2 DEF TensorsOK
  <2>2. CASE byValue \/ ~\E k \in R : ins[k] = t
    BY <1>2, <2>1, <2>2 DEF Marked
  <2>3. CASE ~byValue /\ \E k \in R : ins[k] = t
    <3> DEFINE k == CHOOSE k \in R : ins[k] = t
    <3>1. k \in R /\ ins[k] = t
      BY <2>3
    <3>2. PICK c : ts[t] = [tensors[t] EXCEPT !.grad = c,
                              !.producer = [graph |-> a, node |-> n + Rank(R, k)]]
      BY <1>2, <2>3 DEF Marked
    <3>3. /\ DOMAIN ts[t] = TensorFields
          /\ ts[t].producer = [graph |-> a, node |-> n + Rank(R, k)]
      BY <2>1, <3>2 DEF TensorFields
    <3>4. QED
      BY <3>1, <3>3
  <2>4. QED
    BY <2>2, <2>3
<1>7. QED
  BY <1>4, <1>5, <1>6

-----------------------------------------------------------------------------
(* A graph of n nodes, N tensors in all, and what a recorded call adds: a   *)
(* param node for each position in R, c of them, and the node of the op.    *)

Chosen(R, c, m, params) ==
    /\ R \subseteq 1 .. m /\ params \in [1 .. c -> R]
    /\ \A k \in R : Rank(R, k) \in 1 .. c /\ params[Rank(R, k)] = k

NodesAdded(f, g, n, c, inputs) ==
    /\ g.nodes \in Seq(NodeRecord) /\ Len(g.nodes) = n + c + 1
    /\ \A i \in 1 .. n : g.nodes[i] = f.nodes[i]
    /\ \A i \in 1 .. c : g.nodes[n + i] = ParamNode
    /\ g.nodes[n + c + 1].inputs = inputs

TensorsOfNodes(f, g, n, c, N, ins, params) ==
    /\ g.of \in Seq(Nat) /\ Len(g.of) = n + c + 1
    /\ \A i \in 1 .. n : g.of[i] = f.of[i]
    /\ \A i \in 1 .. c : g.of[n + i] = ins[params[i]]
    /\ g.of[n + c + 1] = N + 1

InputsOK(f, n, m, R, ins, inputs, needed) ==
    /\ DOMAIN inputs = 1 .. m
    /\ \A k \in 1 .. m : IdOK(f, n, R, ins, k, inputs[k], needed[k])

ProducersAdded(a, n, c, N, R, ins, ts0, ts1) ==
    /\ Len(ts0) = N /\ Len(ts1) = N + 1
    /\ ts1[N + 1].producer = [graph |-> a, node |-> n + c + 1]
    /\ \A t \in 1 .. N :
          \/ ts1[t].producer = ts0[t].producer
          \/ \E k \in R : /\ ins[k] = t
                          /\ ts1[t].producer = [graph |-> a, node |-> n + Rank(R, k)]

TapeAdded(N, ins, needed, tp0, tp1) ==
    /\ tp1[N + 1].inputs = ins /\ tp1[N + 1].needed = needed
    /\ \A t \in 1 .. N : tp1[t] = tp0[t]

LEMMA NewNode ==
    ASSUME NEW n \in Nat, NEW c \in Nat, NEW i \in 1 .. n + c + 1
    PROVE  i \in 1 .. n \/ i = n + c + 1 \/ \E j \in 1 .. c : i = n + j
<1>1. CASE i \notin 1 .. n /\ i # n + c + 1
  <2>1. i - n \in 1 .. c /\ i = n + (i - n)
    BY <1>1
  <2>2. QED
    BY <2>1
<1>2. QED
  BY <1>1

LEMMA TensorsAreThere ==
    ASSUME NEW N \in Nat, NEW m \in Nat, NEW n \in Nat, NEW c \in Nat,
           NEW f, NEW g, NEW ts0, NEW ts1, NEW a, NEW R, NEW inputs, NEW params,
           NEW ins \in [1 .. m -> 1 .. N], Len(f.nodes) = n,
           GraphOK(f, ts0), Chosen(R, c, m, params), NodesAdded(f, g, n, c, inputs),
           TensorsOfNodes(f, g, n, c, N, ins, params),
           ProducersAdded(a, n, c, N, R, ins, ts0, ts1)
    PROVE  GraphOK(g, ts1)
<1>1. ASSUME NEW i \in 1 .. n PROVE g.of[i] \in 1 .. N + 1
  <2>1. g.of[i] = f.of[i]
    BY DEF TensorsOfNodes
  <2>2. f.of[i] \in 1 .. N
    BY DEF GraphOK, ProducersAdded
  <2>3. QED
    BY <2>1, <2>2
<1>2. ASSUME NEW i \in 1 .. c PROVE g.of[n + i] \in 1 .. N + 1
  <2>1. g.of[n + i] = ins[params[i]]
    BY DEF TensorsOfNodes
  <2>2. ins[params[i]] \in 1 .. N
    BY DEF Chosen
  <2>3. QED
    BY <2>1, <2>2
<1>3. g.of[n + c + 1] \in 1 .. N + 1
  BY DEF TensorsOfNodes
<1>4. \A i \in 1 .. n + c + 1 : g.of[i] \in 1 .. N + 1
  <2> SUFFICES ASSUME NEW i \in 1 .. n + c + 1 PROVE g.of[i] \in 1 .. N + 1
    OBVIOUS
  <2>1. i \in 1 .. n \/ i = n + c + 1 \/ \E j \in 1 .. c : i = n + j
    BY NewNode
  <2>2. QED
    BY <1>1, <1>2, <1>3, <2>1
<1>5. QED
  BY <1>4 DEF GraphOK, NodesAdded, TensorsOfNodes, ProducersAdded

LEMMA ProducersAreRight ==
    ASSUME NEW N \in Nat, NEW m, NEW n \in Nat, NEW c \in Nat,
           NEW f, NEW g, NEW ts0, NEW ts1, NEW a, NEW R, NEW inputs, NEW params,
           NEW ins, Len(f.nodes) = n,
           ProducedBy(a, f, ts0), Chosen(R, c, m, params), NodesAdded(f, g, n, c, inputs),
           TensorsOfNodes(f, g, n, c, N, ins, params),
           ProducersAdded(a, n, c, N, R, ins, ts0, ts1)
    PROVE  ProducedBy(a, g, ts1)
<1> SUFFICES ASSUME NEW t \in 1 .. N + 1, ts1[t].producer.graph = a
             PROVE  /\ ts1[t].producer.node \in 1 .. n + c + 1
                    /\ g.of[ts1[t].producer.node] = t
  BY DEF ProducedBy, NodesAdded, ProducersAdded
<1>1. CASE t = N + 1
  BY <1>1 DEF ProducersAdded, TensorsOfNodes
<1>2. CASE t \in 1 .. N /\ ts1[t].producer = ts0[t].producer
  <2>1. ts0[t].producer.node \in 1 .. n /\ f.of[ts0[t].producer.node] = t
    BY <1>2 DEF ProducedBy, ProducersAdded
  <2>2. g.of[ts0[t].producer.node] = f.of[ts0[t].producer.node]
    BY <2>1 DEF TensorsOfNodes
  <2>3. ts0[t].producer.node \in 1 .. n + c + 1
    BY <2>1
  <2>4. QED
    BY <1>2, <2>1, <2>2, <2>3
<1>3. ASSUME NEW k \in R, ins[k] = t,
             ts1[t].producer = [graph |-> a, node |-> n + Rank(R, k)]
      PROVE  /\ ts1[t].producer.node \in 1 .. n + c + 1
             /\ g.of[ts1[t].producer.node] = t
  <2>1. PICK r \in 1 .. c : r = Rank(R, k) /\ params[r] = k
    BY DEF Chosen
  <2>2. g.of[n + r] = t
    BY <1>3, <2>1 DEF TensorsOfNodes
  <2>3. ts1[t].producer.node = n + r
    BY <1>3, <2>1
  <2>4. QED
    BY <2>2, <2>3
<1>4. t \in 1 .. N \/ t = N + 1
  OBVIOUS
<1>5. QED
  BY <1>1, <1>2, <1>3, <1>4 DEF ProducersAdded

LEMMA EdgesAreRight ==
    ASSUME NEW N \in Nat, NEW m \in Nat, NEW n \in Nat, NEW c \in Nat,
           NEW f, NEW g, NEW ts0, NEW tp0, NEW tp1, NEW R, NEW inputs, NEW params,
           NEW needed, NEW ins \in [1 .. m -> 1 .. N], Len(f.nodes) = n, Len(ts0) = N,
           GraphOK(f, ts0), EdgesOK(f, tp0), Chosen(R, c, m, params),
           NodesAdded(f, g, n, c, inputs),
           TensorsOfNodes(f, g, n, c, N, ins, params),
           InputsOK(f, n, m, R, ins, inputs, needed),
           TapeAdded(N, ins, needed, tp0, tp1)
    PROVE  EdgesOK(g, tp1)
<1> SUFFICES ASSUME NEW i \in 1 .. n + c + 1, ~IsParam(g.nodes, i),
                    NEW k \in DOMAIN g.nodes[i].inputs
             PROVE  EdgeOK(g, tp1, i, k)
  BY DEF EdgesOK, NodesAdded
<1>1. CASE i \in 1 .. n
  <2>1. ~IsParam(f.nodes, i) /\ g.nodes[i] = f.nodes[i]
    BY <1>1 DEF IsParam, NodesAdded
  <2>2. EdgeOK(f, tp0, i, k)
    BY <1>1, <2>1 DEF EdgesOK
  <2>3. f.nodes[i].inputs \in Seq(Nat)
    <3>1. f.nodes \in Seq(NodeRecord) /\ i \in 1 .. Len(f.nodes)
      BY <1>1 DEF GraphOK
    <3>2. f.nodes[i] \in NodeRecord
      BY <3>1, ElementOfSeq
    <3>3. QED
      BY <3>2 DEF NodeRecord
  <2>4. f.nodes[i].inputs[k] \in Nat
    <3>1. k \in DOMAIN f.nodes[i].inputs
      BY <2>1
    <3>2. k \in 1 .. Len(f.nodes[i].inputs)
      BY <2>3, <3>1, LenProperties
    <3>3. QED
      BY <2>3, <3>2, ElementOfSeq
  <2>5. f.of[i] \in 1 .. N /\ g.of[i] = f.of[i]
    BY <1>1 DEF GraphOK, TensorsOfNodes
  <2>6. f.nodes[i].inputs[k] < i /\ f.nodes[i].inputs[k] # NoNode
           => f.nodes[i].inputs[k] \in 1 .. n
    BY <1>1, <2>4 DEF NoNode
  <2>7. tp1[g.of[i]] = tp0[f.of[i]]
    BY <2>5 DEF TapeAdded
  <2>8. f.nodes[i].inputs[k] \in 1 .. n => g.of[f.nodes[i].inputs[k]] = f.of[f.nodes[i].inputs[k]]
    BY DEF TensorsOfNodes
  <2>9. QED
    BY <2>1, <2>2, <2>6, <2>7, <2>8 DEF EdgeOK
<1>2. ASSUME NEW j \in 1 .. c, i = n + j PROVE FALSE
  <2>1. g.nodes[n + j] = ParamNode
    BY DEF NodesAdded
  <2>2. QED
    BY <1>2, <2>1 DEF IsParam, ParamNode
<1>3. CASE i = n + c + 1
  <2>1. /\ g.nodes[i].inputs = inputs /\ k \in 1 .. m
        /\ tp1[g.of[i]].inputs = ins /\ tp1[g.of[i]].needed = needed
    BY <1>3 DEF NodesAdded, TensorsOfNodes, InputsOK, TapeAdded
  <2>2. CASE inputs[k] = NoNode /\ ~needed[k]
    BY <2>1, <2>2 DEF EdgeOK
  <2>3. CASE inputs[k] \in 1 .. n /\ f.of[inputs[k]] = ins[k]
    <3>1. inputs[k] < i /\ inputs[k] # NoNode
      BY <1>3, <2>3 DEF NoNode
    <3>2. g.of[inputs[k]] = f.of[inputs[k]]
      BY <2>3 DEF TensorsOfNodes
    <3>3. QED
      BY <2>1, <2>3, <3>1, <3>2 DEF EdgeOK
  <2>4. ASSUME NEW j \in R, inputs[k] = n + Rank(R, j), ins[j] = ins[k]
        PROVE  EdgeOK(g, tp1, i, k)
    <3>1. PICK r \in 1 .. c : r = Rank(R, j) /\ params[r] = j
      BY DEF Chosen
    <3>2. g.of[n + r] = ins[k] /\ inputs[k] = n + r
      BY <2>4, <3>1 DEF TensorsOfNodes
    <3>3. inputs[k] < i /\ inputs[k] # NoNode
      BY <1>3, <3>2 DEF NoNode
    <3>4. QED
      BY <2>1, <3>2, <3>3 DEF EdgeOK
  <2>5. QED
    BY <2>1, <2>2, <2>3, <2>4 DEF InputsOK, IdOK
<1>4. i \in 1 .. n \/ i = n + c + 1 \/ \E j \in 1 .. c : i = n + j
  BY NewNode
<1>5. QED
  BY <1>1, <1>2, <1>3, <1>4
-----------------------------------------------------------------------------
(* The steps. *)

\* The node of the op and the param nodes, and their tensors.
LEMMA NodesOfOp ==
    ASSUME NEW f, NEW g, NEW n, Len(f.nodes) = n, f.nodes \in Seq(NodeRecord),
           NEW c \in Nat, NEW op \in Ops, NEW inputs \in Seq(Nat),
           g.nodes = f.nodes \o [i \in 1 .. c |-> ParamNode] \o <<OpNode(op, inputs)>>
    PROVE  NodesAdded(f, g, n, c, inputs)
<1> DEFINE x == [i \in 1 .. c |-> ParamNode]
<1> DEFINE y == OpNode(op, inputs)
<1>1. y \in NodeRecord /\ ParamNode \in NodeRecord /\ y.inputs = inputs
  BY EmptySeq DEF OpNode, ParamNode, NodeRecord
<1>2. x \in [1 .. c -> NodeRecord] /\ \A i \in 1 .. c : x[i] = ParamNode
  BY <1>1
<1>3. g.nodes = f.nodes \o x \o <<y>>
  OBVIOUS
<1> HIDE DEF x, y
<1>4. Extension(f.nodes \o x \o <<y>>, f.nodes, c, x, y, NodeRecord)
  BY <1>1, <1>2, Extended
<1>5. Extension(g.nodes, f.nodes, c, x, y, NodeRecord)
  BY <1>3, <1>4
<1>6. QED
  BY <1>1, <1>2, <1>5 DEF NodesAdded, Extension

LEMMA TensorsOfOp ==
    ASSUME NEW f, NEW g, NEW n, Len(f.of) = n, f.of \in Seq(Nat),
           NEW c \in Nat, NEW N \in Nat, NEW m \in Nat,
           NEW ins \in [1 .. m -> 1 .. N], NEW params \in [1 .. c -> 1 .. m],
           g.of = f.of \o [i \in 1 .. c |-> ins[params[i]]] \o <<N + 1>>
    PROVE  TensorsOfNodes(f, g, n, c, N, ins, params)
<1> DEFINE x == [i \in 1 .. c |-> ins[params[i]]]
<1>1. x \in [1 .. c -> Nat] /\ \A i \in 1 .. c : x[i] = ins[params[i]]
  <2>1. \A i \in 1 .. c : params[i] \in 1 .. m
    OBVIOUS
  <2>2. \A k \in 1 .. m : ins[k] \in Nat
    OBVIOUS
  <2>3. \A i \in 1 .. c : ins[params[i]] \in Nat
    BY <2>1, <2>2
  <2>4. QED
    BY <2>3
<1>2. g.of = f.of \o x \o <<N + 1>> /\ N + 1 \in Nat
  OBVIOUS
<1> HIDE DEF x
<1>3. Extension(f.of \o x \o <<N + 1>>, f.of, c, x, N + 1, Nat)
  BY <1>1, <1>2, Extended
<1>4. Extension(g.of, f.of, c, x, N + 1, Nat)
  BY <1>2, <1>3
<1>5. QED
  BY <1>1, <1>4 DEF TensorsOfNodes, Extension
LEMMA ChosenInputs ==
    ASSUME NEW m \in Nat, NEW ins, DOMAIN ins = 1 .. m, NEW a, NEW byValue,
           NEW R, R = Registered(a, ins, byValue)
    PROVE  /\ Cardinality(R) \in Nat
           /\ DOMAIN InOrder(R) = 1 .. Cardinality(R) /\ Len(InOrder(R)) = Cardinality(R)
           /\ Chosen(R, Cardinality(R), m, InOrder(R))
<1>1. /\ R \subseteq 1 .. m /\ Cardinality(R) \in Nat
      /\ InOrder(R) \in [1 .. Cardinality(R) -> R] /\ Len(InOrder(R)) = Cardinality(R)
      /\ \A k \in R : /\ Rank(R, k) \in 1 .. Cardinality(R)
                      /\ InOrder(R)[Rank(R, k)] = k
  BY RegisteredProperties
<1>2. QED
  BY <1>1 DEF Chosen

LEMMA InputsOfOp ==
    ASSUME NEW m \in Nat, NEW ins \in [1 .. m -> 1 .. Len(tensors)], NEW a,
           NEW byValue \in BOOLEAN, NEW f, GraphOK(f, tensors), ProducedBy(a, f, tensors),
           Len(f.nodes) \in Nat, NEW c \in Nat, NEW params,
           Chosen(Registered(a, ins, byValue), c, m, params)
    PROVE  LET R == Registered(a, ins, byValue)
               n == Len(f.nodes)
               inputs == [k \in DOMAIN ins |-> InputId(a, n, R, ins, byValue, k)]
           IN
           /\ InputsOK(f, n, m, R, ins, inputs,
                       [k \in DOMAIN ins |-> tensors[ins[k]].requiresGrad])
           /\ inputs \in Seq(Nat)
<1> DEFINE R == Registered(a, ins, byValue)
<1> DEFINE n == Len(f.nodes)
<1> DEFINE inputs == [k \in DOMAIN ins |-> InputId(a, n, R, ins, byValue, k)]
<1> DEFINE needed == [k \in DOMAIN ins |-> tensors[ins[k]].requiresGrad]
<1>1. ASSUME NEW k \in 1 .. m PROVE IdOK(f, n, R, ins, k, inputs[k], needed[k])
  <2>1. inputs[k] = InputId(a, n, R, ins, byValue, k)
    OBVIOUS
  <2>2. needed[k] = tensors[ins[k]].requiresGrad
    OBVIOUS
  <2>3. IdOK(f, n, R, ins, k, InputId(a, n, R, ins, byValue, k),
             tensors[ins[k]].requiresGrad)
    BY InputIds, Zenon
  <2>4. QED
    BY <2>1, <2>2, <2>3
<1>2. DOMAIN inputs = 1 .. m
  OBVIOUS
<1> HIDE DEF R, n, inputs, needed
<1>3. ASSUME NEW k \in 1 .. m PROVE inputs[k] \in Nat
  <2> n \in Nat /\ Chosen(R, c, m, params)
    BY DEF R, n
  <2>1. \A j \in R : n + Rank(R, j) \in Nat
    <3>1. \A j \in R : Rank(R, j) \in 1 .. c
      BY DEF Chosen
    <3>2. QED
      BY <3>1
  <2>2. NoNode \in Nat /\ 1 .. n \subseteq Nat
    BY DEF NoNode
  <2>3. QED
    BY <1>1, <2>1, <2>2 DEF IdOK
<1>4. inputs \in [1 .. m -> Nat]
  BY <1>2, <1>3 DEF inputs
<1>5. inputs \in Seq(Nat)
  BY <1>4, IsASeq
<1>6. InputsOK(f, n, m, R, ins, inputs, needed)
  BY <1>1, <1>2 DEF InputsOK
<1>7. QED
  BY <1>5, <1>6 DEF R, n, inputs, needed

LEMMA TensorsAfterOp ==
    ASSUME TensorsOK, NEW a, NEW n, NEW c, NEW R, NEW op, NEW ins, NEW byValue, NEW s,
           tensors' = Append(Marked(a, n, R, ins, byValue),
                             Output(ins, [graph |-> a, node |-> n + c + 1])),
           tape' = Append(tape, Step(op, ins, byValue, s))
    PROVE  /\ TensorsOK' /\ Len(tensors) \in Nat
           /\ ProducersAdded(a, n, c, Len(tensors), R, ins, tensors, tensors')
           /\ TapeAdded(Len(tensors), ins,
                        [k \in DOMAIN ins |-> tensors[ins[k]].requiresGrad], tape, tape')
<1> DEFINE ts == Marked(a, n, R, ins, byValue)
<1> DEFINE t1 == Output(ins, [graph |-> a, node |-> n + c + 1])
<1> DEFINE s1 == Step(op, ins, byValue, s)
<1>1. /\ \E T : ts \in Seq(T)
      /\ Len(ts) = Len(tensors)
      /\ \A t \in 1 .. Len(tensors) :
            /\ DOMAIN ts[t] = TensorFields
            /\ \/ ts[t].producer = tensors[t].producer
               \/ \E k \in R : /\ ins[k] = t
                               /\ ts[t].producer = [graph |-> a, node |-> n + Rank(R, k)]
  BY MarkedProperties
<1>2. DOMAIN t1 = TensorFields /\ t1.producer = [graph |-> a, node |-> n + c + 1]
  BY DEF Output, TensorFields
<1>3. /\ {"inputs", "needed", "dropped"} \subseteq DOMAIN s1 /\ s1.inputs = ins
      /\ s1.needed = [k \in DOMAIN ins |-> tensors[ins[k]].requiresGrad]
  BY DEF Step
<1> HIDE DEF ts, t1, s1
<1>4. tensors' = Append(ts, t1) /\ tape' = Append(tape, s1)
  BY DEF ts, t1, s1
<1>5. PICK T : ts \in Seq(T)
  BY <1>1
<1>6. Len(ts) = Len(tensors) /\ \A t \in 1 .. Len(tensors) : DOMAIN ts[t] = TensorFields
  BY <1>1
<1>7. /\ TensorsOK'
      /\ Len(tensors) \in Nat /\ Len(tensors') = Len(tensors) + 1
      /\ DOMAIN tensors = 1 .. Len(tensors)
      /\ tensors'[Len(tensors) + 1] = t1 /\ tape'[Len(tensors) + 1] = s1
      /\ \A t \in 1 .. Len(tensors) : tensors'[t] = ts[t] /\ tape'[t] = tape[t]
  BY <1>2, <1>3, <1>4, <1>5, <1>6, OneMore, Zenon
<1>8. ProducersAdded(a, n, c, Len(tensors), R, ins, tensors, tensors')
  <2>1. ASSUME NEW t \in 1 .. Len(tensors)
        PROVE  \/ tensors'[t].producer = tensors[t].producer
               \/ \E k \in R : /\ ins[k] = t
                               /\ tensors'[t].producer
                                    = [graph |-> a, node |-> n + Rank(R, k)]
    <3>1. tensors'[t] = ts[t]
      BY <1>7
    <3>2. \/ ts[t].producer = tensors[t].producer
          \/ \E k \in R : /\ ins[k] = t
                          /\ ts[t].producer = [graph |-> a, node |-> n + Rank(R, k)]
      BY <1>1
    <3>3. QED
      BY <3>1, <3>2
  <2>2. QED
    BY <1>2, <1>7, <2>1 DEF ProducersAdded
<1>9. QED
  BY <1>3, <1>7, <1>8 DEF TapeAdded

\* Recording leaves the graph at a as right as it was.
LEMMA RecordedGraph ==
    ASSUME DOMAIN heap = Addresses, TensorsOK, NEW a \in Addresses,
           NEW f, DOMAIN f = Fields, f.serial # 0, GraphInv(a, f, tensors, tape),
           NEW op \in Ops, NEW byValue \in BOOLEAN,
           NEW ins \in [1 .. Arity(op) -> 1 .. Len(tensors)],
           OpRecordedAt(a, f, op, ins, byValue)
    PROVE  /\ GraphInv(a, heap'[a], tensors', tape') /\ heap'[a].serial = f.serial
           /\ TensorsOK' /\ Len(tensors) \in Nat /\ Len(tensors') = Len(tensors) + 1
           /\ \A t \in 1 .. Len(tensors) : tape'[t] = tape[t]
           /\ \A t \in 1 .. Len(tensors') : tensors'[t].producer.graph # a =>
                 /\ t \in 1 .. Len(tensors)
                 /\ tensors'[t].producer = tensors[t].producer
<1> DEFINE N == Len(tensors)
<1> DEFINE m == Arity(op)
<1> DEFINE n == Len(f.nodes)
<1> DEFINE R == Registered(a, ins, byValue)
<1> DEFINE c == Cardinality(R)
<1> DEFINE params == InOrder(R)
<1> DEFINE inputs == [k \in DOMAIN ins |-> InputId(a, n, R, ins, byValue, k)]
<1> DEFINE needed == [k \in DOMAIN ins |-> tensors[ins[k]].requiresGrad]
<1> DEFINE g == heap'[a]
<1>1. m \in Nat /\ DOMAIN ins = 1 .. m
  BY OpsAssumption, LenProperties DEF Arity
<1>2. /\ GraphOK(f, tensors) /\ ProducedBy(a, f, tensors) /\ EdgesOK(f, tape)
      /\ f.nodes \in Seq(NodeRecord) /\ f.of \in Seq(Nat) /\ Len(f.of) = n /\ n \in Nat
  BY LenProperties DEF GraphInv, GraphOK
<1>3. /\ c \in Nat /\ DOMAIN params = 1 .. c /\ Len(params) = c
      /\ Chosen(R, c, m, params)
  BY <1>1, ChosenInputs
<1>4. InputsOK(f, n, m, R, ins, inputs, needed) /\ inputs \in Seq(Nat)
  BY <1>1, <1>2, <1>3, InputsOfOp, Zenon
<1>5. /\ g.nodes = f.nodes \o [i \in DOMAIN params |-> ParamNode] \o <<OpNode(op, inputs)>>
      /\ g.of = f.of \o [i \in DOMAIN params |-> ins[params[i]]] \o <<N + 1>>
      /\ g.serial = f.serial
      /\ tensors' = Append(Marked(a, n, R, ins, byValue),
                           Output(ins, [graph |-> a, node |-> n + Len(params) + 1]))
      /\ tape' = Append(tape, Step(op, ins, byValue, f.serial))
  BY RecordedAs, ZenonT(30)
<1> HIDE DEF n, R, c, params, inputs, needed, g
<1>6. /\ TensorsOK' /\ N \in Nat
      /\ ProducersAdded(a, n, c, N, R, ins, tensors, tensors')
      /\ TapeAdded(N, ins, needed, tape, tape')
  <2>1. tensors' = Append(Marked(a, n, R, ins, byValue),
                          Output(ins, [graph |-> a, node |-> n + c + 1]))
    BY <1>3, <1>5
  <2>2. QED
    BY <1>5, <2>1, TensorsAfterOp DEF needed
<1>7. NodesAdded(f, g, n, c, inputs)
  <2>1. g.nodes = f.nodes \o [i \in 1 .. c |-> ParamNode] \o <<OpNode(op, inputs)>>
    BY <1>3, <1>5
  <2>2. Len(f.nodes) = n
    BY DEF n
  <2>3. QED
    BY <1>2, <1>3, <1>4, <2>1, <2>2, NodesOfOp
<1>8. params \in [1 .. c -> 1 .. m]
  BY <1>3 DEF Chosen
<1>9. TensorsOfNodes(f, g, n, c, N, ins, params)
  <2>1. g.of = f.of \o [i \in 1 .. c |-> ins[params[i]]] \o <<N + 1>>
    BY <1>3, <1>5
  <2>2. QED
    BY <1>1, <1>2, <1>3, <1>6, <1>8, <2>1, TensorsOfOp
<1> HIDE DEF N, m
<1>10. ins \in [1 .. m -> 1 .. N] /\ Len(f.nodes) = n /\ Len(tensors) = N
  BY DEF N, m, n
<1>11. GraphOK(g, tensors')
  BY <1>1, <1>2, <1>3, <1>6, <1>7, <1>9, <1>10, TensorsAreThere, Zenon
<1>12. ProducedBy(a, g, tensors')
  BY <1>1, <1>2, <1>3, <1>6, <1>7, <1>9, <1>10, ProducersAreRight
<1>13. EdgesOK(g, tape')
  BY <1>1, <1>2, <1>3, <1>4, <1>6, <1>7, <1>9, <1>10, EdgesAreRight, Zenon
<1>14. GraphInv(a, g, tensors', tape') /\ g.serial = f.serial
  BY <1>5, <1>11, <1>12, <1>13 DEF GraphInv
<1>15. Len(tensors') = N + 1 /\ \A t \in 1 .. N : tape'[t] = tape[t]
  BY <1>6 DEF ProducersAdded, TapeAdded
<1>16. ASSUME NEW t \in 1 .. N + 1, tensors'[t].producer.graph # a
       PROVE  t \in 1 .. N /\ tensors'[t].producer = tensors[t].producer
  <2>1. t # N + 1
    BY <1>6, <1>16 DEF ProducersAdded
  <2>2. t \in 1 .. N
    BY <1>6, <2>1
  <2>3. ASSUME NEW k \in R, tensors'[t].producer = [graph |-> a, node |-> n + Rank(R, k)]
        PROVE  FALSE
    BY <1>16, <2>3
  <2>4. QED
    BY <1>6, <2>2, <2>3 DEF ProducersAdded
<1>17. QED
  BY <1>6, <1>10, <1>14, <1>15, <1>16 DEF g
\* A step that changes no graph, and no tensor's producer or history.
SameGraphs ==
    \A b \in Addresses : /\ heap'[b].nodes = heap[b].nodes
                         /\ heap'[b].of = heap[b].of
                         /\ heap'[b].serial = heap[b].serial

SameTensors ==
    /\ TensorsOK' /\ Len(tensors) \in Nat /\ Len(tensors') \in Nat
    /\ Len(tensors) <= Len(tensors')
    /\ \A t \in 1 .. Len(tensors) : /\ tape'[t].inputs = tape[t].inputs
                                    /\ tape'[t].needed = tape[t].needed
    /\ \A t \in 1 .. Len(tensors') : tensors'[t].producer.graph \in Addresses =>
          /\ t \in 1 .. Len(tensors)
          /\ tensors'[t].producer = tensors[t].producer

LEMMA SameGraphsStep ==
    ASSUME EdgeInv, UNCHANGED program, SameGraphs, SameTensors,
           function' # NoFn => function' \in Addresses /\ heap[function'].serial # 0
    PROVE  EdgeInv'
<1>1. ASSUME NEW b \in Addresses PROVE GraphInv(b, heap'[b], tensors', tape')
  <2>1. GraphInv(b, heap[b], tensors, tape)
    BY DEF EdgeInv
  <2>2. \A t \in 1 .. Len(tensors') : tensors'[t].producer.graph = b =>
           /\ t \in 1 .. Len(tensors)
           /\ tensors'[t].producer = tensors[t].producer
    BY DEF SameTensors
  <2>3. QED
    BY <2>1, <2>2, GraphKept DEF SameGraphs, SameTensors
<1>2. function' # NoFn => heap'[function'].serial # 0
  BY DEF SameGraphs
<1>3. QED
  BY <1>1, <1>2 DEF EdgeInv, SameTensors, NoReuse, Does

LEMMA TensorsStay ==
    ASSUME TensorsOK, UNCHANGED <<tensors, tape>>
    PROVE  SameTensors
<1>1. Len(tensors) \in Nat
  BY LenProperties DEF TensorsOK
<1>2. TensorsOK'
  BY DEF TensorsOK
<1>3. QED
  BY <1>1, <1>2 DEF SameTensors

LEMMA OfLength ==
    ASSUME NEW n \in Nat, NEW s, s = [i \in 1 .. n |-> s[i]]
    PROVE  (\E U : s \in Seq(U)) /\ Len(s) = n
<1> DEFINE U == {s[i] : i \in 1 .. n}
<1>1. s \in [1 .. n -> U]
  OBVIOUS
<1>2. s \in Seq(U)
  BY <1>1, IsASeq
<1>3. DOMAIN s = 1 .. n
  BY <1>1
<1>4. Len(s) \in Nat /\ DOMAIN s = 1 .. Len(s)
  BY <1>2, LenProperties
<1> HIDE DEF U
<1>5. Len(s) = n
  BY <1>3, <1>4
<1>6. QED
  BY <1>2, <1>5

\* requires_grad_ and zero_grad change no producer.
LEMMA TensorsRedone ==
    ASSUME TensorsOK, NEW t \in DOMAIN tensors, NEW r, NEW c,
           tensors' = [tensors EXCEPT ![t].requiresGrad = r, ![t].grad = c],
           \/ UNCHANGED tape
           \/ \E d : tape' = [tape EXCEPT ![t].dropped = d]
    PROVE  SameTensors
<1>1. PICK S : tensors \in Seq(S)
  BY DEF TensorsOK
<1>2. PICK T : tape \in Seq(T)
  BY DEF TensorsOK
<1> DEFINE N == Len(tensors)
<1>3. /\ N \in Nat /\ DOMAIN tensors = 1 .. N
      /\ Len(tape) = N /\ DOMAIN tape = 1 .. N
  BY <1>1, <1>2, LenProperties DEF TensorsOK
<1>4. /\ DOMAIN tensors' = 1 .. N
      /\ \A u \in 1 .. N : /\ DOMAIN tensors'[u] = TensorFields
                           /\ tensors'[u].producer = tensors[u].producer
  BY <1>3 DEF TensorsOK, TensorFields
<1>5. /\ DOMAIN tape' = 1 .. N
      /\ \A u \in 1 .. N : /\ {"inputs", "needed", "dropped"} \subseteq DOMAIN tape'[u]
                           /\ tape'[u].inputs = tape[u].inputs
                           /\ tape'[u].needed = tape[u].needed
  BY <1>3 DEF TensorsOK
<1>6. tensors' = [u \in 1 .. N |-> tensors'[u]] /\ tape' = [u \in 1 .. N |-> tape'[u]]
  <2>1. tensors = [u \in 1 .. N |-> tensors[u]] /\ tape = [u \in 1 .. N |-> tape[u]]
    BY <1>1, <1>2, <1>3, LenProperties
  <2>2. QED
    BY <1>3, <2>1
<1>7. \A r1 : r1 = [u \in 1 .. N |-> r1[u]] => (\E U : r1 \in Seq(U)) /\ Len(r1) = N
  BY <1>3, OfLength
<1>8. /\ \E U : tensors' \in Seq(U)
      /\ \E U : tape' \in Seq(U)
      /\ Len(tensors') = N /\ Len(tape') = N
  BY <1>6, <1>7
<1>9. TensorsOK'
  BY <1>4, <1>5, <1>8 DEF TensorsOK
<1>10. QED
  BY <1>3, <1>4, <1>5, <1>8, <1>9 DEF SameTensors

LEMMA OneMoreTensor ==
    ASSUME TensorsOK, NEW t1, DOMAIN t1 = TensorFields, t1.producer = NoProducer,
           NEW s1, {"inputs", "needed", "dropped"} \subseteq DOMAIN s1,
           tensors' = Append(tensors, t1), tape' = Append(tape, s1)
    PROVE  SameTensors
<1>1. PICK S : tensors \in Seq(S)
  BY DEF TensorsOK
<1>2. \A t \in 1 .. Len(tensors) : DOMAIN tensors[t] = TensorFields
  BY <1>1, LenProperties DEF TensorsOK
<1>3. /\ TensorsOK'
      /\ Len(tensors) \in Nat /\ Len(tensors') = Len(tensors) + 1
      /\ DOMAIN tensors = 1 .. Len(tensors)
      /\ tensors'[Len(tensors) + 1] = t1 /\ tape'[Len(tensors) + 1] = s1
      /\ \A t \in 1 .. Len(tensors) : tensors'[t] = tensors[t] /\ tape'[t] = tape[t]
  BY <1>1, <1>2, OneMore, Zenon
<1>4. t1.producer.graph \notin Addresses
  BY TracingAssumption DEF NoProducer
<1>5. \A t \in 1 .. Len(tensors') : tensors'[t].producer.graph \in Addresses =>
         t \in 1 .. Len(tensors) /\ tensors'[t].producer = tensors[t].producer
  BY <1>3, <1>4
<1>6. \A t \in 1 .. Len(tensors) : tape'[t].inputs = tape[t].inputs
                                  /\ tape'[t].needed = tape[t].needed
  BY <1>3
<1>7. Len(tensors') \in Nat /\ Len(tensors) <= Len(tensors')
  BY <1>3
<1>8. QED
  BY <1>3, <1>5, <1>6, <1>7 DEF SameTensors
\* A Function put where none has been has no nodes, and no tensor is from there.
LEMMA FreshGraph ==
    ASSUME HeapOK, EdgeInv, NEW a \in Free, NEW hasOwner \in BOOLEAN
    PROVE  /\ a \in Addresses
           /\ GraphInv(a, Allocated(hasOwner), tensors, tape)
           /\ Allocated(hasOwner).serial # 0
<1>1. a \in Addresses /\ heap[a].serial = 0
  BY DEF EdgeInv, NoReuse, Free
<1>2. \A t \in 1 .. Len(tensors) : tensors[t].producer.graph # a
  BY <1>1 DEF EdgeInv, GraphInv
<1> DEFINE f == Allocated(hasOwner)
<1>3. f.nodes = <<>> /\ f.of = <<>> /\ f.serial # 0
  BY DEF HeapOK, Allocated, NewFunction
<1> HIDE DEF f
<1>4. GraphOK(f, tensors)
  BY <1>3, EmptySeq DEF GraphOK
<1>5. ProducedBy(a, f, tensors)
  BY <1>2 DEF ProducedBy
<1>6. EdgesOK(f, tape)
  BY <1>3, EmptySeq DEF EdgesOK
<1>7. GraphInv(a, f, tensors, tape)
  BY <1>2, <1>4, <1>5, <1>6 DEF GraphInv
<1>8. QED
  BY <1>1, <1>3, <1>7 DEF f

LEMMA RecordedEdges ==
    ASSUME TracingInv, EdgeInv, UNCHANGED program, NEW a \in Addresses,
           NEW f, DOMAIN f = Fields, f.serial # 0, GraphInv(a, f, tensors, tape),
           NEW op \in Ops, NEW byValue \in BOOLEAN,
           NEW ins \in [1 .. Arity(op) -> 1 .. Len(tensors)],
           OpRecordedAt(a, f, op, ins, byValue), function' = a
    PROVE  EdgeInv'
<1>1. DOMAIN heap = Addresses /\ TensorsOK
  BY DEF TracingInv, HeapOK, EdgeInv
<1>2. /\ GraphInv(a, heap'[a], tensors', tape') /\ heap'[a].serial = f.serial
      /\ TensorsOK' /\ Len(tensors) \in Nat /\ Len(tensors') = Len(tensors) + 1
      /\ \A t \in 1 .. Len(tensors) : tape'[t] = tape[t]
      /\ \A t \in 1 .. Len(tensors') : tensors'[t].producer.graph # a =>
            /\ t \in 1 .. Len(tensors)
            /\ tensors'[t].producer = tensors[t].producer
  BY <1>1, RecordedGraph
<1>3. ASSUME NEW b \in Addresses \ {a} PROVE GraphInv(b, heap'[b], tensors', tape')
  <2>1. heap'[b] = heap[b]
    BY <1>1, RecordedAt
  <2>2. GraphInv(b, heap[b], tensors, tape)
    BY DEF EdgeInv
  <2>3. \A t \in 1 .. Len(tensors') : tensors'[t].producer.graph = b =>
           /\ t \in 1 .. Len(tensors)
           /\ tensors'[t].producer = tensors[t].producer
    BY <1>2
  <2>4. Len(tensors') \in Nat /\ Len(tensors) <= Len(tensors')
    BY <1>2
  <2>5. \A t \in 1 .. Len(tensors) : /\ tape'[t].inputs = tape[t].inputs
                                     /\ tape'[t].needed = tape[t].needed
    BY <1>2
  <2>6. QED
    BY <1>2, <2>1, <2>2, <2>3, <2>4, <2>5, GraphKept
<1>4. heap'[function'].serial # 0
  BY <1>2
<1>5. QED
  BY <1>2, <1>3, <1>4 DEF EdgeInv, NoReuse, Does

LEMMA RunOpEdges == TracingInv /\ EdgeInv /\ UNCHANGED program /\ RunOp => EdgeInv'
<1> SUFFICES ASSUME TracingInv, EdgeInv, UNCHANGED program,
                    NEW op \in Ops, NEW byValue \in BOOLEAN,
                    NEW ins \in [1 .. Arity(op) -> 1 .. Len(tensors)],
                    \/ OpNotRecorded(op, ins, byValue)
                    \/ OpRecorded(op, ins, byValue)
                    \/ OpStartsFunction(op, ins, byValue)
             PROVE  EdgeInv'
  BY DEF RunOp
<1>1. HeapOK /\ function \in Addresses \cup {NoFn} /\ TensorsOK
  BY DEF TracingInv, TracerOK, EdgeInv
<1>2. CASE OpNotRecorded(op, ins, byValue)
  <2> DEFINE t1 == Output(ins, NoProducer)
  <2> DEFINE s1 == Step(op, ins, byValue, 0)
  <2>1. /\ DOMAIN t1 = TensorFields /\ t1.producer = NoProducer
        /\ {"inputs", "needed", "dropped"} \subseteq DOMAIN s1
    BY DEF Output, Step, TensorFields
  <2>2. /\ tensors' = Append(tensors, t1) /\ tape' = Append(tape, s1)
        /\ UNCHANGED <<heap, function>>
    BY <1>2 DEF OpNotRecorded, tracer
  <2> HIDE DEF t1, s1
  <2>3. SameTensors
    BY <1>1, <2>1, <2>2, OneMoreTensor
  <2>4. SameGraphs
    BY <2>2 DEF SameGraphs
  <2>5. function' # NoFn => function' \in Addresses /\ heap[function'].serial # 0
    BY <1>1, <2>2 DEF EdgeInv
  <2>6. QED
    BY <2>3, <2>4, <2>5, SameGraphsStep
<1>3. CASE OpRecorded(op, ins, byValue)
  <2>1. /\ function \in Addresses /\ function' = function
        /\ OpRecordedAt(function, heap[function], op, ins, byValue)
        /\ DOMAIN heap[function] = Fields /\ heap[function].serial # 0
        /\ GraphInv(function, heap[function], tensors, tape)
    BY <1>1, <1>3 DEF OpRecorded, HeapOK, EdgeInv
  <2>2. QED
    BY <2>1, RecordedEdges
<1>4. CASE OpStartsFunction(op, ins, byValue)
  <2>1. PICK a \in Free : OpRecordedAt(a, Allocated(TRUE), op, ins, byValue) /\ function' = a
    BY <1>4 DEF OpStartsFunction
  <2>2. /\ a \in Addresses /\ DOMAIN Allocated(TRUE) = Fields
        /\ GraphInv(a, Allocated(TRUE), tensors, tape) /\ Allocated(TRUE).serial # 0
    BY <1>1, FreshGraph, NewlyAllocated
  <2>3. QED
    BY <2>1, <2>2, RecordedEdges
<1>5. QED
  BY <1>2, <1>3, <1>4

LEMMA EnterEdges ==
    ASSUME TracingInv, EdgeInv, UNCHANGED program, SameTensors,
           NEW arg, EnterNewFunction(arg)
    PROVE  EdgeInv'
<1>1. PICK a \in Free : heap' = [heap EXCEPT ![a] = Allocated(FALSE)] /\ function' = a
  BY DEF EnterNewFunction
<1>2. /\ a \in Addresses /\ DOMAIN heap = Addresses
      /\ GraphInv(a, Allocated(FALSE), tensors, tape) /\ Allocated(FALSE).serial # 0
  BY FreshGraph DEF TracingInv, HeapOK
<1>3. ASSUME NEW b \in Addresses PROVE GraphInv(b, heap'[b], tensors', tape')
  <2>1. GraphInv(b, heap'[b], tensors, tape)
    <3>1. CASE b = a
      BY <1>1, <1>2, <3>1
    <3>2. CASE b # a
      BY <1>1, <1>2, <3>2 DEF EdgeInv
    <3>3. QED
      BY <3>1, <3>2
  <2>2. \A t \in 1 .. Len(tensors') : tensors'[t].producer.graph = b =>
           /\ t \in 1 .. Len(tensors)
           /\ tensors'[t].producer = tensors[t].producer
    BY DEF SameTensors
  <2>3. QED
    BY <2>1, <2>2, GraphKept DEF SameTensors
<1>4. heap'[function'].serial # 0
  BY <1>1, <1>2
<1>5. QED
  BY <1>3, <1>4 DEF EdgeInv, SameTensors, NoReuse, Does

LEMMA PassEdges ==
    ASSUME TracingInv, EdgeInv, UNCHANGED program, UNCHANGED <<tensors, tape>>,
           function' \in {function, NoFn}, NEW a \in Addresses, NEW t,
           Returns(a, t) \/ Throws(a, t) \/ Overruns(a, t)
    PROVE  EdgeInv'
<1>1. /\ DOMAIN heap = Addresses /\ \A b \in Addresses : DOMAIN heap[b] = Fields
      /\ function \in Addresses \cup {NoFn} /\ TensorsOK
  BY DEF TracingInv, HeapOK, TracerOK, EdgeInv
<1>2. SameGraphs
  <2>1. CASE UNCHANGED heap
    BY <2>1 DEF SameGraphs
  <2>2. CASE \E o : heap' = [heap EXCEPT ![a].output = o]
    BY <1>1, <2>2 DEF SameGraphs, Fields
  <2>3. QED
    BY <2>1, <2>2 DEF Returns, Completes, ReturnsEarly, Throws, Overruns
<1>3. SameTensors
  BY <1>1, TensorsStay
<1>4. function' # NoFn => function' \in Addresses /\ heap[function'].serial # 0
  BY <1>1 DEF EdgeInv
<1>5. QED
  BY <1>2, <1>3, <1>4, SameGraphsStep

\* A step that has nothing to do with graphs.
LEMMA OtherEdges ==
    ASSUME TracingInv, EdgeInv, UNCHANGED <<program, heap>>, SameTensors,
           function' \in {function, NoFn} \cup live
    PROVE  EdgeInv'
<1>1. function' # NoFn => function' \in Addresses /\ heap[function'].serial # 0
  BY DEF TracingInv, HeapOK, TracerOK, EdgeInv
<1>2. SameGraphs
  BY DEF SameGraphs
<1>3. QED
  BY <1>1, <1>2, SameGraphsStep

LEMMA EdgeStep == TracingInv /\ EdgeInv /\ [Next]_vars => EdgeInv'
<1> SUFFICES ASSUME TracingInv, EdgeInv, [Next]_vars PROVE EdgeInv'
  OBVIOUS
<1>1. UNCHANGED program
  BY DEF Next, vars
<1>2. TensorsOK
  BY DEF EdgeInv
<1>3. CASE RunOp
  BY <1>1, <1>3, RunOpEdges
<1>4. ASSUME NEW requiresGrad \in BOOLEAN, NewTensor(requiresGrad) PROVE EdgeInv'
  <2> DEFINE t1 == [requiresGrad |-> requiresGrad, producer |-> NoProducer, grad |-> 0]
  <2> DEFINE s1 == Step("leaf", <<>>, FALSE, 0)
  <2>1. /\ DOMAIN t1 = TensorFields /\ t1.producer = NoProducer
        /\ {"inputs", "needed", "dropped"} \subseteq DOMAIN s1
    BY DEF Step, TensorFields
  <2>2. /\ tensors' = Append(tensors, t1) /\ tape' = Append(tape, s1)
        /\ UNCHANGED <<heap, function>>
    BY <1>4 DEF NewTensor, tracer
  <2> HIDE DEF t1, s1
  <2>3. SameTensors
    BY <1>2, <2>1, <2>2, OneMoreTensor
  <2>4. QED
    BY <1>1, <2>2, <2>3, OtherEdges
<1>5. ASSUME NEW t \in DOMAIN tensors, NEW value, SetRequiresGrad(t, value) PROVE EdgeInv'
  <2>1. /\ \E r, c : tensors' = [tensors EXCEPT ![t].requiresGrad = r, ![t].grad = c]
        /\ \E d : tape' = [tape EXCEPT ![t].dropped = d]
        /\ UNCHANGED <<heap, function>>
    BY <1>5 DEF SetRequiresGrad, tracer
  <2>2. SameTensors
    <3>1. PICK r, c : tensors' = [tensors EXCEPT ![t].requiresGrad = r, ![t].grad = c]
      BY <2>1
    <3>2. PICK d : tape' = [tape EXCEPT ![t].dropped = d]
      BY <2>1
    <3>3. \E e : tape' = [tape EXCEPT ![t].dropped = e]
      BY <3>2
    <3>4. QED
      BY <1>2, <3>1, <3>3, TensorsRedone, Zenon
  <2>3. QED
    BY <1>1, <2>1, <2>2, OtherEdges
<1>6. CASE EnterFunction
  <2>1. EnterNewFunction(0) /\ UNCHANGED <<tensors, tape>>
    BY <1>6 DEF EnterFunction, EnterNewFunction
  <2>2. QED
    BY <1>1, <1>2, <2>1, EnterEdges, TensorsStay
<1>7. ASSUME NEW t \in DOMAIN tensors, GradTransformBegins(t) PROVE EdgeInv'
  <2>1. EnterNewFunction(t) /\ UNCHANGED tape
    BY <1>7 DEF GradTransformBegins, EnterNewFunction
  <2>2. tensors' = [tensors EXCEPT ![t].requiresGrad = TRUE, ![t].grad = tensors[t].grad]
    BY <1>2, <1>7 DEF GradTransformBegins, TensorsOK, TensorFields
  <2>3. SameTensors
    BY <1>2, <2>1, <2>2, TensorsRedone
  <2>4. QED
    BY <1>1, <2>1, <2>3, EnterEdges
<1>8. ASSUME NEW t, Backward \/ GradTransformEnds(t) PROVE EdgeInv'
  <2>1. ASSUME NEW a, NEW u, FunctionBackward(a, u) PROVE EdgeInv'
    <3>1. a \in Addresses /\ function' \in {function, NoFn} /\ UNCHANGED <<tensors, tape>>
      BY <2>1 DEF FunctionBackward, Held, TracingInv, HeapOK
    <3>2. QED
      BY <1>1, <2>1, <3>1, PassEdges DEF FunctionBackward
  <2>2. ASSUME NEW u, TensorBackwardHere(u) PROVE EdgeInv'
    <3>1. /\ function \in Addresses /\ function' \in {function, NoFn}
          /\ UNCHANGED <<tensors, tape>>
      BY <2>2 DEF TensorBackwardHere, TracerAfter, TracingInv, TracerOK
    <3>2. QED
      BY <1>1, <2>2, <3>1, PassEdges DEF TensorBackwardHere
  <2>3. ASSUME NEW u, TensorBackwardElsewhere(u) PROVE EdgeInv'
    <3>1. UNCHANGED <<tensors, tape, function>>
      BY <2>3 DEF TensorBackwardElsewhere, tracer
    <3>2. CASE UNCHANGED heap
      BY <1>1, <1>2, <3>1, <3>2, OtherEdges, TensorsStay
    <3>3. CASE \E a \in live : Returns(a, u) \/ Throws(a, u) \/ Overruns(a, u)
      BY <1>1, <3>1, <3>3, PassEdges DEF TracingInv, HeapOK
    <3>4. QED
      BY <2>3, <3>2, <3>3 DEF TensorBackwardElsewhere
  <2>4. CASE GradTransformEnds(t)
    <3>1. PICK S : contexts \in Seq(S)
      BY DEF TracingInv, ContextsOK
    <3>2. Last(contexts) = contexts[Len(contexts)] /\ Len(contexts) \in DOMAIN contexts
      BY <2>4, <3>1, Shortened DEF GradTransformEnds, InGradTransform
    <3>3. Last(contexts).fn \in Addresses
      BY <2>4, <3>2 DEF GradTransformEnds, InGradTransform, TracingInv, ContextsOK, HeapOK
    <3>4. function' \in {function, NoFn} /\ UNCHANGED <<tensors, tape>>
      BY <2>4 DEF GradTransformEnds
    <3>5. QED
      BY <1>1, <2>4, <3>3, <3>4, PassEdges DEF GradTransformEnds
  <2>5. QED
    BY <1>8, <2>1, <2>2, <2>3, <2>4 DEF Backward
<1>9. ASSUME UNCHANGED <<heap, tensors, tape>>, function' \in {function, NoFn} \cup live
      PROVE  EdgeInv'
  BY <1>1, <1>2, <1>9, OtherEdges, TensorsStay
<1>10. CASE ReenterFunction \/ ExitFunction \/ DropFunction \/ EnterGradMode \/ ExitGradMode
            \/ UNCHANGED vars
  BY <1>9, <1>10 DEF ReenterFunction, Held, ExitFunction, DropFunction, EnterGradMode,
                     ExitGradMode, tracer, vars
<1>11. QED
  BY <1>3, <1>4, <1>5, <1>6, <1>7, <1>8, <1>10 DEF Next, Operation

LEMMA EdgeInit == Init => Does("reuse") \/ EdgeInv
<1> SUFFICES ASSUME Init, NoReuse PROVE EdgeInv
  BY DEF NoReuse
<1>1. /\ tensors = <<>> /\ tape = <<>> /\ function = NoFn
      /\ \A a \in Addresses : heap[a] = NewFunction(FALSE)
  BY DEF Init
<1>2. TensorsOK
  BY <1>1, EmptySeq DEF TensorsOK
<1>3. ASSUME NEW a \in Addresses PROVE GraphInv(a, heap[a], tensors, tape)
  <2>1. heap[a].nodes = <<>> /\ heap[a].of = <<>> /\ Len(tensors) = 0
    BY <1>1 DEF NewFunction
  <2>2. 1 .. Len(tensors) = {} /\ 1 .. Len(heap[a].nodes) = {} /\ 1 .. Len(heap[a].of) = {}
    BY <2>1
  <2>3. QED
    BY <2>1, <2>2, EmptySeq DEF GraphInv, GraphOK, ProducedBy, EdgesOK
<1>4. QED
  BY <1>1, <1>2, <1>3 DEF EdgeInv

LEMMA EdgesFollow == TracingInv /\ EdgeInv => EdgesFaithful
<1> SUFFICES ASSUME TracingInv, EdgeInv, NEW a \in live,
                    NEW i \in Ids(heap[a].nodes), ~IsParam(heap[a].nodes, i),
                    NEW k \in DOMAIN heap[a].nodes[i].inputs
             PROVE  EdgeOK(heap[a], tape, i, k)
  BY DEF EdgesFaithful, EdgeOK
<1>1. a \in Addresses
  BY DEF TracingInv, HeapOK
<1>2. EdgesOK(heap[a], tape)
  BY <1>1 DEF EdgeInv, GraphInv
<1>3. QED
  BY <1>2 DEF EdgesOK, Ids

\* In every program, as long as the allocator puts no Function where another
\* one was: the edges of every recorded graph lead to the nodes of the very
\* tensors the ops were given, and only a tensor that needed no gradient has
\* no edge (op_registry.cpp:118 and 139), through any number of nested and
\* reentered contexts, passes that throw, no_grad blocks, requires_grad_ calls
\* and calls by value.
THEOREM EdgesCorrect == Spec => [](Does("reuse") \/ EdgesFaithful)
<1>1. TracingInv /\ (Does("reuse") \/ EdgeInv) /\ [Next]_vars
         => (Does("reuse") \/ EdgeInv)'
  <2>1. [Next]_vars => UNCHANGED program
    BY DEF Next, vars
  <2>2. QED
    BY <2>1, EdgeStep DEF Does
<1>2. QED
  BY <1>1, EdgeInit, EdgesFollow, TracingInit, TracingStep, PTL DEF Spec

-----------------------------------------------------------------------------
(* Derivatives of the recorded graphs are numbers. *)

\* The right-hand side of the equation of Derivative at node i of g.
DerivativeAt(g, d, w, i) ==
    IF i = w THEN 1
    ELSE IF i = NoNode THEN 0
    ELSE SumFunction([k \in DOMAIN g[i].inputs |->
                         Partial[g[i].op][k] * d[g[i].inputs[k]]])

\* The n nodes of g have earlier inputs, and a partial derivative for each.
Descends(g, n) ==
    /\ Len(g) = n
    /\ \A i \in 1 .. n :
          /\ IsFiniteSet(DOMAIN g[i].inputs)
          /\ \A k \in DOMAIN g[i].inputs :
                g[i].inputs[k] \in 0 .. i - 1 /\ Partial[g[i].op][k] \in Int

LEMMA DerivativeAtIs ==
    ASSUME NEW n \in Nat, NEW g, Descends(g, n), NEW w, NEW d, NEW i \in 0 .. n,
           \A j \in 0 .. i - 1 : d[j] \in Int
    PROVE  /\ DerivativeAt(g, d, w, i) \in Int
           /\ \A e : (\A j \in 0 .. i - 1 : e[j] = d[j])
                 => DerivativeAt(g, e, w, i) = DerivativeAt(g, d, w, i)
<1>1. CASE i = w \/ i = NoNode
  BY <1>1 DEF DerivativeAt
<1>2. CASE i # w /\ i # NoNode
  <2>1. i \in 1 .. n
    BY <1>2 DEF NoNode
  <2> DEFINE K == DOMAIN g[i].inputs
  <2> DEFINE f == [k \in K |-> Partial[g[i].op][k] * d[g[i].inputs[k]]]
  <2>2. /\ IsFiniteSet(K)
        /\ \A k \in K : g[i].inputs[k] \in 0 .. i - 1 /\ Partial[g[i].op][k] \in Int
    BY <2>1 DEF Descends
  <2>3. \A k \in K : f[k] \in Int
    BY <2>2
  <2>4. DOMAIN f = K
    OBVIOUS
  <2>5. DerivativeAt(g, d, w, i) = SumFunctionOnSet(f, K)
    BY <1>2 DEF DerivativeAt, SumFunction
  <2>6. ASSUME NEW e, \A j \in 0 .. i - 1 : e[j] = d[j]
        PROVE  DerivativeAt(g, e, w, i) = DerivativeAt(g, d, w, i)
    <3>1. [k \in K |-> Partial[g[i].op][k] * e[g[i].inputs[k]]] = f
      BY <2>2, <2>6
    <3>2. QED
      BY <1>2, <3>1 DEF DerivativeAt
  <2>7. SumFunctionOnSet(f, K) \in Int
    <3> HIDE DEF f, K
    <3>1. QED
      BY <2>2, <2>3, SumRemove
  <2>8. QED
    BY <2>5, <2>6, <2>7
<1>3. QED
  BY <1>1, <1>2

LEMMA DerivativeIsInt ==
    ASSUME NEW n \in Nat, NEW g, Descends(g, n), NEW w, NEW l \in 0 .. n
    PROVE  Derivative(g, l, w) \in Int
<1> DEFINE At(d, i) == DerivativeAt(g, d, w, i)
<1> DEFINE C == {m \in Nat : \E d \in [0 .. m -> Int] : \A i \in 0 .. m : d[i] = At(d, i)}
<1>1. 0 \in C
  <2> DEFINE d == [i \in 0 .. 0 |-> At(<<>>, 0)]
  <2>1. 0 \in 0 .. n /\ 0 .. 0 - 1 = {}
    OBVIOUS
  <2>2. At(<<>>, 0) \in Int /\ \A e : At(e, 0) = At(<<>>, 0)
    BY <2>1, DerivativeAtIs
  <2>3. d \in [0 .. 0 -> Int] /\ \A i \in 0 .. 0 : d[i] = At(d, i)
    <3> HIDE DEF At
    <3>1. QED
      BY <2>2
  <2>4. QED
    BY <2>3
<1>2. ASSUME NEW m \in 0 .. n - 1, m \in C PROVE m + 1 \in C
  <2>1. PICK d \in [0 .. m -> Int] : \A i \in 0 .. m : d[i] = At(d, i)
    BY <1>2
  <2> DEFINE e == [i \in 0 .. m + 1 |-> IF i = m + 1 THEN At(d, m + 1) ELSE d[i]]
  <2>2. \A j \in 0 .. m : e[j] = d[j]
    OBVIOUS
  <2>3. \A i \in 0 .. m + 1 : \A j \in 0 .. i - 1 : j \in 0 .. m
    OBVIOUS
  <2>4. ASSUME NEW i \in 0 .. m + 1 PROVE At(d, i) \in Int /\ At(e, i) = At(d, i)
    <3>1. i \in 0 .. n /\ (\A j \in 0 .. i - 1 : d[j] \in Int)
          /\ (\A j \in 0 .. i - 1 : e[j] = d[j])
      BY <2>2, <2>3
    <3> HIDE DEF e
    <3>2. /\ At(d, i) \in Int
          /\ \A b : (\A j \in 0 .. i - 1 : b[j] = d[j]) => At(b, i) = At(d, i)
      BY <3>1, DerivativeAtIs
    <3> HIDE DEF At
    <3>3. QED
      BY <3>1, <3>2
  <2> HIDE DEF At
  <2>5. e \in [0 .. m + 1 -> Int]
    <3>1. m + 1 \in 0 .. m + 1 /\ \A i \in 0 .. m + 1 : i = m + 1 \/ i \in 0 .. m
      OBVIOUS
    <3>2. At(d, m + 1) \in Int
      BY <2>4, <3>1
    <3>3. QED
      BY <2>1, <3>1, <3>2
  <2>6. \A i \in 0 .. m + 1 : e[i] = At(e, i)
    <3>1. \A i \in 0 .. m + 1 : e[i] = At(d, i)
      BY <2>1
    <3> HIDE DEF e
    <3>2. QED
      BY <2>4, <3>1
  <2> HIDE DEF e
  <2>7. QED
    BY <2>5, <2>6
<1>3. n \in C
  <2> HIDE DEF C
  <2>1. 0 .. n \subseteq C
    BY <1>1, <1>2, UpTo
  <2>2. QED
    BY <2>1
<1> DEFINE Eq(d) == d = [i \in NoNode .. Len(g) |-> At(d, i)]
<1> DEFINE d == CHOOSE d : Eq(d)
<1>4. Eq(d)
  <2>1. NoNode .. Len(g) = 0 .. n
    BY DEF NoNode, Descends
  <2>2. \E e : Eq(e)
    <3>1. PICK e \in [0 .. n -> Int] : \A i \in 0 .. n : e[i] = At(e, i)
      BY <1>3
    <3> HIDE DEF At
    <3>2. e = [i \in 0 .. n |-> At(e, i)]
      BY <3>1
    <3>3. QED
      BY <2>1, <3>2
  <2>3. QED
    BY <2>2, Zenon
<1>5. Derivative(g, l, w) = d[l]
  BY DEF Derivative, DerivativeAt
<1>6. \A i \in 0 .. n : d[i] = At(d, i)
  <2>1. NoNode .. Len(g) = 0 .. n
    BY DEF NoNode, Descends
  <2> HIDE DEF At, d
  <2>2. QED
    BY <1>4, <2>1
<1> DEFINE B == {m \in Nat : \A j \in 0 .. m : d[j] \in Int}
<1>7. 0 .. n \subseteq B
  <2> HIDE DEF d
  <2>1. 0 \in B
    <3>1. 0 \in 0 .. n /\ 0 .. 0 - 1 = {} /\ 0 .. 0 = {0}
      OBVIOUS
    <3>2. At(d, 0) \in Int
      BY <3>1, DerivativeAtIs
    <3> HIDE DEF At
    <3>3. QED
      BY <1>6, <3>1, <3>2
  <2>2. ASSUME NEW m \in 0 .. n - 1, m \in B PROVE m + 1 \in B
    <3>1. m + 1 \in 0 .. n /\ (m + 1) - 1 = m
      OBVIOUS
    <3>2. \A j \in 0 .. (m + 1) - 1 : d[j] \in Int
      BY <2>2, <3>1
    <3>3. At(d, m + 1) \in Int
      BY <3>1, <3>2, DerivativeAtIs
    <3> HIDE DEF At
    <3>4. d[m + 1] \in Int
      BY <1>6, <3>1, <3>3
    <3>5. \A j \in 0 .. m + 1 : j \in 0 .. m \/ j = m + 1
      OBVIOUS
    <3>6. QED
      BY <2>2, <3>4, <3>5
  <2> HIDE DEF B
  <2>3. QED
    BY <2>1, <2>2, UpTo
<1>8. d[l] \in Int
  <2> HIDE DEF d
  <2>1. l \in B /\ l \in 0 .. l
    BY <1>7
  <2>2. QED
    BY <2>1
<1>9. QED
  BY <1>5, <1>8

-----------------------------------------------------------------------------
(* Types. *)

\* A node of a graph has as many inputs as its op.
OpNodes ==
    {x \in NodeRecord : \/ x = ParamNode
                        \/ x.op \in Ops /\ Len(x.inputs) = Arity(x.op)}

TensorType(C) ==
    [requiresGrad : BOOLEAN, producer : [graph : Addresses \cup {NoFn}, node : Nat],
     grad : 0 .. C]

\* f when there are N tensors, C grad tensors and s Functions.
FunctionTypes(f, N, C, s) ==
    /\ f.nodes \in Seq(OpNodes) /\ f.cells \in Seq(0 .. C) /\ f.of \in Seq(1 .. N)
    /\ Len(f.cells) = Len(f.nodes) /\ Len(f.of) = Len(f.nodes)
    /\ f.output \in NoNode .. Len(f.nodes) /\ f.owner \in BOOLEAN /\ f.serial \in 0 .. s

TensorTypes(ts, tp, gs) ==
    /\ gs \in Seq(Int) /\ ts \in Seq(TensorType(Len(gs)))
    /\ \E S : tp \in Seq(S)
    /\ Len(tp) = Len(ts)

DataTypes ==
    /\ TensorTypes(tensors, tape, gradOf) /\ created \in Nat
    /\ \A a \in Addresses : FunctionTypes(heap[a], Len(tensors), Len(gradOf), created)

\* The tracer's Function exists, and if Python made it, it has been entered.
ControlTypes ==
    /\ program \in Programs
    /\ recording \in BOOLEAN /\ dead \in BOOLEAN
    /\ created \in 0 .. program.functions /\ calls \in 0 .. program.calls
    /\ Len(tensors) <= program.tensors
    /\ \A i \in DOMAIN contexts : contexts[i].prev \in BOOLEAN
    /\ function # NoFn => function \in live /\ (heap[function].owner \/ Entered(function))

TypeInv == DataTypes /\ ControlTypes

LEMMA FunctionGrows ==
    ASSUME NEW N \in Nat, NEW M \in Nat, N <= M, NEW C \in Nat, NEW D \in Nat, C <= D,
           NEW s \in Nat, NEW r \in Nat, s <= r, NEW f, FunctionTypes(f, N, C, s)
    PROVE  FunctionTypes(f, M, D, r)
<1>1. 0 .. C \subseteq 0 .. D /\ 1 .. N \subseteq 1 .. M /\ 0 .. s \subseteq 0 .. r
  OBVIOUS
<1>2. f.cells \in Seq(0 .. D) /\ f.of \in Seq(1 .. M)
  BY <1>1, SeqMonotonic DEF FunctionTypes
<1>3. QED
  BY <1>1, <1>2 DEF FunctionTypes

LEMMA TensorTypeGrows ==
    ASSUME NEW C \in Nat, NEW D \in Nat, C <= D
    PROVE  TensorType(C) \subseteq TensorType(D)
<1>1. 0 .. C \subseteq 0 .. D
  OBVIOUS
<1>2. QED
  <2> SUFFICES ASSUME NEW t \in TensorType(C) PROVE t \in TensorType(D)
    OBVIOUS
  <2>1. t.grad \in 0 .. D
    BY <1>1 DEF TensorType
  <2>2. QED
    BY <2>1 DEF TensorType

\* The grad tensors that a call of run_op makes.
LEMMA NewGradsAre ==
    ASSUME NEW m \in Nat, NEW C \in Nat, Len(gradOf) = C,
           NEW ins \in [1 .. m -> 1 .. Len(tensors)], tensors \in Seq(TensorType(C)),
           NEW R, R \subseteq 1 .. m, NEW e, e = Cardinality(NewGrads(R, ins))
    PROVE  /\ e \in Nat
           /\ \A k \in R : GradOf(R, ins, k) \in 0 .. C + e
<1> DEFINE G == NewGrads(R, ins)
<1>1. G \subseteq R /\ G \in SUBSET Nat
  <2>1. G \subseteq R
    BY DEF NewGrads
  <2> HIDE DEF G
  <2>2. \A k \in G : k \in 1 .. m
    BY <2>1
  <2>3. QED
    BY <2>1, <2>2
<1>2. IsFiniteSet(G)
  <2>1. IsFiniteSet(1 .. m)
    BY FS_Interval
  <2>2. QED
    BY <1>1, <2>1, FS_Subset
<1>3. e \in Nat /\ \A k \in G : Rank(G, k) \in 1 .. e
  <2> HIDE DEF G
  <2>1. Cardinality(G) \in Nat /\ \A k \in G : Rank(G, k) \in 1 .. Cardinality(G)
    BY <1>1, <1>2, InOrderProperties
  <2>2. QED
    BY <2>1 DEF G
<1>4. ASSUME NEW k \in R PROVE GradOf(R, ins, k) \in 0 .. C + e
  <2>1. CASE k \in G
    <3>1. GradOf(R, ins, k) = C + Rank(G, k)
      BY <2>1 DEF GradOf
    <3> HIDE DEF G
    <3>2. QED
      BY <1>3, <2>1, <3>1
  <2>2. CASE k \notin G
    <3>1. GradOf(R, ins, k) = tensors[ins[k]].grad
      BY <2>2 DEF GradOf
    <3>2. ins[k] \in 1 .. Len(tensors)
      OBVIOUS
    <3>3. tensors[ins[k]] \in TensorType(C)
      BY <3>2, ElementOf
    <3>4. tensors[ins[k]].grad \in 0 .. C
      BY <3>3 DEF TensorType
    <3>5. QED
      BY <1>3, <3>1, <3>4
  <2>3. QED
    BY <2>1, <2>2
<1>5. QED
  BY <1>3, <1>4

LEMMA MarkedTypes ==
    ASSUME NEW C \in Nat, NEW D \in Nat, C <= D, tensors \in Seq(TensorType(C)),
           NEW a \in Addresses, NEW n \in Nat, NEW R, NEW ins, NEW byValue,
           \A k \in R : Rank(R, k) \in Nat /\ GradOf(R, ins, k) \in 0 .. D
    PROVE  /\ Marked(a, n, R, ins, byValue) \in Seq(TensorType(D))
           /\ Len(Marked(a, n, R, ins, byValue)) = Len(tensors)
<1> DEFINE ts == Marked(a, n, R, ins, byValue)
<1>1. Len(tensors) \in Nat /\ DOMAIN tensors = 1 .. Len(tensors)
  BY LenProperties
<1>2. ASSUME NEW t \in DOMAIN tensors PROVE ts[t] \in TensorType(D)
  <2>1. tensors[t] \in TensorType(C)
    BY <1>1, <1>2, ElementOf
  <2>2. tensors[t] \in TensorType(D)
    BY <2>1, TensorTypeGrows
  <2>3. CASE byValue \/ ~\E k \in R : ins[k] = t
    BY <2>2, <2>3 DEF Marked
  <2>4. CASE ~byValue /\ \E k \in R : ins[k] = t
    <3> DEFINE k == CHOOSE k \in R : ins[k] = t
    <3>1. k \in R
      BY <2>4
    <3>2. ts[t] = [tensors[t] EXCEPT !.grad = GradOf(R, ins, k),
                     !.producer = [graph |-> a, node |-> n + Rank(R, k)]]
      BY <2>4 DEF Marked
    <3>3. GradOf(R, ins, k) \in 0 .. D /\ n + Rank(R, k) \in Nat
      BY <3>1
    <3> HIDE DEF k, ts
    <3>4. [graph |-> a, node |-> n + Rank(R, k)] \in [graph : Addresses \cup {NoFn}, node : Nat]
      BY <3>3
    <3>5. QED
      BY <2>2, <3>2, <3>3, <3>4 DEF TensorType
  <2>5. QED
    BY <2>3, <2>4
<1>3. ts \in [1 .. Len(tensors) -> TensorType(D)]
  BY <1>1, <1>2 DEF Marked
<1> HIDE DEF ts
<1>4. ts \in Seq(TensorType(D)) /\ Len(ts) = Len(tensors)
  BY <1>1, <1>3, IsSequence
<1>5. QED
  BY <1>4 DEF ts

LEMMA InputTypes ==
    ASSUME NEW m \in Nat, NEW ins \in [1 .. m -> 1 .. Len(tensors)],
           NEW C, tensors \in Seq(TensorType(C)),
           NEW a, NEW n \in Nat, NEW R, NEW byValue, \A k \in R : Rank(R, k) \in Nat
    PROVE  \A k \in 1 .. m : InputId(a, n, R, ins, byValue, k) \in Nat
<1> SUFFICES ASSUME NEW k \in 1 .. m PROVE InputId(a, n, R, ins, byValue, k) \in Nat
  OBVIOUS
<1> DEFINE same == SameInput(R, ins, byValue, k)
<1>1. CASE same # {}
  <2>1. \E j \in same : InputId(a, n, R, ins, byValue, k) = n + Rank(R, j)
    BY <1>1 DEF InputId
  <2>2. same \subseteq R
    BY DEF SameInput
  <2>3. \A j \in R : n + Rank(R, j) \in Nat
    OBVIOUS
  <2> HIDE DEF same
  <2>4. QED
    BY <2>1, <2>2, <2>3
<1>2. CASE same = {}
  <2>1. tensors[ins[k]] \in TensorType(C)
    BY ElementOf
  <2>2. tensors[ins[k]].producer.node \in Nat /\ NoNode \in Nat
    BY <2>1 DEF TensorType, NoNode
  <2>3. QED
    BY <1>2, <2>2 DEF InputId
<1>3. QED
  BY <1>1, <1>2

LEMMA RecordedGrads ==
    ASSUME DOMAIN heap = Addresses, NEW a \in Addresses, NEW f, DOMAIN f = Fields,
           NEW op, NEW ins, NEW byValue, OpRecordedAt(a, f, op, ins, byValue),
           NEW R, R = Registered(a, ins, byValue)
    PROVE  /\ heap'[a].cells = f.cells \o [i \in DOMAIN InOrder(R) |-> GradOf(R, ins, InOrder(R)[i])]
                                       \o <<0>>
           /\ gradOf' = gradOf \o [i \in 1 .. Cardinality(NewGrads(R, ins)) |-> 0]
           /\ heap'[a].output = f.output /\ heap'[a].owner = f.owner
<1>1. PICK x, y, z :
        /\ heap' = [heap EXCEPT ![a] = [f EXCEPT !.nodes = x, !.cells = y, !.of = z]]
        /\ y = f.cells \o [i \in DOMAIN InOrder(R) |-> GradOf(R, ins, InOrder(R)[i])] \o <<0>>
  BY Zenon DEF OpRecordedAt
<1>2. heap'[a] = [f EXCEPT !.nodes = x, !.cells = y, !.of = z]
  BY <1>1
<1>3. heap'[a].cells = y /\ heap'[a].output = f.output /\ heap'[a].owner = f.owner
  BY <1>2 DEF Fields
<1>4. gradOf' = gradOf \o [i \in 1 .. Cardinality(NewGrads(R, ins)) |-> 0]
  BY Zenon DEF OpRecordedAt
<1>5. QED
  BY <1>1, <1>3, <1>4

\* What a recorded call of run_op does to the types.
LEMMA RecordedTypes ==
    ASSUME DOMAIN heap = Addresses, NEW a \in Addresses, NEW f, DOMAIN f = Fields,
           NEW op \in Ops, NEW byValue \in BOOLEAN,
           NEW ins \in [1 .. Arity(op) -> 1 .. Len(tensors)],
           OpRecordedAt(a, f, op, ins, byValue),
           TensorTypes(tensors, tape, gradOf), NEW s \in Nat,
           FunctionTypes(f, Len(tensors), Len(gradOf), s)
    PROVE  /\ TensorTypes(tensors', tape', gradOf')
           /\ FunctionTypes(heap'[a], Len(tensors'), Len(gradOf'), s)
           /\ Len(tensors) \in Nat /\ Len(tensors') = Len(tensors) + 1
           /\ Len(gradOf) \in Nat /\ Len(gradOf') \in Nat /\ Len(gradOf) <= Len(gradOf')
<1> DEFINE N == Len(tensors)
<1> DEFINE C == Len(gradOf)
<1> DEFINE m == Arity(op)
<1> DEFINE n == Len(f.nodes)
<1> DEFINE R == Registered(a, ins, byValue)
<1> DEFINE c == Cardinality(R)
<1> DEFINE e == Cardinality(NewGrads(R, ins))
<1> DEFINE params == InOrder(R)
<1> DEFINE inputs == [k \in DOMAIN ins |-> InputId(a, n, R, ins, byValue, k)]
<1> DEFINE g == heap'[a]
<1> DEFINE x == [i \in 1 .. c |-> ParamNode]
<1> DEFINE y == [i \in 1 .. c |-> GradOf(R, ins, params[i])]
<1> DEFINE z == [i \in 1 .. c |-> ins[params[i]]]
<1> DEFINE t1 == Output(ins, [graph |-> a, node |-> n + c + 1])
<1> DEFINE ts == Marked(a, n, R, ins, byValue)
<1>1. m \in Nat /\ DOMAIN ins = 1 .. m
  BY OpsAssumption, LenProperties DEF Arity
<1>2. /\ N \in Nat /\ C \in Nat /\ gradOf \in Seq(Int) /\ tensors \in Seq(TensorType(C))
      /\ n \in Nat
  BY LenProperties DEF TensorTypes, FunctionTypes
<1>3. /\ c \in Nat /\ DOMAIN params = 1 .. c /\ Len(params) = c
      /\ Chosen(R, c, m, params)
  BY <1>1, ChosenInputs
<1>4. R \subseteq 1 .. m /\ \A k \in R : Rank(R, k) \in Nat
  BY <1>3 DEF Chosen
<1>5. e \in Nat /\ \A k \in R : GradOf(R, ins, k) \in 0 .. C + e
  <2> HIDE DEF R
  <2>1. QED
    BY <1>1, <1>2, <1>4, NewGradsAre
<1>6. inputs \in [1 .. m -> Nat]
  <2>1. ins \in [1 .. m -> 1 .. N]
    OBVIOUS
  <2> HIDE DEF R, n, N, C, m
  <2>2. \A k \in 1 .. m : InputId(a, n, R, ins, byValue, k) \in Nat
    <3> USE DEF N
    <3>1. QED
      BY <1>1, <1>2, <1>4, <2>1, InputTypes
  <2>3. QED
    BY <1>1, <2>2
<1>7. ts \in Seq(TensorType(C + e)) /\ Len(ts) = N
  <2> HIDE DEF R, n, e, C
  <2> PICK D : D = C + e
    OBVIOUS
  <2>1. D \in Nat /\ C \in Nat /\ C <= D
    BY <1>2, <1>5
  <2>2. \A k \in R : Rank(R, k) \in Nat /\ GradOf(R, ins, k) \in 0 .. D
    BY <1>4, <1>5
  <2>3. ts \in Seq(TensorType(D)) /\ Len(ts) = N
    BY <1>2, <2>1, <2>2, MarkedTypes
  <2>4. QED
    BY <2>3
<1>8. /\ g.nodes = f.nodes \o [i \in DOMAIN params |-> ParamNode] \o <<OpNode(op, inputs)>>
      /\ g.of = f.of \o [i \in DOMAIN params |-> ins[params[i]]] \o <<N + 1>>
      /\ g.serial = f.serial
      /\ tensors' = Append(ts, Output(ins, [graph |-> a, node |-> n + Len(params) + 1]))
      /\ tape' = Append(tape, Step(op, ins, byValue, f.serial))
  BY RecordedAs, ZenonT(30)
<1>9. /\ g.cells = f.cells \o [i \in DOMAIN params |-> GradOf(R, ins, params[i])] \o <<0>>
      /\ gradOf' = gradOf \o [i \in 1 .. e |-> 0]
      /\ g.output = f.output /\ g.owner = f.owner
  BY RecordedGrads, ZenonT(30)
<1>10. t1 \in TensorType(C + e)
  <2>1. RequiresGrad(ins) \in BOOLEAN
    BY DEF RequiresGrad
  <2>2. n + c + 1 \in Nat /\ 0 \in 0 .. C + e
    BY <1>2, <1>3, <1>5
  <2> HIDE DEF n, c, e
  <2>3. QED
    BY <2>1, <2>2 DEF Output, TensorType
<1> HIDE DEF n, R, c, e, params, inputs, g, ts, t1
<1>11. gradOf' \in Seq(Int) /\ Len(gradOf') = C + e
  <2> DEFINE q == [i \in 1 .. e |-> 0]
  <2>1. q \in [1 .. e -> Int]
    OBVIOUS
  <2>2. q \in Seq(Int) /\ Len(q) = e /\ gradOf' = gradOf \o q
    BY <1>5, <1>9, <2>1, IsSequence
  <2> HIDE DEF q, C
  <2> PICK r : r = gradOf \o q
    OBVIOUS
  <2>3. r \in Seq(Int) /\ Len(r) = Len(gradOf) + Len(q)
    BY <1>2, <2>2, ConcatProperties
  <2>4. QED
    BY <2>2, <2>3 DEF C
<1>12. /\ tensors' \in Seq(TensorType(C + e)) /\ Len(tensors') = N + 1
       /\ (\E S : tape' \in Seq(S)) /\ Len(tape') = N + 1
  <2>1. tensors' = Append(ts, t1)
    BY <1>3, <1>8 DEF t1
  <2>2. tensors' \in Seq(TensorType(C + e)) /\ Len(tensors') = N + 1
    BY <1>7, <1>10, <2>1, AppendProperties
  <2>3. PICK S : tape \in Seq(S)
    BY DEF TensorTypes
  <2>4. Len(tape) = N
    BY DEF TensorTypes
  <2> PICK s1 : tape' = Append(tape, s1)
    BY <1>8
  <2>5. tape' \in Seq(S \cup {s1}) /\ Len(tape') = N + 1
    BY <2>3, <2>4, Appended
  <2>6. QED
    BY <2>2, <2>5
<1>13. /\ g.nodes \in Seq(OpNodes) /\ Len(g.nodes) = n + c + 1
  <2> DEFINE node == OpNode(op, inputs)
  <2>1. x \in [1 .. c -> OpNodes]
    <3>1. ParamNode \in NodeRecord
      BY EmptySeq DEF NodeRecord, ParamNode
    <3>2. ParamNode \in OpNodes
      BY <3>1 DEF OpNodes
    <3> HIDE DEF m
    <3>3. QED
      BY <3>2, Zenon
  <2>2. node \in OpNodes
    <3>1. inputs \in Seq(Nat) /\ Len(inputs) = m
      BY <1>1, <1>6, IsSequence
    <3>2. QED
      BY <3>1 DEF OpNodes, NodeRecord, OpNode
  <2>3. g.nodes = f.nodes \o x \o <<node>>
    BY <1>3, <1>8
  <2>4. f.nodes \in Seq(OpNodes) /\ Len(f.nodes) = n
    BY DEF FunctionTypes, n
  <2> HIDE DEF node, x
  <2>5. Extension(f.nodes \o x \o <<node>>, f.nodes, c, x, node, OpNodes)
    BY <1>3, <2>1, <2>2, <2>4, Extended
  <2>6. QED
    BY <2>3, <2>4, <2>5 DEF Extension
<1>14. /\ g.cells \in Seq(0 .. C + e) /\ Len(g.cells) = n + c + 1
  <2>1. y \in [1 .. c -> 0 .. C + e]
    <3>1. \A i \in 1 .. c : params[i] \in R
      BY <1>3 DEF Chosen
    <3>2. QED
      BY <1>5, <3>1
  <2>2. g.cells = f.cells \o y \o <<0>>
    BY <1>3, <1>9
  <2>3. f.cells \in Seq(0 .. C + e) /\ Len(f.cells) = n /\ 0 \in 0 .. C + e
    <3>1. f.cells \in Seq(0 .. C) /\ Len(f.cells) = n
      BY DEF FunctionTypes, n
    <3>2. 0 .. C \subseteq 0 .. C + e /\ 0 \in 0 .. C + e
      BY <1>2, <1>5
    <3> HIDE DEF C
    <3>3. QED
      BY <3>1, <3>2, SeqMonotonic
  <2> HIDE DEF y, C
  <2>4. Extension(f.cells \o y \o <<0>>, f.cells, c, y, 0, 0 .. C + e)
    BY <1>3, <2>1, <2>3, Extended
  <2>5. QED
    BY <2>2, <2>3, <2>4 DEF Extension
<1>15. /\ g.of \in Seq(1 .. N + 1) /\ Len(g.of) = n + c + 1
  <2>1. z \in [1 .. c -> 1 .. N + 1]
    <3>1. \A i \in 1 .. c : params[i] \in 1 .. m
      BY <1>3 DEF Chosen
    <3>2. \A k \in 1 .. m : ins[k] \in 1 .. N
      OBVIOUS
    <3>3. 1 .. N \subseteq 1 .. N + 1
      BY <1>2
    <3> HIDE DEF N, m
    <3>4. QED
      BY <3>1, <3>2, <3>3
  <2>2. g.of = f.of \o z \o <<N + 1>>
    BY <1>3, <1>8
  <2>3. f.of \in Seq(1 .. N + 1) /\ Len(f.of) = n /\ N + 1 \in 1 .. N + 1
    <3>1. f.of \in Seq(1 .. N) /\ Len(f.of) = n
      BY DEF FunctionTypes, n
    <3>2. 1 .. N \subseteq 1 .. N + 1 /\ N + 1 \in 1 .. N + 1
      BY <1>2
    <3>3. f.of \in Seq(1 .. N + 1)
      <4>1. N + 1 \in Nat /\ N <= N + 1 /\ C \in Nat
        BY <1>2
      <4> HIDE DEF N, C
      <4>2. FunctionTypes(f, N + 1, C, s)
        <5> USE DEF N, C
        <5>1. QED
          BY <1>2, <4>1, FunctionGrows
      <4>3. QED
        BY <4>2 DEF FunctionTypes
    <3>4. QED
      BY <3>1, <3>2, <3>3
  <2> HIDE DEF z, N
  <2>4. Extension(f.of \o z \o <<N + 1>>, f.of, c, z, N + 1, 1 .. N + 1)
    BY <1>3, <2>1, <2>3, Extended
  <2>5. QED
    BY <2>2, <2>3, <2>4 DEF Extension
<1>16. g.output \in NoNode .. n + c + 1 /\ g.owner \in BOOLEAN /\ g.serial \in 0 .. s
  <2>1. n \in Nat /\ c \in Nat /\ f.output \in 0 .. n
        /\ f.owner \in BOOLEAN /\ f.serial \in 0 .. s
    BY <1>2, <1>3 DEF FunctionTypes, n, NoNode
  <2>2. f.output \in 0 .. n + c + 1
    BY <2>1
  <2>3. QED
    BY <1>8, <1>9, <2>1, <2>2 DEF NoNode
<1>17. FunctionTypes(g, N + 1, C + e, s)
  BY <1>13, <1>14, <1>15, <1>16 DEF FunctionTypes
<1>18. TensorTypes(tensors', tape', gradOf')
  BY <1>11, <1>12 DEF TensorTypes
<1>19. QED
  BY <1>2, <1>5, <1>11, <1>12, <1>17, <1>18 DEF g

-----------------------------------------------------------------------------
(* What each kind of step does to the data. *)

\* The other Functions need not change when there are more tensors.
LEMMA DataGrows ==
    ASSUME DataTypes, TensorTypes(tensors', tape', gradOf'),
           created' \in Nat, created <= created',
           Len(tensors) \in Nat, Len(tensors') \in Nat, Len(tensors) <= Len(tensors'),
           Len(gradOf) \in Nat, Len(gradOf') \in Nat, Len(gradOf) <= Len(gradOf'),
           \A b \in Addresses : \/ heap'[b] = heap[b]
                                \/ FunctionTypes(heap'[b], Len(tensors'), Len(gradOf'), created')
    PROVE  DataTypes'
<1>1. ASSUME NEW b \in Addresses
      PROVE  FunctionTypes(heap'[b], Len(tensors'), Len(gradOf'), created')
  <2>1. created \in Nat /\ FunctionTypes(heap[b], Len(tensors), Len(gradOf), created)
    BY DEF DataTypes
  <2>2. FunctionTypes(heap[b], Len(tensors'), Len(gradOf'), created')
    BY <2>1, FunctionGrows
  <2>3. QED
    BY <2>2
<1>2. QED
  BY <1>1 DEF DataTypes

LEMMA Lengths ==
    ASSUME DataTypes
    PROVE  /\ Len(tensors) \in Nat /\ DOMAIN tensors = 1 .. Len(tensors)
           /\ Len(gradOf) \in Nat /\ DOMAIN gradOf = 1 .. Len(gradOf)
           /\ Len(tape) = Len(tensors) /\ DOMAIN tape = 1 .. Len(tensors)
           /\ \A t \in DOMAIN tensors : tensors[t] \in TensorType(Len(gradOf))
           /\ \A c \in DOMAIN gradOf : gradOf[c] \in Int
           /\ created \in Nat
<1>1. TensorTypes(tensors, tape, gradOf) /\ created \in Nat
  BY DEF DataTypes
<1>2. /\ Len(tensors) \in Nat /\ DOMAIN tensors = 1 .. Len(tensors)
      /\ Len(gradOf) \in Nat /\ DOMAIN gradOf = 1 .. Len(gradOf)
      /\ Len(tape) = Len(tensors) /\ DOMAIN tape = 1 .. Len(tensors)
  BY <1>1, LenProperties DEF TensorTypes
<1>3. \A t \in 1 .. Len(tensors) : tensors[t] \in TensorType(Len(gradOf))
  BY <1>1, ElementOf DEF TensorTypes
<1>4. \A c \in 1 .. Len(gradOf) : gradOf[c] \in Int
  BY <1>1, ElementOf DEF TensorTypes
<1>5. QED
  BY <1>1, <1>2, <1>3, <1>4

LEMMA TensorAdded ==
    ASSUME DataTypes, UNCHANGED <<heap, gradOf, created>>,
           NEW t1 \in TensorType(Len(gradOf)), NEW s1,
           tensors' = Append(tensors, t1), tape' = Append(tape, s1)
    PROVE  DataTypes' /\ Len(tensors') = Len(tensors) + 1
<1>1. TensorTypes(tensors, tape, gradOf) /\ Len(tensors) \in Nat /\ Len(gradOf) \in Nat
      /\ created \in Nat
  BY Lengths DEF DataTypes
<1>2. tensors' \in Seq(TensorType(Len(gradOf))) /\ Len(tensors') = Len(tensors) + 1
  BY <1>1, AppendProperties DEF TensorTypes
<1>3. PICK S : tape \in Seq(S)
  BY <1>1 DEF TensorTypes
<1>4. tape' \in Seq(S \cup {s1}) /\ Len(tape') = Len(tape) + 1
  BY <1>3, Appended
<1>5. TensorTypes(tensors', tape', gradOf')
  BY <1>1, <1>2, <1>4 DEF TensorTypes
<1>6. Len(tensors') \in Nat /\ Len(tensors) <= Len(tensors') /\ created <= created'
  BY <1>1, <1>2
<1>7. DataTypes'
  BY <1>1, <1>5, <1>6, DataGrows
<1>8. QED
  BY <1>2, <1>7

TensorChanges(t, r, c) ==
    tensors' = [tensors EXCEPT ![t].requiresGrad = r, ![t].grad = c]

\* Other grad tensors hold other numbers, and tensors have other flags.
LEMMA TensorsChanged ==
    ASSUME DataTypes,
           NEW t \in DOMAIN tensors, NEW r \in BOOLEAN, NEW cell \in 0 .. Len(gradOf),
           TensorChanges(t, r, cell),
           tape' = tape \/ \E d : tape' = [tape EXCEPT ![t].dropped = d],
           gradOf' = gradOf \/ \E k \in DOMAIN gradOf : gradOf' = [gradOf EXCEPT ![k] = 0]
    PROVE  /\ TensorTypes(tensors', tape', gradOf')
           /\ Len(tensors') = Len(tensors) /\ Len(gradOf') = Len(gradOf)
<1> PICK N, C : N = Len(tensors) /\ C = Len(gradOf)
  OBVIOUS
<1>1. /\ N \in Nat /\ DOMAIN tensors = 1 .. N
      /\ C \in Nat /\ DOMAIN gradOf = 1 .. C
      /\ Len(tape) = N /\ DOMAIN tape = 1 .. N
      /\ \A u \in DOMAIN tensors : tensors[u] \in TensorType(C)
      /\ \A k \in DOMAIN gradOf : gradOf[k] \in Int
  BY Lengths
<1>2. TensorTypes(tensors, tape, gradOf)
  BY DEF DataTypes
<1>3. tensors' \in Seq(TensorType(C)) /\ Len(tensors') = N
  <2>1. ASSUME NEW u \in 1 .. N PROVE tensors'[u] \in TensorType(C)
    <3>1. tensors[u] \in TensorType(C)
      BY <1>1
    <3>2. CASE u # t
      BY <1>1, <3>1, <3>2 DEF TensorChanges
    <3>3. CASE u = t
      <4>1. tensors'[u] = [tensors[u] EXCEPT !.requiresGrad = r, !.grad = cell]
        BY <1>1, <3>1, <3>3 DEF TensorType, TensorChanges
      <4>2. QED
        BY <3>1, <4>1 DEF TensorType
    <3>4. QED
      BY <3>2, <3>3
  <2>2. tensors = [u \in 1 .. N |-> tensors[u]]
    BY <1>1, <1>2, LenProperties DEF TensorTypes
  <2>3. tensors' = [u \in 1 .. N |-> tensors'[u]]
    BY <1>1, <2>2 DEF TensorChanges
  <2>4. tensors' \in [1 .. N -> TensorType(C)]
    BY <2>1, <2>3
  <2>5. tensors' \in Seq(TensorType(C)) /\ Len(tensors') = N
    BY <1>1, <2>4, IsSequence
  <2>6. QED
    BY <2>5
<1>4. gradOf' \in Seq(Int) /\ Len(gradOf') = C
  <2>1. CASE gradOf' = gradOf
    BY <1>1, <1>2, <2>1 DEF TensorTypes
  <2>2. ASSUME NEW k \in 1 .. C, gradOf' = [gradOf EXCEPT ![k] = 0]
        PROVE  gradOf' \in Seq(Int) /\ Len(gradOf') = C
    <3>1. gradOf \in [1 .. C -> Int]
      BY <1>1, <1>2, LenProperties DEF TensorTypes
    <3>2. gradOf' \in [1 .. C -> Int]
      BY <2>2, <3>1
    <3>3. QED
      BY <1>1, <3>2, IsSequence
  <2>3. QED
    BY <1>1, <2>1, <2>2
<1>5. (\E S : tape' \in Seq(S)) /\ Len(tape') = N
  <2>1. CASE tape' = tape
    BY <1>1, <1>2, <2>1 DEF TensorTypes
  <2>2. CASE \E d : tape' = [tape EXCEPT ![t].dropped = d]
    <3>1. tape = [u \in 1 .. N |-> tape[u]]
      BY <1>1, <1>2, LenProperties DEF TensorTypes
    <3>2. tape' = [u \in 1 .. N |-> tape'[u]]
      BY <1>1, <2>2, <3>1
    <3>3. QED
      BY <1>1, <3>2, OfLength
  <2>3. QED
    BY <2>1, <2>2
<1>6. QED
  BY <1>3, <1>4, <1>5 DEF TensorTypes

LEMMA AllocatedTypes ==
    ASSUME NEW N \in Nat, NEW C \in Nat, NEW hasOwner \in BOOLEAN, HeapOK
    PROVE  FunctionTypes(Allocated(hasOwner), N, C, created + 1)
<1> DEFINE f == Allocated(hasOwner)
<1>1. /\ f.nodes = <<>> /\ f.cells = <<>> /\ f.of = <<>> /\ f.output = NoNode
      /\ f.owner = hasOwner /\ f.serial = created + 1 /\ created \in Nat
  BY DEF Allocated, NewFunction, HeapOK
<1> HIDE DEF f
<1>2. NoNode \in NoNode .. 0 /\ created + 1 \in 0 .. created + 1
  BY <1>1 DEF NoNode
<1>3. FunctionTypes(f, N, C, created + 1)
  BY <1>1, <1>2, EmptySeq DEF FunctionTypes
<1>4. QED
  BY <1>3 DEF f

-----------------------------------------------------------------------------
(* A pass. *)

LEMMA EdgesDescend ==
    ASSUME NEW a, heap[a].nodes \in Seq(OpNodes), NEW n, n = Len(heap[a].nodes)
    PROVE  n \in Nat /\ Descends(Edges(a), n)
<1> DEFINE g == heap[a].nodes
<1> DEFINE e == Edges(a)
<1>1. n \in Nat /\ DOMAIN g = 1 .. n
  BY LenProperties
<1>2. e = [i \in 1 .. n |-> [g[i] EXCEPT !.inputs =
                               [k \in DOMAIN @ |-> IF @[k] < i THEN @[k] ELSE NoNode]]]
  BY <1>1 DEF Edges
<1>3. Len(e) = n
  <2>1. e = [i \in 1 .. n |-> e[i]]
    BY <1>2
  <2> HIDE DEF e
  <2>2. QED
    BY <1>1, <2>1, OfLength
<1>4. ASSUME NEW i \in 1 .. n
      PROVE  /\ IsFiniteSet(DOMAIN e[i].inputs)
             /\ \A k \in DOMAIN e[i].inputs :
                   e[i].inputs[k] \in 0 .. i - 1 /\ Partial[e[i].op][k] \in Int
  <2> PICK x : x = g[i]
    OBVIOUS
  <2>1. x \in OpNodes
    BY ElementOf
  <2>2. x.inputs \in Seq(Nat) /\ DOMAIN x = {"op", "inputs"}
    BY <2>1 DEF OpNodes, NodeRecord
  <2> PICK m : m = Len(x.inputs)
    OBVIOUS
  <2>3. m \in Nat /\ DOMAIN x.inputs = 1 .. m
    BY <2>2, LenProperties
  <2>4. /\ e[i].op = x.op
        /\ e[i].inputs = [k \in 1 .. m |-> IF x.inputs[k] < i THEN x.inputs[k] ELSE NoNode]
    BY <1>2, <2>2, <2>3
  <2>5. IsFiniteSet(1 .. m)
    <3>1. m \in Int /\ 1 \in Int
      BY <2>3
    <3> HIDE DEF e, g
    <3>2. QED
      BY <3>1, FS_Interval, Zenon
  <2> HIDE DEF e
  <2>6. ASSUME NEW k \in 1 .. m
        PROVE  e[i].inputs[k] \in 0 .. i - 1 /\ Partial[e[i].op][k] \in Int
    <3>1. x.inputs[k] \in Nat
      BY <2>2, <2>3, ElementOf
    <3>2. e[i].inputs[k] \in 0 .. i - 1
      BY <2>4, <3>1 DEF NoNode
    <3>3. CASE x = ParamNode
      <4>1. x.inputs = <<>>
        BY <3>3 DEF ParamNode
      <4>2. m = 0
        BY <4>1
      <4>3. QED
        BY <4>2
    <3>4. CASE x.op \in Ops /\ m = Arity(x.op)
      <4>1. Partial[x.op] \in Seq(Int) /\ m = Len(Partial[x.op])
        BY <3>4, OpsAssumption DEF Arity
      <4>2. Partial[x.op][k] \in Int
        BY <4>1, ElementOf
      <4>3. QED
        BY <2>4, <3>2, <4>2
    <3>5. QED
      BY <2>1, <3>3, <3>4 DEF OpNodes
  <2>7. QED
    BY <2>4, <2>5, <2>6
<1>5. QED
  BY <1>1, <1>3, <1>4 DEF Descends

LEMMA GradsAreNumbers ==
    ASSUME DataTypes, NEW a \in Addresses, NEW root \in Ids(heap[a].nodes)
    PROVE  GradsAfter(a, root) \in [1 .. Len(gradOf) -> Int]
<1> DEFINE g == Edges(a)
<1> DEFINE n == Len(heap[a].nodes)
<1>1. DOMAIN gradOf = 1 .. Len(gradOf) /\ \A c \in DOMAIN gradOf : gradOf[c] \in Int
  BY Lengths
<1>2. heap[a].nodes \in Seq(OpNodes)
  BY DEF DataTypes, FunctionTypes
<1>3. n \in Nat /\ Descends(g, n) /\ root \in 0 .. n
  BY <1>2, EdgesDescend DEF Ids
<1>4. \A w : Derivative(g, root, w) \in Int
  <2> HIDE DEF g, n
  <2>1. QED
    BY <1>3, DerivativeIsInt
<1> HIDE DEF g, n
<1>5. QED
  BY <1>1, <1>4 DEF GradsAfter, g

\* The output it sets is a node.
LEMMA PassTypes ==
    ASSUME HeapOK, DataTypes, NEW a \in Addresses, NEW t,
           Returns(a, t) \/ Throws(a, t) \/ Overruns(a, t),
           UNCHANGED <<tensors, tape, created>>
    PROVE  DataTypes' /\ dead' \in {dead, TRUE}
<1>1. /\ TensorTypes(tensors, tape, gradOf) /\ Len(tensors) \in Nat
      /\ Len(gradOf) \in Nat /\ created \in Nat
  BY Lengths DEF DataTypes
<1>2. gradOf' \in Seq(Int) /\ Len(gradOf') = Len(gradOf)
  <2>1. CASE UNCHANGED gradOf
    BY <1>1, <2>1 DEF TensorTypes
  <2>2. CASE Completes(a, t)
    <3>1. gradOf' = GradsAfter(a, OutputOf(a, t)) /\ OutputOf(a, t) \in Ids(heap[a].nodes)
      BY <2>2 DEF Completes
    <3>2. gradOf' \in [1 .. Len(gradOf) -> Int]
      BY <3>1, GradsAreNumbers
    <3>3. QED
      BY <1>1, <3>2, IsSequence
  <2>3. QED
    BY <2>1, <2>2 DEF Returns, ReturnsEarly, Throws, Overruns
<1>3. UNCHANGED heap \/ \E o \in Ids(heap[a].nodes) : heap' = [heap EXCEPT ![a].output = o]
  BY DEF Returns, Completes, ReturnsEarly, Throws, Overruns
<1>4. ASSUME NEW b \in Addresses
      PROVE  \/ heap'[b] = heap[b]
             \/ FunctionTypes(heap'[b], Len(tensors'), Len(gradOf'), created')
  <2>1. CASE UNCHANGED heap \/ b # a
    BY <1>3, <2>1 DEF HeapOK
  <2>2. ASSUME NEW o \in Ids(heap[a].nodes), heap' = [heap EXCEPT ![a].output = o], b = a
        PROVE  FunctionTypes(heap'[b], Len(tensors'), Len(gradOf'), created')
    <3> PICK f : f = heap[a]
      OBVIOUS
    <3>1. FunctionTypes(f, Len(tensors), Len(gradOf), created) /\ DOMAIN f = Fields
      BY DEF DataTypes, HeapOK
    <3>2. heap'[b] = [f EXCEPT !.output = o] /\ o \in NoNode .. Len(f.nodes)
      BY <2>2 DEF HeapOK, NoNode, Ids
    <3>3. /\ heap'[b].nodes = f.nodes /\ heap'[b].cells = f.cells /\ heap'[b].of = f.of
          /\ heap'[b].output = o /\ heap'[b].owner = f.owner /\ heap'[b].serial = f.serial
      BY <3>1, <3>2 DEF Fields
    <3>4. QED
      BY <1>2, <3>1, <3>2, <3>3 DEF FunctionTypes
  <2>3. QED
    BY <1>3, <2>1, <2>2
<1>5. TensorTypes(tensors', tape', gradOf')
  BY <1>1, <1>2 DEF TensorTypes
<1>6. DataTypes'
  BY <1>1, <1>2, <1>4, <1>5, DataGrows
<1>7. QED
  BY <1>6 DEF Returns, Completes, ReturnsEarly, Throws, Overruns

-----------------------------------------------------------------------------
(* Each kind of step keeps the types. *)

LEMMA Bounds ==
    ASSUME ControlTypes
    PROVE  /\ program.tensors \in Nat /\ program.functions \in Nat /\ program.calls \in Nat
           /\ created \in Nat /\ calls \in Nat
           /\ Free # {} => created + 1 \in 0 .. program.functions
<1>1. program.tensors \in Nat /\ program.functions \in Nat /\ program.calls \in Nat
  BY TracingAssumption DEF ControlTypes
<1>2. QED
  BY <1>1 DEF ControlTypes, Free

\* Steps that neither make nor enter nor leave nor drop a Function.
LEMMA ControlStays ==
    ASSUME TracingInv, ControlTypes, UNCHANGED <<program, live, contexts, created>>,
           recording' \in BOOLEAN, dead' \in BOOLEAN,
           calls' \in 0 .. program.calls, Len(tensors') <= program.tensors,
           \A a \in live : heap'[a].owner = heap[a].owner,
           function' \in {function, NoFn}
    PROVE  ControlTypes'
BY DEF ControlTypes, Entered

LEMMA AppendTypes ==
    ASSUME TracingInv, TypeInv, UNCHANGED program, Len(tensors) < program.tensors,
           UNCHANGED <<heap, live, gradOf, tracer, contexts, created, calls, dead>>,
           NEW t1 \in TensorType(Len(gradOf)), NEW s1,
           tensors' = Append(tensors, t1), tape' = Append(tape, s1)
    PROVE  TypeInv'
<1>1. UNCHANGED <<heap, gradOf, created>>
  OBVIOUS
<1>2. DataTypes' /\ Len(tensors') = Len(tensors) + 1
  BY <1>1, TensorAdded DEF TypeInv
<1>3. Len(tensors') <= program.tensors
  BY <1>2, Lengths, Bounds DEF TypeInv
<1>4. ControlTypes'
  BY <1>3, ControlStays DEF TypeInv, ControlTypes, tracer
<1>5. QED
  BY <1>2, <1>4 DEF TypeInv

LEMMA RecordingTypes ==
    ASSUME TracingInv, DataTypes, NEW a \in Addresses, NEW f, DOMAIN f = Fields,
           NEW op \in Ops, NEW byValue \in BOOLEAN,
           NEW ins \in [1 .. Arity(op) -> 1 .. Len(tensors)],
           OpRecordedAt(a, f, op, ins, byValue),
           created' \in Nat, created <= created',
           FunctionTypes(f, Len(tensors), Len(gradOf), created')
    PROVE  DataTypes' /\ Len(tensors') = Len(tensors) + 1
<1>1. DOMAIN heap = Addresses /\ TensorTypes(tensors, tape, gradOf)
  BY DEF TracingInv, HeapOK, DataTypes
<1>2. /\ TensorTypes(tensors', tape', gradOf')
      /\ FunctionTypes(heap'[a], Len(tensors'), Len(gradOf'), created')
      /\ Len(tensors) \in Nat /\ Len(tensors') = Len(tensors) + 1
      /\ Len(gradOf) \in Nat /\ Len(gradOf') \in Nat /\ Len(gradOf) <= Len(gradOf')
  BY <1>1, RecordedTypes
<1>3. \A b \in Addresses \ {a} : heap'[b] = heap[b]
  BY <1>1, RecordedAt
<1>4. Len(tensors') \in Nat /\ Len(tensors) <= Len(tensors')
  BY <1>2
<1>5. \A b \in Addresses : \/ heap'[b] = heap[b]
                           \/ FunctionTypes(heap'[b], Len(tensors'), Len(gradOf'), created')
  BY <1>2, <1>3
<1>6. DataTypes'
  BY <1>2, <1>4, <1>5, DataGrows
<1>7. QED
  BY <1>2, <1>6

LEMMA RunOpTypes ==
    ASSUME TracingInv, TypeInv, UNCHANGED program, RunOp
    PROVE  TypeInv'
<1> SUFFICES ASSUME NEW op \in Ops, NEW byValue \in BOOLEAN,
                    NEW ins \in [1 .. Arity(op) -> 1 .. Len(tensors)],
                    \/ OpNotRecorded(op, ins, byValue)
                    \/ OpRecorded(op, ins, byValue)
                    \/ OpStartsFunction(op, ins, byValue)
             PROVE  TypeInv'
  BY DEF RunOp
<1>1. HeapOK /\ DataTypes /\ ControlTypes /\ Len(tensors) < program.tensors
  BY DEF TracingInv, TypeInv, RunOp
<1>2. /\ Len(tensors) \in Nat /\ Len(gradOf) \in Nat /\ created \in Nat
      /\ program.tensors \in Nat
  BY <1>1, Lengths, Bounds
<1>3. CASE OpNotRecorded(op, ins, byValue)
  <2> DEFINE t1 == Output(ins, NoProducer)
  <2> DEFINE s1 == Step(op, ins, byValue, 0)
  <2>1. t1 \in TensorType(Len(gradOf))
    BY <1>2 DEF Output, NoProducer, NoNode, TensorType, RequiresGrad
  <2>2. /\ tensors' = Append(tensors, t1) /\ tape' = Append(tape, s1)
        /\ UNCHANGED <<heap, live, gradOf, tracer, contexts, created, calls, dead>>
    BY <1>3 DEF OpNotRecorded
  <2> HIDE DEF t1, s1
  <2>3. QED
    BY <1>1, <2>1, <2>2, AppendTypes
<1>4. CASE OpRecorded(op, ins, byValue)
  <2>1. /\ function \in Addresses /\ UNCHANGED <<live, function, created>>
        /\ OpRecordedAt(function, heap[function], op, ins, byValue)
        /\ DOMAIN heap[function] = Fields
        /\ FunctionTypes(heap[function], Len(tensors), Len(gradOf), created')
    BY <1>1, <1>4 DEF OpRecorded, HeapOK, TracingInv, TracerOK, DataTypes
  <2>2. DataTypes' /\ Len(tensors') = Len(tensors) + 1
    BY <1>1, <1>2, <2>1, RecordingTypes
  <2>3. /\ \A b \in live : heap'[b].owner = heap[b].owner
        /\ UNCHANGED contexts
    BY <1>1, <2>1, RecordedAt DEF SameFunction, HeapOK
  <2>4. UNCHANGED <<recording, calls, dead>>
    BY <2>1 DEF OpRecordedAt
  <2>5. ControlTypes'
    <3>1. Len(tensors') <= program.tensors
      BY <1>1, <1>2, <2>2
    <3>2. recording' \in BOOLEAN /\ dead' \in BOOLEAN /\ calls' \in 0 .. program.calls
      BY <1>1, <2>4 DEF ControlTypes
    <3>3. QED
      BY <1>1, <2>1, <2>3, <3>1, <3>2, ControlStays
  <2>6. QED
    BY <2>2, <2>5 DEF TypeInv
<1>5. CASE OpStartsFunction(op, ins, byValue)
  <2>1. PICK a \in Free : /\ OpRecordedAt(a, Allocated(TRUE), op, ins, byValue)
                          /\ live' = live \cup {a} /\ function' = a
    BY <1>5 DEF OpStartsFunction
  <2>2. /\ a \in Addresses /\ a \notin live /\ DOMAIN Allocated(TRUE) = Fields
        /\ Allocated(TRUE).owner = TRUE /\ created' = created + 1
    BY <1>1, <1>5, NewlyAllocated DEF OpStartsFunction
  <2>3. FunctionTypes(Allocated(TRUE), Len(tensors), Len(gradOf), created')
    BY <1>1, <1>2, <2>2, AllocatedTypes
  <2>4. DataTypes' /\ Len(tensors') = Len(tensors) + 1
    <3>1. created' \in Nat /\ created <= created'
      BY <1>2, <2>2
    <3>2. QED
      BY <1>1, <2>1, <2>2, <2>3, <3>1, RecordingTypes
  <2>5. heap'[a].owner = TRUE
    BY <1>1, <2>1, <2>2, RecordedAt DEF SameFunction, HeapOK
  <2>6. UNCHANGED <<recording, calls, dead, contexts>>
    BY <2>1 DEF OpRecordedAt
  <2>7. ControlTypes'
    <3>1. Len(tensors') <= program.tensors
      BY <1>1, <1>2, <2>4
    <3>2. created' \in 0 .. program.functions
      BY <1>1, <2>1, <2>2, Bounds
    <3>3. QED
      BY <1>1, <2>1, <2>5, <2>6, <3>1, <3>2 DEF ControlTypes
  <2>8. QED
    BY <2>4, <2>7 DEF TypeInv
<1>6. QED
  BY <1>3, <1>4, <1>5

LEMMA EnterTypes ==
    ASSUME TracingInv, TypeInv, UNCHANGED program, NEW arg, EnterNewFunction(arg),
           TensorTypes(tensors', tape', gradOf'),
           Len(tensors') = Len(tensors), Len(gradOf') = Len(gradOf)
    PROVE  TypeInv'
<1> PICK S : contexts \in Seq(S)
  BY DEF TracingInv, ContextsOK
<1>1. HeapOK /\ DataTypes /\ ControlTypes
  BY DEF TracingInv, TypeInv
<1>2. Len(tensors) \in Nat /\ Len(gradOf) \in Nat /\ created \in Nat
  BY <1>1, Lengths
<1>3. PICK a \in Free :
         /\ heap' = [heap EXCEPT ![a] = Allocated(FALSE)]
         /\ live' = live \cup {a} /\ function' = a
         /\ contexts' = Append(contexts, FunctionContext(a, arg))
         /\ created' = created + 1 /\ UNCHANGED <<recording, calls, dead>>
  BY DEF EnterNewFunction
<1>4. a \in Addresses /\ DOMAIN heap = Addresses
  BY <1>1, NewlyAllocated DEF HeapOK
<1>5. FunctionTypes(Allocated(FALSE), Len(tensors'), Len(gradOf'), created')
  BY <1>1, <1>2, <1>3, AllocatedTypes
<1>6. DataTypes'
  <2>1. \A b \in Addresses : \/ heap'[b] = heap[b]
                             \/ FunctionTypes(heap'[b], Len(tensors'), Len(gradOf'), created')
    BY <1>3, <1>4, <1>5
  <2>2. created' \in Nat /\ created <= created'
    BY <1>2, <1>3
  <2>3. QED
    BY <1>1, <1>2, <2>1, <2>2, DataGrows
<1>7. /\ Len(contexts) \in Nat /\ DOMAIN contexts = 1 .. Len(contexts)
      /\ DOMAIN contexts' = 1 .. Len(contexts) + 1
      /\ contexts'[Len(contexts) + 1] = FunctionContext(a, arg)
      /\ \A k \in DOMAIN contexts : contexts'[k] = contexts[k]
  BY <1>3, Pushed
<1> DEFINE c == FunctionContext(a, arg)
<1>8. c.kind = "fn" /\ c.fn = a /\ c.prev = TRUE
  BY DEF FunctionContext
<1> HIDE DEF c
<1>9. Entered(a)'
  <2>1. Len(contexts) + 1 \in DOMAIN contexts' /\ contexts'[Len(contexts) + 1] = c
    BY <1>7 DEF c
  <2>2. QED
    BY <1>8, <2>1 DEF Entered
<1>10. \A i \in DOMAIN contexts' : contexts'[i].prev \in BOOLEAN
  <2>1. ASSUME NEW i \in DOMAIN contexts' PROVE contexts'[i].prev \in BOOLEAN
    <3>1. CASE i \in DOMAIN contexts
      BY <1>1, <1>7, <3>1 DEF ControlTypes
    <3>2. CASE i = Len(contexts) + 1
      BY <1>7, <1>8, <3>2 DEF c
    <3>3. QED
      BY <1>7, <3>1, <3>2
  <2>2. QED
    BY <2>1
<1>11. created' \in 0 .. program.functions
  BY <1>1, <1>3, Bounds
<1>12. ControlTypes'
  BY <1>1, <1>3, <1>9, <1>10, <1>11 DEF ControlTypes, Entered
<1>13. QED
  BY <1>6, <1>12 DEF TypeInv

LEMMA GradBeginsTypes ==
    ASSUME TracingInv, TypeInv, UNCHANGED program, NEW t \in DOMAIN tensors,
           GradTransformBegins(t)
    PROVE  TypeInv'
<1>1. /\ DataTypes /\ tensors[t] \in TensorType(Len(gradOf))
      /\ Len(gradOf) \in Nat /\ DOMAIN gradOf = 1 .. Len(gradOf)
  BY Lengths DEF TypeInv
<1>2. EnterNewFunction(t) /\ UNCHANGED tape
  BY DEF GradTransformBegins, EnterNewFunction
<1> PICK c : c = tensors[t].grad
  OBVIOUS
<1>3. c \in 0 .. Len(gradOf) /\ DOMAIN tensors[t] = TensorFields
  BY <1>1 DEF TensorType, TensorFields
<1>4. TensorChanges(t, TRUE, c)
  BY <1>3 DEF GradTransformBegins, TensorChanges, TensorFields
<1>5. gradOf' = gradOf \/ \E k \in DOMAIN gradOf : gradOf' = [gradOf EXCEPT ![k] = 0]
  <2>1. CASE c = 0
    BY <2>1 DEF GradTransformBegins
  <2>2. CASE c # 0
    <3>1. gradOf' = [gradOf EXCEPT ![c] = 0]
      BY <2>2 DEF GradTransformBegins, Zeroed
    <3>2. c \in DOMAIN gradOf
      BY <1>1, <1>3, <2>2
    <3>3. QED
      BY <3>1, <3>2
  <2>3. QED
    BY <2>1, <2>2
<1>6. /\ TensorTypes(tensors', tape', gradOf')
      /\ Len(tensors') = Len(tensors) /\ Len(gradOf') = Len(gradOf)
  BY <1>1, <1>2, <1>3, <1>4, <1>5, TensorsChanged
<1>7. QED
  BY <1>2, <1>6, EnterTypes

LEMMA SetRequiresGradTypes ==
    ASSUME TracingInv, TypeInv, UNCHANGED program, NEW t \in DOMAIN tensors,
           NEW value \in BOOLEAN, SetRequiresGrad(t, value)
    PROVE  TypeInv'
<1>1. /\ DataTypes /\ ControlTypes /\ tensors[t] \in TensorType(Len(gradOf))
      /\ Len(tensors) \in Nat /\ Len(gradOf) \in Nat /\ created \in Nat
  BY Lengths DEF TypeInv
<1> PICK c : c = IF value THEN tensors[t].grad ELSE 0
  OBVIOUS
<1>2. c \in 0 .. Len(gradOf) /\ DOMAIN tensors[t] = TensorFields
  BY <1>1 DEF TensorType, TensorFields
<1>3. TensorChanges(t, value, c)
  BY <1>2 DEF SetRequiresGrad, TensorChanges, TensorFields
<1>4. /\ tape' = tape \/ \E d : tape' = [tape EXCEPT ![t].dropped = d]
      /\ UNCHANGED <<heap, live, gradOf, tracer, contexts, created, calls, dead>>
  <2>1. UNCHANGED <<heap, live, gradOf, tracer, contexts, created, calls, dead>>
    BY DEF SetRequiresGrad
  <2>2. tape' = [tape EXCEPT ![t].dropped = @ \/ tensors[t].grad # 0]
    BY DEF SetRequiresGrad
  <2>3. QED
    BY <2>1, <2>2
<1>5. /\ TensorTypes(tensors', tape', gradOf')
      /\ Len(tensors') = Len(tensors) /\ Len(gradOf') = Len(gradOf)
  BY <1>1, <1>2, <1>3, <1>4, TensorsChanged
<1>6. DataTypes'
  BY <1>1, <1>4, <1>5, DataGrows
<1>7. ControlTypes'
  BY <1>1, <1>4, <1>5, ControlStays DEF ControlTypes, tracer
<1>8. QED
  BY <1>6, <1>7 DEF TypeInv

LEMMA PassControl ==
    ASSUME TracingInv, TypeInv, UNCHANGED program, NEW a \in Addresses, NEW t,
           Returns(a, t) \/ Throws(a, t) \/ Overruns(a, t),
           calls < program.calls, calls' = calls + 1,
           UNCHANGED <<live, contexts, tensors, recording, created, tape>>,
           function' \in {function, NoFn}
    PROVE  TypeInv'
<1>1. HeapOK /\ DataTypes /\ ControlTypes
  BY DEF TracingInv, TypeInv
<1>2. DataTypes' /\ dead' \in {dead, TRUE}
  BY <1>1, PassTypes
<1>3. \A b \in live : heap'[b].owner = heap[b].owner
  BY <1>1, PassInPlace DEF HeapOK
<1>4. calls' \in 0 .. program.calls
  BY <1>1, Bounds
<1>5. recording' \in BOOLEAN /\ dead' \in BOOLEAN /\ Len(tensors') <= program.tensors
  BY <1>1, <1>2 DEF ControlTypes
<1>6. ControlTypes'
  BY <1>1, <1>3, <1>4, <1>5, ControlStays
<1>7. QED
  BY <1>2, <1>6 DEF TypeInv

LEMMA SameData ==
    ASSUME DataTypes, UNCHANGED <<heap, tensors, gradOf, created, tape>>
    PROVE  DataTypes'
BY DEF DataTypes

LEMMA BackwardTypes ==
    ASSUME TracingInv, TypeInv, UNCHANGED program, Backward
    PROVE  TypeInv'
<1>1. ASSUME NEW a, NEW t, FunctionBackward(a, t) PROVE TypeInv'
  <2>1. a \in Addresses /\ function' \in {function, NoFn}
    BY <1>1 DEF FunctionBackward, Held, TracingInv, HeapOK
  <2>2. QED
    BY <1>1, <2>1, PassControl DEF FunctionBackward
<1>2. ASSUME NEW t, TensorBackwardHere(t) PROVE TypeInv'
  <2>1. function \in Addresses /\ function' \in {function, NoFn}
    BY <1>2 DEF TensorBackwardHere, TracerAfter, TracingInv, TracerOK
  <2>2. QED
    BY <1>2, <2>1, PassControl DEF TensorBackwardHere
<1>3. ASSUME NEW t, TensorBackwardElsewhere(t) PROVE TypeInv'
  <2>1. /\ UNCHANGED <<live, tensors, recording, function, contexts, created, tape>>
        /\ calls < program.calls /\ calls' = calls + 1
    BY <1>3 DEF TensorBackwardElsewhere, tracer
  <2>2. CASE \E a \in live : Returns(a, t) \/ Throws(a, t) \/ Overruns(a, t)
    BY <2>1, <2>2, PassControl DEF TracingInv, HeapOK
  <2>3. CASE UNCHANGED <<heap, gradOf>> /\ dead' \in {dead} \cup BOOLEAN
    <3>1. DataTypes'
      BY <2>1, <2>3, SameData DEF TypeInv
    <3>2. calls' \in 0 .. program.calls
      BY <2>1, Bounds DEF TypeInv
    <3>3. ControlTypes'
      BY <2>1, <2>3, <3>2, ControlStays DEF TypeInv, ControlTypes
    <3>4. QED
      BY <3>1, <3>3 DEF TypeInv
  <2>4. QED
    BY <1>3, <2>2, <2>3 DEF TensorBackwardElsewhere
<1>4. QED
  BY <1>1, <1>2, <1>3 DEF Backward

LEMMA EndsTypes ==
    ASSUME TracingInv, TypeInv, UNCHANGED program, NEW t, GradTransformEnds(t)
    PROVE  TypeInv'
<1> PICK S : contexts \in Seq(S)
  BY DEF TracingInv, ContextsOK
<1>1. HeapOK /\ DataTypes /\ ControlTypes
  BY DEF TracingInv, TypeInv
<1>2. /\ Last(contexts) = contexts[Len(contexts)] /\ Len(contexts) \in DOMAIN contexts
      /\ Len(contexts) \in Nat /\ DOMAIN contexts = 1 .. Len(contexts)
      /\ DOMAIN Front(contexts) = 1 .. Len(contexts) - 1
      /\ \A k \in DOMAIN Front(contexts) : Front(contexts)[k] = contexts[k]
  BY Shortened DEF GradTransformEnds, InGradTransform
<1>3. Last(contexts).fn \in Addresses
  BY <1>1, <1>2 DEF GradTransformEnds, InGradTransform, TracingInv, ContextsOK, HeapOK
<1>4. /\ function' = NoFn /\ contexts' = Front(contexts)
      /\ calls < program.calls /\ calls' = calls + 1
      /\ UNCHANGED <<tensors, recording, created, tape>>
  BY DEF GradTransformEnds
<1>5. DataTypes' /\ dead' \in {dead, TRUE}
  BY <1>1, <1>3, <1>4, PassTypes DEF GradTransformEnds
<1>6. \A i \in DOMAIN contexts' : contexts'[i].prev \in BOOLEAN
  BY <1>1, <1>2, <1>4 DEF ControlTypes
<1>7. calls' \in 0 .. program.calls
  BY <1>1, <1>4, Bounds
<1>8. ControlTypes'
  BY <1>1, <1>4, <1>5, <1>6, <1>7 DEF ControlTypes
<1>9. QED
  BY <1>5, <1>8 DEF TypeInv

LEMMA ReenterTypes ==
    ASSUME TracingInv, TypeInv, UNCHANGED program, ReenterFunction
    PROVE  TypeInv'
<1> PICK S : contexts \in Seq(S)
  BY DEF TracingInv, ContextsOK
<1>1. PICK a \in Held : function' = a /\ contexts' = Append(contexts, FunctionContext(a, 0))
  BY DEF ReenterFunction
<1>2. UNCHANGED <<heap, live, tensors, gradOf, recording, created, calls, dead, tape>>
  BY DEF ReenterFunction
<1>3. /\ Len(contexts) \in Nat /\ DOMAIN contexts = 1 .. Len(contexts)
      /\ DOMAIN contexts' = 1 .. Len(contexts) + 1
      /\ contexts'[Len(contexts) + 1] = FunctionContext(a, 0)
      /\ \A k \in DOMAIN contexts : contexts'[k] = contexts[k]
  BY <1>1, Pushed
<1> PICK c : c = FunctionContext(a, 0)
  OBVIOUS
<1>4. c.kind = "fn" /\ c.fn = a /\ c.prev = TRUE
  BY DEF FunctionContext
<1>5. \E i \in DOMAIN contexts' : contexts'[i].kind = "fn" /\ contexts'[i].fn = function'
  <2>1. Len(contexts) + 1 \in DOMAIN contexts' /\ contexts'[Len(contexts) + 1] = c
    BY <1>3
  <2>2. QED
    BY <1>1, <1>4, <2>1
<1>6. \A i \in DOMAIN contexts' : contexts'[i].prev \in BOOLEAN
  <2>1. ASSUME NEW i \in DOMAIN contexts' PROVE contexts'[i].prev \in BOOLEAN
    <3>1. CASE i \in DOMAIN contexts
      BY <1>3, <3>1 DEF TypeInv, ControlTypes
    <3>2. CASE i = Len(contexts) + 1
      BY <1>3, <1>4, <3>2
    <3>3. QED
      BY <1>3, <3>1, <3>2
  <2>2. QED
    BY <2>1
<1>7. ControlTypes'
  BY <1>1, <1>2, <1>5, <1>6 DEF TypeInv, ControlTypes, Entered, Held
<1>8. DataTypes'
  BY <1>2, SameData DEF TypeInv
<1>9. QED
  BY <1>7, <1>8 DEF TypeInv

LEMMA ExitTypes ==
    ASSUME TracingInv, TypeInv, UNCHANGED program, ExitFunction \/ ExitGradMode
    PROVE  TypeInv'
<1> PICK S : contexts \in Seq(S)
  BY DEF TracingInv, ContextsOK
<1>1. contexts # <<>> /\ contexts' = Front(contexts)
  BY DEF ExitFunction, ExitGradMode
<1>2. UNCHANGED <<heap, live, tensors, gradOf, created, calls, dead, tape>>
  BY DEF ExitFunction, ExitGradMode
<1>3. /\ Last(contexts) = contexts[Len(contexts)] /\ Len(contexts) \in DOMAIN contexts
      /\ Len(contexts) \in Nat /\ DOMAIN contexts = 1 .. Len(contexts)
      /\ DOMAIN contexts' = 1 .. Len(contexts) - 1
      /\ \A k \in DOMAIN contexts' : contexts'[k] = contexts[k]
  BY <1>1, Shortened
<1>4. \A i \in DOMAIN contexts' : contexts'[i].prev \in BOOLEAN
  BY <1>3 DEF TypeInv, ControlTypes
<1>5. recording' \in BOOLEAN
  BY <1>3 DEF ExitFunction, ExitGradMode, TypeInv, ControlTypes
<1>6. function' # NoFn =>
         /\ function' \in live
         /\ \/ heap[function'].owner
            \/ \E i \in DOMAIN contexts' : contexts'[i].kind = "fn" /\ contexts'[i].fn = function'
  <2>1. CASE function' = NoFn
    BY <2>1
  <2>2. CASE UNCHANGED function /\ Last(contexts).kind = "mode"
    <3>1. \A i \in DOMAIN contexts : contexts[i].kind = "fn" => i \in DOMAIN contexts'
      BY <1>3, <2>2
    <3>2. QED
      BY <1>3, <2>2, <3>1 DEF TypeInv, ControlTypes, Entered
  <2>3. QED
    BY <2>1, <2>2 DEF ExitFunction, ExitGradMode
<1>7. ControlTypes'
  BY <1>2, <1>4, <1>5, <1>6 DEF TypeInv, ControlTypes, Entered
<1>8. DataTypes'
  BY <1>2, SameData DEF TypeInv
<1>9. QED
  BY <1>7, <1>8 DEF TypeInv

LEMMA ModeTypes ==
    ASSUME TracingInv, TypeInv, UNCHANGED program, EnterGradMode
    PROVE  TypeInv'
<1> PICK S : contexts \in Seq(S)
  BY DEF TracingInv, ContextsOK
<1> PICK c : c = [kind |-> "mode", fn |-> NoFn, arg |-> 0, prev |-> recording]
  OBVIOUS
<1>1. /\ contexts' = Append(contexts, c) /\ recording' \in BOOLEAN
      /\ UNCHANGED <<heap, live, tensors, gradOf, function, active, created, calls, dead, tape>>
  BY DEF EnterGradMode
<1>2. /\ Len(contexts) \in Nat /\ DOMAIN contexts = 1 .. Len(contexts)
      /\ DOMAIN contexts' = 1 .. Len(contexts) + 1
      /\ contexts'[Len(contexts) + 1] = c
      /\ \A k \in DOMAIN contexts : contexts'[k] = contexts[k]
  BY <1>1, Pushed
<1>3. c.prev \in BOOLEAN
  BY DEF TypeInv, ControlTypes
<1>4. \A i \in DOMAIN contexts' : contexts'[i].prev \in BOOLEAN
  BY <1>2, <1>3 DEF TypeInv, ControlTypes
<1>5. Entered(function) => Entered(function)'
  BY <1>1, <1>2 DEF Entered
<1>6. ControlTypes'
  BY <1>1, <1>4, <1>5 DEF TypeInv, ControlTypes, Entered
<1>7. DataTypes'
  BY <1>1, SameData DEF TypeInv
<1>8. QED
  BY <1>6, <1>7 DEF TypeInv

LEMMA DropTypes ==
    ASSUME TracingInv, TypeInv, UNCHANGED program, DropFunction
    PROVE  TypeInv'
<1>1. PICK a \in Held : ~Entered(a) /\ live' = live \ {a}
  BY DEF DropFunction
<1>2. UNCHANGED <<heap, tensors, gradOf, recording, function, contexts, created,
                  calls, dead, tape>>
  BY DEF DropFunction, tracer
<1>3. a \in live /\ ~heap[a].owner
  BY DEF Held
<1>4. function # NoFn => function # a
  BY <1>1, <1>3 DEF TypeInv, ControlTypes
<1>5. ControlTypes'
  BY <1>1, <1>2, <1>4 DEF TypeInv, ControlTypes, Entered
<1>6. DataTypes'
  BY <1>2, SameData DEF TypeInv
<1>7. QED
  BY <1>5, <1>6 DEF TypeInv

LEMMA TypeStep == TracingInv /\ TypeInv /\ [Next]_vars => TypeInv'
<1> SUFFICES ASSUME TracingInv, TypeInv, [Next]_vars PROVE TypeInv'
  OBVIOUS
<1>1. UNCHANGED program
  BY DEF Next, vars
<1>2. ASSUME NEW r \in BOOLEAN, NewTensor(r) PROVE TypeInv'
  <2> DEFINE t1 == [requiresGrad |-> r, producer |-> NoProducer, grad |-> 0]
  <2> DEFINE s1 == Step("leaf", <<>>, FALSE, 0)
  <2>1. Len(gradOf) \in Nat
    BY Lengths DEF TypeInv
  <2>2. t1 \in TensorType(Len(gradOf))
    BY <2>1 DEF NoProducer, NoNode, TensorType
  <2>3. /\ tensors' = Append(tensors, t1) /\ tape' = Append(tape, s1)
        /\ Len(tensors) < program.tensors
        /\ UNCHANGED <<heap, live, gradOf, tracer, contexts, created, calls, dead>>
    BY <1>2 DEF NewTensor
  <2> HIDE DEF t1, s1
  <2>4. QED
    BY <1>1, <2>2, <2>3, AppendTypes
<1>3. CASE EnterFunction
  <2>1. EnterNewFunction(0) /\ UNCHANGED <<tensors, gradOf, tape>>
    BY <1>3 DEF EnterFunction, EnterNewFunction
  <2>2. TensorTypes(tensors', tape', gradOf')
    BY <2>1 DEF TypeInv, DataTypes
  <2>3. QED
    BY <1>1, <2>1, <2>2, EnterTypes
<1>4. CASE UNCHANGED vars
  BY <1>4 DEF TypeInv, DataTypes, ControlTypes, Entered, vars, tracer
<1>5. CASE \E t \in DOMAIN tensors, value \in BOOLEAN : SetRequiresGrad(t, value)
  BY <1>1, <1>5, SetRequiresGradTypes
<1>6. CASE \E t \in DOMAIN tensors : GradTransformBegins(t) \/ GradTransformEnds(t)
  BY <1>1, <1>6, GradBeginsTypes, EndsTypes
<1>7. CASE ReenterFunction \/ ExitFunction \/ DropFunction \/ EnterGradMode \/ ExitGradMode
  BY <1>1, <1>7, ReenterTypes, ExitTypes, DropTypes, ModeTypes
<1>8. CASE RunOp \/ Backward
  BY <1>1, <1>8, RunOpTypes, BackwardTypes
<1>9. QED
  BY <1>2, <1>3, <1>4, <1>5, <1>6, <1>7, <1>8 DEF Next, Operation

LEMMA TypeInit == Init => TypeInv
<1> SUFFICES ASSUME Init PROVE TypeInv
  OBVIOUS
<1>1. /\ tensors = <<>> /\ gradOf = <<>> /\ tape = <<>> /\ created = 0 /\ calls = 0
      /\ function = NoFn /\ contexts = <<>> /\ recording = TRUE /\ dead = FALSE
      /\ program \in Programs
  BY DEF Init
<1>2. Len(tensors) = 0 /\ Len(gradOf) = 0 /\ DOMAIN contexts = {}
  BY <1>1
<1>3. TensorTypes(tensors, tape, gradOf)
  BY <1>1, EmptySeq DEF TensorTypes
<1>4. ASSUME NEW a \in Addresses PROVE FunctionTypes(heap[a], 0, 0, 0)
  <2> PICK f : f = NewFunction(FALSE)
    OBVIOUS
  <2>1. /\ f.nodes = <<>> /\ f.cells = <<>> /\ f.of = <<>> /\ f.output = NoNode
        /\ f.owner = FALSE /\ f.serial = 0
    BY DEF NewFunction
  <2>2. NoNode \in NoNode .. 0 /\ 0 \in 0 .. 0
    BY DEF NoNode
  <2>3. FunctionTypes(f, 0, 0, 0)
    BY <2>1, <2>2, EmptySeq DEF FunctionTypes
  <2>4. heap[a] = f
    BY DEF Init
  <2>5. QED
    BY <2>3, <2>4
<1>5. DataTypes
  BY <1>1, <1>2, <1>3, <1>4 DEF DataTypes
<1>6. program.tensors \in Nat /\ program.functions \in Nat /\ program.calls \in Nat
  BY <1>1, TracingAssumption
<1>7. /\ created \in 0 .. program.functions /\ calls \in 0 .. program.calls
      /\ Len(tensors) <= program.tensors
  BY <1>1, <1>2, <1>6
<1>8. \A i \in DOMAIN contexts : contexts[i].prev \in BOOLEAN
  BY <1>2
<1>9. ControlTypes
  BY <1>1, <1>7, <1>8 DEF ControlTypes
<1>10. QED
  BY <1>5, <1>9 DEF TypeInv

LEMMA TypesFollow == TracingInv /\ TypeInv => TypeOK
<1> SUFFICES ASSUME TracingInv, TypeInv PROVE TypeOK
  OBVIOUS
<1>1. DataTypes /\ ControlTypes
  BY DEF TypeInv
<1>2. ASSUME NEW a \in Addresses PROVE FunctionOK(heap[a])
  <2> PICK f : f = heap[a]
    OBVIOUS
  <2>1. FunctionTypes(f, Len(tensors), Len(gradOf), created)
    BY <1>1 DEF DataTypes
  <2>2. f.nodes \in Seq(NodeRecord)
    <3>1. OpNodes \subseteq NodeRecord
      BY DEF OpNodes
    <3>2. f.nodes \in Seq(OpNodes)
      BY <2>1 DEF FunctionTypes
    <3>3. QED
      BY <3>1, <3>2, SeqMonotonic
  <2>3. f.cells \in [Ids(f.nodes) -> 0 .. Len(gradOf)]
    BY <2>1, LenProperties DEF FunctionTypes, Ids
  <2>4. f.of \in [Ids(f.nodes) -> DOMAIN tensors]
    <3>1. DOMAIN tensors = 1 .. Len(tensors)
      BY <1>1, Lengths
    <3>2. QED
      BY <2>1, <3>1, LenProperties DEF FunctionTypes, Ids
  <2>5. QED
    BY <2>1, <2>2, <2>3, <2>4 DEF FunctionTypes, FunctionOK
<1>3. ASSUME NEW t \in DOMAIN tensors PROVE TensorOK(tensors[t])
  <2>1. tensors[t] \in TensorType(Len(gradOf))
    BY <1>1, Lengths
  <2>2. QED
    BY <2>1 DEF TensorType, TensorOK
<1>4. gradOf \in Seq(Int) /\ Len(tape) = Len(tensors)
  BY <1>1 DEF DataTypes, TensorTypes
<1>5. function \in live \cup {NoFn} /\ active \in {function, NoFn}
  BY <1>1 DEF ControlTypes, TracingInv, TracerOK
<1>6. /\ live \subseteq Addresses
      /\ \A i \in DOMAIN contexts : contexts[i].kind = "fn" => contexts[i].fn \in live
  BY DEF TracingInv, HeapOK, ContextsOK
<1>7. QED
  BY <1>1, <1>2, <1>3, <1>4, <1>5, <1>6 DEF TypeOK, ControlTypes

\* Types: every node of a recorded graph has as many inputs as its op, every
\* grad tensor that a Tensor or a leaf node refers to exists and holds a number
\* (init_grad, op_registry.cpp:119), and the Function in the tracer, into which
\* run_op records through raw pointers (op_registry.cpp:112), is never one
\* that has been released, in every program.
THEOREM TracingTypeOK == Spec => []TypeOK
BY TracingInit, TracingStep, TypeInit, TypeStep, TypesFollow, PTL DEF Spec
=============================================================================
