--------------------------- MODULE SerializerProofs ---------------------------
(***************************************************************************)
(* Theorems about Serializer for any graphs and tensors, and any sequence  *)
(* of saves, loads, crashes and full disks.                                *)
(*                                                                         *)
(* The blob store first: a file holds a beginning of the one content it is *)
(* named after.  Then the JSON file: five tokens of each node lie between  *)
(* four and one, so that a file cut short has no node at all, or one whose *)
(* closing bracket load_function never finds, and the scan cannot pass it. *)
(***************************************************************************)
EXTENDS Serializer, DataLemmas, SequenceTheorems

\* data is what a stream may have left of content.
Begins(data, content) ==
    /\ data \in Seq(Int) /\ content \in Seq(Values) /\ Remains(data, content)

\* A file of the store holds the beginning of the content it is named after,
HandlesOK == \A w \in handles : w[1] = w[2]
BlobsOK == \A h \in DOMAIN blobs : Begins(blobs[h], h)

\* the rest of which is in the stream while it is written,
StreamOK ==
    pc = "savingBlob" =>
       /\ name \in DOMAIN blobs /\ pending \in Seq(Int)
       /\ pending # <<>> =>
             /\ Len(blobs[name]) + Len(pending) = Len(name)
             /\ \A i \in 1 .. Len(blobs[name]) : blobs[name][i] = name[i]
             /\ \A i \in 1 .. Len(pending) : pending[i] = name[Len(blobs[name]) + i]

\* and a load returns a beginning of it and zeros.
ReadOK ==
    read # NoBlob =>
       \E n \in 0 .. Len(read.hash) : \A i \in DOMAIN read.data :
          read.data[i] \in IF i <= n THEN {read.hash[i]}
                          ELSE IF i = n + 1 /\ i <= Len(read.hash)
                               THEN {0, Leading[read.hash[i]]}
                          ELSE {0}

BlobInv == HandlesOK /\ BlobsOK /\ StreamOK /\ ReadOK

LEMMA SaveBlobStep ==
    ASSUME BlobInv, NEW t \in Tensors, SaveBlob(t)
    PROVE  BlobInv'
<1> USE DEF BlobInv
<1> DEFINE d == t.data
<1>1. d \in Seq(Values) /\ d \in Seq(Int) /\ Len(d) \in Nat
      /\ \A i \in 1 .. Len(d) : d[i] \in Int
  <2>1. d \in Seq(Values) /\ Values \subseteq Int
    BY SerializerAssumption
  <2>2. d \in Seq(Int)
    <3>1. PICK n \in Nat : d \in [1 .. n -> Values]
      BY <2>1, SeqDef
    <3>2. d \in [1 .. n -> Int]
      BY <2>1, <3>1
    <3>3. QED
      BY <3>2, SeqDef
  <2>3. QED
    BY <2>1, <2>2, LenProperties, ElementOfSeq
<1>2. /\ pc' = "savingBlob" /\ pending' = d /\ name' = d /\ UNCHANGED read
      /\ handles' = handles \cup {<<d, d>>}
      /\ blobs' = [h \in DOMAIN blobs \cup {d} |-> IF h = d THEN <<>> ELSE blobs[h]]
  BY DEF SaveBlob, HashOf
<1>3. blobs'[d] = <<>> /\ d \in DOMAIN blobs' /\ Len(<<>>) = 0 /\ <<>> \in Seq(Int)
  BY <1>2, EmptySeq
<1>4. HandlesOK'
  BY <1>2 DEF HandlesOK
<1>5. BlobsOK'
  <2>1. Begins(<<>>, d)
    BY <1>1, <1>3 DEF Begins, Remains
  <2>2. QED
    BY <1>2, <2>1 DEF BlobsOK
<1>6. StreamOK'
  BY <1>1, <1>2, <1>3 DEF StreamOK
<1>7. ReadOK'
  BY <1>2 DEF ReadOK
<1>8. QED
  BY <1>4, <1>5, <1>6, <1>7

\* The next number of the stream, or a part of it, is behind what is in the
\* file, which is whole so far.
LEMMA NextElement ==
    ASSUME BlobInv, pc = "savingBlob", pending # <<>>
    PROVE  /\ name \in DOMAIN blobs /\ name \in Seq(Values) /\ blobs[name] \in Seq(Int)
           /\ Len(blobs[name]) \in Nat /\ Len(pending) \in Nat \ {0}
           /\ pending \in Seq(Int)
           /\ Len(blobs[name]) + Len(pending) = Len(name)
           /\ \A i \in 1 .. Len(blobs[name]) : blobs[name][i] = name[i]
           /\ \A i \in 1 .. Len(pending) : pending[i] = name[Len(blobs[name]) + i]
           /\ Head(pending) = name[Len(blobs[name]) + 1]
           /\ Head(pending) \in Values /\ Head(pending) \in Int
           /\ Leading[Head(pending)] \in Int
<1> USE DEF BlobInv
<1> DEFINE old == blobs[name]
<1>1. /\ name \in DOMAIN blobs /\ Begins(old, name) /\ pending \in Seq(Int)
      /\ Len(old) + Len(pending) = Len(name)
      /\ \A i \in 1 .. Len(old) : old[i] = name[i]
      /\ \A i \in 1 .. Len(pending) : pending[i] = name[Len(old) + i]
  BY DEF StreamOK, BlobsOK
<1>2. /\ old \in Seq(Int) /\ name \in Seq(Values)
      /\ Len(old) \in Nat /\ Len(name) \in Nat /\ Len(pending) \in Nat \ {0}
  BY <1>1, LenProperties, EmptySeq DEF Begins
<1>3. Head(pending) = pending[1]
  BY <1>1, HeadTailProperties
<1>4. pending[1] = name[Len(old) + 1] /\ Len(old) + 1 \in 1 .. Len(name)
  BY <1>1, <1>2
<1>5. name[Len(old) + 1] \in Values
  BY <1>2, <1>4, ElementOfSeq
<1>6. Values \subseteq Int /\ Leading[name[Len(old) + 1]] \in Int
  BY <1>5, SerializerAssumption
<1>7. QED
  BY <1>1, <1>2, <1>3, <1>4, <1>5, <1>6

\* Appending to the file of the open stream.
LEMMA ElementAppended ==
    ASSUME BlobInv, pc = "savingBlob", pending # <<>>,
           NEW x \in {Head(pending), Leading[Head(pending)]},
           blobs' = [blobs EXCEPT ![name] = Append(@, x)]
    PROVE  /\ BlobsOK'
           /\ DOMAIN blobs' = DOMAIN blobs
           /\ Len(blobs'[name]) = Len(blobs[name]) + 1
           /\ x = Head(pending) =>
                 \A i \in 1 .. Len(blobs[name]) + 1 : blobs'[name][i] = name[i]
<1> USE DEF BlobInv
<1> DEFINE old == blobs[name]
           new == blobs'[name]
<1>1. /\ name \in DOMAIN blobs /\ name \in Seq(Values) /\ old \in Seq(Int)
      /\ Len(old) \in Nat /\ Len(pending) \in Nat \ {0} /\ Len(name) \in Nat
      /\ Len(old) + Len(pending) = Len(name)
      /\ \A i \in 1 .. Len(old) : old[i] = name[i]
      /\ Head(pending) = name[Len(old) + 1] /\ x \in Int
  BY NextElement, LenProperties
<1>2. new = Append(old, x)
  BY <1>1
<1>3. /\ new \in Seq(Int) /\ Len(new) = Len(old) + 1
      /\ \A i \in 1 .. Len(old) : new[i] = old[i]
      /\ new[Len(old) + 1] = x
  BY <1>1, <1>2, AppendProperties
<1>4. /\ DOMAIN blobs' = DOMAIN blobs
      /\ \A h \in DOMAIN blobs \ {name} : blobs'[h] = blobs[h]
  OBVIOUS
<1> HIDE DEF new, old
<1>5. DOMAIN new = 1 .. Len(new)
  BY <1>3
<1>6. ASSUME NEW i \in 1 .. Len(old) + 1
      PROVE  \/ new[i] = name[i]
             \/ i = Len(new) /\ new[i] = Leading[name[i]] /\ x # Head(pending)
  <2>1. CASE i \in 1 .. Len(old)
    BY <1>1, <1>3, <2>1
  <2>2. CASE i = Len(old) + 1
    <3>1. new[i] = x /\ Head(pending) = name[i] /\ i = Len(new)
      BY <1>1, <1>3, <2>2
    <3>2. x = Head(pending) \/ (x # Head(pending) /\ x = Leading[Head(pending)])
      OBVIOUS
    <3>3. CASE x = Head(pending)
      BY <3>1, <3>3, Zenon
    <3>4. CASE x # Head(pending) /\ x = Leading[Head(pending)]
      <4>1. new[i] = Leading[name[i]]
        BY <3>1, <3>4, Zenon
      <4>2. QED
        BY <3>1, <3>4, <4>1, Zenon
    <3>5. QED
      BY <3>2, <3>3, <3>4, Zenon
  <2>3. i \in 1 .. Len(old) \/ i = Len(old) + 1
    BY <1>1
  <2>4. QED
    BY <2>1, <2>2, <2>3, Zenon
<1>7. Len(new) <= Len(name)
  BY <1>1, <1>3
<1>8. Begins(new, name)
  BY <1>1, <1>3, <1>5, <1>6, <1>7 DEF Begins, Remains
<1>9. BlobsOK'
  BY <1>4, <1>8 DEF BlobsOK, new
<1>10. QED
  BY <1>3, <1>4, <1>6, <1>9 DEF new, old

LEMMA WriteElementStep ==
    ASSUME BlobInv, WriteElement
    PROVE  BlobInv'
<1> DEFINE old == blobs[name]
<1>1. /\ pc = "savingBlob" /\ pending # <<>> /\ UNCHANGED <<pc, name, handles, read>>
      /\ blobs' = [blobs EXCEPT ![name] = Append(@, Head(pending))]
      /\ pending' = Tail(pending)
  BY DEF WriteElement
<1>2. /\ BlobsOK' /\ DOMAIN blobs' = DOMAIN blobs
      /\ Len(blobs'[name]) = Len(old) + 1
      /\ \A i \in 1 .. Len(old) + 1 : blobs'[name][i] = name[i]
  BY <1>1, ElementAppended
<1>3. /\ name \in DOMAIN blobs /\ Len(old) \in Nat /\ Len(pending) \in Nat \ {0}
      /\ pending \in Seq(Int) /\ Len(old) + Len(pending) = Len(name)
      /\ \A i \in 1 .. Len(pending) : pending[i] = name[Len(old) + i]
  BY <1>1, NextElement
<1>4. /\ Tail(pending) \in Seq(Int) /\ Len(Tail(pending)) = Len(pending) - 1
      /\ \A i \in 1 .. Len(pending) - 1 : Tail(pending)[i] = pending[i + 1]
  BY <1>1, <1>3, HeadTailProperties
<1>5. StreamOK'
  <2>1. ASSUME NEW i \in 1 .. Len(pending) - 1
        PROVE  Tail(pending)[i] = name[Len(old) + 1 + i]
    BY <1>3, <1>4
  <2>2. Len(old) + 1 + (Len(pending) - 1) = Len(name)
    BY <1>3
  <2> HIDE DEF old
  <2>3. QED
    BY <1>1, <1>2, <1>3, <1>4, <2>1, <2>2 DEF StreamOK
<1>6. QED
  BY <1>1, <1>2, <1>5 DEF BlobInv, HandlesOK, ReadOK

LEMMA TearElementStep ==
    ASSUME BlobInv, TearElement
    PROVE  BlobInv'
<1>1. /\ pc = "savingBlob" /\ pending # <<>> /\ UNCHANGED <<pc, name, handles, read>>
      /\ blobs' = [blobs EXCEPT ![name] = Append(@, Leading[Head(pending)])]
      /\ pending' = <<>>
  BY DEF TearElement
<1>2. BlobsOK' /\ DOMAIN blobs' = DOMAIN blobs
  BY <1>1, ElementAppended
<1>3. StreamOK'
  BY <1>1, <1>2, NextElement, EmptySeq DEF StreamOK
<1>4. QED
  BY <1>1, <1>2, <1>3 DEF BlobInv, HandlesOK, ReadOK

LEMMA LoadBlobStep ==
    ASSUME BlobInv, NEW hash, NEW n \in Numels, LoadBlob(hash, n)
    PROVE  BlobInv'
<1> USE DEF BlobInv
<1>1. UNCHANGED <<blobs, name, handles, pending>> /\ pc' # "savingBlob"
  BY DEF LoadBlob
<1>2. CASE hash \in DOMAIN blobs
  <2> DEFINE b == blobs[hash]
             k == Len(b)
  <2>1. /\ Begins(b, hash)
        /\ read' = [hash |-> hash,
                    data |-> [i \in 1 .. n |-> IF i <= k THEN b[i] ELSE 0]]
    BY <1>2 DEF LoadBlob, BlobsOK
  <2>2. /\ n \in Nat /\ k \in Nat /\ Len(hash) \in Nat /\ k <= Len(hash)
        /\ DOMAIN b = 1 .. k
        /\ \A i \in 1 .. k : b[i] = hash[i] \/ (i = k /\ b[i] = Leading[hash[i]])
    BY <2>1, SerializerAssumption, LenProperties DEF Begins, Remains
  <2>3. /\ read'.hash = hash /\ DOMAIN read'.data = 1 .. n
        /\ \A i \in 1 .. n : read'.data[i] = IF i <= k THEN b[i] ELSE 0
    BY <2>1
  <2> HIDE DEF b, k
  <2>4. CASE k = 0 \/ b[k] = hash[k]
    <3>1. k \in 0 .. Len(hash)
      BY <2>2
    <3>2. ASSUME NEW i \in 1 .. n
          PROVE  read'.data[i] \in IF i <= k THEN {hash[i]}
                                  ELSE IF i = k + 1 /\ i <= Len(hash)
                                       THEN {0, Leading[hash[i]]}
                                  ELSE {0}
      <4>1. CASE i <= k
        <5>1. i \in 1 .. k
          BY <2>2, <4>1
        <5>2. b[i] = hash[i]
          BY <2>2, <2>4, <5>1
        <5>3. QED
          BY <2>3, <4>1, <5>2
      <4>2. CASE ~(i <= k)
        BY <2>3, <4>2
      <4>3. QED
        BY <4>1, <4>2
    <3>3. QED
      BY <1>1, <2>3, <3>1, <3>2 DEF HandlesOK, BlobsOK, StreamOK, ReadOK
  <2>5. CASE k # 0 /\ b[k] # hash[k]
    <3> DEFINE m == k - 1
    <3>1. m \in 0 .. Len(hash) /\ m + 1 = k /\ k \in 1 .. k /\ k <= Len(hash)
      BY <2>2, <2>5
    <3>2. b[k] = Leading[hash[k]]
      BY <2>2, <2>5, <3>1
    <3>3. \A i \in 1 .. n : (i <= m => i \in 1 .. k /\ i <= k /\ i # k)
                            /\ (~(i <= m) => i = k \/ ~(i <= k))
      BY <2>2, <3>1
    <3> HIDE DEF m
    <3>4. ASSUME NEW i \in 1 .. n
          PROVE  read'.data[i] \in IF i <= m THEN {hash[i]}
                                  ELSE IF i = m + 1 /\ i <= Len(hash)
                                       THEN {0, Leading[hash[i]]}
                                  ELSE {0}
      <4>1. CASE i <= m
        <5>1. b[i] = hash[i] /\ i <= k
          BY <2>2, <3>3, <4>1
        <5>2. QED
          BY <2>3, <4>1, <5>1
      <4>2. CASE ~(i <= m) /\ i = k
        <5>1. i <= k
          BY <2>2, <4>2
        <5>2. read'.data[i] = Leading[hash[i]]
          BY <2>3, <3>2, <4>2, <5>1
        <5>3. QED
          BY <3>1, <4>2, <5>2
      <4>3. CASE ~(i <= m) /\ ~(i <= k)
        BY <2>3, <4>3
      <4>4. QED
        BY <3>3, <4>1, <4>2, <4>3
    <3>5. QED
      BY <1>1, <2>3, <3>1, <3>4 DEF HandlesOK, BlobsOK, StreamOK, ReadOK
  <2>6. QED
    BY <2>4, <2>5
<1>3. CASE hash \notin DOMAIN blobs
  BY <1>1, <1>3 DEF LoadBlob, HandlesOK, BlobsOK, StreamOK, ReadOK
<1>4. QED
  BY <1>2, <1>3

LEMMA BlobStep == BlobInv /\ [Next]_vars => BlobInv'
<1> SUFFICES ASSUME BlobInv, [Next]_vars PROVE BlobInv'
  OBVIOUS
<1>1. ASSUME UNCHANGED <<blobs, handles>>, UNCHANGED read \/ read' = NoBlob,
             pc' # "savingBlob" \/ UNCHANGED <<pc, name, pending>>
      PROVE  BlobInv'
  BY <1>1 DEF BlobInv, HandlesOK, BlobsOK, StreamOK, ReadOK
<1>2. CASE \/ \E g \in Graphs : SaveFunction(g)
           \/ WriteToken \/ SaveReturns \/ Restart \/ LoadFunction \/ LoadNode
           \/ Exhaust \/ LoadReturns \/ UNCHANGED vars
  BY <1>1, <1>2
     DEF SaveFunction, WriteToken, SaveReturns, Restart, LoadFunction, LoadNode,
         Exhaust, LoadReturns, vars, blobVars
<1>3. QED
  BY <1>2, SaveBlobStep, WriteElementStep, TearElementStep, LoadBlobStep DEF Next

\* What is loaded under a hash is the beginning of the one content that was
\* ever saved under it, perhaps a part of the next number, then zeros (serializer.cpp:46-63): no interleaving of
\* saves, crashes and loads puts data of one tensor into another.  It rests on
\* different contents having different hashes.
THEOREM BlobsCorrect == Spec => []BlobsAreNotMixed
<1>1. Init => BlobInv
  BY DEF Init, BlobInv, HandlesOK, BlobsOK, StreamOK, ReadOK
<1>2. BlobInv => BlobsAreNotMixed
  BY DEF BlobInv, HandlesOK, ReadOK, BlobsAreNotMixed
<1>3. QED
  BY <1>1, <1>2, BlobStep, PTL DEF Spec

-----------------------------------------------------------------------------
(***************************************************************************)
(* The JSON file.  First what is where in a file that was written to its   *)
(* end: four tokens, five of each node, and one.                           *)
(***************************************************************************)

\* Five tokens of each node one after the other.
FlatValue(seqs, f, i) == IF i = 1 THEN seqs[i] ELSE f[i - 1] \o seqs[i]

LEMMA FlattenExists ==
    ASSUME NEW n \in Nat, NEW seqs
    PROVE  \E f : f = [i \in 1 .. n |-> FlatValue(seqs, f, i)]
<1> DEFINE C == {m \in Nat : \E f : f = [i \in 1 .. m |-> FlatValue(seqs, f, i)]}
<1>1. 0 \in C
  <2> DEFINE f == [i \in 1 .. 0 |-> 0]
  <2>1. f = [i \in 1 .. 0 |-> FlatValue(seqs, f, i)]
    OBVIOUS
  <2>2. QED
    BY <2>1
<1>2. ASSUME NEW m \in Nat, m \in C PROVE m + 1 \in C
  <2>1. PICK f : f = [i \in 1 .. m |-> FlatValue(seqs, f, i)]
    BY <1>2
  <2> DEFINE g == [i \in 1 .. m + 1 |-> FlatValue(seqs, f, i)]
  <2>2. \A i \in 1 .. m : i \in 1 .. m + 1
    OBVIOUS
  <2>3. \A i \in 1 .. m : g[i] = f[i]
    BY <2>1, <2>2
  <2> HIDE DEF g
  <2>4. \A i \in 1 .. m + 1 : i = 1 \/ i - 1 \in 1 .. m
    OBVIOUS
  <2>5. \A i \in 1 .. m + 1 : FlatValue(seqs, f, i) = FlatValue(seqs, g, i)
    BY <2>3, <2>4 DEF FlatValue
  <2>6. g = [i \in 1 .. m + 1 |-> FlatValue(seqs, g, i)]
    BY <2>5 DEF g
  <2>7. QED
    BY <2>6
<1>3. n \in C
  <2> HIDE DEF C
  <2>1. QED
    BY <1>1, <1>2, AllNat
<1>4. QED
  BY <1>3

LEMMA FlattenBlocks ==
    ASSUME NEW S, NEW n \in Nat, NEW seqs \in [1 .. n -> Seq(S)],
           \A i \in 1 .. n : Len(seqs[i]) = 5
    PROVE  /\ FlattenSeq(seqs) \in Seq(S) /\ Len(FlattenSeq(seqs)) = 5 * n
           /\ \A j \in 1 .. n : \A c \in 1 .. 5 :
                 FlattenSeq(seqs)[5 * (j - 1) + c] = seqs[j][c]
<1>1. seqs \in Seq(Seq(S)) /\ Len(seqs) = n
  <2>1. seqs \in Seq(Seq(S))
    BY SeqDef
  <2>2. DOMAIN seqs = 1 .. n /\ DOMAIN seqs = 1 .. Len(seqs) /\ Len(seqs) \in Nat
    BY <2>1, LenProperties
  <2>3. QED
    BY <2>1, <2>2
<1>2. CASE n = 0
  <2>1. FlattenSeq(seqs) = seqs /\ seqs = <<>>
    BY <1>1, <1>2, EmptySeq DEF FlattenSeq
  <2>2. QED
    BY <1>2, <2>1, EmptySeq
<1>3. CASE n # 0
  <2> DEFINE Is(f) == f = [i \in 1 .. n |-> FlatValue(seqs, f, i)]
             flat == CHOOSE f : Is(f)
  <2>1. Is(flat)
    <3>1. \E f : Is(f)
      BY FlattenExists
    <3>2. QED
      BY <3>1, Zenon
  <2>2. FlattenSeq(seqs) = flat[n]
    <3>1. Len(seqs) # 0
      BY <1>1, <1>3
    <3>2. FlattenSeq(seqs) = (CHOOSE f : f = [i \in 1 .. Len(seqs) |->
                                 FlatValue(seqs, f, i)])[Len(seqs)]
      BY <3>1 DEF FlattenSeq, FlatValue
    <3>3. QED
      BY <1>1, <3>2
  <2> HIDE DEF flat
  <2>3. \A i \in 1 .. n : flat[i] = FlatValue(seqs, flat, i)
    BY <2>1
  <2> DEFINE Good(m) == /\ flat[m] \in Seq(S) /\ Len(flat[m]) = 5 * m
                        /\ \A j \in 1 .. m : \A c \in 1 .. 5 :
                              flat[m][5 * (j - 1) + c] = seqs[j][c]
             C == {m \in Nat : m = 0 \/ Good(m)}
  <2>4. ASSUME NEW m \in 0 .. n - 1, m \in C PROVE m + 1 \in C
    <3>1. seqs[m + 1] \in Seq(S) /\ Len(seqs[m + 1]) = 5 /\ m + 1 \in 1 .. n
      OBVIOUS
    <3>2. CASE m = 0
      <4>1. flat[1] = seqs[1]
        BY <2>3, <3>1, <3>2 DEF FlatValue
      <4>2. Good(1)
        BY <3>1, <3>2, <4>1
      <4> HIDE DEF Good
      <4>3. QED
        BY <3>2, <4>2
    <3>3. CASE m # 0
      <4> DEFINE s == flat[m]
                 t == seqs[m + 1]
      <4>1. flat[m + 1] = s \o t
        <5>1. m + 1 # 1 /\ (m + 1) - 1 = m
          BY <3>3
        <5>2. flat[m + 1] = FlatValue(seqs, flat, m + 1)
          BY <2>3, <3>1
        <5>3. QED
          BY <5>1, <5>2 DEF FlatValue
      <4>2. s \in Seq(S) /\ Len(s) = 5 * m /\ t \in Seq(S) /\ Len(t) = 5
        BY <2>4, <3>1, <3>3
      <4>3. \A j \in 1 .. m : \A c \in 1 .. 5 : s[5 * (j - 1) + c] = seqs[j][c]
        BY <2>4, <3>3
      <4> HIDE DEF s, t
      <4>4. /\ s \o t \in Seq(S) /\ Len(s \o t) = 5 * (m + 1)
            /\ \A i \in 1 .. 5 * m + 5 :
                  (s \o t)[i] = IF i <= 5 * m THEN s[i] ELSE t[i - 5 * m]
        <5>1. /\ s \o t \in Seq(S) /\ Len(s \o t) = Len(s) + Len(t)
              /\ \A i \in 1 .. Len(s) + Len(t) :
                    (s \o t)[i] = IF i <= Len(s) THEN s[i] ELSE t[i - Len(s)]
          BY <4>2, ConcatProperties
        <5>2. Len(s) + Len(t) = 5 * m + 5 /\ 5 * m + 5 = 5 * (m + 1)
          BY <4>2
        <5>3. QED
          BY <4>2, <5>1, <5>2
      <4>5. ASSUME NEW j \in 1 .. m + 1, NEW c \in 1 .. 5
            PROVE  (s \o t)[5 * (j - 1) + c] = seqs[j][c]
        <5>1. CASE j = m + 1
          <6>1. /\ 5 * (j - 1) + c \in 1 .. 5 * m + 5
                /\ ~(5 * (j - 1) + c <= 5 * m) /\ 5 * (j - 1) + c - 5 * m = c
            BY <5>1
          <6>2. QED
            BY <4>4, <5>1, <6>1 DEF t
        <5>2. CASE j # m + 1
          <6>1. j \in 1 .. m /\ 5 * (j - 1) + c \in 1 .. 5 * m + 5
                /\ 5 * (j - 1) + c <= 5 * m
            BY <5>2
          <6>2. QED
            BY <4>3, <4>4, <6>1
        <5>3. QED
          BY <5>1, <5>2
      <4>6. Good(m + 1)
        BY <4>1, <4>4, <4>5
      <4> HIDE DEF Good
      <4>7. QED
        BY <4>6
    <3>4. QED
      BY <3>2, <3>3
  <2>5. n \in C
    <3> HIDE DEF C
    <3>1. 0 \in C
      BY DEF C
    <3>2. 0 .. n \subseteq C
      BY <2>4, <3>1, UpTo
    <3>3. QED
      BY <3>2
  <2>6. QED
    BY <1>3, <2>2, <2>5
<1>4. QED
  BY <1>2, <1>3

TokensOf(g) ==
    {Token("output_id", g.output_id), Token("input_ids", g.input_ids),
     Token("param_ids", g.param_ids), Token("nodes", <<>>), Token("end", <<>>)}
    \cup UNION {{NodeTokens(g.nodes[i])[c] : c \in 1 .. 5} : i \in DOMAIN g.nodes}

\* The tokens of node j are those from 5j to 5j + 4.
LEMMA FileLayout ==
    ASSUME NEW g, IsGraph(g)
    PROVE  /\ FileTokens(g) \in Seq(TokensOf(g))
           /\ Len(FileTokens(g)) = 5 * Len(g.nodes) + 5
           /\ FileTokens(g)[1] = Token("output_id", g.output_id)
           /\ FileTokens(g)[2] = Token("input_ids", g.input_ids)
           /\ FileTokens(g)[3] = Token("param_ids", g.param_ids)
           /\ FileTokens(g)[4] = Token("nodes", <<>>)
           /\ FileTokens(g)[5 * Len(g.nodes) + 5] = Token("end", <<>>)
           /\ \A j \in 1 .. Len(g.nodes) : \A c \in 1 .. 5 :
                 FileTokens(g)[5 * j + c - 1] = NodeTokens(g.nodes[j])[c]
<1> DEFINE n == Len(g.nodes)
           S == TokensOf(g)
           head == <<Token("output_id", g.output_id), Token("input_ids", g.input_ids),
                     Token("param_ids", g.param_ids), Token("nodes", <<>>)>>
           seqs == [i \in DOMAIN g.nodes |-> NodeTokens(g.nodes[i])]
           flat == FlattenSeq(seqs)
           last == <<Token("end", <<>>)>>
<1>1. n \in Nat /\ DOMAIN g.nodes = 1 .. n
  BY DEF IsGraph
<1>2. head \in Seq(S) /\ Len(head) = 4 /\ last \in Seq(S) /\ Len(last) = 1
      /\ last[1] = Token("end", <<>>)
  BY DEF TokensOf
<1>3. \A i \in 1 .. n : NodeTokens(g.nodes[i]) \in Seq(S)
                        /\ Len(NodeTokens(g.nodes[i])) = 5
  <2> SUFFICES ASSUME NEW i \in 1 .. n
               PROVE  NodeTokens(g.nodes[i]) \in Seq(S) /\ Len(NodeTokens(g.nodes[i])) = 5
    OBVIOUS
  <2> DEFINE t == NodeTokens(g.nodes[i])
  <2>1. Len(t) = 5 /\ t = <<t[1], t[2], t[3], t[4], t[5]>>
    BY DEF NodeTokens
  <2>2. \A c \in 1 .. 5 : t[c] \in S
    BY <1>1 DEF TokensOf
  <2> HIDE DEF t, S
  <2>3. <<t[1], t[2], t[3], t[4], t[5]>> \in Seq(S)
    BY <2>2
  <2>4. QED
    BY <2>1, <2>3 DEF t
<1>4. seqs \in [1 .. n -> Seq(S)] /\ \A i \in 1 .. n : Len(seqs[i]) = 5
  <2> HIDE DEF S
  <2>1. QED
    BY <1>1, <1>3
<1>5. /\ flat \in Seq(S) /\ Len(flat) = 5 * n
      /\ \A j \in 1 .. n : \A c \in 1 .. 5 : flat[5 * (j - 1) + c] = seqs[j][c]
  <2> HIDE DEF S, seqs, n
  <2>1. QED
    BY <1>1, <1>4, FlattenBlocks
<1>6. FileTokens(g) = (head \o flat) \o last
  BY DEF FileTokens
<1>7. \A j \in 1 .. n : seqs[j] = NodeTokens(g.nodes[j])
  BY <1>1
<1>8. /\ head[1] = Token("output_id", g.output_id)
      /\ head[2] = Token("input_ids", g.input_ids)
      /\ head[3] = Token("param_ids", g.param_ids)
      /\ head[4] = Token("nodes", <<>>)
  OBVIOUS
<1> HIDE DEF S, head, last, seqs, flat, n
<1>9. /\ head \o flat \in Seq(S) /\ Len(head \o flat) = 5 * n + 4
      /\ \A i \in 1 .. 5 * n + 4 :
            (head \o flat)[i] = IF i <= 4 THEN head[i] ELSE flat[i - 4]
  <2>1. /\ head \o flat \in Seq(S) /\ Len(head \o flat) = Len(head) + Len(flat)
        /\ \A i \in 1 .. Len(head) + Len(flat) :
              (head \o flat)[i] = IF i <= Len(head) THEN head[i] ELSE flat[i - Len(head)]
    BY <1>2, <1>5, ConcatProperties
  <2>2. Len(head) + Len(flat) = 5 * n + 4
    BY <1>1, <1>2, <1>5
  <2>3. QED
    BY <1>2, <2>1, <2>2
<1>10. /\ FileTokens(g) \in Seq(S) /\ Len(FileTokens(g)) = 5 * n + 5
       /\ \A i \in 1 .. 5 * n + 5 :
             FileTokens(g)[i] = IF i <= 5 * n + 4 THEN (head \o flat)[i]
                                ELSE last[i - (5 * n + 4)]
  <2> DEFINE s == head \o flat
  <2>1. s \in Seq(S) /\ Len(s) = 5 * n + 4 /\ last \in Seq(S) /\ Len(last) = 1
    BY <1>2, <1>9
  <2> HIDE DEF s
  <2>2. /\ s \o last \in Seq(S) /\ Len(s \o last) = Len(s) + Len(last)
        /\ \A i \in 1 .. Len(s) + Len(last) :
              (s \o last)[i] = IF i <= Len(s) THEN s[i] ELSE last[i - Len(s)]
    BY <2>1, ConcatProperties
  <2>3. Len(s) + Len(last) = 5 * n + 5
    BY <1>1, <2>1
  <2>4. FileTokens(g) = s \o last
    BY <1>6 DEF s
  <2>5. QED
    BY <2>1, <2>2, <2>3, <2>4 DEF s
<1>11. ASSUME NEW i \in 1 .. 4 PROVE FileTokens(g)[i] = head[i]
  <2>1. i \in 1 .. 5 * n + 5 /\ i \in 1 .. 5 * n + 4 /\ i <= 5 * n + 4 /\ i <= 4
    BY <1>1
  <2>2. QED
    BY <1>9, <1>10, <2>1
<1>12. FileTokens(g)[5 * n + 5] = Token("end", <<>>)
  BY <1>1, <1>2, <1>10
<1>13. ASSUME NEW j \in 1 .. n, NEW c \in 1 .. 5
       PROVE  FileTokens(g)[5 * j + c - 1] = NodeTokens(g.nodes[j])[c]
  <2>1. /\ 5 * j + c - 1 \in 5 .. 5 * n + 4
        /\ 5 * j + c - 1 - 4 = 5 * (j - 1) + c
    BY <1>1
  <2> DEFINE i == 5 * j + c - 1
  <2>2. i \in 1 .. 5 * n + 5 /\ i \in 1 .. 5 * n + 4 /\ i <= 5 * n + 4 /\ ~(i <= 4)
    BY <1>1, <2>1
  <2>3. FileTokens(g)[i] = flat[i - 4]
    <3> HIDE DEF i
    <3>1. QED
      BY <1>9, <1>10, <2>2
  <2>4. FileTokens(g)[5 * j + c - 1] = flat[5 * (j - 1) + c]
    BY <2>1, <2>3
  <2>5. QED
    BY <1>5, <1>7, <2>4
<1>14. QED
  BY <1>8, <1>10, <1>11, <1>12, <1>13 DEF S, n

-----------------------------------------------------------------------------
(* What load_function finds in a file, whole or cut short. *)

\* The file is a prefix of what the last save writes.
IsFile(s, g) ==
    /\ s \in Seq(TokensOf(g))
    /\ Len(s) \in 0 .. Len(FileTokens(g))
    /\ DOMAIN s = 1 .. Len(s)
    /\ \A i \in 1 .. Len(s) : s[i] = FileTokens(g)[i]

LEMMA MaxProperties ==
    ASSUME NEW S, S # {}, NEW b \in Nat, S \subseteq 0 .. b
    PROVE  Max(S) \in S /\ \A x \in S : x <= Max(S)
<1> DEFINE U == {n \in 0 .. b : \A x \in S : x <= n}
<1>1. b \in U /\ U \subseteq Nat
  OBVIOUS
<1>2. PICK m \in U : \A n \in U : m <= n
  BY <1>1, LeastNat
<1>3. m \in S
  <2> SUFFICES ASSUME m \notin S PROVE FALSE
    OBVIOUS
  <2>1. PICK y \in S : TRUE
    OBVIOUS
  <2>2. \A x \in S : x <= m /\ x # m /\ x \in Nat
    OBVIOUS
  <2>3. m - 1 \in 0 .. b /\ \A x \in S : x <= m - 1
    BY <2>1, <2>2
  <2>4. QED
    BY <1>2, <2>3
<1>4. \E x \in S : \A y \in S : x >= y
  BY <1>3
<1>5. Max(S) \in S /\ \A y \in S : Max(S) >= y
  BY <1>4 DEF Max
<1>6. QED
  BY <1>5

LEMMA MinProperties ==
    ASSUME NEW S, S # {}, S \subseteq Nat
    PROVE  Min(S) \in S /\ \A x \in S : Min(S) <= x
<1>1. \E x \in S : \A y \in S : x <= y
  BY LeastNat
<1>2. QED
  BY <1>1 DEF Min

LEMMA MinIs ==
    ASSUME NEW S, S \subseteq Nat, NEW m \in S, \A x \in S : m <= x
    PROVE  Min(S) = m
<1>1. S # {}
  OBVIOUS
<1>2. PICK l \in S : l = Min(S) /\ \A x \in S : l <= x
  BY <1>1, MinProperties
<1>3. l <= m /\ m <= l /\ l \in Nat /\ m \in Nat
  BY <1>2
<1>4. QED
  BY <1>2, <1>3

LEMMA TokenFields ==
    ASSUME NEW x, NEW k, NEW v, x = Token(k, v)
    PROVE  x.key = k /\ x.value = v
BY DEF Token

\* The tokens around those of the nodes: the last of them, e, is none of the
\* first four.
LEMMA OuterKeys ==
    ASSUME NEW i, NEW k, NEW e, e \notin {1, 2, 3, 4},
           \/ i = 1 /\ k = "output_id"
           \/ i = 2 /\ k = "input_ids"
           \/ i = 3 /\ k = "param_ids"
           \/ i = 4 /\ k = "nodes"
           \/ i = e /\ k = "end"
    PROVE  /\ k = "output_id" <=> i = 1
           /\ k = "nodes" <=> i = 4
           /\ k # "open" /\ k # "close"
           /\ k \in Closing <=> (i = 2 \/ i = 3 \/ i = e)
BY DEF Closing

\* The keys of the first len tokens of a graph of n nodes, by their places.
FileKeys(s, len, g, n) ==
    /\ n \in Nat /\ len \in Nat /\ len <= 5 * n + 5 /\ DOMAIN s = 1 .. len
    /\ \A i \in 1 .. len : s[i].key = "output_id" <=> i = 1
    /\ \A i \in 1 .. len : s[i].key = "nodes" <=> i = 4
    /\ \A i \in 1 .. len : s[i].key = "open" => \E j \in 1 .. n : i = 5 * j
    /\ \A i \in 1 .. len : s[i].key = "close" <=> \E j \in 1 .. n : i = 5 * j + 4
    /\ \A i \in 1 .. len :
          s[i].key \in Closing <=>
             (i \in {2, 3, 5 * n + 5} \/ \E j \in 1 .. n : i \in 5 * j + 1 .. 5 * j + 3)
    /\ \A j \in 1 .. n : 5 * j \in 1 .. len =>
          s[5 * j].key = "open" /\ s[5 * j].value = g.nodes[j].op
    /\ \A j \in 1 .. n : 5 * j + 1 \in 1 .. len =>
          s[5 * j + 1].key = "inputs" /\ s[5 * j + 1].value = g.nodes[j].inputs
    /\ 1 \in 1 .. len => s[1].value = g.output_id

LEMMA KeysOfFile ==
    ASSUME NEW g, IsGraph(g), NEW s, IsFile(s, g)
    PROVE  FileKeys(s, Len(s), g, Len(g.nodes))
<1> DEFINE n == Len(g.nodes)
           F == FileTokens(g)
<1>1. n \in Nat
  BY DEF IsGraph
<1>2. /\ Len(F) = 5 * n + 5
      /\ F[1] = Token("output_id", g.output_id)
      /\ F[2] = Token("input_ids", g.input_ids)
      /\ F[3] = Token("param_ids", g.param_ids)
      /\ F[4] = Token("nodes", <<>>)
      /\ F[5 * n + 5] = Token("end", <<>>)
      /\ \A j \in 1 .. n : \A c \in 1 .. 5 : F[5 * j + c - 1] = NodeTokens(g.nodes[j])[c]
  BY FileLayout
<1> HIDE DEF F
<1>3. Len(s) \in Nat /\ Len(s) <= 5 * n + 5 /\ DOMAIN s = 1 .. Len(s)
      /\ \A i \in 1 .. Len(s) : s[i] = F[i]
  BY <1>1, <1>2 DEF IsFile, F
<1>4. ASSUME NEW j \in 1 .. n
      PROVE  /\ F[5 * j] = Token("open", g.nodes[j].op)
             /\ F[5 * j + 1] = Token("inputs", g.nodes[j].inputs)
             /\ F[5 * j + 2] = Token("input_shapes", g.nodes[j].input_shapes)
             /\ F[5 * j + 3] = Token("output_shapes", g.nodes[j].output_shapes)
             /\ F[5 * j + 4] = Token("close", g.nodes[j].dtype)
  <2>1. \A c \in 1 .. 5 : F[5 * j + c - 1] = NodeTokens(g.nodes[j])[c]
    BY <1>2
  <2>2. /\ F[5 * j + 1 - 1] = NodeTokens(g.nodes[j])[1]
        /\ F[5 * j + 2 - 1] = NodeTokens(g.nodes[j])[2]
        /\ F[5 * j + 3 - 1] = NodeTokens(g.nodes[j])[3]
        /\ F[5 * j + 4 - 1] = NodeTokens(g.nodes[j])[4]
        /\ F[5 * j + 5 - 1] = NodeTokens(g.nodes[j])[5]
    BY <2>1
  <2>3. /\ 5 * j + 1 - 1 = 5 * j /\ 5 * j + 2 - 1 = 5 * j + 1 /\ 5 * j + 3 - 1 = 5 * j + 2
        /\ 5 * j + 4 - 1 = 5 * j + 3 /\ 5 * j + 5 - 1 = 5 * j + 4
    BY <1>1
  <2>4. QED
    BY <2>2, <2>3 DEF NodeTokens
<1>5. ASSUME NEW i \in 1 .. 5 * n + 5
      PROVE  \/ i \in 1 .. 4 \/ i = 5 * n + 5
             \/ \E j \in 1 .. n : i \in {5 * j, 5 * j + 1, 5 * j + 2, 5 * j + 3, 5 * j + 4}
  <2>1. CASE i \in 5 .. 5 * n + 4
    <3>1. i \div 5 \in 1 .. n
      BY <1>1, <2>1
    <3>2. i \in {5 * (i \div 5), 5 * (i \div 5) + 1, 5 * (i \div 5) + 2,
                 5 * (i \div 5) + 3, 5 * (i \div 5) + 4}
      BY <1>1, <2>1
    <3>3. QED
      BY <3>1, <3>2
  <2>2. QED
    BY <1>1, <2>1
<1> DEFINE Opens(i) == \E j \in 1 .. n : i = 5 * j
           Ends(i) == \E j \in 1 .. n : i = 5 * j + 4
           Inside(i) == \E j \in 1 .. n : i \in 5 * j + 1 .. 5 * j + 3
           Key(i) == s[i].key
<1>6. ASSUME NEW i \in DOMAIN s
      PROVE  /\ Key(i) = "output_id" <=> i = 1
             /\ Key(i) = "nodes" <=> i = 4
             /\ Key(i) = "open" => Opens(i)
             /\ Key(i) = "close" <=> Ends(i)
             /\ Key(i) \in Closing <=> (i = 2 \/ i = 3 \/ i = 5 * n + 5 \/ Inside(i))
  <2>1. i \in 1 .. 5 * n + 5 /\ s[i] = F[i]
    BY <1>1, <1>3
  <2>2. CASE i \in 1 .. 4 \/ i = 5 * n + 5
    <3>1. ~Opens(i) /\ ~Ends(i) /\ ~Inside(i)
      <4>1. ASSUME NEW j \in 1 .. n
            PROVE  i # 5 * j /\ i # 5 * j + 4 /\ ~(5 * j + 1 <= i /\ i <= 5 * j + 3)
        BY <1>1, <2>1, <2>2
      <4>2. QED
        BY <2>1, <4>1
    <3>2. \/ i = 1 /\ Key(i) = "output_id"
          \/ i = 2 /\ Key(i) = "input_ids"
          \/ i = 3 /\ Key(i) = "param_ids"
          \/ i = 4 /\ Key(i) = "nodes"
          \/ i = 5 * n + 5 /\ Key(i) = "end"
      <4>1. i = 1 \/ i = 2 \/ i = 3 \/ i = 4 \/ i = 5 * n + 5
        BY <2>2
      <4>2. /\ F[1].key = "output_id" /\ F[2].key = "input_ids" /\ F[3].key = "param_ids"
            /\ F[4].key = "nodes" /\ F[5 * n + 5].key = "end"
        BY <1>2, TokenFields
      <4>3. Key(i) = F[i].key
        BY <2>1
      <4> HIDE DEF n, Key
      <4>4. QED
        BY <4>1, <4>2, <4>3
    <3>3. 5 * n + 5 \notin {1, 2, 3, 4}
      BY <1>1
    <3> HIDE DEF Opens, Ends, Inside, Key, n
    <3>4. /\ Key(i) = "output_id" <=> i = 1
          /\ Key(i) = "nodes" <=> i = 4
          /\ Key(i) # "open" /\ Key(i) # "close"
          /\ Key(i) \in Closing <=> (i = 2 \/ i = 3 \/ i = 5 * n + 5)
      BY <3>2, <3>3, OuterKeys
    <3>5. QED
      BY <3>1, <3>4
  <2>3. ASSUME NEW j \in 1 .. n,
               i \in {5 * j, 5 * j + 1, 5 * j + 2, 5 * j + 3, 5 * j + 4}
        PROVE  /\ Key(i) = "output_id" <=> i = 1
               /\ Key(i) = "nodes" <=> i = 4
               /\ Key(i) = "open" => Opens(i)
               /\ Key(i) = "close" <=> Ends(i)
               /\ Key(i) \in Closing <=> (i = 2 \/ i = 3 \/ i = 5 * n + 5 \/ Inside(i))
    <3>1. i # 1 /\ i # 2 /\ i # 3 /\ i # 4 /\ i # 5 * n + 5
      BY <1>1, <2>3
    <3>2. /\ i = 5 * j => Opens(i) /\ ~Ends(i) /\ ~Inside(i)
          /\ i \in {5 * j + 1, 5 * j + 2, 5 * j + 3} => ~Ends(i) /\ Inside(i)
          /\ i = 5 * j + 4 => Ends(i) /\ ~Inside(i)
      <4>1. ASSUME NEW k \in 1 .. n
            PROVE  /\ i = 5 * k + 4 => i = 5 * j + 4
                   /\ i \in 5 * k + 1 .. 5 * k + 3 =>
                         i # 5 * j /\ i # 5 * j + 4
        BY <1>1, <2>3
      <4>2. j \in Int
        OBVIOUS
      <4>3. Ends(i) => i = 5 * j + 4
        BY <4>1
      <4>4. Inside(i) => i # 5 * j /\ i # 5 * j + 4
        BY <4>1
      <4>5. i \in {5 * j + 1, 5 * j + 2, 5 * j + 3} => i \in 5 * j + 1 .. 5 * j + 3
        BY <4>2
      <4>6. i # 5 * j + 4 => ~Ends(i)
        BY <4>3
      <4>7. i \in {5 * j, 5 * j + 1, 5 * j + 2, 5 * j + 3} => i # 5 * j + 4
        BY <4>2
      <4> HIDE DEF Ends
      <4>8. i = 5 * j + 4 => Ends(i)
        BY DEF Ends
      <4>9. QED
        BY <4>4, <4>5, <4>6, <4>7, <4>8
    <3>3. \/ i = 5 * j /\ Key(i) = "open"
          \/ i = 5 * j + 1 /\ Key(i) = "inputs"
          \/ i = 5 * j + 2 /\ Key(i) = "input_shapes"
          \/ i = 5 * j + 3 /\ Key(i) = "output_shapes"
          \/ i = 5 * j + 4 /\ Key(i) = "close"
      <4>1. /\ F[5 * j].key = "open" /\ F[5 * j + 1].key = "inputs"
            /\ F[5 * j + 2].key = "input_shapes" /\ F[5 * j + 3].key = "output_shapes"
            /\ F[5 * j + 4].key = "close"
        <5>1. /\ F[5 * j] = Token("open", g.nodes[j].op)
              /\ F[5 * j + 1] = Token("inputs", g.nodes[j].inputs)
              /\ F[5 * j + 2] = Token("input_shapes", g.nodes[j].input_shapes)
              /\ F[5 * j + 3] = Token("output_shapes", g.nodes[j].output_shapes)
              /\ F[5 * j + 4] = Token("close", g.nodes[j].dtype)
          BY <1>4
        <5>2. QED
          BY <5>1, TokenFields
      <4>2. Key(i) = F[i].key
        BY <2>1
      <4> HIDE DEF Key
      <4>3. QED
        BY <2>3, <4>1, <4>2
    <3> DEFINE e == 5 * n + 5
    <3> HIDE DEF Opens, Ends, Inside, Key
    <3>4. \/ Opens(i) /\ ~Ends(i) /\ ~Inside(i) /\ Key(i) = "open"
          \/ ~Ends(i) /\ Inside(i)
             /\ Key(i) \in {"inputs", "input_shapes", "output_shapes"}
          \/ Ends(i) /\ ~Inside(i) /\ Key(i) = "close"
      BY <3>2, <3>3
    <3>5. i # 1 /\ i # 2 /\ i # 3 /\ i # 4 /\ i # e
      BY <3>1
    <3> HIDE DEF e, n
    <3>6. /\ Key(i) # "output_id" /\ Key(i) # "nodes"
          /\ Key(i) = "open" => Opens(i)
          /\ Key(i) = "close" <=> Ends(i)
          /\ Key(i) \in Closing <=> Inside(i)
      BY <3>4 DEF Closing
    <3>7. QED
      BY <3>5, <3>6 DEF e
  <2>4. QED
    <3> HIDE DEF Opens, Ends, Inside, Key
    <3>1. QED
      BY <1>5, <2>1, <2>2, <2>3
<1>7. ASSUME NEW j \in 1 .. n
      PROVE  /\ 5 * j \in DOMAIN s => s[5 * j].key = "open" /\ s[5 * j].value = g.nodes[j].op
             /\ 5 * j + 1 \in DOMAIN s =>
                   s[5 * j + 1].key = "inputs" /\ s[5 * j + 1].value = g.nodes[j].inputs
  <2>1. /\ F[5 * j].key = "open" /\ F[5 * j].value = g.nodes[j].op
        /\ F[5 * j + 1].key = "inputs" /\ F[5 * j + 1].value = g.nodes[j].inputs
    <3>1. /\ F[5 * j] = Token("open", g.nodes[j].op)
          /\ F[5 * j + 1] = Token("inputs", g.nodes[j].inputs)
      BY <1>4
    <3>2. QED
      BY <3>1, TokenFields
  <2>2. QED
    BY <1>3, <2>1
<1>8. 1 \in DOMAIN s => s[1].value = g.output_id
  BY <1>2, <1>3, TokenFields
<1>9. QED
  <2> DEFINE len == Len(s)
  <2>1. len \in Nat /\ len <= 5 * n + 5 /\ DOMAIN s = 1 .. len
    BY <1>3
  <2>2. /\ \A i \in 1 .. len :
              /\ s[i].key = "output_id" <=> i = 1
              /\ s[i].key = "nodes" <=> i = 4
              /\ s[i].key = "open" => Opens(i)
              /\ s[i].key = "close" <=> Ends(i)
              /\ s[i].key \in Closing <=> (i \in {2, 3, 5 * n + 5} \/ Inside(i))
    <3> HIDE DEF Opens, Ends, Inside, n, len
    <3>1. QED
      BY <1>6, <2>1
  <2>3. /\ \A j \in 1 .. n : 5 * j \in 1 .. len =>
              s[5 * j].key = "open" /\ s[5 * j].value = g.nodes[j].op
        /\ \A j \in 1 .. n : 5 * j + 1 \in 1 .. len =>
              s[5 * j + 1].key = "inputs" /\ s[5 * j + 1].value = g.nodes[j].inputs
        /\ 1 \in 1 .. len => s[1].value = g.output_id
    BY <1>7, <1>8, <2>1
  <2> HIDE DEF len, n
  <2>4. FileKeys(s, len, g, n)
    BY <1>1, <2>1, <2>2, <2>3 DEF FileKeys
  <2>5. QED
    BY <2>4 DEF len, n

\* A body runs from the key of the node list to a place e, the end of a whole
\* file.  In a file cut short e lies between the two braces of a node, unless
\* there is no node.
IsBody(body, s, e) ==
    /\ Len(body) = e - 3 /\ DOMAIN body = 1 .. e - 3
    /\ \A i \in 1 .. e - 3 : body[i] = s[i + 3]

IsSeqOf(s, S, len) == s \in Seq(S) /\ Len(s) = len

LEMMA BodyOfFile ==
    ASSUME NEW g, NEW n, NEW len, NEW s, FileKeys(s, len, g, n), len >= 4,
           NEW S, IsSeqOf(s, S, len)
    PROVE  \E e \in 4 .. len :
              /\ IsBody(BodyOf(s), s, e)
              /\ len = 5 * n + 5 => e = len
              /\ len # 5 * n + 5 =>
                    \/ e = 4 /\ len = 4
                    \/ \E j \in 1 .. n : 5 * j <= e /\ e < 5 * j + 4
<1> DEFINE C == Where(s, Closing) \cup {0}
           last == Max(C)
           e == IF last > 4 THEN last ELSE len
<1>1. n \in Nat /\ len \in Nat /\ DOMAIN s = 1 .. len /\ len <= 5 * n + 5
      /\ \A i \in 1 .. len : s[i].key = "nodes" <=> i = 4
  BY DEF FileKeys
<1>2. Where(s, {"nodes"}) = {4}
  BY <1>1 DEF Where
<1>3. Max({4}) = 4
  <2>1. {4} # {} /\ {4} \subseteq 0 .. 4 /\ 4 \in Nat
    OBVIOUS
  <2>2. Max({4}) \in {4}
    BY <2>1, MaxProperties
  <2>3. QED
    BY <2>2
<1>4. last \in C /\ (\A x \in C : x <= last) /\ last \in 0 .. len
  <2>1. C # {} /\ C \subseteq 0 .. len
    BY <1>1 DEF Where
  <2> HIDE DEF C
  <2>2. QED
    BY <1>1, <2>1, MaxProperties
<1>5. e \in 4 .. len
  <2> HIDE DEF last
  <2>1. QED
    BY <1>1, <1>4
<1>6. BodyOf(s) = SubSeq(s, 4, e)
  <2>1. Len(s) = len
    BY DEF IsSeqOf
  <2>2. QED
    BY <1>2, <1>3, <2>1 DEF BodyOf
<1>7. IsBody(BodyOf(s), s, e)
  <2> HIDE DEF e
  <2>1. \A i \in 4 .. e : s[i] \in S
    BY <1>1, <1>5, ElementOfSeq DEF IsSeqOf
  <2>2. /\ SubSeq(s, 4, e) \in Seq(S)
        /\ Len(SubSeq(s, 4, e)) = e - 4 + 1
        /\ \A i \in 1 .. e - 4 + 1 : SubSeq(s, 4, e)[i] = s[4 + i - 1]
    BY <1>1, <1>5, <2>1, SubSeqProperties
  <2>3. e - 4 + 1 = e - 3 /\ \A i \in 1 .. e - 3 : 4 + i - 1 = i + 3
    BY <1>1, <1>5
  <2>4. DOMAIN SubSeq(s, 4, e) = 1 .. e - 3
    BY <2>2, <2>3, LenProperties
  <2>5. QED
    BY <1>6, <2>2, <2>3, <2>4 DEF IsBody
<1> DEFINE Inside(i) == \E j \in 1 .. n : i \in 5 * j + 1 .. 5 * j + 3
<1>8. \A i \in 1 .. len :
         s[i].key \in Closing <=> (i \in {2, 3, 5 * n + 5} \/ Inside(i))
  BY DEF FileKeys
<1>9. C = {i \in 1 .. len : s[i].key \in Closing} \cup {0}
  BY <1>1 DEF Where
<1> HIDE DEF C, last, e
<1>10. ASSUME len = 5 * n + 5 PROVE e = len
  <2>1. len \in 1 .. len
    BY <1>1, <1>10
  <2>2. len \in C
    BY <1>8, <1>9, <1>10, <2>1
  <2>3. QED
    BY <1>1, <1>4, <2>2 DEF e
<1>11. ASSUME len # 5 * n + 5, ~(e = 4 /\ len = 4)
       PROVE  \E j \in 1 .. n : 5 * j <= e /\ e < 5 * j + 4
  <2>1. CASE last > 4
    <3>1. last \in 1 .. len /\ s[last].key \in Closing
      BY <1>1, <1>4, <1>9, <2>1
    <3>2. last \notin {2, 3, 5 * n + 5}
      BY <1>1, <1>11, <2>1, <3>1
    <3>3. Inside(last) /\ e = last
      <4>1. Inside(last)
        <5> HIDE DEF Inside
        <5>1. QED
          BY <1>8, <3>1, <3>2
      <4>2. QED
        BY <2>1, <4>1 DEF e
    <3>4. QED
      BY <1>1, <3>3
  <2>2. CASE ~(last > 4)
    <3>1. e = len /\ len >= 5 /\ 1 \in 1 .. n
      <4>1. e = len
        BY <2>2 DEF e
      <4>2. len # 4 /\ len # 5 * n + 5
        BY <1>11, <4>1
      <4>3. QED
        BY <1>1, <4>1, <4>2
    <3>2. CASE len >= 6
      <4>1. 6 \in 1 .. len /\ 6 \in 5 * 1 + 1 .. 5 * 1 + 3
        BY <1>1, <3>2
      <4>2. 6 \in C
        BY <1>8, <1>9, <3>1, <4>1
      <4>3. QED
        BY <1>1, <1>4, <2>2, <4>2
    <3>3. CASE ~(len >= 6)
      <4>1. 5 * 1 <= e /\ e < 5 * 1 + 4
        BY <1>1, <3>1, <3>3
      <4>2. QED
        BY <3>1, <4>1
    <3>4. QED
      BY <3>2, <3>3
  <2>3. QED
    BY <2>1, <2>2
<1>12. QED
  BY <1>5, <1>7, <1>10, <1>11

\* The objects of a whole file.
HasObjects(body, g, n) ==
    /\ DOMAIN body = 1 .. 5 * n + 2 /\ Len(body) = 5 * n + 2
    /\ \A i : i \in Where(body, {"open"}) <=> \E j \in 1 .. n : i = 5 * j - 3
    /\ \A i : i \in Where(body, {"close"}) <=> \E j \in 1 .. n : i = 5 * j + 1
    /\ \A j \in 1 .. n :
          /\ body[5 * j - 3].key = "open" /\ body[5 * j - 3].value = g.nodes[j].op
          /\ body[5 * j - 2].key = "inputs" /\ body[5 * j - 2].value = g.nodes[j].inputs

LEMMA WholeBody ==
    ASSUME NEW g, NEW n, NEW len, NEW s, FileKeys(s, len, g, n), len = 5 * n + 5,
           NEW S, IsSeqOf(s, S, len)
    PROVE  HasObjects(BodyOf(s), g, n)
<1> DEFINE body == BodyOf(s)
<1>0. FileKeys(s, 5 * n + 5, g, n)
  OBVIOUS
<1>1. n \in Nat /\ 5 * n + 5 >= 4
  BY DEF FileKeys
<1>2. IsBody(body, s, 5 * n + 5)
  <2>1. PICK e \in 4 .. len : IsBody(BodyOf(s), s, e) /\ (len = 5 * n + 5 => e = len)
    BY <1>1, BodyOfFile
  <2>2. QED
    BY <2>1
<1> HIDE DEF body
<1>3. /\ DOMAIN body = 1 .. 5 * n + 2
      /\ Len(body) = 5 * n + 2
      /\ \A i \in 1 .. 5 * n + 2 : body[i] = s[i + 3]
  <2> DEFINE e == 5 * n + 5
  <2>1. e - 3 = 5 * n + 2
    BY <1>1
  <2> HIDE DEF e
  <2>2. IsBody(body, s, e)
    BY <1>2 DEF e
  <2>3. QED
    BY <2>1, <2>2 DEF IsBody
<1>4. /\ \A i \in 1 .. 5 * n + 5 : s[i].key = "open" => \E j \in 1 .. n : i = 5 * j
      /\ \A i \in 1 .. 5 * n + 5 : s[i].key = "close" <=> \E j \in 1 .. n : i = 5 * j + 4
      /\ \A j \in 1 .. n : 5 * j \in 1 .. 5 * n + 5 =>
            s[5 * j].key = "open" /\ s[5 * j].value = g.nodes[j].op
      /\ \A j \in 1 .. n : 5 * j + 1 \in 1 .. 5 * n + 5 =>
            s[5 * j + 1].key = "inputs" /\ s[5 * j + 1].value = g.nodes[j].inputs
  BY <1>0 DEF FileKeys
<1>5. ASSUME NEW j \in 1 .. n
      PROVE  /\ 5 * j - 3 \in 1 .. 5 * n + 2 /\ 5 * j - 2 \in 1 .. 5 * n + 2
             /\ 5 * j + 1 \in 1 .. 5 * n + 2
             /\ body[5 * j - 3] = s[5 * j] /\ body[5 * j - 2] = s[5 * j + 1]
             /\ body[5 * j + 1] = s[5 * j + 4]
             /\ 5 * j \in 1 .. 5 * n + 5 /\ 5 * j + 1 \in 1 .. 5 * n + 5
             /\ 5 * j + 4 \in 1 .. 5 * n + 5
  <2>1. /\ 5 * j - 3 \in 1 .. 5 * n + 2 /\ 5 * j - 2 \in 1 .. 5 * n + 2
        /\ 5 * j + 1 \in 1 .. 5 * n + 2
        /\ 5 * j \in 1 .. 5 * n + 5 /\ 5 * j + 1 \in 1 .. 5 * n + 5
        /\ 5 * j + 4 \in 1 .. 5 * n + 5
    BY <1>1
  <2>2. /\ body[5 * j - 3] = s[5 * j - 3 + 3] /\ body[5 * j - 2] = s[5 * j - 2 + 3]
        /\ body[5 * j + 1] = s[5 * j + 1 + 3]
    BY <1>3, <2>1
  <2>3. 5 * j - 3 + 3 = 5 * j /\ 5 * j - 2 + 3 = 5 * j + 1 /\ 5 * j + 1 + 3 = 5 * j + 4
    BY <1>1
  <2>4. QED
    BY <2>1, <2>2, <2>3
<1>6. ASSUME NEW j \in 1 .. n
      PROVE  /\ body[5 * j - 3].key = "open" /\ body[5 * j - 3].value = g.nodes[j].op
             /\ body[5 * j - 2].key = "inputs" /\ body[5 * j - 2].value = g.nodes[j].inputs
             /\ body[5 * j + 1].key = "close"
  <2>1. /\ s[5 * j].key = "open" /\ s[5 * j].value = g.nodes[j].op
        /\ s[5 * j + 1].key = "inputs" /\ s[5 * j + 1].value = g.nodes[j].inputs
        /\ s[5 * j + 4].key = "close"
    BY <1>4, <1>5
  <2>2. QED
    BY <1>5, <2>1
<1>7. ASSUME NEW i \in 1 .. 5 * n + 2
      PROVE  /\ body[i].key = "open" => \E j \in 1 .. n : i = 5 * j - 3
             /\ body[i].key = "close" => \E j \in 1 .. n : i = 5 * j + 1
  <2>1. i + 3 \in 1 .. 5 * n + 5 /\ body[i] = s[i + 3]
    BY <1>1, <1>3
  <2>2. ASSUME body[i].key = "open" PROVE \E j \in 1 .. n : i = 5 * j - 3
    <3>1. PICK j \in 1 .. n : i + 3 = 5 * j
      BY <1>4, <2>1, <2>2
    <3>2. i = 5 * j - 3
      BY <1>1, <3>1
    <3>3. QED
      BY <3>2
  <2>3. ASSUME body[i].key = "close" PROVE \E j \in 1 .. n : i = 5 * j + 1
    <3>1. PICK j \in 1 .. n : i + 3 = 5 * j + 4
      BY <1>4, <2>1, <2>3
    <3>2. i = 5 * j + 1
      BY <1>1, <3>1
    <3>3. QED
      BY <3>2
  <2>4. QED
    BY <2>2, <2>3
<1>8. \A i : i \in Where(body, {"open"}) <=> \E j \in 1 .. n : i = 5 * j - 3
  BY <1>3, <1>5, <1>6, <1>7 DEF Where
<1>9. \A i : i \in Where(body, {"close"}) <=> \E j \in 1 .. n : i = 5 * j + 1
  BY <1>3, <1>5, <1>6, <1>7 DEF Where
<1>10. QED
  BY <1>3, <1>6, <1>8, <1>9 DEF HasObjects, body

\* The objects of a file cut short: none, or one that nothing closes and that
\* no closed object follows.
LEMMA TornBody ==
    ASSUME NEW g, NEW n, NEW len, NEW s, FileKeys(s, len, g, n), len >= 4,
           len # 5 * n + 5, NEW S, IsSeqOf(s, S, len)
    PROVE  /\ DOMAIN BodyOf(s) \subseteq 1 .. len
           /\ \/ Where(BodyOf(s), {"open"}) = {} /\ Where(s, {"open"}) = {}
              \/ \E o \in Where(BodyOf(s), {"open"}) :
                    \A c \in Where(BodyOf(s), {"close"}) : c < o
<1> DEFINE body == BodyOf(s)
<1>1. n \in Nat /\ len \in Nat
  BY DEF FileKeys
<1>2. PICK e \in 4 .. len :
         /\ IsBody(body, s, e)
         /\ (e = 4 /\ len = 4) \/ \E j \in 1 .. n : 5 * j <= e /\ e < 5 * j + 4
  BY BodyOfFile
<1> HIDE DEF body
<1>3. /\ DOMAIN body = 1 .. e - 3 /\ e \in Nat
      /\ \A i \in 1 .. e - 3 : i + 3 \in 4 .. e /\ body[i] = s[i + 3]
  <2>1. e \in Nat
    BY <1>1, <1>2
  <2>2. DOMAIN body = 1 .. e - 3 /\ \A i \in 1 .. e - 3 : body[i] = s[i + 3]
    BY <1>2 DEF IsBody
  <2>3. \A i \in 1 .. e - 3 : i + 3 \in 4 .. e
    BY <2>1
  <2>4. QED
    BY <2>1, <2>2, <2>3
<1>4. /\ \A i \in 1 .. len : s[i].key = "nodes" <=> i = 4
      /\ \A i \in 1 .. len : s[i].key = "close" <=> \E j \in 1 .. n : i = 5 * j + 4
      /\ \A j \in 1 .. n : 5 * j \in 1 .. len => s[5 * j].key = "open"
  BY DEF FileKeys
<1>5. CASE e = 4 /\ len = 4
  <2>0. Where(s, {"open"}) = {}
    <3>1. /\ DOMAIN s = 1 .. 4
          /\ \A i \in 1 .. len : s[i].key = "open" => \E j \in 1 .. n : i = 5 * j
      BY <1>5 DEF FileKeys
    <3>2. \A i \in 1 .. 4 : \A j \in 1 .. n : i # 5 * j
      BY <1>1
    <3>3. QED
      BY <1>5, <3>1, <3>2 DEF Where
  <2>1. \A i \in 1 .. 1 : i = 1
    OBVIOUS
  <2>2. body[1] = s[4] /\ s[4].key = "nodes" /\ DOMAIN body = 1 .. 1
    BY <1>1, <1>2, <1>3, <1>4, <1>5
  <2>3. Where(body, {"open"}) = {}
    BY <2>1, <2>2 DEF Where
  <2>4. DOMAIN body \subseteq 1 .. len
    BY <1>1, <2>2
  <2>5. QED
    BY <2>0, <2>3, <2>4 DEF body
<1>6. CASE ~(e = 4 /\ len = 4)
  <2>1. PICK j \in 1 .. n : 5 * j <= e /\ e < 5 * j + 4
    BY <1>2, <1>6
  <2> DEFINE o == 5 * j - 3
  <2>2. /\ o \in 1 .. e - 3 /\ o + 3 = 5 * j /\ 5 * j \in 1 .. len
    BY <1>1, <1>2, <2>1
  <2>3. body[o].key = "open"
    BY <1>3, <1>4, <2>2
  <2>4. ASSUME NEW c \in 1 .. e - 3, body[c].key = "close" PROVE c < o
    <3>1. c + 3 \in 1 .. len /\ s[c + 3].key = "close"
      BY <1>1, <1>2, <1>3, <2>4
    <3>2. PICK k \in 1 .. n : c + 3 = 5 * k + 4
      BY <1>4, <3>1
    <3>3. QED
      BY <1>1, <1>2, <2>1, <3>2
  <2> HIDE DEF o
  <2>5. o \in Where(body, {"open"}) /\ \A c \in Where(body, {"close"}) : c < o
    BY <1>3, <2>2, <2>3, <2>4 DEF Where
  <2>6. DOMAIN body \subseteq 1 .. len
    BY <1>1, <1>2, <1>3
  <2>7. QED
    BY <2>5, <2>6 DEF body
<1>7. QED
  BY <1>5, <1>6

-----------------------------------------------------------------------------
(***************************************************************************)
(* The inductive invariant of the JSON file.                               *)
(***************************************************************************)

\* The file is what is left of the last save, the rest of which is in the
\* stream while it is written.
FileInv ==
    /\ saved \in Graphs \cup {NoGraph}
    /\ file = NoFile \/ IsFile(file, saved)
    /\ pc = "savingGraph" =>
          /\ IsFile(file, saved) /\ pending \in Seq(TokensOf(saved))
          /\ Len(file) + Len(pending) = Len(FileTokens(saved))
          /\ \A i \in 1 .. Len(pending) : pending[i] = FileTokens(saved)[Len(file) + i]

IsSeq(s) == s \in Seq({s[i] : i \in DOMAIN s})

\* The first nodes of g are restored in nodes.
Restored(nodes, g) ==
    \A j \in 1 .. Len(nodes) :
       nodes[j].op = g.nodes[j].op /\ nodes[j].inputs = g.nodes[j].inputs

\* The scan of a whole file is at the object after those it has loaded;
WholeScan(nodes, p, g, n) ==
    /\ Len(nodes) <= n
    /\ p = IF Len(nodes) = 0 THEN 1 ELSE 5 * Len(nodes) + 2
    /\ Restored(nodes, g)

\* the scan of a file cut short is never past the object that nothing closes.
TornScan(nodes, p, body, s) ==
    \/ Where(body, {"open"}) = {} /\ Where(s, {"open"}) = {} /\ nodes = <<>> /\ p = 1
    \/ \E o \in Where(body, {"open"}) :
          (\A c \in Where(body, {"close"}) : c < o) /\ p \in 1 .. o

Scanning == pc \in {"loading", "exhausted"}

ScanInv ==
    Scanning =>
       /\ file # NoFile /\ 4 <= Len(file)
       /\ result.output_id = saved.output_id
       /\ Len(file) = 5 * Len(saved.nodes) + 5 =>
             pc = "loading" /\ WholeScan(result.nodes, pos, saved, Len(saved.nodes))
       /\ Len(file) # 5 * Len(saved.nodes) + 5 => TornScan(result.nodes, pos, BodyOf(file), file)

\* What has been loaded is the graph, or nothing when the file holds no node.
LoadedOK ==
    pc = "loaded" =>
       /\ file # NoFile /\ 4 <= Len(file)
       /\ result.output_id = saved.output_id
       /\ Len(file) = 5 * Len(saved.nodes) + 5 =>
             Structure(result.nodes) = Structure(saved.nodes)
       /\ Len(file) # 5 * Len(saved.nodes) + 5 =>
             result.nodes = <<>> /\ Where(file, {"open"}) = {}

LoadInv ==
    /\ ~Scanning => pos = 1
    /\ IsGraph(result) /\ IsSeq(result.nodes) /\ Len(result.nodes) <= MaxLoaded
    /\ ScanInv

GraphInv == FileInv /\ LoadInv /\ LoadedOK

LEMMA GraphsAreGraphs ==
    ASSUME NEW g \in Graphs \cup {NoGraph}
    PROVE  IsGraph(g) /\ Len(g.nodes) <= MaxLoaded
<1>1. IsGraph(NoGraph) /\ Len(NoGraph.nodes) = 0
  BY DEF IsGraph, NoGraph
<1>2. QED
  BY <1>1, SerializerAssumption

LEMMA OpenedFile ==
    ASSUME NEW g, IsGraph(g)
    PROVE  /\ IsFile(<<>>, g) /\ FileTokens(g) \in Seq(TokensOf(g))
           /\ Len(<<>>) = 0 /\ Len(FileTokens(g)) \in Nat
<1>1. FileTokens(g) \in Seq(TokensOf(g)) /\ Len(FileTokens(g)) \in Nat
  BY FileLayout, LenProperties
<1>2. <<>> \in Seq(TokensOf(g)) /\ Len(<<>>) = 0 /\ DOMAIN <<>> = 1 .. 0
  OBVIOUS
<1>3. QED
  BY <1>1, <1>2 DEF IsFile

LEMMA WriteTokenStep ==
    ASSUME FileInv, WriteToken
    PROVE  FileInv'
<1> DEFINE S == TokensOf(saved)
           F == FileTokens(saved)
           p == Len(pending)
           l == Len(file)
<1>1. /\ pc = "savingGraph" /\ pending # <<>> /\ UNCHANGED <<pc, saved>>
      /\ file' = Append(file, Head(pending)) /\ pending' = Tail(pending)
  BY DEF WriteToken
<1>2. /\ saved \in Graphs \cup {NoGraph} /\ IsFile(file, saved) /\ pending \in Seq(S)
      /\ l + p = Len(F) /\ \A i \in 1 .. p : pending[i] = F[l + i]
  BY <1>1 DEF FileInv
<1>3. /\ file \in Seq(S) /\ l \in Nat /\ p \in Nat \ {0} /\ Len(F) \in Nat
      /\ \A i \in 1 .. l : file[i] = F[i]
  BY <1>1, <1>2, LenProperties, EmptySeq DEF IsFile
<1>4. /\ Head(pending) = F[l + 1] /\ Head(pending) \in S
      /\ Tail(pending) \in Seq(S) /\ Len(Tail(pending)) = p - 1
      /\ \A i \in 1 .. p - 1 : Tail(pending)[i] = pending[i + 1]
  <2>1. Head(pending) = pending[1] /\ pending[1] = F[l + 1]
    BY <1>1, <1>2, <1>3
  <2>2. Head(pending) \in S /\ Tail(pending) \in Seq(S) /\ Len(Tail(pending)) = p - 1
    BY <1>1, <1>2, HeadTailProperties
  <2>3. \A i \in 1 .. Len(Tail(pending)) : Tail(pending)[i] = pending[i + 1]
    BY <1>1, <1>2, HeadTailProperties
  <2>4. QED
    BY <2>1, <2>2, <2>3
<1>5. /\ file' \in Seq(S) /\ Len(file') = l + 1 /\ DOMAIN file' = 1 .. l + 1
      /\ \A i \in 1 .. l : file'[i] = file[i]
      /\ file'[l + 1] = Head(pending)
  BY <1>1, <1>3, <1>4, AppendProperties, LenProperties
<1> HIDE DEF S, F, p, l
<1>6. l + 1 \in 0 .. Len(F) /\ (l + 1) + (p - 1) = Len(F)
  BY <1>2, <1>3
<1>7. ASSUME NEW i \in 1 .. l + 1 PROVE file'[i] = F[i]
  <2>1. CASE i = l + 1
    BY <1>4, <1>5, <2>1
  <2>2. CASE i # l + 1
    <3>1. i \in 1 .. l
      BY <1>3, <2>2
    <3>2. QED
      BY <1>3, <1>5, <3>1
  <2>3. QED
    BY <2>1, <2>2
<1>8. ASSUME NEW i \in 1 .. p - 1 PROVE Tail(pending)[i] = F[l + 1 + i]
  <2>1. i + 1 \in 1 .. p /\ l + (i + 1) = l + 1 + i
    BY <1>3
  <2>2. QED
    BY <1>2, <1>4, <2>1
<1>9. IsFile(file', saved)
  BY <1>5, <1>6, <1>7 DEF IsFile, S, F
<1>10. QED
  BY <1>1, <1>2, <1>4, <1>5, <1>6, <1>8, <1>9 DEF FileInv, S, F

LEMMA FileStep == FileInv /\ [Next]_vars => FileInv'
<1> SUFFICES ASSUME FileInv, [Next]_vars PROVE FileInv'
  OBVIOUS
<1>1. ASSUME NEW g \in Graphs, SaveFunction(g) PROVE FileInv'
  <2>1. file' = <<>> /\ saved' = g /\ pending' = FileTokens(g)
    BY <1>1 DEF SaveFunction
  <2>2. IsGraph(g)
    BY GraphsAreGraphs
  <2>3. \A i \in 1 .. Len(FileTokens(g)) : 0 + i = i
    BY <2>2, OpenedFile
  <2>4. QED
    BY <2>1, <2>2, <2>3, OpenedFile DEF FileInv
<1>2. ASSUME UNCHANGED <<saved, file>>, pc' # "savingGraph" \/ UNCHANGED <<pc, pending>>
      PROVE  FileInv'
  BY <1>2 DEF FileInv
<1>3. CASE \/ \E t \in Tensors : SaveBlob(t)
           \/ WriteElement \/ TearElement \/ SaveReturns \/ Restart \/ LoadFunction \/ LoadNode
           \/ Exhaust \/ LoadReturns
           \/ \E t \in Tensors, m \in Numels : LoadBlob(HashOf(t.data), m)
           \/ UNCHANGED vars
  BY <1>2, <1>3
     DEF SaveBlob, WriteElement, TearElement, SaveReturns, Restart, LoadFunction, LoadNode,
         Exhaust, LoadReturns, LoadBlob, vars, graphVars
<1>4. QED
  BY <1>1, <1>3, WriteTokenStep DEF Next

LEMMA KnownFile ==
    ASSUME FileInv, file # NoFile
    PROVE  /\ FileKeys(file, Len(file), saved, Len(saved.nodes))
           /\ IsSeqOf(file, TokensOf(saved), Len(file))
           /\ IsGraph(saved) /\ Len(saved.nodes) <= MaxLoaded
<1>1. IsGraph(saved) /\ Len(saved.nodes) <= MaxLoaded /\ IsFile(file, saved)
  BY GraphsAreGraphs DEF FileInv
<1>2. QED
  BY <1>1, KeysOfFile DEF IsSeqOf, IsFile

LEMMA AppendToSeq ==
    ASSUME NEW s, IsSeq(s), NEW x
    PROVE  /\ IsSeq(Append(s, x)) /\ Len(s) \in Nat /\ Len(Append(s, x)) = Len(s) + 1
           /\ DOMAIN s = 1 .. Len(s) /\ DOMAIN Append(s, x) = 1 .. Len(s) + 1
           /\ \A i \in 1 .. Len(s) : Append(s, x)[i] = s[i]
           /\ Append(s, x)[Len(s) + 1] = x
<1> DEFINE S == {s[i] : i \in DOMAIN s} \cup {x}
           t == Append(s, x)
<1>1. s \in Seq(S) /\ x \in S
  BY SeqMonotonic DEF IsSeq
<1> HIDE DEF S
<1>2. /\ t \in Seq(S) /\ Len(s) \in Nat /\ Len(t) = Len(s) + 1
      /\ DOMAIN s = 1 .. Len(s)
      /\ \A i \in 1 .. Len(s) : t[i] = s[i]
      /\ t[Len(s) + 1] = x
  BY <1>1, AppendProperties, LenProperties
<1>3. DOMAIN t = 1 .. Len(s) + 1 /\ Len(t) \in Nat /\ t \in [1 .. Len(t) -> S]
  BY <1>2, LenProperties
<1> HIDE DEF t
<1>4. t \in [1 .. Len(t) -> {t[i] : i \in DOMAIN t}]
  BY <1>3
<1>5. IsSeq(t)
  BY <1>3, <1>4, SeqDef DEF IsSeq
<1>6. QED
  BY <1>2, <1>3, <1>5 DEF t

\* The objects from place p on.
Left(body, p) == {i \in Where(body, {"open"}) : i >= p}

\* With k of n nodes loaded, the scan ends if k is n, and else finds node k + 1
\* and goes on behind it.
Finds(left, body, g, k, n) ==
    /\ left = {} <=> k = n
    /\ k # n =>
          /\ Min(left) = 5 * k + 2
          /\ After(body, 5 * k + 2) = 5 * (k + 1) + 2
          /\ LoadedNode(ObjectAt(body, 5 * k + 2)).op = g.nodes[k + 1].op
          /\ LoadedNode(ObjectAt(body, 5 * k + 2)).inputs = g.nodes[k + 1].inputs

LEMMA WholeLoad ==
    ASSUME NEW g, NEW n, NEW len, NEW s, FileKeys(s, len, g, n), len = 5 * n + 5,
           NEW S, IsSeqOf(s, S, len),
           NEW nodes, NEW k \in Nat, k = Len(nodes),
           NEW p, WholeScan(nodes, p, g, n)
    PROVE  Finds(Left(BodyOf(s), p), BodyOf(s), g, k, n)
<1> DEFINE body == BodyOf(s)
           left == Left(body, p)
           i == 5 * k + 2
<1>0. k <= n /\ p = (IF k = 0 THEN 1 ELSE 5 * k + 2)
  BY DEF WholeScan
<1>1. n \in Nat
  BY DEF FileKeys
<1>2. /\ DOMAIN body = 1 .. 5 * n + 2 /\ Len(body) = 5 * n + 2
      /\ \A x : x \in Where(body, {"open"}) <=> \E j \in 1 .. n : x = 5 * j - 3
      /\ \A x : x \in Where(body, {"close"}) <=> \E j \in 1 .. n : x = 5 * j + 1
      /\ \A j \in 1 .. n :
            /\ body[5 * j - 3].key = "open" /\ body[5 * j - 3].value = g.nodes[j].op
            /\ body[5 * j - 2].key = "inputs" /\ body[5 * j - 2].value = g.nodes[j].inputs
  <2>1. HasObjects(body, g, n)
    BY WholeBody
  <2> HIDE DEF body
  <2>2. QED
    BY <2>1 DEF HasObjects
<1>3. \A x : x \in left <=> \E j \in 1 .. n : x = 5 * j - 3 /\ x >= p
  BY <1>2 DEF Left
<1>4. \A j \in 1 .. n : 5 * j - 3 >= p <=> j > k
  BY <1>0, <1>1
<1>5. \A x : x \in left <=> \E j \in 1 .. n : x = 5 * j - 3 /\ j > k
  BY <1>3, <1>4
<1> HIDE DEF body, left
<1>6. ASSUME k # n
      PROVE  /\ left # {} /\ Min(left) = i
             /\ After(body, i) = 5 * (k + 1) + 2
             /\ LoadedNode(ObjectAt(body, i)).op = g.nodes[k + 1].op
             /\ LoadedNode(ObjectAt(body, i)).inputs = g.nodes[k + 1].inputs
  <2>1. /\ k + 1 \in 1 .. n /\ k + 1 > k /\ 5 * (k + 1) - 3 = i /\ 5 * (k + 1) - 2 = i + 1
        /\ 5 * (k + 1) + 1 = i + 4 /\ i \in Nat /\ i + 4 <= 5 * n + 2
    BY <1>0, <1>1, <1>6
  <2>2. i \in left
    BY <1>5, <2>1
  <2>3. \A x \in left : x \in Nat /\ i <= x
    <3>1. \A j \in 1 .. n : j > k => 5 * j - 3 \in Nat /\ i <= 5 * j - 3
      BY <1>1
    <3>2. QED
      BY <1>5, <3>1
  <2>4. Min(left) = i
    <3>1. left # {} /\ left \subseteq Nat
      BY <2>2, <2>3
    <3> HIDE DEF i
    <3>2. QED
      BY <2>2, <2>3, <3>1, MinIs
  <2> DEFINE ends == {j \in Where(body, {"close"}) : j > i}
  <2>5. ends # {} /\ Min(ends) = i + 4
    <3>1. i + 4 \in ends
      <4>1. i + 4 \in Where(body, {"close"})
        BY <1>2, <2>1
      <4>2. i + 4 > i
        BY <2>1
      <4>3. QED
        BY <4>1, <4>2
    <3>2. ASSUME NEW x \in ends PROVE x \in Nat /\ i + 4 <= x
      <4>1. PICK j \in 1 .. n : x = 5 * j + 1
        BY <1>2
      <4>2. x > i
        OBVIOUS
      <4>3. QED
        BY <1>1, <4>1, <4>2
    <3>3. ends # {} /\ ends \subseteq Nat
      BY <3>1, <3>2
    <3> HIDE DEF ends, i
    <3>4. QED
      BY <3>1, <3>2, <3>3, MinIs
  <2>6. After(body, i) = 5 * (k + 1) + 2
    <3>1. After(body, i) = Min(ends) + 1
      BY <2>5 DEF After
    <3>2. QED
      BY <2>1, <2>5, <3>1
  <2> DEFINE object == ObjectAt(body, i)
  <2>7. object = SubSeq(body, i, i + 4)
    <3>1. object = SubSeq(body, i, Min(ends))
      BY <2>5 DEF ObjectAt
    <3>2. QED
      BY <2>5, <3>1
  <2> HIDE DEF i, ends, object
  <2>8. DOMAIN object = 1 .. 5 /\ object[1] = body[i] /\ object[2] = body[i + 1]
    <3> DEFINE T == {body[x] : x \in DOMAIN body}
    <3>1. \A x \in i .. i + 4 : body[x] \in T
      <4>1. \A x \in i .. i + 4 : x \in 1 .. 5 * n + 2
        BY <1>1, <2>1
      <4>2. QED
        BY <1>2, <4>1
    <3> HIDE DEF T
    <3>2. i \in Int /\ i + 4 \in Int /\ i <= i + 4 /\ i + 4 - i + 1 = 5
      BY <2>1
    <3>3. /\ SubSeq(body, i, i + 4) \in Seq(T)
          /\ Len(SubSeq(body, i, i + 4)) = i + 4 - i + 1
          /\ \A x \in 1 .. i + 4 - i + 1 : SubSeq(body, i, i + 4)[x] = body[i + x - 1]
      BY <3>1, <3>2, SubSeqProperties
    <3>4. object \in Seq(T) /\ Len(object) = 5 /\ \A x \in 1 .. 5 : object[x] = body[i + x - 1]
      BY <2>7, <3>2, <3>3
    <3>5. i + 1 - 1 = i /\ i + 2 - 1 = i + 1
      BY <2>1
    <3>6. QED
      BY <3>4, <3>5, LenProperties
  <2>9. /\ object[1].key = "open" /\ object[1].value = g.nodes[k + 1].op
        /\ object[2].key = "inputs" /\ object[2].value = g.nodes[k + 1].inputs
    <3>1. /\ body[5 * (k + 1) - 3].key = "open"
          /\ body[5 * (k + 1) - 3].value = g.nodes[k + 1].op
          /\ body[5 * (k + 1) - 2].key = "inputs"
          /\ body[5 * (k + 1) - 2].value = g.nodes[k + 1].inputs
      BY <1>2, <2>1
    <3>2. QED
      BY <2>1, <2>8, <3>1
  <2> DEFINE inputs == Where(object, {"inputs"})
  <2>10. inputs # {} /\ Min(inputs) = 2
    <3>1. 2 \in inputs /\ inputs \subseteq 1 .. 5 /\ 1 \notin inputs
      BY <2>8, <2>9 DEF Where
    <3>2. inputs # {} /\ inputs \subseteq Nat
      BY <3>1
    <3>3. \A x \in inputs : 2 <= x
      BY <3>1
    <3> HIDE DEF inputs
    <3>4. QED
      BY <3>1, <3>2, <3>3, MinIs
  <2>11. /\ LoadedNode(object).op = object[1].value
         /\ LoadedNode(object).inputs = object[2].value
    BY <2>10 DEF LoadedNode
  <2>12. QED
    BY <2>2, <2>4, <2>6, <2>9, <2>11 DEF object
<1>7. ASSUME k = n PROVE left = {}
  BY <1>1, <1>5, <1>7
<1>8. QED
  BY <1>6, <1>7 DEF Finds, body, left, i

\* load_function before its loop.
LEMMA LoadFunctionStep ==
    ASSUME FileInv, LoadInv, LoadFunction
    PROVE  LoadInv' /\ LoadedOK'
<1>1. UNCHANGED <<saved, file>> /\ pos = 1 /\ IsGraph(result) /\ IsSeq(result.nodes)
      /\ Len(result.nodes) <= MaxLoaded
  BY DEF LoadFunction, Idle, Scanning, LoadInv
<1>2. CASE file = NoFile
  <2>1. pc' = "threw" /\ UNCHANGED <<result, pos>>
    BY <1>2 DEF LoadFunction
  <2>2. QED
    BY <1>1, <2>1 DEF LoadInv, ScanInv, Scanning, LoadedOK
<1>3. CASE file # NoFile
  <2> DEFINE n == Len(saved.nodes)
             len == Len(file)
             found == Where(file, {"output_id"})
  <2>1. FileKeys(file, len, saved, n) /\ IsSeqOf(file, TokensOf(saved), len)
        /\ IsGraph(saved)
    BY <1>3, KnownFile
  <2>2. /\ pos' = 1
        /\ pc' = IF Where(file, {"nodes"}) = {} THEN "threw" ELSE "loading"
        /\ result' = [NoGraph EXCEPT !.output_id =
                         IF found = {} THEN -1 ELSE file[Min(found)].value]
    BY <1>3 DEF LoadFunction
  <2> HIDE DEF n, len
  <2>3. found = IF 1 <= len THEN {1} ELSE {}
    <3>1. len \in Nat /\ DOMAIN file = 1 .. len
          /\ \A i \in 1 .. len : file[i].key = "output_id" <=> i = 1
      BY <2>1 DEF FileKeys
    <3>2. QED
      BY <3>1 DEF Where
  <2>4. 1 <= len => Min(found) = 1 /\ file[1].value = saved.output_id
    <3>1. len \in Nat /\ (1 \in 1 .. len => file[1].value = saved.output_id)
      BY <2>1 DEF FileKeys
    <3>2. 1 <= len => 1 \in 1 .. len
      BY <3>1
    <3>3. Min({1}) = 1
      BY MinIs
    <3> HIDE DEF found
    <3>4. QED
      BY <2>3, <3>1, <3>2, <3>3
  <2> HIDE DEF found
  <2>5. /\ result'.nodes = <<>> /\ DOMAIN result'.nodes = 1 .. 0 /\ Len(result'.nodes) = 0
        /\ result'.output_id \in Int
        /\ 1 <= len => result'.output_id = saved.output_id
    BY <2>1, <2>2, <2>3, <2>4 DEF NoGraph, IsGraph
  <2>6. IsGraph(result') /\ IsSeq(result'.nodes) /\ Len(result'.nodes) <= MaxLoaded
    BY <2>5, SerializerAssumption, EmptySeq DEF IsGraph, IsSeq
  <2>7. ASSUME pc' = "loading" PROVE ScanInv'
    <3>1. PICK x \in DOMAIN file : file[x].key = "nodes"
      BY <2>2, <2>7 DEF Where
    <3>2. len \in Nat /\ DOMAIN file = 1 .. len
          /\ \A i \in 1 .. len : file[i].key = "nodes" <=> i = 4
      BY <2>1 DEF FileKeys
    <3>3. len >= 4 /\ 4 <= len /\ 1 <= len
      BY <3>1, <3>2
    <3>4. len = 5 * n + 5 => WholeScan(result'.nodes, pos', saved, n)
      <4>1. 0 <= n
        BY <2>1 DEF FileKeys
      <4>2. \A j \in 1 .. 0 : FALSE
        OBVIOUS
      <4>3. QED
        BY <2>2, <2>5, <4>1, <4>2 DEF WholeScan, Restored
    <3>5. len # 5 * n + 5 => TornScan(result'.nodes, pos', BodyOf(file), file)
      <4>1. ASSUME len # 5 * n + 5
            PROVE  /\ DOMAIN BodyOf(file) \subseteq 1 .. len
                   /\ \/ Where(BodyOf(file), {"open"}) = {} /\ Where(file, {"open"}) = {}
                      \/ \E o \in Where(BodyOf(file), {"open"}) :
                            \A c \in Where(BodyOf(file), {"close"}) : c < o
        BY <2>1, <3>3, <4>1, TornBody
      <4>2. \A o \in 1 .. len : 1 \in 1 .. o
        BY <3>2
      <4>3. \A o \in Where(BodyOf(file), {"open"}) : o \in DOMAIN BodyOf(file)
        BY DEF Where
      <4>4. QED
        BY <2>2, <2>5, <4>1, <4>2, <4>3 DEF TornScan
    <3>6. saved' = saved /\ file' = file /\ file' # NoFile
      BY <1>1, <1>3
    <3>7. QED
      BY <2>5, <2>7, <3>3, <3>4, <3>5, <3>6 DEF ScanInv, n, len
  <2>8. pos' = 1 /\ pc' \in {"loading", "threw"}
    BY <2>2
  <2>9. pc' = "threw" => ScanInv'
    BY DEF ScanInv, Scanning
  <2>10. QED
    BY <2>6, <2>7, <2>8, <2>9 DEF LoadInv, LoadedOK
<1>4. QED
  BY <1>2, <1>3

LEMMA LoadNodeStep ==
    ASSUME FileInv, LoadInv, LoadNode
    PROVE  LoadInv' /\ LoadedOK'
<1> DEFINE n == Len(saved.nodes)
           len == Len(file)
           body == BodyOf(file)
           i == Min(ObjectsLeft)
           node == LoadedNode(ObjectAt(body, i))
           k == Len(result.nodes)
<1>1. /\ pc = "loading" /\ ObjectsLeft # {} /\ k < MaxLoaded /\ UNCHANGED <<pc, saved, file>>
      /\ result' = [result EXCEPT !.nodes = Append(@, node)]
      /\ pos' = After(body, i)
  BY DEF LoadNode
<1>2. /\ file # NoFile /\ 4 <= len /\ result.output_id = saved.output_id
      /\ len = 5 * n + 5 => WholeScan(result.nodes, pos, saved, n)
      /\ len # 5 * n + 5 => TornScan(result.nodes, pos, body, file)
      /\ IsGraph(result) /\ IsSeq(result.nodes)
  BY <1>1 DEF LoadInv, ScanInv, Scanning
<1>3. /\ FileKeys(file, len, saved, n) /\ IsSeqOf(file, TokensOf(saved), len)
      /\ IsGraph(saved)
  BY <1>2, KnownFile
<1>4. result'.nodes = Append(result.nodes, node) /\ result'.output_id = result.output_id
  BY <1>1, <1>2 DEF IsGraph
<1>5. /\ k \in Nat /\ Len(result'.nodes) = k + 1 /\ IsSeq(result'.nodes)
      /\ DOMAIN result.nodes = 1 .. k /\ DOMAIN result'.nodes = 1 .. k + 1
      /\ \A j \in 1 .. k : result'.nodes[j] = result.nodes[j]
      /\ result'.nodes[k + 1] = node
  BY <1>2, <1>4, AppendToSeq
<1>6. k + 1 <= MaxLoaded
  BY <1>1, <1>5, SerializerAssumption
<1>7. DOMAIN node = {"op", "inputs", "dtype", "input_shapes", "output_shapes"}
  BY DEF LoadedNode
<1>8. ObjectsLeft = {x \in Where(body, {"open"}) : x >= pos}
  BY DEF ObjectsLeft
<1> HIDE DEF n, len, body, k, node
<1>9. IsGraph(result')
  <2>1. ASSUME NEW j \in 1 .. k + 1
        PROVE  DOMAIN result'.nodes[j] =
                  {"op", "inputs", "dtype", "input_shapes", "output_shapes"}
    <3>1. CASE j = k + 1
      BY <1>5, <1>7, <3>1
    <3>2. CASE j # k + 1
      <4>1. j \in 1 .. k
        BY <1>5, <3>2
      <4>2. QED
        BY <1>2, <1>5, <4>1 DEF IsGraph
    <3>3. QED
      BY <3>1, <3>2
  <2>2. k + 1 \in Nat
    BY <1>5
  <2>3. QED
    BY <1>2, <1>4, <1>5, <2>1, <2>2 DEF IsGraph
<1>10. ASSUME len = 5 * n + 5 PROVE WholeScan(result'.nodes, pos', saved, n)
  <2>1. k <= n /\ pos = (IF k = 0 THEN 1 ELSE 5 * k + 2) /\ Restored(result.nodes, saved)
    BY <1>2, <1>10 DEF WholeScan, k
  <2>2. WholeScan(result.nodes, pos, saved, n)
    BY <1>2, <1>10
  <2>3. n \in Nat
    BY <1>3 DEF FileKeys
  <2>4. Finds(ObjectsLeft, BodyOf(file), saved, k, n)
    <3>1. ObjectsLeft = Left(BodyOf(file), pos)
      BY <1>8 DEF body, Left
    <3>2. k = Len(result.nodes)
      BY DEF k
    <3>3. Finds(Left(BodyOf(file), pos), BodyOf(file), saved, k, n)
      BY <1>3, <1>5, <1>10, <2>2, <3>2, WholeLoad
    <3>4. QED
      BY <3>1, <3>3
  <2>5. /\ i = 5 * k + 2 /\ After(body, i) = 5 * (k + 1) + 2 /\ k # n
        /\ node.op = saved.nodes[k + 1].op /\ node.inputs = saved.nodes[k + 1].inputs
    BY <1>1, <2>4 DEF Finds, node, body
  <2>6. Len(result'.nodes) <= n /\ k + 1 # 0
    <3>1. k \in Nat /\ k <= n /\ k # n
      BY <1>5, <2>1, <2>5
    <3>2. k + 1 <= n /\ k + 1 # 0
      BY <2>3, <3>1
    <3>3. Len(result'.nodes) = k + 1
      BY <1>5
    <3>4. QED
      BY <3>2, <3>3
  <2>7. pos' = 5 * (k + 1) + 2
    BY <1>1, <2>5
  <2>8. ASSUME NEW j \in 1 .. k + 1
        PROVE  /\ result'.nodes[j].op = saved.nodes[j].op
               /\ result'.nodes[j].inputs = saved.nodes[j].inputs
    <3>1. CASE j = k + 1
      BY <1>5, <2>5, <3>1
    <3>2. CASE j # k + 1
      <4>1. j \in 1 .. k
        BY <1>5, <3>2
      <4>2. result.nodes[j].op = saved.nodes[j].op
            /\ result.nodes[j].inputs = saved.nodes[j].inputs
        BY <2>1, <4>1 DEF Restored, k
      <4>3. QED
        BY <1>5, <4>1, <4>2
    <3>3. QED
      BY <3>1, <3>2
  <2>9. QED
    BY <1>5, <2>6, <2>7, <2>8 DEF WholeScan, Restored
<1>11. ASSUME len # 5 * n + 5 PROVE TornScan(result'.nodes, pos', BodyOf(file), file)
  <2>1. ObjectsLeft \subseteq Where(body, {"open"})
    BY <1>8
  <2>2. PICK o \in Where(body, {"open"}) :
           (\A c \in Where(body, {"close"}) : c < o) /\ pos \in 1 .. o
    BY <1>1, <1>2, <1>11, <2>1 DEF TornScan
  <2>3. DOMAIN body \subseteq 1 .. len /\ len \in Nat
    <3>1. len \in Nat
      BY <1>3 DEF FileKeys
    <3>2. len >= 4
      BY <1>2, <3>1
    <3>3. QED
      BY <1>3, <1>11, <3>1, <3>2, TornBody DEF body
  <2>4. /\ o \in Nat /\ 1 <= o
        /\ \A x \in Where(body, {"open"}) \cup Where(body, {"close"}) : x \in Nat
    BY <2>2, <2>3 DEF Where
  <2>5. After(body, i) \in 1 .. o
    <3> DEFINE ends == {j \in Where(body, {"close"}) : j > i}
    <3>1. CASE ends = {}
      <4>1. After(body, i) = 1
        BY <3>1 DEF After
      <4>2. QED
        BY <2>4, <4>1
    <3>2. CASE ends # {}
      <4>1. After(body, i) = Min(ends) + 1
        BY <3>2 DEF After
      <4>2. ends \subseteq Nat /\ \A x \in ends : x < o
        BY <2>2, <2>4
      <4> HIDE DEF ends
      <4>3. Min(ends) \in ends
        BY <3>2, <4>2, MinProperties
      <4> DEFINE m == Min(ends)
      <4>4. m \in Nat /\ m < o
        BY <4>2, <4>3
      <4> HIDE DEF m
      <4>5. m + 1 \in 1 .. o
        BY <2>4, <4>4
      <4>6. QED
        BY <4>1, <4>5 DEF m
    <3>3. QED
      BY <3>1, <3>2
  <2>6. pos' \in 1 .. o /\ BodyOf(file) = body
    BY <1>1, <2>5 DEF body
  <2> HIDE DEF i
  <2>7. QED
    BY <2>2, <2>6 DEF TornScan
<1>12. ScanInv'
  <2>1. saved' = saved /\ file' = file /\ pc' = "loading" /\ file' # NoFile /\ 4 <= len
    BY <1>1, <1>2
  <2>2. result'.output_id = saved'.output_id
    BY <1>1, <1>2, <1>4
  <2>3. QED
    BY <1>10, <1>11, <2>1, <2>2 DEF ScanInv, n, len
<1>13. QED
  BY <1>1, <1>5, <1>6, <1>9, <1>12 DEF LoadInv, Scanning, LoadedOK

\* A load returns when the scan finds no more, and runs out of memory only on
\* a file cut short.
LEMMA LoadEndsStep ==
    ASSUME FileInv, LoadInv, LoadReturns \/ Exhaust
    PROVE  LoadInv' /\ LoadedOK'
<1> DEFINE n == Len(saved.nodes)
           len == Len(file)
           body == BodyOf(file)
           k == Len(result.nodes)
<1>1. /\ pc = "loading" /\ UNCHANGED <<saved, file, result>>
      /\ \/ pc' = "loaded" /\ pos' = 1 /\ ObjectsLeft = {}
         \/ pc' = "exhausted" /\ pos' = pos /\ ObjectsLeft # {} /\ k = MaxLoaded
  BY DEF LoadReturns, Exhaust, graphVars
<1>2. /\ file # NoFile /\ 4 <= len /\ result.output_id = saved.output_id
      /\ len = 5 * n + 5 => WholeScan(result.nodes, pos, saved, n)
      /\ len # 5 * n + 5 => TornScan(result.nodes, pos, body, file)
      /\ IsGraph(result) /\ IsSeq(result.nodes) /\ k <= MaxLoaded
  BY <1>1 DEF LoadInv, ScanInv, Scanning
<1>3. /\ FileKeys(file, len, saved, n) /\ IsSeqOf(file, TokensOf(saved), len)
      /\ IsGraph(saved) /\ n <= MaxLoaded
  BY <1>2, KnownFile
<1>4. ObjectsLeft = {x \in Where(body, {"open"}) : x >= pos}
  BY DEF ObjectsLeft
<1>5. k \in Nat /\ n \in Nat /\ DOMAIN result.nodes = 1 .. k /\ DOMAIN saved.nodes = 1 .. n
  BY <1>2, <1>3 DEF IsGraph
<1>6. ASSUME len = 5 * n + 5
      PROVE  (ObjectsLeft = {} <=> k = n) /\ k <= n /\ Restored(result.nodes, saved)
  <2>1. k <= n /\ pos = (IF k = 0 THEN 1 ELSE 5 * k + 2) /\ Restored(result.nodes, saved)
    BY <1>2, <1>6 DEF WholeScan
  <2>2. WholeScan(result.nodes, pos, saved, n) /\ k = Len(result.nodes)
    BY <1>2, <1>6
  <2>3. ObjectsLeft = Left(BodyOf(file), pos)
    BY <1>4 DEF Left
  <2> HIDE DEF n, k, len
  <2>4. Finds(Left(BodyOf(file), pos), BodyOf(file), saved, k, n)
    BY <1>3, <1>5, <1>6, <2>2, WholeLoad
  <2>5. QED
    BY <2>1, <2>3, <2>4 DEF Finds
<1>7. ASSUME len # 5 * n + 5, ObjectsLeft = {}
      PROVE  result.nodes = <<>> /\ Where(file, {"open"}) = {}
  <2>1. TornScan(result.nodes, pos, body, file)
    BY <1>2, <1>7
  <2> SUFFICES ASSUME NEW o \in Where(body, {"open"}), pos \in 1 .. o PROVE FALSE
    BY <2>1 DEF TornScan
  <2>2. \A x \in DOMAIN body : x \in Nat
    <3>1. len \in Nat
      BY <1>3 DEF FileKeys
    <3>2. len >= 4
      BY <1>2, <3>1
    <3> HIDE DEF n, len
    <3>3. DOMAIN body \subseteq 1 .. len
      BY <1>3, <1>7, <3>1, <3>2, TornBody
    <3>4. QED
      BY <3>1, <3>3
  <2>3. o \in Nat
    BY <2>2 DEF Where
  <2>4. o >= pos
    BY <2>3
  <2>5. o \in ObjectsLeft
    BY <1>4, <2>4
  <2>6. QED
    BY <1>7, <2>5
<1>8. CASE pc' = "exhausted"
  <2>1. len # 5 * n + 5
    <3> HIDE DEF n, k, len
    <3>1. QED
      BY <1>1, <1>3, <1>5, <1>6, <1>8, SerializerAssumption
  <2>2. TornScan(result.nodes, pos', body, file)
    BY <1>1, <1>2, <1>8, <2>1 DEF TornScan
  <2>3. ScanInv'
    BY <1>1, <1>2, <2>1, <2>2 DEF ScanInv
  <2>4. QED
    BY <1>1, <1>2, <1>8, <2>3 DEF LoadInv, Scanning, LoadedOK
<1>9. CASE pc' = "loaded"
  <2>1. ObjectsLeft = {} /\ pos' = 1
    BY <1>1, <1>9
  <2>2. /\ len = 5 * n + 5 => Structure(result.nodes) = Structure(saved.nodes)
        /\ len # 5 * n + 5 => result.nodes = <<>> /\ Where(file, {"open"}) = {}
    <3>1. CASE len = 5 * n + 5
      <4>1. k = n /\ Restored(result.nodes, saved)
        BY <1>6, <2>1, <3>1
      <4>2. \A j \in 1 .. n : result.nodes[j].op = saved.nodes[j].op
                              /\ result.nodes[j].inputs = saved.nodes[j].inputs
        BY <4>1 DEF Restored
      <4>3. DOMAIN result.nodes = 1 .. n /\ DOMAIN saved.nodes = 1 .. n
        BY <1>5, <4>1
      <4> HIDE DEF n
      <4>4. Structure(result.nodes) = Structure(saved.nodes)
        BY <4>2, <4>3 DEF Structure
      <4>5. QED
        BY <3>1, <4>4
    <3>2. CASE len # 5 * n + 5
      BY <1>7, <2>1, <3>2
    <3>3. QED
      BY <3>1, <3>2
  <2>3. LoadedOK'
    BY <1>1, <1>2, <2>2 DEF LoadedOK
  <2>4. QED
    BY <1>1, <1>2, <1>9, <2>1, <2>3 DEF LoadInv, ScanInv, Scanning
<1>10. QED
  BY <1>1, <1>8, <1>9

LEMMA GraphStep == GraphInv /\ [Next]_vars => GraphInv'
<1> SUFFICES ASSUME GraphInv, [Next]_vars PROVE GraphInv'
  OBVIOUS
<1>1. FileInv /\ LoadInv /\ LoadedOK /\ FileInv'
  BY FileStep DEF GraphInv
<1>2. ASSUME ~Scanning', pc' # "loaded", pos' = 1, result' = result \/ result' = NoGraph
      PROVE  LoadInv' /\ LoadedOK'
  <2>1. IsGraph(NoGraph) /\ IsSeq(NoGraph.nodes) /\ Len(NoGraph.nodes) <= MaxLoaded
    <3>1. IsSeq(<<>>)
      BY EmptySeq DEF IsSeq
    <3>2. NoGraph.nodes = <<>>
      BY DEF NoGraph
    <3>3. QED
      BY <3>1, <3>2, GraphsAreGraphs
  <2>2. QED
    BY <1>1, <1>2, <2>1 DEF LoadInv, ScanInv, LoadedOK
<1>3. ASSUME UNCHANGED <<pc, saved, file, pos, result>> PROVE LoadInv' /\ LoadedOK'
  BY <1>1, <1>3
     DEF LoadInv, ScanInv, Scanning, LoadedOK
<1>4. ~Scanning => pos = 1
  BY <1>1 DEF LoadInv
<1>5. ASSUME NEW g \in Graphs, SaveFunction(g) PROVE LoadInv' /\ LoadedOK'
  BY <1>2, <1>4, <1>5 DEF SaveFunction, Idle, Scanning
<1>6. ASSUME WriteToken PROVE LoadInv' /\ LoadedOK'
  BY <1>2, <1>4, <1>6 DEF WriteToken, Scanning
<1>7. ASSUME NEW t \in Tensors, SaveBlob(t) PROVE LoadInv' /\ LoadedOK'
  BY <1>2, <1>4, <1>7 DEF SaveBlob, Idle, Scanning, graphVars
<1>8. ASSUME SaveReturns PROVE LoadInv' /\ LoadedOK'
  BY <1>2, <1>4, <1>8 DEF SaveReturns, Scanning, graphVars
<1>9. ASSUME Restart PROVE LoadInv' /\ LoadedOK'
  BY <1>2, <1>9 DEF Restart, Scanning
<1>10. ASSUME NEW hash, NEW m, LoadBlob(hash, m) PROVE LoadInv' /\ LoadedOK'
  BY <1>2, <1>4, <1>10 DEF LoadBlob, Idle, Scanning, graphVars
<1>11. ASSUME WriteElement \/ TearElement \/ UNCHANGED vars
       PROVE  LoadInv' /\ LoadedOK'
  BY <1>3, <1>11 DEF WriteElement, TearElement, vars, graphVars
<1>12. QED
  BY <1>1, <1>5, <1>6, <1>7, <1>8, <1>9, <1>10, <1>11,
     LoadFunctionStep, LoadNodeStep, LoadEndsStep DEF Next, GraphInv

LEMMA GraphStart == Init => GraphInv
<1> SUFFICES ASSUME Init PROVE GraphInv
  OBVIOUS
<1>1. IsGraph(NoGraph) /\ Len(NoGraph.nodes) <= MaxLoaded /\ IsSeq(NoGraph.nodes)
  BY GraphsAreGraphs, EmptySeq DEF NoGraph, IsSeq
<1>2. QED
  BY <1>1 DEF Init, GraphInv, FileInv, LoadInv, ScanInv, Scanning, LoadedOK

\* A load that returns has restored the whole graph, wherever the save before
\* it was cut, unless it was cut before the first node: then what it returns
\* is empty (serializer.cpp:122-170).
THEOREM LoadsCorrect == Spec => []LoadsAreAllOrNothing
<1>1. GraphInv => LoadsAreAllOrNothing
  <2> SUFFICES ASSUME GraphInv, pc = "loaded" PROVE WholeGraph \/ CutBeforeNodes
    BY DEF LoadsAreAllOrNothing
  <2>1. IsGraph(saved) /\ LoadedOK
    BY GraphsAreGraphs DEF GraphInv, FileInv
  <2>2. Complete => Len(file) = 5 * Len(saved.nodes) + 5
    BY <2>1, FileLayout DEF Complete
  <2>3. QED
    BY <2>1, <2>2 DEF LoadedOK, WholeGraph, CutBeforeNodes
<1>2. QED
  BY <1>1, GraphStart, GraphStep, PTL DEF Spec

LEMMA IsPrefixOf ==
    ASSUME NEW S, NEW s \in Seq(S), NEW t \in Seq(S), Len(s) <= Len(t),
           \A i \in 1 .. Len(s) : s[i] = t[i]
    PROVE  IsPrefix(s, t)
<1>1. Len(s) \in Nat /\ Len(t) \in Nat
  BY LenProperties
<1>2. /\ SubSeq(s, 1, Len(s)) = [i \in 1 .. Len(s) |-> s[i]]
      /\ SubSeq(t, 1, Len(s)) = [i \in 1 .. Len(s) |-> t[i]]
  BY <1>1, SubSeqRestrict DEF Restrict
<1>3. QED
  BY <1>2 DEF IsPrefix

\* What has been restored is a beginning of what was saved.
LEMMA RestoredIsPrefix ==
    ASSUME IsGraph(result), IsGraph(saved), Len(result.nodes) <= Len(saved.nodes),
           Restored(result.nodes, saved)
    PROVE  IsPrefix(Structure(result.nodes), Structure(saved.nodes))
<1> DEFINE k == Len(result.nodes)
           n == Len(saved.nodes)
           a == Structure(result.nodes)
           b == Structure(saved.nodes)
           S == {a[i] : i \in 1 .. k} \cup {b[i] : i \in 1 .. n}
<1>1. /\ k \in Nat /\ n \in Nat /\ k <= n
      /\ DOMAIN result.nodes = 1 .. k /\ DOMAIN saved.nodes = 1 .. n
  BY DEF IsGraph
<1>2. a = [i \in 1 .. k |-> [op |-> result.nodes[i].op, inputs |-> result.nodes[i].inputs]]
      /\ b = [i \in 1 .. n |-> [op |-> saved.nodes[i].op, inputs |-> saved.nodes[i].inputs]]
  BY <1>1 DEF Structure
<1>3. \A i \in 1 .. k : a[i] = b[i]
  <2>1. \A i \in 1 .. k : i \in 1 .. n
    BY <1>1
  <2>2. QED
    BY <1>2, <2>1 DEF Restored
<1>4. a \in [1 .. k -> S] /\ b \in [1 .. n -> S]
  BY <1>2
<1> HIDE DEF S, a, b
<1>5. a \in Seq(S) /\ b \in Seq(S) /\ Len(a) = k /\ Len(b) = n
  <2>1. a \in Seq(S) /\ b \in Seq(S) /\ DOMAIN a = 1 .. k /\ DOMAIN b = 1 .. n
    BY <1>1, <1>4, SeqDef
  <2> HIDE DEF k, n
  <2>2. QED
    BY <1>1, <2>1, LenProperties
<1>6. IsPrefix(a, b)
  BY <1>1, <1>3, <1>5, IsPrefixOf
<1>7. QED
  BY <1>6 DEF a, b

\* The scan of a file that was written to its end restores the nodes that were
\* saved, one after the other, and when it returns all of them; it never
\* exhausts the memory (serializer.cpp:139-170).
THEOREM WholeFilesCorrect == Spec => []WholeFilesLoad
<1>1. GraphInv => WholeFilesLoad
  <2> SUFFICES ASSUME GraphInv, Complete
               PROVE  /\ pc # "exhausted"
                      /\ pc = "loading" =>
                            IsPrefix(Structure(result.nodes), Structure(saved.nodes))
                      /\ pc = "loaded" => WholeGraph
    BY DEF WholeFilesLoad
  <2>1. IsGraph(saved) /\ IsGraph(result) /\ ScanInv /\ LoadedOK
    BY GraphsAreGraphs DEF GraphInv, FileInv, LoadInv
  <2>2. Len(file) = 5 * Len(saved.nodes) + 5
    BY <2>1, FileLayout DEF Complete
  <2>3. pc # "exhausted"
    BY <2>1, <2>2 DEF ScanInv, Scanning
  <2>4. ASSUME pc = "loading"
        PROVE  IsPrefix(Structure(result.nodes), Structure(saved.nodes))
    <3>1. WholeScan(result.nodes, pos, saved, Len(saved.nodes))
      BY <2>1, <2>2, <2>4 DEF ScanInv, Scanning
    <3>2. QED
      BY <2>1, <3>1, RestoredIsPrefix DEF WholeScan
  <2>5. pc = "loaded" => WholeGraph
    BY <2>1, <2>2 DEF LoadedOK, WholeGraph
  <2>6. QED
    BY <2>3, <2>4, <2>5
<1>2. QED
  BY <1>1, GraphStart, GraphStep, PTL DEF Spec

\* Every blob file was saved.
StoreInv ==
    /\ pc \in {"idle", "savingGraph", "savingBlob", "loading", "loaded", "threw", "exhausted"}
    /\ \A h \in DOMAIN blobs : <<h, h>> \in handles

LEMMA StoreStep == StoreInv /\ [Next]_vars => StoreInv'
<1> SUFFICES ASSUME StoreInv, [Next]_vars PROVE StoreInv'
  OBVIOUS
<1>1. ASSUME NEW t \in Tensors, SaveBlob(t) PROVE StoreInv'
  <2>1. /\ pc' = "savingBlob" /\ handles' = handles \cup {<<t.data, t.data>>}
        /\ DOMAIN blobs' = DOMAIN blobs \cup {t.data}
    BY <1>1 DEF SaveBlob, HashOf
  <2>2. QED
    BY <2>1 DEF StoreInv
<1>2. CASE WriteElement \/ TearElement
  <2>1. UNCHANGED <<pc, handles>> /\ DOMAIN blobs' = DOMAIN blobs
    BY <1>2 DEF WriteElement, TearElement
  <2>2. QED
    BY <2>1 DEF StoreInv
<1>3. ASSUME UNCHANGED <<blobs, handles>>,
             pc' \in {"idle", "savingGraph", "loading", "loaded", "threw", "exhausted"}
             \/ pc' = pc
      PROVE  StoreInv'
  BY <1>3 DEF StoreInv
<1>4. CASE \/ \E g \in Graphs : SaveFunction(g)
           \/ WriteToken \/ SaveReturns \/ Restart \/ LoadNode
           \/ Exhaust \/ LoadReturns \/ UNCHANGED vars
  BY <1>3, <1>4
     DEF SaveFunction, WriteToken, SaveReturns, Restart, LoadNode, Exhaust, LoadReturns,
         vars, blobVars
<1>5. CASE LoadFunction
  <2>1. UNCHANGED <<blobs, handles>> /\ pc' \in {"threw", "loading"}
    BY <1>5 DEF LoadFunction, blobVars
  <2>2. QED
    BY <1>3, <2>1
<1>6. ASSUME NEW hash, NEW m, LoadBlob(hash, m) PROVE StoreInv'
  <2>1. UNCHANGED <<blobs, handles>> /\ pc' \in {"threw", "idle"}
    BY <1>6 DEF LoadBlob
  <2>2. QED
    BY <1>3, <2>1
<1>7. QED
  BY <1>1, <1>2, <1>4, <1>5, <1>6 DEF Next

\* Where the scan is.
LEMMA PosOK ==
    ASSUME GraphInv
    PROVE  pos \in 1 .. Len(FileTokens(saved)) + 1
<1> DEFINE n == Len(saved.nodes)
           len == Len(file)
           k == Len(result.nodes)
<1>1. FileInv /\ LoadInv /\ IsGraph(saved)
  BY GraphsAreGraphs DEF GraphInv, FileInv
<1>2. Len(FileTokens(saved)) = 5 * n + 5 /\ n \in Nat
  BY <1>1, FileLayout DEF IsGraph
<1>3. CASE ~Scanning
  <2>1. pos = 1
    BY <1>1, <1>3 DEF LoadInv
  <2> HIDE DEF n
  <2>2. QED
    BY <1>2, <2>1
<1>4. CASE Scanning
  <2>1. /\ file # NoFile /\ 4 <= len
        /\ len = 5 * n + 5 => WholeScan(result.nodes, pos, saved, n)
        /\ len # 5 * n + 5 => TornScan(result.nodes, pos, BodyOf(file), file)
        /\ IsGraph(result)
    BY <1>1, <1>4 DEF LoadInv, ScanInv
  <2>2. FileKeys(file, len, saved, n) /\ IsSeqOf(file, TokensOf(saved), len)
    BY <1>1, <2>1, KnownFile
  <2>3. k \in Nat /\ len \in Nat /\ len <= 5 * n + 5
    BY <2>1, <2>2 DEF IsGraph, FileKeys
  <2> HIDE DEF n, len
  <2>4. CASE len = 5 * n + 5
    <3>1. k <= n /\ pos = (IF k = 0 THEN 1 ELSE 5 * k + 2)
      BY <2>1, <2>4 DEF WholeScan
    <3> HIDE DEF k
    <3>2. pos \in 1 .. (5 * n + 5) + 1
      BY <1>2, <2>3, <3>1
    <3>3. QED
      BY <1>2, <3>2
  <2>5. CASE len # 5 * n + 5
    <3>1. len >= 4
      BY <2>1, <2>3
    <3>2. DOMAIN BodyOf(file) \subseteq 1 .. len
      BY <2>2, <2>5, <3>1, TornBody
    <3>3. pos \in 1 .. len
      <4>1. CASE pos = 1
        BY <2>3, <3>1, <4>1
      <4>2. ASSUME NEW o \in Where(BodyOf(file), {"open"}), pos \in 1 .. o
            PROVE  pos \in 1 .. len
        <5>1. o \in 1 .. len
          BY <3>2 DEF Where
        <5>2. QED
          BY <2>3, <4>2, <5>1
      <4>3. QED
        BY <2>1, <2>5, <4>1, <4>2 DEF TornScan
    <3>4. pos \in 1 .. (5 * n + 5) + 1
      BY <1>2, <2>3, <3>3
    <3>5. QED
      BY <1>2, <3>4
  <2>6. QED
    BY <2>4, <2>5
<1>5. QED
  BY <1>3, <1>4

\* Whatever was saved, loaded, cut or killed, the files hold prefixes of what
\* was written to them and the scan is inside the file
\* (serializer.cpp:33-63, 96-170).
THEOREM SerializerTypeOK == Spec => []TypeOK
<1>1. Init => GraphInv /\ BlobInv /\ StoreInv
  BY GraphStart DEF Init, BlobInv, HandlesOK, BlobsOK, StreamOK, ReadOK, StoreInv
<1>2. GraphInv /\ BlobInv /\ StoreInv /\ [Next]_vars => (GraphInv /\ BlobInv /\ StoreInv)'
  BY GraphStep, BlobStep, StoreStep
<1>3. GraphInv /\ BlobInv /\ StoreInv => TypeOK
  <2> SUFFICES ASSUME GraphInv, BlobInv, StoreInv PROVE TypeOK
    OBVIOUS
  <2>1. IsGraph(saved) /\ IsGraph(result) /\ Len(result.nodes) <= MaxLoaded
    BY GraphsAreGraphs DEF GraphInv, FileInv, LoadInv
  <2>2. file = NoFile \/ IsPrefix(file, FileTokens(saved))
    <3> SUFFICES ASSUME file # NoFile PROVE IsPrefix(file, FileTokens(saved))
      OBVIOUS
    <3>1. IsFile(file, saved) /\ FileTokens(saved) \in Seq(TokensOf(saved))
      BY <2>1, FileLayout DEF GraphInv, FileInv
    <3>2. /\ file \in Seq(TokensOf(saved)) /\ Len(file) <= Len(FileTokens(saved))
          /\ \A i \in 1 .. Len(file) : file[i] = FileTokens(saved)[i]
      BY <3>1 DEF IsFile
    <3>3. QED
      BY <3>1, <3>2, IsPrefixOf
  <2>3. ASSUME NEW h \in DOMAIN blobs
        PROVE  \E w \in handles : w[1] = h /\ Remains(blobs[h], w[2])
    <3>1. <<h, h>> \in handles /\ Begins(blobs[h], h)
      BY DEF StoreInv, BlobInv, BlobsOK
    <3>2. Remains(blobs[h], h)
      BY <3>1 DEF Begins
    <3>3. QED
      BY <3>1, <3>2
  <2>4. pos \in 1 .. Len(FileTokens(saved)) + 1
    BY PosOK
  <2>5. QED
    BY <2>1, <2>2, <2>3, <2>4 DEF TypeOK, StoreInv
<1>4. QED
  BY <1>1, <1>2, <1>3, PTL DEF Spec
=============================================================================
