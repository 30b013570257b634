------------------------------ MODULE Serializer ------------------------------
(***************************************************************************)
(* core/serializer.cpp: the JSON file of a captured graph and the          *)
(* content-addressed store of tensor data, written and read by one process *)
(* that may die at any moment and on a disk that may be full.  Streams are *)
(* buffered and never checked after they are opened, so what is on disk    *)
(* when a save stops is any prefix of what the save writes.                *)
(*                                                                         *)
(* The JSON file is a sequence of tokens, cut where load_function looks    *)
(* for something: a key, a brace, a closing bracket.                       *)
(***************************************************************************)
EXTENDS Integers, SequencesExt

CONSTANTS Graphs,     \* graphs that are saved
          Values,     \* numbers in tensors
          Leading,    \* Leading[x]: x with bytes at its end missing, read as zero
          Tensors,    \* [shape, data] of tensors that are saved
          Numels,     \* sizes of the shapes load_blob is given
          MaxLoaded   \* nodes a load may allocate before memory is exhausted

\* A graph as the nodes of Graph, of which the save writes five fields.
IsGraph(g) ==
    /\ g.output_id \in Int
    /\ Len(g.nodes) \in Nat /\ DOMAIN g.nodes = 1 .. Len(g.nodes)
    /\ \A i \in DOMAIN g.nodes : DOMAIN g.nodes[i] =
            {"op", "inputs", "dtype", "input_shapes", "output_shapes"}

\* There is memory for every graph that is saved: it was in memory.
ASSUME SerializerAssumption ==
    /\ \A g \in Graphs : IsGraph(g) /\ Len(g.nodes) <= MaxLoaded
    /\ Values \subseteq Int /\ Leading \in [Values -> Int]
    /\ \A t \in Tensors : t.data \in Seq(Values)
    /\ Numels \subseteq Nat /\ MaxLoaded \in Nat

VARIABLES pc,       \* "idle", "savingGraph", "savingBlob", "loading",
                    \* "loaded", "threw" or "exhausted"
          pending,  \* what the open output stream has not written yet
          saved,    \* the graph of the last save_function
          file,     \* the JSON file: its tokens, or NoFile
          pos,      \* where load_function scans on
          result,   \* the graph load_function has built so far
          blobs,    \* the blob files: hash -> data
          name,     \* the hash save_blob writes to
          handles,  \* <<hash, data>> of every save_blob that was called
          read      \* [hash, data] of the last load_blob, or NoBlob

vars == <<pc, pending, saved, file, pos, result, blobs, name, handles, read>>
graphVars == <<saved, file, pos, result>>
blobVars  == <<blobs, name, handles, read>>

NoGraph == [output_id |-> -1, input_ids |-> <<>>, param_ids |-> <<>>, nodes |-> <<>>]
NoBlob  == [hash |-> <<>>, data |-> <<>>]

Token(key, value) == [key |-> key, value |-> value]

NoFile == <<Token("no file", <<>>)>>

\* What save_function writes of one node.
NodeTokens(n) ==
    <<Token("open", n.op),
      Token("inputs", n.inputs),
      Token("input_shapes", n.input_shapes),
      Token("output_shapes", n.output_shapes),
      Token("close", n.dtype)>>

\* What save_function writes of a graph.
FileTokens(g) ==
    <<Token("output_id", g.output_id), Token("input_ids", g.input_ids),
      Token("param_ids", g.param_ids), Token("nodes", <<>>)>>
    \o FlattenSeq([i \in DOMAIN g.nodes |-> NodeTokens(g.nodes[i])])
    \o <<Token("end", <<>>)>>

\* The tokens that end with a bracket.
Closing == {"input_ids", "param_ids", "inputs", "input_shapes", "output_shapes", "end"}

Where(s, keys) == {i \in DOMAIN s : s[i].key \in keys}

BodyOf_ToTheEnd(s) == SubSeq(s, Max(Where(s, {"nodes"})), Len(s))

\* From the bracket of "nodes" to the last bracket of the file.  In a file
\* cut short before any bracket of a node is closed, the last one comes
\* before the first: the length wraps round and all the rest is taken.
BodyOf(s) ==
    LET start == Max(Where(s, {"nodes"}))
        last  == Max(Where(s, Closing) \cup {0})
    IN  SubSeq(s, start, IF last > start THEN last ELSE Len(s))

\* The object that starts at token i: to its brace, or to the end.
ObjectAt(s, i) ==
    LET ends == {j \in Where(s, {"close"}) : j > i}
    IN  SubSeq(s, i, IF ends = {} THEN Len(s) ELSE Min(ends))

After_Start(s, i) == i

\* Where the scan goes on after the object at token i: one past its brace.
\* With no brace, npos + 1 in an int is 0: the scan starts again.
After(s, i) ==
    LET ends == {j \in Where(s, {"close"}) : j > i}
    IN  IF ends = {} THEN 1 ELSE Min(ends) + 1

LoadedNode_FirstInput(object) ==
    [op            |-> object[1].value,
     inputs        |-> IF Where(object, {"inputs"}) = {} THEN <<>>
                       ELSE LET ins == object[Min(Where(object, {"inputs"}))].value
                            IN  SubSeq(ins, 1, Min({1, Len(ins)})),
     dtype         |-> "float32",
     input_shapes  |-> <<>>,
     output_shapes |-> <<>>]

\* The node load_function makes of an object: op and inputs; everything else
\* is what a new IRNode holds.
LoadedNode(object) ==
    [op            |-> object[1].value,
     inputs        |-> IF Where(object, {"inputs"}) = {} THEN <<>>
                       ELSE object[Min(Where(object, {"inputs"}))].value,
     dtype         |-> "float32",
     input_shapes  |-> <<>>,
     output_shapes |-> <<>>]

HashOf_Length(data) == Len(data)

\* The name of a blob: one name per content (no FNV-1a collisions), whatever
\* the shape of the tensor.
HashOf(data) == data

Init == /\ pc = "idle"
        /\ pending = <<>>
        /\ saved = NoGraph
        /\ file = NoFile
        /\ pos = 1
        /\ result = NoGraph
        /\ blobs = [h \in {} |-> <<>>]
        /\ name = <<>>
        /\ handles = {}
        /\ read = NoBlob

Idle == pc \in {"idle", "loaded", "threw"}

SaveFunction_Appends(g) ==
    /\ Idle
    /\ pc' = "savingGraph"
    /\ pending' = FileTokens(g)
    /\ saved' = g
    /\ file' = IF file = NoFile THEN <<>> ELSE file
    /\ result' = NoGraph
    /\ UNCHANGED <<pos, blobVars>>

\* save_function opens the file, which truncates it.
SaveFunction(g) ==
    /\ Idle
    /\ pc' = "savingGraph"
    /\ pending' = FileTokens(g)
    /\ saved' = g
    /\ file' = <<>>
    /\ result' = NoGraph
    /\ UNCHANGED <<pos, blobVars>>

WriteToken ==
    /\ pc = "savingGraph"
    /\ pending # <<>>
    /\ file' = Append(file, Head(pending))
    /\ pending' = Tail(pending)
    /\ UNCHANGED <<pc, saved, pos, result, blobVars>>

\* save_blob opens the file of the hash, which truncates it.
SaveBlob(t) ==
    /\ Idle
    /\ pc' = "savingBlob"
    /\ pending' = t.data
    /\ name' = HashOf(t.data)
    /\ handles' = handles \cup {<<HashOf(t.data), t.data>>}
    /\ blobs' = [h \in DOMAIN blobs \cup {HashOf(t.data)} |->
                    IF h = HashOf(t.data) THEN <<>> ELSE blobs[h]]
    /\ UNCHANGED <<graphVars, read>>

WriteElement ==
    /\ pc = "savingBlob"
    /\ pending # <<>>
    /\ blobs' = [blobs EXCEPT ![name] = Append(@, Head(pending))]
    /\ pending' = Tail(pending)
    /\ UNCHANGED <<pc, name, handles, read, graphVars>>

\* The last that reaches the disk is a part of a float: all bytes are written
\* by one call, and after a failure nothing more is.
TearElement ==
    /\ pc = "savingBlob"
    /\ pending # <<>>
    /\ blobs' = [blobs EXCEPT ![name] = Append(@, Leading[Head(pending)])]
    /\ pending' = <<>>
    /\ UNCHANGED <<pc, name, handles, read, graphVars>>

\* The stream is closed and the call returns, all written or not: when the
\* disk is full nothing says so.
SaveReturns ==
    /\ pc \in {"savingGraph", "savingBlob"}
    /\ pc' = "idle"
    /\ pending' = <<>>
    /\ UNCHANGED <<graphVars, blobVars>>

\* The process dies and is started again: only files are left.
Restart ==
    /\ ~Idle
    /\ pc' = "idle"
    /\ pending' = <<>>
    /\ pos' = 1
    /\ result' = NoGraph
    /\ read' = NoBlob
    /\ name' = <<>>
    /\ UNCHANGED <<saved, file, blobs, handles>>

\* load_function up to its loop: it throws when there is no file or no node
\* list in it.
LoadFunction ==
    /\ Idle
    /\ IF file = NoFile
       THEN pc' = "threw" /\ UNCHANGED <<result, pos>>
       ELSE /\ pos' = 1
            /\ pc' = IF Where(file, {"nodes"}) = {} THEN "threw" ELSE "loading"
            /\ result' = [NoGraph EXCEPT !.output_id =
                             IF Where(file, {"output_id"}) = {} THEN -1
                             ELSE file[Min(Where(file, {"output_id"}))].value]
    /\ UNCHANGED <<pending, saved, file, blobVars>>

\* The objects that are left to scan.
ObjectsLeft == {i \in Where(BodyOf(file), {"open"}) : i >= pos}

LoadNode ==
    /\ pc = "loading"
    /\ ObjectsLeft # {}
    /\ Len(result.nodes) < MaxLoaded
    /\ LET i == Min(ObjectsLeft)
       IN  /\ result' = [result EXCEPT !.nodes =
                            Append(@, LoadedNode(ObjectAt(BodyOf(file), i)))]
           /\ pos' = After(BodyOf(file), i)
    /\ UNCHANGED <<pc, pending, saved, file, blobVars>>

\* Nodes are allocated until there is no memory.
Exhaust ==
    /\ pc = "loading"
    /\ ObjectsLeft # {}
    /\ Len(result.nodes) = MaxLoaded
    /\ pc' = "exhausted"
    /\ UNCHANGED <<pending, graphVars, blobVars>>

LoadReturns ==
    /\ pc = "loading"
    /\ ObjectsLeft = {}
    /\ pc' = "loaded"
    /\ pos' = 1
    /\ UNCHANGED <<pending, saved, file, result, blobVars>>

\* load_blob: a zeroed tensor of the shape it is given, over which as much of
\* the file as there is, or as fits, is read.  Nothing compares the two.
LoadBlob(hash, n) ==
    /\ Idle
    /\ IF hash \in DOMAIN blobs
       THEN /\ pc' = "idle"
            /\ read' = [hash |-> hash,
                        data |-> [i \in 1 .. n |->
                                    IF i <= Len(blobs[hash]) THEN blobs[hash][i] ELSE 0]]
       ELSE pc' = "threw" /\ read' = NoBlob
    /\ UNCHANGED <<pending, graphVars, blobs, name, handles>>

Next ==
    \/ \E g \in Graphs : SaveFunction(g)
    \/ WriteToken
    \/ \E t \in Tensors : SaveBlob(t)
    \/ WriteElement
    \/ TearElement
    \/ SaveReturns
    \/ Restart
    \/ LoadFunction
    \/ LoadNode
    \/ Exhaust
    \/ LoadReturns
    \/ \E t \in Tensors, n \in Numels : LoadBlob(HashOf(t.data), n)

\* A load is a loop of the calling thread: once called, it runs.
Spec == Init /\ [][Next]_vars /\ WF_vars(LoadNode \/ Exhaust \/ LoadReturns)

-----------------------------------------------------------------------------
(* Properties.                                                             *)

\* What a stream may leave of the content it was given: its beginning, of
\* which the last float may be cut.
Remains(data, content) ==
    /\ Len(data) <= Len(content)
    /\ \A i \in DOMAIN data :
          \/ data[i] = content[i]
          \/ i = Len(data) /\ data[i] = Leading[content[i]]

\* Files hold what a stream may have left in them.
TypeOK ==
    /\ pc \in {"idle", "savingGraph", "savingBlob", "loading", "loaded", "threw", "exhausted"}
    /\ IsGraph(saved) /\ IsGraph(result)
    /\ file = NoFile \/ IsPrefix(file, FileTokens(saved))
    /\ \A h \in DOMAIN blobs : \E w \in handles : w[1] = h /\ Remains(blobs[h], w[2])
    /\ pos \in 1 .. Len(FileTokens(saved)) + 1
    /\ Len(result.nodes) <= MaxLoaded

Complete == file = FileTokens(saved)

\* The ops and the edges, which are what load_function restores.
Structure(nodes) == [i \in DOMAIN nodes |-> [op |-> nodes[i].op, inputs |-> nodes[i].inputs]]

\* The load has restored the graph that was saved last.
WholeGraph ==
    /\ Structure(result.nodes) = Structure(saved.nodes)
    /\ result.output_id = saved.output_id

\* The file was cut before its first node, and has come back as a graph of no
\* nodes that keeps the output id of the one that was saved.
CutBeforeNodes ==
    /\ ~Complete /\ Where(file, {"open"}) = {}
    /\ result.nodes = <<>>
    /\ result.output_id = saved.output_id

\* A load that returns has restored every node of the graph that was saved
\* last, with its inputs, or else the file holds no node at all: a file that
\* is cut anywhere behind the first brace is never taken for a smaller graph,
\* although load_function looks for no end and checks nothing
\* (serializer.cpp:122-170).
LoadsAreAllOrNothing == pc = "loaded" => WholeGraph \/ CutBeforeNodes

\* A file that was written to its end restores the graph: while it is scanned
\* the nodes so far are the first of those saved, it never exhausts the
\* memory, and when the load returns all are there (serializer.cpp:139-170).
WholeFilesLoad ==
    Complete => /\ pc # "exhausted"
                /\ pc = "loading" => IsPrefix(Structure(result.nodes), Structure(saved.nodes))
                /\ pc = "loaded" => WholeGraph

\* The load of a file that was written to its end comes back, unless the
\* process is killed: the scan makes progress at every object, which it does
\* not in a file cut short (serializer.cpp:168).
WholeFilesReturn == pc = "loading" /\ Complete ~> pc \in {"loaded", "idle"}

\* What load_blob returns under a hash is the data that every save_blob that
\* gave out that hash was called with, cut at the size asked for and zero
\* from where the file ends, which may be inside a number: never data of
\* another tensor, however saves and restarts are interleaved.
BlobsAreNotMixed ==
    read # NoBlob =>
        \A w \in handles :
            w[1] = read.hash =>
                \E n \in 0 .. Len(w[2]) : \A i \in DOMAIN read.data :
                    read.data[i] \in IF i <= n THEN {w[2][i]}
                                    ELSE IF i = n + 1 /\ i <= Len(w[2])
                                         THEN {0, Leading[w[2][i]]}
                                    ELSE {0}
=============================================================================
