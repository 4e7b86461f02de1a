-------------------------- MODULE QwenBridgeProofs --------------------------
(***************************************************************************)
(* Proofs about the bridge to the language model, for every number of      *)
(* layers, placement of the layers, prompt, memory and bound.  The bridge  *)
(* has no specification of its own: the invariant is shown to hold of      *)
(* every call and step, and ModelFactoryProofs concludes.                  *)
(*                                                                         *)
(* The argument about a graph: a node is marked when the callback sees it, *)
(* rounded, and copied if it is wanted.  The nodes of a graph are          *)
(* different, so a node that was left out, because the callback refused it *)
(* or the scheduler dropped it, is not made up for later.  So as long as   *)
(* all of the nodes so far are marked nothing was left out, what was       *)
(* copied is right, and what flows through the graph is of this call; and  *)
(* the check after the graph is that all of them are.                      *)
(***************************************************************************)
EXTENDS QwenBridge, SetInduction, FiniteSetTheorems

---------------------------------------------------------------------------
(* The invariant                                                           *)

NodeNames ==
    {"none", "l_out", "deepstack_out", "result_norm"} \X Nat

Cells == [node : NodeNames, from : SUBSET Nat]

Captures ==
    [enabled : BOOLEAN, token_count : Nat, wanted : Seq(NodeNames),
     values : Seq(Cells), seen : SUBSET Nat, rounded : SUBSET NodeNames,
     cuda_captured : Nat, error : BOOLEAN]

Models == [architecture : {"qwen3", "qwen2.5"}, bf16 : BOOLEAN, split : Nat]

AllNodes == {Nodes[i] : i \in 1 .. Len(Nodes)}

(* Between two calls, and in a call while no graph runs, nothing of a      *)
(* capture is left.                                                        *)
RestInv ==
    /\ model \in Models
    /\ stage \in {"ready", "prompt", "graph", "select", "extend", "returned"}
    /\ stage # "graph" => capture = Disabled
    /\ embeddings \in BOOLEAN
    /\ embeddings => stage = "graph"
    /\ stage \notin {"select", "extend"} => sequence = <<>>
    /\ memory \in [cells : 0 .. n_ctx, from : SUBSET Nat]
    /\ fault \in BOOLEAN

CudaInv ==
    /\ cuda_capture.device \in {"none", Devices[1], Devices[2]} \ {"cpu"}
    /\ cuda_capture.capacity \in Nat

(* Different outputs of the loaded model are wanted, one if the caller     *)
(* takes one.                                                              *)
SlotsAreSound(wanted, kind) ==
    /\ Len(wanted) \in Nat
    /\ wanted \in [1 .. Len(wanted) -> AllNodes]
    /\ \A s, t \in 1 .. Len(wanted) : wanted[s] = wanted[t] => s = t
    /\ kind # "generate" => Len(wanted) > 0
    /\ kind \in {"tokens", "full"} => Len(wanted) = 1

CallInv ==
    stage # "ready" =>
        /\ call.id \in Nat
        /\ call.kind \in {"generate", "tokens", "full", "layers"}
        /\ Len(call.tokens) \in Nat
        /\ call.kind = "tokens" => call.count \in Nat \ {0}
        /\ SlotsAreSound(call.wanted, call.kind)

GraphInv ==
    stage = "graph" =>
        /\ call.kind # "generate"
        /\ capture \in Captures
        /\ capture.enabled
        /\ capture.wanted = call.wanted
        /\ Len(capture.values) = Len(capture.wanted)
        /\ capture.token_count = Len(call.tokens)
        /\ Len(call.tokens) <= n_batch
        /\ call.kind = "tokens" => Cardinality(Matches) >= call.count
        /\ graph \in [next : Nat \ {0}, stopped : BOOLEAN,
                      from : SUBSET Nat]
        /\ graph.next <= Len(Nodes) + 1

(* The nodes that are computed or left out.                                *)
Earlier == {Nodes[i] : i \in 1 .. graph.next - 1}

MarkedSoFar ==
    /\ \A s \in 1 .. Len(capture.wanted) :
          capture.wanted[s] \in Earlier => s \in capture.seen
    /\ Boundaries \cap Earlier \subseteq capture.rounded

SeenInv ==
    stage = "graph" =>
        /\ \A s \in capture.seen :
              /\ s \in 1 .. Len(capture.wanted)
              /\ capture.wanted[s] \in Earlier
        /\ capture.rounded \subseteq Boundaries \cap Earlier

(* The slots whose outputs are left on their device.                       *)
DeviceSlots ==
    {s \in 1 .. Len(capture.wanted) : OnDevice(capture.wanted[s])}

CountInv ==
    stage = "graph" =>
        capture.cuda_captured = Cardinality(DeviceSlots \cap capture.seen)

Right(s) == [node |-> capture.wanted[s], from |-> {call.id}]

WholeInv ==
    stage = "graph" /\ MarkedSoFar =>
        /\ ~graph.stopped
        /\ graph.from = {call.id}
        /\ \A s \in capture.seen \ DeviceSlots : capture.values[s] = Right(s)

(* llama.cpp puts the layers on the processor and on one accelerator.      *)
OneAccelerator ==
    Devices[1] = "cpu" \/ Devices[2] = "cpu" \/ Devices[1] = Devices[2]

(* The buffer on the device holds what was copied into it.                 *)
DeviceInv ==
    OneAccelerator /\ stage = "graph" /\ MarkedSoFar =>
        \A s \in DeviceSlots \cap capture.seen :
            /\ cuda_capture.device = Device(capture.wanted[s])
            /\ cuda_capture.capacity >= TotalCount
            /\ cuda_capture.cells = [t \in 1 .. Len(capture.wanted) |->
                                        cuda_capture.cells[t]]
            /\ cuda_capture.cells[s] = Right(s)

FaultInv ==
    stage = "graph" /\ ~fault => MarkedSoFar /\ ~capture.error

IsList(s) == Len(s) \in Nat /\ s = [i \in 1 .. Len(s) |-> s[i]]

(* A generation has a cell for each token but the last one.                *)
GenerateInv ==
    stage \in {"select", "extend"} =>
        /\ call.kind = "generate"
        /\ memory.from = {call.id}
        /\ IsList(sequence)
        /\ Len(sequence) < max_length
        /\ memory.cells = IF stage = "select" THEN Len(sequence)
                          ELSE Len(sequence) - 1

Whole(cells) ==
    cells = [s \in 1 .. Len(call.wanted) |->
                [node |-> call.wanted[s], from |-> {call.id}]]

(* What excuses a call that failed.                                        *)
Excused ==
    \/ fault
    \/ /\ call.kind = "layers"
       /\ Cardinality({Device(call.wanted[s]) :
                          s \in 1 .. Len(call.wanted)}) > 1

AnswerInv ==
    stage = "returned" =>
        /\ answer.ok \in BOOLEAN
        /\ OneAccelerator /\ answer.ok => answer.from = {call.id}
        /\ OneAccelerator /\ answer.ok /\ call.kind # "generate" =>
              Whole(answer.cells)
        /\ answer.ok /\ call.kind = "tokens" =>
              /\ answer.rows = Queries
              /\ Cardinality(Matches) >= call.count
        /\ ~answer.ok => Excused

BridgeInv ==
    /\ RestInv /\ CudaInv /\ CallInv
    /\ GraphInv /\ SeenInv /\ CountInv /\ WholeInv /\ DeviceInv /\ FaultInv
    /\ GenerateInv /\ AnswerInv

---------------------------------------------------------------------------
(* The graph of the language model                                         *)

LEMMA NodesLength ==
    ASSUME model \in Models
    PROVE  /\ DeepStackLayers \in 0 .. Layers
           /\ Len(Nodes) = Layers + DeepStackLayers + 1
           /\ Len(Nodes) \in Nat
           /\ DOMAIN Nodes = 1 .. Len(Nodes)
<1>1. DeepStackLayers \in 0 .. Layers
    BY BridgeAssumption DEF DeepStackLayers
<1>2. Layers + DeepStackLayers + 1 \in Nat
    BY <1>1, BridgeAssumption
<1>3. DOMAIN Nodes = 1 .. Layers + DeepStackLayers + 1
    BY DEF Nodes
<1>4. Len(Nodes) = Layers + DeepStackLayers + 1
    <2> DEFINE S == {Nodes[i] : i \in 1 .. Layers + DeepStackLayers + 1}
    <2>1. Nodes \in [1 .. Layers + DeepStackLayers + 1 -> S]
        BY DEF Nodes
    <2> HIDE DEF S
    <2> QED BY <1>2, <2>1, FunctionIsSequence
<1> QED
    BY <1>1, <1>2, <1>3, <1>4

(* What a place in the graph says of the node there.                       *)
LEMMA NodeAt ==
    ASSUME model \in Models, NEW i \in 1 .. Len(Nodes)
    PROVE  \/ i = Len(Nodes) /\ Nodes[i] = ResultNorm
           \/ /\ i > 2 * DeepStackLayers /\ i < Len(Nodes)
              /\ Nodes[i] = LOut(i - DeepStackLayers)
           \/ \E k \in 1 .. DeepStackLayers :
                 \/ i = 2 * k - 1 /\ Nodes[i] = LOut(k)
                 \/ i = 2 * k /\ Nodes[i] = DeepStackOut(k)
<1> USE NodesLength, BridgeAssumption
<1> DEFINE D == DeepStackLayers
<1>1. Nodes[i] = IF i = Len(Nodes) THEN ResultNorm
                 ELSE IF i > 2 * D THEN LOut(i - D)
                 ELSE IF i % 2 = 1 THEN LOut((i + 1) \div 2)
                 ELSE DeepStackOut(i \div 2)
    BY DEF Nodes
<1>2. CASE i = Len(Nodes)
    BY <1>1, <1>2
<1>3. CASE i # Len(Nodes) /\ i > 2 * D
    BY <1>1, <1>3
<1>4. CASE i # Len(Nodes) /\ ~(i > 2 * D) /\ i % 2 = 1
    <2>1. (i + 1) \div 2 \in 1 .. D /\ i = 2 * ((i + 1) \div 2) - 1
        BY <1>4
    <2>2. Nodes[i] = LOut((i + 1) \div 2)
        BY <1>1, <1>4
    <2> QED BY <2>1, <2>2
<1>5. CASE i # Len(Nodes) /\ ~(i > 2 * D) /\ i % 2 # 1
    <2>1. i \div 2 \in 1 .. D /\ i = 2 * (i \div 2)
        BY <1>5
    <2>2. Nodes[i] = DeepStackOut(i \div 2)
        BY <1>1, <1>5
    <2> QED BY <2>1, <2>2
<1> QED
    BY <1>2, <1>3, <1>4, <1>5

(* No two nodes of a graph have one name.                                  *)
LEMMA NodesDiffer ==
    ASSUME model \in Models,
           NEW i \in 1 .. Len(Nodes), NEW j \in 1 .. Len(Nodes),
           Nodes[i] = Nodes[j]
    PROVE  i = j
<1>1. \A k, l : LOut(k) = LOut(l) => k = l
    BY DEF LOut
<1>2. \A k, l : DeepStackOut(k) = DeepStackOut(l) => k = l
    BY DEF DeepStackOut
<1>3. \A k, l : LOut(k) # DeepStackOut(l)
    BY DEF LOut, DeepStackOut
<1>4. \A k : LOut(k) # ResultNorm /\ DeepStackOut(k) # ResultNorm
    BY DEF LOut, DeepStackOut, ResultNorm
<1> QED
    BY NodeAt, NodesLength, BridgeAssumption, <1>1, <1>2, <1>3, <1>4, SMTT(30)

LEMMA LayersAreNodes ==
    ASSUME model \in Models, NEW k \in 1 .. Layers
    PROVE  /\ LOut(k) \in AllNodes
           /\ k <= DeepStackLayers => DeepStackOut(k) \in AllNodes
           /\ ResultNorm \in AllNodes
<1> USE NodesLength, BridgeAssumption
<1> DEFINE D == DeepStackLayers
           at(i) == Nodes[i] = IF i = Len(Nodes) THEN ResultNorm
                               ELSE IF i > 2 * D THEN LOut(i - D)
                               ELSE IF i % 2 = 1 THEN LOut((i + 1) \div 2)
                               ELSE DeepStackOut(i \div 2)
<1>1. \A i \in 1 .. Len(Nodes) : at(i)
    BY DEF Nodes
<1>2. ResultNorm \in AllNodes
    <2>1. Len(Nodes) \in 1 .. Len(Nodes)
        OBVIOUS
    <2> QED BY <1>1, <2>1 DEF AllNodes
<1>3. CASE k > D
    <2>1. k + D \in 1 .. Len(Nodes) /\ k + D # Len(Nodes) /\ k + D > 2 * D
          /\ k + D - D = k
        BY <1>3
    <2>2. Nodes[k + D] = LOut(k)
        BY <1>1, <2>1
    <2> QED BY <1>2, <1>3, <2>1, <2>2 DEF AllNodes
<1>4. CASE k <= D
    <2>1. /\ 2 * k - 1 \in 1 .. Len(Nodes) /\ 2 * k - 1 # Len(Nodes)
          /\ ~(2 * k - 1 > 2 * D) /\ (2 * k - 1) % 2 = 1
          /\ (2 * k - 1 + 1) \div 2 = k
        BY <1>4
    <2>2. Nodes[2 * k - 1] = LOut(k)
        BY <1>1, <2>1
    <2>3. /\ 2 * k \in 1 .. Len(Nodes) /\ 2 * k # Len(Nodes)
          /\ ~(2 * k > 2 * D) /\ (2 * k) % 2 # 1 /\ (2 * k) \div 2 = k
        BY <1>4
    <2>4. Nodes[2 * k] = DeepStackOut(k)
        BY <1>1, <2>3
    <2> QED BY <1>2, <2>1, <2>2, <2>3, <2>4 DEF AllNodes
<1> QED
    BY <1>3, <1>4

LEMMA NodesAreNamed ==
    ASSUME model \in Models
    PROVE  AllNodes \subseteq NodeNames
<1> SUFFICES ASSUME NEW i \in 1 .. Len(Nodes)
             PROVE  Nodes[i] \in NodeNames
    BY DEF AllNodes
<1>1. \A k \in Nat : LOut(k) \in NodeNames /\ DeepStackOut(k) \in NodeNames
    BY DEF LOut, DeepStackOut, NodeNames
<1>2. ResultNorm \in NodeNames
    BY BridgeAssumption DEF ResultNorm, NodeNames
<1> QED
    BY NodeAt, NodesLength, BridgeAssumption, <1>1, <1>2

(* The entries of the tuple of hidden states are different outputs.        *)
LEMMA SourcesAreNodes ==
    ASSUME model \in Models
    PROVE  /\ \A k \in 1 .. Layers : Source(k) \in AllNodes
           /\ \A j, k \in 1 .. Layers : Source(j) = Source(k) => j = k
           /\ LastHidden \in AllNodes
<1>1. \A k, l : LOut(k) = LOut(l) => k = l
    BY DEF LOut
<1>2. \A k, l : DeepStackOut(k) = DeepStackOut(l) => k = l
    BY DEF DeepStackOut
<1>3. \A k, l : LOut(k) # DeepStackOut(l)
    BY DEF LOut, DeepStackOut
<1>4. \A k : LOut(k) # ResultNorm /\ DeepStackOut(k) # ResultNorm
    BY DEF LOut, DeepStackOut, ResultNorm
<1>5. Layers \in 1 .. Layers
    BY BridgeAssumption
<1>6. ASSUME NEW k \in 1 .. Layers
      PROVE  Source(k) \in AllNodes
    BY LayersAreNodes DEF Source, DeepStackLayers, Models
<1>7. ASSUME NEW j \in 1 .. Layers, NEW k \in 1 .. Layers,
             Source(j) = Source(k)
      PROVE  j = k
    BY <1>1, <1>2, <1>3, <1>4, <1>7 DEF Source
<1>8. LastHidden \in AllNodes
    BY LayersAreNodes, <1>5 DEF LastHidden
<1> QED
    BY <1>6, <1>7, <1>8

---------------------------------------------------------------------------
(* Steps without a graph                                                   *)

LEMMA SameModel ==
    ASSUME UNCHANGED model
    PROVE  /\ Nodes' = Nodes /\ AllNodes' = AllNodes
           /\ Boundaries' = Boundaries
           /\ \A n : Device(n)' = Device(n)
<1>1. Nodes' = Nodes
    BY DEF Nodes, DeepStackLayers
<1>2. Boundaries' = Boundaries
    BY <1>1 DEF Boundaries
<1> QED
    BY <1>1, <1>2 DEF AllNodes, Device

LEMMA SameCall ==
    ASSUME UNCHANGED call
    PROVE  Matches' = Matches /\ Queries' = Queries
<1>1. Matches' = Matches
    BY DEF Matches
<1> QED
    BY <1>1 DEF Queries

LEMMA CallKept ==
    ASSUME CallInv, stage # "ready", UNCHANGED <<model, call>>
    PROVE  CallInv'
BY SameModel DEF CallInv, SlotsAreSound

(* Outside of a graph and of a generation, little has to be shown.         *)
LEMMA OutsideOfGraph ==
    ASSUME stage \in {"ready", "prompt", "returned"},
           RestInv, CudaInv, CallInv, AnswerInv
    PROVE  BridgeInv
BY DEF BridgeInv, GraphInv, SeenInv, CountInv, WholeInv, DeviceInv, FaultInv,
       GenerateInv

LEMMA OutsideOfGraphAfter ==
    ASSUME stage' \in {"ready", "prompt", "returned"},
           RestInv', CudaInv', CallInv', AnswerInv'
    PROVE  BridgeInv'
BY DEF BridgeInv, GraphInv, SeenInv, CountInv, WholeInv, DeviceInv, FaultInv,
       GenerateInv

LEMMA EmptyMemory ==
    \A m : Emptied(m) \in [cells : 0 .. n_ctx, from : SUBSET Nat]
BY BridgeAssumption DEF Emptied, Empty

(* The capture is off and the memory empty, with or without a graph before.*)
LEMMA RestAfter ==
    ASSUME RestInv, UNCHANGED model, stage' \in {"ready", "returned"},
           capture' = Disabled, embeddings' = FALSE, sequence' = <<>>,
           memory' \in [cells : 0 .. n_ctx, from : SUBSET Nat],
           fault' \in BOOLEAN
    PROVE  RestInv'
<1>1. embeddings' \in BOOLEAN /\ ~embeddings'
    OBVIOUS
<1>2. stage' \in {"ready", "prompt", "graph", "select", "extend", "returned"}
    OBVIOUS
<1>3. model' \in Models
    BY DEF RestInv
<1> QED
    BY <1>1, <1>2, <1>3 DEF RestInv

(* A call that failed.                                                     *)
LEMMA CatchStep ==
    ASSUME BridgeInv, stage # "ready", Catch, fault' \in BOOLEAN, Excused',
           UNCHANGED <<model, call, cuda_capture>>
    PROVE  BridgeInv'
<1> USE DEF Catch, Return
<1>1. RestInv'
    BY EmptyMemory, RestAfter DEF BridgeInv, Disable
<1>2. CudaInv'
    BY DEF BridgeInv, CudaInv
<1>3. CallInv'
    BY CallKept DEF BridgeInv
<1>4. AnswerInv'
    BY DEF AnswerInv, Unanswered
<1> QED
    BY <1>1, <1>2, <1>3, <1>4, OutsideOfGraphAfter

(* What an engine may ask the bridge for.                                  *)
CallIsSound(id, kind, tokens, tuple_indices, count) ==
    /\ id \in Nat
    /\ kind \in {"generate", "tokens", "full", "layers"}
    /\ Len(tokens) \in Nat
    /\ kind = "tokens" => count \in Nat \ {0}
    /\ kind = "layers" =>
          /\ Len(tuple_indices) \in Nat \ {0}
          /\ \A s \in 1 .. Len(tuple_indices) : tuple_indices[s] \in 1 .. Layers
          /\ \A s, t \in 1 .. Len(tuple_indices) :
                tuple_indices[s] = tuple_indices[t] => s = t

LEMMA WantedIsSound ==
    ASSUME model \in Models, NEW kind, NEW tuple_indices, kind # "generate",
           kind = "layers" =>
              /\ Len(tuple_indices) \in Nat \ {0}
              /\ \A s \in 1 .. Len(tuple_indices) :
                    tuple_indices[s] \in 1 .. Layers
              /\ \A s, t \in 1 .. Len(tuple_indices) :
                    tuple_indices[s] = tuple_indices[t] => s = t
    PROVE  SlotsAreSound(Wanted(kind, tuple_indices), kind)
<1>1. CASE kind = "layers"
    <2> DEFINE n == Len(tuple_indices)
               w == [s \in 1 .. n |-> Source(tuple_indices[s])]
    <2>1. w \in [1 .. n -> AllNodes]
        BY <1>1, SourcesAreNodes
    <2>2. Len(w) = n
        BY <1>1, <2>1, FunctionIsSequence
    <2>3. \A s, t \in 1 .. n : w[s] = w[t] => s = t
        BY <1>1, SourcesAreNodes
    <2>4. Wanted(kind, tuple_indices) = w
        BY <1>1 DEF Wanted
    <2> HIDE DEF w
    <2> QED BY <1>1, <2>1, <2>2, <2>3, <2>4 DEF SlotsAreSound
<1>2. CASE kind # "layers"
    <2>1. Wanted(kind, tuple_indices) = <<LastHidden>>
        BY <1>2 DEF Wanted
    <2>2. LastHidden \in AllNodes
        BY SourcesAreNodes
    <2> HIDE DEF LastHidden
    <2> QED BY <2>1, <2>2 DEF SlotsAreSound
<1> QED
    BY <1>1, <1>2

LEMMA CallStep ==
    ASSUME BridgeInv, NEW id, NEW kind, NEW tokens, NEW tuple_indices,
           NEW count, CallIsSound(id, kind, tokens, tuple_indices, count),
           BridgeCall(id, kind, tokens, tuple_indices, count)
    PROVE  BridgeInv'
<1> USE DEF BridgeCall
<1>1. RestInv'
    BY DEF BridgeInv, RestInv
<1>2. CudaInv'
    BY DEF BridgeInv, CudaInv
<1>3. CallInv'
    <2>1. SlotsAreSound(call'.wanted, kind)
        <3>1. CASE kind = "generate"
            <4>1. call'.wanted = <<>>
                BY <3>1
            <4> QED BY <4>1, <3>1 DEF SlotsAreSound
        <3>2. CASE kind # "generate"
            <4>1. model \in Models
                BY DEF BridgeInv, RestInv
            <4>2. call'.wanted = Wanted(kind, tuple_indices)
                BY <3>2
            <4> QED BY <3>2, <4>1, <4>2, WantedIsSound DEF CallIsSound
        <3> QED BY <3>1, <3>2
    <2>2. SlotsAreSound(call.wanted, call.kind)'
        BY <2>1, SameModel DEF SlotsAreSound
    <2> QED BY <2>2 DEF CallInv, CallIsSound
<1>4. AnswerInv'
    BY DEF AnswerInv
<1> QED
    BY <1>1, <1>2, <1>3, <1>4, OutsideOfGraphAfter

(* Steps between two calls.                                                *)
LEMMA RestStep ==
    ASSUME BridgeInv, stage' = "ready", RestInv', CudaInv'
    PROVE  BridgeInv'
<1>1. CallInv' /\ AnswerInv'
    BY DEF CallInv, AnswerInv
<1> QED
    BY <1>1, OutsideOfGraphAfter

LEMMA TakenStep ==
    ASSUME BridgeInv, BridgeTaken
    PROVE  BridgeInv'
<1> USE DEF BridgeTaken
<1>1. RestInv' /\ CudaInv'
    BY DEF BridgeInv, RestInv, CudaInv
<1> QED
    BY <1>1, RestStep

LEMMA ResetStep ==
    ASSUME BridgeInv, BridgeReset
    PROVE  BridgeInv'
<1> USE DEF BridgeReset
<1>1. sequence' = <<>> /\ fault' \in BOOLEAN
    BY DEF BridgeInv, RestInv
<1>2. RestInv'
    BY <1>1, EmptyMemory, RestAfter DEF BridgeInv, Disable
<1>3. CudaInv'
    BY DEF BridgeInv, CudaInv
<1> QED
    BY <1>2, <1>3, RestStep

---------------------------------------------------------------------------
(* A generation                                                            *)

LEMMA FunctionIsList ==
    ASSUME NEW n \in Nat, NEW f, f = [i \in 1 .. n |-> f[i]]
    PROVE  IsList(f) /\ Len(f) = n
<1> DEFINE S == {f[i] : i \in 1 .. n}
<1>1. f \in [1 .. n -> S]
    OBVIOUS
<1>2. Len(f) = n
    <2> HIDE DEF S
    <2> QED BY <1>1, FunctionIsSequence
<1> QED
    BY <1>2 DEF IsList

LEMMA AppendToList ==
    ASSUME NEW s, IsList(s), NEW e
    PROVE  IsList(Append(s, e)) /\ Len(Append(s, e)) = Len(s) + 1
<1> DEFINE S == {s[i] : i \in 1 .. Len(s)} \cup {e}
<1>1. s \in [1 .. Len(s) -> S] /\ Len(s) \in Nat /\ e \in S
    BY DEF IsList
<1>2. Append(s, e) \in Seq(S) /\ Len(Append(s, e)) = Len(s) + 1
    <2> HIDE DEF S
    <2> QED BY <1>1, FunctionIsSequence, AppendProperties
<1> DEFINE f == Append(s, e)
<1>3. f \in [1 .. Len(s) + 1 -> S] /\ Len(s) + 1 \in Nat
    <2> HIDE DEF S
    <2> QED BY <1>1, <1>2, LenProperties
<1> HIDE DEF f, S
<1>4. f = [i \in 1 .. Len(s) + 1 |-> f[i]]
    BY <1>3
<1> QED
    BY <1>3, <1>4, FunctionIsList DEF f

LEMMA ExportedIsList ==
    ASSUME NEW tokens, Len(tokens) \in Nat
    PROVE  IsList(Exported(tokens)) /\ Len(Exported(tokens)) = Len(tokens)
<1> DEFINE f == Exported(tokens)
<1>1. f = [i \in 1 .. Len(tokens) |-> f[i]]
    BY DEF Exported
<1> HIDE DEF f
<1>2. IsList(f) /\ Len(f) = Len(tokens)
    BY <1>1, FunctionIsList
<1> QED
    BY <1>2 DEF f

(* The memory with the prompt alone in it.                                 *)
LEMMA FilledMemory ==
    ASSUME CallInv, stage # "ready"
    PROVE  /\ Filled(call.tokens, call.id).cells = Len(call.tokens)
           /\ Filled(call.tokens, call.id).from = {call.id}
           /\ Filled(call.tokens, call.id).cells <= n_ctx =>
                 Filled(call.tokens, call.id) \in
                     [cells : 0 .. n_ctx, from : SUBSET Nat]
<1>1. Len(call.tokens) \in Nat /\ call.id \in Nat
    BY DEF CallInv
<1>2. Filled(call.tokens, call.id) =
          [cells |-> Len(call.tokens), from |-> {call.id}]
    BY <1>1 DEF Filled, Emptied, Empty
<1> QED
    BY <1>1, <1>2, BridgeAssumption

(* An answer is given, a sequence or the outputs of a graph.               *)
LEMMA ReturnStep ==
    ASSUME BridgeInv, stage # "ready", NEW a, Return(a), AnswerInv',
           capture' = Disabled, embeddings' = FALSE,
           memory' \in [cells : 0 .. n_ctx, from : SUBSET Nat],
           UNCHANGED <<model, call, cuda_capture, fault>>
    PROVE  BridgeInv'
<1>1. fault' \in BOOLEAN
    BY DEF BridgeInv, RestInv
<1>2. RestInv'
    BY <1>1, RestAfter DEF BridgeInv, Return
<1>3. CudaInv'
    BY DEF BridgeInv, CudaInv
<1>4. CallInv'
    BY CallKept DEF BridgeInv
<1> QED
    BY <1>2, <1>3, <1>4, OutsideOfGraphAfter DEF Return

LEMMA FailPromptStep ==
    ASSUME BridgeInv, FailPrompt
    PROVE  BridgeInv'
<1>1. Filled(call.tokens, call.id).cells = Len(call.tokens)
    BY FilledMemory DEF BridgeInv, FailPrompt
<1>2. PromptIsRefused \/ Filled(call.tokens, call.id).cells <= n_ctx
    <2>1. Len(call.tokens) \in Nat
        BY DEF BridgeInv, CallInv, FailPrompt
    <2> QED BY <1>1, <2>1, BridgeAssumption DEF PromptIsRefused
<1>3. fault' = TRUE
    BY <1>2 DEF FailPrompt
<1>4. Excused' /\ fault' \in BOOLEAN
    BY <1>3 DEF Excused
<1> QED
    BY <1>4, CatchStep DEF FailPrompt

LEMMA ReturnPromptStep ==
    ASSUME BridgeInv, ReturnPrompt
    PROVE  BridgeInv'
<1> USE DEF ReturnPrompt
<1>1. AnswerInv'
    BY DEF Return, GiveSequence, AnswerInv
<1>2. capture' = Disabled /\ memory' \in [cells : 0 .. n_ctx, from : SUBSET Nat]
    BY DEF BridgeInv, RestInv
<1>3. embeddings' = FALSE
    BY DEF BridgeInv, RestInv
<1> QED
    BY <1>1, <1>2, <1>3, ReturnStep

(* The invariant while a sequence is generated.                            *)
LEMMA InGeneration ==
    ASSUME stage' \in {"select", "extend"},
           RestInv', CudaInv', CallInv', GenerateInv'
    PROVE  BridgeInv'
BY DEF BridgeInv, GraphInv, SeenInv, CountInv, WholeInv, DeviceInv, FaultInv,
       AnswerInv

LEMMA PrefillStep ==
    ASSUME BridgeInv, Prefill
    PROVE  BridgeInv'
<1> USE DEF Prefill
<1>1. Len(call.tokens) \in Nat
    BY DEF BridgeInv, CallInv
<1>2. GenerateInv'
    <2>1. Len(call.tokens) < max_length
        BY <1>1, BridgeAssumption DEF PromptIsRefused
    <2>2. IsList(sequence)' /\ Len(sequence') = Len(call.tokens)
        BY <1>1, ExportedIsList DEF IsList
    <2>3. memory'.cells = Len(call.tokens) /\ memory'.from = {call.id}
        BY FilledMemory DEF BridgeInv
    <2> QED BY <2>1, <2>2, <2>3 DEF GenerateInv
<1>3. RestInv'
    <2>1. memory' \in [cells : 0 .. n_ctx, from : SUBSET Nat]
        BY FilledMemory DEF BridgeInv
    <2>2. embeddings' \in BOOLEAN /\ ~embeddings'
        OBVIOUS
    <2>3. model' \in Models /\ fault' \in BOOLEAN
        BY DEF BridgeInv, RestInv
    <2> QED BY <2>1, <2>2, <2>3 DEF RestInv, Disable
<1>4. CudaInv'
    BY DEF BridgeInv, CudaInv
<1>5. CallInv'
    BY CallKept DEF BridgeInv
<1> QED
    BY <1>2, <1>3, <1>4, <1>5, InGeneration

LEMMA SelectStep ==
    ASSUME BridgeInv, Select
    PROVE  BridgeInv'
<1>1. GenerateInv /\ stage = "select"
    BY DEF BridgeInv, Select
<1>2. PICK row \in LogitRows :
          LET token == Top1(row, {sequence[i] : i \in 1 .. Len(sequence)},
                            Penalty)
              longer == Lengthened(sequence, token)
          IN  IF token = Eos \/ Len(longer) = max_length
              THEN /\ Return(GiveSequence(longer, memory.from))
                   /\ memory' = Emptied(memory)
              ELSE /\ stage' = "extend"
                   /\ sequence' = longer
                   /\ UNCHANGED <<memory, graph, answer>>
    BY DEF Select
<1> DEFINE token == Top1(row, {sequence[i] : i \in 1 .. Len(sequence)},
                         Penalty)
           longer == Lengthened(sequence, token)
<1>3. IsList(longer) /\ Len(longer) = Len(sequence) + 1
    <2> HIDE DEF token
    <2> QED BY <1>1, AppendToList DEF GenerateInv, Lengthened
<1>4. capture' = Disabled /\ embeddings' = FALSE
    <2>1. embeddings \in BOOLEAN /\ ~embeddings
        BY <1>1 DEF BridgeInv, RestInv
    <2>2. capture = Disabled
        BY <1>1 DEF BridgeInv, RestInv
    <2> QED BY <2>1, <2>2 DEF Select
<1>5. UNCHANGED <<model, call, cuda_capture, fault>>
    BY DEF Select
<1>6. CASE token = Eos \/ Len(longer) = max_length
    <2>1. /\ Return(GiveSequence(longer, memory.from))
          /\ memory' = Emptied(memory)
        BY <1>2, <1>6
    <2>2. AnswerInv'
        <3> HIDE DEF longer
        <3> QED BY <2>1, <1>1, <1>5
            DEF Return, GiveSequence, AnswerInv, GenerateInv
    <2>3. memory' \in [cells : 0 .. n_ctx, from : SUBSET Nat]
        BY <2>1, EmptyMemory
    <2> HIDE DEF longer
    <2> QED BY <1>1, <1>4, <1>5, <2>1, <2>2, <2>3, ReturnStep
<1>7. CASE ~(token = Eos \/ Len(longer) = max_length)
    <2>1. /\ stage' = "extend" /\ sequence' = longer
          /\ UNCHANGED memory
        BY <1>2, <1>7
    <2> HIDE DEF longer, token
    <2>2. GenerateInv'
        BY <1>1, <1>3, <1>5, <1>7, <2>1, BridgeAssumption
        DEF GenerateInv, IsList
    <2>3. RestInv'
        <3>1. model' \in Models /\ fault' \in BOOLEAN
            BY <1>5 DEF BridgeInv, RestInv
        <3>2. memory' \in [cells : 0 .. n_ctx, from : SUBSET Nat]
            BY <2>1 DEF BridgeInv, RestInv
        <3>3. embeddings' \in BOOLEAN /\ ~embeddings'
            BY <1>4
        <3> QED BY <1>4, <2>1, <3>1, <3>2, <3>3 DEF RestInv
    <2>4. CudaInv'
        BY <1>5 DEF BridgeInv, CudaInv
    <2>5. CallInv'
        BY <1>1, <1>5, CallKept DEF BridgeInv
    <2> QED BY <2>1, <2>2, <2>3, <2>4, <2>5, InGeneration
<1> QED
    BY <1>6, <1>7

LEMMA ExtendStep ==
    ASSUME BridgeInv, Extend
    PROVE  BridgeInv'
<1> USE DEF Extend
<1>1. GenerateInv /\ memory \in [cells : 0 .. n_ctx, from : SUBSET Nat]
    BY DEF BridgeInv, RestInv
<1>2. /\ memory' \in [cells : 0 .. n_ctx, from : SUBSET Nat]
      /\ memory'.cells = memory.cells + 1 /\ memory'.from = memory.from
    BY <1>1, BridgeAssumption
<1>3. GenerateInv'
    BY <1>1, <1>2 DEF GenerateInv, IsList
<1>4. RestInv'
    <2>1. model' \in Models /\ fault' \in BOOLEAN /\ capture' = Disabled
        BY DEF BridgeInv, RestInv
    <2>2. embeddings' \in BOOLEAN /\ ~embeddings'
        BY DEF BridgeInv, RestInv
    <2> QED BY <1>2, <2>1, <2>2 DEF RestInv
<1>5. CudaInv'
    BY DEF BridgeInv, CudaInv
<1>6. CallInv'
    BY CallKept DEF BridgeInv
<1> QED
    BY <1>3, <1>4, <1>5, <1>6, InGeneration

(* There is a cell for every token that is decoded: only something outside *)
(* of the bridge stops a generation.                                       *)
LEMMA FailGenerationStep ==
    ASSUME BridgeInv, FailSelect \/ FailExtend
    PROVE  BridgeInv'
<1>1. fault' = TRUE
    <2>1. CASE FailSelect
        BY <2>1 DEF FailSelect
    <2>2. CASE FailExtend
        <3>1. GenerateInv /\ stage = "extend"
            BY <2>2 DEF BridgeInv, FailExtend
        <3>2. memory.cells + 1 <= n_ctx
            BY <3>1, BridgeAssumption DEF GenerateInv, IsList
        <3> QED BY <2>2, <3>2 DEF FailExtend
    <2> QED BY <2>1, <2>2
<1>2. Excused' /\ fault' \in BOOLEAN
    BY <1>1 DEF Excused
<1> QED
    BY <1>2, CatchStep DEF FailSelect, FailExtend

---------------------------------------------------------------------------
(* A graph begins                                                          *)

LEMMA InGraphAfter ==
    ASSUME stage' = "graph",
           RestInv', CudaInv', CallInv', GraphInv', SeenInv', CountInv',
           WholeInv', DeviceInv', FaultInv'
    PROVE  BridgeInv'
BY DEF BridgeInv, GenerateInv, AnswerInv

LEMMA RangeSize ==
    ASSUME NEW n \in Nat
    PROVE  IsFiniteSet(1 .. n) /\ Cardinality(1 .. n) = n
BY FS_Interval

LEMMA TwoElements ==
    ASSUME NEW a, NEW b, a # b
    PROVE  Cardinality({a} \cup {b}) = 2
<1> DEFINE A == {a}
<1>1. IsFiniteSet(A) /\ Cardinality(A) = 1
    BY FS_Singleton
<1>2. b \notin A
    OBVIOUS
<1> HIDE DEF A
<1>3. Cardinality(A \cup {b}) = 2
    BY <1>1, <1>2, FS_AddElement
<1> QED
    BY <1>3 DEF A

(* Positions of a prompt, or slots, are counted.                           *)
LEMMA PartOfRange ==
    ASSUME NEW n \in Nat, NEW T \in SUBSET (1 .. n)
    PROVE  IsFiniteSet(T) /\ Cardinality(T) \in 0 .. n
<1>1. IsFiniteSet(1 .. n) /\ Cardinality(1 .. n) = n
    BY RangeSize
<1>2. IsFiniteSet(T) /\ Cardinality(T) <= Cardinality(1 .. n)
    BY <1>1, FS_Subset
<1>3. Cardinality(T) \in Nat
    BY <1>2, FS_CardinalityType
<1> QED
    BY <1>1, <1>2, <1>3

LEMMA WantedIsNamed ==
    ASSUME RestInv, CallInv, stage # "ready"
    PROVE  call.wanted \in Seq(NodeNames)
<1>1. Len(call.wanted) \in Nat
    BY DEF CallInv, SlotsAreSound
<1>2. call.wanted \in [1 .. Len(call.wanted) -> NodeNames]
    BY NodesAreNamed DEF CallInv, SlotsAreSound, RestInv
<1> QED
    BY <1>1, <1>2, FunctionIsSequence

LEMMA SubmitStep ==
    ASSUME BridgeInv, Submit
    PROVE  BridgeInv'
<1> USE DEF Submit
<1> DEFINE n == Len(call.wanted)
           blank == [s \in 1 .. n |-> Unwritten]
<1>1. /\ Len(call.tokens) \in Nat /\ n \in Nat
      /\ call.wanted \in Seq(NodeNames)
    BY WantedIsNamed DEF BridgeInv, CallInv, SlotsAreSound
<1>2. blank \in Seq(Cells) /\ Len(blank) = n
    <2>1. Unwritten \in Cells
        BY DEF Unwritten, Cells, NodeNames
    <2>2. blank \in [1 .. n -> Cells]
        BY <2>1
    <2> HIDE DEF blank
    <2> QED BY <1>1, <2>2, FunctionIsSequence
<1>3. capture' = [enabled |-> TRUE, token_count |-> Len(call.tokens),
                  wanted |-> call.wanted, values |-> blank, seen |-> {},
                  rounded |-> {}, cuda_captured |-> 0, error |-> FALSE]
    <2>1. capture.cuda_captured = 0
        BY DEF BridgeInv, RestInv, Disabled
    <2> QED BY <2>1 DEF Enabled, blank
<1>4. graph' = [next |-> 1, stopped |-> FALSE, from |-> {call.id}]
    BY FilledMemory DEF BridgeInv
<1> HIDE DEF blank
<1>5. capture' \in Captures
    BY <1>1, <1>2, <1>3 DEF Captures
<1>6. RestInv'
    <2>1. model' \in Models /\ fault' \in BOOLEAN /\ sequence' = <<>>
        BY DEF BridgeInv, RestInv
    <2>2. memory' \in [cells : 0 .. n_ctx, from : SUBSET Nat]
        BY FilledMemory DEF BridgeInv
    <2>3. embeddings' \in BOOLEAN
        OBVIOUS
    <2> QED BY <2>1, <2>2, <2>3 DEF RestInv
<1>7. CudaInv'
    BY DEF BridgeInv, CudaInv
<1>8. CallInv'
    BY CallKept DEF BridgeInv
<1>9. GraphInv'
    <2>1. /\ Len(call.tokens) <= n_batch
          /\ call.kind = "tokens" => Cardinality(Matches) >= call.count
        <3>1. call.kind = "tokens" => Cardinality(Matches) \in Int
            <4>1. Matches \in SUBSET (1 .. Len(call.tokens))
                BY DEF Matches
            <4> QED BY <1>1, <4>1, PartOfRange
        <3> QED BY <1>1, <3>1, BridgeAssumption
            DEF PromptIsRefused, BridgeInv, CallInv
    <2>2. /\ graph' \in [next : Nat \ {0}, stopped : BOOLEAN,
                         from : SUBSET Nat]
          /\ graph'.next = 1
        BY <1>4 DEF BridgeInv, CallInv
    <2>3. graph'.next <= Len(Nodes') + 1
        <3>1. Len(Nodes') \in Nat
            BY SameModel, NodesLength DEF BridgeInv, RestInv
        <3> QED BY <2>2, <3>1
    <2>4. capture'.enabled = TRUE
        BY <1>3
    <2>5. /\ capture'.wanted = call'.wanted
          /\ Len(capture'.values) = Len(capture'.wanted)
          /\ capture'.token_count = Len(call'.tokens)
        BY <1>2, <1>3
    <2> QED BY <1>5, <2>1, <2>2, <2>3, <2>4, <2>5, SameCall DEF GraphInv
<1>10. Earlier' = {}
    BY <1>4 DEF Earlier
<1>11. capture'.seen = {} /\ capture'.rounded = {}
    BY <1>3
<1>12. SeenInv'
    BY <1>10, <1>11 DEF SeenInv
<1>13. CountInv'
    <2>1. (DeviceSlots \cap capture.seen)' = {}
        BY <1>11
    <2> QED BY <1>3, <2>1, FS_EmptySet DEF CountInv
<1>14. WholeInv'
    <2>1. graph'.stopped = FALSE /\ graph'.from = {call'.id}
        BY <1>4
    <2> QED BY <1>11, <2>1 DEF WholeInv
<1>15. DeviceInv'
    BY <1>11 DEF DeviceInv
<1>16. FaultInv'
    <2>1. MarkedSoFar'
        BY <1>10 DEF MarkedSoFar
    <2>2. capture'.error = FALSE
        BY <1>3
    <2> QED BY <2>1, <2>2 DEF FaultInv
<1> QED
    BY <1>6, <1>7, <1>8, <1>9, <1>12, <1>13, <1>14, <1>15, <1>16,
       InGraphAfter

---------------------------------------------------------------------------
(* A graph runs                                                            *)

(* The next node was not shown before.                                     *)
LEMMA NextNode ==
    ASSUME BridgeInv, Running
    PROVE  Node \in AllNodes /\ Node \notin Earlier
<1>1. /\ Len(Nodes) \in Nat /\ graph.next \in Nat \ {0}
      /\ graph.next <= Len(Nodes)
    BY NodesLength DEF BridgeInv, RestInv, GraphInv, Running
<1>2. Node \in AllNodes
    BY <1>1 DEF Node, AllNodes
<1>3. ASSUME NEW i \in 1 .. graph.next - 1, Nodes[i] = Node
      PROVE  FALSE
    <2>1. i = graph.next
        BY <1>1, <1>3, NodesDiffer DEF Node, BridgeInv, RestInv
    <2> QED BY <1>1, <2>1
<1> QED
    BY <1>2, <1>3 DEF Earlier

LEMMA EarlierAfter ==
    ASSUME BridgeInv, Running, UNCHANGED model,
           graph'.next = graph.next + 1
    PROVE  Earlier' = Earlier \cup {Node}
<1>1. graph.next \in Nat \ {0}
    BY DEF BridgeInv, GraphInv, Running
<1>2. 1 .. graph'.next - 1 = (1 .. graph.next - 1) \cup {graph.next}
    BY <1>1
<1>3. Nodes' = Nodes
    BY SameModel
<1> QED
    BY <1>2, <1>3 DEF Earlier, Node

(* What all of the steps of a graph keep.                                  *)
LEMMA StepKeeps ==
    ASSUME BridgeInv, Running, NEW stopped \in BOOLEAN,
           NEW from \in SUBSET Nat, Step(stopped, from),
           fault' \in BOOLEAN, capture' \in Captures, capture'.enabled,
           capture'.wanted = capture.wanted,
           capture'.token_count = capture.token_count,
           Len(capture'.values) = Len(capture.values)
    PROVE  RestInv' /\ CallInv' /\ GraphInv'
<1> USE DEF Step, Running
<1>1. RestInv'
    BY DEF BridgeInv, RestInv
<1>2. CallInv'
    BY CallKept DEF BridgeInv
<1>3. GraphInv'
    <2>1. GraphInv
        BY DEF BridgeInv
    <2>2. graph' \in [next : Nat \ {0}, stopped : BOOLEAN, from : SUBSET Nat]
        BY <2>1 DEF GraphInv
    <2>3. graph'.next <= Len(Nodes') + 1
        <3>1. Len(Nodes) \in Nat
            BY NodesLength DEF BridgeInv, RestInv
        <3> QED BY <2>1, <3>1, SameModel DEF GraphInv
    <2>4. Matches' = Matches
        BY SameCall
    <2> QED BY <2>1, <2>2, <2>3, <2>4 DEF GraphInv
<1> QED
    BY <1>1, <1>2, <1>3

LEMMA SameSlots ==
    ASSUME UNCHANGED model, capture'.wanted = capture.wanted
    PROVE  /\ DeviceSlots' = DeviceSlots
           /\ \A n : Wants(n)' <=> Wants(n)
<1>1. \A n : Wants(n)' <=> Wants(n)
    BY DEF Wants
<1>2. \A n : OnDevice(n)' <=> OnDevice(n)
    BY <1>1, SameModel DEF OnDevice, TriesDevice
<1> QED
    BY <1>1, <1>2 DEF DeviceSlots

(* If all are marked after a step, all were before it.                     *)
LEMMA MarkedBefore ==
    ASSUME BridgeInv, Running, UNCHANGED model,
           graph'.next = graph.next + 1, capture'.wanted = capture.wanted,
           \A s \in capture'.seen : s \in capture.seen
                                    \/ capture.wanted[s] = Node,
           capture'.rounded \subseteq capture.rounded \cup {Node},
           MarkedSoFar'
    PROVE  MarkedSoFar
BY NextNode, EarlierAfter, SameModel DEF MarkedSoFar

(* A node that was left out is not marked.                                 *)
LEMMA LeftOut ==
    ASSUME BridgeInv, Running, Watched(Node), UNCHANGED model,
           graph'.next = graph.next + 1, capture'.wanted = capture.wanted,
           capture'.seen = capture.seen, capture'.rounded = capture.rounded
    PROVE  ~MarkedSoFar'
<1>1. SeenInv
    BY DEF BridgeInv
<1>2. CASE Wants(Node)
    BY <1>1, <1>2, NextNode, EarlierAfter
    DEF MarkedSoFar, SeenInv, Wants, Running
<1>3. CASE Node \in Boundaries
    BY <1>1, <1>3, NextNode, EarlierAfter, SameModel
    DEF MarkedSoFar, SeenInv, Running
<1> QED
    BY <1>2, <1>3 DEF Watched

LEMMA SameMarks ==
    ASSUME BridgeInv, Running, UNCHANGED model,
           graph'.next = graph.next + 1, capture'.wanted = capture.wanted,
           capture'.seen = capture.seen, capture'.rounded = capture.rounded,
           capture'.cuda_captured = capture.cuda_captured
    PROVE  /\ stage' = "graph" => SeenInv' /\ CountInv'
           /\ MarkedSoFar' => MarkedSoFar
<1>1. SeenInv /\ CountInv /\ stage = "graph"
    BY DEF BridgeInv, Running
<1>2. SeenInv'
    BY <1>1, EarlierAfter, SameModel DEF SeenInv
<1>3. CountInv'
    BY <1>1, SameSlots DEF CountInv
<1>4. MarkedSoFar' => MarkedSoFar
    BY MarkedBefore
<1> QED
    BY <1>2, <1>3, <1>4

(* The scheduler leaves out a node, or the callback does not ask for it.   *)
LEMMA UnseenStep ==
    ASSUME BridgeInv, Drop \/ Pass
    PROVE  BridgeInv'
<1>1. /\ Running /\ UNCHANGED <<capture, cuda_capture, fault>>
      /\ graph'.next = graph.next + 1
      /\ UNCHANGED <<model, stage, call, answer>>
    BY DEF Drop, Pass, Step
<1>2. /\ stage = "graph" /\ stage' = "graph" /\ GraphInv
      /\ fault' \in BOOLEAN /\ fault \in BOOLEAN
    BY <1>1 DEF Running, BridgeInv, RestInv
<1>3. RestInv' /\ CallInv' /\ GraphInv'
    <2>1. graph.from \in SUBSET Nat /\ graph.from \cup {0} \in SUBSET Nat
        BY <1>2 DEF GraphInv
    <2>2. Step(TRUE, graph.from \cup {0}) \/ Step(FALSE, graph.from)
        BY DEF Drop, Pass
    <2>3. /\ capture' \in Captures /\ capture'.enabled
          /\ capture'.wanted = capture.wanted
          /\ capture'.token_count = capture.token_count
          /\ Len(capture'.values) = Len(capture.values)
        BY <1>1, <1>2 DEF GraphInv
    <2> QED BY <1>1, <1>2, <2>1, <2>2, <2>3, StepKeeps
<1>4. CudaInv'
    BY <1>1 DEF BridgeInv, CudaInv
<1>5. SeenInv' /\ CountInv' /\ (MarkedSoFar' => MarkedSoFar)
    BY <1>1, <1>2, SameMarks
<1>6. DeviceSlots' = DeviceSlots /\ TotalCount' = TotalCount
    BY <1>1, SameSlots DEF TotalCount
<1>7. MarkedSoFar => Pass
    <2>1. ASSUME MarkedSoFar, Drop PROVE FALSE
        BY <1>2, <2>1 DEF Drop, Dropped, BridgeInv, WholeInv
    <2> QED BY <2>1
<1>8. WholeInv'
    <2>1. MarkedSoFar' =>
              graph'.stopped = FALSE /\ graph'.from = graph.from
        BY <1>5, <1>7 DEF Pass, Step
    <2>2. WholeInv
        BY DEF BridgeInv
    <2> QED BY <1>1, <1>2, <1>5, <1>6, <2>1, <2>2 DEF WholeInv, Right
<1>9. DeviceInv'
    <2>1. DeviceInv
        BY DEF BridgeInv
    <2> QED BY <1>1, <1>2, <1>5, <1>6, <2>1, SameModel DEF DeviceInv, Right
<1>10. FaultInv'
    <2>1. SUFFICES ASSUME ~fault
                   PROVE  MarkedSoFar' /\ ~capture'.error
        BY <1>1 DEF FaultInv
    <2>2. MarkedSoFar /\ ~capture.error
        BY <1>2, <2>1 DEF BridgeInv, FaultInv
    <2>3. ~Wants(Node) /\ Node \notin Boundaries
        BY <1>2, <1>7, <2>2 DEF Pass, Watched, GraphInv
    <2>4. MarkedSoFar'
        BY <1>1, <2>2, <2>3, EarlierAfter, SameModel DEF MarkedSoFar, Wants
    <2> QED BY <1>1, <2>2, <2>4
<1> QED
    BY <1>2, <1>3, <1>4, <1>5, <1>8, <1>9, <1>10, InGraphAfter

(* The whole prompt is one piece.                                          *)
LEMMA PromptIsOnePiece ==
    ASSUME BridgeInv, Running
    PROVE  ShapeFits
BY BridgeAssumption
DEF BridgeInv, CallInv, GraphInv, Running, ShapeFits, PieceTokens, n_ubatch

LEMMA RefuseStep ==
    ASSUME BridgeInv, Refuse
    PROVE  BridgeInv'
<1>1. /\ Running /\ graph'.next = graph.next + 1 /\ Watched(Node)
      /\ capture' = [capture EXCEPT !.error = TRUE]
      /\ UNCHANGED <<model, stage, call>>
    BY DEF Refuse, Step
<1>2. /\ stage = "graph" /\ stage' = "graph" /\ GraphInv
    BY <1>1 DEF Running, BridgeInv
<1>3. fault' = TRUE
    BY <1>1, PromptIsOnePiece DEF Refuse
<1>4. /\ capture' \in Captures /\ capture'.enabled = capture.enabled
      /\ capture'.wanted = capture.wanted
      /\ capture'.token_count = capture.token_count
      /\ capture'.values = capture.values
      /\ capture'.seen = capture.seen
      /\ capture'.rounded = capture.rounded
      /\ capture'.cuda_captured = capture.cuda_captured
    <2>1. capture \in Captures
        BY <1>2 DEF GraphInv
    <2> QED BY <1>1, <2>1 DEF Captures
<1>5. RestInv' /\ CallInv' /\ GraphInv'
    <2>1. graph.from \cup {0} \in SUBSET Nat
        BY <1>2 DEF GraphInv
    <2>2. Step(TRUE, graph.from \cup {0})
        BY DEF Refuse
    <2>3. fault' \in BOOLEAN /\ capture'.enabled
        BY <1>2, <1>3, <1>4 DEF GraphInv
    <2> QED BY <1>1, <1>4, <2>1, <2>2, <2>3, StepKeeps
<1>6. CudaInv'
    <2>1. cuda_capture' = cuda_capture \/ cuda_capture' = NoCapture
        BY DEF Refuse
    <2> QED BY <2>1 DEF BridgeInv, CudaInv, NoCapture
<1>7. SeenInv' /\ CountInv'
    BY <1>1, <1>2, <1>4, SameMarks
<1>8. ~MarkedSoFar'
    BY <1>1, <1>4, LeftOut
<1>9. WholeInv' /\ DeviceInv'
    BY <1>8 DEF WholeInv, DeviceInv
<1>10. FaultInv'
    BY <1>3 DEF FaultInv
<1> QED
    BY <1>2, <1>5, <1>6, <1>7, <1>9, <1>10, InGraphAfter

(* The fields of the capture after an output was shown.                    *)
LEMMA ObservedCapture ==
    ASSUME BridgeInv, Observe
    PROVE  /\ capture' \in Captures /\ capture'.enabled = capture.enabled
           /\ capture'.wanted = capture.wanted
           /\ capture'.token_count = capture.token_count
           /\ capture'.seen = IF Wants(Node)
                              THEN capture.seen \cup {SlotOf(Node)}
                              ELSE capture.seen
           /\ capture'.rounded = IF Node \in Boundaries
                                 THEN capture.rounded \cup {Node}
                                 ELSE capture.rounded
           /\ capture'.error = ErrorAfter(Node)
           /\ capture'.cuda_captured = IF OnDevice(Node)
                                       THEN capture.cuda_captured + 1
                                       ELSE capture.cuda_captured
           /\ Len(capture'.values) = Len(capture.values)
           /\ OnDevice(Node) => capture'.values = capture.values
           /\ ~OnDevice(Node) => capture'.values =
                 [s \in DOMAIN capture.values |->
                     IF capture.wanted[s] = Node
                     THEN [node |-> Node, from |-> graph.from]
                     ELSE capture.values[s]]
<1>1. Running /\ capture \in Captures /\ graph.from \in SUBSET Nat
    BY DEF Observe, Running, BridgeInv, GraphInv
<1>2. Node \in NodeNames
    BY <1>1, NextNode, NodesAreNamed DEF BridgeInv, RestInv
<1>3. Wants(Node) => SlotOf(Node) \in Nat
    <2>1. Len(capture.wanted) \in Nat
        BY <1>1, LenProperties DEF Captures
    <2> QED BY <2>1 DEF Wants, SlotOf
<1>4. ErrorAfter(Node) \in BOOLEAN
    BY <1>1 DEF ErrorAfter, Captures
<1> DEFINE m == Marked(Node)
<1>5. /\ m \in Captures /\ m.enabled = capture.enabled
      /\ m.wanted = capture.wanted
      /\ m.token_count = capture.token_count
      /\ m.seen = IF Wants(Node) THEN capture.seen \cup {SlotOf(Node)}
                  ELSE capture.seen
      /\ m.rounded = IF Node \in Boundaries
                     THEN capture.rounded \cup {Node}
                     ELSE capture.rounded
      /\ m.error = ErrorAfter(Node)
      /\ m.cuda_captured = capture.cuda_captured
      /\ m.values = capture.values
    BY <1>1, <1>2, <1>3, <1>4 DEF Marked, Captures
<1> HIDE DEF m
<1>6. CASE OnDevice(Node)
    <2>1. capture' = [m EXCEPT !.cuda_captured = @ + 1]
        BY <1>6 DEF Observe, m
    <2> QED BY <1>5, <1>6, <2>1 DEF Captures
<1>7. CASE ~OnDevice(Node)
    <2> DEFINE v == [s \in DOMAIN capture.values |->
                        IF capture.wanted[s] = Node
                        THEN [node |-> Node, from |-> graph.from]
                        ELSE capture.values[s]]
    <2>1. capture' = [m EXCEPT !.values = v]
        BY <1>5, <1>7 DEF Observe, m
    <2>2. v \in Seq(Cells) /\ Len(v) = Len(capture.values)
        <3>1. capture.values \in Seq(Cells)
            BY <1>1 DEF Captures
        <3>2. /\ Len(capture.values) \in Nat
              /\ capture.values \in [1 .. Len(capture.values) -> Cells]
            BY <3>1, LenProperties
        <3>3. [node |-> Node, from |-> graph.from] \in Cells
            BY <1>1, <1>2 DEF Cells
        <3>4. v \in [1 .. Len(capture.values) -> Cells]
            BY <3>2, <3>3
        <3> HIDE DEF v
        <3> QED BY <3>2, <3>4, FunctionIsSequence
    <2>3. ~OnDevice(Node) => capture'.values = v
        <3> HIDE DEF v
        <3> QED BY <1>5, <2>1 DEF Captures
    <2> HIDE DEF v
    <2>4. /\ capture' \in Captures
          /\ capture'.enabled = m.enabled
          /\ capture'.wanted = m.wanted
          /\ capture'.token_count = m.token_count
          /\ capture'.seen = m.seen
          /\ capture'.rounded = m.rounded
          /\ capture'.error = m.error
          /\ capture'.cuda_captured = m.cuda_captured
        BY <1>5, <2>1, <2>2 DEF Captures
    <2>5. Len(capture'.values) = Len(capture.values)
        BY <1>7, <2>2, <2>3
    <2> QED BY <1>5, <1>7, <2>3, <2>4, <2>5 DEF v
<1> QED
    BY <1>6, <1>7

(* A wanted output has one slot, which was not seen before.                *)
LEMMA NextSlot ==
    ASSUME BridgeInv, Running, Wants(Node)
    PROVE  /\ SlotOf(Node) \in 1 .. Len(capture.wanted)
           /\ capture.wanted[SlotOf(Node)] = Node
           /\ SlotOf(Node) \notin capture.seen
           /\ \A s \in 1 .. Len(capture.wanted) :
                 capture.wanted[s] = Node => s = SlotOf(Node)
           /\ SlotOf(Node) \in DeviceSlots <=> OnDevice(Node)
<1>1. /\ SlotOf(Node) \in 1 .. Len(capture.wanted)
      /\ capture.wanted[SlotOf(Node)] = Node
    BY DEF Wants, SlotOf
<1>2. SlotOf(Node) \notin capture.seen
    BY <1>1, NextNode DEF BridgeInv, SeenInv, Running
<1>3. \A s \in 1 .. Len(capture.wanted) :
          capture.wanted[s] = Node => s = SlotOf(Node)
    BY <1>1 DEF BridgeInv, CallInv, GraphInv, SlotsAreSound, Running
<1>4. SlotOf(Node) \in DeviceSlots <=> OnDevice(Node)
    BY <1>1 DEF DeviceSlots
<1> QED
    BY <1>1, <1>2, <1>3, <1>4

LEMMA SlotsAreFinite ==
    ASSUME BridgeInv, stage = "graph"
    PROVE  /\ capture.seen \in SUBSET (1 .. Len(capture.wanted))
           /\ Len(capture.wanted) \in Nat
           /\ IsFiniteSet(DeviceSlots \cap capture.seen)
           /\ Cardinality(DeviceSlots \cap capture.seen) \in
                 0 .. Len(capture.wanted)
<1>1. /\ capture.seen \in SUBSET (1 .. Len(capture.wanted))
      /\ Len(capture.wanted) \in Nat
    BY DEF BridgeInv, CallInv, GraphInv, SeenInv, SlotsAreSound
<1>2. DeviceSlots \cap capture.seen \in SUBSET (1 .. Len(capture.wanted))
    BY <1>1
<1> QED
    BY <1>1, <1>2, PartOfRange

LEMMA ObserveSeen ==
    ASSUME BridgeInv, Observe
    PROVE  SeenInv' /\ CountInv' /\ (MarkedSoFar' => MarkedSoFar)
<1>1. /\ Running /\ graph'.next = graph.next + 1 /\ stage = "graph"
      /\ UNCHANGED <<model, stage, call>>
    BY DEF Observe, Step, Running
<1>2. /\ capture'.wanted = capture.wanted
      /\ capture'.seen = IF Wants(Node)
                         THEN capture.seen \cup {SlotOf(Node)}
                         ELSE capture.seen
      /\ capture'.rounded = IF Node \in Boundaries
                            THEN capture.rounded \cup {Node}
                            ELSE capture.rounded
      /\ capture'.cuda_captured = IF OnDevice(Node)
                                  THEN capture.cuda_captured + 1
                                  ELSE capture.cuda_captured
    BY ObservedCapture
<1>3. SeenInv'
    <2>1. SeenInv
        BY DEF BridgeInv
    <2> QED BY <1>1, <1>2, <2>1, NextSlot, EarlierAfter, SameModel
        DEF SeenInv
<1>4. CountInv'
    <2> DEFINE T == DeviceSlots \cap capture.seen
    <2>1. IsFiniteSet(T) /\ capture.cuda_captured = Cardinality(T)
        BY <1>1, SlotsAreFinite DEF BridgeInv, CountInv
    <2>2. (DeviceSlots \cap capture.seen)' = DeviceSlots \cap capture'.seen
        BY <1>1, <1>2, SameSlots
    <2>3. CASE OnDevice(Node)
        <3>1. Wants(Node)
            BY <2>3 DEF OnDevice, TriesDevice
        <3>2. DeviceSlots \cap capture'.seen = T \cup {SlotOf(Node)}
              /\ SlotOf(Node) \notin T
            BY <1>1, <1>2, <2>3, <3>1, NextSlot
        <3> HIDE DEF T
        <3>3. Cardinality(T \cup {SlotOf(Node)}) = Cardinality(T) + 1
            BY <2>1, <3>2, FS_AddElement
        <3> QED BY <1>2, <2>1, <2>2, <2>3, <3>2, <3>3 DEF CountInv
    <2>4. CASE ~OnDevice(Node)
        <3>1. DeviceSlots \cap capture'.seen = T
            BY <1>1, <1>2, <2>4, NextSlot
        <3> HIDE DEF T
        <3> QED BY <1>2, <2>1, <2>2, <2>4, <3>1 DEF CountInv
    <2> QED BY <2>3, <2>4
<1>5. MarkedSoFar' => MarkedSoFar
    <2>1. \A s \in capture'.seen : s \in capture.seen
                                   \/ capture.wanted[s] = Node
        BY <1>1, <1>2, NextSlot
    <2>2. capture'.rounded \subseteq capture.rounded \cup {Node}
        BY <1>2
    <2> QED BY <1>1, <1>2, <2>1, <2>2, MarkedBefore
<1> QED
    BY <1>3, <1>4, <1>5

LEMMA ObserveWhole ==
    ASSUME BridgeInv, Observe
    PROVE  WholeInv'
<1>1. /\ Running /\ graph'.next = graph.next + 1 /\ stage = "graph"
      /\ graph'.stopped = FALSE /\ graph'.from = graph.from
      /\ UNCHANGED <<model, stage, call>>
    BY DEF Observe, Step, Running
<1>2. /\ capture'.wanted = capture.wanted
      /\ capture'.seen = IF Wants(Node)
                         THEN capture.seen \cup {SlotOf(Node)}
                         ELSE capture.seen
      /\ OnDevice(Node) => capture'.values = capture.values
      /\ ~OnDevice(Node) => capture'.values =
            [s \in DOMAIN capture.values |->
                IF capture.wanted[s] = Node
                THEN [node |-> Node, from |-> graph.from]
                ELSE capture.values[s]]
    BY ObservedCapture
<1>3. SUFFICES ASSUME MarkedSoFar'
               PROVE  /\ graph.from = {call.id}
                      /\ \A s \in capture'.seen \ DeviceSlots :
                            capture'.values[s] = Right(s)
    BY <1>1, <1>2, SameSlots DEF WholeInv, Right
<1>4. MarkedSoFar
    BY <1>3, ObserveSeen
<1>5. /\ graph.from = {call.id}
      /\ \A s \in capture.seen \ DeviceSlots : capture.values[s] = Right(s)
    BY <1>1, <1>4 DEF BridgeInv, WholeInv
<1>6. ASSUME NEW s \in capture'.seen \ DeviceSlots
      PROVE  capture'.values[s] = Right(s)
    <2>1. CASE s \in capture.seen
        <3>1. /\ s \in 1 .. Len(capture.wanted)
              /\ capture.wanted[s] # Node
            BY <1>1, <2>1, NextNode DEF BridgeInv, SeenInv
        <3>2. s \in DOMAIN capture.values
            <4>1. capture.values \in Seq(Cells)
                BY <1>1 DEF BridgeInv, GraphInv, Captures
            <4>2. DOMAIN capture.values = 1 .. Len(capture.wanted)
                BY <1>1, <4>1, LenProperties DEF BridgeInv, GraphInv
            <4> QED BY <3>1, <4>2
        <3>3. capture'.values[s] = capture.values[s]
            BY <1>2, <3>1, <3>2
        <3> QED BY <1>5, <1>6, <2>1, <3>3
    <2>2. CASE s \notin capture.seen
        <3>1. Wants(Node) /\ s = SlotOf(Node)
            BY <1>2, <1>6, <2>2
        <3>2. /\ s \in 1 .. Len(capture.wanted)
              /\ capture.wanted[s] = Node
              /\ ~OnDevice(Node)
            BY <1>1, <1>6, <3>1, NextSlot
        <3>3. s \in DOMAIN capture.values
            <4>1. capture.values \in Seq(Cells)
                BY <1>1 DEF BridgeInv, GraphInv, Captures
            <4>2. DOMAIN capture.values = 1 .. Len(capture.wanted)
                BY <1>1, <4>1, LenProperties DEF BridgeInv, GraphInv
            <4> QED BY <3>2, <4>2
        <3> QED BY <1>2, <1>5, <3>2, <3>3 DEF Right
    <2> QED BY <2>1, <2>2
<1> QED
    BY <1>5, <1>6

(* With one accelerator, the buffer is kept while it fits, and the outputs *)
(* of a call are all on one device.                                        *)
LEMMA ObserveDevice ==
    ASSUME BridgeInv, Observe
    PROVE  DeviceInv'
<1>1. /\ Running /\ stage = "graph"
      /\ UNCHANGED <<model, stage, call>>
    BY DEF Observe, Step, Running
<1>2. /\ capture'.wanted = capture.wanted
      /\ capture'.token_count = capture.token_count
      /\ capture'.seen = IF Wants(Node)
                         THEN capture.seen \cup {SlotOf(Node)}
                         ELSE capture.seen
    BY ObservedCapture
<1>3. DeviceSlots' = DeviceSlots /\ TotalCount' = TotalCount
    BY <1>1, <1>2, SameSlots DEF TotalCount
<1>4. SUFFICES
        ASSUME OneAccelerator, MarkedSoFar',
               NEW s \in DeviceSlots \cap capture'.seen
        PROVE  /\ cuda_capture'.device = Device(capture.wanted[s])
               /\ cuda_capture'.capacity >= TotalCount
               /\ cuda_capture'.cells = [t \in 1 .. Len(capture.wanted) |->
                                            cuda_capture'.cells[t]]
               /\ cuda_capture'.cells[s] = Right(s)
    BY <1>1, <1>2, <1>3, SameModel DEF DeviceInv, Right
<1>5. MarkedSoFar /\ graph.from = {call.id}
    BY <1>1, <1>4, ObserveSeen DEF BridgeInv, WholeInv
<1>6. ASSUME s \in capture.seen
      PROVE  /\ cuda_capture.device = Device(capture.wanted[s])
             /\ cuda_capture.capacity >= TotalCount
             /\ cuda_capture.cells = [t \in 1 .. Len(capture.wanted) |->
                                         cuda_capture.cells[t]]
             /\ cuda_capture.cells[s] = Right(s)
             /\ s # SlotOf(Node) \/ ~Wants(Node)
    BY <1>1, <1>4, <1>5, <1>6, NextSlot DEF BridgeInv, DeviceInv
<1>7. CASE ~OnDevice(Node)
    <2>1. cuda_capture' = cuda_capture
        BY <1>7 DEF Observe
    <2>2. s \in capture.seen
        BY <1>1, <1>2, <1>4, <1>7, NextSlot
    <2> QED BY <1>6, <2>1, <2>2
<1>8. CASE OnDevice(Node)
    <2> DEFINE kept == cuda_capture.device # "none"
                       /\ ~Misfits(Device(Node))
               before(t) == IF kept /\ t \in DOMAIN cuda_capture.cells
                            THEN cuda_capture.cells[t]
                            ELSE Unwritten
    <2>1. Wants(Node)
        BY <1>8 DEF OnDevice, TriesDevice
    <2>2. cuda_capture' =
              [device |-> Device(Node),
               capacity |-> IF kept THEN cuda_capture.capacity
                            ELSE TotalCount,
               cells |-> [t \in 1 .. Len(capture.wanted) |->
                             IF t = SlotOf(Node)
                             THEN [node |-> Node, from |-> graph.from]
                             ELSE before(t)]]
        BY <1>8 DEF Observe, Stored
    <2>3. Device(capture.wanted[s]) = Device(Node)
        <3>1. Device(capture.wanted[s]) # "cpu" /\ Device(Node) # "cpu"
            BY <1>4, <1>8 DEF DeviceSlots, OnDevice
        <3> QED BY <1>4, <3>1 DEF OneAccelerator, Device
    <2>4. cuda_capture.capacity \in Nat /\ TotalCount \in Nat
        <3>1. Len(capture.wanted) \in Nat /\ capture.token_count \in Nat
            BY <1>1, SlotsAreFinite DEF BridgeInv, GraphInv, Captures
        <3>2. TotalCount \in Nat
            BY <3>1 DEF TotalCount
        <3> QED BY <3>2 DEF BridgeInv, CudaInv
    <2>5. kept => cuda_capture.capacity >= TotalCount
        BY <2>4 DEF Misfits
    <2>6. cuda_capture'.capacity >= TotalCount
        BY <2>2, <2>4, <2>5
    <2>7. s \in 1 .. Len(capture.wanted)
        BY <1>4 DEF DeviceSlots
    <2>8. cuda_capture'.cells[s] = Right(s)
        <3>1. CASE s = SlotOf(Node)
            BY <1>1, <1>5, <2>1, <2>2, <2>7, <3>1, NextSlot DEF Right
        <3>2. CASE s # SlotOf(Node)
            <4>1. s \in capture.seen
                BY <1>2, <1>4, <3>2
            <4>2. cuda_capture.device = Device(Node)
                BY <1>6, <2>3, <4>1
            <4>3. Device(Node) # "none"
                BY BridgeAssumption DEF Device
            <4>4. kept
                BY <1>6, <2>4, <4>1, <4>2, <4>3 DEF Misfits
            <4>5. DOMAIN cuda_capture.cells = 1 .. Len(capture.wanted)
                BY <1>6, <4>1
            <4>6. before(s) = cuda_capture.cells[s]
                BY <2>7, <4>4, <4>5
            <4> HIDE DEF before, kept
            <4>7. cuda_capture'.cells[s] = before(s)
                BY <2>2, <2>7, <3>2
            <4> QED BY <1>6, <4>1, <4>6, <4>7
        <3> QED BY <3>1, <3>2
    <2> HIDE DEF before, kept
    <2>9. cuda_capture'.cells = [t \in 1 .. Len(capture.wanted) |->
                                    cuda_capture'.cells[t]]
        BY <2>2
    <2>10. cuda_capture'.device = Device(capture.wanted[s])
        BY <2>2, <2>3
    <2> QED BY <2>6, <2>8, <2>9, <2>10
<1> QED
    BY <1>7, <1>8

LEMMA ObserveStep ==
    ASSUME BridgeInv, Observe
    PROVE  BridgeInv'
<1>1. /\ Running /\ stage = "graph" /\ stage' = "graph" /\ GraphInv
      /\ graph'.next = graph.next + 1
      /\ UNCHANGED <<model, stage, call, fault>>
    BY DEF Observe, Step, Running, BridgeInv
<1>2. RestInv' /\ CallInv' /\ GraphInv'
    <2>1. graph.from \in SUBSET Nat /\ Step(FALSE, graph.from)
        BY <1>1 DEF GraphInv, Observe
    <2>2. fault' \in BOOLEAN /\ capture.enabled
        BY <1>1 DEF BridgeInv, RestInv, GraphInv
    <2>3. /\ capture' \in Captures /\ capture'.enabled = capture.enabled
          /\ capture'.wanted = capture.wanted
          /\ capture'.token_count = capture.token_count
          /\ Len(capture'.values) = Len(capture.values)
        BY ObservedCapture
    <2> QED BY <1>1, <2>1, <2>2, <2>3, StepKeeps
<1>3. CudaInv'
    <2>1. CASE ~OnDevice(Node)
        BY <2>1 DEF Observe, BridgeInv, CudaInv
    <2>2. CASE OnDevice(Node)
        <3>1. Device(Node) \in {"none", Devices[1], Devices[2]} \ {"cpu"}
            BY <2>2 DEF OnDevice, Device
        <3>2. cuda_capture.capacity \in Nat /\ TotalCount \in Nat
            <4>1. Len(capture.wanted) \in Nat /\ capture.token_count \in Nat
                BY <1>1, SlotsAreFinite DEF BridgeInv, GraphInv, Captures
            <4>2. TotalCount \in Nat
                BY <4>1 DEF TotalCount
            <4> QED BY <4>2 DEF BridgeInv, CudaInv
        <3>3. /\ cuda_capture'.device = Device(Node)
              /\ cuda_capture'.capacity \in {cuda_capture.capacity,
                                             TotalCount}
            BY <2>2 DEF Observe, Stored
        <3> QED BY <3>1, <3>2, <3>3 DEF CudaInv
    <2> QED BY <2>1, <2>2
<1>4. SeenInv' /\ CountInv'
    BY ObserveSeen
<1>5. WholeInv' /\ DeviceInv'
    BY ObserveWhole, ObserveDevice
<1>6. FaultInv'
    <2>1. SUFFICES ASSUME ~fault
                   PROVE  MarkedSoFar' /\ ~capture'.error
        BY <1>1 DEF FaultInv
    <2>2. MarkedSoFar /\ ~capture.error
        BY <1>1, <2>1 DEF BridgeInv, FaultInv
    <2>3. ~capture'.error
        BY <2>2, ObservedCapture DEF ErrorAfter
    <2>4. /\ capture'.wanted = capture.wanted
          /\ capture'.seen = IF Wants(Node)
                             THEN capture.seen \cup {SlotOf(Node)}
                             ELSE capture.seen
          /\ capture'.rounded = IF Node \in Boundaries
                                THEN capture.rounded \cup {Node}
                                ELSE capture.rounded
        BY ObservedCapture
    <2>5. \A s \in 1 .. Len(capture.wanted) :
              capture.wanted[s] = Node => s \in capture'.seen
        BY <1>1, <2>4, NextSlot DEF Wants
    <2>6. MarkedSoFar'
        BY <1>1, <2>2, <2>4, <2>5, EarlierAfter, SameModel DEF MarkedSoFar
    <2> QED BY <2>3, <2>6
<1> QED
    BY <1>1, <1>2, <1>3, <1>4, <1>5, <1>6, InGraphAfter

---------------------------------------------------------------------------
(* A graph ends                                                            *)

LEMMA AtTheEnd ==
    ASSUME BridgeInv, stage = "graph", graph.next > Len(Nodes)
    PROVE  Earlier = AllNodes
<1>1. Len(Nodes) \in Nat /\ graph.next \in Nat /\ graph.next <= Len(Nodes) + 1
    BY NodesLength DEF BridgeInv, RestInv, GraphInv
<1>2. graph.next - 1 = Len(Nodes)
    BY <1>1
<1> QED
    BY <1>2 DEF Earlier, AllNodes

(* When all of the nodes are marked, the capture says so, and what it      *)
(* counts on a device are the slots there.                                 *)
LEMMA MarkedAtTheEnd ==
    ASSUME BridgeInv, stage = "graph", graph.next > Len(Nodes)
    PROVE  MarkedSoFar <=> /\ capture.seen = 1 .. Len(capture.wanted)
                           /\ capture.rounded = Boundaries
<1>1. Earlier = AllNodes
    BY AtTheEnd
<1>2. \A s \in 1 .. Len(capture.wanted) : capture.wanted[s] \in AllNodes
    BY DEF BridgeInv, CallInv, GraphInv, SlotsAreSound
<1>3. Boundaries \subseteq AllNodes
    BY DEF Boundaries, AllNodes
<1>4. SeenInv
    BY DEF BridgeInv
<1> QED
    BY <1>1, <1>2, <1>3, <1>4 DEF MarkedSoFar, SeenInv

(* What is handed over is whole.                                           *)
LEMMA CapturedIsWhole ==
    ASSUME BridgeInv, OneAccelerator, stage = "graph",
           graph.next > Len(Nodes), ~ResultIsRefused
    PROVE  Whole(Captured)
<1> DEFINE n == Len(call.wanted)
           slots == 1 .. n
<1>1. /\ n \in Nat /\ n > 0 /\ capture.wanted = call.wanted
      /\ call.kind # "layers" => n = 1
    BY DEF BridgeInv, CallInv, GraphInv, SlotsAreSound
<1>2. capture.seen = slots /\ MarkedSoFar
    BY <1>1, MarkedAtTheEnd DEF ResultIsRefused, BoundariesRounded
<1>3. DeviceSlots \subseteq slots
    BY <1>1 DEF DeviceSlots
<1>4. /\ IsFiniteSet(DeviceSlots)
      /\ capture.cuda_captured = Cardinality(DeviceSlots)
    <2>1. DeviceSlots \cap capture.seen = DeviceSlots
        BY <1>2, <1>3
    <2> QED BY <2>1, SlotsAreFinite DEF BridgeInv, CountInv
<1>5. CASE call.kind = "layers" /\ capture.cuda_captured > 0
    <2>1. Cardinality(DeviceSlots) = n
        <3>1. capture.cuda_captured \in {0, Len(capture.wanted)}
            BY <1>5 DEF ResultIsRefused, Spans
        <3>2. capture.cuda_captured # 0
            BY <1>5
        <3> QED BY <1>1, <1>4, <3>1, <3>2
    <2>2. IsFiniteSet(slots) /\ Cardinality(slots) = n
        BY <1>1, RangeSize
    <2>3. DeviceSlots = slots
        <3> HIDE DEF slots
        <3> QED BY <1>3, <2>1, <2>2, FS_Subset
    <2>4. \A s \in slots :
              /\ cuda_capture.cells = [t \in slots |-> cuda_capture.cells[t]]
              /\ cuda_capture.cells[s] = Right(s)
        BY <1>1, <1>2, <2>3 DEF BridgeInv, DeviceInv
    <2>5. 1 \in slots
        BY <1>1
    <2>6. cuda_capture.cells = [t \in slots |-> Right(t)]
        BY <2>4, <2>5
    <2>7. Captured = cuda_capture.cells
        BY <1>5 DEF Captured
    <2> QED BY <1>1, <2>6, <2>7 DEF Whole, Right
<1>6. CASE ~(call.kind = "layers" /\ capture.cuda_captured > 0)
    <2>1. DeviceSlots = {}
        <3>1. CASE call.kind # "layers"
            <4>1. Len(capture.wanted) = 1
                BY <1>1, <3>1
            <4>2. \A node : ~OnDevice(node)
                BY <4>1 DEF OnDevice, TriesDevice
            <4> QED BY <4>2 DEF DeviceSlots
        <3>2. CASE call.kind = "layers"
            <4>1. Cardinality(DeviceSlots) = 0
                BY <1>1, <1>4, <1>6, <3>2 DEF ResultIsRefused, Spans
            <4> QED BY <1>4, <4>1, FS_EmptySet
        <3> QED BY <3>1, <3>2
    <2>2. \A s \in slots : capture.values[s] = Right(s)
        BY <1>2, <2>1 DEF BridgeInv, WholeInv
    <2>3. capture.values \in Seq(Cells) /\ Len(capture.values) = n
        BY <1>1 DEF BridgeInv, GraphInv, Captures
    <2>4. capture.values \in [slots -> Cells]
        BY <2>3, LenProperties
    <2>5. capture.values = [s \in slots |-> Right(s)]
        BY <2>2, <2>4
    <2>6. Captured = capture.values
        BY <1>6 DEF Captured
    <2> QED BY <1>1, <2>5, <2>6 DEF Whole, Right
<1> QED
    BY <1>5, <1>6

LEMMA FinishStep ==
    ASSUME BridgeInv, Finish
    PROVE  BridgeInv'
<1> DEFINE rows == IF call.kind = "tokens" THEN Queries
                   ELSE 1 .. Len(call.tokens)
           n == Len(call.wanted)
<1>1. /\ stage = "graph" /\ graph.next > Len(Nodes) /\ ~ResultIsRefused
      /\ Return(Give(Captured, rows))
      /\ capture' = Disabled /\ embeddings' = FALSE
      /\ UNCHANGED <<model, call, cuda_capture, memory, fault>>
    BY DEF Finish, Disable
<1>2. /\ answer'.ok = TRUE
      /\ answer'.cells = Captured
      /\ answer'.rows = rows
      /\ answer'.from = UNION {Captured[s].from : s \in 1 .. Len(Captured)}
    BY <1>1 DEF Return, Give
<1>3. n \in Nat /\ n > 0 /\ call.id \in Nat
    BY <1>1 DEF BridgeInv, CallInv, GraphInv, SlotsAreSound
<1>4. ASSUME OneAccelerator
      PROVE  Whole(Captured) /\ answer'.from = {call.id}
    <2>1. Captured = [s \in 1 .. n |->
                         [node |-> call.wanted[s], from |-> {call.id}]]
        BY <1>1, <1>4, CapturedIsWhole DEF Whole
    <2>2. Captured = [s \in 1 .. n |-> Captured[s]]
        BY <2>1
    <2>3. Len(Captured) = n
        BY <1>3, <2>2, FunctionIsList
    <2>4. \A s \in 1 .. n : Captured[s].from = {call.id}
        BY <2>1
    <2>5. 1 \in 1 .. n
        BY <1>3
    <2>6. UNION {Captured[s].from : s \in 1 .. Len(Captured)} = {call.id}
        BY <2>3, <2>4, <2>5
    <2> QED BY <1>1, <1>2, <1>4, <2>6, CapturedIsWhole
<1>5. AnswerInv'
    <2>1. /\ answer'.ok \in BOOLEAN /\ answer'.ok
          /\ OneAccelerator => answer'.from = {call'.id}
        BY <1>1, <1>2, <1>4
    <2>2. OneAccelerator => Whole(answer.cells)'
        BY <1>1, <1>2, <1>4 DEF Whole
    <2>3. call.kind = "tokens" =>
              answer'.rows = Queries /\ Cardinality(Matches) >= call.count
        BY <1>1, <1>2 DEF BridgeInv, GraphInv
    <2> QED BY <1>1, <2>1, <2>2, <2>3, SameCall DEF AnswerInv
<1>6. memory' \in [cells : 0 .. n_ctx, from : SUBSET Nat]
    BY <1>1 DEF BridgeInv, RestInv
<1> QED
    BY <1>1, <1>5, <1>6, ReturnStep

(* A check that refuses what was captured though nothing failed found      *)
(* layers on several devices.                                              *)
LEMMA RefusedIsExcused ==
    ASSUME BridgeInv, stage = "graph", graph.next > Len(Nodes),
           ResultIsRefused
    PROVE  Excused
<1> DEFINE n == Len(call.wanted)
           slots == 1 .. n
           devices == {Device(call.wanted[s]) : s \in slots}
<1>1. SUFFICES ASSUME ~fault
               PROVE  call.kind = "layers" /\ Cardinality(devices) > 1
    BY DEF Excused
<1>2. n \in Nat /\ n > 0 /\ capture.wanted = call.wanted
    BY DEF BridgeInv, CallInv, GraphInv, SlotsAreSound
<1>3. MarkedSoFar /\ ~capture.error
    BY <1>1 DEF BridgeInv, FaultInv
<1>4. capture.seen = slots /\ capture.rounded = Boundaries
    BY <1>2, <1>3, MarkedAtTheEnd
<1>5. call.kind = "layers" /\ Spans
    BY <1>2, <1>3, <1>4 DEF ResultIsRefused, BoundariesRounded
<1>6. /\ DeviceSlots \subseteq slots /\ IsFiniteSet(DeviceSlots)
      /\ Cardinality(DeviceSlots) \notin {0, n}
    <2>1. DeviceSlots \subseteq slots
        BY <1>2 DEF DeviceSlots
    <2>2. DeviceSlots \cap capture.seen = DeviceSlots
        BY <1>4, <2>1
    <2> QED BY <1>2, <1>5, <2>1, <2>2, SlotsAreFinite
        DEF BridgeInv, CountInv, Spans
<1>7. PICK s \in slots : s \in DeviceSlots
    <2>1. DeviceSlots # {}
        BY <1>6, FS_EmptySet
    <2> QED BY <1>6, <2>1
<1>8. PICK t \in slots : t \notin DeviceSlots
    <2>1. Cardinality(slots) = n
        BY <1>2, RangeSize
    <2>2. DeviceSlots # slots
        BY <1>6, <2>1
    <2> QED BY <1>6, <2>2
<1>9. Device(call.wanted[s]) # Device(call.wanted[t])
    BY <1>2, <1>7, <1>8 DEF DeviceSlots, OnDevice, TriesDevice, Wants
<1>10. Cardinality(devices) > 1
    <2> DEFINE a == Device(call.wanted[s])
               b == Device(call.wanted[t])
    <2>1. devices \subseteq {Devices[1], Devices[2]}
        BY DEF Device
    <2>2. IsFiniteSet({Devices[1]})
        BY FS_Singleton
    <2>3. IsFiniteSet({Devices[1]} \cup {Devices[2]})
        BY <2>2, FS_AddElement
    <2>4. {Devices[1]} \cup {Devices[2]} = {Devices[1], Devices[2]}
        OBVIOUS
    <2>5. IsFiniteSet(devices)
        <3> HIDE DEF devices
        <3> QED BY <2>1, <2>3, <2>4, FS_Subset
    <2>6. {a} \cup {b} \subseteq devices
        OBVIOUS
    <2>7. Cardinality({a} \cup {b}) = 2
        BY <1>9, TwoElements
    <2>8. Cardinality({a} \cup {b}) <= Cardinality(devices)
        <3> HIDE DEF devices, a, b
        <3> QED BY <2>5, <2>6, FS_Subset
    <2>9. Cardinality(devices) \in Nat
        <3> HIDE DEF devices
        <3> QED BY <2>5, FS_CardinalityType
    <2> DEFINE least == Cardinality({a} \cup {b})
               most == Cardinality(devices)
    <2>10. least = 2 /\ least <= most /\ most \in Nat
        BY <2>7, <2>8, <2>9
    <2> HIDE DEF least, most
    <2>11. most > 1
        BY ONLY <2>10
    <2> QED BY <2>11 DEF most
<1> QED
    BY <1>5, <1>10

LEMMA FailGraphStep ==
    ASSUME BridgeInv, FailGraph
    PROVE  BridgeInv'
<1>1. /\ stage = "graph" /\ graph.next > Len(Nodes) /\ Catch
      /\ fault' = TRUE \/ (ResultIsRefused /\ fault' = fault)
      /\ UNCHANGED <<model, call, cuda_capture>>
    BY DEF FailGraph
<1>2. fault' \in BOOLEAN
    BY <1>1 DEF BridgeInv, RestInv
<1>3. Excused'
    <2>1. CASE fault' = TRUE
        BY <2>1 DEF Excused
    <2>2. CASE ResultIsRefused /\ fault' = fault
        <3>1. Excused
            BY <1>1, <2>2, RefusedIsExcused
        <3> QED BY <1>1, <2>2, <3>1, SameModel DEF Excused
    <2> QED BY <1>1, <2>1, <2>2
<1> QED
    BY <1>1, <1>2, <1>3, CatchStep

(* Every step of the bridge keeps the invariant.                           *)
LEMMA BridgeStepKeeps ==
    ASSUME BridgeInv, BridgeStep
    PROVE  BridgeInv'
BY FailPromptStep, SubmitStep, ReturnPromptStep, PrefillStep, UnseenStep,
   ObserveStep, RefuseStep, FailGraphStep, FinishStep, FailGenerationStep,
   SelectStep, ExtendStep
DEF BridgeStep

---------------------------------------------------------------------------
(* What follows                                                            *)

LEMMA InvImpliesConditioning ==
    ASSUME BridgeInv, OneAccelerator
    PROVE  ConditioningIsWhole
BY DEF BridgeInv, AnswerInv, ConditioningIsWhole, Whole

LEMMA InvImpliesNoTrace ==
    ASSUME BridgeInv
    PROVE  NoTrace
BY DEF BridgeInv, RestInv, NoTrace

LEMMA InvImpliesReason ==
    ASSUME BridgeInv
    PROVE  RefusedForAReason
BY DEF BridgeInv, AnswerInv, RefusedForAReason, Excused
=============================================================================
