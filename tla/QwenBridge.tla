----------------------------- MODULE QwenBridge -----------------------------
(***************************************************************************)
(* The bridge from a StarVLA policy to the language model it is            *)
(* conditioned on (src/models/starvla/qwen3vl_bridge.cpp, and              *)
(* qwen_bf16_round_cuda.cu for what it leaves on a CUDA device).  A call   *)
(* decodes one prompt.  While the graph runs, the scheduler shows the      *)
(* outputs of the layers to a callback, which rounds them in place and     *)
(* copies the wanted ones; when the callback refuses an output, the        *)
(* scheduler drops the rest of the split, the nodes in a row on the same   *)
(* device, and goes on with the next split without an error.  So what the  *)
(* callback saw is checked after the call.                                 *)
(*                                                                         *)
(* An output is modelled by the node that computed it and by the calls     *)
(* whose data went into it; 0 is no call: memory nobody wrote, or a node   *)
(* left out.  A layer is its last node, a row of hidden values a position. *)
(***************************************************************************)
EXTENDS FloatArithmetic, Sequences, FiniteSets

CONSTANTS
    Layers,         \* decoder layers of the language model
    DeepStack,      \* of a Qwen3 model: layers that also take image features
    Devices,        \* <<of the first layers, of the others>>, "cpu" or a GPU
    n_batch,        \* most tokens of one decode
    n_ctx,          \* cells of the key-value memory
    max_length,     \* most tokens of a generated sequence, prompt included
    ImagePad,       \* the token that stands for a piece of an image
    ActionToken,    \* the token whose positions are a policy's queries
    Eos,            \* the token that ends a generated sequence
    Penalty,        \* of a token that is repeated: a finite float above 0
    LogitRows       \* bound: what the language model may say of a next token

ASSUME BridgeAssumption ==
    /\ Layers \in Nat \ {0}
    /\ DeepStack \in 1 .. Layers
    /\ Devices[1] # "none" /\ Devices[2] # "none"
    /\ n_batch \in Nat \ {0}
    /\ n_ctx \in Nat \ {0}
    /\ max_length \in 1 .. n_ctx
    /\ Penalty \in Float /\ Penalty > 0

VARIABLES
    model,          \* what was loaded: architecture, rounding, placement
    stage,          \* where the call is
    call,           \* the call: number, kind, prompt, wanted outputs
    capture,        \* LayerCapture, without its buffer on a device
    cuda_capture,   \* QwenBF16CaptureCuda: lives as long as the bridge
    embeddings,     \* whether the context computes embeddings
    memory,         \* the key-value memory: cells in use, whose data
    graph,          \* the running graph: next node, whether its split was
                    \* dropped, whose data flows through it
    sequence,       \* the tokens of a generation
    answer,         \* what the last call gave
    fault           \* history: something outside of the bridge failed, or
                    \* the call asked for what it cannot give

bridgeVars == <<model, stage, call, capture, cuda_capture, embeddings,
                memory, graph, sequence, answer, fault>>

Image == -1     \* token number of a piece of an image

---------------------------------------------------------------------------
(* The graph of the language model                                         *)

LOut(k) == <<"l_out", k>>
DeepStackOut(k) == <<"deepstack_out", k>>
ResultNorm == <<"result_norm", Layers + 1>>

(* Layers of the loaded model whose output takes image features on top.    *)
DeepStackLayers == IF model.architecture = "qwen3" THEN DeepStack ELSE 0

(* The nodes that the callback may know, in the order they are computed.   *)
Nodes ==
    [i \in 1 .. Layers + DeepStackLayers + 1 |->
        IF i = Layers + DeepStackLayers + 1 THEN ResultNorm
        ELSE IF i > 2 * DeepStackLayers THEN LOut(i - DeepStackLayers)
        ELSE IF i % 2 = 1 THEN LOut((i + 1) \div 2)
        ELSE DeepStackOut(i \div 2)]

(* llama.cpp puts the last layers on the accelerator.                      *)
Device(node) == IF node[2] <= model.split THEN Devices[1] ELSE Devices[2]

StartsSplit(i) == i = 1 \/ Device(Nodes[i]) # Device(Nodes[i - 1])

(* qwen_vl_hidden_state_source: entry k of the tuple of hidden states that *)
(* the reference implementation returns is the output of layer k, after    *)
(* the image features are added to it, and of Qwen2.5 the last one after   *)
(* the norm.                                                               *)
Source(k) ==
    IF model.architecture = "qwen2.5"
    THEN IF k = Layers THEN ResultNorm ELSE LOut(k)
    ELSE IF k <= DeepStack THEN DeepStackOut(k) ELSE LOut(k)

(* What conditions a policy that takes the last hidden state only.         *)
LastHidden ==
    IF model.architecture = "qwen2.5" THEN ResultNorm ELSE LOut(Layers)

(* What one call wants, slot by slot.                                      *)
Wanted(kind, tuple_indices) ==
    IF kind = "layers"
    THEN [s \in 1 .. Len(tuple_indices) |-> Source(tuple_indices[s])]
    ELSE <<LastHidden>>

(* The outputs rounded to BF16 in place: those between two layers.         *)
Boundaries ==
    IF model.bf16
    THEN {Nodes[i] : i \in 1 .. Len(Nodes)} \ {ResultNorm}
    ELSE {}

(* llama.cpp takes a prompt in pieces of this many tokens.                 *)
(* Mutant: the default of the library, smaller than the batch.             *)
n_ubatchDefault == 1
n_ubatch == n_batch

---------------------------------------------------------------------------
(* What is kept                                                            *)

Unwritten == [node |-> <<"none", 0>>, from |-> {0}]

Disabled == [enabled |-> FALSE, token_count |-> 0, wanted |-> <<>>,
             values |-> <<>>, seen |-> {}, rounded |-> {},
             cuda_captured |-> 0, error |-> FALSE]

(* Mutant: the number of outputs on a device is left from the last call.   *)
DisableKeepsCount(c) == [Disabled EXCEPT !.cuda_captured = c.cuda_captured]

(* LayerCapture::disable                                                   *)
Disable(c) == Disabled

NoCapture == [device |-> "none", capacity |-> 0, cells |-> <<>>]

Empty == [cells |-> 0, from |-> {}]

(* Mutant: the memory of the last call is left.                            *)
Kept(m) == m

(* llama_memory_clear                                                      *)
Emptied(m) == Empty

(* The capture of an extraction.  The count of outputs on a device is not  *)
(* touched: the end of every call resets it.                               *)
Enabled(c, tokens, wanted) ==
    [enabled |-> TRUE, token_count |-> Len(tokens), wanted |-> wanted,
     values |-> [s \in 1 .. Len(wanted) |-> Unwritten],
     seen |-> {}, rounded |-> {},
     cuda_captured |-> c.cuda_captured, error |-> FALSE]

NoGraph == [next |-> 0, stopped |-> FALSE, from |-> {}]

NoCall == [id |-> 0, kind |-> "none", tokens |-> <<>>, wanted |-> <<>>,
           count |-> 0]

Unanswered == [ok |-> FALSE, cells |-> <<>>, rows |-> {}, sequence |-> <<>>,
               from |-> {}]

BridgeInit ==
    /\ stage = "ready"
    /\ call = NoCall
    /\ capture = Disabled
    /\ cuda_capture = NoCapture
    /\ embeddings = FALSE
    /\ memory = Empty
    /\ graph = NoGraph
    /\ sequence = <<>>
    /\ answer = Unanswered
    /\ fault = FALSE

---------------------------------------------------------------------------
(* How every call ends                                                     *)

Return(a) ==
    /\ stage' = "returned"
    /\ graph' = NoGraph
    /\ sequence' = <<>>
    /\ answer' = a

(* Mutant: the capture is left as it is after a failure.                   *)
CatchKeepsCapture ==
    /\ Return(Unanswered)
    /\ capture' = capture
    /\ embeddings' = FALSE
    /\ memory' = Emptied(memory)

(* The handlers of exceptions, the same in all of the four operations.     *)
Catch ==
    /\ Return(Unanswered)
    /\ capture' = Disable(capture)
    /\ embeddings' = FALSE
    /\ memory' = Emptied(memory)

(* An output that is handed over is handed over with the calls in it.      *)
Give(cells, rows) ==
    [ok |-> TRUE, cells |-> cells, rows |-> rows, sequence |-> <<>>,
     from |-> UNION {cells[s].from : s \in 1 .. Len(cells)}]

---------------------------------------------------------------------------
(* A call and its prompt                                                   *)

(* One of the operations below starts.  The prompt is a sequence of token  *)
(* numbers in which each piece of an image is an Image.                    *)
BridgeCall(id, kind, tokens, tuple_indices, count) ==
    /\ stage = "ready"
    /\ stage' = "prompt"
    /\ call' = [id |-> id, kind |-> kind, tokens |-> tokens,
                wanted |-> IF kind = "generate" THEN <<>>
                           ELSE Wanted(kind, tuple_indices),
                count |-> count]
    /\ fault' = FALSE
    /\ UNCHANGED <<model, capture, cuda_capture, embeddings, memory, graph,
                   sequence, answer>>

Matches == {i \in 1 .. Len(call.tokens) : call.tokens[i] = ActionToken}

(* Mutant: the first of the action tokens instead of the last ones.        *)
QueriesFirst ==
    {i \in Matches :
        Cardinality({j \in Matches : j <= i}) <= call.count}

(* extract_token_embeddings: the last of the action tokens.                *)
Queries ==
    {i \in Matches :
        Cardinality({j \in Matches : j >= i}) <= call.count}

(* The prompt is too long for one batch or for the memory, or the queries  *)
(* are not in it.                                                          *)
PromptIsRefused ==
    \/ Len(call.tokens) > n_batch
    \/ Len(call.tokens) > n_ctx
    \/ call.kind = "generate" /\ Len(call.tokens) > max_length
    \/ call.kind = "tokens" /\ Cardinality(Matches) < call.count

(* The memory with the prompt in it; llama_decode refuses what does not    *)
(* fit.                                                                    *)
Filled(tokens, id) ==
    LET left == Emptied(memory) IN
    [cells |-> left.cells + Len(tokens), from |-> left.from \cup {id}]

(* The images cannot be encoded, or the decode of the prompt is refused.   *)
FailPrompt ==
    /\ stage = "prompt"
    /\ fault' = \/ PromptIsRefused
                \/ Filled(call.tokens, call.id).cells <= n_ctx
                \/ fault
    /\ Catch
    /\ UNCHANGED <<model, call, cuda_capture>>

(* extract_token_embeddings, extract_full_hidden_states and                *)
(* extract_layer_hidden_states up to llama_decode.                         *)
Submit ==
    /\ stage = "prompt"
    /\ call.kind # "generate"
    /\ ~PromptIsRefused
    /\ Filled(call.tokens, call.id).cells <= n_ctx
    /\ stage' = "graph"
    /\ capture' = Enabled(capture, call.tokens, call.wanted)
    /\ memory' = Filled(call.tokens, call.id)
    /\ embeddings' = TRUE
    /\ graph' = [next |-> 1, stopped |-> FALSE, from |-> memory'.from]
    /\ UNCHANGED <<model, call, cuda_capture, sequence, answer, fault>>

---------------------------------------------------------------------------
(* observe_text_and_capture_layers                                         *)

Wants(node) ==
    \E s \in 1 .. Len(capture.wanted) : capture.wanted[s] = node

SlotOf(node) ==
    CHOOSE s \in 1 .. Len(capture.wanted) : capture.wanted[s] = node

Watched(node) == capture.enabled /\ (Wants(node) \/ node \in Boundaries)

(* An output that is one of several is left on its device.                 *)
TriesDevice(node) == Wants(node) /\ Len(capture.wanted) > 1

OnDevice(node) == TriesDevice(node) /\ Device(node) # "cpu"

(* Both CUDA functions clear the error before they look at the tensor,     *)
(* also the error that an earlier output left.                             *)
ErrorAfter(node) ==
    capture.error /\ node \notin Boundaries /\ ~TriesDevice(node)

Running == stage = "graph" /\ graph.next <= Len(Nodes)

(* The node is in a split whose rest is not computed.                      *)
Dropped == graph.stopped /\ ~StartsSplit(graph.next)

Node == Nodes[graph.next]

Step(stopped, from) ==
    /\ graph' = [next |-> graph.next + 1, stopped |-> stopped, from |-> from]
    /\ UNCHANGED <<model, stage, call, embeddings, memory, sequence, answer>>

Drop ==
    /\ Running
    /\ Dropped
    /\ Step(TRUE, graph.from \cup {0})
    /\ UNCHANGED <<capture, cuda_capture, fault>>

(* A node that the callback does not ask for.                              *)
Pass ==
    /\ Running
    /\ ~Dropped
    /\ ~Watched(Node)
    /\ Step(FALSE, graph.from)
    /\ UNCHANGED <<capture, cuda_capture, fault>>

(* The first piece of the prompt, which may be all of it.                  *)
PieceTokens ==
    IF Len(call.tokens) < n_ubatch THEN Len(call.tokens) ELSE n_ubatch

ShapeFits == PieceTokens = capture.token_count

(* Slots of the capture times tokens.                                      *)
TotalCount == Len(capture.wanted) * capture.token_count

(* The buffer on the device is of another device or too small.             *)
Misfits(device) ==
    /\ cuda_capture.device # "none"
    /\ \/ cuda_capture.device # device
       \/ cuda_capture.capacity < TotalCount

(* qwen_bf16_capture_cuda: a buffer that does not fit is freed with all    *)
(* that is in it.                                                          *)
Stored(node) ==
    LET kept == cuda_capture.device # "none" /\ ~Misfits(Device(node))
        before(s) == IF kept /\ s \in DOMAIN cuda_capture.cells
                     THEN cuda_capture.cells[s]
                     ELSE Unwritten
    IN  [device |-> Device(node),
         capacity |-> IF kept THEN cuda_capture.capacity ELSE TotalCount,
         cells |-> [s \in 1 .. Len(capture.wanted) |->
                       IF s = SlotOf(node)
                       THEN [node |-> node, from |-> graph.from]
                       ELSE before(s)]]

Marked(node) ==
    [capture EXCEPT
        !.seen = IF Wants(node) THEN @ \cup {SlotOf(node)} ELSE @,
        !.rounded = IF node \in Boundaries THEN @ \cup {node} ELSE @,
        !.error = ErrorAfter(node)]

(* The callback rounds an output in place and copies it if it is wanted.   *)
Observe ==
    /\ Running
    /\ ~Dropped
    /\ Watched(Node)
    /\ ShapeFits
    /\ Step(FALSE, graph.from)
    /\ IF OnDevice(Node)
       THEN /\ capture' = [Marked(Node) EXCEPT !.cuda_captured = @ + 1]
            /\ cuda_capture' = Stored(Node)
       ELSE /\ capture' = [Marked(Node) EXCEPT !.values =
                  [s \in DOMAIN @ |->
                      IF capture.wanted[s] = Node
                      THEN [node |-> Node, from |-> graph.from]
                      ELSE @[s]]]
            /\ UNCHANGED cuda_capture
    /\ UNCHANGED fault

(* The callback refuses an output: it has another shape than the prompt    *)
(* says, or copying it fails, on a device perhaps after the buffer that    *)
(* did not fit was freed.                                                  *)
Refuse ==
    /\ Running
    /\ ~Dropped
    /\ Watched(Node)
    /\ Step(TRUE, graph.from \cup {0})
    /\ capture' = [capture EXCEPT !.error = TRUE]
    /\ fault' = (ShapeFits \/ fault)
    /\ cuda_capture' \in {cuda_capture} \cup
          (IF ShapeFits /\ OnDevice(Node) /\ Misfits(Device(Node))
           THEN {NoCapture} ELSE {})

---------------------------------------------------------------------------
(* After the graph                                                         *)

(* Mutant: every boundary counts as rounded.                               *)
BoundariesRoundedUnchecked == TRUE

(* validate_layer_boundary_tracking                                        *)
BoundariesRounded == capture.rounded = Boundaries

(* finish_layer_capture: all of the outputs are on one device or none is.  *)
Spans == capture.cuda_captured \notin {0, Len(capture.wanted)}

ResultIsRefused ==
    \/ capture.error
    \/ call.kind = "layers" /\ Spans
    \/ ~BoundariesRounded
    \/ capture.seen # 1 .. Len(capture.wanted)

Captured ==
    IF call.kind = "layers" /\ capture.cuda_captured > 0
    THEN cuda_capture.cells
    ELSE capture.values

(* The graph or the copy from the device failed, or a check refuses what   *)
(* was captured.                                                           *)
FailGraph ==
    /\ stage = "graph"
    /\ graph.next > Len(Nodes)
    /\ \/ fault' = TRUE
       \/ ResultIsRefused /\ fault' = fault
    /\ Catch
    /\ UNCHANGED <<model, call, cuda_capture>>

(* The memory keeps the prompt: the next call clears it.                   *)
Finish ==
    /\ stage = "graph"
    /\ graph.next > Len(Nodes)
    /\ ~ResultIsRefused
    /\ Return(Give(Captured, IF call.kind = "tokens" THEN Queries
                             ELSE 1 .. Len(call.tokens)))
    /\ capture' = Disable(capture)
    /\ embeddings' = FALSE
    /\ UNCHANGED <<model, call, cuda_capture, memory, fault>>

---------------------------------------------------------------------------
(* generate_autoregressive                                                 *)

(* Mutant: the score is divided whatever its sign.                         *)
PenalisedByDivision(score, penalty) ==
    IF score \notin Float THEN score ELSE Round(score * Unit, penalty)

(* The product or quotient of two floats, rounded; an infinite score stays *)
(* as it is.                                                               *)
Penalised(score, penalty) ==
    IF score \notin Float THEN score
    ELSE IF score < 0 THEN Round(score * penalty, Unit)
    ELSE Round(score * Unit, penalty)

(* qwen_vl_select_repetition_penalized_top1: the first of the best tokens, *)
(* those of the sequence penalised once.                                   *)
Top1(row, repeated, penalty) ==
    LET score(t) == IF t \in repeated THEN Penalised(row[t], penalty)
                    ELSE row[t]
    IN  CHOOSE t \in DOMAIN row :
            \A u \in DOMAIN row :
                score(u) < score(t) \/ (score(u) = score(t) /\ t <= u)

(* export_prepared_inputs: the images become their placeholder tokens.     *)
Exported(tokens) ==
    [i \in 1 .. Len(tokens) |->
        IF tokens[i] = Image THEN ImagePad ELSE tokens[i]]

(* The new token is one of the sequence, for its length and the penalty.   *)
Lengthened(tokens, token) == Append(tokens, token)

GiveSequence(tokens, from) ==
    [ok |-> TRUE, cells |-> <<>>, rows |-> {}, sequence |-> tokens,
     from |-> from]

(* A prompt that fills the sequence is returned as it is, before anything  *)
(* of the context is touched.                                              *)
ReturnPrompt ==
    /\ stage = "prompt"
    /\ call.kind = "generate"
    /\ ~PromptIsRefused
    /\ Len(call.tokens) = max_length
    /\ Return(GiveSequence(Exported(call.tokens), {call.id}))
    /\ UNCHANGED <<model, call, capture, cuda_capture, embeddings, memory,
                   fault>>

Prefill ==
    /\ stage = "prompt"
    /\ call.kind = "generate"
    /\ ~PromptIsRefused
    /\ Len(call.tokens) # max_length
    /\ Filled(call.tokens, call.id).cells <= n_ctx
    /\ stage' = "select"
    /\ capture' = Disable(capture)
    /\ embeddings' = FALSE
    /\ memory' = Filled(call.tokens, call.id)
    /\ sequence' = Exported(call.tokens)
    /\ UNCHANGED <<model, call, cuda_capture, graph, answer, fault>>

(* The scores hold something that is no number.                            *)
FailSelect ==
    /\ stage = "select"
    /\ fault' = TRUE
    /\ Catch
    /\ UNCHANGED <<model, call, cuda_capture>>

(* One token more; the last one is not decoded.                            *)
Select ==
    /\ stage = "select"
    /\ \E row \in LogitRows :
        LET token == Top1(row, {sequence[i] : i \in 1 .. Len(sequence)},
                          Penalty)
            longer == Lengthened(sequence, token)
        IN  IF token = Eos \/ Len(longer) = max_length
            THEN /\ Return(GiveSequence(longer, memory.from))
                 /\ memory' = Emptied(memory)
            ELSE /\ stage' = "extend"
                 /\ sequence' = longer
                 /\ UNCHANGED <<memory, graph, answer>>
    /\ UNCHANGED <<model, call, capture, cuda_capture, embeddings, fault>>

(* The new token is decoded on its own and takes one cell.                 *)
Extend ==
    /\ stage = "extend"
    /\ memory.cells + 1 <= n_ctx
    /\ stage' = "select"
    /\ memory' = [memory EXCEPT !.cells = @ + 1]
    /\ UNCHANGED <<model, call, capture, cuda_capture, embeddings, graph,
                   sequence, answer, fault>>

FailExtend ==
    /\ stage = "extend"
    /\ fault' = IF memory.cells + 1 <= n_ctx THEN TRUE ELSE fault
    /\ Catch
    /\ UNCHANGED <<model, call, cuda_capture>>

---------------------------------------------------------------------------
(* The bridge                                                              *)

(* The steps of a call that do not depend on the engine.                   *)
BridgeStep ==
    \/ FailPrompt \/ Submit \/ ReturnPrompt \/ Prefill
    \/ Drop \/ Pass \/ Observe \/ Refuse
    \/ FailGraph \/ Finish
    \/ FailSelect \/ Select \/ FailExtend \/ Extend

(* The caller has taken the answer.                                        *)
BridgeTaken ==
    /\ stage = "returned"
    /\ stage' = "ready"
    /\ call' = NoCall
    /\ answer' = Unanswered
    /\ fault' = FALSE
    /\ UNCHANGED <<model, capture, cuda_capture, embeddings, memory, graph,
                   sequence>>

(* reset, between two calls.                                               *)
BridgeReset ==
    /\ stage = "ready"
    /\ capture' = Disable(capture)
    /\ embeddings' = FALSE
    /\ memory' = Emptied(memory)
    /\ UNCHANGED <<model, stage, call, cuda_capture, graph, sequence, answer,
                   fault>>

---------------------------------------------------------------------------
(* Properties                                                              *)

(* What a policy is conditioned on was computed from the call's own prompt *)
(* and is the output the policy asked for, slot by slot; with rounding     *)
(* between the layers, all of it was rounded.  So a split that the         *)
(* scheduler dropped, an error that a later output cleared and a buffer    *)
(* that another device took over are never handed on                       *)
(* (extract_layer_hidden_states and its like).                             *)
ConditioningIsWhole ==
    stage = "returned" /\ answer.ok /\ call.kind # "generate" =>
        answer.cells = [s \in 1 .. Len(call.wanted) |->
                           [node |-> call.wanted[s], from |-> {call.id}]]

(* Whatever the last call did and however it ended, the capture is off,    *)
(* keeps no output, no error and no count, and the context is back to      *)
(* plain decoding before the next call (LayerCapture::disable).            *)
NoTrace ==
    stage = "ready" => capture = Disabled /\ ~embeddings

(* A call that asks for what the context holds is only refused when        *)
(* something outside of the bridge fails in this very call, or when the    *)
(* layers it asks for are on several devices: nothing that an earlier call *)
(* left, and no prompt that is cut into pieces, refuses it                 *)
(* (llama_memory_clear, n_ubatch, LayerCapture::disable).                  *)
RefusedForAReason ==
    stage = "returned" /\ ~answer.ok =>
        \/ fault
        \/ /\ call.kind = "layers"
           /\ Cardinality({Device(call.wanted[s]) :
                              s \in 1 .. Len(call.wanted)}) > 1

(* With a penalty of at least 1, a token that was said before is only said *)
(* again when its own score is as good as that of every token that was     *)
(* not: the penalty makes no token more likely, whatever the sign of its   *)
(* score and however the penalised score is rounded.  A penalty below 1,   *)
(* which is accepted too, is for the opposite                              *)
(* (qwen_vl_select_repetition_penalized_top1).                             *)
PenaltyNeverRewardsOn(row, repeated, penalty) ==
    LET token == Top1(row, repeated, penalty) IN
    penalty >= Unit /\ token \in repeated =>
        \A u \in DOMAIN row \ repeated : row[token] >= row[u]
=============================================================================
