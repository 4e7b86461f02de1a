----------------------------- MODULE Pi0Engine -----------------------------
(***************************************************************************)
(* The pi0 engine between requests: the prefix key/value cache, which      *)
(* lives in persistent tensors of the language model's runtime, and what   *)
(* is left of it when a request fails halfway.                             *)
(*                                                                         *)
(* A predict encodes its images into one persistent tensor and its prompt  *)
(* into another, runs the language model over both, copies the keys and    *)
(* values of each layer into tensors of their own, and integrates the      *)
(* velocity that a new graph over these computes (src/models/pi0:          *)
(* pi0_engine.cpp, component_runtime.cpp, vlm.cpp, action.cpp).  Any step  *)
(* may throw, which ends the request.  A tensor is abstracted to how many  *)
(* tokens it has and to the requests its data comes from.                  *)
(***************************************************************************)
EXTENDS Naturals

CONSTANTS
    Layers,         \* layers of the language model and of the action expert
    VisionTokens,   \* tokens of a request's images
    PromptLengths,  \* lengths of prompts in tokens, 0 for the empty one
    max_token_len,  \* longer prompts are cut to it
    flow_steps,     \* steps of the integration
    MaxRequests     \* bound: requests of one behaviour

ASSUME Pi0Assumption ==
    /\ Layers \in Nat \ {0}
    /\ VisionTokens \in Nat \ {0}
    /\ PromptLengths \subseteq Nat
    /\ max_token_len \in Nat \ {0}
    /\ flow_steps \in Nat \ {0}
    /\ MaxRequests \in Nat

VARIABLES
    pc,             \* the step of predict that comes next, or "idle"
    id,             \* number of the current or last request
    prompt_tokens,  \* length of its prompt
    token_count,    \* of the prefix that the cache holds, 0 for none
    vision,         \* vision_prefix_embeddings
    prompt,         \* prompt_embeddings
    kv,             \* k_layers and v_layers, in the order they are written
    next,           \* the next of them to be written
    outputs,        \* what the language model's graph computed for all of them
    allocations,    \* how many persistent_allocations there are
    action_buffer,  \* the integration: steps done, requests whose data it used
    result          \* of the last finished predict

cacheVars == <<token_count, vision, prompt, kv, next, outputs, allocations>>
vars == <<pc, id, prompt_tokens, cacheVars, action_buffer, result>>

(* Keys and values of every layer.                                         *)
Slots == 1 .. 2 * Layers

Tensor == [len : Nat, from : SUBSET (1 .. MaxRequests)]
Null == [len |-> 0, from |-> {}]
NoResult == [ok |-> FALSE, len |-> 0, from |-> {}]

Init ==
    /\ pc = "idle"
    /\ id = 0
    /\ prompt_tokens = 0
    /\ token_count = 0
    /\ vision = Null
    /\ prompt = Null
    /\ kv = [s \in Slots |-> Null]
    /\ next = 1
    /\ outputs = Null
    /\ allocations = 0
    /\ action_buffer = [steps |-> 0, from |-> {}]
    /\ result = NoResult

---------------------------------------------------------------------------
(* A request                                                               *)

(* Mutant: a prompt that is too long is not cut.                           *)
CutNot(n) == n

(* The tokenizer cuts a prompt that is too long.                           *)
Cut(n) == IF n > max_token_len THEN max_token_len ELSE n

BeginPredict(n) ==
    /\ pc = "idle"
    /\ id < MaxRequests
    /\ pc' = "preprocess"
    /\ id' = id + 1
    /\ prompt_tokens' = Cut(n)
    /\ UNCHANGED <<cacheVars, action_buffer, result>>

(* An exception is caught in pi0_predict_raw_rgb, which returns nothing.   *)
Throw ==
    /\ pc' = "idle"
    /\ result' = NoResult
    /\ UNCHANGED <<id, prompt_tokens, action_buffer>>

(* An observation that does not fit the model's configuration is refused   *)
(* before anything of the cache is touched.                                *)
Preprocess ==
    /\ pc = "preprocess"
    /\ \/ Throw
       \/ /\ pc' = "vision"
          /\ UNCHANGED <<id, prompt_tokens, action_buffer, result>>
    /\ UNCHANGED cacheVars

(* reset(): only the count is cleared, the tensors stay.                   *)
Reset ==
    /\ pc = "idle"
    /\ token_count' = 0
    /\ UNCHANGED <<pc, id, prompt_tokens, vision, prompt, kv, next, outputs,
                   allocations, action_buffer, result>>

---------------------------------------------------------------------------
(* Persistent tensors                                                      *)

(* ggml_n_dims does not count trailing dimensions of 1, so that a tensor   *)
(* of a single token never has the shape asked for.                        *)
HasShape(tensor, len) == tensor.len = len /\ len > 1

(* Mutant: the tensor in the slot is never looked at.                      *)
AllocateAlways(tensor, len) == allocations' = allocations + 1

(* persistent_f32: a tensor of the right shape is used again; another one  *)
(* is allocated and put into the slot, while the old one stays allocated   *)
(* until the engine is freed.                                              *)
Allocate(tensor, len) ==
    allocations' = IF HasShape(tensor, len) THEN allocations
                                            ELSE allocations + 1

(* Mutant: a tensor that has the shape already is not written again.       *)
WrittenOnce(tensor, len, from) ==
    IF HasShape(tensor, len) THEN tensor ELSE [len |-> len, from |-> from]

(* pi0_persist_backend_f32 and pi0_persist_host_f32_2d: the tensor in the  *)
(* slot is overwritten, a new one or not.                                  *)
Written(tensor, len, from) == [len |-> len, from |-> from]

(* A step that throws before its slot is assigned.                         *)
ThrowInPrefill ==
    /\ Throw
    /\ UNCHANGED <<vision, prompt, kv, next, outputs, allocations>>

ContinueWith(step) ==
    /\ pc' = step
    /\ UNCHANGED <<id, prompt_tokens, action_buffer, result>>

---------------------------------------------------------------------------
(* pi0_prefill_prefix                                                      *)

(* Mutant: the token count of the last request stands while the cache is   *)
(* being written.                                                          *)
EncodeVisionKeepsCount ==
    /\ pc = "vision"
    /\ UNCHANGED token_count
    /\ \/ ThrowInPrefill
       \/ /\ Allocate(vision, VisionTokens)
          /\ vision' = Written(vision, VisionTokens, {id})
          /\ ContinueWith("prompt")
          /\ UNCHANGED <<prompt, kv, next, outputs>>

(* The images are encoded by the vision transformer and copied to the      *)
(* language model's runtime.  The image views are all there, because       *)
(* preprocessing requires every one the model names, and so are the        *)
(* weights, because loading does.                                          *)
EncodeVision ==
    /\ pc = "vision"
    /\ token_count' = 0
    /\ \/ ThrowInPrefill
       \/ /\ Allocate(vision, VisionTokens)
          /\ vision' = Written(vision, VisionTokens, {id})
          /\ ContinueWith("prompt")
          /\ UNCHANGED <<prompt, kv, next, outputs>>

(* An empty prompt has no embeddings, and the tensor of an earlier one     *)
(* stays.  The embeddings of the images must be a matrix, which those of   *)
(* a single token are not.                                                 *)
EmbedPrompt ==
    /\ pc = "prompt"
    /\ UNCHANGED token_count
    /\ \/ /\ prompt_tokens > 0 \/ VisionTokens = 1
          /\ ThrowInPrefill
       \/ /\ VisionTokens > 1
          /\ IF prompt_tokens = 0
             THEN UNCHANGED <<prompt, allocations>>
             ELSE /\ Allocate(prompt, prompt_tokens)
                  /\ prompt' = Written(prompt, prompt_tokens, {id})
          /\ ContinueWith("prefix")
          /\ UNCHANGED <<vision, kv, next, outputs>>

Embeddings ==
    IF prompt_tokens = 0 THEN vision.from ELSE vision.from \cup prompt.from

(* One graph computes every layer; its status is checked.  A prompt of one *)
(* token is no matrix and is refused here.                                 *)
ComputePrefix ==
    /\ pc = "prefix"
    /\ UNCHANGED token_count
    /\ \/ ThrowInPrefill
       \/ /\ prompt_tokens # 1
          /\ outputs' = [len |-> VisionTokens + prompt_tokens,
                         from |-> Embeddings]
          /\ next' = 1
          /\ ContinueWith("layers")
          /\ UNCHANGED <<vision, prompt, kv, allocations>>

(* Each layer's keys and values are copied, one tensor after the other,    *)
(* and the count is set after the last.                                    *)
PersistLayer ==
    /\ pc = "layers"
    /\ \/ /\ ~HasShape(kv[next], outputs.len)
          /\ ThrowInPrefill
          /\ UNCHANGED token_count
       \/ /\ Allocate(kv[next], outputs.len)
          /\ kv' = [kv EXCEPT ![next] =
                        Written(@, outputs.len, outputs.from)]
          /\ IF next < 2 * Layers
             THEN /\ next' = next + 1
                  /\ UNCHANGED token_count
                  /\ ContinueWith("layers")
             ELSE /\ UNCHANGED next
                  /\ token_count' = outputs.len
                  /\ ContinueWith("state")
          /\ UNCHANGED <<vision, prompt, outputs>>

---------------------------------------------------------------------------
(* Sampling                                                                *)

ThrowInSampling ==
    /\ Throw
    /\ UNCHANGED cacheVars

(* The state's projection is a local of the request.                       *)
ProjectState ==
    /\ pc = "state"
    /\ \/ ThrowInSampling
       \/ ContinueWith("velocity") /\ UNCHANGED cacheVars

PrefixFits == \A s \in Slots : kv[s].len = token_count

(* The velocity graph is built anew; noise fills the action buffer.        *)
BuildVelocityGraph ==
    /\ pc = "velocity"
    /\ \/ ThrowInSampling
       \/ /\ token_count > 0 => PrefixFits
          /\ pc' = "euler"
          /\ action_buffer' = [steps |-> 0, from |-> {}]
          /\ UNCHANGED <<id, prompt_tokens, cacheVars, result>>

Attended == IF token_count > 0 THEN UNION {kv[s].from : s \in Slots} ELSE {}

(* Every step reads the cache again.  A failed one leaves the buffer half  *)
(* integrated, and the next request overwrites it.                         *)
EulerStep ==
    /\ pc = "euler"
    /\ \/ ThrowInSampling
       \/ /\ action_buffer' = [steps |-> action_buffer.steps + 1,
                               from |-> action_buffer.from \cup Attended]
          /\ IF action_buffer'.steps < flow_steps
             THEN UNCHANGED <<pc, result>>
             ELSE /\ pc' = "idle"
                  /\ result' = [ok |-> TRUE, len |-> token_count,
                                from |-> action_buffer'.from]
          /\ UNCHANGED <<id, prompt_tokens, cacheVars>>

---------------------------------------------------------------------------

Next ==
    \/ \E n \in PromptLengths : BeginPredict(n)
    \/ Preprocess
    \/ Reset
    \/ EncodeVision
    \/ EmbedPrompt
    \/ ComputePrefix
    \/ PersistLayer
    \/ ProjectState
    \/ BuildVelocityGraph
    \/ EulerStep

Spec == Init /\ [][Next]_vars

---------------------------------------------------------------------------
(* Properties                                                              *)

TypeOK ==
    /\ pc \in {"idle", "preprocess", "vision", "prompt", "prefix", "layers",
               "state", "velocity", "euler"}
    /\ id \in 0 .. MaxRequests
    /\ prompt_tokens \in 0 .. max_token_len
    /\ token_count \in Nat
    /\ vision \in Tensor
    /\ prompt \in Tensor
    /\ kv \in [Slots -> Tensor]
    /\ next \in Slots
    /\ outputs \in Tensor
    /\ allocations \in Nat
    /\ action_buffer \in
           [steps : 0 .. flow_steps, from : SUBSET (1 .. MaxRequests)]
    /\ result \in [ok : BOOLEAN, len : Nat, from : SUBSET (1 .. MaxRequests)]

(* A cache that says it holds tokens holds them in every layer, all from   *)
(* one request: a request that fails between two layers leaves a mixture,  *)
(* and prefix_kv.token_count must not vouch for it.                        *)
CacheIsWhole ==
    token_count > 0 =>
        /\ PrefixFits
        /\ \E o \in 1 .. id : \A s \in Slots : kv[s].from = {o}

(* The actions of a predict come from that request's own prefix, whatever  *)
(* earlier requests, and failures between any two of their steps, left in  *)
(* the tensors that are used again.                                        *)
Promise == INSTANCE Predictor WITH
    busy <- pc # "idle",
    answer <- [ok |-> result.ok, from |-> result.from]
ImplementsPredictor == Promise!Spec

(* Persistent tensors are never freed before the engine is, so a control   *)
(* loop must not allocate in its steady state: a request whose prefix is   *)
(* as long as that of the successful request before it allocates nothing   *)
(* (persistent_f32).                                                       *)
NoAllocationWhenWarm ==
    [][result.ok /\ result.len = VisionTokens + prompt_tokens =>
           allocations' = allocations]_vars
=============================================================================
