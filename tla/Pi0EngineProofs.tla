-------------------------- MODULE Pi0EngineProofs --------------------------
(***************************************************************************)
(* Proofs about Pi0Engine for any number of layers, tokens, steps and      *)
(* requests: the prefix cache is whole whenever it claims to hold tokens,  *)
(* the engine implements Predictor, and a warm engine allocates nothing.   *)
(***************************************************************************)
EXTENDS Pi0Engine, TLAPS

InPrefill == pc \in {"prompt", "prefix", "layers"}
InSampling == pc \in {"state", "velocity", "euler"}

PrefixLength == VisionTokens + prompt_tokens

(* A request in progress has a number.                                     *)
IdInv == pc # "idle" => id > 0

(* What the prefill has written so far is of this request, and the cache   *)
(* claims nothing before all of it is.                                     *)
PrefillInv ==
    /\ InPrefill =>
          /\ token_count = 0
          /\ vision = Written(vision, VisionTokens, {id})
    /\ pc \in {"prefix", "layers"} =>
          /\ VisionTokens > 1
          /\ prompt_tokens > 0 =>
                prompt = Written(prompt, prompt_tokens, {id})
    /\ pc = "layers" =>
          /\ prompt_tokens # 1
          /\ outputs = [len |-> PrefixLength, from |-> {id}]
          /\ \A s \in Slots : s < next => kv[s] = outputs

(* Sampling reads a cache that is whole and of this request.               *)
SamplingInv ==
    /\ InSampling =>
          /\ token_count = PrefixLength
          /\ \A s \in Slots : kv[s] = [len |-> PrefixLength, from |-> {id}]
          /\ VisionTokens > 1
          /\ vision.len = VisionTokens
          /\ prompt_tokens > 0 => prompt.len = prompt_tokens
          /\ prompt_tokens # 1
    /\ pc = "euler" =>
          /\ action_buffer.steps < flow_steps
          /\ action_buffer.from = IF action_buffer.steps = 0 THEN {} ELSE {id}

(* After a success, and during a request of the same length, every tensor  *)
(* has the shape of that length.                                           *)
Warm(len) ==
    /\ VisionTokens > 1
    /\ vision.len = VisionTokens
    /\ \/ len = VisionTokens
       \/ prompt.len > 1 /\ len = VisionTokens + prompt.len
    /\ \A s \in Slots : kv[s].len = len

WarmInv ==
    result.ok /\ (pc = "idle" \/ result.len = PrefixLength) =>
        Warm(result.len)

IInv ==
    /\ TypeOK
    /\ IdInv
    /\ PrefillInv
    /\ SamplingInv
    /\ CacheIsWhole
    /\ WarmInv

(* pi0_init leaves an empty cache.                                         *)
LEMMA InitHolds == Init => IInv
BY Pi0Assumption DEF Init, IInv, TypeOK, IdInv, PrefillInv, SamplingInv,
   CacheIsWhole, WarmInv, InPrefill, InSampling, Null, NoResult, Tensor, Slots

(* Each step of pi0_predict_raw_rgb keeps the types.                       *)
LEMMA TypeStep == TypeOK /\ IdInv /\ SamplingInv /\ [Next]_vars => TypeOK'
<1>. SUFFICES ASSUME TypeOK, IdInv, SamplingInv, [Next]_vars PROVE TypeOK'
  OBVIOUS
<1>. USE Pi0Assumption DEF TypeOK
<1>0. NoResult \in [ok : BOOLEAN, len : Nat, from : SUBSET (1 .. MaxRequests)]
  BY DEF NoResult
<1>1. ASSUME NEW n \in PromptLengths, BeginPredict(n) PROVE TypeOK'
  BY <1>1 DEF BeginPredict, Cut, cacheVars
<1>2. CASE Preprocess
  BY <1>0, <1>2 DEF Preprocess, Throw, cacheVars
<1>3. CASE Reset
  BY <1>3 DEF Reset
<1>4. ASSUME pc # "idle", NEW len \in Nat, NEW tensor
      PROVE  Written(tensor, len, {id}) \in Tensor
  BY <1>4 DEF Written, Tensor, IdInv
<1>5. ASSUME NEW tensor, NEW len, Allocate(tensor, len)
      PROVE  allocations' \in Nat
  BY <1>5 DEF Allocate
<1>6. CASE EncodeVision
  BY <1>0, <1>4, <1>5, <1>6
     DEF EncodeVision, ThrowInPrefill, Throw, ContinueWith
<1>7. CASE EmbedPrompt
  BY <1>0, <1>4, <1>5, <1>7
     DEF EmbedPrompt, ThrowInPrefill, Throw, ContinueWith
<1>8. CASE ComputePrefix
  <2>1. Embeddings \in SUBSET (1 .. MaxRequests)
    BY DEF Embeddings, Tensor
  <2>2. [len |-> VisionTokens + prompt_tokens, from |-> Embeddings] \in Tensor
    BY <2>1 DEF Tensor
  <2>3. 1 \in Slots
    BY DEF Slots
  <2>. QED
    BY <1>0, <1>8, <2>2, <2>3
       DEF ComputePrefix, ThrowInPrefill, Throw, ContinueWith
<1>9. CASE PersistLayer
  <2>1. ASSUME NEW tensor
        PROVE  Written(tensor, outputs.len, outputs.from) \in Tensor
    BY DEF Written, Tensor
  <2>2. outputs.len \in Nat
    BY DEF Tensor
  <2>3. next < 2 * Layers => next + 1 \in Slots
    BY DEF Slots
  <2>. QED
    BY <1>0, <1>5, <1>9, <2>1, <2>2, <2>3
       DEF PersistLayer, ThrowInPrefill, Throw, ContinueWith
<1>10. CASE ProjectState
  BY <1>0, <1>10
     DEF ProjectState, ThrowInSampling, Throw, ContinueWith, cacheVars
<1>11. CASE BuildVelocityGraph
  BY <1>0, <1>11 DEF BuildVelocityGraph, ThrowInSampling, Throw, cacheVars
<1>12. CASE EulerStep
  <2>1. Attended \in SUBSET (1 .. MaxRequests)
    BY DEF Attended, Tensor
  <2>2. action_buffer.steps < flow_steps
    BY <1>12 DEF EulerStep, SamplingInv
  <2>3. CASE ThrowInSampling
    BY <1>0, <2>3 DEF ThrowInSampling, Throw, cacheVars
  <2>4. CASE ~ThrowInSampling
    <3>1. action_buffer' = [steps |-> action_buffer.steps + 1,
                            from |-> action_buffer.from \cup Attended]
      BY <1>12, <2>4 DEF EulerStep
    <3>2. action_buffer.steps + 1 \in 0 .. flow_steps
      BY <2>2
    <3>3. action_buffer' \in
              [steps : 0 .. flow_steps, from : SUBSET (1 .. MaxRequests)]
      BY <2>1, <3>1, <3>2
    <3>4. action_buffer'.from \in SUBSET (1 .. MaxRequests)
      BY <3>3
    <3>5. \/ result' = result
          \/ result' = [ok |-> TRUE, len |-> token_count,
                        from |-> action_buffer'.from]
      BY <1>12, <2>4 DEF EulerStep
    <3>6. result' \in
              [ok : BOOLEAN, len : Nat, from : SUBSET (1 .. MaxRequests)]
      <4>1. ASSUME NEW S \in SUBSET (1 .. MaxRequests)
            PROVE  [ok |-> TRUE, len |-> token_count, from |-> S] \in
                       [ok : BOOLEAN, len : Nat,
                        from : SUBSET (1 .. MaxRequests)]
        OBVIOUS
      <4>2. action_buffer'.from \in SUBSET (1 .. MaxRequests) =>
                [ok |-> TRUE, len |-> token_count,
                 from |-> action_buffer'.from] \in
                    [ok : BOOLEAN, len : Nat, from : SUBSET (1 .. MaxRequests)]
        BY <4>1
      <4>. QED
        BY <3>4, <3>5, <4>2
    <3>7. /\ pc' \in {"euler", "idle"}
          /\ UNCHANGED <<id, prompt_tokens, cacheVars>>
      BY <1>12, <2>4 DEF EulerStep
    <3>. QED
      BY <3>3, <3>6, <3>7 DEF cacheVars
  <2>. QED
    BY <2>3, <2>4
<1>13. CASE UNCHANGED vars
  BY <1>13 DEF vars, cacheVars
<1>. QED
  BY <1>1, <1>2, <1>3, <1>6, <1>7, <1>8, <1>9, <1>10, <1>11, <1>12, <1>13
     DEF Next

(* Each step of pi0_prefill_prefix hands on this request's data.           *)
LEMMA PrefillStep ==
    TypeOK /\ IdInv /\ PrefillInv /\ [Next]_vars => IdInv' /\ PrefillInv'
<1>. SUFFICES ASSUME TypeOK, IdInv, PrefillInv, [Next]_vars
              PROVE  IdInv' /\ PrefillInv'
  OBVIOUS
<1>. USE Pi0Assumption DEF TypeOK, IdInv, PrefillInv, InPrefill, PrefixLength
<1>1. ASSUME NEW n \in PromptLengths, BeginPredict(n)
      PROVE  IdInv' /\ PrefillInv'
  BY <1>1 DEF BeginPredict
<1>2. CASE Preprocess
  BY <1>2 DEF Preprocess, Throw
<1>3. CASE Reset
  BY <1>3 DEF Reset
<1>4. CASE EncodeVision
  BY <1>4 DEF EncodeVision, ThrowInPrefill, Throw, ContinueWith, Written
<1>5. CASE EmbedPrompt
  BY <1>5 DEF EmbedPrompt, ThrowInPrefill, Throw, ContinueWith, Written
<1>6. CASE ComputePrefix
  <2>1. CASE ThrowInPrefill
    BY <1>6, <2>1 DEF ComputePrefix, ThrowInPrefill, Throw
  <2>2. CASE ~ThrowInPrefill
    <3>1. Embeddings = {id}
      BY <1>6 DEF ComputePrefix, Embeddings, Written
    <3>2. \A s \in Slots : ~(s < 1)
      BY DEF Slots
    <3>. QED
      BY <1>6, <2>2, <3>1, <3>2 DEF ComputePrefix, ContinueWith, Written
  <2>. QED  BY <2>1, <2>2
<1>7. CASE PersistLayer
  <2>1. CASE ThrowInPrefill
    BY <1>7, <2>1 DEF PersistLayer, ThrowInPrefill, Throw
  <2>2. CASE ~ThrowInPrefill
    <3>1. /\ outputs \in Tensor
          /\ outputs = Written(kv[next], outputs.len, outputs.from)
      BY <1>7 DEF PersistLayer, Written
    <3>2. kv' = [kv EXCEPT ![next] = outputs] /\ outputs' = outputs
      BY <1>7, <2>2, <3>1 DEF PersistLayer, Written
    <3>3. pc' = "layers" => \A s \in Slots : s < next' => kv'[s] = outputs'
      <4>1. SUFFICES ASSUME pc' = "layers", NEW s \in Slots, s < next'
                     PROVE kv'[s] = outputs'
        OBVIOUS
      <4>2. next' = next + 1
        BY <1>7, <2>2, <4>1 DEF PersistLayer, ContinueWith
      <4>3. s < next \/ s = next
        BY <4>1, <4>2 DEF Slots
      <4>4. \A t \in Slots : t < next => kv[t] = outputs
        BY <1>7 DEF PersistLayer
      <4>. QED
        BY <3>2, <4>3, <4>4
    <3>4. pc' \in {"layers", "state"}
      BY <1>7, <2>2 DEF PersistLayer, ContinueWith
    <3>5. pc' = "layers" => token_count' = token_count
      BY <1>7, <2>2 DEF PersistLayer, ContinueWith
    <3>6. UNCHANGED <<id, prompt_tokens, vision, prompt>>
      BY <1>7, <2>2 DEF PersistLayer, ContinueWith
    <3>. QED
      BY <1>7, <3>2, <3>3, <3>4, <3>5, <3>6 DEF PersistLayer, Written
  <2>. QED  BY <2>1, <2>2
<1>8. CASE ProjectState
  BY <1>8 DEF ProjectState, ThrowInSampling, Throw, ContinueWith
<1>9. CASE BuildVelocityGraph
  BY <1>9 DEF BuildVelocityGraph, ThrowInSampling, Throw
<1>10. CASE EulerStep
  BY <1>10 DEF EulerStep, ThrowInSampling, Throw
<1>11. CASE UNCHANGED vars
  BY <1>11 DEF vars, cacheVars
<1>. QED
  BY <1>1, <1>2, <1>3, <1>4, <1>5, <1>6, <1>7, <1>8, <1>9, <1>10, <1>11
     DEF Next

(* pi0_sample_actions begins with the count the last layer's copy set.     *)
LEMMA SamplingStep == IInv /\ [Next]_vars => SamplingInv'
<1>. SUFFICES ASSUME IInv, [Next]_vars PROVE SamplingInv'
  OBVIOUS
<1>. USE Pi0Assumption DEF IInv, TypeOK, SamplingInv, InSampling, PrefixLength
<1>1. CASE pc' \notin {"state", "velocity", "euler"}
  BY <1>1
<1>2. CASE PersistLayer /\ pc' = "state"
  <2>1. ~ThrowInPrefill
    BY <1>2 DEF ThrowInPrefill, Throw
  <2>2. /\ outputs = [len |-> PrefixLength, from |-> {id}]
        /\ \A s \in Slots : s < next => kv[s] = outputs
        /\ VisionTokens > 1 /\ prompt_tokens # 1
        /\ vision.len = VisionTokens
        /\ prompt_tokens > 0 => prompt.len = prompt_tokens
    BY <1>2 DEF PersistLayer, PrefillInv, InPrefill, Written
  <2>3. next = 2 * Layers
    BY <1>2, <2>1 DEF PersistLayer, ContinueWith, Slots
  <2>4. /\ kv' = [kv EXCEPT ![next] = outputs]
        /\ token_count' = PrefixLength
        /\ UNCHANGED <<id, prompt_tokens, vision, prompt>>
    BY <1>2, <2>1, <2>2, <2>3 DEF PersistLayer, Written, ContinueWith
  <2>5. \A s \in Slots : kv'[s] = outputs
    <3>1. SUFFICES ASSUME NEW s \in Slots PROVE kv'[s] = outputs
      OBVIOUS
    <3>2. s < next \/ s = next
      BY <2>3 DEF Slots
    <3>. QED
      BY <2>2, <2>4, <3>2
  <2>. QED
    BY <1>2, <2>2, <2>4, <2>5
<1>3. CASE ProjectState /\ pc' = "velocity"
  BY <1>3 DEF ProjectState, ThrowInSampling, Throw, ContinueWith, cacheVars
<1>4. CASE BuildVelocityGraph /\ pc' = "euler"
  BY <1>4 DEF BuildVelocityGraph, ThrowInSampling, Throw, cacheVars
<1>5. CASE EulerStep /\ pc' = "euler"
  <2>1. Attended = {id}
    <3>1. 1 \in Slots
      BY DEF Slots
    <3>2. token_count > 0 /\ \A s \in Slots : kv[s].from = {id}
      BY <1>5 DEF EulerStep
    <3>. QED
      BY <3>1, <3>2 DEF Attended
  <2>2. ~ThrowInSampling
    BY <1>5 DEF ThrowInSampling, Throw
  <2>3. /\ action_buffer' = [steps |-> action_buffer.steps + 1, from |-> {id}]
        /\ action_buffer'.steps < flow_steps
        /\ UNCHANGED <<id, prompt_tokens, token_count, kv, vision, prompt>>
    BY <1>5, <2>1, <2>2 DEF EulerStep, cacheVars
  <2>. QED
    BY <1>5, <2>3 DEF EulerStep
<1>6. CASE UNCHANGED vars
  BY <1>6 DEF vars, cacheVars
<1>7. Next /\ pc' \in {"state", "velocity", "euler"} =>
         \/ PersistLayer /\ pc' = "state"
         \/ ProjectState /\ pc' = "velocity"
         \/ BuildVelocityGraph /\ pc' = "euler"
         \/ EulerStep /\ pc' = "euler"
  BY DEF Next, BeginPredict, Preprocess, Reset, EncodeVision, EmbedPrompt,
     ComputePrefix, PersistLayer, ProjectState, BuildVelocityGraph, EulerStep,
     ThrowInPrefill, ThrowInSampling, Throw, ContinueWith
<1>. QED
  BY <1>1, <1>2, <1>3, <1>4, <1>5, <1>6, <1>7

(* Only that copy makes the count positive.                                *)
LEMMA CacheStep == IInv /\ SamplingInv' /\ [Next]_vars => CacheIsWhole'
<1>. SUFFICES ASSUME IInv, SamplingInv', [Next]_vars PROVE CacheIsWhole'
  OBVIOUS
<1>. USE Pi0Assumption DEF IInv, TypeOK
<1>1. CASE UNCHANGED <<id, token_count, kv>>
  BY <1>1 DEF CacheIsWhole, PrefixFits
<1>2. CASE token_count' = 0
  BY <1>2 DEF CacheIsWhole
<1>3. ASSUME NEW n \in PromptLengths, BeginPredict(n) PROVE CacheIsWhole'
  BY <1>3 DEF BeginPredict, cacheVars, CacheIsWhole, PrefixFits
<1>4. CASE PersistLayer /\ token_count' # 0
  <2>1. ~ThrowInPrefill /\ token_count = 0
    BY <1>4 DEF PersistLayer, ThrowInPrefill, Throw, ContinueWith, PrefillInv,
       InPrefill
  <2>2. pc' = "state" /\ id' = id
    BY <1>4, <2>1 DEF PersistLayer, ContinueWith
  <2>3. /\ token_count' = PrefixLength'
        /\ \A s \in Slots : kv'[s] = [len |-> PrefixLength', from |-> {id'}]
    BY <2>2 DEF SamplingInv, InSampling
  <2>4. id \in 1 .. id
    BY <1>4 DEF PersistLayer, IdInv
  <2>. QED
    BY <2>2, <2>3, <2>4 DEF CacheIsWhole, PrefixFits
<1>5. Next =>
         \/ UNCHANGED <<id, token_count, kv>>
         \/ token_count' = 0
         \/ \E n \in PromptLengths : BeginPredict(n)
         \/ PersistLayer /\ token_count' # 0
  BY DEF Next, Preprocess, Reset, EncodeVision, EmbedPrompt, ComputePrefix,
     ProjectState, BuildVelocityGraph, EulerStep, ThrowInPrefill,
     ThrowInSampling, Throw, ContinueWith, cacheVars
<1>. QED
  BY <1>1, <1>2, <1>3, <1>4, <1>5 DEF vars, cacheVars

(* A request of the same length keeps the shape of every tensor it writes. *)
LEMMA WarmStep == IInv /\ [Next]_vars => WarmInv'
<1>. SUFFICES ASSUME IInv, [Next]_vars PROVE WarmInv'
  OBVIOUS
<1>. USE Pi0Assumption DEF IInv, TypeOK, PrefixLength
<1>1. CASE UNCHANGED <<pc, prompt_tokens, result, vision, prompt, kv>>
  BY <1>1 DEF WarmInv, Warm
<1>2. CASE ~result'.ok
  BY <1>2 DEF WarmInv
<1>3. ASSUME NEW n \in PromptLengths, BeginPredict(n) PROVE WarmInv'
  BY <1>3 DEF BeginPredict, cacheVars, WarmInv, Warm
<1>4. ASSUME pc # "idle", pc' # "idle", UNCHANGED <<prompt_tokens, result>>,
             result.len = PrefixLength /\ Warm(result.len) => Warm(result.len)'
      PROVE WarmInv'
  BY <1>4 DEF WarmInv
<1>5. CASE EulerStep /\ pc' = "idle" /\ result'.ok
  <2>1. ~ThrowInSampling
    BY <1>5 DEF ThrowInSampling, Throw, NoResult
  <2>2. /\ result'.len = PrefixLength
        /\ UNCHANGED <<prompt_tokens, vision, prompt, kv>>
    BY <1>5, <2>1 DEF EulerStep, SamplingInv, InSampling, cacheVars
  <2>3. Warm(PrefixLength)
    BY <1>5 DEF EulerStep, SamplingInv, InSampling, Warm
  <2>. QED
    BY <2>2, <2>3 DEF WarmInv, Warm
<1>6. CASE EncodeVision /\ result'.ok
  <2>1. /\ pc # "idle" /\ pc' # "idle"
        /\ UNCHANGED <<prompt_tokens, result, prompt, kv>>
        /\ vision'.len = VisionTokens
    BY <1>6 DEF EncodeVision, ThrowInPrefill, Throw, NoResult, ContinueWith,
       Written
  <2>. QED
    BY <1>4, <2>1 DEF Warm
<1>7. CASE EmbedPrompt /\ result'.ok
  <2>1. /\ pc # "idle" /\ pc' # "idle"
        /\ UNCHANGED <<prompt_tokens, result, vision, kv>>
        /\ \/ prompt_tokens = 0 /\ prompt' = prompt
           \/ prompt_tokens > 0 /\ prompt'.len = prompt_tokens
    BY <1>7 DEF EmbedPrompt, ThrowInPrefill, Throw, NoResult, ContinueWith,
       Written
  <2>2. result.len = PrefixLength /\ Warm(result.len) => Warm(result.len)'
    BY <2>1 DEF Warm, Tensor
  <2>. QED
    BY <1>4, <2>1, <2>2
<1>8. CASE PersistLayer /\ result'.ok
  <2>1. /\ pc # "idle" /\ pc' # "idle"
        /\ UNCHANGED <<prompt_tokens, result, vision, prompt>>
        /\ kv' = [kv EXCEPT ![next] =
                      [len |-> outputs.len, from |-> outputs.from]]
    BY <1>8 DEF PersistLayer, ThrowInPrefill, Throw, NoResult, ContinueWith,
       Written
  <2>2. outputs.len = PrefixLength
    BY <1>8 DEF PersistLayer, PrefillInv
  <2>3. result.len = PrefixLength /\ Warm(result.len) => Warm(result.len)'
    BY <2>1, <2>2 DEF Warm
  <2>. QED
    BY <1>4, <2>1, <2>3
<1>9. CASE /\ pc # "idle" /\ pc' # "idle"
           /\ UNCHANGED <<prompt_tokens, result, vision, prompt, kv>>
  BY <1>4, <1>9 DEF Warm
<1>10. Next =>
         \/ UNCHANGED <<pc, prompt_tokens, result, vision, prompt, kv>>
         \/ ~result'.ok
         \/ \E n \in PromptLengths : BeginPredict(n)
         \/ EulerStep /\ pc' = "idle" /\ result'.ok
         \/ EncodeVision /\ result'.ok
         \/ EmbedPrompt /\ result'.ok
         \/ PersistLayer /\ result'.ok
         \/ /\ pc # "idle" /\ pc' # "idle"
            /\ UNCHANGED <<prompt_tokens, result, vision, prompt, kv>>
  BY DEF Next, Preprocess, Reset, ComputePrefix, ProjectState,
     BuildVelocityGraph, EulerStep, ThrowInPrefill, ThrowInSampling, Throw,
     NoResult, ContinueWith, cacheVars
<1>. QED
  BY <1>1, <1>2, <1>3, <1>5, <1>6, <1>7, <1>8, <1>9, <1>10
     DEF vars, cacheVars

(* pi0_predict_raw_rgb: in every reachable state the types are right and   *)
(* the cache is whole, written so far by the request in progress, and read *)
(* by no other.                                                            *)
THEOREM Invariance == Spec => []IInv
<1>1. IInv /\ [Next]_vars => IInv'
  <2>. SUFFICES ASSUME IInv, [Next]_vars PROVE IInv'
    OBVIOUS
  <2>1. TypeOK'
    BY TypeStep DEF IInv
  <2>2. IdInv' /\ PrefillInv'
    BY PrefillStep DEF IInv
  <2>3. SamplingInv'
    BY SamplingStep
  <2>4. CacheIsWhole'
    BY <2>3, CacheStep
  <2>5. WarmInv'
    BY WarmStep
  <2>. QED
    BY <2>1, <2>2, <2>3, <2>4, <2>5 DEF IInv
<1>. QED
  BY InitHolds, <1>1, PTL DEF Spec

(* Whatever failed before, what pi0_predict_raw_rgb keeps between its      *)
(* steps and between requests has its type; the cut prompt and the number  *)
(* of denoising steps stay in their bounds.                                *)
THEOREM TypeCorrect == Spec => []TypeOK
<1>1. IInv => TypeOK
  BY DEF IInv
<1>. QED
  BY Invariance, <1>1, PTL

(* Pi0PrefixKvRuntime: a token count above 0 vouches for every layer,      *)
(* whatever order of requests, resets and failures between layers came     *)
(* before.                                                                 *)
THEOREM CacheAlwaysWhole == Spec => []CacheIsWhole
<1>1. IInv => CacheIsWhole
  BY DEF IInv
<1>. QED
  BY Invariance, <1>1, PTL

(* persistent_f32: no request allocates whose prefix is as long as that of *)
(* the successful request before it.                                       *)
THEOREM WarmRequestsDoNotAllocate == Spec => NoAllocationWhenWarm
<1>1. IInv /\ [Next]_vars =>
        (result.ok /\ result.len = VisionTokens + prompt_tokens =>
             allocations' = allocations) \/ UNCHANGED vars
  <2>. SUFFICES ASSUME IInv, [Next]_vars, result.ok,
                       result.len = VisionTokens + prompt_tokens
                PROVE  allocations' = allocations
    BY DEF vars, cacheVars
  <2>. USE Pi0Assumption DEF IInv, TypeOK
  <2>1. Warm(VisionTokens + prompt_tokens)
    BY DEF WarmInv, PrefixLength
  <2>2. VisionTokens + prompt_tokens > 1
    BY <2>1 DEF Warm
  <2>3. CASE EncodeVision
    BY <2>1, <2>3 DEF EncodeVision, ThrowInPrefill, Allocate, HasShape, Warm
  <2>4. CASE EmbedPrompt
    BY <2>1, <2>4 DEF EmbedPrompt, ThrowInPrefill, Allocate, HasShape, Warm,
       Tensor
  <2>5. CASE PersistLayer
    <3>1. HasShape(kv[next], outputs.len)
      BY <2>1, <2>2, <2>5 DEF PersistLayer, PrefillInv, PrefixLength, HasShape,
         Warm
    <3>. QED
      BY <2>5, <3>1 DEF PersistLayer, ThrowInPrefill, Allocate
  <2>6. CASE UNCHANGED vars
    BY <2>6 DEF vars, cacheVars
  <2>. QED
    BY <2>3, <2>4, <2>5, <2>6 DEF Next, BeginPredict, Preprocess, Reset,
       ComputePrefix, ProjectState, BuildVelocityGraph, EulerStep,
       ThrowInPrefill, ThrowInSampling, cacheVars
<1>. QED
  BY Invariance, <1>1, PTL DEF Spec, NoAllocationWhenWarm

(* Model::predict for pi0: each call fails or returns actions computed     *)
(* from its own observation.                                               *)
THEOREM EngineImplementsPredictor == Spec => ImplementsPredictor
<1>1. Init => Promise!Init
  BY DEF Init, Promise!Init, Promise!Failed, NoResult
<1>2. IInv /\ [Next]_vars => [Promise!Next]_(Promise!vars)
  <2>. SUFFICES ASSUME IInv, [Next]_vars
                PROVE  Promise!Next \/ UNCHANGED Promise!vars
    OBVIOUS
  <2>. USE DEF Promise!Next, Promise!vars, Promise!Call, Promise!Return,
           Promise!Failed
  <2>1. ASSUME NEW n \in PromptLengths, BeginPredict(n) PROVE Promise!Call
    BY <2>1 DEF BeginPredict
  <2>2. CASE pc # "idle" /\ Throw
    BY <2>2 DEF Throw, NoResult
  <2>3. CASE EulerStep /\ pc' = "idle" /\ ~Throw
    <3>1. action_buffer'.from = {id}
      <4>1. Attended = {id}
        <5>1. 1 \in Slots
          BY Pi0Assumption DEF Slots
        <5>2. token_count > 0 /\ \A s \in Slots : kv[s].from = {id}
          BY <2>3, Pi0Assumption DEF EulerStep, IInv, TypeOK, SamplingInv,
             InSampling, PrefixLength
        <5>. QED
          BY <5>1, <5>2 DEF Attended
      <4>2. action_buffer' = [steps |-> action_buffer.steps + 1,
                              from |-> action_buffer.from \cup Attended]
        BY <2>3 DEF EulerStep, ThrowInSampling
      <4>3. action_buffer.from \subseteq {id}
        BY <2>3 DEF EulerStep, IInv, SamplingInv
      <4>. QED
        BY <4>1, <4>2, <4>3
    <3>2. /\ pc = "euler"
          /\ id' = id
          /\ result'.ok = TRUE
          /\ result'.from = action_buffer'.from
      BY <2>3 DEF EulerStep, ThrowInSampling
    <3>. QED
      BY <2>3, <3>1, <3>2
  <2>4. CASE /\ UNCHANGED <<id, result>>
             /\ (pc' = "idle") = (pc = "idle")
    BY <2>4
  <2>5. Next => \/ \E n \in PromptLengths : BeginPredict(n)
                \/ pc # "idle" /\ Throw
                \/ EulerStep /\ pc' = "idle" /\ ~Throw
                \/ /\ UNCHANGED <<id, result>>
                   /\ (pc' = "idle") = (pc = "idle")
    BY DEF Next, Preprocess, Reset, EncodeVision, EmbedPrompt, ComputePrefix,
       PersistLayer, ProjectState, BuildVelocityGraph, EulerStep,
       ThrowInPrefill, ThrowInSampling, ContinueWith
  <2>. QED
    BY <2>1, <2>2, <2>3, <2>4, <2>5 DEF vars
<1>. QED
  BY Invariance, <1>1, <1>2, PTL DEF Spec, ImplementsPredictor, Promise!Spec
=============================================================================
