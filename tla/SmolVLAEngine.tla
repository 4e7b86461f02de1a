--------------------------- MODULE SmolVLAEngine ---------------------------
(***************************************************************************)
(* The SmolVLA engine between requests: what predict keeps in its context  *)
(* from one request to the next, and whose data the actions it returns are *)
(* computed from.                                                          *)
(*                                                                         *)
(* A predict encodes its images, projects the robot state, runs the        *)
(* language model over the prefix and denoises the actions                 *)
(* (src/models/smolvla: smolvla_engine.cpp, vision.cpp, state_proj.cpp,    *)
(* action_expert.cpp).  For speed the engine caches the raw-image graph of *)
(* the last image size, the state embedding buffer, and in the action      *)
(* expert the prefix key/value tensors, the attention masks and the whole  *)
(* denoising graph, which points into the other two.  Data is abstracted   *)
(* to the request it came from.                                            *)
(***************************************************************************)
EXTENDS Naturals, Sequences

CONSTANTS
    Sizes,          \* sizes of raw images
    MaxImages,      \* bound: images of one request
    MaxRequests,    \* bound: requests of one behaviour
    VisionTokens,   \* prefix tokens of one image
    LangTokens,     \* prefix tokens of the padded prompt (lang_max_len)
    ContextLength   \* n_ctx

ASSUME LengthAssumption ==
    /\ MaxImages \in Nat /\ MaxRequests \in Nat /\ ContextLength \in Nat
    /\ VisionTokens \in Nat \ {0} /\ LangTokens \in Nat
ASSUME SizeAssumption == "encoded" \notin Sizes /\ "none" \notin Sizes

(* A JPEG or PNG is decoded and resized to the model's size; a raw image   *)
(* goes through a graph of its own size.                                   *)
Images == Sizes \cup {"encoded"}

(* predict and predict_bytes take one encoded image, raw_rgb_batch several *)
(* raw ones; state is NULL when hasState is false.                         *)
Requests ==
    [images : {<<"encoded">>} \cup
                  UNION {[1 .. n -> Sizes] : n \in 1 .. MaxImages},
     hasState : BOOLEAN]

VARIABLES
    state_proj, \* whether smolvla_init could load the state projector
    pc,         \* the step of predict that comes next, "idle" between calls
    id,         \* number of the current or last request
    request,    \* the current or last request
    camera_embs,\* per image encoded so far, the request it is of, or 0
    rawGraph,   \* image size graph_raw_vision is cached for, or "none"
    meta,       \* the graph whose description is in buf_compute_meta
    stateEmb,   \* the request state_emb is of, 0 for the initial zeros
    llmKv,      \* the requests whose data the language model's cache holds
    expert,     \* the action expert's runtimes
    result,     \* of the last finished predict
    faults      \* history: what went wrong unreported in this request

vars == <<state_proj, pc, id, request, camera_embs, rawGraph, meta,
          stateEmb, llmKv, expert, result, faults>>

visionVars == <<camera_embs, rawGraph, meta>>

(* Provenance of a prefix: the requests whose images and state are in it.  *)
(* 0 stands for the initial zeros, Wrong for data of no request at all.    *)
Wrong == MaxRequests + 1
Origin == 0 .. Wrong
Prefix == [images : SUBSET Origin, state : Origin]
NoPrefix == [images |-> {}, state |-> 0]
Garbage == [images |-> {Wrong}, state |-> Wrong]

NoKv == [len |-> 0, gen |-> 0, of |-> NoPrefix]
NoAttention == [len |-> 0, gen |-> 0, prepared |-> FALSE, of |-> 0]
NoGraph == [len |-> 0, kv |-> 0, attention |-> 0]

StateTokens == IF state_proj THEN 1 ELSE 0
PrefixLength(images) == images * VisionTokens + LangTokens + StateTokens

NoResult == [id |-> 0, ok |-> FALSE, prefix |-> NoPrefix, mask |-> 0]

(* smolvla_init prepares the expert for the prefix of one image; a state   *)
(* projector that does not load is only a warning.                         *)
Init ==
    /\ state_proj \in BOOLEAN
    /\ pc = "idle"
    /\ id = 0
    /\ request = [images |-> <<"encoded">>, hasState |-> FALSE]
    /\ camera_embs = <<>>
    /\ rawGraph = "none"
    /\ meta = [graph |-> "none", allocated |-> FALSE]
    /\ stateEmb = 0
    /\ llmKv = NoPrefix
    /\ expert = [kv |-> [len |-> PrefixLength(1), gen |-> 1, of |-> NoPrefix],
                 attention |-> [len |-> PrefixLength(1), gen |-> 2,
                                prepared |-> FALSE, of |-> 0],
                 denoise |-> NoGraph,
                 gens |-> 2]
    /\ result = NoResult
    /\ faults = {}

(* Mutant: the embeddings of the last request are not cleared.             *)
BeginPredictKeeps(r) ==
    /\ pc = "idle"
    /\ id < MaxRequests
    /\ pc' = "vision"
    /\ id' = id + 1
    /\ request' = r
    /\ faults' = {}
    /\ UNCHANGED <<state_proj, visionVars, stateEmb, llmKv, expert, result>>

BeginPredict(r) ==
    /\ pc = "idle"
    /\ id < MaxRequests
    /\ pc' = "vision"
    /\ id' = id + 1
    /\ request' = r
    /\ camera_embs' = <<>>
    /\ faults' = {}
    /\ UNCHANGED <<state_proj, rawGraph, meta, stateEmb, llmKv, expert,
                   result>>

Fail ==
    /\ pc' = "idle"
    /\ result' = [NoResult EXCEPT !.id = id]

---------------------------------------------------------------------------
(* Vision: images are encoded in order; a failure yields an empty vector,  *)
(* and the loop goes on to the next image.                                 *)

NextImage == request.images[Len(camera_embs) + 1]

(* Every graph is described in the same buffer, buf_compute_meta.          *)
Build(g, ok) == meta' = [graph |-> g, allocated |-> ok]

(* The status of ggml_backend_sched_graph_compute is ignored, here and in  *)
(* every other graph of the engine but pi0's.                              *)
Encoded(origin) ==
    \/ /\ camera_embs' = Append(camera_embs, origin)
       /\ UNCHANGED faults
    \/ /\ camera_embs' = Append(camera_embs, Wrong)
       /\ faults' = faults \cup {"compute"}

NotEncoded ==
    /\ camera_embs' = Append(camera_embs, 0)
    /\ UNCHANGED faults

ImageComesNext(g) ==
    /\ pc = "vision"
    /\ Len(camera_embs) < Len(request.images)
    /\ NextImage = g
    /\ UNCHANGED <<state_proj, id, request, stateEmb, llmKv, expert>>

(* An image that does not decode, has no declared name, or whose shape or  *)
(* stride is wrong ends the request before any graph is touched.           *)
RejectImage(g) ==
    /\ ImageComesNext(g)
    /\ Fail
    /\ UNCHANGED <<visionVars, faults>>

(* encode_preprocessed builds its graph on every run.                      *)
EncodePreprocessed ==
    /\ ImageComesNext("encoded")
    /\ \/ Build("encoded", TRUE) /\ Encoded(id)
       \/ Build("encoded", FALSE) /\ NotEncoded
    /\ UNCHANGED <<pc, rawGraph, result>>

(* encode_raw_graph rebuilds only for another size than the cached one.    *)
EncodeRawNewSize(s) ==
    /\ ImageComesNext(s)
    /\ rawGraph # s
    /\ \/ Build(s, TRUE) /\ rawGraph' = s /\ Encoded(id)
       \/ Build(s, FALSE) /\ UNCHANGED rawGraph /\ NotEncoded
    /\ UNCHANGED <<pc, result>>

(* The cached pointers lead into buf_compute_meta.  When another graph has *)
(* been described there since, what runs is not the cached graph: ggml     *)
(* aborts on an unallocated tensor, or what comes out is of no request.    *)
EncodeRawCached(s) ==
    /\ ImageComesNext(s)
    /\ rawGraph = s
    /\ \/ /\ meta = [graph |-> s, allocated |-> TRUE]
          /\ Encoded(id)
          /\ UNCHANGED pc
       \/ /\ meta # [graph |-> s, allocated |-> TRUE]
          /\ camera_embs' = Append(camera_embs, Wrong)
          /\ faults' = faults \cup {"clobbered"}
          /\ pc' \in {pc, "aborted"}
    /\ UNCHANGED <<rawGraph, meta, result>>

(* prepare_vision_embeddings: one image without an embedding fails all.    *)
FinishVision ==
    /\ pc = "vision"
    /\ Len(camera_embs) = Len(request.images)
    /\ IF \E i \in DOMAIN camera_embs : camera_embs[i] = 0
       THEN Fail
       ELSE pc' = "state" /\ UNCHANGED result
    /\ UNCHANGED <<state_proj, id, request, visionVars, stateEmb, llmKv,
                   expert, faults>>

---------------------------------------------------------------------------
(* State: without a state, or when its projection fails (a warning), the   *)
(* embedding in state_emb stays what an earlier request left there.        *)

ProjectState ==
    /\ pc = "state"
    /\ pc' = "prefix"
    /\ \/ /\ state_proj /\ request.hasState
          /\ stateEmb' = id
          /\ UNCHANGED faults
       \/ /\ state_proj /\ request.hasState
          /\ stateEmb' = Wrong
          /\ faults' = faults \cup {"compute"}
       \/ /\ state_proj
          /\ UNCHANGED stateEmb
          /\ faults' = faults \cup {"stateKept"}
       \/ ~state_proj /\ UNCHANGED <<stateEmb, faults>>
    /\ UNCHANGED <<state_proj, id, request, visionVars, llmKv, expert,
                   result>>

---------------------------------------------------------------------------
(* The expert's runtimes.  Dropping the prefix tensors or the masks drops  *)
(* the denoising graph, which points to them.  Each operator returns the   *)
(* set of possible outcomes; one with the wanted length is a success.      *)

(* Mutant: the denoising graph is kept when the prefix tensors go.         *)
ClearKvOnly(e) == [e EXCEPT !.kv = NoKv]

ClearKv(e) == [e EXCEPT !.kv = NoKv, !.denoise = NoGraph]

AllocateKv(e, len) ==
    [ClearKv(e) EXCEPT
        !.kv = [len |-> len, gen |-> e.gens + 1, of |-> NoPrefix],
        !.gens = e.gens + 1]

EnsureKv(e, len) ==
    IF e.kv.len = len THEN {e} ELSE {AllocateKv(e, len), ClearKv(e)}

ClearAttention(e) == [e EXCEPT !.attention = NoAttention, !.denoise = NoGraph]

AllocateAttention(e, len) ==
    [ClearAttention(e) EXCEPT
        !.attention = [len |-> len, gen |-> e.gens + 1,
                       prepared |-> FALSE, of |-> 0],
        !.gens = e.gens + 1]

(* Mutant: masks of the right size are taken as they are.                  *)
CreateAttentionReuses(e, len) ==
    IF e.attention.len = len THEN {e}
    ELSE {AllocateAttention(e, len), ClearAttention(e)}

CreateAttention(e, len) ==
    IF e.attention.len = len
    THEN {[e EXCEPT !.attention.prepared = FALSE]}
    ELSE {AllocateAttention(e, len), ClearAttention(e)}

InitFixedPrefix(e, len) ==
    UNION {IF k.kv.len = len THEN CreateAttention(k, len) ELSE {k} :
              k \in EnsureKv(e, len)}

CurrentPrefix ==
    [images |-> {camera_embs[i] : i \in DOMAIN camera_embs},
     state |-> IF state_proj THEN stateEmb ELSE 0]

(* The prefix of images, prompt and state goes through the language model. *)
(* Tokenizing, embedding, allocating and decoding may fail.                *)
BuildPrefix ==
    /\ pc = "prefix"
    /\ LET len == PrefixLength(Len(camera_embs)) IN
       \/ Fail /\ UNCHANGED <<llmKv, expert>>
       \/ /\ len <= ContextLength
          /\ expert' \in InitFixedPrefix(expert, len)
          /\ \/ Fail /\ UNCHANGED llmKv
             \/ /\ expert'.kv.len = len /\ expert'.attention.len = len
                /\ Fail
                /\ llmKv' = NoPrefix
             \/ /\ expert'.kv.len = len /\ expert'.attention.len = len
                /\ llmKv' = CurrentPrefix
                /\ pc' = "kv"
                /\ UNCHANGED result
    /\ UNCHANGED <<state_proj, id, request, visionVars, stateEmb, faults>>

(* Mutant: prefix tensors that hold something are not copied to again.     *)
PrepareKvOnce ==
    /\ pc = "kv"
    /\ \E e \in EnsureKv(expert, PrefixLength(Len(camera_embs))) :
          /\ e.kv.len = PrefixLength(Len(camera_embs))
          /\ expert' = [e EXCEPT !.kv.of = IF @ = NoPrefix THEN llmKv ELSE @]
          /\ pc' = "mask"
          /\ UNCHANGED <<result, faults>>
    /\ UNCHANGED <<state_proj, id, request, visionVars, stateEmb, llmKv>>

(* extract_llm_kv_cache copies the language model's cache to the expert.   *)
PrepareKv ==
    /\ pc = "kv"
    /\ \E e \in EnsureKv(expert, PrefixLength(Len(camera_embs))) :
          \/ /\ e.kv.len = PrefixLength(Len(camera_embs))
             /\ expert' = [e EXCEPT !.kv.of = llmKv]
             /\ pc' = "mask"
             /\ UNCHANGED <<result, faults>>
          \/ /\ e.kv.len = PrefixLength(Len(camera_embs))
             /\ expert' = [e EXCEPT !.kv.of = Garbage]
             /\ pc' = "mask"
             /\ faults' = faults \cup {"compute"}
             /\ UNCHANGED result
          \/ /\ expert' = e
             /\ Fail
             /\ UNCHANGED faults
    /\ UNCHANGED <<state_proj, id, request, visionVars, stateEmb, llmKv>>

(* prepare_attention_cache keeps masks that are marked as prepared.        *)
PrepareMask ==
    /\ pc = "mask"
    /\ LET len == PrefixLength(Len(camera_embs))
           a == expert.attention
       IN  IF a.prepared /\ a.len = len
           THEN pc' = "denoise" /\ UNCHANGED <<expert, result>>
           ELSE \E e \in IF a.len = len THEN {expert}
                                        ELSE CreateAttention(expert, len) :
                   IF e.attention.len = len
                   THEN /\ expert' = [e EXCEPT !.attention.prepared = TRUE,
                                               !.attention.of = id]
                        /\ pc' = "denoise"
                        /\ UNCHANGED result
                   ELSE expert' = e /\ Fail
    /\ UNCHANGED <<state_proj, id, request, visionVars, stateEmb, llmKv,
                   faults>>

EnsureDenoise(e) ==
    IF e.denoise.len = e.kv.len
    THEN {e}
    ELSE {[e EXCEPT !.denoise = [len |-> e.kv.len, kv |-> e.kv.gen,
                                 attention |-> e.attention.gen]],
          [e EXCEPT !.denoise = NoGraph]}

(* eval_denoise_graph; the actions are denormalized, which fails without   *)
(* the statistics, and returned.                                           *)
Succeed(prefix) ==
    result' = [id |-> id, ok |-> TRUE, prefix |-> prefix,
               mask |-> expert.attention.of]

Denoise ==
    /\ pc = "denoise"
    /\ pc' = "idle"
    /\ IF expert.attention.prepared /\ expert.attention.len = expert.kv.len
       THEN /\ expert' \in EnsureDenoise(expert)
            /\ \/ /\ expert'.denoise.len = expert.kv.len
                  /\ Succeed(expert.kv.of)
                  /\ UNCHANGED faults
               \/ /\ expert'.denoise.len = expert.kv.len
                  /\ Succeed(Garbage)
                  /\ faults' = faults \cup {"compute"}
               \/ Fail /\ UNCHANGED faults
       ELSE Fail /\ UNCHANGED <<expert, faults>>
    /\ UNCHANGED <<state_proj, id, request, visionVars, stateEmb, llmKv>>

(* reset() of the model is empty: SmolVLA keeps what it has cached.        *)

---------------------------------------------------------------------------

Done ==
    /\ \/ pc = "idle" /\ id = MaxRequests
       \/ pc = "aborted"
    /\ UNCHANGED vars

Next ==
    \/ \E r \in Requests : BeginPredict(r)
    \/ \E g \in Images : RejectImage(g)
    \/ EncodePreprocessed
    \/ \E s \in Sizes : EncodeRawNewSize(s) \/ EncodeRawCached(s)
    \/ FinishVision
    \/ ProjectState
    \/ BuildPrefix
    \/ PrepareKv
    \/ PrepareMask
    \/ Denoise
    \/ Done

Spec == Init /\ [][Next]_vars

---------------------------------------------------------------------------
(* Properties *)

TypeOK ==
    /\ state_proj \in BOOLEAN
    /\ pc \in {"idle", "vision", "state", "prefix", "kv", "mask", "denoise",
               "aborted"}
    /\ id \in 0 .. MaxRequests
    /\ request \in Requests
    /\ camera_embs \in Seq(Origin) /\ Len(camera_embs) <= Len(request.images)
    /\ rawGraph \in Sizes \cup {"none"}
    /\ meta \in [graph : Images \cup {"none"}, allocated : BOOLEAN]
    /\ stateEmb \in Origin
    /\ llmKv \in Prefix
    /\ expert \in [kv : [len : Nat, gen : Nat, of : Prefix],
                   attention : [len : Nat, gen : Nat, prepared : BOOLEAN,
                                of : Origin],
                   denoise : [len : Nat, kv : Nat, attention : Nat],
                   gens : Nat]
    /\ result \in [id : Origin, ok : BOOLEAN, prefix : Prefix, mask : Origin]
    /\ faults \subseteq {"compute", "clobbered", "stateKept"}

(* The cached denoising graph points only to the prefix tensors and masks  *)
(* that exist now: no order of requests with different numbers of images   *)
(* and of failed allocations leaves it with a freed tensor.                *)
NoDanglingTensors ==
    expert.denoise.len # 0 =>
        /\ expert.denoise.kv = expert.kv.gen
        /\ expert.denoise.attention = expert.attention.gen
        /\ expert.denoise.len = expert.kv.len
        /\ expert.denoise.len = expert.attention.len

OfThisRequest(o) == o = result.id

(* The actions of a predict are computed from that request's images, state *)
(* and masks, whatever earlier requests and their failures left in the     *)
(* caches, unless in this very request a graph's computation failed, the   *)
(* state embedding was kept or the cached image graph was not in its       *)
(* buffer.                                                                 *)
FaultsStayLocal ==
    result.ok /\ result.id = id /\ faults = {} =>
        /\ \A o \in result.prefix.images : OfThisRequest(o)
        /\ state_proj => OfThisRequest(result.prefix.state)
        /\ OfThisRequest(result.mask)

(* The masks are rebuilt for every request although their tensors are kept *)
(* and a prepared mask is not rebuilt: padding differs between prompts.    *)
MaskIsOfThisRequest == result.ok => OfThisRequest(result.mask)

(* smolvla_engine.h: the state is NULL "if no state": an earlier request's *)
(* state takes no part in a later prediction.                              *)
NoForeignState ==
    result.ok => result.prefix.state \in {0, result.id, Wrong}

(* smolvla_engine.h: "Returns result with actions=NULL on failure": when   *)
(* no computation fails, the actions returned are of this request's images *)
(* and of nothing else that was left in the buffers of the image graphs.   *)
RanItsOwnGraph ==
    result.ok /\ result.id = id /\ "compute" \notin faults =>
        \A o \in result.prefix.images : OfThisRequest(o)
=============================================================================
