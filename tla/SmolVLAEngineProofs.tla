------------------------ MODULE SmolVLAEngineProofs ------------------------
(***************************************************************************)
(* Proofs about SmolVLAEngine for any number of requests, images and       *)
(* tokens: the cached denoising graph never dangles, the masks and the     *)
(* data of a prediction are those of its own request, and what is kept is  *)
(* of the right type.                                                      *)
(***************************************************************************)
EXTENDS SmolVLAEngine, TLAPS

(* The part of the type invariant that the proofs below use.               *)
ExpertType ==
    [kv : [len : Nat, gen : Nat, of : Prefix],
     attention : [len : Nat, gen : Nat, prepared : BOOLEAN, of : Origin],
     denoise : [len : Nat, kv : Nat, attention : Nat],
     gens : Nat]

TypeInv ==
    /\ id \in 0 .. MaxRequests
    /\ expert \in ExpertType
    /\ llmKv \in Prefix
    /\ camera_embs \in Seq(Origin)
    /\ stateEmb \in Origin

(* The denoising graph of an expert points to tensors the expert has.      *)
GraphInv(e) ==
    e.denoise.len # 0 =>
        /\ e.denoise.kv = e.kv.gen
        /\ e.denoise.attention = e.attention.gen
        /\ e.denoise.len = e.kv.len
        /\ e.denoise.len = e.attention.len

(* From BuildPrefix on, the masks are unprepared or of this request.       *)
MaskInv ==
    /\ pc \in {"kv", "mask"} => ~expert.attention.prepared
    /\ pc = "denoise" => expert.attention.of = id
    /\ MaskIsOfThisRequest

(* While a request is in progress, the result is of an earlier one.        *)
ResultInv ==
    /\ result.id \in 0 .. id
    /\ pc # "idle" => result.id < id

(* Without a fault in it, each step of a request hands its own data on.    *)
OwnData(p) ==
    /\ \A o \in p.images : o = id
    /\ state_proj => p.state = id

OriginInv ==
    faults = {} =>
        /\ pc = "vision" =>
              \A i \in DOMAIN camera_embs : camera_embs[i] \in {0, id}
        /\ pc \in {"state", "prefix"} =>
              \A i \in DOMAIN camera_embs : camera_embs[i] = id
        /\ pc = "prefix" /\ state_proj => stateEmb = id
        /\ pc = "kv" => OwnData(llmKv)
        /\ pc \in {"mask", "denoise"} => OwnData(expert.kv.of)

IInv ==
    /\ TypeInv
    /\ GraphInv(expert)
    /\ MaskInv
    /\ ResultInv
    /\ OriginInv
    /\ FaultsStayLocal

---------------------------------------------------------------------------
(* The expert's runtimes *)

(* EnsureKv leaves the masks alone and never leaves a dangling graph.      *)
LEMMA EnsureKvKeeps ==
    ASSUME NEW e \in ExpertType, NEW len \in Nat, GraphInv(e),
           NEW f \in EnsureKv(e, len)
    PROVE  f \in ExpertType /\ GraphInv(f) /\ f.attention = e.attention
<1>1. NoPrefix \in Prefix
    BY LengthAssumption DEF NoPrefix, Prefix, Origin, Wrong
<1>2. CASE f = e
    BY <1>2
<1>3. CASE f = AllocateKv(e, len)
    <2>1. f = [kv |-> [len |-> len, gen |-> e.gens + 1, of |-> NoPrefix],
               attention |-> e.attention, denoise |-> NoGraph,
               gens |-> e.gens + 1]
        BY <1>3 DEF AllocateKv, ClearKv, ExpertType
    <2> QED
        BY <1>1, <2>1 DEF NoGraph, ExpertType, GraphInv
<1>4. CASE f = ClearKv(e)
    BY <1>1, <1>4 DEF ClearKv, NoKv, NoGraph, ExpertType, GraphInv
<1> QED
    BY <1>2, <1>3, <1>4 DEF EnsureKv

(* CreateAttention leaves the prefix tensors alone, never leaves a         *)
(* dangling graph, and the masks are to be prepared again.                 *)
LEMMA CreateAttentionKeeps ==
    ASSUME NEW e \in ExpertType, NEW len \in Nat, GraphInv(e),
           NEW f \in CreateAttention(e, len)
    PROVE  /\ f \in ExpertType /\ GraphInv(f)
           /\ f.kv = e.kv
           /\ ~f.attention.prepared
<1>1. 0 \in Origin
    BY LengthAssumption DEF Origin, Wrong
<1>2. CASE f = [e EXCEPT !.attention.prepared = FALSE]
    BY <1>2 DEF ExpertType, GraphInv
<1>3. CASE f = AllocateAttention(e, len)
    <2>1. f = [kv |-> e.kv,
               attention |-> [len |-> len, gen |-> e.gens + 1,
                              prepared |-> FALSE, of |-> 0],
               denoise |-> NoGraph,
               gens |-> e.gens + 1]
        BY <1>3 DEF AllocateAttention, ClearAttention, ExpertType
    <2> QED
        BY <1>1, <2>1 DEF NoGraph, ExpertType, GraphInv
<1>4. CASE f = ClearAttention(e)
    BY <1>1, <1>4 DEF ClearAttention, NoAttention, NoGraph, ExpertType, GraphInv
<1> QED
    BY <1>2, <1>3, <1>4 DEF CreateAttention

LEMMA InitFixedPrefixKeeps ==
    ASSUME NEW e \in ExpertType, NEW len \in Nat, GraphInv(e),
           NEW f \in InitFixedPrefix(e, len)
    PROVE  /\ f \in ExpertType /\ GraphInv(f)
           /\ f.kv.len = len => ~f.attention.prepared
<1>1. PICK k \in EnsureKv(e, len) :
           f \in IF k.kv.len = len THEN CreateAttention(k, len) ELSE {k}
    BY DEF InitFixedPrefix
<1>2. k \in ExpertType /\ GraphInv(k)
    BY <1>1, EnsureKvKeeps
<1>3. CASE k.kv.len = len
    BY <1>1, <1>2, <1>3, CreateAttentionKeeps
<1>4. CASE k.kv.len # len
    BY <1>1, <1>2, <1>4
<1> QED
    BY <1>3, <1>4

LEMMA EnsureDenoiseKeeps ==
    ASSUME NEW e \in ExpertType, GraphInv(e), e.attention.len = e.kv.len,
           NEW f \in EnsureDenoise(e)
    PROVE  f \in ExpertType /\ GraphInv(f)
<1>1. CASE f = e
    BY <1>1
<1>2. CASE f = [e EXCEPT !.denoise = [len |-> e.kv.len, kv |-> e.kv.gen,
                                      attention |-> e.attention.gen]]
    BY <1>2 DEF ExpertType, GraphInv
<1>3. CASE f = [e EXCEPT !.denoise = NoGraph]
    BY <1>3 DEF NoGraph, ExpertType, GraphInv
<1> QED
    BY <1>1, <1>2, <1>3 DEF EnsureDenoise

LEMMA PrefixLengthIsNat ==
    ASSUME NEW n \in Nat
    PROVE  PrefixLength(n) \in Nat
<1>1. n * VisionTokens \in Nat
    BY LengthAssumption
<1> QED
    BY <1>1, LengthAssumption DEF PrefixLength, StateTokens

LEMMA GarbageIsPrefix == Garbage \in Prefix
    BY LengthAssumption DEF Garbage, Prefix, Origin, Wrong

LEMMA EmbeddingsAppend ==
    ASSUME NEW o \in Origin, camera_embs \in Seq(Origin)
    PROVE  /\ Append(camera_embs, o) \in Seq(Origin)
           /\ \A i \in DOMAIN Append(camera_embs, o) :
                 \/ /\ i \in DOMAIN camera_embs
                    /\ Append(camera_embs, o)[i] = camera_embs[i]
                 \/ Append(camera_embs, o)[i] = o
    OBVIOUS

---------------------------------------------------------------------------
(* The invariant *)

LEMMA InvInit == Init => IInv
<1> SUFFICES ASSUME Init PROVE IInv
    OBVIOUS
<1> USE LengthAssumption
<1>1. PrefixLength(1) \in Nat
    BY PrefixLengthIsNat
<1>2. NoPrefix \in Prefix /\ 0 \in Origin
    BY DEF NoPrefix, Prefix, Origin, Wrong
<1>3. TypeInv
    BY <1>1, <1>2 DEF Init, TypeInv, ExpertType, NoGraph
<1>4. GraphInv(expert)
    BY DEF Init, GraphInv, NoGraph
<1>5. MaskInv /\ ResultInv /\ OriginInv /\ FaultsStayLocal
    BY DEF Init, MaskInv, MaskIsOfThisRequest, ResultInv, OriginInv,
           FaultsStayLocal, NoResult
<1> QED
    BY <1>3, <1>4, <1>5 DEF IInv

(* A request that fails leaves the caches typed and its result is empty.   *)
LEMMA FailKeeps ==
    ASSUME IInv, Fail, UNCHANGED <<state_proj, id>>, TypeInv', GraphInv(expert')
    PROVE  IInv'
<1>1. pc' = "idle" /\ result'.id = id /\ ~result'.ok
    BY DEF Fail, NoResult
<1>2. id \in 0 .. id
    BY DEF IInv, TypeInv
<1> QED
    BY <1>1, <1>2 DEF IInv, MaskInv, MaskIsOfThisRequest, ResultInv, OriginInv,
                      FaultsStayLocal

LEMMA InvStep == IInv /\ [Next]_vars => IInv'
<1> SUFFICES ASSUME IInv, [Next]_vars PROVE IInv'
    OBVIOUS
<1> USE LengthAssumption
<1>a. TypeInv /\ GraphInv(expert) /\ MaskInv /\ ResultInv /\ OriginInv
    BY DEF IInv
<1>1. ASSUME NEW r \in Requests, BeginPredict(r) PROVE IInv'
    <2>1. TypeInv'
        BY <1>a, <1>1 DEF BeginPredict, TypeInv
    <2>2. GraphInv(expert')
        BY <1>a, <1>1 DEF BeginPredict
    <2>3. ResultInv' /\ FaultsStayLocal' /\ MaskInv' /\ OriginInv'
        BY <1>a, <1>1 DEF BeginPredict, TypeInv, ResultInv, FaultsStayLocal,
                          MaskInv, MaskIsOfThisRequest, OfThisRequest, OriginInv
    <2> QED
        BY <2>1, <2>2, <2>3 DEF IInv
<1>2. ASSUME NEW g \in Images, RejectImage(g) PROVE IInv'
    <2>1. TypeInv' /\ expert' = expert
        BY <1>a, <1>2 DEF RejectImage, ImageComesNext, visionVars, TypeInv
    <2> QED
        BY <1>a, <1>2, <2>1, FailKeeps DEF RejectImage, ImageComesNext
<1>3. ASSUME pc = "vision", pc' \in {pc, "aborted"},
             UNCHANGED <<state_proj, id, request, stateEmb, llmKv, expert, result>>,
             NEW o \in Origin, camera_embs' = Append(camera_embs, o),
             faults \subseteq faults', faults' = {} => o \in {0, id}
      PROVE  IInv'
    <2>1. TypeInv'
        BY <1>a, <1>3, EmbeddingsAppend DEF TypeInv
    <2>2. MaskInv' /\ ResultInv' /\ GraphInv(expert')
        BY <1>a, <1>3 DEF MaskInv, MaskIsOfThisRequest, OfThisRequest, ResultInv
    <2>3. OriginInv'
        BY <1>a, <1>3, EmbeddingsAppend DEF OriginInv, TypeInv
    <2>4. FaultsStayLocal'
        BY <1>a, <1>3 DEF FaultsStayLocal, ResultInv, TypeInv
    <2> QED
        BY <2>1, <2>2, <2>3, <2>4 DEF IInv
<1>b. id \in Origin /\ 0 \in Origin /\ Wrong \in Origin
    BY <1>a DEF TypeInv, Origin, Wrong
<1>4. CASE EncodePreprocessed
    BY <1>3, <1>4, <1>b DEF EncodePreprocessed, ImageComesNext, Encoded, NotEncoded
<1>5. ASSUME NEW s \in Sizes, EncodeRawNewSize(s) PROVE IInv'
    BY <1>3, <1>5, <1>b DEF EncodeRawNewSize, ImageComesNext, Encoded, NotEncoded
<1>6. ASSUME NEW s \in Sizes, EncodeRawCached(s) PROVE IInv'
    BY <1>3, <1>6, <1>b DEF EncodeRawCached, ImageComesNext, Encoded
<1>7. CASE FinishVision
    <2>1. TypeInv' /\ expert' = expert
        BY <1>a, <1>7 DEF FinishVision, visionVars, TypeInv
    <2>2. CASE \E i \in DOMAIN camera_embs : camera_embs[i] = 0
        BY <1>a, <1>7, <2>1, <2>2, FailKeeps DEF FinishVision
    <2>3. CASE \A i \in DOMAIN camera_embs : camera_embs[i] # 0
        <3>1. MaskInv' /\ ResultInv' /\ OriginInv'
            BY <1>a, <1>7, <2>3
            DEF FinishVision, visionVars, MaskInv, MaskIsOfThisRequest,
                OfThisRequest, ResultInv, OriginInv
        <3>2. FaultsStayLocal'
            BY <1>a, <1>7, <2>3 DEF FinishVision, FaultsStayLocal, ResultInv, TypeInv
        <3> QED
            BY <1>a, <2>1, <3>1, <3>2 DEF IInv
    <2> QED
        BY <2>2, <2>3
<1>8. CASE ProjectState
    <2>1. TypeInv' /\ expert' = expert
        BY <1>a, <1>8, <1>b DEF ProjectState, visionVars, TypeInv
    <2>2. MaskInv' /\ ResultInv' /\ OriginInv'
        BY <1>a, <1>8 DEF ProjectState, visionVars, MaskInv, MaskIsOfThisRequest,
                          OfThisRequest, ResultInv, OriginInv
    <2>3. FaultsStayLocal'
        BY <1>a, <1>8 DEF ProjectState, FaultsStayLocal, ResultInv, TypeInv
    <2> QED
        BY <1>a, <2>1, <2>2, <2>3 DEF IInv
<1> DEFINE len == PrefixLength(Len(camera_embs))
<1>c. len \in Nat
    BY <1>a, PrefixLengthIsNat DEF TypeInv
<1>d. NoPrefix \in Prefix /\ CurrentPrefix \in Prefix /\ Garbage \in Prefix
    <2>1. \A i \in DOMAIN camera_embs : camera_embs[i] \in Origin
        BY <1>a DEF TypeInv
    <2>2. {camera_embs[i] : i \in DOMAIN camera_embs} \in SUBSET Origin
        BY <2>1
    <2> QED
        BY <1>a, <1>b, <2>2, GarbageIsPrefix
        DEF TypeInv, CurrentPrefix, NoPrefix, Prefix
<1>9. CASE BuildPrefix
    <2> USE <1>a, <1>c
    <2>1. /\ pc = "prefix"
          /\ UNCHANGED <<state_proj, id, request, camera_embs, stateEmb, faults>>
        BY <1>9 DEF BuildPrefix, visionVars
    <2>2. CASE Fail /\ UNCHANGED <<llmKv, expert>>
        BY <2>1, <2>2, FailKeeps DEF TypeInv
    <2>3. CASE /\ expert' \in InitFixedPrefix(expert, len)
               /\ Fail
               /\ llmKv' \in {llmKv, NoPrefix}
        <3>1. expert' \in ExpertType /\ GraphInv(expert')
            BY <2>3, InitFixedPrefixKeeps DEF TypeInv
        <3>2. TypeInv'
            BY <2>1, <2>3, <3>1, <1>d DEF TypeInv
        <3> QED
            BY <2>1, <2>3, <3>1, <3>2, FailKeeps
    <2>4. CASE /\ expert' \in InitFixedPrefix(expert, len)
               /\ expert'.kv.len = len
               /\ llmKv' = CurrentPrefix
               /\ pc' = "kv"
               /\ UNCHANGED result
        <3>1. /\ expert' \in ExpertType /\ GraphInv(expert')
              /\ ~expert'.attention.prepared
            BY <2>4, InitFixedPrefixKeeps DEF TypeInv
        <3>2. TypeInv'
            BY <2>1, <2>4, <3>1, <1>d DEF TypeInv
        <3>3. MaskInv' /\ ResultInv' /\ FaultsStayLocal'
            BY <2>1, <2>4, <3>1 DEF MaskInv, MaskIsOfThisRequest, OfThisRequest,
                                    ResultInv, FaultsStayLocal, TypeInv
        <3>4. OriginInv'
            BY <2>1, <2>4 DEF OriginInv, OwnData, CurrentPrefix
        <3> QED
            BY <3>1, <3>2, <3>3, <3>4 DEF IInv
    <2> QED
        BY <1>9, <2>2, <2>3, <2>4 DEF BuildPrefix
<1>10. CASE PrepareKv
    <2> USE <1>a, <1>c
    <2>1. /\ pc = "kv"
          /\ UNCHANGED <<state_proj, id, request, camera_embs, stateEmb, llmKv>>
        BY <1>10 DEF PrepareKv, visionVars
    <2>2. PICK e \in EnsureKv(expert, len) :
              \/ /\ expert' = [e EXCEPT !.kv.of = llmKv]
                 /\ pc' = "mask" /\ UNCHANGED <<result, faults>>
              \/ /\ expert' = [e EXCEPT !.kv.of = Garbage]
                 /\ pc' = "mask" /\ UNCHANGED result
                 /\ faults' = faults \cup {"compute"}
              \/ expert' = e /\ Fail
        BY <1>10 DEF PrepareKv
    <2>3. e \in ExpertType /\ GraphInv(e) /\ e.attention = expert.attention
        BY <2>2, EnsureKvKeeps DEF TypeInv
    <2>4. CASE expert' = e /\ Fail
        BY <2>1, <2>3, <2>4, FailKeeps DEF TypeInv
    <2>5. ASSUME NEW p \in Prefix, expert' = [e EXCEPT !.kv.of = p],
                 pc' = "mask", UNCHANGED result,
                 \/ faults' = faults /\ p = llmKv
                 \/ faults' = faults \cup {"compute"}
          PROVE  IInv'
        <3>1. /\ expert' \in ExpertType /\ GraphInv(expert')
              /\ expert'.attention = e.attention /\ expert'.kv.of = p
            BY <2>3, <2>5 DEF ExpertType, GraphInv
        <3>2. TypeInv'
            BY <2>1, <3>1 DEF TypeInv
        <3>3. MaskInv' /\ ResultInv' /\ FaultsStayLocal'
            BY <2>1, <2>3, <2>5, <3>1
            DEF MaskInv, MaskIsOfThisRequest, OfThisRequest, ResultInv,
                FaultsStayLocal, TypeInv
        <3>4. OriginInv'
            BY <2>1, <2>5, <3>1 DEF OriginInv, OwnData
        <3> QED
            BY <3>1, <3>2, <3>3, <3>4 DEF IInv
    <2> QED
        BY <1>d, <2>2, <2>4, <2>5 DEF TypeInv
<1>11. CASE PrepareMask
    <2> USE <1>a, <1>c
    <2>1. /\ pc = "mask"
          /\ UNCHANGED <<state_proj, id, request, camera_embs, stateEmb, llmKv,
                         faults>>
        BY <1>11 DEF PrepareMask, visionVars
    <2>2. PICK e \in {expert} \cup CreateAttention(expert, len) :
              \/ /\ expert' = [e EXCEPT !.attention.prepared = TRUE,
                                        !.attention.of = id]
                 /\ pc' = "denoise"
                 /\ UNCHANGED result
              \/ expert' = e /\ Fail
        BY <1>11, <2>1 DEF PrepareMask, MaskInv
    <2>3. e \in ExpertType /\ GraphInv(e) /\ e.kv = expert.kv
        BY <2>2, CreateAttentionKeeps DEF TypeInv
    <2>4. CASE expert' = e /\ Fail
        BY <2>1, <2>3, <2>4, FailKeeps DEF TypeInv
    <2>5. CASE /\ expert' = [e EXCEPT !.attention.prepared = TRUE,
                                      !.attention.of = id]
               /\ pc' = "denoise"
               /\ UNCHANGED result
        <3>1. /\ expert' \in ExpertType /\ GraphInv(expert')
              /\ expert'.attention.of = id /\ expert'.kv = expert.kv
            BY <1>b, <2>3, <2>5 DEF ExpertType, GraphInv
        <3>2. TypeInv'
            BY <2>1, <3>1 DEF TypeInv
        <3>3. MaskInv' /\ ResultInv' /\ FaultsStayLocal'
            BY <2>1, <2>5, <3>1
            DEF MaskInv, MaskIsOfThisRequest, OfThisRequest, ResultInv,
                FaultsStayLocal, TypeInv
        <3>4. OriginInv'
            BY <2>1, <2>5, <3>1 DEF OriginInv, OwnData
        <3> QED
            BY <3>1, <3>2, <3>3, <3>4 DEF IInv
    <2> QED
        BY <2>2, <2>4, <2>5
<1>12. CASE Denoise
    <2> USE <1>a
    <2>1. /\ pc = "denoise"
          /\ pc' = "idle"
          /\ UNCHANGED <<state_proj, id, request, camera_embs, stateEmb, llmKv>>
        BY <1>12 DEF Denoise, visionVars
    <2>2. \/ expert' = expert /\ Fail
          \/ /\ expert.attention.len = expert.kv.len
             /\ expert' \in EnsureDenoise(expert)
             /\ \/ Fail
                \/ Succeed(expert.kv.of) /\ UNCHANGED faults
                \/ Succeed(Garbage) /\ faults' = faults \cup {"compute"}
        BY <1>12 DEF Denoise
    <2>3. expert' \in ExpertType /\ GraphInv(expert')
        BY <2>2, EnsureDenoiseKeeps DEF TypeInv
    <2>4. TypeInv'
        BY <2>1, <2>3 DEF TypeInv
    <2>5. CASE Fail
        BY <2>1, <2>3, <2>4, <2>5, FailKeeps
    <2>6. ASSUME NEW p, Succeed(p),
                 \/ faults' = faults /\ p = expert.kv.of
                 \/ faults' = faults \cup {"compute"}
          PROVE  IInv'
        <3>1. /\ result'.id = id /\ result'.prefix = p
              /\ result'.mask = expert.attention.of
            BY <2>6 DEF Succeed
        <3>2. MaskInv' /\ ResultInv' /\ OriginInv'
            BY <2>1, <3>1 DEF MaskInv, MaskIsOfThisRequest, OfThisRequest,
                              ResultInv, OriginInv, TypeInv
        <3>3. FaultsStayLocal'
            BY <2>1, <2>6, <3>1 DEF FaultsStayLocal, OriginInv, OwnData, MaskInv,
                                    OfThisRequest
        <3> QED
            BY <2>3, <2>4, <3>2, <3>3 DEF IInv
    <2> QED
        BY <2>2, <2>5, <2>6
<1>13. CASE UNCHANGED vars
    BY <1>a, <1>13 DEF vars, IInv, TypeInv, MaskInv, MaskIsOfThisRequest,
                       OfThisRequest, ResultInv, OriginInv, OwnData,
                       FaultsStayLocal
<1> QED
    BY <1>1, <1>2, <1>4, <1>5, <1>6, <1>7, <1>8, <1>9, <1>10, <1>11, <1>12, <1>13
    DEF Next, Done

(* The invariant behind the three theorems that follow.                    *)
THEOREM Invariance == Spec => []IInv
BY InvInit, InvStep, PTL DEF Spec

(* For any requests in any order and any failures among them, the cached   *)
(* denoising graph points only to tensors that exist.                      *)
THEOREM GraphNeverDangles == Spec => []NoDanglingTensors
<1>1. IInv => NoDanglingTensors
    BY DEF IInv, GraphInv, NoDanglingTensors
<1> QED
    BY <1>1, Invariance, PTL

(* The attention masks a prediction used were built for its own prompt.    *)
THEOREM MasksAreFresh == Spec => []MaskIsOfThisRequest
<1>1. IInv => MaskIsOfThisRequest
    BY DEF IInv, MaskInv
<1> QED
    BY <1>1, Invariance, PTL

(* Without a fault in the request itself, its actions come from its own    *)
(* images, state and masks, whatever earlier requests left in the caches.  *)
THEOREM PredictionsAreTheirOwn == Spec => []FaultsStayLocal
<1>1. IInv => FaultsStayLocal
    BY DEF IInv
<1> QED
    BY <1>1, Invariance, PTL

---------------------------------------------------------------------------
(* Type correctness *)

(* What TypeInv leaves out: the request's progress and its result.         *)
ResultType == [id : Origin, ok : BOOLEAN, prefix : Prefix, mask : Origin]

RestInv ==
    /\ state_proj \in BOOLEAN
    /\ pc \in {"idle", "vision", "state", "prefix", "kv", "mask", "denoise",
               "aborted"}
    /\ request \in Requests
    /\ Len(camera_embs) <= Len(request.images)
    /\ rawGraph \in Sizes \cup {"none"}
    /\ meta \in [graph : Images \cup {"none"}, allocated : BOOLEAN]
    /\ result \in ResultType
    /\ faults \subseteq {"compute", "clobbered", "stateKept"}

LEMMA RequestHasImages ==
    ASSUME NEW r \in Requests
    PROVE  Len(r.images) \in Nat
<1>1. CASE r.images = <<"encoded">>
    BY <1>1
<1>2. CASE \E n \in 1 .. MaxImages : r.images \in [1 .. n -> Sizes]
    <2>1. PICK n \in 1 .. MaxImages : r.images \in [1 .. n -> Sizes]
        BY <1>2
    <2> QED
        BY <2>1, LengthAssumption
<1> QED
    BY <1>1, <1>2 DEF Requests

LEMMA TypeInit == Init => TypeOK
<1> SUFFICES ASSUME Init PROVE TypeOK
    OBVIOUS
<1>1. TypeInv
    BY InvInit DEF IInv
<1>2. request \in Requests /\ Len(camera_embs) <= Len(request.images)
    BY DEF Init, Requests
<1>3. result \in ResultType
    BY LengthAssumption
    DEF Init, NoResult, ResultType, NoPrefix, Prefix, Origin, Wrong
<1> QED
    BY <1>1, <1>2, <1>3 DEF Init, TypeOK, TypeInv, ExpertType, ResultType

(* Every failure's result is that of the request it ends, and empty.       *)
LEMMA FailIsTyped ==
    ASSUME Fail, id \in 0 .. MaxRequests
    PROVE  result' \in ResultType /\ pc' = "idle"
<1>1. result' = [id |-> id, ok |-> FALSE, prefix |-> NoPrefix, mask |-> 0]
    BY DEF Fail, NoResult
<1>2. 0 \in Origin /\ id \in Origin
    BY LengthAssumption DEF Origin, Wrong
<1>3. NoPrefix \in Prefix
    BY <1>2 DEF NoPrefix, Prefix
<1>4. result' \in ResultType
    BY <1>1, <1>2, <1>3 DEF ResultType
<1> QED
    BY <1>4 DEF Fail

(* No more embeddings than images, whatever fails on the way.              *)
LEMMA RestStep == IInv /\ RestInv /\ [Next]_vars => RestInv'
<1> SUFFICES ASSUME IInv, RestInv, [Next]_vars PROVE RestInv'
    OBVIOUS
<1>a. TypeInv /\ Len(request.images) \in Nat
    BY RequestHasImages DEF IInv, RestInv
<1>1. ASSUME NEW r \in Requests, BeginPredict(r) PROVE RestInv'
    <2>1. Len(r.images) \in Nat
        BY RequestHasImages
    <2> QED
        BY <1>1, <2>1 DEF BeginPredict, RestInv
<1>2. ASSUME NEW g \in Images, RejectImage(g) PROVE RestInv'
    BY <1>a, <1>2, FailIsTyped
    DEF RejectImage, ImageComesNext, visionVars, RestInv, TypeInv
<1>3. ASSUME NEW g \in Images, ImageComesNext(g), pc' \in {pc, "aborted"},
             NEW o, camera_embs' = Append(camera_embs, o),
             faults' \subseteq faults \cup {"compute", "clobbered"},
             rawGraph' \in Sizes \cup {"none"},
             meta' \in [graph : Images \cup {"none"}, allocated : BOOLEAN],
             UNCHANGED result
      PROVE  RestInv'
    <2>1. Len(camera_embs') = Len(camera_embs) + 1
        BY <1>a, <1>3 DEF TypeInv
    <2> QED
        BY <1>a, <1>3, <2>1 DEF ImageComesNext, RestInv, TypeInv
<1>4. CASE EncodePreprocessed
    <2>1. /\ ImageComesNext("encoded") /\ UNCHANGED <<pc, rawGraph, result>>
          /\ \E ok \in BOOLEAN : meta' = [graph |-> "encoded", allocated |-> ok]
          /\ Encoded(id) \/ NotEncoded
        BY <1>4 DEF EncodePreprocessed, Build
    <2>2. meta' \in [graph : Images \cup {"none"}, allocated : BOOLEAN]
        BY <2>1 DEF Images
    <2>3. "encoded" \in Images
        BY DEF Images
    <2> QED
        BY <1>3, <2>1, <2>2, <2>3 DEF Encoded, NotEncoded, RestInv
<1>5. ASSUME NEW s \in Sizes, EncodeRawNewSize(s) PROVE RestInv'
    <2>1. /\ ImageComesNext(s) /\ UNCHANGED <<pc, result>>
          /\ \E ok \in BOOLEAN : meta' = [graph |-> s, allocated |-> ok]
          /\ rawGraph' \in {s, rawGraph}
          /\ Encoded(id) \/ NotEncoded
        BY <1>5 DEF EncodeRawNewSize, Build
    <2>2. s \in Images
        BY DEF Images
    <2>3. meta' \in [graph : Images \cup {"none"}, allocated : BOOLEAN]
        BY <2>1, <2>2
    <2> QED
        BY <1>3, <2>1, <2>2, <2>3 DEF Encoded, NotEncoded, RestInv
<1>6. ASSUME NEW s \in Sizes, EncodeRawCached(s) PROVE RestInv'
    BY <1>3, <1>6 DEF EncodeRawCached, Encoded, Images, RestInv
<1>7. CASE FinishVision
    BY <1>a, <1>7, FailIsTyped DEF FinishVision, visionVars, RestInv, TypeInv
<1>8. CASE ProjectState
    BY <1>8 DEF ProjectState, visionVars, RestInv
<1>9. CASE BuildPrefix
    BY <1>a, <1>9, FailIsTyped DEF BuildPrefix, visionVars, RestInv, TypeInv
<1>10. CASE PrepareKv
    BY <1>a, <1>10, FailIsTyped DEF PrepareKv, visionVars, RestInv, TypeInv
<1>11. CASE PrepareMask
    <2>1. Fail \/ (pc' = "denoise" /\ UNCHANGED result)
        BY <1>11 DEF PrepareMask
    <2> QED
        BY <1>a, <1>11, <2>1, FailIsTyped
        DEF PrepareMask, visionVars, RestInv, TypeInv
<1>12. CASE Denoise
    <2>1. /\ UNCHANGED <<state_proj, request, camera_embs, rawGraph, meta>>
          /\ pc' = "idle"
          /\ faults' \subseteq faults \cup {"compute"}
          /\ Fail \/ Succeed(expert.kv.of) \/ Succeed(Garbage)
        BY <1>12 DEF Denoise, visionVars
    <2>2. ASSUME NEW p \in Prefix, Succeed(p)
          PROVE  result' \in ResultType
        BY <1>a, <2>2, LengthAssumption
        DEF Succeed, ResultType, TypeInv, ExpertType, Origin, Wrong
    <2>3. result' \in ResultType
        BY <1>a, <2>1, <2>2, FailIsTyped, GarbageIsPrefix
        DEF TypeInv, ExpertType
    <2> QED
        BY <2>1, <2>3 DEF RestInv
<1>13. CASE UNCHANGED vars
    BY <1>13 DEF vars, RestInv
<1> QED
    BY <1>1, <1>2, <1>4, <1>5, <1>6, <1>7, <1>8, <1>9, <1>10, <1>11, <1>12, <1>13
    DEF Next, Done

(* Every buffer and cache of the engine has its type at every step; in     *)
(* particular a request never has more embeddings than images.             *)
THEOREM TypeCorrect == Spec => []TypeOK
<1>1. TypeOK => RestInv
    BY DEF TypeOK, RestInv, ResultType
<1>2. IInv /\ RestInv => TypeOK
    BY DEF IInv, TypeInv, RestInv, TypeOK, ExpertType, ResultType
<1> QED
    BY <1>1, <1>2, TypeInit, RestStep, Invariance, PTL DEF Spec
=============================================================================
