---------------------------- MODULE StarVLAEngine ----------------------------
(***************************************************************************)
(* One prediction of a StarVLA engine (src/models/starvla/                 *)
(* starvla_engine.cpp).  The observation is checked, its images are brought*)
(* to a size, the prompt is built, the bridge gives what the policy is     *)
(* conditioned on, the policy gives actions and they are scaled.  The seven*)
(* variants differ in what they accept, in what they ask the bridge for and*)
(* in the head that follows; FAST lets the language model write its actions*)
(* as tokens and decodes them.                                             *)
(*                                                                         *)
(* A result is modelled by the calls whose data its actions depend on.     *)
(***************************************************************************)
EXTENDS QwenBridge, ActionHead, StarVLAPrompt, QwenImage, FastCodec

CONSTANTS
    Observations,       \* bound: what a robot may show
    MaxRequests,        \* bound: calls of one behaviour
    cot_template,       \* template of the instruction
    cot_enabled,        \* whether OFT puts its prompt into the template
    pre_resize,         \* the size PI brings an image to at first
    factor,             \* pixels of a side that make a token
    min_pixels, max_pixels,             \* of a resized image
    image_min_tokens, image_max_tokens, \* of an image in a prompt
    action_dim,         \* columns of the actions
    vlm_id,             \* token number of each FAST token
    fast_offsets, fast_bytes    \* the pieces of the FAST tokens

ASSUME EngineAssumption ==
    /\ MaxRequests \in Nat
    /\ blocks <= Layers
    /\ action_dim \in Nat \ {0}
    /\ image_min_tokens \in Nat /\ image_max_tokens \in Nat
    /\ CompiledIsValid(fast_offsets, fast_bytes, vlm_id, horizon, action_dim)
ASSUME TextAssumption ==
    /\ cot_template \in Seq(Int) /\ Word \in Int /\ ActionToken \in Int
    /\ Word # ActionToken
    /\ \A o \in Observations : o.task \in Seq(Int)

VARIABLES
    variant,        \* which policy the checkpoint holds
    pc,             \* where the prediction is
    id,             \* number of the current or last call
    observation,    \* what the call is about
    result          \* what the last call that returned gave

engineVars == <<bridgeVars, head, variant, pc, id, observation, result>>

Failed == [ok |-> FALSE, from |-> {}]
NoObservation == [task |-> <<>>]

---------------------------------------------------------------------------
(* What was loaded                                                         *)

(* Only GR00T rounds between the layers; llama.cpp places the layers.      *)
ModelOf(v, split) ==
    [architecture |-> Architecture(v), bf16 |-> v \in GR00T, split |-> split]

PredictionInit ==
    /\ BridgeInit
    /\ pc = "idle"
    /\ id = 0
    /\ observation = NoObservation
    /\ result = Failed

---------------------------------------------------------------------------
(* Before the language model                                               *)

(* What the branches of predict ask for: the states and noises they take,  *)
(* and what they want of the bridge. The noise of the caller is looked at  *)
(* after the bridge where noise is used.                                   *)
OFTBranch == [states |-> {"none", "fits", "other"}, noises |-> {"none"},
              kind |-> "tokens", tuple_indices |-> <<>>, count |-> horizon]

GR00TBranch == [states |-> {"none"}, noises |-> {"none", "fits", "misfits"},
                kind |-> "full", tuple_indices |-> <<>>, count |-> 0]

PIBranch == [GR00TBranch EXCEPT
                !.states = {"none", "fits"},
                !.kind = "layers",
                !.tuple_indices = PITupleIndices(Layers)]

PIV3Branch == [GR00TBranch EXCEPT
                !.kind = "layers",
                !.tuple_indices = PIV3TupleIndices(Layers)]

FASTBranch == [states |-> {"none"}, noises |-> {"none"},
               kind |-> "generate", tuple_indices |-> <<>>, count |-> 0]

Branch ==
    CASE variant \in OFT -> OFTBranch
      [] variant \in GR00T -> GR00TBranch
      [] variant \in PI -> PIBranch
      [] variant \in PIV3 -> PIV3Branch
      [] variant \in FAST -> FASTBranch

(* validate_observation; a state that is not finite is of no kind above.   *)
Accepted(o) ==
    /\ o.wellformed
    /\ o.task # <<>>
    /\ ~Holds(o.task, Nul)
    /\ o.state \in Branch.states
    /\ o.noise \in Branch.noises

(* prepare_qwen_images and prepare_pi_qwen_images.                         *)
ImageSize(o) ==
    IF variant \in PI
    THEN SmartResize(pre_resize.width, pre_resize.height, factor,
                     min_pixels, max_pixels)
    ELSE SmartResize(o.width, o.height, factor, min_pixels, max_pixels)

ImageFits(o) ==
    /\ ImageSize(o).ok
    /\ ImageTokens(ImageSize(o), factor)
          \in image_min_tokens .. image_max_tokens

(* The state in the words of an OFT prompt.                                *)
StateWords(o) == IF o.state = "none" THEN <<>> ELSE <<Word>>

Instruction(o) ==
    IF variant \in OFT
    THEN BuildOFTInstruction(cot_template, cot_enabled, o.task,
                             StateWords(o), ActionToken, horizon)
    ELSE BuildInstruction(cot_template, o.task)

PromptOf(o) ==
    ChatPrompt([i \in 1 .. ImageTokens(ImageSize(o), factor) |-> Image],
               Instruction(o).tokens)

(* predict is called.                                                      *)
BeginPredict(o) ==
    /\ pc = "idle"
    /\ id < MaxRequests
    /\ pc' = "prepare"
    /\ id' = id + 1
    /\ observation' = o
    /\ UNCHANGED <<bridgeVars, head, variant, result>>

(* Every way out of predict.                                               *)
ReturnResult(r) ==
    /\ pc' = "idle"
    /\ observation' = NoObservation
    /\ result' = r
    /\ UNCHANGED <<variant, id>>

RefuseObservation ==
    /\ pc = "prepare"
    /\ \/ ~Accepted(observation)
       \/ ~ImageFits(observation)
       \/ ~Instruction(observation).ok
    /\ ReturnResult(Failed)
    /\ UNCHANGED <<bridgeVars, head>>

CallBridge ==
    /\ pc = "prepare"
    /\ Accepted(observation)
    /\ ImageFits(observation)
    /\ Instruction(observation).ok
    /\ BridgeCall(id, Branch.kind, PromptOf(observation),
                  Branch.tuple_indices, Branch.count)
    /\ pc' = "bridge"
    /\ UNCHANGED <<head, variant, id, observation, result>>

StepBridge ==
    /\ pc = "bridge"
    /\ BridgeStep
    /\ UNCHANGED <<head, variant, pc, id, observation, result>>

---------------------------------------------------------------------------
(* After the language model                                                *)

(* The bridge failed, or the noise of the caller does not fit: a diffusion *)
(* policy looks at it only now.                                            *)
FailBridge ==
    /\ pc = "bridge"
    /\ stage = "returned"
    /\ \/ ~answer.ok
       \/ variant \notin FAST /\ observation.noise = "misfits"
    /\ ReturnResult(Failed)
    /\ BridgeTaken
    /\ UNCHANGED head

(* FastPolicy::decode_generated: of the whole sequence, the prompt         *)
(* included.                                                               *)
Decoded ==
    DecodeFastTokens(ExtractFastTokens(answer.sequence, vlm_id),
                     Pieces(fast_offsets, fast_bytes), horizon, action_dim)

(* The actions of FAST, decoded and scaled.                                *)
FinishFAST ==
    /\ pc = "bridge"
    /\ stage = "returned"
    /\ answer.ok
    /\ variant \in FAST
    /\ ReturnResult(IF Decoded.ok THEN [ok |-> TRUE, from |-> answer.from]
                    ELSE Failed)
    /\ BridgeTaken
    /\ UNCHANGED head

(* evaluate of a policy: whether it has a state, and how many tokens.      *)
UsesState == variant \in PI /\ observation.state # "none"

HeadTokens ==
    IF variant \in OFT THEN Cardinality(answer.rows) ELSE Len(call.tokens)

CanEvaluate ==
    /\ pc = "bridge"
    /\ stage = "returned"
    /\ answer.ok
    /\ variant \notin FAST
    /\ observation.noise # "misfits"

(* The graph of the last call does not fit, and a new one is built.        *)
BuildHead ==
    /\ CanEvaluate
    /\ ~Fits(HeadTokens, UsesState)
    /\ BuildGraph(HeadTokens, UsesState, variant)
    /\ UNCHANGED <<bridgeVars, variant, pc, id, observation, result>>

FailBuildHead ==
    /\ CanEvaluate
    /\ ~Fits(HeadTokens, UsesState)
    /\ FailBuild(HeadTokens, UsesState, variant)
    /\ ReturnResult(Failed)
    /\ BridgeTaken

(* The conditioning, the noise, which is the caller's or drawn for this    *)
(* call, the state and the tables are written.                             *)
WriteHead ==
    /\ CanEvaluate
    /\ Fits(HeadTokens, UsesState)
    /\ WriteInputs(answer.from, {id}, {id})
    /\ pc' = "compute"
    /\ UNCHANGED <<bridgeVars, variant, id, observation, result>>

(* The graph is computed and its actions are scaled.                       *)
ComputeHead ==
    /\ pc = "compute"
    /\ Compute
    /\ ReturnResult([ok |-> TRUE, from |-> OutputFrom])
    /\ BridgeTaken

(* The graph cannot be computed, or a number is not finite.                *)
FailHead ==
    /\ pc = "compute"
    /\ Compute
    /\ ReturnResult(Failed)
    /\ BridgeTaken

(* reset, between two predictions; the noise generator goes on.            *)
Reset ==
    /\ pc = "idle"
    /\ BridgeReset
    /\ UNCHANGED <<head, variant, pc, id, observation, result>>

PredictStep ==
    \/ RefuseObservation \/ CallBridge \/ StepBridge
    \/ FailBridge \/ FinishFAST
    \/ BuildHead \/ FailBuildHead \/ WriteHead
    \/ ComputeHead \/ FailHead

---------------------------------------------------------------------------
(* Properties                                                              *)

(* Every call returns actions computed from its own observation or fails:  *)
(* nothing of an earlier call, of memory that nobody wrote or of a graph   *)
(* that was overwritten is in them (StarVLAEngine::predict).               *)
Promise == INSTANCE Predictor WITH busy <- pc # "idle", answer <- result

ImplementsPredictor == Promise!Spec

(* When a head is computed, its graph is the one for this call, also when  *)
(* the graph was built for another call or could not be built for the last *)
(* one: as large as the conditioning, with a row for the state exactly     *)
(* when there is one, and giving out the rows of the actions and no other  *)
(* row; and every input was written for this call, from the caller's data  *)
(* or from the checkpoint (evaluate of the policies).                      *)
GraphFitsRequest ==
    pc = "compute" =>
        /\ head.shape = HeadTokens
        /\ \A i \in DOMAIN head.inputs : head.inputs[i] \subseteq {id}
        /\ variant \notin OFT =>
              LET rows == head.rows IN
              /\ UsesState <=> rows[1] = "state"
              /\ UsesState <=> "state" \in DOMAIN head.inputs
              /\ Velocity(rows, head.graph_uses_state) =
                    [i \in 1 .. horizon |-> "action"]

(* What the template of the checkpoint has behind the instruction.         *)
AfterTask ==
    IF cot_enabled
    THEN {i \in 1 .. Len(cot_template) :
             \A j \in i .. Len(cot_template) : cot_template[j] # Placeholder}
    ELSE {}

(* Whatever a task says, also when it holds action tokens of its own, an   *)
(* OFT policy is given the rows of the tokens that the engine appended     *)
(* after the task, in front of what the template has behind it             *)
(* (build_oft_instruction and extract_token_embeddings).                   *)
QueriesAreSuffix ==
    stage = "returned" /\ answer.ok /\ call.kind = "tokens" =>
        LET end == Len(call.tokens) - 2 - Cardinality(AfterTask) IN
        answer.rows = end - horizon + 1 .. end
=============================================================================
