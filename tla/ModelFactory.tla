---------------------------- MODULE ModelFactory ----------------------------
(***************************************************************************)
(* The life of a model (src/models/model_factory.cpp): one engine is loaded,*)
(* a StarVLA engine then predicts, and the engine is freed between two     *)
(* predictions.  The predictions of the engines of pi0 and SmolVLA are     *)
(* modelled in Pi0Engine and SmolVLAEngine.                                *)
(***************************************************************************)
EXTENDS EngineLoading, StarVLAEngine

vars == <<loadingVars, engineVars>>

NoModel == ModelOf("none", 0)

(* make_model is called for one of the engines.                            *)
Init ==
    /\ LoadingInit
    /\ PredictionInit
    /\ variant = "none"
    /\ model = NoModel
    /\ head = NoGraphYet

Make ==
    /\ Making
    /\ UNCHANGED engineVars

(* The engine is handed over, with some placement of its layers.           *)
HandOver ==
    /\ Loaded
    /\ IF engine \in StarVLA
       THEN \E split \in 0 .. Layers + 1 :
                /\ variant' = engine
                /\ model' = ModelOf(engine, split)
                /\ head' = FirstHead(engine)
       ELSE UNCHANGED <<variant, model, head>>
    /\ UNCHANGED <<stage, call, capture, cuda_capture, embeddings, memory,
                   graph, sequence, answer, fault, pc, id, observation,
                   result>>

Use ==
    /\ phase = "loaded"
    /\ engine \in StarVLA
    /\ \/ \E o \in Observations : BeginPredict(o)
       \/ Reset
    /\ UNCHANGED loadingVars

Predict ==
    /\ phase = "loaded"
    /\ engine \in StarVLA
    /\ PredictStep
    /\ UNCHANGED loadingVars

(* The engine is destroyed, with the bridge and the policy it owns.        *)
Destroy ==
    /\ pc = "idle"
    /\ Free
    /\ variant' = "none"
    /\ model' = NoModel
    /\ head' = NoGraphYet
    /\ cuda_capture' = NoCapture
    /\ memory' = Empty
    /\ UNCHANGED <<stage, call, capture, embeddings, graph, sequence, answer,
                   fault, pc, id, observation, result>>

Unmake ==
    /\ Releasing
    /\ UNCHANGED engineVars

Next == Make \/ HandOver \/ Use \/ Predict \/ Destroy \/ Unmake

Spec ==
    /\ Init
    /\ [][Next]_vars
    /\ WF_vars(Make \/ HandOver)
    /\ WF_vars(Unmake)
    /\ WF_vars(Predict)

---------------------------------------------------------------------------
(* Properties                                                              *)

(* What is kept is of the right kind; no more outputs are counted on a     *)
(* device than were asked for, and the memory holds no more than it can.   *)
TypeOK ==
    /\ engine \in Engines
    /\ variant \in {"none", engine} \cap (StarVLA \cup {"none"})
    /\ pc \in {"idle", "prepare", "bridge", "compute"}
    /\ stage \in {"ready", "prompt", "graph", "select", "extend", "returned"}
    /\ id \in 0 .. MaxRequests
    /\ result.ok \in BOOLEAN
    /\ embeddings \in BOOLEAN
    /\ memory.cells \in 0 .. n_ctx
    /\ Len(sequence) <= max_length
    /\ capture.seen \subseteq 1 .. Len(capture.wanted)
    /\ capture.cuda_captured \in 0 .. Len(capture.wanted)
    /\ cuda_capture.device \in {"none", Devices[1], Devices[2]} \ {"cpu"}
=============================================================================
