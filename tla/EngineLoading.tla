--------------------------- MODULE EngineLoading ---------------------------
(***************************************************************************)
(* How an engine gets hold of what it works with, and lets it go           *)
(* (src/models: ggml_backend.cpp, gguf_loader.cpp, smolvla/                *)
(* smolvla_engine.cpp, pi0/load.cpp and starvla/starvla_engine.cpp, and    *)
(* the files of their parts).  Loading is a sequence of steps, any of      *)
(* which may fail: what was acquired so far is then released, by the part  *)
(* that was being loaded and by the engine.  Three parts of SmolVLA may be *)
(* missing: their failure is a warning, and loading goes on.               *)
(*                                                                         *)
(* A thing is a pair of a part and what the part holds.                    *)
(***************************************************************************)
EXTENDS Integers, Sequences, StarVLAVariants

VARIABLES
    engine,     \* which engine is loaded
    phase,      \* loading, recovering, loaded, failing, failed, freeing, gone
    at,         \* number of the step of the plan
    held,       \* the things that are acquired and not released
    releasing   \* the things still to be released, in this order

loadingVars == <<engine, phase, at, held, releasing>>

Engines == StarVLA \cup {"pi0", "smolvla"}

Pi0Parts == <<"vit", "mmproj", "llm", "state", "action_decoder">>
OptionalParts == {"state_proj", "vision", "expert"}

---------------------------------------------------------------------------
(* Plans                                                                   *)

(* A step acquires things, drops them, or only checks; one with a          *)
(* condition is left out when the things it is about are missing.          *)
Get(part, names) == [do |-> "get", part |-> part, loader |-> FALSE,
                     what |-> {<<part, n>> : n \in names}, if |-> {}]
DropThings(part, names) == [Get(part, names) EXCEPT !.do = "drop"]
Check(part) == Get(part, {})
InLoader(steps) ==
    [i \in 1 .. Len(steps) |-> [steps[i] EXCEPT !.loader = TRUE]]

(* backend_loader::load: the backends, then a scheduler over them.         *)
LoadBackends(part) ==
    <<Get(part, {"backends"}), Get(part, {"scheduler"})>>

(* gguf_loader::load: opening the file gives its index and the metadata of *)
(* its tensors.                                                            *)
LoadGGUF(part) ==
    InLoader(<<Get(part, {"gguf", "meta"}), Get(part, {"ctx"}),
               Get(part, {"buffer"}), Check(part), DropThings(part, {"meta"}),
               Check(part)>>)

(* The file of a FAST policy is only read.                                 *)
LoadFastPolicy ==
    <<Get("policy", {"gguf", "meta"}), Check("policy"),
      DropThings("policy", {"gguf", "meta"})>>

(* The other policies; OFT's graph is part of it.                          *)
LoadPolicy(variant) ==
    LoadBackends("policy") \o LoadGGUF("policy") \o <<Check("policy")>>
        \o IF variant \in OFT THEN <<Get("policy", {"graph"})>> ELSE <<>>

(* Mutant: the context is created before the model.                        *)
LoadLlamaContextFirst(part) ==
    <<Check(part), Get(part, {"llama_backend"}), Get(part, {"context"}),
      Get(part, {"model"}), Check(part)>>

LoadLlama(part) ==
    <<Check(part), Get(part, {"llama_backend"}), Get(part, {"model"}),
      Check(part), Get(part, {"context"})>>

LoadBridge ==
    LoadLlama("bridge") \o
    <<Check("bridge"), Get("bridge", {"vision"}), Check("engine")>>

(* Metadata of six files, then the runtimes and then the weights of five   *)
(* components, then the context with its tokenizer.                        *)
LoadPi0 ==
    LET each[k \in 0 .. 5] ==
            IF k = 0 THEN <<>> ELSE each[k - 1] \o LoadBackends(Pi0Parts[k])
        weights[k \in 0 .. 5] ==
            IF k = 0 THEN <<>>
            ELSE weights[k - 1] \o LoadGGUF(Pi0Parts[k])
                                \o <<Check(Pi0Parts[k])>>
    IN  <<Check("engine")>> \o each[5] \o weights[5] \o <<Check("engine")>>

(* The parts of SmolVLA.                                                   *)
LoadStateProj ==
    LoadBackends("state_proj") \o LoadGGUF("state_proj")
        \o <<Check("state_proj")>>

LoadVision == LoadBackends("vision") \o LoadGGUF("vision")

LoadExpert ==
    LoadBackends("expert") \o <<Get("expert", {"prefix_scheduler"})>>
        \o LoadGGUF("expert")
        \o <<Get("expert", {"time_runtime"}), Get("expert", {"attention"})>>

(* smolvla_init. The last steps check the expert and prepare its prefix.   *)
LoadSmolVLA ==
    LoadStateProj \o LoadVision \o LoadLlama("llama") \o <<Check("llama")>>
      \o LoadExpert
      \o <<[Check("engine") EXCEPT !.if = {<<"expert", "buffer">>}],
           [Get("engine", {}) EXCEPT
               !.what = {<<"expert", "prefix_runtime">>},
               !.if = {<<"expert", "buffer">>, <<"vision", "buffer">>}]>>
Plan(e) ==
    CASE e = "pi0" -> LoadPi0
      [] e = "smolvla" -> LoadSmolVLA
      [] e \in FAST -> LoadFastPolicy \o LoadBridge
      [] OTHER -> LoadPolicy(e) \o LoadBridge

---------------------------------------------------------------------------
(* Releasing                                                               *)

Things(part, names) == [i \in 1 .. Len(names) |-> <<part, names[i]>>]

(* Mutant: the buffer of the weights is forgotten.                         *)
LoaderCleanupWithoutBuffer(part) == Things(part, <<"ctx", "meta", "gguf">>)

(* The cleanup of gguf_loader::load, and of FastPolicy::load.              *)
LoaderCleanup(part) == Things(part, <<"buffer", "ctx", "meta", "gguf">>)

(* The destructors of the Impl of the policies.                            *)
FreePolicy(variant) ==
    Things("policy",
           (IF variant \in OFT THEN <<"scheduler", "graph">>
            ELSE <<"graph", "scheduler">>)
              \o <<"buffer", "ctx", "gguf", "backends">>)

(* The destructor of Qwen3VLBridge::Impl.                                  *)
FreeBridge ==
    Things("bridge", <<"vision", "context", "model", "llama_backend">>)

(* Pi0LoadedComponent: the weights, then the runtime.                      *)
FreePi0Component(part) ==
    Things(part, <<"buffer", "ctx", "gguf", "scheduler", "backends">>)

(* Members are destroyed from the last to the first.                       *)
FreePi0 ==
    LET each[k \in 0 .. 5] ==
            IF k = 0 THEN <<>>
            ELSE FreePi0Component(Pi0Parts[k]) \o each[k - 1]
    IN  each[5]

(* The three functions that free a part of SmolVLA.                        *)
FreeStateProj ==
    Things("state_proj",
           <<"buffer", "scheduler", "backends", "ctx", "gguf">>)

FreeVision ==
    Things("vision", <<"scheduler", "buffer", "ctx", "backends", "gguf">>)

FreeExpert ==
    Things("expert", <<"time_runtime", "attention", "prefix_runtime",
                       "prefix_scheduler", "scheduler", "buffer", "ctx",
                       "backends", "gguf">>)

FreeSmolVLAPart(part) ==
    CASE part = "state_proj" -> FreeStateProj
      [] part = "vision" -> FreeVision
      [] part = "expert" -> FreeExpert

(* smolvla_free: without a model the backend of llama.cpp stays.           *)
FreeSmolVLA(things) ==
    FreeStateProj \o FreeVision \o FreeExpert \o Things("llama", <<"context">>)
      \o (IF <<"llama", "model">> \in things
          THEN Things("llama", <<"model", "llama_backend">>)
          ELSE <<>>)

(* What an engine that goes away releases.  StarVLA's policy is its last   *)
(* member.                                                                 *)
FreeEngine(e, things) ==
    CASE e = "pi0" -> FreePi0
      [] e = "smolvla" -> FreeSmolVLA(things)
      [] OTHER -> FreePolicy(e) \o FreeBridge

(* A failed step: the GGUF loader cleans up what it has not handed over,   *)
(* then the part releases what it owns, then the engine, unless it does    *)
(* without the part.                                                       *)
AfterFailure(e, step) ==
    LET loader == step.loader \/ (e \in FAST /\ step.part = "policy")
        Owned(thing) ==
            loader => thing \notin {step.part} \X
                                     {"buffer", "ctx", "meta", "gguf"}
        optional == step.part \in OptionalParts
    IN  (IF loader THEN LoaderCleanup(step.part) ELSE <<>>)
          \o SelectSeq((IF optional THEN FreeSmolVLAPart(step.part)
                        ELSE IF step.part = "bridge" THEN FreeBridge
                        ELSE <<>>)
                         \o (IF optional THEN <<>> ELSE FreeEngine(e, held)),
                       Owned)

---------------------------------------------------------------------------
(* Loading and freeing                                                     *)

LoadingInit ==
    /\ engine \in Engines
    /\ phase = "loading"
    /\ at = 1
    /\ held = {}
    /\ releasing = <<>>

Current == Plan(engine)[at]

Missing == ~(Current.if \subseteq held)

(* The next step of the plan succeeds, or is left out.                     *)
LoadStep ==
    /\ phase = "loading"
    /\ at <= Len(Plan(engine))
    /\ held' = CASE Missing -> held
                 [] Current.do = "drop" -> held \ Current.what
                 [] OTHER -> held \cup Current.what
    /\ at' = at + 1
    /\ UNCHANGED <<engine, phase, releasing>>

IsHeld(thing) == thing \in held

(* The next step fails.                                                    *)
FailStep ==
    /\ phase = "loading"
    /\ at <= Len(Plan(engine))
    /\ ~Missing
    /\ Current.do # "drop"
    /\ phase' = IF Current.part \in OptionalParts THEN "recovering"
                ELSE "failing"
    /\ releasing' = SelectSeq(AfterFailure(engine, Current), IsHeld)
    /\ UNCHANGED <<engine, at, held>>

Loaded ==
    /\ phase = "loading"
    /\ at > Len(Plan(engine))
    /\ phase' = "loaded"
    /\ UNCHANGED <<engine, at, held, releasing>>

Free ==
    /\ phase = "loaded"
    /\ phase' = "freeing"
    /\ releasing' = SelectSeq(FreeEngine(engine, held), IsHeld)
    /\ UNCHANGED <<engine, at, held>>

ReleaseNext ==
    /\ releasing # <<>>
    /\ held' = held \ {Head(releasing)}
    /\ releasing' = Tail(releasing)
    /\ UNCHANGED <<engine, phase, at>>

(* Mutant: the part that is missing is loaded again.                       *)
NextPartAgain == at

(* The first step of the next part.                                        *)
NextPart ==
    CHOOSE k \in at .. Len(Plan(engine)) + 1 :
        /\ \A j \in at .. k - 1 : Plan(engine)[j].part = Current.part
        /\ k <= Len(Plan(engine)) => Plan(engine)[k].part # Current.part

(* SmolVLA goes on with the next part.                                     *)
Recover ==
    /\ phase = "recovering"
    /\ releasing = <<>>
    /\ phase' = "loading"
    /\ at' = NextPart
    /\ UNCHANGED <<engine, held, releasing>>

Released ==
    /\ phase \in {"failing", "freeing"}
    /\ releasing = <<>>
    /\ phase' = IF phase = "failing" THEN "failed" ELSE "gone"
    /\ UNCHANGED <<engine, at, held, releasing>>

(* Steps of a load or a release that is under way.                         *)
Making == LoadStep \/ FailStep \/ Recover

Releasing == ReleaseNext \/ Released
---------------------------------------------------------------------------
(* Properties                                                              *)

(* The things that must be there as long as a thing is.                    *)
Needs(thing) ==
    LET own(name) == <<thing[1], name>> IN
    CASE thing[2] \in {"scheduler", "prefix_scheduler", "buffer", "graph",
                       "time_runtime", "attention", "prefix_runtime"} ->
            {own("backends")}
      [] thing[2] = "model" -> {own("llama_backend")}
      [] thing[2] = "context" -> {own("model")}
      [] thing[2] = "vision" -> {own("model"), own("llama_backend")}
      [] OTHER -> {}

(* At no moment of loading, of giving up, of going on without a part or of *)
(* freeing does the engine hold a thing whose foundation is gone: a        *)
(* scheduler or a buffer without its backends, a context or a vision       *)
(* encoder without the model, a model without llama.cpp.  And an engine    *)
(* that was loaded releases the policy's backends before llama.cpp, as the *)
(* comment on StarVLAEngine::Impl demands.                                 *)
ReleasedInOrder ==
    /\ \A thing \in held : Needs(thing) \subseteq held
    /\ phase = "freeing" /\ <<"policy", "backends">> \in held =>
          <<"bridge", "llama_backend">> \in held

(* Whatever step fails, and after which parts were missing, everything     *)
(* that was acquired is released at the end, also when the engine is freed *)
(* after use.  SmolVLA keeps the backend of llama.cpp when its language    *)
(* model cannot be loaded, and nothing else.                               *)
NothingLeaks ==
    /\ phase \in {"failed", "gone"} =>
          held \subseteq IF engine = "smolvla"
                         THEN {<<"llama", "llama_backend">>} ELSE {}
    /\ phase = "gone" => held = {}
    /\ phase = "loaded" => \A thing \in held : thing[2] # "meta"

(* Loading ends, with an engine or with everything given up, also when     *)
(* every part that may be missing fails (smolvla_init and the others).     *)
LoadingEnds == phase = "loading" ~> phase \in {"loaded", "failed"}
=============================================================================
