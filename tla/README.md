# robot.cpp in TLA+

robot.cpp runs vision-language-action policies on ggml. A daemon loads one
model and answers `predict` calls over TCP; robot clients ask it for chunks of
actions and execute them. This directory holds TLA+ models of its stateful
parts, the TLC configurations that check them, and proofs for TLAPS.

Paths below are relative to the root of the repository. In `PROJECT.json`
they carry the prefix `src/`, so that the engines are at `src/src/models`.

## The system

| Component | State it keeps | Operations | Talks to |
|---|---|---|---|
| Model server (`robot_server/model-server.cpp`, `session.cpp`, `model_adapter.cpp`) | listening socket, the one open session, `shutdown_requested`, the model | load, listen, accept, `handle_client`: health, reset, predict, shutdown | clients by TCP, the engine by calls |
| Sockets (`robot_server/socket.cpp`) | kernel state | `tcp_listen`, `tcp_accept`, `tcp_connect`, `send_all`, `recv_exact`, `close` | kernel |
| Wire protocol (`robot_server/protocol.cpp`) | none | encode, decode, validate | server and clients |
| Clients (`robot_client/python/model_client.py`, `robot_client/cpp/model_client.cpp`) | request id counter | one connection per call: send, receive, close | server |
| SmolVLA engine (`src/models/smolvla`) | embeddings, cached image graph, llama context, expert runtimes | init, predict (file, bytes, raw, raw batch), reset, free | ggml, llama.cpp |
| pi0 engine (`src/models/pi0`) | per-component runtimes, prefix key/value cache | load, predict, reset, free | ggml |
| StarVLA engine (`src/models/starvla`) | Qwen-VL bridge with its capture of layers, key/value memory, cached head graph | load, predict (seven variants), reset, free | llama.cpp, ggml |
| GGUF loader and backends (`src/models/gguf_loader.cpp`, `ggml_backend.cpp`) | weights, buffers, schedulers | load with fallback, free | ggml |
| Control loop and policy (`robot_client/policy`) | action queue, step counter | run, reset, select_action | platform, client |
| SO-101 platform (`eval/lerobot_so101`) | robot handle, home pose, keyboard | connect, observe, act, home, disconnect | robot SDK, terminal |
| LIBERO and SimplerEnv (`eval/libero`, `eval/simpler_env`) | server child process, episode state | launch, wait, run, stop | client, simulators |
| Conversion and quantization (`tools`) | none between runs | offline | files |

What is hard here: connections that time out, close or reset while the one
server thread computes; a listen queue with a bound; a shutdown that races
queued calls; engine caches that outlive a request, some of which fails
halfway; a robot that has to be released whatever raises; and keys that are
polled through two buffers; a callback inside a running graph whose refusal
the scheduler turns into a silent loss of the rest of a split; a load of which
any step may fail; and lengths that one program writes and another believes.
`PROJECT.json` lists the hazards line by line.

What makes each part correct:

* server: one client's failures stay in its session; every executed call is
  answered; the policy runs at most once per call; nothing runs after an
  acknowledged shutdown; only a shutdown stops it; every call returns;
* engine: no cached graph points to freed tensors; a prediction is computed
  from its own request's data; a failure is reported and does not outlive its
  request;
* control loop: no action predicted before R is sent after it; chunks are sent
  whole and in order; the robot is released; Q and R do what they say;
* protocol: what one side encodes the other decodes, in C++ and in Python; a
  damaged length is noticed; the two clients read the same;
* loading: nothing outlives what it rests on, and whatever step fails,
  everything that was acquired is released;
* StarVLA: a policy is conditioned on the layers it asked for, of its own
  prompt, all of them; the cached head is the one for this call and every input
  of it was written; a failure leaves no trace in the bridge; the pure parts
  (prompt, sizes of images, FAST codec, scaling of actions) do what their
  references do.

## Modules

| Module | What it is |
|---|---|
| `PolicyService` | abstract: what a client is promised, without sockets |
| `ModelServer` | clients, TCP, listen queue and the server's thread |
| `MCModelServer` | what the clients of the TLC instances ask for |
| `ModelServerProofs` | theorems about `ModelServer` |
| `SmolVLAEngine` | the SmolVLA engine across requests |
| `SmolVLAEngineProofs` | theorems about `SmolVLAEngine` |
| `Predictor` | abstract: what `Model::predict` promises of one call after another |
| `Pi0Engine` | the pi0 engine across requests |
| `Pi0EngineProofs` | theorems about `Pi0Engine` |
| `ControlLoop` | synchronous control loop, base policy, SO-101 platform, keyboard |
| `ControlLoopProofs` | theorems about `ControlLoop` |
| `Protocol` | payloads of a predict and of its answer, to the byte: C++ and Python |
| `ProtocolProofs` | theorems about `Protocol`, for messages and payloads of any length |
| `StarVLAVariants` | the seven policies and their language models |
| `QwenBridge` | the bridge to the language model: capture of layers, generation |
| `ActionHead` | the graph behind the language model, kept between calls |
| `StarVLAPrompt` | instruction, state in words, action tokens, chat template |
| `QwenImage` | the size of a resized image, its tokens, windows of the resampling |
| `FastCodec` | UTF-8 and tokens of the FAST actions |
| `FloatArithmetic` | floats and how a result is rounded to one |
| `ActionNormalization` | from the model's output to the robot's actions |
| `StarVLAEngine` | one prediction: composes the modules from `StarVLAVariants` to `FastCodec` |
| `EngineLoading` | loading, giving up and freeing of all nine engines |
| `ModelFactory` | composes `EngineLoading` and `StarVLAEngine`: the life of a model |
| `SetInduction` | lemmas on induction, iteration, least and greatest elements, sequences |
| `QwenBridgeProofs` | lemmas about `QwenBridge`: every call and step keeps its invariant |
| `ModelFactoryProofs` | theorems about the life of a StarVLA engine, and about the pure parts for inputs of any size |
| `MCModelFactory` | what the TLC instance is shown, and inputs of the pure parts |

Operators whose comment begins with "Mutant:" are plausible bugs. No
specification uses them; `PROJECT.json` pairs each with the property it breaks
when it takes the place of the definition below it.

### ModelServer

A connection carries one call, because every client opens a new one per call
(`_call`, `ModelClient::call`), so connections are named by their call
`<<client, n>>`, where `n` is the value of the client's request id counter. For
the same reason the clients' check of the response id cannot fail and is not
modelled. The server's program counter `pc` names the blocking points of
`main`, `read_message` and `send_message`.

| Model | Code |
|---|---|
| `LoadAndListen`, `LoadFails`, `Accept`, `Close`, `Exit` | `main` |
| `ReadHeader`, `ReadPayload`, `ReadFails` | `read_message`, `recv_exact`, and the failure branch of `handle_client` |
| `HandleHealth` ... `HandleBadRequest` | the branches of `handle_client` |
| `SendReplyHeader`, `SendReplyPayload`, `SendFails`, `KilledBySigPipe`, `AfterSend` | `send_message`, `send_all`, and what each branch does with the result |
| `BeginCall`, `Connect`, `SendHeader`, `SendPayload`, `ReceiveReply`, `ConnectionLost`, `GiveUp` | the clients |
| `DeliverReset` | TCP (external) |

`predict_mutex` guards nothing in a program of one thread and is left out. A
failing `accept` only continues the loop, a stuttering step. Argument parsing
and `sockets::startup` are part of `LoadFails`. An exception thrown inside the
server, such as an allocation failure, is not modelled.

TCP: a send succeeds until a reset has arrived; data sent to a socket its
client has closed makes the client's kernel send a reset. A reset that follows
the peer's FIN makes the next send fail with EPIPE, which on POSIX raises
SIGPIPE; one without a FIN gives ECONNRESET. The constant `SigPipe` chooses
between POSIX and Windows. A connection attempt that finds the listen queue
full is repeated by the client's kernel, so that `Connect` waits. A health
reply has a payload, and so has every other one.

`PolicyService` is implemented with the mapping at the end of `ModelServer`:
`executed` and `request` map to themselves, every outcome but `ok` to
`failed`.

### SmolVLAEngine

Tensor data is abstracted to the number of the request it came from: `0` stands
for the zeros of initialization and `Wrong` for the output of a computation that
failed or ran on a foreign graph. One action is one step of
`smolvla_predict_raw_rgb_batch` or `smolvla_predict`: every image,
`prepare_vision_embeddings`, the state, the prefix with the language model, the
copy of its cache, the masks, and denoising with the result. `expert` has the
three runtimes of the action expert; a new allocation takes a new generation
number `gen`, and the denoising graph remembers the generations it points to.

Every allocation and computation may fail. ggml's compute status is ignored in
five places (`vision.cpp:617` and `737`, `state_proj.cpp:236`,
`action_expert.cpp:1116` and `1217`), so a failed computation continues with
`Wrong` data and leaves the mark `"compute"` in `faults`. `"stateKept"` marks a
request that used the state embedding as it was, and `"clobbered"` one that ran
a cached image graph whose description had been overwritten. What happens then
is up to ggml: an abort, or data of no request.

`predict_bytes` and `predict` (one encoded image) are reached through the C API;
the daemon always uses the raw batch. Both findings about the engine are
reached through the daemon too: the state by requests with and without one,
and the overwritten graph by a failed allocation for another image size.

Left out: a projector whose width differs from the model's (`n_state` is then
0), a reload, `smolvla_set_noise`, timings and debug dumps. Failing to bind the
tensors of a raw graph cannot happen, since the graph names them itself. A
missing set of action statistics makes every denoising fail, an outcome
`Denoise` has at all times.

### Pi0Engine

The prefix cache is what outlives a request: `vision` and `prompt` are
`vision_prefix_embeddings` and `prompt_embeddings`, `kv` the tensors of
`k_layers` and `v_layers` in the order they are written, and `allocations` the
size of the language model's `persistent_allocations`. A tensor is its number
of tokens and the set of requests its data comes from. One action is one step
of `pi0_predict_raw_rgb`, and `PersistLayer` one turn of the loop that copies a
layer, since an allocation may fail between two. Every graph's status is
checked, unlike SmolVLA's, so that any failure is an exception, and `Throw`
ends the request with whatever had been written in place.

`ggml_n_dims` drops trailing dimensions of 1, which is why a prompt or an image
of a single token is refused, and why `HasShape` asks for more than one.

`Predictor` is the abstract specification: calls come one after the other and
each fails or uses its own observation. The mapping is at the end of
`Pi0Engine`. SmolVLA does not implement it, by its findings.

Left out: sampling noise and its generator, timings, and a language model with
fewer layers than the action expert. The images of a request and the weights
are there whenever the prefill begins, so the branch of `pi0_prefill_prefix`
that skips the prefix is not reached.

### ControlLoop

`pc` follows `run`, `_reset_home` and `_predict_and_execute`. Every call to the
robot and to the server may raise, and Ctrl-C may come at every step but inside
`disconnect`, whose effect is then up to the robot's SDK. The terminal has two
parts, what the kernel holds (`tty`) and what `sys.stdin` has read ahead
(`stdin`); `select()` sees only the first. An action is its chunk, its
index, and how many times R had been handled when its observation was taken.
Calls return or raise: a server that hangs without a timeout is outside the
model. The Windows keyboard and a stdin that is no terminal (no key ever
arrives) are left out.

### Protocol

A payload is a sequence of bytes in the order `encode_predict_request`,
`encode_predict_response` and `model_client.py` write them. Every offset and
every length is computed as the code computes it; only how many values a byte
has is a constant, so that 32 bits are a number a run can go through. That is
also why `width * channels` wraps here as it does at `protocol.cpp:145`
(`RowBytes`). A float is its bits; the ones that are not finite are those whose
last byte is the greatest. The order of the checks is kept where a later one
would read past the end. The decoders are models of `decode_predict_request`
(the server), `decode_predict_response` (the C++ client) and of the Python
client's `decode_predict_response`, which makes a dictionary of the timings and
accepts a name of no letters. It decodes the names with `errors="replace"`
(`model_client.py:137`), which `PythonText` models as reading one character after
another, of any code in which no character begins another one: what no character
begins with is replaced, as many bytes at once as one may begin with, so that a name
that is no UTF-8 changes and may become the same as another. Of the header, read whole by both ends,
`ModelServer` has whether it validates.

### QwenBridge, ActionHead and StarVLAEngine

| Model | Code |
|---|---|
| `BridgeCall`, `FailPrompt`, `Submit` | the four operations of the bridge up to `llama_decode` |
| `Observe`, `Refuse`, `Pass` | `observe_text_and_capture_layers` for a node the callback asks for, refuses, or does not ask for |
| `Drop` | the scheduler of ggml (external): after a refusal, the rest of the split |
| `Stored` | `qwen_bf16_capture_cuda` with its one buffer |
| `FailGraph`, `Finish`, `Catch` | `finish_layer_capture`, `validate_layer_boundary_tracking` and the handlers |
| `ReturnPrompt`, `Prefill`, `Select`, `Extend` and their failures | `generate_autoregressive` |
| `BuildHead`, `FailBuildHead`, `WriteHead`, `ComputeHead`, `FailHead` | `evaluate` and `build_graph` of the policies |
| `BeginPredict`, `RefuseObservation`, `CallBridge`, `FailBridge`, `FinishFAST`, `Reset` | `predict` and `reset` of the engine |

An output is the node that computed it and the calls whose data went into it;
call 0 stands for memory nobody wrote or a node that was left out. So a
conditioning is whole when each slot is the wanted node, from this call alone,
and a result is right when it is from this call alone, which is what `Predictor`
promises; the mapping is at the end of `StarVLAEngine`. `fault` records whether something
outside of the bridge failed in this call, which is what a refusal is measured
against. A layer is its last node. The graph of a head is kept until the number of
tokens, or whether there is a state, changes; its inputs share memory with its
intermediate results, so that `Compute` leaves them unwritten.

The placement of layers, `split`, is chosen by `HandOver`, from all on the
second device to all on the first. With a host and one GPU conditioning is
always whole; with two GPUs it is not (finding `starvla_devices`).

Two facts that no document contradicts: FAST looks for its tokens in the whole
sequence, the prompt included (`ExtractFastTokens`), so that a task that
spells one contributes actions; and a long image whose short side is raised to
one patch may exceed the budget of pixels, as in the code it imitates.

Left out: the noise generator, positions of tokens, what the image encoder
computes, and the inverse cosine transform of FAST. Scaling the actions fails
like the head's computation (`FailHead`); what it does is in
`ActionNormalization`.

### EngineLoading and ModelFactory

`Plan(engine)` is the sequence of what each load acquires, checks and drops,
part by part; `FailStep` fails any of them. `AfterFailure` is what the code
then releases: the GGUF loader's own cleanup, the part's, the engine's
destructor. SmolVLA goes on without its state projector, vision encoder or
action expert (`Recover`), and later steps that need them are left out
(`Missing`). `Needs` says what rests on what.

Two facts found on the way, both harmless and neither a finding: when the bridge
of StarVLA cannot be loaded, llama.cpp is released while the policy's backends are
still there, though the comment at `starvla_engine.cpp:340` wants the other
order (`ReleasedInOrder` states it for an engine that was loaded); and SmolVLA
keeps the backend of llama.cpp when its language model cannot be loaded, which
`NothingLeaks` names as its one exception.

`ModelFactory` is the life of one model: `Make`, `HandOver`, predictions and
resets, `Destroy`, `Unmake`. It predicts with StarVLA only; pi0 and SmolVLA have
modules of their own, which begin with a loaded engine. Left out: which backend
is chosen, what the tensors of a file are, a file without tensors.

A definition that stands for the same code in several policies, such as
`Built`, is mapped to one of them.

### The pure modules

They have no variables. Each is compared with something else: the strict decoder
of UTF-8 in `FastCodec` with the lossy one written beside it, `QwenImage` with the
rules a size has to obey and the pixels a resampling may read, `ActionNormalization` with the
quantiles an action must lie in but for the roundings, `StarVLAPrompt` with the numpy expression the
comment in `discretize_state` quotes, and the choice of a token in `QwenBridge`
with what a penalty may do to it. `MCModelFactory` and `MCModelServer` compare them over all
the inputs they bound. Such a property is about no state, so it is guarded by
`Once`, one first state, and evaluated there.

The scaling of actions and the penalty of repeated tokens are single operations on
floats, and what they promise depends on their rounding. `FloatArithmetic` has the
floats as a set of whole numbers of steps, of which little is assumed
(`FloatAssumption`), and `Round`, which is to nearest and of two the even one. So
`Scaled` is rounded after each of its operations, and a clipped output of 1 may end
above the upper quantile, as 0.2000000179 does above 0.2f when the lower one is -0.1f:
`denormalize_actions` does not clamp again. `ActionsInQuantiles` therefore says that
an action is never below the lower quantile, and above the upper one by no more than
two roundings make, and `MCConfigs` has quantiles that are exceeded. Where twice a
quantile is no float (`Moderate`), their difference may be infinite, and nothing is
said. A penalty is any float above 0, as in
`qwen_vl_select_repetition_penalized_top1`; `PenaltyNeverRewards` has "at least 1" as
a hypothesis, because a smaller one, which is accepted too, rewards repetition. That a
compiler may fuse a product and a sum into one operation with one rounding is left out.

## Runs

| Run | Expect | Shows |
|---|---|---|
| `server_safety` | pass | safety of the server and that it implements `PolicyService` |
| `server_live` | pass | every call returns; a shutdown that was read stops the server; what one end of a connection encodes the other decodes, and damage is noticed |
| `server_sigpipe` | violation | a client that gives up kills the daemon by SIGPIPE |
| `smolvla_engine` | pass | no dangling graph, fresh masks, faults stay in their request |
| `smolvla_state` | violation | an earlier request's state is used when there is none |
| `smolvla_graph` | violation | a cached image graph runs after it was overwritten |
| `pi0_engine` | pass | the prefix cache is whole, predictions use their own, no allocation when warm; `Predictor` is implemented |
| `control_loop` | pass | stale actions, chunk order, the limit, release of the robot |
| `control_quit` | violation | a Q typed behind another key is not seen |
| `control_home` | violation | R does not home the arm when the server fails |
| `model_factory` | pass | loading and freeing of nine engines, StarVLA's predictions with a host and a GPU, `Predictor` is implemented, the pure parts on bounded inputs |
| `starvla_devices` | violation | with layers on two GPUs, a policy is conditioned on memory nobody wrote |

Bounds, and why they are enough:

* `server_safety`: two clients with two calls each and a listen queue of one.
  One client is patient, one may give up at any point. That has a session
  with another call queued behind it, a third waiting to connect, a call that is
  overtaken by the same client's next one, and a shutdown amid all of them.
  The properties relate at most two calls. Reset and malformed messages are
  given to one client each to keep the instance at a million states.
* `server_live`: three clients with one call each contend for one queue place:
  the least number with one served, one queued and one refused entry. It has
  the request kinds `server_safety` leaves out. `ByteValues = 2`: a word is
  below 16, so that a width of 6 times three channels wraps; up to two images of
  six kinds, states and noises of up to two floats, two metrics; and every
  payload of a smaller set with its end cut or lengthened and one byte changed. Three
  characters of one to three bytes, so that names are text, cut short, or no text, and
  different names are read as one.
* `smolvla_engine`: two image sizes and an encoded one are enough to leave and
  come back to a cached size; three requests, to fill a cache, to fail, and to
  use it. A prefix has at most three lengths, of which the context length admits
  some. Sequences of any length are covered by the proofs.
* `pi0_engine`: two layers (four tensors), so that a failure falls between
  them; three requests, to fill the cache, to fail and to use it; prompts that
  are empty, of one token, that fit and that are cut.
* `control_loop`: chunks of one to three actions, nine actions sent, two keys,
  and a limit of four or none, so that the limit falls inside a chunk.
* `model_factory`, `starvla_devices`: three layers, of which the first takes
  image features too, so that a split of the graph begins before, between and
  behind the wanted ones; two blocks, so that PI wants several layers and not
  all; three requests, for a head to be built, to fail to be, and to be reused;
  twelve observations, each with one or two things unlike the plainest; a generation of at most seven
  tokens, which a prompt of the longest task fills and a longer one exceeds.
  Texts of up to four bytes at the edges of UTF-8, the length of its longest
  form; images of up to 24 pixels; two columns of actions, and floats of three bits
  and three exponents (`MCFloat`), with results that are exact, rounded and infinite;
  penalties below and above 1, scores of both signs and an infinite one.

`MaxCalls`, `MaxRequests`, `MaxKeys` and `MaxSends` are bounds of the models and
not of the code, and so are `Observations` and `LogitRows`. Deadlock is checked
in every other passing run: `Quiescent` and `Done` stutter in the states where
the program really rests or a bound is reached, and any other state without a
step is an error. `model_factory` and `starvla_devices` say
`CHECK_DEADLOCK FALSE`: the behaviour ends when a load has failed or the
engine is gone.

### Fairness

In `server_live`: weak fairness of the server's thread (it is always
scheduled, and an engine call returns) and of each client's current call (TCP
delivers what a live peer sends; the client has no other work). Nothing forces
a client to begin a call, to give up, or a reset to arrive. With `Backlog = 1`
a waiting `Connect` is enabled again and again and not forever; that weak
fairness suffices shows that the number of competing calls is finite, and an
endless stream of new calls could starve a client at its connect.

In `model_factory`: one thread loads, predicts and frees, and is always
scheduled: weak fairness of a load (`Make \/ HandOver`), of a release (`Unmake`)
and of a prediction. Nothing forces a call to be made or the engine to be freed.
`LoadingEnds` rests on the first two, as going on without a part begins with
releasing it.

### Findings

`PROJECT.json` has them with their lines. In short: SIGPIPE kills the daemon
(`socket.cpp:131`); the state embedding of an earlier request is used
(`smolvla_engine.cpp:778`); a stale image graph is run and reported as a
success (`vision.cpp:699`); Q may stay in a buffer (`stdin.py:63`); R needs
the server before it moves the arm (`sync_loop.py:57`); and the buffer with
captured layers is freed when a layer of another GPU comes
(`qwen_bf16_round_cuda.cu:155`).

## Proofs

For every number of clients, calls, queue places, images, tokens and requests:

* `TypeCorrect`: types, the bound of the listen queue included.
* `NoClientLosesAnothersSession`, `ExecutedCallsAreAnswered`,
  `ShutdownAckIsFinal`. None is inductive. `IInv` adds that at most one
  connection is open, exactly while `pc` is inside a session, and that it is not
  in the queue; that a reset is under way only for a call whose client is done;
  that a server end is closed only with an excuse (the reply was sent, the
  client was gone, the header was malformed, a shutdown or a kill); and that
  an executed call is the one being answered or has been answered.
* `PersistentWithoutSigPipe`, under `~SigPipe`: the server stops only when
  asked, so SIGPIPE is the only cause of the violation in `server_sigpipe`.
* `GraphNeverDangles`: inductive with types once it also covers the time
  between freeing and building (`GraphInv`); each outcome of `EnsureKv`,
  `CreateAttention`, `InitFixedPrefix` and `EnsureDenoise` keeps it, a lemma
  each.
* `MasksAreFresh`: `MaskInv` says that between the prefix and denoising a
  prepared mask is of the current request, because `CreateAttention` clears the
  flag in every `BuildPrefix`.
* `PredictionsAreTheirOwn` (`FaultsStayLocal`): `OriginInv` follows the
  provenance through the steps: while `faults` is empty, the embeddings, the
  language model's cache and the expert's copy hold this request's data.

* `TypeCorrect`, `CacheAlwaysWhole`, `WarmRequestsDoNotAllocate` and
  `EngineImplementsPredictor` for `Pi0Engine`, with `PrefillInv` (what the prefill wrote so far is of this
  request, and the count is 0 until the last layer), `SamplingInv` (sampling
  reads a cache that is whole and of this request) and `WarmInv` (after a
  success, and during a request of the same length, each tensor has its shape).
  The last theorem is a refinement: each step of the engine is a step of
  `Predictor` or a stutter.

* `ServerImplementsService`: the refinement of `PolicyService`. The policy must run
  once for a call and in each client's order. `OrderInv` says that the listen
  queue keeps that order, `HeaderInv` that the one header of a call is read
  once, and `OnceInv` that every call the policy may still be run for (`CanRun`)
  is younger than those of its client that it was run for.
* `TypeCorrect` for `SmolVLAEngine`: `RestInv` has what `TypeInv` leaves out, the
  progress of a request and its result.
* `TypeCorrect`, `RobotIsReleased`, `LimitAlwaysHolds`, `ActionsAreFresh` and
  `ChunksAreWhole` for `ControlLoop`, for chunks of any length and any limit.
  `QueueInv` says that the queue holds the rest of the chunk that the latest action is
  from, predicted since the last R, `ActionInv` that the action about to be sent
  goes on from the one before, and `LimitInv` that each R grants as many actions as
  the limit and no more.
* `LeavesNoTrace`, `RefusesForAReason` and `TypeCorrect` for `ModelFactory`, for
  every number of layers and of layers with image features, every placement,
  prompt, checkpoint and bound; and, under `OneAccelerator`,
  `ConditioningWhole`, `HeadFits` and `EngineImplementsPredictor`; and, under
  `NoQueriesAfterTask`, `QueriesAreTheEngines`.
* `NoPenaltyRewards`, `EveryWindowInside`, `EveryBinMatchesNumpy`,
  `ActionsStayInQuantiles`, `EveryResizeWithinBudget` and `EveryTextDecodesAlike`:
  what the run `model_factory` checks over small inputs, for every input. Each
  states both, the general fact and the property of the run; with floats, the
  property of the run for floats that have those of `MCFloat` among them.
* `EveryRequestSurvives`, `EveryResponseSurvives`, `EveryDecodingIsExact` and
  `ClientsAlwaysAgree`: the same for what `server_live` checks of the protocol.

### The argument about the bridge

A refused output makes the scheduler drop the rest of a split without an error,
so that nothing in the graph says whether what was captured is whole; only the
marks of the callback do. `MarkedSoFar` says that every wanted node and every
boundary that lies behind the graph's position is marked. `WholeInv` and
`DeviceInv` promise something only as long as it holds: then no split was
dropped, what flows through the graph is from this call alone, and each marked
slot holds its node. The nodes of a graph are different (`NodesDiffer`), so that
a node that was left out is not marked later (`LeftOut`), and once `MarkedSoFar`
is false it stays false (`MarkedBefore`). Behind the last node, the check of the
code is `MarkedSoFar` itself (`MarkedAtTheEnd`). The count of outputs on a device
is that of the marked slots there (`CountInv`), which is what makes
`finish_layer_capture` look into the right buffer, and `FaultInv`, that without a
fault everything so far is marked, gives `RefusesForAReason`.

`OneAccelerator` says that the two devices of a placement are the same, or that
one of them is the host. It is a hypothesis of the three theorems and not an
assumption of the model, and `starvla_devices` shows that they are false
without it: with two GPUs the one buffer is freed by the second.

`ModelFactoryProofs` adds the engine around the bridge. `StageInv` ties the
bridge's call to the prediction that is under way, `HeadInv` says that a graph
whose size is noted was built whole for that size (a build that failed notes no
size), and `ComputeInv` that all inputs were written. That the noted size of
0 fits no call needs that a call has a token (`PromptHasTokens`, through
`ReplaceAll`, which the proof follows token by token) and that an OFT call has
a query (`HeadTokensPositive`).

`QueriesAreTheEngines` follows the prompt from the suffix outwards: `Ending` says
where the queries are, that what is put in front moves them (`PutInFront`) and that
what the template has behind the last `{instruction}` (`ReplaceAllEnds`) and the
chat's last word are no queries. The last action tokens of such a prompt are its
queries (`QueriesFound`), and `PromptInv` says that the bridge searches that prompt.
`NoQueriesAfterTask` is needed: `build_oft_instruction` takes a template that has an
action token behind the instruction, and the engine would take it for a query.

### The arguments about the pure parts

The source computes with floating-point numbers. Where only a comparison depends on
them, the models compare fractions, multiplied out; the scaling of actions and the
penalty are rounded (`FloatArithmetic`). The proofs are therefore about products and
quotients of integers, and this part of `ModelFactoryProofs` begins with a lemma for
each fact about them (the provers do not multiply two variables). The lemmas on
rounding follow: a nearest float exists; two that are equally near are next to each
other, so that one of them is even, and a third there is not (`Midway`); hence `Round` is a
nearest float (`RoundIsNearest`), keeps the bounds that are floats (`RoundAtLeast`,
`RoundAtMost`), and changes a number of steps by one part in `Precision`
(`RoundIsClose`). Nothing else is used of floats.

* `EveryResizeWithinBudget`: the two candidates for a side are a least or a
  greatest number whose square is within a bound. That they exist, and that the
  product of the two sides keeps the bound, follows from comparing squares.
* `EveryWindowInside`: both ends of a window are roundings of the same centre, less
  and plus the support, and are cut at the edges of the image.
* `EveryBinMatchesNumpy`: the edges that a value has reached are an interval from the
  first, so that counting them and finding the last one agree.
* `ActionsStayInQuantiles`: a clipped output is between -1 and 1, so that what it is
  scaled to is between 0 and the width of the quantiles, as rounded
  (`ShareIsPart`, `PartIsWithin`). The sum with the lower quantile is not below it, and
  exceeds the upper one by the rounding of the width and by its own (`WidthIsClose`,
  `SumIsBetween`). One output that is not a number refuses them all, and
  a column's quantiles are numbers because the configuration was accepted.
* `NoPenaltyRewards`: a best token exists (by induction over the row), and a
  penalty of at least 1 raises no score, below 0 included: the exact result is not
  above the score, the score is a float, and rounding does not pass a float.
* `EveryTextDecodesAlike`: comparing the first two bytes of a character with their
  ranges is the same as comparing its value with those of the surrogates, of the
  shorter forms and of the last character (`WholeCharacter`, lengths one to four
  apart). Both decoders run to the end of the text, so the proof goes from the end
  to the front: both go on at the same place behind what is a character
  (`LossyIs`), and a replacement that is put stays (`ReplacementStays`).

### The argument about the protocol

`ProtocolProofs` has no steps and no invariant: it is about what the encoders and
decoders of `Protocol` compute, for every number of values a byte may have (256
included), every payload, and every message whose numbers and sizes have the
widths of their fields (`FittingRequests`, `FittingResponses`: a `uint32_t` for
counts, sizes and the bits of a float, a `uint64_t` for the size of an image and a
duration). Nothing else is asked of a message: images may be invalid, floats not
finite, shapes wrong.

* A number: its bytes are the remainders of repeated division (`PutIs`), and reading
  undoes a division with each byte (`ReadsAreQuotients`). So a number is read at a
  place exactly when its bytes are there (`NumberAt`).
* A text: a payload has texts that were put one behind another exactly when it has
  each of them at the sum of the lengths before it (`Pieces`), which is how the
  decoders compute where to read.
* A message: a payload is the encoding of a request, or of a response, exactly when
  the decoder finds the request's parts where it looks for them and nothing behind
  (`RequestLayout`, `ResponseLayout`). From left to right, this says that a message
  survives (`EveryRequestSurvives`, `EveryResponseSurvives`); from right to left,
  that a payload which is accepted is the encoding of what was read
  (`EveryDecodingIsExact`).
* The clients: both go through the metrics and refuse an answer at the first one that
  is cut short, or at the end if bytes are missing or left over.
  `ClientsAlwaysAgree` needs that once a metric is cut short, everything behind it
  is behind the payload, so that neither takes later bytes for what it lacks. What is
  left is a metric without a name, which C++ refuses and Python takes, and what Python
  makes of the names: decoding goes from the end of a name to its front, it keeps a
  name that is text (`TextIsKept`), since no character begins another one, and makes
  nothing only of nothing (`OnlyNothingIsEmpty`).

`ResponseSurvives` says what Python makes of an answer and not only that it is
accepted: the shape, the actions, and the last duration of each name as Python reads it.

### Assumptions, and what is left to TLC

The assumptions are those of the constants: `AsksAssumption`,
`CallsAssumption`, `SigPipeAssumption`, `LengthAssumption`, `SizeAssumption`,
`Pi0Assumption`, those of `ControlLoop`, `ByteAssumption` (a byte has more than one
value), `CharacterAssumption` (no character begins another one, as in UTF-8), and for
StarVLA `FloatAssumption` (0, 1 and 2 are floats, the negative of a float is one, of two next
to each other one is even, and in the range of the finite floats one is near
every number), `BridgeAssumption`,
`HeadAssumption`, `EngineAssumption` and `TextAssumption`, which say that sizes
are numbers that are not 0, that a head has no more blocks than the model has layers, and
that a task and a template are text.

The library's induction theorems take an operator as a parameter, which the
installed provers cannot instantiate. `SetInduction` states induction over the
numbers with a set in place of the operator, derived from the well-foundedness
of `<`. What the recursive functions of the models compute, such as encoders and
decoders, is proved through it: that a function with the recursion's equations
exists, and so is the one that the definition chooses.

These stay with TLC:

* Liveness (`EveryCallReturns`, `ShutdownStops`, `LoadingEnds`): out of the prover's
  reach, as is `ENABLED`.
* `ReleasedInOrder` and `NothingLeaks`: `EngineLoading` has no parameter but its
  nine engines, and TLC visits every state of them.

## Plan

In this order; the first nine entries are done.

1. `ModelServer` with `PolicyService`; safety, liveness, proofs.
2. `SmolVLAEngine`; provenance and life of its caches, proofs.
3. `ControlLoop`.
4. `Pi0Engine` with `Predictor`; the prefix cache, refinement, proofs.
5. `Protocol`, checked against itself and Python over bounded inputs.
6. `EngineLoading`: the GGUF loader, backends, and loading and freeing of every
   engine, with a failure after every acquisition.
7. `StarVLAEngine` on `QwenBridge` and `ActionHead`, with its pure parts, and
   `ModelFactory`, which composes it with loading.
8. Theorems about every component with state: the bridge and the StarVLA engine
   with its refinement, `ControlLoop`, the refinement of `PolicyService`.
9. Theorems about the pure parts and the protocol, for inputs of any size.
10. `ServerLauncher`: the LIBERO launcher with the server's life, if it can be
   checked together with a run that is there.

## Not modelled

The numerical content of the models; images beyond their sizes, and cameras; the
noise generators and the positions of tokens; the inverse cosine transform of
FAST; which backend is chosen and which tensors are read; the launcher of the
evaluations and the evaluations themselves; the offline tools; `model-cli` (one
predict per process); examples, scripts and third-party code.
The reason for each part is its note in `PROJECT.json`.
