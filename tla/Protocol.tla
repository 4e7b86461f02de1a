------------------------------ MODULE Protocol ------------------------------
(***************************************************************************)
(* The payloads of a predict call and of its answer                        *)
(* (src/robot_server/protocol.cpp, used by the server and the C++ client,  *)
(* and src/robot_client/python/model_client.py). A payload is a sequence of*)
(* bytes: numbers of fixed size, little end first, then what they are the  *)
(* lengths of.  Every layout is modelled to the byte; only the number of   *)
(* values of a byte is a constant, so that a width that wraps in the code's*)
(* 32 bits is small enough to be checked.  A float is its bits, and one    *)
(* that is no finite number has the largest value in its last byte.        *)
(***************************************************************************)
EXTENDS Naturals, Sequences, SequencesExt

CONSTANTS
    ByteValues,     \* values of a byte
    Characters,     \* the characters a text can have, each as its bytes
    Replacement     \* the character Python puts where there is none

ASSUME ByteAssumption == ByteValues \in Nat /\ ByteValues > 1

(* As in UTF-8, no character is the beginning of another one.              *)
ASSUME CharacterAssumption ==
    /\ Characters \subseteq Seq(0 .. ByteValues - 1) \ {<<>>}
    /\ \A c, d \in Characters : IsPrefix(c, d) => c = d
    /\ Replacement \in Characters

(* Values of a uint32_t.                                                   *)
Word == ByteValues * ByteValues * ByteValues * ByteValues

---------------------------------------------------------------------------
(* Numbers                                                                 *)

(* put_u32, put_u64, put_f32, put_f64: a number in so many bytes.          *)
Put(size, n) ==
    LET rest[i \in 0 .. size] == IF i = 0 THEN n
                                 ELSE rest[i - 1] \div ByteValues
    IN  [i \in 1 .. size |-> rest[i - 1] % ByteValues]

PutAll(size, numbers) ==
    FlattenSeq([i \in 1 .. Len(numbers) |-> Put(size, numbers[i])])

(* The reader: the number of so many bytes behind position at.             *)
Get(payload, at, size) ==
    LET from[i \in 0 .. size] ==
            IF i = size THEN 0
            ELSE payload[at + i + 1] + ByteValues * from[i + 1]
    IN  from[0]

GetAll(payload, at, size, count) ==
    [i \in 1 .. count |-> Get(payload, at + (i - 1) * size, size)]

Cut(payload, at, length) == SubSeq(payload, at + 1, at + length)

Finite(float) == float \div (Word \div ByteValues) # ByteValues - 1

AllFinite(floats) == \A i \in 1 .. Len(floats) : Finite(floats[i])

(* checked_u32_count                                                       *)
CountFits(seq) == Len(seq) < Word

Refused == [ok |-> FALSE]

Payload(bytes) == [ok |-> TRUE, payload |-> bytes]

(* Mutant: bytes behind the message are not looked at.                     *)
EndsBefore(payload, at) == at <= Len(payload)

(* A message is as long as its payload.                                    *)
EndsAt(payload, at) == at = Len(payload)

---------------------------------------------------------------------------
(* A request                                                               *)

RawRGB == 1     \* image_raw_rgb_u8

(* The width times the channels, in 32 bits.                               *)
RowBytes(image) == (image.width * image.channels) % Word

(* A stride of 0 stands for rows without a gap.                            *)
Stride(image) == IF image.stride = 0 THEN RowBytes(image) ELSE image.stride

(* validate_image_payload                                                  *)
ImageIsValid(image) ==
    /\ image.format = RawRGB
    /\ image.width # 0 /\ image.height # 0 /\ image.channels = 3
    /\ image.data # <<>>
    /\ Stride(image) >= RowBytes(image)
    /\ Len(image.data) >= Stride(image) * image.height
    /\ CountFits(image.name)

(* What goes before the data of an image: six words and its size.          *)
ImageFields(image) ==
    PutAll(4, <<image.format, Len(image.name), image.width, image.height,
                image.channels, image.stride>>)
        \o Put(8, Len(image.data))

ImageFieldsSize == 32

ImageBytes(image) == image.name \o image.data

RequestBytes(request) ==
    LET each(Bytes(_)) ==
            FlattenSeq([i \in 1 .. Len(request.images) |->
                            Bytes(request.images[i])])
    IN  PutAll(4, <<Len(request.images), Len(request.state),
                    Len(request.noise), Len(request.task)>>)
            \o each(ImageFields)
            \o PutAll(4, request.state)
            \o PutAll(4, request.noise)
            \o request.task
            \o each(ImageBytes)

(* encode_predict_request                                                  *)
EncodeRequest(request) ==
    IF /\ request.images # <<>>
       /\ CountFits(request.images) /\ CountFits(request.task)
       /\ CountFits(request.state) /\ CountFits(request.noise)
       /\ AllFinite(request.state \o request.noise)
       /\ \A i \in 1 .. Len(request.images) :
             ImageIsValid(request.images[i])
    THEN Payload(RequestBytes(request))
    ELSE Refused

(* encode_predict_observation in Python: rows without a gap unless the     *)
(* observation says otherwise, and no check of sizes or numbers.           *)
PythonEncode(request) ==
    IF request.images = <<>> THEN Refused
    ELSE Payload(RequestBytes(request))

---------------------------------------------------------------------------
(* decode_predict_request                                                  *)

RequestFixed == 16

ImageCount(payload) == Get(payload, 0, 4)
StateDim(payload) == Get(payload, 4, 4)
NoiseDim(payload) == Get(payload, 8, 4)
TaskLength(payload) == Get(payload, 12, 4)

(* The fixed part is there, and as many images as it says.                 *)
HasImageFields(payload) ==
    /\ Len(payload) >= RequestFixed
    /\ ImageCount(payload) # 0
    /\ ImageCount(payload) <=
          (Len(payload) - RequestFixed) \div ImageFieldsSize

ImageField(payload, i, field) ==
    Get(payload, RequestFixed + (i - 1) * ImageFieldsSize + 4 * (field - 1),
        IF field = 7 THEN 8 ELSE 4)

FieldsAreValid(payload) ==
    \A i \in 1 .. ImageCount(payload) :
        /\ ImageField(payload, i, 1) = RawRGB
        /\ ImageField(payload, i, 3) # 0
        /\ ImageField(payload, i, 4) # 0
        /\ ImageField(payload, i, 5) = 3

(* Mutant: the noise comes before the state.                               *)
StateAfterNoise(payload) ==
    RequestFixed + ImageCount(payload) * ImageFieldsSize
        + 4 * NoiseDim(payload)

StateAt(payload) ==
    RequestFixed + ImageCount(payload) * ImageFieldsSize

NoiseAt(payload) == StateAt(payload) + 4 * StateDim(payload)
TaskAt(payload) == NoiseAt(payload) + 4 * NoiseDim(payload)

(* Where the name of image i is; of the one behind the last, the end.      *)
ImageAt(payload, i) ==
    LET at[k \in 1 .. i] ==
            IF k = 1 THEN TaskAt(payload) + TaskLength(payload)
            ELSE at[k - 1] + ImageField(payload, k - 1, 2)
                           + ImageField(payload, k - 1, 7)
    IN  at[i]

ImageFrom(payload, i) ==
    LET name == ImageField(payload, i, 2)
        at == ImageAt(payload, i)
    IN  [format |-> RawRGB,
         width |-> ImageField(payload, i, 3),
         height |-> ImageField(payload, i, 4),
         channels |-> ImageField(payload, i, 5),
         stride |-> ImageField(payload, i, 6),
         name |-> Cut(payload, at, name),
         data |-> Cut(payload, at + name, ImageField(payload, i, 7))]

(* Reading stops at the first field that is not there; sizes are kept in   *)
(* 64 bits and compared with what remains, so that none wraps.             *)
DecodeRequest(payload) ==
    IF ~HasImageFields(payload) THEN Refused
    ELSE IF ~FieldsAreValid(payload) THEN Refused
    ELSE IF ~EndsAt(payload, ImageAt(payload, ImageCount(payload) + 1))
    THEN Refused
    ELSE LET request ==
                [images |-> [i \in 1 .. ImageCount(payload) |->
                                ImageFrom(payload, i)],
                 state |-> GetAll(payload, StateAt(payload), 4,
                                  StateDim(payload)),
                 noise |-> GetAll(payload, NoiseAt(payload), 4,
                                  NoiseDim(payload)),
                 task |-> Cut(payload, TaskAt(payload),
                              TaskLength(payload))]
         IN  IF /\ AllFinite(request.state \o request.noise)
                /\ \A i \in 1 .. Len(request.images) :
                      ImageIsValid(request.images[i])
             THEN [ok |-> TRUE, message |-> request]
             ELSE Refused

---------------------------------------------------------------------------
(* A response                                                              *)

MetricFixed == 12

MetricBytes(metric) ==
    Put(4, Len(metric.name)) \o Put(8, metric.value) \o metric.name

(* encode_predict_response                                                 *)
EncodeResponse(response) ==
    LET metrics == response.metrics
    IN  IF /\ response.chunk_size * response.action_dim
                 = Len(response.actions)
           /\ CountFits(response.actions) /\ CountFits(metrics)
           /\ \A i \in 1 .. Len(metrics) :
                 metrics[i].name # <<>> /\ CountFits(metrics[i].name)
        THEN Payload(
                PutAll(4, <<response.chunk_size, response.action_dim,
                            Len(response.actions), Len(metrics)>>)
                \o FlattenSeq([i \in 1 .. Len(metrics) |->
                                  MetricBytes(metrics[i])])
                \o PutAll(4, response.actions))
        ELSE Refused

ResponseFixed == 16

ActionCount(payload) == Get(payload, 8, 4)
MetricCount(payload) == Get(payload, 12, 4)

(* Mutant: the value of a metric is taken for one of four bytes.           *)
MetricEndWithFloat(payload, at) ==
    IF at + 8 > Len(payload) THEN Len(payload) + 1
    ELSE at + 8 + Get(payload, at, 4)

(* Where the metric at a position ends: behind the payload when it is cut  *)
(* short.                                                                  *)
MetricEnd(payload, at) ==
    IF at + MetricFixed > Len(payload) THEN Len(payload) + 1
    ELSE at + MetricFixed + Get(payload, at, 4)

(* Where metric i is; of the one behind the last, where the actions are.   *)
MetricAt(payload, i) ==
    LET at[k \in 1 .. i] == IF k = 1 THEN ResponseFixed
                            ELSE MetricEnd(payload, at[k - 1])
    IN  at[i]

ShapeIsRight(payload) ==
    /\ Len(payload) >= ResponseFixed
    /\ Get(payload, 0, 4) * Get(payload, 4, 4) = ActionCount(payload)

Metrics(payload) ==
    [i \in 1 .. MetricCount(payload) |->
        LET at == MetricAt(payload, i)
        IN  [name |-> Cut(payload, at + MetricFixed, Get(payload, at, 4)),
             value |-> Get(payload, at + 4, 8)]]

Actions(payload) ==
    GetAll(payload, MetricAt(payload, MetricCount(payload) + 1), 4,
           ActionCount(payload))

ActionsEnd(payload) ==
    MetricAt(payload, MetricCount(payload) + 1) + 4 * ActionCount(payload)

(* decode_predict_response                                                 *)
DecodeResponse(payload) ==
    IF ~ShapeIsRight(payload) THEN Refused
    ELSE IF ~EndsAt(payload, ActionsEnd(payload)) THEN Refused
    ELSE IF \E i \in 1 .. MetricCount(payload) :
                Metrics(payload)[i].name = <<>>
    THEN Refused
    ELSE [ok |-> TRUE,
          message |-> [chunk_size |-> Get(payload, 0, 4),
                       action_dim |-> Get(payload, 4, 4),
                       actions |-> Actions(payload),
                       metrics |-> Metrics(payload)]]

From(bytes, i) == SubSeq(bytes, i, Len(bytes))

(* What Python reads at a position, and where it goes on: a character, or  *)
(* a replacement for as many bytes as a character could begin with, but at *)
(* least one.                                                              *)
CharacterAt(bytes, i) ==
    LET here == {c \in Characters : IsPrefix(c, From(bytes, i))}
        begun == {n \in 1 .. Len(From(bytes, i)) :
                     \E c \in Characters : IsPrefix(Cut(bytes, i - 1, n), c)}
    IN  IF here # {}
        THEN LET c == CHOOSE c \in here : TRUE
             IN  [character |-> c, next |-> i + Len(c)]
        ELSE [character |-> Replacement, next |-> i + Max({1} \cup begun)]

(* Mutant: what is no text is left out.                                    *)
PythonTextIgnoring(bytes) ==
    LET from[i \in 1 .. Len(bytes) + 1] ==
            IF i > Len(bytes) THEN <<>>
            ELSE LET at == CharacterAt(bytes, i)
                 IN  IF IsPrefix(at.character, From(bytes, i))
                     THEN at.character \o from[at.next]
                     ELSE from[at.next]
    IN  from[1]

(* bytes.decode with errors="replace"; the text as the bytes it encodes to.*)
PythonText(bytes) ==
    LET from[i \in 1 .. Len(bytes) + 1] ==
            IF i > Len(bytes) THEN <<>>
            ELSE CharacterAt(bytes, i).character
                    \o from[CharacterAt(bytes, i).next]
    IN  from[1]

(* Python's dictionary keeps the last metric of those whose names it reads *)
(* as the same text.                                                       *)
Timings(metrics) ==
    LET text(i) == PythonText(metrics[i].name)
        last(name) == CHOOSE i \in 1 .. Len(metrics) :
                          /\ text(i) = name
                          /\ \A k \in i + 1 .. Len(metrics) : text(k) # name
    IN  [name \in {text(i) : i \in 1 .. Len(metrics)} |->
            metrics[last(name)].value]

PythonEnds(payload, at) == at = Len(payload)

(* decode_predict_response in Python                                       *)
PythonDecode(payload) ==
    IF ~ShapeIsRight(payload) THEN Refused
    ELSE IF ~PythonEnds(payload, ActionsEnd(payload)) THEN Refused
    ELSE [ok |-> TRUE,
          message |-> [chunk_size |-> Get(payload, 0, 4),
                       action_dim |-> Get(payload, 4, 4),
                       actions |-> Actions(payload),
                       timings |-> Timings(Metrics(payload))]]

---------------------------------------------------------------------------
(* Properties                                                              *)

(* What a client in C++ sends is what the server reads; Python sends the   *)
(* same bytes; and what C++ would not have sent, the server refuses when   *)
(* Python sends it.                                                        *)
RequestSurvives(request) ==
    LET sent == EncodeRequest(request)
        python == PythonEncode(request)
    IN  /\ sent.ok => /\ DecodeRequest(sent.payload)
                            = [ok |-> TRUE, message |-> request]
                      /\ python = sent
        /\ python.ok /\ ~sent.ok => ~DecodeRequest(python.payload).ok

(* What the server answers is what each client reads.                      *)
ResponseSurvives(response) ==
    LET sent == EncodeResponse(response)
    IN  sent.ok =>
            /\ DecodeResponse(sent.payload)
                  = [ok |-> TRUE, message |-> response]
            /\ PythonDecode(sent.payload)
                  = [ok |-> TRUE,
                     message |-> [chunk_size |-> response.chunk_size,
                                  action_dim |-> response.action_dim,
                                  actions |-> response.actions,
                                  timings |-> Timings(response.metrics)]]

(* A payload that is accepted is, byte for byte, what encoding the message *)
(* read from it gives: nothing in it is skipped, read twice or left over,  *)
(* so no damage to a length goes unnoticed.                                *)
RequestIsExact(payload) ==
    LET read == DecodeRequest(payload)
    IN  read.ok => EncodeRequest(read.message) = Payload(payload)

ResponseIsExact(payload) ==
    LET read == DecodeResponse(payload)
    IN  read.ok => EncodeResponse(read.message) = Payload(payload)

(* Bytes that are characters one behind the other.                         *)
IsText(bytes) ==
    LET from[i \in 1 .. Len(bytes) + 1] ==
            \/ i > Len(bytes)
            \/ \E c \in Characters :
                  IsPrefix(c, From(bytes, i)) /\ from[i + Len(c)]
    IN  from[1]

(* The two clients accept the same payloads, but that C++ refuses an empty *)
(* name, which Python takes.  Of what both accept they read the same shape *)
(* and actions, and Python has a timing for every text that a name of C++  *)
(* is read as, that of the last such name.  Names that are text stay apart *)
(* and as they are; others are changed and may become one.                 *)
ClientsAgreeOn(payload) ==
    LET cpp == DecodeResponse(payload)
        python == PythonDecode(payload)
        metrics == cpp.message.metrics
    IN  /\ cpp.ok <=> /\ python.ok
                      /\ <<>> \notin DOMAIN python.message.timings
        /\ cpp.ok =>
              /\ \A f \in {"chunk_size", "action_dim", "actions"} :
                    cpp.message[f] = python.message[f]
              /\ python.message.timings = Timings(metrics)
              /\ (\A i \in 1 .. Len(metrics) : IsText(metrics[i].name)) =>
                    DOMAIN python.message.timings =
                        {metrics[i].name : i \in 1 .. Len(metrics)}
=============================================================================
