--------------------------- MODULE MCModelServer ---------------------------
(* Instances of ModelServer for TLC: a patient client c1, which waits for  *)
(* every answer, an impatient one c2, which may time out or die at any     *)
(* point of a call, and in the liveness run a third to keep the one place  *)
(* of the listen queue contended.                                          *)
EXTENDS ModelServer, Protocol

CONSTANTS c1, c2, c3

SafetyAsks ==
    [c \in Clients |-> IF c = c1 THEN {"predict", "reset"}
                                 ELSE {"predict", "shutdown", "malformed"}]

LiveAsks ==
    [c \in Clients |-> CASE c = c1 -> {"health", "predict"}
                         [] c = c2 -> {"predict", "shutdown"}
                         [] c = c3 -> {"badPredict", "malformed"}]

PredictAsks == [c \in Clients |-> {"predict"}]

---------------------------------------------------------------------------
(* Instances of Protocol: bytes of two values, so that a word is below 16. *)

Bytes == 0 .. ByteValues - 1

(* Characters of one, two and three bytes; <<0>> and <<0, 1>> are none, and*)
(* are both read as a replacement.                                         *)
MCCharacters == {<<1>>, <<0, 0>>, <<0, 1, 1>>}
MCReplacement == <<0, 0>>

Image(width, height, stride, name, size) ==
    [format |-> RawRGB, width |-> width, height |-> height, channels |-> 3,
     stride |-> stride, name |-> name,
     data |-> [i \in 1 .. size |-> i % ByteValues]]

(* Rows without a gap and with one, with and without a name, too little    *)
(* data, and a width that wraps when it is multiplied by the channels.     *)
TestImages ==
    {Image(1, 1, 0, <<>>, 3), Image(1, 2, 4, <<1, 0>>, 9),
     Image(2, 1, 6, <<1>>, 6), Image(1, 1, 3, <<>>, 2),
     Image(1, 1, 2, <<>>, 3), Image(6, 1, 0, <<0>>, 2)}

(* 14 is a float that is no finite number.                                 *)
Floats == {<<>>, <<5>>, <<0, 7>>, <<14>>}

Requests ==
    [images : {<<>>} \cup {<<i>> : i \in TestImages}
                  \cup {<<i, k>> : i, k \in TestImages},
     state : Floats, noise : Floats, task : {<<>>, <<1, 1, 0>>}]

TestMetrics ==
    {<<>>} \cup
    {<<[name |-> n, value |-> 200]>> : n \in {<<>>, <<1>>, <<1, 0>>}} \cup
    {<<[name |-> <<1>>, value |-> 3], [name |-> n, value |-> 40]>> :
        n \in {<<1>>, <<0, 1>>}}

Responses ==
    {[chunk_size |-> c, action_dim |-> d, metrics |-> m,
      actions |-> [i \in 1 .. n |-> (5 * i) % Word]] :
        c \in 0 .. 2, d \in 0 .. 2, n \in {0, 1, 2, 4}, m \in TestMetrics}

(* A payload that was cut or to which two bytes were added, and then one   *)
(* byte changed.                                                           *)
Altered(payload) ==
    LET long == payload \o <<1, 0>>
    IN  UNION {{[cut EXCEPT ![i] = b] : i \in 1 .. Len(cut), b \in Bytes} :
                  cut \in {Cut(long, 0, k) : k \in 1 .. Len(long)}}

DamagedRequests ==
    {r \in Requests : /\ r.images \in {<<Image(1, 1, 0, <<>>, 3)>>,
                                       <<Image(2, 1, 6, <<1>>, 6)>>}
                      /\ r.state = <<5>> /\ r.noise = <<>>
                      /\ r.task = <<1, 1, 0>>}

DamagedResponses ==
    {r \in Responses : r.action_dim = 1 /\ EncodeResponse(r).ok}

(* The pure properties are evaluated once, in the first state.             *)
Once == pc = "loading" /\ \A k \in Call : phase[k] = "idle"

(* What a client in C++ sends is what the server reads, Python sends the   *)
(* same bytes, and what C++ would not have sent the server refuses         *)
(* (RequestSurvives): for up to two images, valid and not, with each       *)
(* mixture of numbers and texts.                                           *)
RequestsSurvive == Once => \A r \in Requests : RequestSurvives(r)

(* What the server answers is what each of the clients reads               *)
(* (ResponseSurvives): for shapes that fit the number of actions and that  *)
(* do not.                                                                 *)
ResponsesSurvive == Once => \A r \in Responses : ResponseSurvives(r)

(* A decoder accepts nothing but what encoding its result gives            *)
(* (RequestIsExact, ResponseIsExact): for messages that are cut or made    *)
(* longer at every place and changed in every byte.                        *)
DecodingIsExact ==
    Once =>
        /\ \A r \in DamagedRequests :
           \A p \in Altered(EncodeRequest(r).payload) : RequestIsExact(p)
        /\ \A r \in DamagedResponses :
           \A p \in Altered(EncodeResponse(r).payload) : ResponseIsExact(p)

(* The two clients read the same of the same bytes, as far as their ways   *)
(* to read a name allow (ClientsAgreeOn): for answers damaged in the same  *)
(* way, by which names become equal, empty or no text.                     *)
ClientsAgree ==
    Once =>
        \A r \in DamagedResponses :
        \A p \in Altered(EncodeResponse(r).payload) : ClientsAgreeOn(p)
=============================================================================
