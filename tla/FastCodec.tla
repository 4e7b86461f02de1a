----------------------------- MODULE FastCodec -----------------------------
(***************************************************************************)
(* The codec of the FAST policy: from the tokens a language model writes   *)
(* to the coefficients of an action's cosine transform                     *)
(* (src/models/starvla/fast_codec.cpp).  A FAST token stands for a piece   *)
(* of text kept as bytes, the pieces of a sequence are joined, and the     *)
(* code points of the text are the coefficients.  A piece may end in the   *)
(* middle of a character, so the decoder of the joined text must never     *)
(* fail and must lose nothing that is text.  Bytes, characters and token   *)
(* numbers are modelled exactly; the transform is left out.                *)
(***************************************************************************)
EXTENDS Naturals, Sequences, FiniteSets

Byte == 0 .. 255
Replacement == 65533    \* U+FFFD

---------------------------------------------------------------------------
(* UTF-8                                                                   *)

(* Bytes of the character that starts with b, 0 if none does.              *)
Length(b) == CASE b \in 0 .. 127   -> 1
               [] b \in 194 .. 223 -> 2
               [] b \in 224 .. 239 -> 3
               [] b \in 240 .. 244 -> 4
               [] OTHER            -> 0

Continuation(b) == b \in 128 .. 191

(* The character of length bytes at i, its lead reduced to its own bits.   *)
Value(bytes, i, length) ==
    LET lead == CASE length = 1 -> bytes[i]
                  [] length = 2 -> bytes[i] % 32
                  [] length = 3 -> bytes[i] % 16
                  [] length = 4 -> bytes[i] % 8
        upTo[j \in 0 .. length - 1] ==
            IF j = 0 THEN lead ELSE upTo[j - 1] * 64 + (bytes[i + j] % 64)
    IN  upTo[length - 1]

Overlong(value, length) ==
    \/ length = 2 /\ value < 128
    \/ length = 3 /\ value < 2048
    \/ length = 4 /\ value < 65536

Scalar(value) == value <= 1114111 /\ value \notin 55296 .. 57343

(* Whether decode_utf8_strict accepts the character at i.                  *)
StrictAt(bytes, i) ==
    LET length == Length(bytes[i]) IN
    /\ length > 0
    /\ i + length - 1 <= Len(bytes)
    /\ \A j \in 1 .. length - 1 : Continuation(bytes[i + j])
    /\ Scalar(Value(bytes, i, length))
    /\ ~Overlong(Value(bytes, i, length), length)

Invalid == [ok |-> FALSE, points |-> <<>>]

(* decode_utf8_strict, for the pieces of the vocabulary: one bad character *)
(* refuses the piece.                                                      *)
Strict(bytes) ==
    LET from[i \in 1 .. Len(bytes) + 1] ==
            IF i > Len(bytes) THEN [ok |-> TRUE, points |-> <<>>]
            ELSE IF ~StrictAt(bytes, i) THEN Invalid
            ELSE LET length == Length(bytes[i])
                     rest == from[i + length]
                 IN  IF ~rest.ok THEN Invalid
                     ELSE [ok |-> TRUE,
                           points |-> <<Value(bytes, i, length)>>
                                          \o rest.points]
    IN  from[1]

(* Mutant: the surrogates are decoded like any other value.                *)
SecondInRangeSurrogates(first, second) ==
    /\ ~(first = 224 /\ second < 160)
    /\ ~(first = 240 /\ second < 144)
    /\ ~(first = 244 /\ second > 143)

(* The lossy decoder compares the first two bytes instead of the value.    *)
SecondInRange(first, second) ==
    /\ ~(first = 224 /\ second < 160)
    /\ ~(first = 237 /\ second > 159)
    /\ ~(first = 240 /\ second < 144)
    /\ ~(first = 244 /\ second > 143)

Continues(bytes, i, j) ==
    /\ i + j <= Len(bytes)
    /\ Continuation(bytes[i + j])
    /\ j = 1 => SecondInRange(bytes[i], bytes[i + 1])

(* One round of decode_utf8_lossy: the character at i, or a replacement    *)
(* for as many of its bytes as were right, and where to go on.             *)
LossyAt(bytes, i) ==
    LET length == Length(bytes[i])
        wrong == {j \in 1 .. length - 1 : ~Continues(bytes, i, j)}
        first == CHOOSE j \in wrong : \A k \in wrong : j <= k
    IN  IF length = 0
        THEN [point |-> Replacement, next |-> i + 1]
        ELSE IF wrong = {}
        THEN [point |-> Value(bytes, i, length), next |-> i + length]
        ELSE [point |-> Replacement, next |-> i + first]

(* decode_utf8_lossy, for the joined text.                                 *)
Lossy(bytes) ==
    LET from[i \in 1 .. Len(bytes) + 1] ==
            IF i > Len(bytes) THEN <<>>
            ELSE <<LossyAt(bytes, i).point>> \o from[LossyAt(bytes, i).next]
    IN  from[1]

---------------------------------------------------------------------------
(* The vocabulary                                                          *)

(* Bytes that a piece shows as the character of the same number.           *)
Direct == (33 .. 126) \cup (161 .. 172) \cup (174 .. 255)

(* byte_level_inverse_alphabet: the other bytes are numbered from 256.     *)
InverseAlphabet ==
    LET shown(b) ==
            IF b \in Direct THEN b
            ELSE 256 + Cardinality({c \in Byte \ Direct : c < b})
        points == {shown(b) : b \in Byte}
    IN  [p \in points |-> CHOOSE b \in Byte : shown(b) = p]

(* compile_token_bytes, for one piece.                                     *)
CompilePiece(piece) ==
    LET text == Strict(piece)
        known == \A i \in 1 .. Len(text.points) :
                     text.points[i] \in DOMAIN InverseAlphabet
    IN  IF piece = <<>> \/ ~text.ok \/ ~known THEN Invalid
        ELSE [ok |-> TRUE,
              points |-> [i \in 1 .. Len(text.points) |->
                              InverseAlphabet[text.points[i]]]]

(* checked_action_count                                                    *)
ActionCountFits(vocab_size, horizon, action_dim, batch) ==
    /\ vocab_size <= 65536
    /\ horizon <= 1024
    /\ action_dim <= 1024
    /\ batch \in 1 .. 1024
    /\ batch <= 16777216 \div (horizon * action_dim)
    /\ horizon <= 67108864 \div horizon
    /\ action_dim <= 67108864 \div (horizon * horizon)
    /\ batch <= 67108864 \div (horizon * horizon * action_dim)

UniqueTokens(vlm_id) ==
    \A i, j \in 1 .. Len(vlm_id) : i # j => vlm_id[i] # vlm_id[j]

(* create_compiled: the pieces are cut out of one array of bytes at        *)
(* offsets that start at 0, end at its size and strictly increase.         *)
CompiledIsValid(offsets, bytes, vlm_id, horizon, action_dim) ==
    LET vocab_size == Len(vlm_id) IN
    /\ vocab_size > 0 /\ horizon > 0 /\ action_dim > 0
    /\ Len(offsets) = vocab_size + 1
    /\ offsets[1] = 0
    /\ offsets[vocab_size + 1] = Len(bytes)
    /\ ActionCountFits(vocab_size, horizon, action_dim, 1)
    /\ UniqueTokens(vlm_id)
    /\ \A i \in 1 .. vocab_size : offsets[i] < offsets[i + 1]

Pieces(offsets, bytes) ==
    [i \in 1 .. Len(offsets) - 1 |->
        SubSeq(bytes, offsets[i] + 1, offsets[i + 1])]

---------------------------------------------------------------------------
(* Decoding                                                                *)

(* extract_fast_tokens: what is no action token is skipped.                *)
ExtractFastTokens(generated, vlm_id) ==
    LET action == SelectSeq(generated,
                            LAMBDA t : \E f \in 1 .. Len(vlm_id) :
                                           vlm_id[f] = t)
    IN  [i \in 1 .. Len(action) |->
            CHOOSE f \in 1 .. Len(vlm_id) : vlm_id[f] = action[i]]

(* byte_level_decode: the pieces are joined before they are decoded.       *)
ByteLevelDecode(fast_ids, pieces) ==
    LET joined[n \in 0 .. Len(fast_ids)] ==
            IF n = 0 THEN <<>> ELSE joined[n - 1] \o pieces[fast_ids[n]]
    IN  Lossy(joined[Len(fast_ids)])

(* decode_fast_tokens: there must be one coefficient for each frequency    *)
(* and each action column; a column takes every action_dim-th of them.     *)
DecodeFastTokens(fast_ids, pieces, horizon, action_dim) ==
    LET points == ByteLevelDecode(fast_ids, pieces) IN
    IF Len(points) # horizon * action_dim THEN [ok |-> FALSE]
    ELSE [ok |-> TRUE,
          columns |-> [a \in 1 .. action_dim |->
                         [f \in 1 .. horizon |->
                             points[(f - 1) * action_dim + a]]]]

---------------------------------------------------------------------------
(* Properties                                                              *)

(* Two decoders of the same format are written side by side in             *)
(* fast_codec.cpp, one that checks the value of a character and one that   *)
(* compares its first two bytes.  They agree on what is text: what the     *)
(* strict one accepts, the lossy one reads the same way, and in what the   *)
(* strict one refuses, the lossy one leaves a replacement.                 *)
DecodersAgreeOn(bytes) ==
    IF Strict(bytes).ok
    THEN Lossy(bytes) = Strict(bytes).points
    ELSE \E i \in 1 .. Len(Lossy(bytes)) : Lossy(bytes)[i] = Replacement
=============================================================================
