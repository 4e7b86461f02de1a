------------------------- MODULE ModelFactoryProofs -------------------------
(***************************************************************************)
(* Proofs about the life of a StarVLA engine, for every checkpoint, prompt,*)
(* observation, placement of the layers and bound, and whatever fails: the *)
(* properties of the bridge, that a head is computed with the graph of its *)
(* own call, and that a StarVLA engine implements Predictor.  The last two *)
(* ask for one accelerator, as ConditioningIsWhole does: with two, a buffer*)
(* with outputs of the same call may be freed.                             *)
(*                                                                         *)
(* Behind them are those about the operators of StarVLA that no state      *)
(* enters, for all of their inputs: the choice of a token under a penalty, *)
(* the size an image is brought to, the windows of its resampling, the bin *)
(* of a state, the scaling of actions, and the two decoders of the text    *)
(* that a FAST policy writes.                                              *)
(***************************************************************************)
EXTENDS MCModelFactory, QwenBridgeProofs

---------------------------------------------------------------------------
(* The invariant                                                           *)

(* A StarVLA engine is there from when it is handed over until it is       *)
(* destroyed, and only then predicts.                                      *)
PhaseInv ==
    /\ engine \in Engines
    /\ variant = IF phase = "loaded" /\ engine \in StarVLA THEN engine
                 ELSE "none"
    /\ variant = "none" => pc = "idle"
    /\ pc \in {"idle", "prepare", "bridge", "compute"}
    /\ id \in 0 .. MaxRequests
    /\ result.ok \in BOOLEAN
    /\ pc # "idle" => observation \in Observations

(* The bridge works for the prediction that is under way.                  *)
StageInv ==
    /\ stage = "ready" <=> pc \in {"idle", "prepare"}
    /\ stage # "ready" =>
          /\ call.id = id
          /\ call.kind = Branch.kind
          /\ Len(call.tokens) > 0
    /\ pc = "compute" => stage = "returned" /\ answer.ok /\ variant \notin FAST

(* A graph that matches a call is the graph for the call.                  *)
HeadIsSound(h, v) ==
    /\ h = [graph |-> h.graph, token_count |-> h.token_count,
            graph_uses_state |-> h.graph_uses_state, rows |-> h.rows,
            shape |-> h.shape, inputs |-> h.inputs]
    /\ h.graph \in BOOLEAN
    /\ h.graph_uses_state \in BOOLEAN
    /\ h.graph /\ h.token_count # 0 =>
          /\ h.shape = h.token_count
          /\ "hidden" \in DOMAIN h.inputs \/ "input" \in DOMAIN h.inputs
          /\ v \notin OFT =>
                /\ h.rows = Rows(h.graph_uses_state)
                /\ "state" \in DOMAIN h.inputs <=> h.graph_uses_state

HeadInv == HeadIsSound(head, variant)

(* Before a head is computed, its graph fits and all inputs are written.   *)
ComputeInv ==
    pc = "compute" =>
        /\ Fits(HeadTokens, UsesState)
        /\ \A i \in DOMAIN head.inputs :
              /\ head.inputs[i] \in {answer.from, {id}, {}}
              /\ i \in {"hidden", "input"} => head.inputs[i] = answer.from

EngineInv ==
    BridgeInv /\ PhaseInv /\ StageInv /\ HeadInv /\ ComputeInv

---------------------------------------------------------------------------
(* The prompt                                                              *)

(* What takes the place of each token of a text.                           *)
Replaced(text, part, by) ==
    [i \in 1 .. Len(text) |-> IF text[i] = part THEN by ELSE <<text[i]>>]

(* A text into which another was put is its pieces, one behind the other.  *)
LEMMA ReplaceAllJoins ==
    ASSUME NEW text \in Seq(Int), NEW part, NEW by \in Seq(Int)
    PROVE  \E g \in [0 .. Len(text) -> Seq(Int)] :
              /\ Joins(g, Replaced(text, part, by), Len(text))
              /\ ReplaceAll(text, part, by) = g[Len(text)]
<1> DEFINE N == Len(text)
           piece == [i \in 1 .. N |->
                        IF text[i] = part THEN by ELSE <<text[i]>>]
           Is(f) == f = [i \in 0 .. N |->
                            IF i = 0 THEN <<>>
                            ELSE f[i - 1] \o (IF text[i] = part THEN by
                                              ELSE <<text[i]>>)]
           upTo == CHOOSE f : Is(f)
<1>1. N \in Nat /\ \A i \in 1 .. N : text[i] \in Int
    BY LenProperties
<1>2. piece \in [1 .. N -> Seq(Int)]
    BY <1>1
<1>3. PICK g \in [0 .. N -> Seq(Int)] : Joins(g, piece, N)
    <2> HIDE DEF piece, N
    <2>1. N \in Nat
        BY <1>1
    <2> QED BY <1>2, <2>1, Concatenations
<1> USE DEF Joins
<1>4. Is(g)
    <2> DEFINE h == [i \in 0 .. N |->
                        IF i = 0 THEN <<>>
                        ELSE g[i - 1] \o (IF text[i] = part THEN by
                                          ELSE <<text[i]>>)]
    <2>1. ASSUME NEW i \in 0 .. N
          PROVE  g[i] = h[i]
        <3>1. CASE i = 0
            BY <1>3, <3>1
        <3>2. CASE i # 0
            <4>1. i \in 1 .. N
                BY <1>1, <3>2
            <4>2. piece[i] = IF text[i] = part THEN by ELSE <<text[i]>>
                BY <4>1
            <4>3. g[i] = g[i - 1] \o piece[i]
                BY <1>3, <4>1, <3>2
            <4> QED BY <3>2, <4>1, <4>2, <4>3
        <3> QED BY <3>1, <3>2
    <2>2. g = [i \in 0 .. N |-> g[i]]
        OBVIOUS
    <2> QED BY <2>1, <2>2
<1>5. Is(upTo)
    <2> HIDE DEF Is
    <2> QED BY <1>4
<1>6. \A n \in Nat : n <= N => upTo[n] \in Seq(Int)
    <2> HIDE DEF upTo
    <2> DEFINE S == {n \in Nat : n <= N => upTo[n] \in Seq(Int)}
    <2>1. 0 \in S
        BY <1>1, <1>5, EmptySeq
    <2>2. ASSUME NEW n \in Nat, n \in S
          PROVE  n + 1 \in S
        <3> SUFFICES ASSUME n + 1 <= N PROVE upTo[n + 1] \in Seq(Int)
            OBVIOUS
        <3>1. n \in 0 .. N /\ n + 1 \in 0 .. N /\ n + 1 \in 1 .. N
              /\ n + 1 # 0 /\ n + 1 - 1 = n
            BY <1>1
        <3>2. upTo[n + 1] = upTo[n] \o piece[n + 1]
            <4>1. upTo[n + 1] =
                      upTo[n] \o (IF text[n + 1] = part THEN by
                                  ELSE <<text[n + 1]>>)
                <5> DEFINE m == n + 1
                <5>1. m \in 0 .. N
                    BY <3>1
                <5> HIDE DEF m, N
                <5>2. upTo[m] = IF m = 0 THEN <<>>
                                ELSE upTo[m - 1]
                                     \o (IF text[m] = part THEN by
                                         ELSE <<text[m]>>)
                    BY <1>5, <5>1
                <5>3. m # 0 /\ m - 1 = n
                    BY <3>1 DEF m
                <5>4. upTo[m] = upTo[n] \o (IF text[m] = part THEN by
                                            ELSE <<text[m]>>)
                    BY <5>2, <5>3
                <5> QED BY <5>4 DEF m
            <4>2. piece[n + 1] = IF text[n + 1] = part THEN by
                                 ELSE <<text[n + 1]>>
                BY <3>1
            <4> QED BY <4>1, <4>2
        <3>3. upTo[n] \in Seq(Int) /\ piece[n + 1] \in Seq(Int)
            BY <1>2, <2>2, <3>1
        <3> QED BY <3>2, <3>3, ConcatProperties
    <2>3. \A n \in Nat : n \in S
        <3> HIDE DEF S
        <3> QED BY <2>1, <2>2, Induction
    <2> QED BY <2>3
<1>7. ReplaceAll(text, part, by) = upTo[N]
    BY DEF ReplaceAll
<1>8. upTo \in [0 .. N -> Seq(Int)]
    <2>1. \A n \in 0 .. N : upTo[n] \in Seq(Int)
        <3> HIDE DEF upTo, N
        <3> QED BY <1>1, <1>6
    <2>2. upTo = [i \in 0 .. N |->
                     IF i = 0 THEN <<>>
                     ELSE upTo[i - 1] \o (IF text[i] = part THEN by
                                          ELSE <<text[i]>>)]
        <3> HIDE DEF upTo
        <3> QED BY <1>5
    <2> HIDE DEF upTo, N
    <2> QED BY <2>1, <2>2
<1>9. Joins(upTo, piece, N)
    <2> HIDE DEF upTo
    <2>1. upTo[0] = <<>>
        BY <1>1, <1>5
    <2>2. ASSUME NEW i \in 1 .. N
          PROVE  upTo[i] = upTo[i - 1] \o piece[i]
        <3>1. i \in 0 .. N /\ i # 0
            BY <1>1
        <3>2. piece[i] = IF text[i] = part THEN by ELSE <<text[i]>>
            OBVIOUS
        <3> HIDE DEF piece, N
        <3> QED BY <1>5, <3>1, <3>2
    <2> QED BY <2>1, <2>2
<1>10. piece = Replaced(text, part, by)
    BY DEF Replaced
<1> HIDE DEF upTo, piece
<1> QED
    BY <1>7, <1>8, <1>9, <1>10

(* Putting one text into another gives a text.                             *)
LEMMA ReplaceAllIsText ==
    ASSUME NEW text \in Seq(Int), NEW part, NEW by \in Seq(Int)
    PROVE  ReplaceAll(text, part, by) \in Seq(Int)
<1>1. PICK g \in [0 .. Len(text) -> Seq(Int)] :
          ReplaceAll(text, part, by) = g[Len(text)]
    BY ReplaceAllJoins
<1>2. Len(text) \in 0 .. Len(text)
    BY LenProperties
<1> QED
    BY <1>1, <1>2

(* Each token of two texts, one behind the other, is at its place.         *)
LEMMA TextBehindText ==
    ASSUME NEW s \in Seq(Int), NEW t \in Seq(Int)
    PROVE  /\ s \o t \in Seq(Int)
           /\ Len(s \o t) = Len(s) + Len(t)
           /\ \A i \in 1 .. Len(s) : (s \o t)[i] = s[i]
           /\ \A i \in 1 .. Len(t) : (s \o t)[Len(s) + i] = t[i]
<1> DEFINE n == Len(s)
           m == Len(t)
           q == s \o t
<1>1. n \in Nat /\ m \in Nat
    BY LenProperties
<1>2. /\ q \in Seq(Int) /\ Len(q) = n + m
      /\ \A i \in 1 .. n + m : q[i] = IF i <= n THEN s[i] ELSE t[i - n]
    BY ConcatProperties
<1> HIDE DEF n, m, q
<1>3. \A i \in 1 .. n : q[i] = s[i]
    BY <1>1, <1>2
<1>4. ASSUME NEW i \in 1 .. m
      PROVE  q[n + i] = t[i]
    <2> DEFINE j == n + i
    <2>1. j \in 1 .. n + m /\ ~(j <= n) /\ j - n = i
        BY <1>1
    <2> HIDE DEF j
    <2>2. q[j] = t[j - n]
        BY <1>2, <2>1
    <2> QED BY <2>1, <2>2 DEF j
<1> QED
    BY <1>2, <1>3, <1>4 DEF n, m, q

(* A word behind a text is its last token.                                 *)
LEMMA WordBehindText ==
    ASSUME NEW s \in Seq(Int)
    PROVE  /\ s \o <<Word>> \in Seq(Int)
           /\ Len(s \o <<Word>>) = Len(s) + 1
           /\ \A i \in 1 .. Len(s) : (s \o <<Word>>)[i] = s[i]
           /\ (s \o <<Word>>)[Len(s) + 1] = Word
<1> DEFINE w == <<Word>>
<1>0. w \in Seq(Int) /\ Len(w) = 1 /\ w[1] = Word
    BY TextAssumption
<1> HIDE DEF w
<1>1. /\ s \o w \in Seq(Int)
      /\ Len(s \o w) = Len(s) + Len(w)
      /\ \A i \in 1 .. Len(s) : (s \o w)[i] = s[i]
      /\ \A i \in 1 .. Len(w) : (s \o w)[Len(s) + i] = w[i]
    BY <1>0, TextBehindText
<1>2. 1 \in 1 .. Len(w)
    BY <1>0
<1>3. (s \o w)[Len(s) + 1] = w[1]
    BY <1>1, <1>2
<1> QED
    BY <1>0, <1>1, <1>3 DEF w

(* A text has behind its first l tokens what was put in, and then what the *)
(* text has behind place p.                                                *)
PutLast(r, l, by, text, p) ==
    /\ Len(r) = l + Len(by) + (Len(text) - p)
    /\ \A i \in 1 .. Len(by) : r[l + i] = by[i]
    /\ \A i \in 1 .. Len(text) - p : r[l + Len(by) + i] = text[p + i]

(* It ends in what was put in, and in what the text has behind the last    *)
(* place that it was put into.                                             *)
LEMMA ReplaceAllEnds ==
    ASSUME NEW text \in Seq(Int), NEW part, NEW by \in Seq(Int),
           NEW p \in 1 .. Len(text), text[p] = part,
           \A i \in p + 1 .. Len(text) : text[i] # part
    PROVE  \E l \in Nat : PutLast(ReplaceAll(text, part, by), l, by, text, p)
<1> DEFINE N == Len(text)
           m == Len(by)
           b == N - p
           piece == Replaced(text, part, by)
<1>1. N \in Nat /\ m \in Nat /\ b \in Nat /\ p \in 1 .. N /\ p - 1 \in 0 .. N
      /\ p \in Nat
    BY LenProperties
<1>2. PICK g \in [0 .. N -> Seq(Int)] :
          /\ Joins(g, piece, N)
          /\ ReplaceAll(text, part, by) = g[N]
    <2>1. \E g \in [0 .. Len(text) -> Seq(Int)] :
             /\ Joins(g, Replaced(text, part, by), Len(text))
             /\ ReplaceAll(text, part, by) = g[Len(text)]
        BY ONLY ReplaceAllJoins, text \in Seq(Int), by \in Seq(Int)
    <2> QED BY ONLY <2>1
<1> DEFINE l == Len(g[p - 1])
           Ends(r, k) ==
               /\ r \in Seq(Int)
               /\ Len(r) = l + m + k
               /\ \A i \in 1 .. m : r[l + i] = by[i]
               /\ \A i \in 1 .. k : r[l + m + i] = text[p + i]
           S == {k \in Nat : k <= b => Ends(g[p + k], k)}
<1>3. g[p - 1] \in Seq(Int) /\ l \in Nat
    BY <1>1, LenProperties
<1>4. 0 \in S
    <2>1. g[p] = g[p - 1] \o by
        <3>1. piece[p] = by
            BY <1>1 DEF Replaced
        <3> QED BY <1>1, <1>2, <3>1 DEF Joins
    <2>2. Ends(g[p], 0)
        <3> DEFINE t == g[p - 1]
                   r == t \o by
        <3>1. /\ r \in Seq(Int) /\ Len(r) = l + m
              /\ \A i \in 1 .. m : r[l + i] = by[i]
            BY <1>3, TextBehindText
        <3>2. \A i \in 1 .. m : r[l + i] = by[i]
            BY <3>1
        <3>3. l + m = l + m + 0 /\ 1 .. 0 = {}
            BY <1>1, <1>3
        <3>4. g[p] = r
            BY <2>1
        <3> HIDE DEF r, l, m
        <3> QED BY <3>1, <3>2, <3>3, <3>4
    <2>3. p + 0 = p
        BY <1>1
    <2> HIDE DEF Ends
    <2> QED BY <2>2, <2>3
<1>5. ASSUME NEW k \in Nat, k \in S
      PROVE  k + 1 \in S
    <2> SUFFICES ASSUME k + 1 <= b PROVE Ends(g[p + (k + 1)], k + 1)
        <3> HIDE DEF Ends
        <3> QED OBVIOUS
    <2>1. Ends(g[p + k], k)
        <3> HIDE DEF Ends, b
        <3>1. k <= b
            BY <1>1
        <3> QED BY <1>5, <3>1
    <2> DEFINE q == p + (k + 1)
               t == g[p + k]
               c == text[q]
               r == t \o <<c>>
               w == l + m + k
    <2>2. q \in 1 .. N /\ q - 1 = p + k /\ q \in p + 1 .. Len(text)
          /\ w \in Nat
        BY <1>1, <1>3
    <2>3. c \in Int /\ c # part
        BY <2>2
    <2>4. g[q] = r
        <3>1. piece[q] = <<c>>
            BY <2>2, <2>3 DEF Replaced
        <3>2. g[q] = g[q - 1] \o piece[q]
            BY <1>2, <2>2 DEF Joins
        <3> QED BY <2>2, <3>1, <3>2
    <2>5. /\ r \in Seq(Int) /\ Len(r) = w + 1
          /\ \A i \in 1 .. w + 1 : r[i] = IF i <= w THEN t[i] ELSE c
        <3>1. t \in Seq(Int) /\ Len(t) = w
            BY <2>1
        <3> HIDE DEF t, c, w
        <3>2. r \in Seq(Int) /\ Len(r) = w + 1
              /\ \A i \in 1 .. w + 1 :
                    r[i] = IF i <= w THEN t[i] ELSE <<c>>[i - w]
            BY <2>3, <3>1, ConcatProperties, SMTT(30)
        <3>3. \A i \in 1 .. w + 1 : ~(i <= w) => i - w = 1
            BY <2>2
        <3> QED BY <3>2, <3>3
    <2>6. ASSUME NEW i \in 1 .. m PROVE r[l + i] = by[i]
        <3>1. l + i \in 1 .. w + 1 /\ l + i <= w
            BY <1>1, <1>3
        <3>2. t[l + i] = by[i]
            BY <2>1
        <3> HIDE DEF r, t, c, w
        <3> QED BY <2>5, <3>1, <3>2
    <2>7. ASSUME NEW i \in 1 .. k + 1 PROVE r[l + m + i] = text[p + i]
        <3>1. CASE i = k + 1
            <4>1. l + m + i = w + 1 /\ w + 1 \in 1 .. w + 1
                  /\ ~(w + 1 <= w) /\ p + i = q
                BY <1>1, <1>3, <2>2, <3>1
            <4>2. r[w + 1] = c
                <5> HIDE DEF r, t, c, w
                <5> QED BY <2>5, <4>1
            <4> QED BY <4>1, <4>2
        <3>2. CASE i # k + 1
            <4>1. l + m + i \in 1 .. w + 1 /\ l + m + i <= w /\ i \in 1 .. k
                BY <1>1, <1>3, <3>2
            <4>2. t[l + m + i] = text[p + i]
                BY <2>1, <4>1
            <4> HIDE DEF r, t, c, w
            <4> QED BY <2>5, <4>1, <4>2
        <3> QED BY <3>1, <3>2
    <2>8. w + 1 = l + m + (k + 1)
        BY <1>1, <1>3
    <2> HIDE DEF r, w, l, m
    <2> QED BY <2>4, <2>5, <2>6, <2>7, <2>8
<1>6. Ends(g[N], b)
    <2>1. b \in S
        <3> HIDE DEF S, b
        <3> QED BY <1>1, <1>4, <1>5, Induction
    <2>2. p + b = N /\ b <= b
        BY <1>1
    <2> HIDE DEF Ends, b
    <2> QED BY <2>1, <2>2
<1>7. PutLast(g[N], l, by, text, p)
    BY <1>6 DEF PutLast
<1> QED
    BY <1>2, <1>3, <1>7

LEMMA InstructionIsText ==
    ASSUME observation \in Observations, Instruction(observation).ok
    PROVE  Instruction(observation).tokens \in Seq(Int)
<1> DEFINE task == observation.task
           words == StateWords(observation)
           stated == IF words = <<>> THEN task
                     ELSE task \o <<Word>> \o words \o <<Word>>
           suffix == ActionSuffix(ActionToken, horizon)
<1>1. /\ task \in Seq(Int) /\ cot_template \in Seq(Int)
      /\ Word \in Int /\ ActionToken \in Int /\ <<Word>> \in Seq(Int)
    BY TextAssumption
<1>2. words \in Seq(Int)
    BY <1>1, EmptySeq DEF StateWords
<1>3. stated \in Seq(Int)
    <2> HIDE DEF words, task
    <2>1. task \o <<Word>> \in Seq(Int)
        BY <1>1, ConcatProperties
    <2>2. task \o <<Word>> \o words \in Seq(Int)
        BY <1>2, <2>1, ConcatProperties
    <2>3. task \o <<Word>> \o words \o <<Word>> \in Seq(Int)
        BY <1>1, <2>2, ConcatProperties
    <2> QED BY <1>1, <2>3
<1>4. suffix \in Seq(Int)
    <2> DEFINE queries == [i \in 1 .. horizon |-> ActionToken]
    <2>1. queries \in Seq(Int)
        <3>1. queries \in [1 .. horizon -> Int]
            BY <1>1
        <3> HIDE DEF queries
        <3> QED BY <3>1, HeadAssumption, FunctionIsSequence
    <2> HIDE DEF queries
    <2>2. <<Word>> \o queries \in Seq(Int)
        BY <1>1, <2>1, ConcatProperties
    <2>3. <<Word>> \o queries \o <<Word>> \in Seq(Int)
        BY <1>1, <2>2, ConcatProperties
    <2> QED BY <2>3 DEF ActionSuffix, queries
<1>5. stated \o suffix \in Seq(Int)
    <2> HIDE DEF stated, suffix
    <2> QED BY <1>3, <1>4, ConcatProperties
<1>6. CASE variant \in OFT
    <2>1. Instruction(observation).tokens
              \in {stated \o suffix,
                   ReplaceAll(cot_template, Placeholder, stated \o suffix)}
        BY <1>6 DEF Instruction, BuildOFTInstruction, NoPrompt, Tokens
    <2> HIDE DEF stated, suffix
    <2> QED BY <1>1, <1>5, <2>1, ReplaceAllIsText
<1>7. CASE variant \notin OFT
    <2>1. Instruction(observation).tokens =
              ReplaceAll(cot_template, Placeholder, task)
        BY <1>7 DEF Instruction, BuildInstruction, NoPrompt, Tokens
    <2> QED BY <1>1, <2>1, ReplaceAllIsText
<1> QED
    BY <1>6, <1>7

LEMMA PromptHasTokens ==
    ASSUME observation \in Observations, Instruction(observation).ok,
           ImageFits(observation)
    PROVE  Len(PromptOf(observation)) \in Nat \ {0}
<1> DEFINE n == ImageTokens(ImageSize(observation), factor)
           images == [i \in 1 .. n |-> Image]
           text == Instruction(observation).tokens
<1>1. n \in Nat
    BY EngineAssumption DEF ImageFits
<1>2. images \in Seq(Int)
    <2>1. images \in [1 .. n -> Int]
        BY DEF Image
    <2> HIDE DEF images, n
    <2> QED BY <1>1, <2>1, FunctionIsSequence
<1>3. <<Word>> \in Seq(Int) /\ Len(<<Word>>) = 1
    BY TextAssumption
<1>4. text \in Seq(Int)
    BY InstructionIsText
<1> HIDE DEF images, n, text
<1>5. /\ <<Word>> \o images \in Seq(Int)
      /\ Len(<<Word>> \o images) = 1 + Len(images) /\ Len(images) \in Nat
    BY <1>2, <1>3, ConcatProperties, LenProperties
<1>6. /\ <<Word>> \o images \o text \in Seq(Int)
      /\ Len(<<Word>> \o images \o text) = 1 + Len(images) + Len(text)
      /\ Len(text) \in Nat
    BY <1>4, <1>5, ConcatProperties, LenProperties
<1>7. Len(<<Word>> \o images \o text \o <<Word>>) =
          1 + Len(images) + Len(text) + 1
    BY <1>3, <1>6, ConcatProperties
<1>8. PromptOf(observation) = <<Word>> \o images \o text \o <<Word>>
    BY DEF PromptOf, ChatPrompt, images, text, n
<1> QED
    BY <1>5, <1>6, <1>7, <1>8

---------------------------------------------------------------------------
(* The queries of OFT                                                      *)

(* A prompt has the queries behind its first l tokens, then one and b more *)
(* tokens, which are no queries.                                           *)
Ending(r, l, b) ==
    /\ r \in Seq(Int)
    /\ l \in Nat /\ b \in Nat
    /\ Len(r) = l + horizon + 1 + b
    /\ \A i \in 1 .. horizon : r[l + i] = ActionToken
    /\ \A i \in 1 .. 1 + b : r[l + horizon + i] # ActionToken

(* The suffix is one word, the queries and one word (ActionSuffix).        *)
LEMMA SuffixEnds == Ending(ActionSuffix(ActionToken, horizon), 1, 0)
<1> DEFINE queries == [i \in 1 .. horizon |-> ActionToken]
           front == <<Word>> \o queries
           r == front \o <<Word>>
           n == horizon + 1
<1>1. /\ horizon \in Nat \ {0} /\ n \in Nat
      /\ Word \in Int /\ ActionToken \in Int /\ Word # ActionToken
      /\ <<Word>> \in Seq(Int) /\ Len(<<Word>>) = 1
    BY HeadAssumption, TextAssumption
<1>2. /\ queries \in Seq(Int) /\ Len(queries) = horizon
      /\ \A i \in 1 .. horizon : queries[i] = ActionToken
    <2>1. queries \in [1 .. horizon -> Int]
        BY <1>1
    <2>2. \A i \in 1 .. horizon : queries[i] = ActionToken
        OBVIOUS
    <2> HIDE DEF queries
    <2> QED BY <1>1, <2>1, <2>2, FunctionIsSequence
<1> HIDE DEF queries
<1>3. /\ front \in Seq(Int) /\ Len(front) = n
      /\ \A i \in 1 .. horizon : front[1 + i] = ActionToken
    <2> DEFINE w == <<Word>>
    <2>1. w \in Seq(Int) /\ Len(w) = 1
        BY <1>1
    <2>2. front = w \o queries
        OBVIOUS
    <2> HIDE DEF w, front
    <2>3. /\ w \o queries \in Seq(Int)
          /\ Len(w \o queries) = Len(w) + Len(queries)
          /\ \A i \in 1 .. Len(queries) :
                (w \o queries)[Len(w) + i] = queries[i]
        BY <1>2, <2>1, TextBehindText
    <2>4. /\ front \in Seq(Int) /\ Len(front) = 1 + horizon
          /\ \A i \in 1 .. horizon : front[1 + i] = queries[i]
        BY <1>2, <2>1, <2>2, <2>3
    <2>5. 1 + horizon = n
        BY <1>1
    <2> HIDE DEF n
    <2> QED BY <1>2, <2>4, <2>5
<1> HIDE DEF front
<1>4. /\ r \in Seq(Int) /\ Len(r) = n + 1
      /\ \A i \in 1 .. n : r[i] = front[i]
      /\ r[n + 1] = Word
    <2> HIDE DEF n
    <2> QED BY <1>3, WordBehindText
<1> HIDE DEF r
<1>5. \A i \in 1 .. horizon : r[1 + i] = ActionToken
    BY <1>1, <1>3, <1>4
<1>6. r[1 + horizon + 1] = Word
    <2>1. 1 + horizon + 1 = n + 1
        BY <1>1
    <2> QED BY <1>4, <2>1
<1>7. \A i \in 1 .. 1 + 0 : r[1 + horizon + i] # ActionToken
    <2>1. \A i \in 1 .. 1 + 0 : i = 1
        OBVIOUS
    <2> QED BY <1>1, <1>6, <2>1
<1>8. Len(r) = 1 + horizon + 1 + 0 /\ 1 \in Nat /\ 0 \in Nat
    BY <1>1, <1>4
<1>9. r = ActionSuffix(ActionToken, horizon)
    BY DEF r, front, queries, ActionSuffix
<1> QED
    BY <1>4, <1>5, <1>7, <1>8, <1>9 DEF Ending

(* What is put in front of a prompt moves its queries.                     *)
LEMMA PutInFront ==
    ASSUME NEW x \in Seq(Int), NEW r, NEW l, NEW b, Ending(r, l, b)
    PROVE  Ending(x \o r, Len(x) + l, b)
<1> DEFINE n == Len(x)
           q == x \o r
           m == l + horizon + 1 + b
<1>1. /\ n \in Nat /\ l \in Nat /\ b \in Nat /\ horizon \in Nat
      /\ r \in Seq(Int) /\ Len(r) = m /\ m \in Nat
    BY LenProperties, HeadAssumption DEF Ending
<1>2. q \in Seq(Int) /\ Len(q) = n + m
    <2> HIDE DEF m
    <2> QED BY <1>1, TextBehindText
<1>3. \A k \in 1 .. m : q[n + k] = r[k]
    <2> HIDE DEF m
    <2> QED BY <1>1, TextBehindText
<1>4. \A i \in 1 .. horizon : q[n + l + i] = ActionToken
    <2> SUFFICES ASSUME NEW i \in 1 .. horizon
                 PROVE  q[n + l + i] = ActionToken
        OBVIOUS
    <2>1. l + i \in 1 .. m /\ n + (l + i) = n + l + i
        BY <1>1
    <2>2. r[l + i] = ActionToken
        BY DEF Ending
    <2> HIDE DEF n, q, m
    <2> QED BY <1>3, <2>1, <2>2
<1>5. \A i \in 1 .. 1 + b : q[n + l + horizon + i] # ActionToken
    <2> SUFFICES ASSUME NEW i \in 1 .. 1 + b
                 PROVE  q[n + l + horizon + i] # ActionToken
        OBVIOUS
    <2>1. /\ l + horizon + i \in 1 .. m
          /\ n + (l + horizon + i) = n + l + horizon + i
        BY <1>1
    <2>2. r[l + horizon + i] # ActionToken
        BY DEF Ending
    <2> HIDE DEF n, q, m
    <2> QED BY <1>3, <2>1, <2>2
<1>6. n + m = n + l + horizon + 1 + b /\ n + l \in Nat
    BY <1>1
<1> HIDE DEF n, q, m
<1>7. Ending(q, n + l, b)
    BY <1>1, <1>2, <1>4, <1>5, <1>6 DEF Ending
<1> QED
    BY <1>7 DEF n, q

(* A word behind a prompt leaves them where they are.                      *)
LEMMA PutBehind ==
    ASSUME NEW r, NEW l, NEW b, Ending(r, l, b)
    PROVE  Ending(r \o <<Word>>, l, b + 1)
<1> DEFINE q == r \o <<Word>>
           m == l + horizon + 1 + b
<1>1. /\ l \in Nat /\ b \in Nat /\ horizon \in Nat
      /\ r \in Seq(Int) /\ Len(r) = m /\ m \in Nat
      /\ Word \in Int /\ Word # ActionToken
      /\ <<Word>> \in Seq(Int) /\ Len(<<Word>>) = 1
    BY HeadAssumption, TextAssumption DEF Ending
<1>2. /\ q \in Seq(Int) /\ Len(q) = m + 1
      /\ \A k \in 1 .. m : q[k] = r[k]
      /\ q[m + 1] = Word
    <2> HIDE DEF m
    <2> QED BY <1>1, WordBehindText
<1>4. \A i \in 1 .. horizon : q[l + i] = ActionToken
    <2> SUFFICES ASSUME NEW i \in 1 .. horizon PROVE q[l + i] = ActionToken
        OBVIOUS
    <2>1. l + i \in 1 .. m
        BY <1>1
    <2>2. r[l + i] = ActionToken
        BY DEF Ending
    <2> HIDE DEF q, m
    <2> QED BY <1>2, <2>1, <2>2
<1>5. \A i \in 1 .. 1 + (b + 1) : q[l + horizon + i] # ActionToken
    <2> SUFFICES ASSUME NEW i \in 1 .. 1 + (b + 1)
                 PROVE  q[l + horizon + i] # ActionToken
        OBVIOUS
    <2>1. CASE i = b + 2
        <3>1. l + horizon + i = m + 1
            BY <1>1, <2>1
        <3> HIDE DEF q, m
        <3> QED BY <1>1, <1>2, <3>1
    <2>2. CASE i # b + 2
        <3>1. l + horizon + i \in 1 .. m /\ i \in 1 .. 1 + b
            BY <1>1, <2>2
        <3>2. r[l + horizon + i] # ActionToken
            BY <3>1 DEF Ending
        <3> HIDE DEF q, m
        <3> QED BY <1>2, <3>1, <3>2
    <2> QED BY <2>1, <2>2
<1>6. m + 1 = l + horizon + 1 + (b + 1) /\ b + 1 \in Nat
    BY <1>1
<1> HIDE DEF q, m
<1>7. Ending(q, l, b + 1)
    BY <1>1, <1>2, <1>4, <1>5, <1>6 DEF Ending
<1> QED
    BY <1>7 DEF q

(* The size of an interval, which may be empty.                            *)
LEMMA IntervalSize ==
    ASSUME NEW a \in Int, NEW b \in Int, a <= b + 1
    PROVE  /\ IsFiniteSet(a .. b)
           /\ Cardinality(a .. b) = b - a + 1
<1>1. /\ IsFiniteSet(a .. b)
      /\ Cardinality(a .. b) = IF a > b THEN 0 ELSE b - a + 1
    BY FS_Interval
<1>2. a > b => b - a + 1 = 0
    OBVIOUS
<1> QED
    BY <1>1, <1>2

(* Behind the instruction, the template has no token that reads as a       *)
(* query; build_oft_instruction does not look for one.                     *)
NoQueriesAfterTask == \A i \in AfterTask : cot_template[i] # ActionToken

(* The last placeholder of a template.                                     *)
LEMMA LastPlaceholder ==
    ASSUME cot_enabled, Holds(cot_template, Placeholder)
    PROVE  \E p \in 1 .. Len(cot_template) :
              /\ cot_template[p] = Placeholder
              /\ \A i \in p + 1 .. Len(cot_template) :
                    cot_template[i] # Placeholder
              /\ AfterTask = p + 1 .. Len(cot_template)
              /\ Cardinality(AfterTask) = Len(cot_template) - p
<1> DEFINE N == Len(cot_template)
           T == {i \in 1 .. N : cot_template[i] = Placeholder}
<1>1. N \in Nat
    BY TextAssumption, LenProperties
<1>2. T \in SUBSET (1 .. N) /\ T # {}
    BY DEF Holds
<1>3. PICK p \in T : \A i \in T : i <= p
    <2> HIDE DEF T, N
    <2> QED BY <1>1, <1>2, GreatestElement
<1>4. p \in 1 .. N /\ cot_template[p] = Placeholder
    OBVIOUS
<1>5. \A i \in p + 1 .. N : cot_template[i] # Placeholder
    <2> SUFFICES ASSUME NEW i \in p + 1 .. N, cot_template[i] = Placeholder
                 PROVE  FALSE
        OBVIOUS
    <2>1. i \in 1 .. N /\ i > p
        BY <1>1, <1>4
    <2>2. i \in T
        BY <2>1
    <2> HIDE DEF T
    <2> QED BY <1>1, <1>3, <1>4, <2>1, <2>2
<1> HIDE DEF T
<1>6. AfterTask = p + 1 .. N
    <2>1. ASSUME NEW i \in AfterTask
          PROVE  i \in p + 1 .. N
        <3>1. i \in 1 .. N
              /\ \A j \in i .. N : cot_template[j] # Placeholder
            BY DEF AfterTask
        <3>2. p \notin i .. N
            BY <1>4, <3>1
        <3> HIDE DEF N
        <3> QED BY <1>1, <1>4, <3>1, <3>2
    <2>2. ASSUME NEW i \in p + 1 .. N
          PROVE  i \in AfterTask
        <3>1. i \in 1 .. N /\ \A j \in i .. N : j \in p + 1 .. N
            BY <1>1, <1>4
        <3> QED BY <1>5, <3>1 DEF AfterTask
    <2> HIDE DEF N
    <2> QED BY <2>1, <2>2
<1>7. Cardinality(p + 1 .. N) = N - p
    <2> HIDE DEF N
    <2> DEFINE a == p + 1
    <2>1. a \in Int /\ N \in Int /\ a <= N + 1 /\ N - a + 1 = N - p
        BY <1>1, <1>4
    <2> HIDE DEF a
    <2>2. Cardinality(a .. N) = N - a + 1
        BY <2>1, IntervalSize
    <2> QED BY <2>1, <2>2 DEF a
<1> QED
    BY <1>4, <1>5, <1>6, <1>7

(* The instruction of an OFT policy ends in its queries, and in what the   *)
(* template has behind them (build_oft_instruction).                       *)
LEMMA InstructionEnds ==
    ASSUME observation \in Observations, Instruction(observation).ok,
           variant \in OFT, NoQueriesAfterTask
    PROVE  \E l \in Nat : Ending(Instruction(observation).tokens, l,
                                 Cardinality(AfterTask))
<1> DEFINE task == observation.task
           words == StateWords(observation)
           stated == IF words = <<>> THEN task
                     ELSE task \o <<Word>> \o words \o <<Word>>
           suffix == ActionSuffix(ActionToken, horizon)
           text == stated \o suffix
           n == Len(stated) + 1
<1>1. /\ task \in Seq(Int) /\ cot_template \in Seq(Int)
      /\ Word \in Int /\ <<Word>> \in Seq(Int)
    BY TextAssumption
<1>2. stated \in Seq(Int)
    <2>1. words \in Seq(Int)
        BY <1>1, EmptySeq DEF StateWords
    <2> HIDE DEF words, task
    <2>2. task \o <<Word>> \in Seq(Int)
        BY <1>1, ConcatProperties
    <2>3. task \o <<Word>> \o words \in Seq(Int)
        BY <2>1, <2>2, ConcatProperties
    <2>4. task \o <<Word>> \o words \o <<Word>> \in Seq(Int)
        BY <1>1, <2>3, ConcatProperties
    <2> QED BY <1>1, <2>4
<1>3. Ending(text, n, 0)
    <2> HIDE DEF stated, suffix
    <2>1. Ending(suffix, 1, 0)
        BY SuffixEnds DEF suffix
    <2> QED BY <1>2, <2>1, PutInFront
<1>4. n \in Nat
    BY <1>3 DEF Ending
<1>5. /\ cot_enabled => Holds(cot_template, Placeholder)
      /\ Instruction(observation).tokens =
            IF cot_enabled THEN ReplaceAll(cot_template, Placeholder, text)
            ELSE text
    BY DEF Instruction, BuildOFTInstruction, NoPrompt, Tokens
<1> HIDE DEF text, n
<1>6. CASE ~cot_enabled
    <2>1. Cardinality(AfterTask) = 0
        BY <1>6, FS_EmptySet DEF AfterTask
    <2>2. Ending(Instruction(observation).tokens, n,
                 Cardinality(AfterTask))
        BY <1>3, <1>5, <1>6, <2>1
    <2> QED BY <1>4, <2>2
<1>7. CASE cot_enabled
    <2> DEFINE N == Len(cot_template)
               r == ReplaceAll(cot_template, Placeholder, text)
    <2>1. PICK p \in 1 .. N :
              /\ cot_template[p] = Placeholder
              /\ \A i \in p + 1 .. N : cot_template[i] # Placeholder
              /\ AfterTask = p + 1 .. N
              /\ Cardinality(AfterTask) = N - p
        BY <1>5, <1>7, LastPlaceholder
    <2> DEFINE b == N - p
               m == Len(text)
    <2>2. text \in Seq(Int)
        BY <1>3 DEF Ending
    <2>0. PICK l \in Nat : PutLast(r, l, text, cot_template, p)
        <3> DEFINE template == cot_template
        <3>1. /\ template \in Seq(Int) /\ p \in 1 .. Len(template)
              /\ template[p] = Placeholder
              /\ \A i \in p + 1 .. Len(template) :
                    template[i] # Placeholder
            BY <1>1, <2>1
        <3>2. r = ReplaceAll(template, Placeholder, text)
            OBVIOUS
        <3> HIDE DEF template, r
        <3>3. \E l \in Nat : PutLast(ReplaceAll(template, Placeholder, text),
                                    l, text, template, p)
            BY <2>2, <3>1, ReplaceAllEnds
        <3> QED BY <3>2, <3>3 DEF template
    <2>3. /\ Len(r) = l + m + b
          /\ \A i \in 1 .. m : r[l + i] = text[i]
          /\ \A i \in 1 .. b : r[l + m + i] = cot_template[p + i]
        BY <2>0 DEF PutLast
    <2>4. r \in Seq(Int)
        BY <1>1, <2>2, ReplaceAllIsText
    <2>5. /\ N \in Nat /\ b \in Nat /\ horizon \in Nat
          /\ m = n + horizon + 1 + 0 /\ m \in Nat
        BY <1>1, <1>3, <2>1, LenProperties, HeadAssumption DEF Ending
    <2>6. \A i \in 1 .. b : cot_template[p + i] # ActionToken
        <3> SUFFICES ASSUME NEW i \in 1 .. b
                     PROVE  cot_template[p + i] # ActionToken
            OBVIOUS
        <3>1. p + i \in p + 1 .. N
            BY <2>1, <2>5
        <3> QED BY <2>1, <3>1 DEF NoQueriesAfterTask
    <2> HIDE DEF N, r, m, b
    <2>7. \A i \in 1 .. horizon : r[l + n + i] = ActionToken
        <3> SUFFICES ASSUME NEW i \in 1 .. horizon
                     PROVE  r[l + n + i] = ActionToken
            OBVIOUS
        <3>1. n + i \in 1 .. m /\ l + (n + i) = l + n + i
            BY <1>4, <2>5
        <3>2. text[n + i] = ActionToken
            BY <1>3 DEF Ending
        <3> QED BY <2>3, <3>1, <3>2
    <2>8. \A i \in 1 .. 1 + b : r[l + n + horizon + i] # ActionToken
        <3> SUFFICES ASSUME NEW i \in 1 .. 1 + b
                     PROVE  r[l + n + horizon + i] # ActionToken
            OBVIOUS
        <3>1. CASE i = 1
            <4>1. /\ n + horizon + 1 \in 1 .. m
                  /\ l + (n + horizon + 1) = l + n + horizon + i
                BY <1>4, <2>5, <3>1
            <4>2. text[n + horizon + 1] # ActionToken
                BY <1>3 DEF Ending
            <4> QED BY <2>3, <4>1, <4>2
        <3>2. CASE i # 1
            <4>1. i - 1 \in 1 .. b /\ l + m + (i - 1) = l + n + horizon + i
                BY <1>4, <2>5, <3>2
            <4> QED BY <2>3, <2>6, <4>1
        <3> QED BY <3>1, <3>2
    <2>9. Len(r) = l + n + horizon + 1 + b /\ l + n \in Nat
        BY <1>4, <2>3, <2>5
    <2>10. Ending(r, l + n, b)
        BY <2>4, <2>5, <2>7, <2>8, <2>9 DEF Ending
    <2>11. /\ Instruction(observation).tokens = r
           /\ Cardinality(AfterTask) = b
        BY <1>5, <1>7, <2>1 DEF r, b
    <2> QED BY <2>9, <2>10, <2>11
<1> QED
    BY <1>6, <1>7

(* So does the prompt, with one word of the chat behind it.                *)
LEMMA PromptEnds ==
    ASSUME observation \in Observations, Instruction(observation).ok,
           ImageFits(observation), variant \in OFT, NoQueriesAfterTask
    PROVE  \E l \in Nat : Ending(PromptOf(observation), l,
                                 Cardinality(AfterTask) + 1)
<1> DEFINE n == ImageTokens(ImageSize(observation), factor)
           images == [i \in 1 .. n |-> Image]
           text == Instruction(observation).tokens
           front == <<Word>> \o images
           b == Cardinality(AfterTask)
<1>1. n \in Nat
    BY EngineAssumption DEF ImageFits
<1>2. images \in Seq(Int)
    <2>1. images \in [1 .. n -> Int]
        BY DEF Image
    <2> HIDE DEF images, n
    <2> QED BY <1>1, <2>1, FunctionIsSequence
<1>3. <<Word>> \in Seq(Int)
    BY TextAssumption
<1>4. PICK l \in Nat : Ending(text, l, b)
    BY InstructionEnds
<1>5. PromptOf(observation) = <<Word>> \o images \o text \o <<Word>>
    BY DEF PromptOf, ChatPrompt
<1> HIDE DEF images, n, text, b
<1>6. front \in Seq(Int) /\ Len(front) \in Nat
    BY <1>2, <1>3, ConcatProperties, LenProperties
<1>7. Ending(front \o text, Len(front) + l, b)
    <2> HIDE DEF front
    <2> QED BY <1>4, <1>6, PutInFront
<1>8. Ending((front \o text) \o <<Word>>, Len(front) + l, b + 1)
    <2> HIDE DEF front
    <2> QED BY <1>7, PutBehind
<1>9. Len(front) + l \in Nat
    BY <1>6
<1> QED
    BY <1>5, <1>8, <1>9 DEF b

(* The last of the action tokens are found where they were put             *)
(* (find_last_token_positions).                                            *)
LEMMA QueriesFound ==
    ASSUME NEW l, NEW b, Ending(call.tokens, l, b), call.count = horizon
    PROVE  /\ Queries = l + 1 .. l + horizon
           /\ Len(call.tokens) = l + horizon + 1 + b
<1> DEFINE r == call.tokens
           n == Len(r)
           After(i) == {j \in Matches : j >= i}
<1>1. /\ l \in Nat /\ b \in Nat /\ horizon \in Nat \ {0}
      /\ n = l + horizon + 1 + b /\ n \in Nat
    BY HeadAssumption DEF Ending
<1>2. \A i \in l + 1 .. l + horizon : i \in Matches
    <2> SUFFICES ASSUME NEW i \in l + 1 .. l + horizon PROVE i \in Matches
        OBVIOUS
    <2>1. i - l \in 1 .. horizon /\ l + (i - l) = i /\ i \in 1 .. n
        BY <1>1
    <2>2. r[l + (i - l)] = ActionToken
        BY <2>1 DEF Ending
    <2> QED BY <2>1, <2>2 DEF Matches
<1>3. \A i \in Matches : i \in 1 .. l + horizon
    <2> SUFFICES ASSUME NEW i \in Matches, i > l + horizon PROVE FALSE
        BY <1>1 DEF Matches
    <2>1. i \in 1 .. n /\ r[i] = ActionToken
        BY DEF Matches
    <2> HIDE DEF n, r
    <2>2. /\ i - (l + horizon) \in 1 .. 1 + b
          /\ l + horizon + (i - (l + horizon)) = i
        BY <1>1, <2>1
    <2>3. r[l + horizon + (i - (l + horizon))] # ActionToken
        BY <2>2 DEF Ending, r
    <2> QED BY <2>1, <2>2, <2>3
<1> HIDE DEF n, r
<1>4. ASSUME NEW i \in l + 1 .. l + horizon
      PROVE  i \in Queries
    <2>1. After(i) = i .. l + horizon
        <3>1. \A j \in i .. l + horizon : j \in Matches /\ j >= i
            BY <1>1, <1>2
        <3>2. \A j \in Matches : j >= i => j \in i .. l + horizon
            BY <1>1, <1>3
        <3> QED BY <3>1, <3>2
    <2>2. Cardinality(After(i)) <= horizon
        <3> DEFINE z == l + horizon
        <3>1. /\ i \in Int /\ z \in Int /\ i <= z + 1
              /\ z - i + 1 <= horizon
            BY <1>1
        <3>2. After(i) = i .. z
            BY <2>1
        <3> HIDE DEF z, After
        <3>3. Cardinality(i .. z) = z - i + 1
            BY <3>1, IntervalSize
        <3> QED BY <3>1, <3>2, <3>3
    <2> QED BY <1>2, <2>2 DEF Queries
<1>5. ASSUME NEW i \in Queries
      PROVE  i \in l + 1 .. l + horizon
    <2>1. i \in Matches /\ Cardinality(After(i)) <= horizon
        BY DEF Queries
    <2>2. i \in 1 .. l + horizon
        BY <1>3, <2>1
    <2> SUFFICES ASSUME i <= l PROVE FALSE
        BY <1>1, <2>2
    <2> DEFINE own == l + 1 .. l + horizon
               some == own \cup {i}
    <2>3. IsFiniteSet(own) /\ Cardinality(own) = horizon
        <3> DEFINE a == l + 1
                   z == l + horizon
        <3>1. /\ a \in Int /\ z \in Int /\ a <= z + 1
              /\ z - a + 1 = horizon
            BY <1>1
        <3>2. own = a .. z
            OBVIOUS
        <3> HIDE DEF a, z, own
        <3>3. IsFiniteSet(a .. z) /\ Cardinality(a .. z) = z - a + 1
            BY <3>1, IntervalSize
        <3> QED BY <3>1, <3>2, <3>3
    <2>4. i \notin own
        BY <1>1, <2>2
    <2>5. some \in SUBSET After(i)
        <3>1. \A j \in own : j \in Matches /\ j >= i
            BY <1>1, <1>2, <2>2
        <3>2. i \in Matches /\ i >= i
            BY <2>1, <2>2
        <3> QED BY <3>1, <3>2
    <2>6. After(i) \in SUBSET (1 .. l + horizon)
        BY <1>3
    <2> HIDE DEF own, After
    <2>7. Cardinality(some) = horizon + 1
        BY <2>3, <2>4, FS_AddElement
    <2>8. IsFiniteSet(After(i)) /\ Cardinality(After(i)) \in Nat
        <3>1. l + horizon \in Nat
            BY <1>1
        <3>2. /\ IsFiniteSet(After(i))
              /\ Cardinality(After(i)) \in 0 .. l + horizon
            BY <2>6, <3>1, PartOfRange
        <3> QED BY <3>2
    <2> HIDE DEF some
    <2>9. Cardinality(some) <= Cardinality(After(i))
        BY <2>5, <2>8, FS_Subset
    <2> QED BY <1>1, <2>1, <2>7, <2>8, <2>9
<1>6. n = Len(call.tokens)
    BY DEF n, r
<1> HIDE DEF After
<1> QED
    BY <1>1, <1>4, <1>5, <1>6

---------------------------------------------------------------------------
(* The call of the bridge                                                  *)

LEMMA BranchIs ==
    ASSUME variant \in StarVLA
    PROVE  /\ variant \in OFT => Branch = OFTBranch
           /\ variant \in GR00T => Branch = GR00TBranch
           /\ variant \in PI => Branch = PIBranch
           /\ variant \in PIV3 => Branch = PIV3Branch
           /\ variant \in FAST => Branch = FASTBranch
BY DEF Branch, StarVLA, OFT, GR00T, PI, PIV3, FAST

(* The layers that PI and PI_v3 take are different ones of the model.      *)
LEMMA TuplesAreLayers ==
    ASSUME NEW tuple \in {PITupleIndices(Layers), PIV3TupleIndices(Layers)}
    PROVE  /\ Len(tuple) \in Nat \ {0}
           /\ \A s \in 1 .. Len(tuple) : tuple[s] \in 1 .. Layers
           /\ \A s, t \in 1 .. Len(tuple) : tuple[s] = tuple[t] => s = t
<1> USE BridgeAssumption, HeadAssumption, EngineAssumption
<1>1. CASE tuple = PITupleIndices(Layers)
    <2>1. tuple \in [1 .. blocks -> Nat]
        BY <1>1 DEF PITupleIndices
    <2>2. Len(tuple) = blocks
        BY <2>1, FunctionIsSequence
    <2> QED BY <1>1, <2>2 DEF PITupleIndices
<1>2. CASE tuple = PIV3TupleIndices(Layers)
    <2>1. tuple \in [1 .. Layers -> Nat]
        BY <1>2 DEF PIV3TupleIndices
    <2>2. Len(tuple) = Layers
        BY <2>1, FunctionIsSequence
    <2> QED BY <1>2, <2>2 DEF PIV3TupleIndices
<1> QED
    BY <1>1, <1>2

LEMMA EngineCallIsSound ==
    ASSUME PhaseInv, pc = "prepare", ImageFits(observation),
           Instruction(observation).ok
    PROVE  CallIsSound(id, Branch.kind, PromptOf(observation),
                       Branch.tuple_indices, Branch.count)
<1>1. variant \in StarVLA /\ observation \in Observations
    BY DEF PhaseInv
<1>2. id \in Nat
    BY EngineAssumption DEF PhaseInv
<1>3. Len(PromptOf(observation)) \in Nat
    BY <1>1, PromptHasTokens
<1>4. /\ Branch.kind \in {"generate", "tokens", "full", "layers"}
      /\ Branch.kind = "tokens" => Branch.count = horizon
      /\ Branch.kind = "layers" =>
            Branch.tuple_indices \in {PITupleIndices(Layers),
                                      PIV3TupleIndices(Layers)}
    <2>1. CASE Branch = OFTBranch
        BY <2>1 DEF OFTBranch
    <2>2. CASE Branch = GR00TBranch
        BY <2>2 DEF GR00TBranch
    <2>3. CASE Branch = PIBranch
        <3>1. /\ PIBranch.kind = "layers"
              /\ PIBranch.tuple_indices = PITupleIndices(Layers)
            BY DEF PIBranch, GR00TBranch
        <3> QED BY <2>3, <3>1
    <2>4. CASE Branch = PIV3Branch
        <3>1. /\ PIV3Branch.kind = "layers"
              /\ PIV3Branch.tuple_indices = PIV3TupleIndices(Layers)
            BY DEF PIV3Branch, GR00TBranch
        <3> QED BY <2>4, <3>1
    <2>5. CASE Branch = FASTBranch
        BY <2>5 DEF FASTBranch
    <2> QED
        BY <1>1, <2>1, <2>2, <2>3, <2>4, <2>5, BranchIs DEF StarVLA
<1>5. horizon \in Nat \ {0}
    BY HeadAssumption
<1> QED
    BY <1>2, <1>3, <1>4, <1>5, TuplesAreLayers DEF CallIsSound

(* The bridge leaves its call alone until the answer is taken.             *)
LEMMA BridgeStepFrame ==
    ASSUME BridgeStep
    PROVE  /\ UNCHANGED <<model, call>>
           /\ stage \notin {"ready", "returned"} /\ stage' # "ready"
<1>1. CASE FailPrompt \/ ReturnPrompt \/ FailGraph \/ Finish \/ FailSelect
           \/ FailExtend
    BY <1>1
    DEF FailPrompt, ReturnPrompt, FailGraph, Finish, FailSelect, FailExtend,
        Catch, Return
<1>2. CASE Submit \/ Prefill \/ Extend
    BY <1>2 DEF Submit, Prefill, Extend
<1>3. CASE Drop \/ Pass \/ Observe \/ Refuse
    BY <1>3 DEF Drop, Pass, Observe, Refuse, Running, Step
<1>4. CASE Select
    <2>1. /\ UNCHANGED <<model, call>> /\ stage = "select"
          /\ stage' \in {"returned", "extend"}
        BY <1>4 DEF Select, Return
    <2> QED BY <2>1
<1> QED
    BY <1>1, <1>2, <1>3, <1>4 DEF BridgeStep

---------------------------------------------------------------------------
(* The head                                                                *)

(* The graph of a head gives out the rows of the actions.                  *)
LEMMA RowsAre ==
    ASSUME NEW b \in BOOLEAN
    PROVE  /\ Velocity(Rows(b), b) = [i \in 1 .. horizon |-> "action"]
           /\ Rows(b)[1] = "state" <=> b
<1> DEFINE S == {"state", "future", "action"}
           s == IF b THEN <<"state">> ELSE <<>>
           f == [i \in 1 .. future_tokens |-> "future"]
           a == [i \in 1 .. horizon |-> "action"]
           n == IF b THEN 1 ELSE 0
           off == n + future_tokens
<1>1. s \in Seq(S) /\ Len(s) = n /\ n \in Nat /\ (b => s[1] = "state")
    <2>1. CASE b
        <3>1. <<"state">> \in Seq(S) /\ Len(<<"state">>) = 1
            OBVIOUS
        <3> HIDE DEF S
        <3> QED BY <2>1, <3>1
    <2>2. CASE ~b
        BY <2>2, EmptySeq
    <2> QED BY <2>1, <2>2
<1>2. f \in Seq(S) /\ Len(f) = future_tokens
      /\ \A i \in 1 .. future_tokens : f[i] = "future"
    <2>1. f \in [1 .. future_tokens -> S]
        OBVIOUS
    <2>2. \A i \in 1 .. future_tokens : f[i] = "future"
        OBVIOUS
    <2> HIDE DEF f, S
    <2> QED BY <2>1, <2>2, HeadAssumption, FunctionIsSequence
<1>3. a \in Seq(S) /\ Len(a) = horizon
      /\ \A i \in 1 .. horizon : a[i] = "action"
    <2>1. a \in [1 .. horizon -> S]
        OBVIOUS
    <2>2. \A i \in 1 .. horizon : a[i] = "action"
        OBVIOUS
    <2> HIDE DEF a, S
    <2> QED BY <2>1, <2>2, HeadAssumption, FunctionIsSequence
<1>4. Rows(b) = s \o f \o a
    BY DEF Rows
<1>5. off \in Nat /\ VelocityOffset(b) = off
    BY HeadAssumption DEF VelocityOffset
<1> HIDE DEF s, f, a, S
<1>6. /\ s \o f \in Seq(S) /\ Len(s \o f) = off
      /\ \A i \in 1 .. off : (s \o f)[i] =
             IF i <= Len(s) THEN s[i] ELSE f[i - Len(s)]
    <2>1. /\ s \o f \in Seq(S) /\ Len(s \o f) = Len(s) + Len(f)
          /\ \A i \in 1 .. Len(s) + Len(f) : (s \o f)[i] =
                 IF i <= Len(s) THEN s[i] ELSE f[i - Len(s)]
        BY <1>1, <1>2, ConcatProperties
    <2>2. Len(s) + Len(f) = off
        BY <1>1, <1>2
    <2> HIDE DEF off
    <2> QED BY <2>1, <2>2
<1>7. /\ s \o f \o a \in Seq(S) /\ Len(s \o f \o a) = off + horizon
      /\ \A i \in 1 .. off + horizon : (s \o f \o a)[i] =
             IF i <= off THEN (s \o f)[i] ELSE a[i - off]
    <2> HIDE DEF off
    <2> DEFINE t == s \o f
    <2>1. t \in Seq(S) /\ Len(t) = off
        BY <1>6
    <2> HIDE DEF t
    <2>2. /\ t \o a \in Seq(S) /\ Len(t \o a) = off + horizon
          /\ \A i \in 1 .. off + horizon : (t \o a)[i] =
                 IF i <= off THEN t[i] ELSE a[i - off]
        BY <1>3, <2>1, ConcatProperties
    <2> QED BY <2>2 DEF t
<1>8. Velocity(Rows(b), b) = a
    <2> DEFINE r == s \o f \o a
               v == SubSeq(r, off + 1, off + horizon)
    <2>1. \A i \in off + 1 .. off + horizon : r[i] \in S
        BY <1>5, <1>7, HeadAssumption, LenProperties
    <2>2. /\ v \in Seq(S) /\ Len(v) = horizon
          /\ \A i \in 1 .. horizon : v[i] = r[off + i]
        <3> HIDE DEF r
        <3> DEFINE first == off + 1
                   last == off + horizon
        <3>1. /\ first \in Int /\ last \in Int /\ first <= last
              /\ last - first + 1 = horizon
              /\ \A i \in 1 .. horizon : first + i - 1 = off + i
            BY <1>5, HeadAssumption
        <3>2. \A i \in first .. last : r[i] \in S
            BY <2>1
        <3>3. v = SubSeq(r, first, last)
            OBVIOUS
        <3> HIDE DEF first, last, off, v
        <3>4. /\ SubSeq(r, first, last) \in Seq(S)
              /\ Len(SubSeq(r, first, last)) =
                    IF first <= last THEN last - first + 1 ELSE 0
              /\ \A i \in 1 .. last - first + 1 :
                    SubSeq(r, first, last)[i] = r[first + i - 1]
            BY <3>1, <3>2, SubSeqProperties
        <3> QED BY <3>1, <3>3, <3>4
    <2>3. ASSUME NEW i \in 1 .. horizon
          PROVE  v[i] = a[i]
        <3>1. off + i \in 1 .. off + horizon /\ ~(off + i <= off)
              /\ off + i - off = i
            BY <1>5, HeadAssumption
        <3>3. v[i] = r[off + i]
            BY <2>2
        <3>4. r[off + i] = a[i]
            <4>1. \A k \in 1 .. off + horizon :
                     r[k] = IF k <= off THEN (s \o f)[k] ELSE a[k - off]
                BY <1>7
            <4> HIDE DEF r, a, v, off
            <4>2. r[off + i] = a[off + i - off]
                BY <1>5, <3>1, <4>1, HeadAssumption
            <4> QED BY <3>1, <4>2
        <3> QED BY <3>3, <3>4
    <2>4. Velocity(Rows(b), b) = v
        BY <1>4, <1>5 DEF Velocity
    <2> HIDE DEF v
    <2> QED BY <1>3, <2>2, <2>3, <2>4, SeqEqual
<1>9. Rows(b)[1] = "state" <=> b
    <2>1. 1 \in 1 .. off /\ 1 \in 1 .. off + horizon
        BY <1>1, HeadAssumption
    <2>2. Rows(b)[1] = IF 1 <= Len(s) THEN s[1] ELSE f[1 - Len(s)]
        BY <1>4, <1>6, <1>7, <2>1
    <2>3. CASE b
        BY <1>1, <2>2, <2>3
    <2>4. CASE ~b
        <3>1. f[1] = "future"
            BY <1>2, HeadAssumption
        <3> QED BY <1>1, <2>2, <2>4, <3>1
    <2> QED BY <2>3, <2>4
<1> QED
    BY <1>8, <1>9 DEF a

LEMMA FirstHeadIsSound ==
    ASSUME NEW v
    PROVE  /\ HeadIsSound(FirstHead(v), v)
           /\ HeadIsSound(NoGraphYet, v)
<1>1. HeadIsSound(NoGraphYet, v)
    BY DEF HeadIsSound, NoGraphYet
<1>2. CASE v \in OFT
    <2>1. OFTGraph.inputs = [input |-> {0}]
        BY DEF OFTGraph
    <2>2. "input" \in DOMAIN OFTGraph.inputs
        BY <2>1
    <2>3. HeadIsSound(OFTGraph, v)
        BY <1>2, <2>2 DEF HeadIsSound, OFTGraph
    <2> QED BY <1>1, <1>2, <2>3 DEF FirstHead
<1>3. CASE v \notin OFT
    BY <1>1, <1>3 DEF FirstHead
<1> QED
    BY <1>2, <1>3

LEMMA BuiltIsSound ==
    ASSUME NEW tokens, NEW b \in BOOLEAN, NEW v
    PROVE  HeadIsSound(Built(tokens, b, v), v)
<1> DEFINE h == Built(tokens, b, v)
           S == DiffusionInputs(b)
                    \cup (IF v \in PI THEN {} ELSE {"cross_mask"})
<1>1. DOMAIN h.inputs = S
    BY DEF Built
<1>2. "hidden" \in S /\ ("state" \in S <=> b)
    BY DEF DiffusionInputs
<1>3. /\ h = [graph |-> h.graph, token_count |-> h.token_count,
              graph_uses_state |-> h.graph_uses_state, rows |-> h.rows,
              shape |-> h.shape, inputs |-> h.inputs]
      /\ h.graph \in BOOLEAN
      /\ h.graph_uses_state = b
      /\ h.shape = h.token_count
      /\ h.rows = Rows(b)
    BY DEF Built
<1> HIDE DEF h, S
<1>4. h.graph_uses_state \in BOOLEAN
    BY <1>3
<1>5. "state" \in DOMAIN h.inputs <=> h.graph_uses_state
    BY <1>1, <1>2, <1>3
<1>6. h.rows = Rows(h.graph_uses_state)
    BY <1>3
<1>7. HeadIsSound(h, v)
    BY <1>1, <1>2, <1>3, <1>4, <1>5, <1>6 DEF HeadIsSound
<1> QED
    BY <1>7 DEF h

(* A graph that could not be allocated fits no call.                       *)
Unallocated(tokens, b, v) ==
    [Built(tokens, b, v) EXCEPT !.token_count = 0, !.graph_uses_state = FALSE]

LEMMA UnallocatedIsSound ==
    ASSUME NEW tokens, NEW b, NEW v
    PROVE  HeadIsSound(Unallocated(tokens, b, v), v)
<1> DEFINE inputs == Built(tokens, b, v).inputs
           h == [graph |-> TRUE, token_count |-> tokens,
                 graph_uses_state |-> b, rows |-> Rows(b),
                 shape |-> tokens, inputs |-> inputs]
<1>1. Built(tokens, b, v) = h
    BY DEF Built
<1>2. Unallocated(tokens, b, v) =
          [h EXCEPT !.token_count = 0, !.graph_uses_state = FALSE]
    BY <1>1 DEF Unallocated
<1> HIDE DEF inputs
<1>3. Unallocated(tokens, b, v) =
          [graph |-> TRUE, token_count |-> 0, graph_uses_state |-> FALSE,
           rows |-> Rows(b), shape |-> tokens, inputs |-> inputs]
    BY <1>2
<1> QED
    BY <1>3 DEF HeadIsSound

(* Writing the inputs of a graph changes nothing else of it.               *)
LEMMA InputsChanged ==
    ASSUME NEW h, NEW v, HeadIsSound(h, v), NEW f,
           DOMAIN f = DOMAIN h.inputs
    PROVE  /\ HeadIsSound([h EXCEPT !.inputs = f], v)
           /\ [h EXCEPT !.inputs = f].inputs = f
           /\ [h EXCEPT !.inputs = f].graph = h.graph
           /\ [h EXCEPT !.inputs = f].token_count = h.token_count
           /\ [h EXCEPT !.inputs = f].graph_uses_state = h.graph_uses_state
<1> DEFINE g == [h EXCEPT !.inputs = f]
<1>1. /\ g = [graph |-> h.graph, token_count |-> h.token_count,
              graph_uses_state |-> h.graph_uses_state, rows |-> h.rows,
              shape |-> h.shape, inputs |-> f]
    BY DEF HeadIsSound
<1> HIDE DEF g
<1>2. /\ g.graph = h.graph /\ g.token_count = h.token_count
      /\ g.graph_uses_state = h.graph_uses_state /\ g.rows = h.rows
      /\ g.shape = h.shape /\ g.inputs = f
    BY <1>1
<1>3. HeadIsSound(g, v)
    BY <1>1, <1>2 DEF HeadIsSound
<1> QED
    BY <1>2, <1>3 DEF g

(* The conditioning of a head has at least one row.                        *)
LEMMA HeadTokensPositive ==
    ASSUME EngineInv, stage = "returned", answer.ok, variant \in StarVLA,
           variant \notin FAST
    PROVE  HeadTokens \in Nat \ {0}
<1>1. /\ Len(call.tokens) \in Nat /\ Len(call.tokens) > 0
      /\ call.kind = Branch.kind
      /\ call.kind = "tokens" =>
            /\ call.count \in Nat \ {0}
            /\ answer.rows = Queries
            /\ Cardinality(Matches) >= call.count
    BY DEF EngineInv, StageInv, BridgeInv, CallInv, AnswerInv
<1>2. CASE variant \notin OFT
    BY <1>1, <1>2 DEF HeadTokens
<1>3. CASE variant \in OFT
    <2> DEFINE n == Len(call.tokens)
               After(x) == {j \in Matches : j >= x}
    <2>1. call.kind = "tokens"
        BY <1>1, <1>3, BranchIs DEF OFTBranch
    <2>2. Matches \in SUBSET (1 .. n) /\ n \in Nat
        BY <1>1 DEF Matches
    <2>3. Matches # {}
        <3> DEFINE T == Matches
        <3>1. IsFiniteSet(T) /\ Cardinality(T) # 0
            <4> HIDE DEF n
            <4>1. T \in SUBSET (1 .. n)
                BY <2>2
            <4>2. Cardinality(T) >= call.count
                BY <1>1, <2>1
            <4> HIDE DEF T
            <4>3. IsFiniteSet(T) /\ Cardinality(T) \in 0 .. n
                BY <2>2, <4>1, PartOfRange
            <4> QED BY <1>1, <2>1, <2>2, <4>2, <4>3
        <3> HIDE DEF T
        <3>2. T # {}
            BY <3>1, FS_EmptySet
        <3> QED BY <3>2 DEF T
    <2>4. PICK x \in Matches : \A y \in Matches : y <= x
        <3> DEFINE T == Matches
        <3> HIDE DEF T, n
        <3> QED BY <2>2, <2>3, GreatestElement DEF T
    <2>5. After(x) = {x}
        <3>1. \A y \in Matches : y \in Nat
            BY <2>2
        <3>2. ASSUME NEW y \in Matches, y >= x
              PROVE  y = x
            BY <2>4, <3>1, <3>2
        <3>3. x >= x
            BY <3>1
        <3> QED BY <2>4, <3>2, <3>3
    <2>6. Cardinality(After(x)) = 1
        BY <2>5, FS_Singleton
    <2>7. x \in Queries
        <3>1. Cardinality(After(x)) <= call.count
            <4> HIDE DEF After
            <4> QED BY <1>1, <2>1, <2>6
        <3> QED BY <2>4, <3>1 DEF Queries
    <2>8. Queries \in SUBSET (1 .. n)
        BY <2>2 DEF Queries
    <2>9. IsFiniteSet(Queries) /\ Cardinality(Queries) \in 0 .. n
        <3> DEFINE Q == Queries
        <3> HIDE DEF Q, n
        <3> QED BY <2>2, <2>8, PartOfRange DEF Q
    <2>10. Cardinality(Queries) # 0
        <3> DEFINE Q == Queries
        <3> HIDE DEF Q
        <3>1. Q # {} /\ IsFiniteSet(Q)
            BY <2>7, <2>9 DEF Q
        <3>2. Cardinality(Q) # 0
            BY <3>1, FS_EmptySet
        <3> QED BY <3>2 DEF Q
    <2>11. HeadTokens = Cardinality(Queries)
        BY <1>1, <1>3, <2>1 DEF HeadTokens
    <2> QED BY <2>2, <2>9, <2>10, <2>11
<1> QED
    BY <1>2, <1>3

---------------------------------------------------------------------------
(* The steps                                                               *)

LEMMA BridgeUnchanged ==
    ASSUME BridgeInv, UNCHANGED bridgeVars
    PROVE  BridgeInv'
<1> USE DEF bridgeVars
<1>1. /\ \A n : Device(n)' = Device(n) /\ OnDevice(n)' = OnDevice(n)
      /\ Nodes' = Nodes /\ AllNodes' = AllNodes /\ Boundaries' = Boundaries
      /\ Matches' = Matches /\ Queries' = Queries
    <2>1. \A n : OnDevice(n)' = OnDevice(n)
        BY DEF OnDevice, TriesDevice, Wants, Device
    <2> QED BY <2>1, SameModel, SameCall
<1>2. Earlier' = Earlier /\ DeviceSlots' = DeviceSlots
    BY <1>1 DEF Earlier, DeviceSlots
<1>3. MarkedSoFar' <=> MarkedSoFar
    BY <1>1, <1>2 DEF MarkedSoFar
<1>4. \A s : Right(s)' = Right(s)
    BY DEF Right
<1>5. \A cells : Whole(cells)' <=> Whole(cells)
    BY DEF Whole
<1>6. Excused' <=> Excused
    BY <1>1 DEF Excused
<1>7. RestInv' /\ CudaInv'
    BY DEF BridgeInv, RestInv, Models, CudaInv
<1>8. CallInv'
    BY <1>1 DEF BridgeInv, CallInv, SlotsAreSound
<1>9. GraphInv' /\ SeenInv' /\ CountInv'
    BY <1>1, <1>2 DEF BridgeInv, GraphInv, SeenInv, CountInv, Captures, Cells
<1>10. WholeInv' /\ FaultInv'
    BY <1>2, <1>3, <1>4 DEF BridgeInv, WholeInv, FaultInv
<1>11. DeviceInv'
    BY <1>1, <1>2, <1>3, <1>4 DEF BridgeInv, DeviceInv, TotalCount
<1>12. GenerateInv'
    BY DEF BridgeInv, GenerateInv, IsList
<1>13. AnswerInv'
    BY <1>1, <1>5, <1>6 DEF BridgeInv, AnswerInv
<1> QED
    BY <1>7, <1>8, <1>9, <1>10, <1>11, <1>12, <1>13 DEF BridgeInv

LEMMA SameHead ==
    ASSUME HeadInv, UNCHANGED <<head, variant>>
    PROVE  HeadInv'
BY DEF HeadInv, HeadIsSound

(* A step that leaves the prediction alone and loads no engine.            *)
LEMMA StutterStep ==
    ASSUME EngineInv, UNCHANGED engineVars, UNCHANGED engine,
           (phase' = "loaded") <=> (phase = "loaded")
    PROVE  EngineInv'
<1> USE DEF engineVars
<1>1. BridgeInv'
    BY BridgeUnchanged DEF EngineInv
<1>2. PhaseInv'
    BY DEF EngineInv, PhaseInv
<1>3. HeadInv'
    BY SameHead DEF EngineInv
<1>4. StageInv'
    BY DEF EngineInv, StageInv, bridgeVars, Branch, OFTBranch, GR00TBranch,
           PIBranch, PIV3Branch, FASTBranch
<1>5. ComputeInv'
    BY DEF EngineInv, ComputeInv, bridgeVars, Fits, HeadTokens, UsesState
<1> QED
    BY <1>1, <1>2, <1>3, <1>4, <1>5 DEF EngineInv

(* An engine that is idle has no call under way.                           *)
LEMMA Idle ==
    ASSUME EngineInv, pc = "idle"
    PROVE  stage = "ready"
BY DEF EngineInv, StageInv

(* After a call has returned, only the bridge and the head have to be      *)
(* looked at.                                                              *)
LEMMA IdleAfter ==
    ASSUME BridgeInv', PhaseInv', HeadInv', stage' = "ready", pc' = "idle"
    PROVE  EngineInv'
<1>1. StageInv'
    BY DEF StageInv
<1>2. ComputeInv'
    BY DEF ComputeInv
<1> QED
    BY <1>1, <1>2 DEF EngineInv

LEMMA NoModelIsModel == NoModel \in Models
<1>1. NoModel.architecture \in {"qwen3", "qwen2.5"}
    BY DEF NoModel, ModelOf, Architecture
<1> QED
    BY <1>1 DEF NoModel, ModelOf, Models

LEMMA InitStep ==
    ASSUME Init
    PROVE  EngineInv
<1> USE DEF Init, PredictionInit, BridgeInit, LoadingInit
<1>1. stage = "ready" /\ pc = "idle"
    OBVIOUS
<1>2. RestInv
    <2>1. memory \in [cells : 0 .. n_ctx, from : SUBSET Nat]
        BY BridgeAssumption DEF Empty
    <2> QED BY <2>1, NoModelIsModel DEF RestInv
<1>3. CudaInv
    BY DEF CudaInv, NoCapture
<1>4. BridgeInv
    <2>1. CallInv /\ AnswerInv
        BY DEF CallInv, AnswerInv
    <2> QED BY <1>1, <1>2, <1>3, <2>1, OutsideOfGraph
<1>5. PhaseInv
    BY EngineAssumption DEF PhaseInv, Failed
<1>6. HeadInv
    BY FirstHeadIsSound DEF HeadInv
<1>7. StageInv /\ ComputeInv
    BY <1>1 DEF StageInv, ComputeInv
<1> QED
    BY <1>4, <1>5, <1>6, <1>7 DEF EngineInv

(* While an engine is made or unmade there is none to predict.             *)
LEMMA MakeStep ==
    ASSUME EngineInv, Make \/ Unmake
    PROVE  EngineInv'
<1>1. UNCHANGED engineVars
    BY DEF Make, Unmake
<1>2. UNCHANGED engine /\ (phase' = "loaded" <=> phase = "loaded")
    <2>1. CASE LoadStep \/ ReleaseNext
        BY <2>1 DEF LoadStep, ReleaseNext
    <2>2. CASE FailStep
        <3>1. phase = "loading" /\ phase' \in {"recovering", "failing"}
            BY <2>2 DEF FailStep
        <3> QED BY <2>2, <3>1 DEF FailStep
    <2>3. CASE Recover
        BY <2>3 DEF Recover
    <2>4. CASE Released
        <3>1. phase # "loaded" /\ phase' \in {"failed", "gone"}
            BY <2>4 DEF Released
        <3> QED BY <2>4, <3>1 DEF Released
    <2> QED
        BY <2>1, <2>2, <2>3, <2>4 DEF Make, Unmake, Making, Releasing
<1> QED
    BY <1>1, <1>2, StutterStep

LEMMA HandOverStep ==
    ASSUME EngineInv, HandOver
    PROVE  EngineInv'
<1> USE DEF HandOver
<1>1. /\ phase = "loading" /\ phase' = "loaded" /\ UNCHANGED engine
      /\ UNCHANGED <<stage, call, capture, cuda_capture, embeddings, memory,
                     graph, sequence, answer, fault, pc, id, observation,
                     result>>
    BY DEF Loaded
<1>2. variant = "none" /\ pc = "idle" /\ stage = "ready"
    BY <1>1, Idle DEF EngineInv, PhaseInv
<1>3. CASE engine \notin StarVLA
    <2>1. UNCHANGED <<variant, model, head>>
        BY <1>3
    <2>2. BridgeInv'
        BY <1>1, <2>1, BridgeUnchanged DEF EngineInv, bridgeVars
    <2>3. PhaseInv'
        BY <1>1, <1>2, <1>3, <2>1 DEF EngineInv, PhaseInv
    <2>4. HeadInv'
        BY <2>1, SameHead DEF EngineInv
    <2> QED BY <1>1, <1>2, <2>2, <2>3, <2>4, IdleAfter
<1>4. CASE engine \in StarVLA
    <2>1. PICK split \in 0 .. Layers + 1 :
              /\ variant' = engine
              /\ model' = ModelOf(engine, split)
              /\ head' = FirstHead(engine)
        BY <1>4
    <2>2. model' \in Models
        <3>1. Architecture(engine) \in {"qwen3", "qwen2.5"}
            BY DEF Architecture
        <3>2. split \in Nat
            BY BridgeAssumption
        <3> QED BY <2>1, <3>1, <3>2 DEF ModelOf, Models
    <2>3. RestInv'
        BY <1>1, <1>2, <2>2
        DEF EngineInv, BridgeInv, RestInv, Models
    <2>4. CudaInv'
        BY <1>1 DEF EngineInv, BridgeInv, CudaInv
    <2>5. BridgeInv'
        BY <1>1, <1>2, <2>3, <2>4, RestStep DEF EngineInv
    <2>6. PhaseInv'
        BY <1>1, <1>2, <1>4, <2>1 DEF EngineInv, PhaseInv
    <2>7. HeadInv'
        <3>1. HeadIsSound(head', variant')
            BY <2>1, FirstHeadIsSound
        <3> QED BY <3>1 DEF HeadInv, HeadIsSound
    <2> QED BY <1>1, <1>2, <2>5, <2>6, <2>7, IdleAfter
<1> QED
    BY <1>3, <1>4

LEMMA UseStep ==
    ASSUME EngineInv, Use
    PROVE  EngineInv'
<1>1. phase = "loaded" /\ UNCHANGED <<engine, phase>> /\ engine \in StarVLA
    BY DEF Use, loadingVars
<1>2. ASSUME NEW o \in Observations, BeginPredict(o)
      PROVE  EngineInv'
    <2> USE <1>2 DEF BeginPredict
    <2>1. BridgeInv'
        BY BridgeUnchanged DEF EngineInv
    <2>2. PhaseInv'
        <3>1. id' \in 0 .. MaxRequests
            <4>1. id \in 0 .. MaxRequests
                BY DEF EngineInv, PhaseInv
            <4>2. id < MaxRequests /\ id' = id + 1
                OBVIOUS
            <4>3. MaxRequests \in Nat
                BY EngineAssumption
            <4> QED BY ONLY <4>1, <4>2, <4>3
        <3>2. UNCHANGED <<engine, phase, variant, result>>
            BY <1>1
        <3>3. engine' \in Engines /\ result'.ok \in BOOLEAN
            BY <3>2 DEF EngineInv, PhaseInv
        <3>4. variant' # "none"
              /\ variant' = IF phase' = "loaded" /\ engine' \in StarVLA
                            THEN engine' ELSE "none"
            <4>1. variant' = engine
                BY <1>1, <3>2 DEF EngineInv, PhaseInv
            <4>2. "none" \notin StarVLA
                BY DEF StarVLA, OFT, GR00T, PI, PIV3, FAST
            <4> QED BY <1>1, <3>2, <4>1, <4>2
        <3>5. pc' = "prepare" /\ observation' \in Observations
            BY <1>2
        <3> QED BY <3>1, <3>3, <3>4, <3>5 DEF PhaseInv
    <2>3. HeadInv'
        BY SameHead DEF EngineInv
    <2>4. stage' = "ready" /\ pc' = "prepare"
        BY Idle DEF bridgeVars
    <2>5. StageInv' /\ ComputeInv'
        BY <2>4 DEF StageInv, ComputeInv
    <2> QED BY <2>1, <2>2, <2>3, <2>5 DEF EngineInv
<1>3. CASE Reset
    <2> USE <1>3 DEF Reset
    <2>1. BridgeInv'
        BY ResetStep DEF EngineInv
    <2>2. PhaseInv'
        BY <1>1 DEF EngineInv, PhaseInv
    <2>3. HeadInv'
        BY SameHead DEF EngineInv
    <2>4. stage' = "ready" /\ pc' = "idle"
        BY DEF BridgeReset
    <2> QED BY <2>1, <2>2, <2>3, <2>4, IdleAfter
<1> QED
    BY <1>2, <1>3 DEF Use

LEMMA DestroyStep ==
    ASSUME EngineInv, Destroy
    PROVE  EngineInv'
<1> USE DEF Destroy
<1>1. /\ phase' = "freeing" /\ UNCHANGED engine
      /\ stage = "ready" /\ stage' = "ready" /\ pc' = "idle"
    BY Idle DEF Free
<1>2. RestInv'
    <2>1. model' \in Models
        BY NoModelIsModel
    <2>2. memory' \in [cells : 0 .. n_ctx, from : SUBSET Nat]
        BY BridgeAssumption DEF Empty
    <2> QED BY <1>1, <2>1, <2>2 DEF EngineInv, BridgeInv, RestInv, Models
<1>3. CudaInv'
    BY DEF CudaInv, NoCapture
<1>4. BridgeInv'
    BY <1>1, <1>2, <1>3, RestStep DEF EngineInv
<1>5. PhaseInv'
    BY <1>1 DEF EngineInv, PhaseInv
<1>6. HeadInv'
    <2>1. HeadIsSound(head', variant')
        BY FirstHeadIsSound
    <2> QED BY <2>1 DEF HeadInv, HeadIsSound
<1> QED
    BY <1>1, <1>4, <1>5, <1>6, IdleAfter

(* Every way out of a prediction leaves the bridge and the head in order.  *)
LEMMA ReturnedStep ==
    ASSUME EngineInv, UNCHANGED loadingVars, NEW r, r.ok \in BOOLEAN,
           ReturnResult(r), BridgeInv', HeadInv', stage' = "ready"
    PROVE  EngineInv'
<1>1. PhaseInv'
    <2>1. result'.ok \in BOOLEAN
        BY DEF ReturnResult
    <2> QED BY <2>1 DEF EngineInv, PhaseInv, ReturnResult, loadingVars
<1> QED
    BY <1>1, IdleAfter DEF ReturnResult

LEMMA RefuseObservationStep ==
    ASSUME EngineInv, RefuseObservation, UNCHANGED loadingVars
    PROVE  EngineInv'
<1> USE DEF RefuseObservation
<1>1. stage = "ready" /\ stage' = "ready"
    BY DEF EngineInv, StageInv, bridgeVars
<1>2. BridgeInv'
    BY BridgeUnchanged DEF EngineInv
<1>3. HeadInv'
    BY SameHead DEF EngineInv, ReturnResult
<1>4. ReturnResult(Failed) /\ Failed.ok \in BOOLEAN
    BY DEF Failed
<1> QED
    BY <1>1, <1>2, <1>3, <1>4, ReturnedStep

LEMMA CallBridgeStep ==
    ASSUME EngineInv, CallBridge, UNCHANGED loadingVars
    PROVE  EngineInv'
<1> USE DEF CallBridge
<1> DEFINE tokens == PromptOf(observation)
<1>1. variant \in StarVLA /\ observation \in Observations
    BY DEF EngineInv, PhaseInv
<1>2. BridgeInv'
    <2>1. CallIsSound(id, Branch.kind, tokens, Branch.tuple_indices,
                      Branch.count)
        BY EngineCallIsSound DEF EngineInv
    <2> HIDE DEF tokens
    <2>2. BridgeCall(id, Branch.kind, tokens, Branch.tuple_indices,
                     Branch.count)
        BY DEF tokens
    <2> QED BY <2>1, <2>2, CallStep DEF EngineInv
<1>3. PhaseInv'
    BY DEF EngineInv, PhaseInv, loadingVars
<1>4. StageInv'
    <2>1. /\ stage' = "prompt"
          /\ call'.id = id /\ call'.kind = Branch.kind
          /\ call'.tokens = tokens
        BY DEF BridgeCall
    <2>2. Branch' = Branch
        BY DEF Branch, OFTBranch, GR00TBranch, PIBranch, PIV3Branch,
               FASTBranch
    <2>3. Len(tokens) > 0
        BY <1>1, PromptHasTokens
    <2> HIDE DEF tokens
    <2> QED BY <2>1, <2>2, <2>3 DEF StageInv
<1>5. HeadInv' /\ ComputeInv'
    BY SameHead DEF EngineInv, ComputeInv
<1> QED
    BY <1>2, <1>3, <1>4, <1>5 DEF EngineInv

LEMMA StepBridgeStep ==
    ASSUME EngineInv, StepBridge, UNCHANGED loadingVars
    PROVE  EngineInv'
<1> USE DEF StepBridge
<1>1. BridgeInv'
    BY BridgeStepKeeps DEF EngineInv
<1>2. PhaseInv'
    BY DEF EngineInv, PhaseInv, loadingVars
<1>3. StageInv'
    <2>1. UNCHANGED call /\ stage' # "ready" /\ stage # "ready"
        BY BridgeStepFrame
    <2>2. Branch' = Branch
        BY DEF Branch, OFTBranch, GR00TBranch, PIBranch, PIV3Branch,
               FASTBranch
    <2> QED BY <2>1, <2>2 DEF EngineInv, StageInv
<1>4. HeadInv' /\ ComputeInv'
    BY SameHead DEF EngineInv, ComputeInv
<1> QED
    BY <1>1, <1>2, <1>3, <1>4 DEF EngineInv

LEMMA FailBridgeStep ==
    ASSUME EngineInv, FailBridge, UNCHANGED loadingVars
    PROVE  EngineInv'
<1> USE DEF FailBridge
<1>1. BridgeInv' /\ stage' = "ready"
    BY TakenStep DEF EngineInv, BridgeTaken
<1>2. HeadInv'
    BY SameHead DEF EngineInv, ReturnResult
<1>3. ReturnResult(Failed) /\ Failed.ok \in BOOLEAN
    BY DEF Failed
<1> QED
    BY <1>1, <1>2, <1>3, ReturnedStep

LEMMA FinishFASTStep ==
    ASSUME EngineInv, FinishFAST, UNCHANGED loadingVars
    PROVE  EngineInv'
<1> USE DEF FinishFAST
<1>1. BridgeInv' /\ stage' = "ready"
    BY TakenStep DEF EngineInv, BridgeTaken
<1>2. HeadInv'
    BY SameHead DEF EngineInv, ReturnResult
<1> DEFINE r == IF Decoded.ok THEN [ok |-> TRUE, from |-> answer.from]
                ELSE Failed
<1>3. ReturnResult(r)
    OBVIOUS
<1>4. r.ok \in BOOLEAN
    BY DEF Failed
<1> HIDE DEF r
<1> QED
    BY <1>1, <1>2, <1>3, <1>4, ReturnedStep

LEMMA BuildHeadStep ==
    ASSUME EngineInv, BuildHead, UNCHANGED loadingVars
    PROVE  EngineInv'
<1> USE DEF BuildHead, CanEvaluate
<1>1. BridgeInv'
    BY BridgeUnchanged DEF EngineInv
<1>2. PhaseInv'
    BY DEF EngineInv, PhaseInv, loadingVars
<1>3. StageInv'
    <2>1. UNCHANGED <<stage, call, answer, id, pc, variant>>
        BY DEF bridgeVars
    <2>2. Branch' = Branch
        BY <2>1 DEF Branch, OFTBranch, GR00TBranch, PIBranch, PIV3Branch,
               FASTBranch
    <2> QED BY <2>1, <2>2 DEF EngineInv, StageInv
<1>4. HeadInv'
    <2>1. UsesState \in BOOLEAN
        BY DEF UsesState
    <2>2. HeadIsSound(Built(HeadTokens, UsesState, variant), variant)
        BY <2>1, BuiltIsSound
    <2>3. head' = Built(HeadTokens, UsesState, variant)
          /\ variant' = variant
        BY DEF BuildGraph
    <2>4. HeadIsSound(head', variant')
        BY <2>2, <2>3
    <2> QED BY <2>4 DEF HeadInv, HeadIsSound
<1>5. ComputeInv'
    BY DEF ComputeInv
<1> QED
    BY <1>1, <1>2, <1>3, <1>4, <1>5 DEF EngineInv

LEMMA FailBuildHeadStep ==
    ASSUME EngineInv, FailBuildHead, UNCHANGED loadingVars
    PROVE  EngineInv'
<1> USE DEF FailBuildHead
<1>1. BridgeInv' /\ stage' = "ready"
    BY TakenStep DEF EngineInv, BridgeTaken
<1>2. HeadInv'
    <2>1. variant' = variant
        BY DEF ReturnResult
    <2>2. head' \in {NoGraphYet,
                     Unallocated(HeadTokens, UsesState, variant)}
        BY DEF FailBuild, Unallocated
    <2>3. HeadIsSound(head', variant')
        BY <2>1, <2>2, FirstHeadIsSound, UnallocatedIsSound
    <2> QED BY <2>3 DEF HeadInv, HeadIsSound
<1>3. ReturnResult(Failed) /\ Failed.ok \in BOOLEAN
    BY DEF Failed
<1> QED
    BY <1>1, <1>2, <1>3, ReturnedStep

(* The graph that is taken has the size of the call: its inputs are all    *)
(* written, those of the conditioning with it.                             *)
LEMMA WriteHeadStep ==
    ASSUME EngineInv, WriteHead, UNCHANGED loadingVars
    PROVE  EngineInv'
<1> USE DEF WriteHead, CanEvaluate
<1> DEFINE f == Written(answer.from, {id}, {id})
<1>1. BridgeInv'
    BY BridgeUnchanged DEF EngineInv
<1>2. PhaseInv'
    BY DEF EngineInv, PhaseInv, loadingVars
<1>3. UNCHANGED <<stage, call, answer, id, variant, observation>>
    BY DEF bridgeVars
<1>4. StageInv'
    <2>1. Branch' = Branch
        BY <1>3 DEF Branch, OFTBranch, GR00TBranch, PIBranch, PIV3Branch,
               FASTBranch
    <2>2. stage' = "returned" /\ answer'.ok /\ variant' \notin FAST
        BY <1>3
    <2> QED BY <1>3, <2>1, <2>2 DEF EngineInv, StageInv
<1>5. DOMAIN f = DOMAIN head.inputs
    BY DEF Written
<1>6. head' = [head EXCEPT !.inputs = f]
    BY DEF WriteInputs
<1>7. /\ HeadIsSound(head', variant') /\ head'.inputs = f
      /\ head'.graph = head.graph
      /\ head'.token_count = head.token_count
      /\ head'.graph_uses_state = head.graph_uses_state
    <2> HIDE DEF f
    <2> QED BY <1>3, <1>5, <1>6, InputsChanged DEF EngineInv, HeadInv
<1>8. HeadInv'
    BY <1>7 DEF HeadInv, HeadIsSound
<1>9. ComputeInv'
    <2>1. HeadTokens' = HeadTokens /\ UsesState' = UsesState
        BY <1>3 DEF HeadTokens, UsesState
    <2>2. Fits(HeadTokens, UsesState)'
        BY <1>7, <2>1 DEF Fits
    <2>3. ASSUME NEW i \in DOMAIN f
          PROVE  /\ f[i] \in {answer.from, {id}, {}}
                 /\ i \in {"hidden", "input"} => f[i] = answer.from
        <3>1. i \in DOMAIN head.inputs
            BY <1>5
        <3>2. f[i] = CASE i \in {"hidden", "cross_mask", "input"} ->
                              answer.from
                       [] i = "noise" -> {id}
                       [] i = "state" -> {id}
                       [] OTHER -> {}
            BY <3>1 DEF Written
        <3>3. CASE i \in {"hidden", "cross_mask", "input"}
            <4>1. i # "noise" /\ i # "state"
                BY <3>3
            <4> QED BY <3>2, <3>3, <4>1
        <3>4. CASE i \notin {"hidden", "cross_mask", "input"}
            BY <3>2, <3>4
        <3> QED BY <3>3, <3>4
    <2> HIDE DEF f
    <2> QED BY <1>3, <1>7, <2>2, <2>3 DEF ComputeInv
<1> QED
    BY <1>1, <1>2, <1>4, <1>8, <1>9 DEF EngineInv

LEMMA ComputedStep ==
    ASSUME EngineInv, ComputeHead \/ FailHead, UNCHANGED loadingVars
    PROVE  EngineInv'
<1> USE DEF ComputeHead, FailHead
<1>1. BridgeInv' /\ stage' = "ready"
    BY TakenStep DEF EngineInv, BridgeTaken
<1>2. HeadInv'
    <2> DEFINE f == [i \in DOMAIN head.inputs |-> {0}]
    <2>1. head' = [head EXCEPT !.inputs = f] /\ variant' = variant
        BY DEF Compute, ReturnResult
    <2>2. DOMAIN f = DOMAIN head.inputs
        OBVIOUS
    <2> HIDE DEF f
    <2>3. HeadIsSound(head', variant')
        BY <2>1, <2>2, InputsChanged DEF EngineInv, HeadInv
    <2> QED BY <2>3 DEF HeadInv, HeadIsSound
<1>3. CASE ComputeHead
    <2> DEFINE r == [ok |-> TRUE, from |-> OutputFrom]
    <2>1. ReturnResult(r) /\ r.ok \in BOOLEAN
        BY <1>3
    <2> HIDE DEF r
    <2> QED BY <1>1, <1>2, <2>1, ReturnedStep
<1>4. CASE FailHead
    <2>1. ReturnResult(Failed) /\ Failed.ok \in BOOLEAN
        BY <1>4 DEF Failed
    <2> QED BY <1>1, <1>2, <2>1, ReturnedStep
<1> QED
    BY <1>3, <1>4

LEMMA NextStep ==
    ASSUME EngineInv, Next
    PROVE  EngineInv'
<1>1. CASE Predict
    BY <1>1, RefuseObservationStep, CallBridgeStep, StepBridgeStep,
       FailBridgeStep, FinishFASTStep, BuildHeadStep, FailBuildHeadStep,
       WriteHeadStep, ComputedStep
    DEF Predict, PredictStep
<1>2. CASE Make \/ Unmake
    BY <1>2, MakeStep
<1>3. CASE HandOver
    BY <1>3, HandOverStep
<1>4. CASE Use
    BY <1>4, UseStep
<1>5. CASE Destroy
    BY <1>5, DestroyStep
<1> QED
    BY <1>1, <1>2, <1>3, <1>4, <1>5 DEF Next

(* The invariant: whatever is loaded, called, refused and lost on the way, *)
(* the bridge and the head are as the parts above say (model_factory.cpp,  *)
(* starvla_engine.cpp).                                                    *)
THEOREM Invariance == Spec => []EngineInv
<1>1. Init => EngineInv
    BY InitStep
<1>2. EngineInv /\ [Next]_vars => EngineInv'
    <2>1. ASSUME EngineInv, UNCHANGED vars
          PROVE  EngineInv'
        BY <2>1, StutterStep DEF vars, loadingVars
    <2> QED BY <2>1, NextStep
<1> QED
    BY <1>1, <1>2, PTL DEF Spec

---------------------------------------------------------------------------
(* Properties                                                              *)

(* What is kept is of the right kind, and within its bounds: the memory of *)
(* the language model, a generated sequence, the outputs counted on a      *)
(* device (qwen3vl_bridge.cpp).                                            *)
THEOREM TypeCorrect == Spec => []TypeOK
<1>1. EngineInv => TypeOK
    <2> SUFFICES ASSUME EngineInv PROVE TypeOK
        OBVIOUS
    <2>1. /\ engine \in Engines
          /\ variant \in {"none", engine} \cap (StarVLA \cup {"none"})
          /\ pc \in {"idle", "prepare", "bridge", "compute"}
          /\ id \in 0 .. MaxRequests
          /\ result.ok \in BOOLEAN
        BY DEF EngineInv, PhaseInv
    <2>2. /\ stage \in {"ready", "prompt", "graph", "select", "extend",
                        "returned"}
          /\ embeddings \in BOOLEAN
          /\ memory.cells \in 0 .. n_ctx
          /\ cuda_capture.device
                \in {"none", Devices[1], Devices[2]} \ {"cpu"}
        BY DEF EngineInv, BridgeInv, RestInv, CudaInv
    <2>3. Len(sequence) <= max_length
        <3>1. CASE stage \in {"select", "extend"}
            BY <3>1, BridgeAssumption
            DEF EngineInv, BridgeInv, GenerateInv, IsList
        <3>2. CASE stage \notin {"select", "extend"}
            BY <3>2, BridgeAssumption, EmptySeq
            DEF EngineInv, BridgeInv, RestInv
        <3> QED BY <3>1, <3>2
    <2>4. /\ capture.seen \subseteq 1 .. Len(capture.wanted)
          /\ capture.cuda_captured \in 0 .. Len(capture.wanted)
        <3>1. CASE stage = "graph"
            BY <3>1, SlotsAreFinite DEF EngineInv, BridgeInv, CountInv
        <3>2. CASE stage # "graph"
            <4>1. capture = Disabled
                BY <3>2 DEF EngineInv, BridgeInv, RestInv
            <4> QED BY <4>1 DEF Disabled
        <3> QED BY <3>1, <3>2
    <2> QED BY <2>1, <2>2, <2>3, <2>4 DEF TypeOK
<1> QED
    BY <1>1, Invariance, PTL

(* Between two calls the capture is off and empty, and the context decodes *)
(* plainly (LayerCapture::disable and the handlers of exceptions).         *)
THEOREM LeavesNoTrace == Spec => []NoTrace
<1>1. EngineInv => NoTrace
    BY InvImpliesNoTrace DEF EngineInv
<1> QED
    BY <1>1, Invariance, PTL

(* A call is only refused for a reason of its own: its prompt, a failure   *)
(* outside of the bridge in this call, or layers on several devices        *)
(* (finish_layer_capture).                                                 *)
THEOREM RefusesForAReason == Spec => []RefusedForAReason
<1>1. EngineInv => RefusedForAReason
    BY InvImpliesReason DEF EngineInv
<1> QED
    BY <1>1, Invariance, PTL

(* With the layers on the processor and one accelerator, a policy is       *)
(* conditioned on the outputs it asked for, all of them of its own prompt  *)
(* (extract_layer_hidden_states and its like).                             *)
THEOREM ConditioningWhole ==
    ASSUME OneAccelerator
    PROVE  Spec => []ConditioningIsWhole
<1>1. EngineInv => ConditioningIsWhole
    BY InvImpliesConditioning DEF EngineInv
<1> QED
    BY <1>1, Invariance, PTL

(* The bridge has the prompt and the count of the prediction under way.    *)
PromptInv ==
    stage # "ready" =>
        /\ call.tokens = PromptOf(observation)
        /\ call.count = Branch.count
        /\ ImageFits(observation)
        /\ Instruction(observation).ok

LEMMA BranchKept ==
    ASSUME variant' = variant
    PROVE  Branch' = Branch
BY DEF Branch, OFTBranch, GR00TBranch, PIBranch, PIV3Branch, FASTBranch

LEMMA PromptKept ==
    ASSUME PromptInv, stage # "ready", UNCHANGED <<call, observation, variant>>
    PROVE  PromptInv'
<1>1. Branch' = Branch
    BY BranchKept
<1>2. /\ PromptOf(observation)' = PromptOf(observation)
      /\ ImageFits(observation)' = ImageFits(observation)
      /\ Instruction(observation)' = Instruction(observation)
    BY DEF PromptOf, ImageFits, ImageSize, Instruction, StateWords
<1> QED
    BY <1>1, <1>2 DEF PromptInv

LEMMA PromptStep ==
    ASSUME EngineInv, PromptInv, Next
    PROVE  PromptInv'
<1>1. ASSUME stage' = "ready" PROVE PromptInv'
    BY <1>1 DEF PromptInv
<1>2. ASSUME UNCHANGED <<stage, call, observation, variant>>
      PROVE  PromptInv'
    BY <1>1, <1>2, PromptKept
<1>3. CASE Make \/ Unmake
    <2>1. UNCHANGED engineVars
        BY <1>3 DEF Make, Unmake
    <2> QED BY <1>2, <2>1 DEF engineVars, bridgeVars
<1>4. CASE HandOver
    <2>1. phase = "loading" /\ stage' = stage
        BY <1>4 DEF HandOver, Loaded
    <2>2. stage = "ready"
        BY <2>1, Idle DEF EngineInv, PhaseInv
    <2> QED BY <1>1, <2>1, <2>2
<1>5. CASE Use
    <2>1. CASE Reset
        BY <1>1, <2>1 DEF Reset, BridgeReset
    <2>2. ASSUME NEW o \in Observations, BeginPredict(o)
          PROVE  PromptInv'
        BY <1>1, <2>2, Idle DEF BeginPredict, bridgeVars
    <2> QED BY <1>5, <2>1, <2>2 DEF Use
<1>6. CASE Destroy
    BY <1>1, <1>6, Idle DEF Destroy
<1>7. CASE Predict
    <2>1. CASE CallBridge
        <3>1. /\ call'.tokens = PromptOf(observation)
              /\ call'.count = Branch.count
            BY <2>1 DEF CallBridge, BridgeCall
        <3>2. /\ observation' = observation
              /\ ImageFits(observation) /\ Instruction(observation).ok
            BY <2>1 DEF CallBridge
        <3>3. variant' = variant
            BY <2>1 DEF CallBridge
        <3>4. Branch' = Branch
            BY <3>3, BranchKept
        <3>5. /\ PromptOf(observation)' = PromptOf(observation)
              /\ ImageFits(observation)' = ImageFits(observation)
              /\ Instruction(observation)' = Instruction(observation)
            BY <3>2, <3>3
            DEF PromptOf, ImageFits, ImageSize, Instruction, StateWords
        <3> QED BY <3>1, <3>2, <3>4, <3>5 DEF PromptInv
    <2>2. CASE StepBridge
        <3>1. UNCHANGED call /\ stage # "ready"
            BY <2>2, BridgeStepFrame DEF StepBridge
        <3>2. UNCHANGED <<observation, variant>>
            BY <2>2 DEF StepBridge
        <3> QED BY <3>1, <3>2, PromptKept
    <2>3. CASE BuildHead \/ WriteHead
        BY <1>2, <2>3 DEF BuildHead, WriteHead, bridgeVars
    <2>4. CASE RefuseObservation
        BY <1>1, <2>4
        DEF RefuseObservation, bridgeVars, EngineInv, StageInv
    <2>5. CASE FailBridge \/ FinishFAST \/ FailBuildHead \/ ComputeHead
               \/ FailHead
        BY <1>1, <2>5
        DEF FailBridge, FinishFAST, FailBuildHead, ComputeHead, FailHead,
            BridgeTaken
    <2> QED
        BY <1>7, <2>1, <2>2, <2>3, <2>4, <2>5 DEF Predict, PredictStep
<1> QED
    BY <1>3, <1>4, <1>5, <1>6, <1>7 DEF Next

(* Whatever a task says, an OFT policy is given the rows of the tokens that*)
(* the engine put behind it, as long as the template has no action tokens  *)
(* behind the instruction (build_oft_instruction and                       *)
(* extract_token_embeddings).                                              *)
THEOREM QueriesAreTheEngines ==
    ASSUME NoQueriesAfterTask
    PROVE  Spec => []QueriesAreSuffix
<1>1. Init => EngineInv /\ PromptInv
    <2>1. Init => PromptInv
        BY DEF Init, PredictionInit, BridgeInit, PromptInv
    <2> QED BY <2>1, InitStep
<1>2. EngineInv /\ PromptInv /\ [Next]_vars => PromptInv'
    <2> SUFFICES ASSUME EngineInv, PromptInv, UNCHANGED vars
                 PROVE  PromptInv'
        BY PromptStep
    <2>1. UNCHANGED <<stage, call, observation, variant>>
        BY DEF vars, loadingVars, engineVars, bridgeVars
    <2>2. CASE stage = "ready"
        BY <2>1, <2>2 DEF PromptInv
    <2>3. CASE stage # "ready"
        BY <2>1, <2>3, PromptKept
    <2> QED BY <2>2, <2>3
<1>3. EngineInv /\ PromptInv => QueriesAreSuffix
    <2> SUFFICES ASSUME EngineInv, PromptInv, stage = "returned", answer.ok,
                        call.kind = "tokens"
                 PROVE  QueriesAreSuffix
        BY DEF QueriesAreSuffix
    <2> DEFINE b == Cardinality(AfterTask)
               n == Len(call.tokens)
    <2>1. /\ call.kind = Branch.kind
          /\ answer.rows = Queries
          /\ variant \in StarVLA /\ observation \in Observations
        BY DEF EngineInv, StageInv, BridgeInv, AnswerInv, PhaseInv
    <2>2. variant \in OFT
        <3>1. /\ GR00TBranch.kind = "full" /\ FASTBranch.kind = "generate"
              /\ PIBranch.kind = "layers" /\ PIV3Branch.kind = "layers"
            BY DEF GR00TBranch, FASTBranch, PIBranch, PIV3Branch
        <3> QED BY <2>1, <3>1, BranchIs DEF StarVLA
    <2>3. call.count = horizon /\ call.tokens = PromptOf(observation)
        BY <2>1, <2>2, BranchIs DEF PromptInv, OFTBranch
    <2>4. ImageFits(observation) /\ Instruction(observation).ok
        BY DEF PromptInv
    <2>5. PICK l \in Nat : Ending(call.tokens, l, b + 1)
        BY <2>1, <2>2, <2>3, <2>4, PromptEnds
    <2>6. Queries = l + 1 .. l + horizon /\ n = l + horizon + 1 + (b + 1)
        BY <2>3, <2>5, QueriesFound
    <2>7. b \in Nat
        <3>1. IsFiniteSet(AfterTask)
            <4>1. Len(cot_template) \in Nat
                BY TextAssumption, LenProperties
            <4>2. AfterTask \in SUBSET (1 .. Len(cot_template))
                BY DEF AfterTask
            <4> QED BY <4>1, <4>2, PartOfRange
        <3> QED BY <3>1, FS_CardinalityType
    <2>8. n - 2 - b = l + horizon /\ n - 2 - b - horizon + 1 = l + 1
        <3> HIDE DEF b, n
        <3> QED BY <2>6, <2>7, HeadAssumption
    <2>9. answer.rows = n - 2 - b - horizon + 1 .. n - 2 - b
        BY <2>1, <2>6, <2>8
    <2> QED BY <2>9 DEF QueriesAreSuffix
<1>4. Spec => []EngineInv
    BY Invariance
<1> QED
    BY <1>1, <1>2, <1>3, <1>4, PTL DEF Spec

(* What a head that is about to be computed looks like.                    *)
LEMMA HeadAtCompute ==
    ASSUME EngineInv, OneAccelerator, pc = "compute"
    PROVE  /\ variant \in StarVLA /\ variant \notin FAST
           /\ answer.from = {id}
           /\ Fits(HeadTokens, UsesState)
           /\ head.shape = HeadTokens
           /\ "hidden" \in DOMAIN head.inputs \/ "input" \in DOMAIN head.inputs
           /\ variant \notin OFT =>
                /\ head.rows = Rows(head.graph_uses_state)
                /\ "state" \in DOMAIN head.inputs <=> head.graph_uses_state
<1>1. /\ variant \in StarVLA /\ variant \notin FAST
      /\ stage = "returned" /\ answer.ok
    BY DEF EngineInv, PhaseInv, StageInv
<1>2. answer.from = {id}
    BY <1>1 DEF EngineInv, BridgeInv, AnswerInv, StageInv
<1>3. Fits(HeadTokens, UsesState)
    BY DEF EngineInv, ComputeInv
<1>4. HeadTokens # 0
    BY <1>1, HeadTokensPositive
<1>5. head.graph /\ head.token_count # 0 /\ head.token_count = HeadTokens
    BY <1>3, <1>4 DEF Fits
<1> QED
    BY <1>1, <1>2, <1>3, <1>5 DEF EngineInv, HeadInv, HeadIsSound

(* A head is computed with the graph of its own call, also when that graph *)
(* was built for another call or building it failed the last time: as many *)
(* rows of conditioning, a row for the state exactly when there is one,    *)
(* the rows of the actions given out, and every input written (evaluate of *)
(* the policies).                                                          *)
THEOREM HeadFits ==
    ASSUME OneAccelerator
    PROVE  Spec => []GraphFitsRequest
<1>1. EngineInv => GraphFitsRequest
    <2> SUFFICES ASSUME EngineInv, pc = "compute"
                 PROVE  GraphFitsRequest
        BY DEF GraphFitsRequest
    <2> USE HeadAtCompute
    <2>1. \A i \in DOMAIN head.inputs : head.inputs[i] \subseteq {id}
        BY DEF EngineInv, ComputeInv
    <2>2. ASSUME variant \notin OFT
          PROVE  /\ UsesState <=> head.rows[1] = "state"
                 /\ UsesState <=> "state" \in DOMAIN head.inputs
                 /\ Velocity(head.rows, head.graph_uses_state) =
                       [i \in 1 .. horizon |-> "action"]
        <3> DEFINE b == head.graph_uses_state
        <3>1. b \in BOOLEAN /\ (b <=> UsesState)
            <4>1. UsesState \in BOOLEAN
                BY DEF UsesState
            <4>2. b = UsesState
                BY DEF Fits
            <4> QED BY <4>1, <4>2
        <3>2. head.rows = Rows(b) /\ ("state" \in DOMAIN head.inputs <=> b)
            BY <2>2
        <3> HIDE DEF b
        <3>3. /\ Velocity(Rows(b), b) = [i \in 1 .. horizon |-> "action"]
              /\ Rows(b)[1] = "state" <=> b
            BY <3>1, RowsAre
        <3>4. Velocity(head.rows, b) = [i \in 1 .. horizon |-> "action"]
            BY <3>2, <3>3
        <3>5. UsesState <=> head.rows[1] = "state"
            BY <3>1, <3>2, <3>3
        <3>6. UsesState <=> "state" \in DOMAIN head.inputs
            BY <3>1, <3>2
        <3> QED BY <3>4, <3>5, <3>6 DEF b
    <2> QED BY <2>1, <2>2 DEF GraphFitsRequest
<1> QED
    BY <1>1, Invariance, PTL

(* What an engine that is computed gives is computed from its own call.    *)
LEMMA OutputIsOfCall ==
    ASSUME EngineInv, OneAccelerator, pc = "compute"
    PROVE  OutputFrom = {id}
<1>1. \A i \in DOMAIN head.inputs : head.inputs[i] \subseteq {id}
    BY HeadAtCompute DEF EngineInv, ComputeInv
<1>2. PICK i \in DOMAIN head.inputs : head.inputs[i] = {id}
    BY HeadAtCompute DEF EngineInv, ComputeInv
<1> QED
    BY <1>1, <1>2 DEF OutputFrom

(* Steps that neither begin nor end a prediction.                          *)
LEMMA PromiseStutters ==
    ASSUME UNCHANGED <<id, result>>, (pc' # "idle") <=> (pc # "idle")
    PROVE  UNCHANGED Promise!vars
<1>1. (pc # "idle")' = (pc # "idle")
    OBVIOUS
<1> QED
    BY <1>1 DEF Promise!vars

LEMMA PromiseReturns ==
    ASSUME pc # "idle", NEW r, ReturnResult(r),
           r \in {Failed, [ok |-> TRUE, from |-> {id}]}
    PROVE  Promise!Return
BY DEF Promise!Return, Promise!Failed, ReturnResult, Failed

LEMMA PredictKeepsPromise ==
    ASSUME EngineInv, OneAccelerator, PredictStep
    PROVE  Promise!Return \/ UNCHANGED Promise!vars
<1>1. CASE RefuseObservation \/ FailBridge \/ FailBuildHead \/ FailHead
    <2>1. pc # "idle" /\ ReturnResult(Failed)
        BY <1>1
        DEF RefuseObservation, FailBridge, FailBuildHead, CanEvaluate,
            FailHead
    <2> QED BY <2>1, PromiseReturns
<1>2. CASE FinishFAST
    <2> DEFINE r == IF Decoded.ok THEN [ok |-> TRUE, from |-> answer.from]
                    ELSE Failed
    <2>1. answer.from = {id}
        BY <1>2 DEF FinishFAST, EngineInv, BridgeInv, AnswerInv, StageInv
    <2>2. r \in {Failed, [ok |-> TRUE, from |-> {id}]}
        BY <2>1
    <2>3. pc # "idle" /\ ReturnResult(r)
        BY <1>2 DEF FinishFAST
    <2> HIDE DEF r
    <2> QED BY <2>2, <2>3, PromiseReturns
<1>3. CASE ComputeHead
    <2> DEFINE r == [ok |-> TRUE, from |-> OutputFrom]
    <2>1. pc = "compute" /\ ReturnResult(r)
        BY <1>3 DEF ComputeHead
    <2>2. r \in {Failed, [ok |-> TRUE, from |-> {id}]}
        BY <2>1, OutputIsOfCall
    <2> HIDE DEF r
    <2> QED BY <2>1, <2>2, PromiseReturns
<1>4. CASE CallBridge \/ StepBridge \/ BuildHead \/ WriteHead
    <2>1. /\ UNCHANGED <<id, result>>
          /\ pc # "idle" /\ pc' # "idle"
        BY <1>4
        DEF CallBridge, StepBridge, BuildHead, WriteHead, CanEvaluate
    <2> QED BY <2>1, PromiseStutters
<1> QED
    BY <1>1, <1>2, <1>3, <1>4 DEF PredictStep

(* A StarVLA engine implements Predictor: whatever is placed, built,       *)
(* failed and freed, a call fails or returns actions computed from its own *)
(* observation and from nothing that an earlier call left                  *)
(* (StarVLAEngine::predict).                                               *)
THEOREM EngineImplementsPredictor ==
    ASSUME OneAccelerator
    PROVE  Spec => ImplementsPredictor
<1>1. Init => Promise!Init
    BY DEF Init, PredictionInit, Promise!Init, Promise!Failed, Failed
<1>2. EngineInv /\ [Next]_vars => [Promise!Next]_(Promise!vars)
    <2> SUFFICES ASSUME EngineInv, [Next]_vars
                 PROVE  Promise!Next \/ UNCHANGED Promise!vars
        BY DEF Promise!vars
    <2>1. CASE Make \/ Unmake \/ HandOver \/ Destroy \/ UNCHANGED vars
        <3>1. UNCHANGED <<id, result, pc>>
            BY <2>1 DEF Make, Unmake, HandOver, Destroy, vars, engineVars
        <3> QED BY <3>1, PromiseStutters
    <2>2. CASE Predict
        BY <2>2, PredictKeepsPromise DEF Predict, Promise!Next
    <2>3. CASE Use
        <3>1. ASSUME NEW o \in Observations, BeginPredict(o)
              PROVE  Promise!Call
            BY <3>1 DEF BeginPredict, Promise!Call
        <3>2. CASE Reset
            BY <3>2, PromiseStutters DEF Reset
        <3> QED BY <2>3, <3>1, <3>2 DEF Use, Promise!Next
    <2> QED BY <2>1, <2>2, <2>3 DEF Next
<1> QED
    BY <1>1, <1>2, Invariance, PTL DEF Spec, ImplementsPredictor, Promise!Spec

---------------------------------------------------------------------------
(* Products and quotients                                                  *)

LEMMA ProductIsNat ==
    ASSUME NEW a \in Nat, NEW b \in Nat
    PROVE  a * b \in Nat
OBVIOUS

LEMMA ProductIsInt ==
    ASSUME NEW a \in Int, NEW b \in Int
    PROVE  a * b \in Int
OBVIOUS

LEMMA ProductGrows ==
    ASSUME NEW a \in Nat, NEW b \in Nat, NEW c \in Nat, NEW d \in Nat,
           a <= b, c <= d
    PROVE  a * c <= b * d
<1>1. a * c <= b * c
    OBVIOUS
<1>2. b * c <= b * d
    OBVIOUS
<1> QED
    BY <1>1, <1>2

LEMMA TimesGrows ==
    ASSUME NEW d \in Nat, NEW x \in Int, NEW y \in Int, x <= y
    PROVE  d * x <= d * y
<1>1. d * (y - x) \in Nat
    BY ProductIsNat
<1>2. d * (y - x) = d * y - d * x
    OBVIOUS
<1>3. d * x \in Int /\ d * y \in Int
    BY ProductIsInt
<1> QED
    BY <1>1, <1>2, <1>3

LEMMA Quotient ==
    ASSUME NEW a \in Nat, NEW d \in Nat \ {0}
    PROVE  /\ a \div d \in Nat
           /\ d * (a \div d) <= a
           /\ a < d * (a \div d) + d
OBVIOUS

(* A multiple below another one is a multiple of less.                     *)
LEMMA FewerTimes ==
    ASSUME NEW d \in Nat \ {0}, NEW q \in Int, NEW r \in Int,
           d * q < d * r + d
    PROVE  q <= r
<1>1. d * (q - r) < d
    OBVIOUS
<1>2. CASE q - r >= 1
    <2>1. d * (q - r) >= d
        BY <1>2
    <2> QED BY <1>1, <2>1
<1> QED
    BY <1>2

---------------------------------------------------------------------------
(* Rounding                                                                *)

LEMMA DistanceIs ==
    ASSUME NEW x \in Int, NEW y \in Int
    PROVE  /\ Distance(x, y) \in Nat
           /\ Distance(x, y) >= x - y
           /\ Distance(x, y) >= y - x
           /\ x >= y => Distance(x, y) = x - y
           /\ x <= y => Distance(x, y) = y - x
BY DEF Distance

LEMMA FloatIs ==
    ASSUME NEW f \in Float
    PROVE  f \in Int /\ -Infinity < f /\ f < Infinity /\ Infinity \in Nat
BY FloatAssumption

LEMMA ProductLess ==
    ASSUME NEW d \in Nat \ {0}, NEW x \in Int, NEW y \in Int, x < y
    PROVE  d * x < d * y
<1>1. y - x \in Nat \ {0}
    OBVIOUS
<1>2. d * (y - x) > 0
    BY <1>1
<1>3. d * (y - x) = d * y - d * x
    OBVIOUS
<1>4. d * x \in Int /\ d * y \in Int
    BY ProductIsInt
<1> QED
    BY <1>2, <1>3, <1>4

LEMMA NearestExists ==
    ASSUME NEW num \in Int, NEW den \in Nat \ {0}
    PROVE  \E f \in Float : IsNearest(f, num, den)
<1> DEFINE away(f) == Distance(den * f, num)
           D == {away(f) : f \in Float}
<1>1. \A f \in Float : away(f) \in Nat
    <2> TAKE f \in Float
    <2>1. den * f \in Int
        BY FloatIs, ProductIsInt
    <2> QED BY <2>1, DistanceIs
<1>2. D \in SUBSET Nat /\ D # {}
    <2>1. 0 \in Float
        BY FloatAssumption
    <2> HIDE DEF away
    <2> QED BY <1>1, <2>1
<1>3. PICK d \in D : \A e \in D : d <= e
    <2> HIDE DEF D
    <2> QED BY <1>2, LeastElement
<1>4. PICK f \in Float : d = away(f)
    BY <1>3
<1>5. \A g \in Float : away(f) <= away(g)
    <2> HIDE DEF away
    <2> QED BY <1>3, <1>4
<1> QED
    BY <1>5 DEF IsNearest

(* An exact result is midway between two floats that are equally near.     *)
LEMMA Midway ==
    ASSUME NEW num \in Int, NEW den \in Nat \ {0},
           NEW f \in Float, NEW g \in Float, f < g,
           IsNearest(f, num, den), IsNearest(g, num, den)
    PROVE  /\ den * f < num
           /\ num < den * g
           /\ den * f + den * g = 2 * num
           /\ Adjacent(f, g)
<1> DEFINE low == den * f
           high == den * g
<1>1. f \in Int /\ g \in Int
    BY FloatIs
<1>2. low \in Int /\ high \in Int /\ low < high
    BY <1>1, ProductIsInt, ProductLess
<1>3. Distance(low, num) = Distance(high, num)
    <2>1. /\ Distance(low, num) <= Distance(high, num)
          /\ Distance(high, num) <= Distance(low, num)
        BY DEF IsNearest
    <2> HIDE DEF low, high
    <2>2. Distance(low, num) \in Nat /\ Distance(high, num) \in Nat
        BY <1>2, DistanceIs
    <2> QED BY <2>1, <2>2
<1>4. low < num /\ num < high /\ low + high = 2 * num
    <2> HIDE DEF low, high
    <2> QED BY <1>2, <1>3 DEF Distance
<1>5. ASSUME NEW h \in Float, f < h, h < g
      PROVE  FALSE
    <2> DEFINE between == den * h
    <2>1. h \in Int
        BY FloatIs
    <2>2. between \in Int /\ low < between /\ between < high
        BY <1>1, <1>5, <2>1, ProductIsInt, ProductLess
    <2>3. Distance(low, num) <= Distance(between, num)
        BY <1>5 DEF IsNearest
    <2> HIDE DEF low, high, between
    <2> QED BY <1>2, <1>4, <2>2, <2>3 DEF Distance
<1> QED
    BY <1>4, <1>5 DEF Adjacent

(* A result in the range of the floats is rounded to a nearest one.        *)
LEMMA RoundIsNearest ==
    ASSUME NEW num \in Int, NEW den \in Nat \ {0},
           ~(num >= den * Infinity), ~(num <= -(den * Infinity))
    PROVE  /\ Round(num, den) \in Float
           /\ IsNearest(Round(num, den), num, den)
<1> DEFINE IsRounded(f) ==
               /\ IsNearest(f, num, den)
               /\ \A g \in Float \ {f} :
                     IsNearest(g, num, den) => f % (2 * Distance(f, g)) = 0
<1>1. \E f \in Float : IsRounded(f)
    <2>1. PICK f \in Float : IsNearest(f, num, den)
        BY NearestExists
    <2>2. CASE \A g \in Float \ {f} : ~IsNearest(g, num, den)
        BY <2>1, <2>2
    <2>3. CASE \E g \in Float \ {f} : IsNearest(g, num, den)
        <3>1. PICK a \in Float, b \in Float :
                  /\ a < b
                  /\ IsNearest(a, num, den)
                  /\ IsNearest(b, num, den)
            <4>1. PICK g \in Float \ {f} : IsNearest(g, num, den)
                BY <2>3
            <4>2. f \in Int /\ g \in Int /\ f # g
                BY <4>1, FloatIs
            <4>3. CASE f < g
                BY <2>1, <4>1, <4>3
            <4>4. CASE g < f
                BY <2>1, <4>1, <4>4
            <4> QED BY <4>2, <4>3, <4>4
        <3>2. a \in Int /\ b \in Int
            BY FloatIs
        <3>3. Adjacent(a, b)
            BY <3>1, Midway
        <3>4. PICK e \in {a, b} : e % (2 * (b - a)) = 0
            BY <3>3, FloatAssumption
        <3>5. ASSUME NEW g \in Float, IsNearest(g, num, den)
              PROVE  g \in {a, b}
            <4>1. g \in Int
                BY FloatIs
            <4>2. CASE g < a
                <5>1. Adjacent(g, b)
                    BY <3>1, <3>2, <3>5, <4>1, <4>2, Midway
                <5> QED BY <3>1, <4>2, <5>1 DEF Adjacent
            <4>3. CASE a < g /\ g < b
                BY <3>3, <4>3 DEF Adjacent
            <4>4. CASE b < g
                <5>1. Adjacent(a, g)
                    BY <3>1, <3>2, <3>5, <4>1, <4>4, Midway
                <5> QED BY <3>1, <4>4, <5>1 DEF Adjacent
            <4> QED BY <3>2, <4>1, <4>2, <4>3, <4>4
        <3>6. ASSUME NEW g \in Float \ {e}, IsNearest(g, num, den)
              PROVE  e % (2 * Distance(e, g)) = 0
            <4>1. g \in {a, b}
                BY <3>5, <3>6
            <4>2. Distance(e, g) = b - a
                BY <3>1, <3>2, <3>4, <4>1 DEF Distance
            <4> QED BY <3>4, <4>2
        <3>7. e \in Float /\ IsNearest(e, num, den)
            BY <3>1, <3>4
        <3> QED BY <3>6, <3>7
    <2> QED BY <2>2, <2>3
<1>2. Round(num, den) = CHOOSE f \in Float : IsRounded(f)
    BY DEF Round
<1>3. IsRounded(Round(num, den)) /\ Round(num, den) \in Float
    BY <1>1, <1>2
<1> QED
    BY <1>3

LEMMA RoundIsNumber ==
    ASSUME NEW num \in Int, NEW den \in Nat \ {0}
    PROVE  /\ Round(num, den) \in Float \cup {Infinity, -Infinity}
           /\ Round(num, den) \in Int
<1>1. Round(num, den) \in Float \cup {Infinity, -Infinity}
    <2>1. CASE num >= den * Infinity \/ num <= -(den * Infinity)
        BY <2>1 DEF Round
    <2>2. CASE ~(num >= den * Infinity) /\ ~(num <= -(den * Infinity))
        BY <2>2, RoundIsNearest
    <2> QED BY <2>1, <2>2
<1>2. \A f \in Float : f \in Int
    BY FloatIs
<1>3. Infinity \in Int /\ -Infinity \in Int
    BY FloatAssumption
<1> QED
    BY <1>1, <1>2, <1>3

(* What a float is a bound of is so when it is rounded.                    *)
LEMMA RoundAtLeast ==
    ASSUME NEW num \in Int, NEW den \in Nat \ {0}, NEW f \in Float,
           den * f <= num
    PROVE  f <= Round(num, den)
<1> DEFINE least == den * f
           bound == den * Infinity
<1>1. f \in Int /\ -Infinity < f /\ f < Infinity /\ Infinity \in Nat
    BY FloatIs
<1>2. least \in Int /\ bound \in Int /\ least <= num /\ -bound < least
    <2>1. least \in Int /\ bound \in Int /\ den * (-Infinity) \in Int
        BY <1>1, ProductIsInt
    <2>2. den * (-Infinity) < least
        BY <1>1, ProductLess
    <2>3. den * (-Infinity) = -bound
        BY <1>1
    <2> QED BY <2>1, <2>2, <2>3
<1>3. CASE num >= bound
    BY <1>1, <1>3 DEF Round
<1>4. CASE ~(num >= bound)
    <2>1. ~(num <= -bound)
        <3> HIDE DEF least, bound
        <3> QED BY <1>2
    <2> DEFINE r == Round(num, den)
               here == den * r
    <2>2. r \in Float /\ IsNearest(r, num, den)
        BY <1>4, <2>1, RoundIsNearest
    <2> HIDE DEF r
    <2>3. r \in Int
        BY <2>2, FloatIs
    <2>4. Distance(here, num) <= Distance(least, num)
        BY <2>2 DEF IsNearest
    <2>5. ~(r < f)
        <3> SUFFICES ASSUME r < f
                     PROVE  FALSE
            OBVIOUS
        <3>1. here \in Int /\ here < least
            BY <1>1, <2>3, ProductIsInt, ProductLess
        <3> HIDE DEF least, here
        <3> QED BY <1>2, <2>4, <3>1 DEF Distance
    <2> QED BY <1>1, <2>3, <2>5 DEF r
<1> QED
    BY <1>3, <1>4

LEMMA RoundAtMost ==
    ASSUME NEW num \in Int, NEW den \in Nat \ {0}, NEW f \in Float,
           num <= den * f
    PROVE  Round(num, den) <= f
<1> DEFINE most == den * f
           bound == den * Infinity
<1>1. f \in Int /\ -Infinity < f /\ f < Infinity /\ Infinity \in Nat
    BY FloatIs
<1>2. most \in Int /\ bound \in Int /\ num <= most /\ most < bound
    BY <1>1, ProductIsInt, ProductLess
<1>3. ~(num >= bound)
    <2> HIDE DEF most, bound
    <2> QED BY <1>2
<1>4. CASE num <= -bound
    BY <1>1, <1>3, <1>4 DEF Round
<1>5. CASE ~(num <= -bound)
    <2> DEFINE r == Round(num, den)
               here == den * r
    <2>1. r \in Float /\ IsNearest(r, num, den)
        BY <1>3, <1>5, RoundIsNearest
    <2> HIDE DEF r
    <2>2. r \in Int
        BY <2>1, FloatIs
    <2>3. Distance(here, num) <= Distance(most, num)
        BY <2>1 DEF IsNearest
    <2>4. ~(f < r)
        <3> SUFFICES ASSUME f < r
                     PROVE  FALSE
            OBVIOUS
        <3>1. here \in Int /\ most < here
            BY <1>1, <2>2, ProductIsInt, ProductLess
        <3> HIDE DEF most, here
        <3> QED BY <1>2, <2>3, <3>1 DEF Distance
    <2> QED BY <1>1, <2>2, <2>4 DEF r
<1> QED
    BY <1>4, <1>5

(* A whole number of steps is rounded by one part in Precision at most.    *)
LEMMA RoundIsClose ==
    ASSUME NEW x \in Int, -Infinity < x, x < Infinity
    PROVE  /\ Round(x, 1) \in Float
           /\ Precision * Distance(Round(x, 1), x) <= Magnitude(x)
<1> DEFINE r == Round(x, 1)
<1>1. Infinity \in Nat /\ Precision \in Nat
    BY FloatAssumption
<1>2. r \in Float /\ IsNearest(r, x, 1)
    BY <1>1, RoundIsNearest
<1>3. PICK f \in Float : Precision * Distance(f, x) <= Magnitude(x)
    BY <1>1, FloatAssumption
<1> HIDE DEF r
<1>4. r \in Int /\ f \in Int
    BY <1>2, FloatIs
<1>5. Distance(r, x) <= Distance(f, x)
    BY <1>2, <1>4 DEF IsNearest
<1> DEFINE d == Distance(r, x)
           e == Distance(f, x)
<1>6. d \in Nat /\ e \in Nat /\ d <= e
    BY <1>4, <1>5, DistanceIs
<1>7. Magnitude(x) \in Int
    BY DistanceIs DEF Magnitude
<1>8. Precision * e <= Magnitude(x)
    BY <1>3
<1> HIDE DEF d, e
<1>9. Precision * d <= Precision * e
    BY <1>1, <1>6, ProductGrows
<1>10. Precision * d \in Int /\ Precision * e \in Int
    BY <1>1, <1>6, ProductIsInt
<1>11. Precision * d <= Magnitude(x)
    BY <1>7, <1>8, <1>9, <1>10
<1> QED
    BY <1>2, <1>11 DEF r, d

---------------------------------------------------------------------------
(* The choice of a token                                                   *)

Scores == Float \cup {Infinity, -Infinity}

LEMMA ScoreIsInt ==
    ASSUME NEW score \in Scores
    PROVE  score \in Int
<1>1. Infinity \in Int /\ -Infinity \in Int
    BY FloatAssumption
<1> QED
    BY <1>1, FloatIs DEF Scores

LEMMA PenalisedIsScore ==
    ASSUME NEW score \in Scores, NEW penalty \in Float, penalty > 0
    PROVE  Penalised(score, penalty) \in Scores
<1>1. penalty \in Nat \ {0} /\ Unit \in Nat \ {0}
    BY FloatIs, FloatAssumption
<1>2. score * penalty \in Int /\ score * Unit \in Int
    BY <1>1, ScoreIsInt, ProductIsInt
<1>3. /\ Round(score * penalty, Unit) \in Scores
      /\ Round(score * Unit, penalty) \in Scores
    BY <1>1, <1>2, RoundIsNumber DEF Scores
<1> QED
    BY <1>3 DEF Penalised

LEMMA PenalisedIsNoBetter ==
    ASSUME NEW score \in Scores, NEW penalty \in Float, penalty >= Unit
    PROVE  Penalised(score, penalty) <= score
<1>1. /\ penalty \in Nat \ {0} /\ Unit \in Nat \ {0} /\ score \in Int
      /\ Unit <= penalty
    BY FloatIs, FloatAssumption, ScoreIsInt
<1> DEFINE product == score * penalty
           shifted == score * Unit
<1>2. product \in Int /\ shifted \in Int
    BY <1>1, ProductIsInt
<1>3. CASE score \notin Float
    BY <1>1, <1>3 DEF Penalised
<1>4. CASE score \in Float /\ score < 0
    <2>1. product <= Unit * score
        <3>1. (-score) * Unit <= (-score) * penalty
            BY <1>1, <1>4, ProductGrows
        <3>2. /\ (-score) * Unit = -(Unit * score)
              /\ (-score) * penalty = -product
            BY <1>1
        <3>3. Unit * score \in Int
            BY <1>1, ProductIsInt
        <3> HIDE DEF product
        <3> QED BY <1>2, <3>1, <3>2, <3>3
    <2> HIDE DEF product
    <2>2. Round(product, Unit) <= score
        BY <1>1, <1>2, <1>4, <2>1, RoundAtMost
    <2> QED BY <1>4, <2>2 DEF Penalised, product
<1>5. CASE score \in Float /\ ~(score < 0)
    <2>1. shifted <= penalty * score
        <3>1. score * Unit <= score * penalty
            BY <1>1, <1>5, ProductGrows
        <3>2. score * penalty = penalty * score
            BY <1>1
        <3> QED BY <3>1, <3>2
    <2> HIDE DEF shifted
    <2>2. Round(shifted, penalty) <= score
        BY <1>1, <1>2, <1>5, <2>1, RoundAtMost
    <2> QED BY <1>5, <2>2 DEF Penalised, shifted
<1> QED
    BY <1>3, <1>4, <1>5

(* The first of the best tokens exists.                                    *)
Best(score, n, t) ==
    \A u \in 0 .. n : score[u] < score[t] \/ (score[u] = score[t] /\ t <= u)

LEMMA BestExists ==
    ASSUME NEW n \in Nat, NEW score \in [0 .. n -> Int]
    PROVE  \E t \in 0 .. n : Best(score, n, t)
<1> DEFINE S == {m \in Nat : m <= n => \E t \in 0 .. m : Best(score, m, t)}
<1>1. 0 \in S
    <2>1. Best(score, 0, 0)
        BY DEF Best
    <2> QED BY <2>1
<1>2. ASSUME NEW m \in Nat, m \in S
      PROVE  m + 1 \in S
    <2> SUFFICES ASSUME m + 1 <= n
                 PROVE  \E t \in 0 .. m + 1 : Best(score, m + 1, t)
        OBVIOUS
    <2>1. PICK t \in 0 .. m : Best(score, m, t)
        BY <1>2
    <2>2. /\ score[t] \in Int
          /\ score[m + 1] \in Int
          /\ \A u \in 0 .. m : score[u] \in Int
        OBVIOUS
    <2>3. CASE score[m + 1] <= score[t]
        <3>1. Best(score, m + 1, t)
            BY <2>1, <2>2, <2>3 DEF Best
        <3> QED BY <3>1
    <2>4. CASE ~(score[m + 1] <= score[t])
        <3>1. Best(score, m + 1, m + 1)
            BY <2>1, <2>2, <2>4 DEF Best
        <3> QED BY <3>1
    <2> QED BY <2>3, <2>4
<1>3. \A m \in Nat : m \in S
    <2> HIDE DEF S
    <2> QED BY <1>1, <1>2, Induction
<1>4. n \in S
    BY <1>3
<1> QED
    BY <1>4

(* A penalty of 1 or more, which a penalty of any other size is not        *)
(* claimed for, makes no token more likely, in rows of scores of any       *)
(* length, finite and not, and for any floats                              *)
(* (qwen_vl_select_repetition_penalized_top1).                             *)
THEOREM NoPenaltyRewards ==
    /\ \A n \in Nat, penalty \in Float :
          \A row \in [0 .. n -> Scores], repeated \in SUBSET (0 .. n) :
              PenaltyNeverRewardsOn(row, repeated, penalty)
    /\ MCFloat \subseteq Float => PenaltyNeverRewards
<1>1. ASSUME NEW n \in Nat, NEW penalty \in Float,
             NEW row \in [0 .. n -> Scores], NEW repeated \in SUBSET (0 .. n)
      PROVE  PenaltyNeverRewardsOn(row, repeated, penalty)
    <2> DEFINE Score(t) ==
                   IF t \in repeated THEN Penalised(row[t], penalty)
                   ELSE row[t]
               score == [t \in 0 .. n |-> Score(t)]
               token == Top1(row, repeated, penalty)
    <2> SUFFICES ASSUME penalty >= Unit
                 PROVE  PenaltyNeverRewardsOn(row, repeated, penalty)
        BY DEF PenaltyNeverRewardsOn
    <2>1. \A t \in 0 .. n : row[t] \in Scores /\ row[t] \in Int
        BY ScoreIsInt
    <2>2. penalty > 0
        BY FloatIs, FloatAssumption
    <2>3. \A t \in 0 .. n : Score(t) \in Int /\ Score(t) <= row[t]
        <3> SUFFICES ASSUME NEW t \in 0 .. n
                     PROVE  Score(t) \in Int /\ Score(t) <= row[t]
            OBVIOUS
        <3>1. CASE t \in repeated
            <4> DEFINE here == row[t]
            <4>1. here \in Scores
                BY <2>1
            <4> HIDE DEF here
            <4>2. /\ Penalised(here, penalty) \in Int
                  /\ Penalised(here, penalty) <= here
                BY <2>2, <4>1, PenalisedIsScore, PenalisedIsNoBetter,
                   ScoreIsInt
            <4> QED BY <3>1, <4>2 DEF here
        <3>2. CASE t \notin repeated
            BY <2>1, <3>2
        <3> QED BY <3>1, <3>2
    <2>4. score \in [0 .. n -> Int]
        BY <2>3
    <2>5. PICK t \in 0 .. n : Best(score, n, t)
        <3> HIDE DEF score
        <3> QED BY <2>4, BestExists
    <2>6. \A u \in 0 .. n : score[u] = Score(u)
        OBVIOUS
    <2>7. \E b \in DOMAIN row :
              \A u \in DOMAIN row :
                  Score(u) < Score(b) \/ (Score(u) = Score(b) /\ b <= u)
        <3> HIDE DEF score, Score
        <3>1. DOMAIN row = 0 .. n
            OBVIOUS
        <3> QED BY <2>5, <2>6, <3>1 DEF Best
    <2>8. /\ token \in DOMAIN row
          /\ \A u \in DOMAIN row : Score(u) < Score(token)
                                   \/ (Score(u) = Score(token) /\ token <= u)
        BY <2>7 DEF Top1
    <2>9. DOMAIN row = 0 .. n
        OBVIOUS
    <2> HIDE DEF token
    <2>10. SUFFICES ASSUME token \in repeated,
                          NEW u \in DOMAIN row \ repeated
                   PROVE  row[token] >= row[u]
        BY DEF PenaltyNeverRewardsOn, token
    <2>11. Score(u) = row[u]
        BY <2>10
    <2>12. Score(u) <= Score(token)
        <3> HIDE DEF Score
        <3> QED BY <2>3, <2>8, <2>9
    <2>13. Score(token) <= row[token]
        BY <2>3, <2>8, <2>9
    <2>14. /\ Score(token) \in Int /\ row[token] \in Int /\ row[u] \in Int
        BY <2>1, <2>3, <2>8, <2>9
    <2> HIDE DEF Score
    <2> QED BY <2>11, <2>12, <2>13, <2>14
<1>2. ASSUME MCFloat \subseteq Float
      PROVE  PenaltyNeverRewards
    <2> DEFINE values == {-Infinity, -8, -7, 7, 8}
    <2>1. /\ -8 \in MCFloat /\ -7 \in MCFloat /\ 7 \in MCFloat
          /\ 8 \in MCFloat /\ 3 \in MCFloat /\ 5 \in MCFloat
        <3>1. /\ -8 = -1 * 2 * 4 /\ -7 = -1 * 7 * 1 /\ 7 = 1 * 7 * 1
              /\ 8 = 1 * 2 * 4 /\ 3 = 1 * 3 * 1 /\ 5 = 1 * 5 * 1
            OBVIOUS
        <3> QED BY <3>1 DEF MCFloat
    <2>2. values \subseteq Scores /\ {3, 5} \subseteq Float
        BY <1>2, <2>1 DEF Scores
    <2>3. [0 .. 2 -> values] \subseteq [0 .. 2 -> Scores]
        BY <2>2
    <2>4. ASSUME NEW row \in [0 .. 2 -> values],
                 NEW repeated \in SUBSET (0 .. 2), NEW penalty \in {3, 5}
          PROVE  PenaltyNeverRewardsOn(row, repeated, penalty)
        <3> HIDE DEF values
        <3>1. row \in [0 .. 2 -> Scores] /\ penalty \in Float /\ 2 \in Nat
            BY <2>2, <2>3
        <3> QED BY <1>1, <3>1
    <2> QED BY <2>4 DEF PenaltyNeverRewards
<1> QED
    BY <1>1, <1>2

---------------------------------------------------------------------------
(* The windows of the resampling                                           *)

(* All numbers of a window, times the width of a target pixel: a is where  *)
(* it starts, b where it ends, and m half of the table's weights.          *)
LEMMA WindowNumbers ==
    ASSUME NEW in \in Nat \ {0}, NEW out \in Nat \ {0},
           NEW o \in 0 .. out - 1
    PROVE  LET s == LargerOf(in, out)
               c == (2 * o + 1) * in
               a == c - 4 * s + out
               b == c + 4 * s + out
               d == 2 * out
               m == (2 * s + out - 1) \div out
           IN  /\ s \in Nat /\ s >= in /\ s >= out
               /\ a \in Int /\ b \in Nat /\ b = a + 8 * s
               /\ a + 3 * s < d * in
               /\ d \in Nat \ {0} /\ b >= 2 * d
               /\ m \in Nat /\ d * m >= 4 * s
<1> DEFINE s == LargerOf(in, out)
           c == (2 * o + 1) * in
           m == (2 * s + out - 1) \div out
<1>1. s \in Nat /\ s >= in /\ s >= out
    BY DEF LargerOf
<1> HIDE DEF s
<1>2. 2 * o + 1 \in Nat /\ 2 * out - 1 \in Nat /\ 2 * o + 1 <= 2 * out - 1
    OBVIOUS
<1>3. c \in Nat
    BY <1>2, ProductIsNat
<1>4. c <= (2 * out - 1) * in
    BY <1>2, ProductGrows
<1>5. (2 * out - 1) * in = 2 * out * in - in
    OBVIOUS
<1>6. c <= 2 * out * in - in
    BY <1>4, <1>5
<1>7. out * in \in Nat
    BY ProductIsNat
<1> HIDE DEF c
<1>8. /\ m \in Nat
      /\ 2 * s + out - 1 < out * m + out
    <2>1. 2 * s + out - 1 \in Nat
        BY <1>1
    <2> QED BY <2>1, Quotient
<1> HIDE DEF m
<1>9. out * m \in Nat
    BY <1>8, ProductIsNat
<1>10. 2 * out * m >= 4 * s
    <2>1. out * m >= 2 * s
        BY <1>1, <1>8, <1>9
    <2>2. 2 * out * m = 2 * (out * m)
        BY <1>8
    <2> QED BY <1>1, <1>9, <2>1, <2>2
<1>11. c - 4 * s + out + 3 * s < 2 * out * in
    <2>1. 2 * out * in = 2 * (out * in)
        OBVIOUS
    <2> QED BY <1>1, <1>3, <1>6, <1>7, <2>1
<1>12. c - 4 * s + out \in Int /\ c + 4 * s + out \in Nat
    BY <1>1, <1>3
<1>13. c + 4 * s + out >= 2 * (2 * out)
    BY <1>1, <1>3
<1>14. c + 4 * s + out = c - 4 * s + out + 8 * s
    BY <1>1, <1>3
<1> QED
    BY <1>1, <1>8, <1>10, <1>11, <1>12, <1>13, <1>14 DEF s, c, m

(* The same, for what the code computes of them.                           *)
LEMMA WindowBetween ==
    ASSUME NEW in \in Nat \ {0}, NEW s \in Nat \ {0}, NEW d \in Nat \ {0},
           NEW a \in Int, NEW b \in Nat, NEW m \in Nat,
           b = a + 8 * s, a + 3 * s < d * in, 2 * s >= d, b >= 2 * d,
           d * m >= 4 * s
    PROVE  LET first == LargerOf(Truncate(a, d), 0)
               end == SmallerOf(Truncate(b, d), in)
           IN  first \in Nat /\ end \in Nat /\ end <= in
               /\ end - first \in 1 .. 2 * m + 1
<1> DEFINE qb == b \div d
<1>1. qb \in Nat /\ d * qb <= b /\ b < d * qb + d
    BY Quotient
<1>2. Truncate(b, d) = qb
    BY DEF Truncate
<1> HIDE DEF qb
<1>3. d * qb \in Nat /\ d * m \in Nat /\ d * in \in Nat
    BY <1>1, ProductIsNat
<1>4. qb >= 1
    <2>1. d * 1 < d * qb + d
        BY <1>1, <1>3
    <2> QED BY <1>1, <2>1, FewerTimes
<1>5. 2 * m + 1 \in Int /\ d * (2 * m + 1) = 2 * (d * m) + d
    OBVIOUS
<1>6. CASE a < 0
    <2>1. LargerOf(Truncate(a, d), 0) = 0
        <3>1. (-a) \in Nat
            BY <1>6
        <3>2. (-a) \div d \in Nat
            BY <3>1, Quotient
        <3>3. Truncate(a, d) = -((-a) \div d)
            BY <1>6 DEF Truncate
        <3>4. ~(Truncate(a, d) > 0)
            BY <3>2, <3>3
        <3> QED BY <3>4 DEF LargerOf
    <2>2. qb <= 2 * m + 1
        <3>1. d * qb < d * (2 * m + 1) + d
            BY <1>1, <1>3, <1>5, <1>6
        <3> QED BY <1>1, <1>5, <3>1, FewerTimes
    <2>3. /\ SmallerOf(qb, in) \in Nat /\ SmallerOf(qb, in) <= in
          /\ SmallerOf(qb, in) >= 1 /\ SmallerOf(qb, in) <= qb
        BY <1>1, <1>4 DEF SmallerOf
    <2> QED BY <1>1, <1>2, <2>1, <2>2, <2>3
<1>7. CASE a >= 0
    <2> DEFINE qa == a \div d
    <2>1. qa \in Nat /\ d * qa <= a /\ a < d * qa + d
        BY <1>7, Quotient
    <2>2. Truncate(a, d) = qa
        BY <1>7 DEF Truncate
    <2> HIDE DEF qa
    <2>3. d * qa \in Nat
        BY <2>1, ProductIsNat
    <2>4. LargerOf(qa, 0) = qa
        BY <2>1 DEF LargerOf
    <2>5. qa + 1 <= in
        <3>1. d * (qa + 1) = d * qa + d
            BY <2>1
        <3>2. d * (qa + 1) < d * in + d
            BY <1>3, <2>1, <2>3, <3>1
        <3> QED BY <2>1, <3>2, FewerTimes
    <2>6. qa + 1 <= qb
        <3>1. d * (qa + 1) = d * qa + d
            BY <2>1
        <3>2. d * (qa + 1) < d * qb + d
            BY <1>1, <1>3, <2>1, <2>3, <3>1
        <3> QED BY <1>1, <2>1, <3>2, FewerTimes
    <2>7. qb - qa <= 2 * m + 1
        <3>1. qb - qa \in Int /\ d * (qb - qa) = d * qb - d * qa
            BY <1>1, <2>1
        <3>2. d * (qb - qa) < d * (2 * m + 1) + d
            BY <1>1, <1>3, <1>5, <2>1, <2>3, <3>1
        <3> QED BY <1>5, <3>1, <3>2, FewerTimes
    <2>8. /\ SmallerOf(qb, in) \in Nat /\ SmallerOf(qb, in) <= in
          /\ SmallerOf(qb, in) >= qa + 1 /\ SmallerOf(qb, in) <= qb
        BY <1>1, <2>1, <2>5, <2>6 DEF SmallerOf
    <2>9. SmallerOf(qb, in) - qa \in 1 .. 2 * m + 1
        BY <1>1, <2>1, <2>7, <2>8
    <2> QED BY <1>2, <2>1, <2>2, <2>4, <2>8, <2>9
<1> QED
    BY <1>6, <1>7

(* For shrinking and for enlarging, whatever the sizes, a target pixel is  *)
(* computed from pixels of the image and weights of the table              *)
(* (make_filter_table).                                                    *)
THEOREM EveryWindowInside ==
    /\ \A in, out \in Nat \ {0} : WindowsInsideOn(in, out)
    /\ WindowsInside
<1>1. ASSUME NEW in \in Nat \ {0}, NEW out \in Nat \ {0}
      PROVE  WindowsInsideOn(in, out)
    <2> SUFFICES ASSUME NEW o \in 0 .. out - 1
                 PROVE  LET window == Window(in, out, o) IN
                        /\ window.first >= 0
                        /\ window.end - window.first
                              \in 1 .. KernelSize(in, out)
                        /\ window.first + Count(in, out, o) <= in
        BY DEF WindowsInsideOn
    <2> DEFINE s == LargerOf(in, out)
               c == (2 * o + 1) * in
               a == c - 4 * s + out
               b == c + 4 * s + out
               d == 2 * out
               m == (2 * s + out - 1) \div out
               first == LargerOf(Truncate(a, d), 0)
               end == SmallerOf(Truncate(b, d), in)
               k == 2 * m + 1
    <2>1. /\ s \in Nat /\ s >= in /\ s >= out
          /\ a \in Int /\ b \in Nat /\ b = a + 8 * s
          /\ a + 3 * s < d * in
          /\ d \in Nat \ {0} /\ b >= 2 * d
          /\ m \in Nat /\ d * m >= 4 * s
        BY WindowNumbers
    <2>2. s \in Nat \ {0} /\ 2 * s >= d
        BY <2>1
    <2>3. /\ Window(in, out, o).first = first
          /\ Window(in, out, o).end = end
          /\ KernelSize(in, out) = k
        BY DEF Window, KernelSize
    <2> HIDE DEF s, c, a, b, d, m
    <2>4. first \in Nat /\ end \in Nat /\ end <= in /\ end - first \in 1 .. k
        BY <2>1, <2>2, WindowBetween
    <2>5. k \in Nat
        BY <2>1
    <2> HIDE DEF first, end, k
    <2>6. Count(in, out, o) = LargerOf(0, SmallerOf(end - first, k))
        BY <2>3 DEF Count
    <2>7. SmallerOf(end - first, k) = end - first
        BY <2>4, <2>5 DEF SmallerOf
    <2>8. LargerOf(0, end - first) = end - first
        BY <2>4, <2>5 DEF LargerOf
    <2>9. first + Count(in, out, o) <= in
        BY <2>4, <2>6, <2>7, <2>8
    <2> QED BY <2>3, <2>4, <2>9
<1>2. WindowsInside
    BY <1>1 DEF WindowsInside
<1> QED
    BY <1>1, <1>2

---------------------------------------------------------------------------
(* The bin of a state                                                      *)

(* The edges that a value has reached.                                     *)
EdgesReached(v, min, max, bins) ==
    {e \in 0 .. bins - 1 : Reaches(v, min, max, bins, e)}

(* The edges that a value misses are those from the first one on, so that  *)
(* its bin is one less than the edges it reaches.                          *)
LEMMA BinCounts ==
    ASSUME NEW v \in Int, NEW min \in Int, NEW max \in Int, min < max,
           NEW bins \in Nat \ {0}
    PROVE  /\ Bin(v, min, max, bins, FALSE)
                  = Cardinality(EdgesReached(v, min, max, bins)) - 1
           /\ v >= min => Bin(v, min, max, bins, FALSE) \in 0 .. bins - 1
<1> DEFINE R(e) == Reaches(v, min, max, bins, e)
           missed == {e \in 0 .. bins - 1 : ~R(e)}
           reached == EdgesReached(v, min, max, bins)
           bin == IF missed = {} THEN bins - 1
                  ELSE (CHOOSE e \in missed : \A f \in missed : e <= f) - 1
<1>1. Bin(v, min, max, bins, FALSE) = bin
    BY DEF Bin
<1>2. reached = {e \in 0 .. bins - 1 : R(e)}
    BY DEF EdgesReached
<1> HIDE DEF reached
<1>3. \A e, f \in Nat : e <= f /\ R(f) => R(e)
    <2> SUFFICES ASSUME NEW e \in Nat, NEW f \in Nat, e <= f, R(f)
                 PROVE  R(e)
        OBVIOUS
    <2> DEFINE x == v * bins
               y == min * bins
               w == max - min
               p == w * e
               q == w * f
    <2>1. x \in Int /\ y \in Int /\ w \in Nat
        BY ProductIsInt
    <2> HIDE DEF x, y, w
    <2>2. p \in Nat /\ q \in Nat /\ p <= q
        BY <2>1, ProductIsNat, ProductGrows
    <2>3. R(e) <=> x >= y + p
        BY DEF Reaches, x, y, w
    <2>4. R(f) <=> x >= y + q
        BY DEF Reaches, x, y, w
    <2> HIDE DEF p, q, R
    <2> QED BY <2>1, <2>2, <2>3, <2>4
<1>4. v >= min => R(0)
    <2>1. (max - min) * 0 = 0 /\ v * bins \in Int /\ min * bins \in Int
        BY ProductIsInt
    <2>2. v >= min => v * bins >= min * bins
        OBVIOUS
    <2> QED BY <2>1, <2>2 DEF Reaches
<1> HIDE DEF R
<1>5. CASE missed = {}
    <2>1. reached = 0 .. bins - 1
        BY <1>5, <1>2
    <2>2. Cardinality(0 .. bins - 1) = bins
        BY FS_Interval
    <2>3. bin = bins - 1 /\ bins - 1 \in 0 .. bins - 1
        BY <1>5
    <2> HIDE DEF bin, missed
    <2> QED BY <1>1, <2>1, <2>2, <2>3 DEF reached
<1>6. CASE missed # {}
    <2> DEFINE e == CHOOSE e \in missed : \A f \in missed : e <= f
    <2>1. e \in missed /\ \A f \in missed : e <= f
        <3>1. missed \in SUBSET Nat
            OBVIOUS
        <3> HIDE DEF missed
        <3>2. \E x \in missed : \A y \in missed : x <= y
            BY <1>6, <3>1, LeastElement
        <3> QED BY <3>2
    <2>2. bin = e - 1
        BY <1>6
    <2> HIDE DEF e, bin
    <2>3. e \in 0 .. bins - 1 /\ ~R(e)
        BY <2>1
    <2>4. reached = 0 .. e - 1
        <3>1. ASSUME NEW i \in reached PROVE i \in 0 .. e - 1
            <4>1. i \in Nat /\ R(i) /\ e \in Nat
                BY <1>2, <2>3
            <4>2. ~(e <= i)
                BY <1>3, <2>3, <4>1
            <4> QED BY <4>1, <4>2
        <3>2. ASSUME NEW i \in 0 .. e - 1 PROVE i \in reached
            <4>1. i \in 0 .. bins - 1 /\ ~(e <= i)
                BY <2>3
            <4>2. i \notin missed
                BY <2>1, <4>1
            <4> QED BY <1>2, <4>1, <4>2
        <3> QED BY <3>1, <3>2
    <2>5. Cardinality(0 .. e - 1) = e
        <3>1. e - 1 \in Int /\ 0 \in Int /\ e \in Nat
            BY <2>3
        <3>2. Cardinality(0 .. e - 1)
                  = IF 0 > e - 1 THEN 0 ELSE (e - 1) - 0 + 1
            BY <3>1, FS_Interval
        <3> QED BY <3>1, <3>2
    <2>6. v >= min => e # 0
        BY <1>4, <2>3
    <2>7. bin = Cardinality(reached) - 1
        BY <2>2, <2>4, <2>5
    <2>8. v >= min => bin \in 0 .. bins - 1
        BY <2>2, <2>3, <2>6
    <2> HIDE DEF missed
    <2> QED BY <1>1, <2>7, <2>8 DEF reached
<1> QED
    BY <1>5, <1>6

(* States are put into the bins that numpy puts them into, for every range *)
(* and every number of bins (discretize_state).                            *)
THEOREM EveryBinMatchesNumpy ==
    /\ \A value, min, max \in Int, bins \in Nat \ {0}, clip \in BOOLEAN :
          min < max => BinsMatchNumpyOn(value, min, max, bins, clip)
    /\ BinsMatchNumpy
<1>1. ASSUME NEW value \in Int, NEW min \in Int, NEW max \in Int,
             NEW bins \in Nat \ {0}, NEW clip \in BOOLEAN, min < max
      PROVE  BinsMatchNumpyOn(value, min, max, bins, clip)
    <2> DEFINE linspace == [i \in 0 .. bins |-> min * bins + (max - min) * i]
               counted == {i \in 0 .. bins - 1 : linspace[i] <= value * bins}
               clamped == IF value < min THEN min
                          ELSE IF value > max THEN max ELSE value
    <2>1. counted = EdgesReached(value, min, max, bins)
        <3>1. ASSUME NEW i \in 0 .. bins - 1
              PROVE  linspace[i] <= value * bins
                        <=> Reaches(value, min, max, bins, i)
            <4>1. i \in 0 .. bins
                OBVIOUS
            <4>2. linspace[i] = min * bins + (max - min) * i
                BY <4>1
            <4> HIDE DEF linspace
            <4>3. /\ min * bins \in Int /\ value * bins \in Int
                  /\ (max - min) * i \in Int
                BY ProductIsInt
            <4> QED BY <4>2, <4>3 DEF Reaches
        <3> HIDE DEF linspace
        <3> QED BY <3>1 DEF EdgesReached
    <2>2. Bin(value, min, max, bins, FALSE) = Cardinality(counted) - 1
        <3>1. Bin(value, min, max, bins, FALSE)
                  = Cardinality(EdgesReached(value, min, max, bins)) - 1
            BY <1>1, BinCounts
        <3> HIDE DEF counted
        <3> QED BY <2>1, <3>1
    <2>3. CASE ~clip
        <3>1. Bin(value, min, max, bins, clip)
                  = Bin(value, min, max, bins, FALSE)
            BY <2>3
        <3>2. Bin(value, min, max, bins, clip) = Cardinality(counted) - 1
            BY <2>2, <3>1
        <3> QED BY <2>3, <3>2 DEF BinsMatchNumpyOn
    <2>4. CASE clip
        <3>1. /\ clamped \in Int /\ clamped >= min
              /\ value \in min .. max => clamped = value
            BY <1>1
        <3>2. Bin(value, min, max, bins, clip)
                  = Bin(clamped, min, max, bins, FALSE)
            BY <2>4 DEF Bin
        <3> HIDE DEF clamped
        <3>3. Bin(value, min, max, bins, clip) \in 0 .. bins - 1
            BY <1>1, <3>1, <3>2, BinCounts
        <3>4. value \in min .. max =>
                  Bin(value, min, max, bins, clip) = Cardinality(counted) - 1
            <4> SUFFICES ASSUME value \in min .. max
                         PROVE  Bin(value, min, max, bins, clip)
                                    = Cardinality(counted) - 1
                OBVIOUS
            <4>1. Bin(value, min, max, bins, clip)
                      = Bin(value, min, max, bins, FALSE)
                BY <3>1, <3>2
            <4> QED BY <2>2, <4>1
        <3> QED BY <2>4, <3>3, <3>4 DEF BinsMatchNumpyOn
    <2> QED BY <2>3, <2>4
<1>2. BinsMatchNumpy
    BY <1>1 DEF BinsMatchNumpy
<1> QED
    BY <1>1, <1>2

---------------------------------------------------------------------------
(* The scaling of actions                                                  *)

Number == Float \cup {NotFinite}

(* What a checkpoint can say of its actions, valid or not: its columns are *)
(* whole numbers, its quantiles may be not finite.                         *)
IsConfig(config) ==
    /\ config.continuous \in Seq(Int)
    /\ config.binary \in Seq(Int)
    /\ \A i \in 1 .. Len(config.profiles) :
          /\ config.profiles[i].q01 \in Seq(Number)
          /\ config.profiles[i].q99 \in Seq(Number)

LEMMA Pair ==
    ASSUME NEW S, NEW a \in S, NEW b \in S
    PROVE  <<a, b>> \in Seq(S)
OBVIOUS

(* A column that is not binary is continuous.                              *)
LEMMA OneOfTwoLists ==
    ASSUME NEW c \in Seq(Int), NEW b \in Seq(Int),
           NEW dim \in Elements(c \o b), dim \notin Elements(b)
    PROVE  dim \in Elements(c)
<1>1. PICK i \in 1 .. Len(c \o b) : (c \o b)[i] = dim
    BY DEF Elements
<1>2. /\ Len(c) \in Nat /\ Len(b) \in Nat /\ Len(c \o b) = Len(c) + Len(b)
      /\ (c \o b)[i] = IF i <= Len(c) THEN c[i] ELSE b[i - Len(c)]
    BY <1>1, ConcatProperties, LenProperties
<1>3. CASE i <= Len(c)
    <2>1. i \in 1 .. Len(c) /\ c[i] = dim
        BY <1>1, <1>2, <1>3
    <2> QED BY <2>1 DEF Elements
<1>4. CASE ~(i <= Len(c))
    <2>1. i - Len(c) \in 1 .. Len(b) /\ b[i - Len(c)] = dim
        BY <1>1, <1>2, <1>4
    <2>2. dim \in Elements(b)
        BY <2>1 DEF Elements
    <2> QED BY <2>2
<1> QED
    BY <1>3, <1>4

LEMMA ClippedIsWithin ==
    ASSUME NEW config, config.clip, NEW value \in Float
    PROVE  /\ Clipped(config, value) \in Int
           /\ -Unit <= Clipped(config, value)
           /\ Clipped(config, value) <= Unit
<1>1. Unit \in Nat \ {0} /\ value \in Int
    BY FloatAssumption, FloatIs
<1> QED
    BY <1>1 DEF Clipped

(* What is between two floats stays there when it is rounded.              *)
LEMMA RoundBetween ==
    ASSUME NEW num \in Int, NEW den \in Nat \ {0},
           NEW f \in Float, NEW g \in Float, den * f <= num, num <= den * g
    PROVE  /\ Round(num, den) \in Float
           /\ f <= Round(num, den)
           /\ Round(num, den) <= g
<1>1. f <= Round(num, den) /\ Round(num, den) <= g
    BY RoundAtLeast, RoundAtMost
<1>2. /\ Round(num, den) \in Float \cup {Infinity, -Infinity}
      /\ Round(num, den) \in Int
    BY RoundIsNumber
<1>3. /\ f \in Int /\ g \in Int /\ -Infinity < f /\ g < Infinity
      /\ Infinity \in Nat
    BY FloatIs
<1> QED
    BY <1>1, <1>2, <1>3

(* The two factors that a number of a column is scaled by: the share of    *)
(* the range is within 0 and 1, and so the part of the width.              *)
LEMMA ShareIsPart ==
    ASSUME NEW value \in Int, -Unit <= value, value <= Unit
    PROVE  LET sum == Round(value + Unit, 1)
               share == Round(sum * (Unit \div 2), Unit)
           IN  /\ sum \in Float /\ share \in Float
               /\ 0 <= share /\ share <= Unit
<1> DEFINE sum == Round(value + Unit, 1)
           half == Unit \div 2
           double == 2 * Unit
           num == sum * half
           share == Round(num, Unit)
<1>1. /\ Unit \in Nat \ {0} /\ half \in Nat /\ 2 * half = Unit
      /\ 0 \in Float /\ Unit \in Float /\ double \in Float
    BY FloatAssumption
<1>2. value + Unit \in Int /\ 0 <= value + Unit /\ value + Unit <= double
    BY <1>1
<1>3. sum \in Float /\ 0 <= sum /\ sum <= double
    <2> DEFINE x == value + Unit
    <2>1. x \in Int /\ 0 <= x /\ x <= double
        BY <1>2
    <2>2. double \in Int
        BY <1>1, FloatIs
    <2> HIDE DEF x, double
    <2>3. 1 * 0 <= x /\ x <= 1 * double /\ 1 \in Nat \ {0}
        BY <2>1, <2>2
    <2>4. /\ Round(x, 1) \in Float
          /\ 0 <= Round(x, 1)
          /\ Round(x, 1) <= double
        BY <1>1, <2>1, <2>3, RoundBetween
    <2> QED BY <2>4 DEF x
<1> HIDE DEF sum, half
<1>4. sum \in Nat /\ double \in Nat
    BY <1>1, <1>3, FloatIs
<1>5. num \in Int /\ 0 <= num /\ num <= Unit * Unit
    <2>1. num \in Nat
        BY <1>1, <1>4, ProductIsNat
    <2>2. num <= double * half
        BY <1>1, <1>3, <1>4, ProductGrows
    <2>3. double * half = Unit * Unit
        <3>1. double * half = Unit * (2 * half)
            BY <1>1
        <3> QED BY <1>1, <3>1
    <2> HIDE DEF num, double
    <2> QED BY <2>1, <2>2, <2>3
<1> HIDE DEF num
<1>6. Unit * 0 <= num
    BY <1>1, <1>5
<1>7. share \in Float /\ 0 <= share /\ share <= Unit
    BY <1>1, <1>5, <1>6, RoundBetween
<1> QED
    BY <1>3, <1>7 DEF sum, half, num

LEMMA PartIsWithin ==
    ASSUME NEW share \in Float, 0 <= share, share <= Unit,
           NEW width \in Float, 0 <= width
    PROVE  /\ Round(share * width, Unit) \in Float
           /\ 0 <= Round(share * width, Unit)
           /\ Round(share * width, Unit) <= width
<1> DEFINE num == share * width
<1>1. Unit \in Nat \ {0} /\ 0 \in Float /\ share \in Nat /\ width \in Nat
    BY FloatAssumption, FloatIs
<1>2. num \in Nat /\ num <= Unit * width
    BY <1>1, ProductIsNat, ProductGrows
<1> HIDE DEF num
<1>3. num \in Int /\ Unit * 0 <= num
    BY <1>1, <1>2
<1>4. /\ Round(num, Unit) \in Float
      /\ 0 <= Round(num, Unit)
      /\ Round(num, Unit) <= width
    BY <1>1, <1>2, <1>3, RoundBetween
<1> QED
    BY <1>4 DEF num

(* The width of two moderate quantiles is rounded by a half of it at most. *)
LEMMA WidthIsClose ==
    ASSUME NEW low \in Float, NEW high \in Float, low <= high,
           Moderate(low), Moderate(high)
    PROVE  LET width == Round(high - low, 1) IN
           /\ width \in Float
           /\ 0 <= width
           /\ Precision * (width - (high - low)) <= high - low
           /\ 2 * (width - (high - low)) <= high - low
<1> DEFINE exact == high - low
           width == Round(exact, 1)
           excess == width - exact
<1>1. /\ low \in Int /\ high \in Int /\ Infinity \in Nat /\ 0 \in Float
      /\ Precision \in Nat \ {0, 1}
    BY FloatIs, FloatAssumption
<1>2. exact \in Int /\ 0 <= exact /\ exact < Infinity /\ -Infinity < exact
    BY <1>1 DEF Moderate, Magnitude, Distance
<1>3. Magnitude(exact) = exact
    BY <1>2 DEF Magnitude, Distance
<1> HIDE DEF exact
<1>4. width \in Float /\ Precision * Distance(width, exact) <= exact
    <2>1. /\ Round(exact, 1) \in Float
          /\ Precision * Distance(Round(exact, 1), exact) <= Magnitude(exact)
        BY <1>2, RoundIsClose
    <2> QED BY <1>3, <2>1
<1>5. 0 <= width
    <2>1. 1 * 0 <= exact /\ 1 \in Nat \ {0}
        BY <1>2
    <2> QED BY <1>1, <1>2, <2>1, RoundAtLeast
<1> HIDE DEF width
<1>6. width \in Int
    BY <1>4, FloatIs
<1>7. Precision * excess <= exact /\ 2 * excess <= exact
    <2>1. CASE excess <= 0
        <3>1. excess \in Int /\ 0 <= -excess /\ -excess \in Nat
            BY <1>2, <1>6, <2>1
        <3> HIDE DEF excess
        <3>2. Precision * (-excess) \in Nat
            BY <1>1, <3>1, ProductIsNat
        <3>3. Precision * (-excess) = -(Precision * excess)
            BY <1>1, <3>1
        <3>4. Precision * excess \in Int
            BY <1>1, <3>1, ProductIsInt
        <3>5. Precision * excess <= 0 /\ 2 * excess <= 0
            BY <3>1, <3>2, <3>3, <3>4, <2>1
        <3> QED BY <1>2, <3>1, <3>4, <3>5
    <2>2. CASE ~(excess <= 0)
        <3>1. Distance(width, exact) = excess /\ excess \in Nat
            BY <1>2, <1>6, <2>2 DEF Distance
        <3>2. Precision * excess <= exact
            BY <1>4, <3>1
        <3> HIDE DEF excess
        <3>3. 2 * excess <= Precision * excess
            <4>1. 2 \in Nat /\ Precision \in Nat /\ 2 <= Precision
                BY <1>1
            <4> QED BY <3>1, <4>1, ProductGrows
        <3>4. Precision * excess \in Int
            BY <1>1, <3>1, ProductIsInt
        <3> QED BY <1>2, <3>1, <3>2, <3>3, <3>4
    <2> QED BY <2>1, <2>2
<1> QED
    BY <1>4, <1>5, <1>7 DEF exact, width

(* The last rounding leaves the result where it has to be.                 *)
LEMMA SumIsBetween ==
    ASSUME NEW low \in Float, NEW high \in Float, low <= high,
           Moderate(low), Moderate(high),
           NEW width \in Float, NEW part \in Float, 0 <= part, part <= width,
           Precision * (width - (high - low)) <= high - low,
           2 * (width - (high - low)) <= high - low
    PROVE  LET action == Round(part + low, 1) IN
           /\ action \in Float
           /\ low <= action
           /\ Precision * (action - high) <= 2 * (high - low) + Magnitude(high)
<1> DEFINE exact == part + low
           action == Round(exact, 1)
           excess == width - (high - low)
<1>1. /\ low \in Int /\ high \in Int /\ width \in Int /\ part \in Int
      /\ Infinity \in Nat /\ Precision \in Nat \ {0, 1} /\ -Infinity < low
    BY FloatIs, FloatAssumption
<1>2. /\ exact \in Int /\ low <= exact /\ exact <= high + excess
      /\ excess \in Int /\ 2 * excess <= high - low
    BY <1>1
<1>3. exact < Infinity /\ -Infinity < exact
    <2>1. 2 * exact <= 3 * high - low
        BY <1>1, <1>2
    <2>2. 2 * high < Infinity /\ 2 * (-low) < Infinity
        BY <1>1 DEF Moderate, Magnitude, Distance
    <2> HIDE DEF exact
    <2> QED BY <1>1, <1>2, <2>1, <2>2
<1>4. Precision * excess <= high - low
    OBVIOUS
<1> HIDE DEF exact, excess
<1>5. /\ action \in Float
      /\ Precision * Distance(action, exact) <= Magnitude(exact)
    BY <1>2, <1>3, RoundIsClose
<1>6. low <= action
    <2>1. 1 * low <= exact /\ 1 \in Nat \ {0}
        BY <1>1, <1>2
    <2> QED BY <1>2, <2>1, RoundAtLeast
<1> HIDE DEF action
<1>7. action \in Int
    BY <1>5, FloatIs
<1>8. Magnitude(exact) <= (high - low) + Magnitude(high)
    BY <1>1, <1>2 DEF Magnitude, Distance
<1> DEFINE off == action - exact
           over == action - high
           much == Magnitude(exact)
<1>9. /\ off \in Int /\ over \in Int /\ over <= off + excess
      /\ much \in Nat /\ Magnitude(high) \in Nat
    <2>1. Magnitude(exact) \in Nat /\ Magnitude(high) \in Nat
        BY <1>1, <1>2 DEF Magnitude, Distance
    <2>2. off \in Int /\ over \in Int /\ over <= off + excess
        BY <1>1, <1>2, <1>7
    <2> QED BY <2>1, <2>2
<1>10. Precision * off <= much
    <2> DEFINE away == Distance(action, exact)
    <2>1. away \in Nat /\ off <= away /\ Precision * away <= much
        BY <1>2, <1>5, <1>7, DistanceIs
    <2> HIDE DEF away, off, much
    <2>2. Precision * off <= Precision * away
        BY <1>1, <1>9, <2>1, TimesGrows
    <2>3. Precision * off \in Int /\ Precision * away \in Int
        BY <1>1, <1>9, <2>1, ProductIsInt
    <2> QED BY <1>9, <2>1, <2>2, <2>3
<1>11. much <= (high - low) + Magnitude(high)
    BY <1>8
<1> HIDE DEF off, over, much
<1>12. Precision * over <= Precision * (off + excess)
    <2>1. off + excess \in Int
        BY <1>2, <1>9
    <2> QED BY <1>1, <1>9, <2>1, TimesGrows
<1>13. Precision * (off + excess) = Precision * off + Precision * excess
    BY <1>1, <1>2, <1>9
<1>14. /\ Precision * off \in Int /\ Precision * excess \in Int
       /\ Precision * over \in Int
    BY <1>1, <1>2, <1>9, ProductIsInt
<1>15. Precision * over <= 2 * (high - low) + Magnitude(high)
    BY <1>1, <1>4, <1>9, <1>10, <1>11, <1>12, <1>13, <1>14
<1> QED
    BY <1>5, <1>6, <1>15 DEF action, exact, over

(* A number within the range that is scaled ends between the quantiles, or *)
(* above the upper one by what the roundings make.                         *)
LEMMA ScaledIsBetween ==
    ASSUME NEW config, NEW profile, NEW dim, NEW value \in Int,
           -Unit <= value, value <= Unit,
           dim \notin Elements(config.binary),
           NEW low, low = profile.q01[dim], low \in Float,
           NEW high, high = profile.q99[dim], high \in Float,
           low <= high, Moderate(low), Moderate(high)
    PROVE  LET action == Scaled(config, profile, dim, value) IN
           /\ action \in Float
           /\ action >= low
           /\ Precision * (action - high) <= 2 * (high - low) + Magnitude(high)
<1> DEFINE sum == Round(value + Unit, 1)
           share == Round(sum * (Unit \div 2), Unit)
           width == Round(high - low, 1)
           part == Round(share * width, Unit)
           action == Round(part + low, 1)
<1>1. Scaled(config, profile, dim, value) =
          IF {sum, share, width, part, action} \subseteq Float THEN action
          ELSE NotFinite
    BY DEF Scaled
<1>2. sum \in Float /\ share \in Float /\ 0 <= share /\ share <= Unit
    BY ShareIsPart
<1> HIDE DEF sum, share
<1>3. /\ width \in Float
      /\ 0 <= width
      /\ Precision * (width - (high - low)) <= high - low
      /\ 2 * (width - (high - low)) <= high - low
    BY WidthIsClose
<1> HIDE DEF width
<1>4. part \in Float /\ 0 <= part /\ part <= width
    BY <1>2, <1>3, PartIsWithin
<1> HIDE DEF part
<1>5. /\ action \in Float
      /\ low <= action
      /\ Precision * (action - high) <= 2 * (high - low) + Magnitude(high)
    BY <1>3, <1>4, SumIsBetween
<1>6. low \in Int /\ action \in Int
    BY <1>5, FloatIs
<1> HIDE DEF action
<1>7. Scaled(config, profile, dim, value) = action /\ action >= low
    BY <1>1, <1>2, <1>3, <1>4, <1>5, <1>6
<1> QED
    BY <1>5, <1>7

(* For every configuration that is accepted, and whatever is computed, an  *)
(* action is finite, never below the lower quantile of its column, and     *)
(* above the upper one by no more than the rounding of the width and of    *)
(* the last sum make, when the double of each quantile is a float          *)
(* (denormalize_actions).                                                  *)
THEOREM ActionsStayInQuantiles ==
    /\ \A config, key : IsConfig(config) =>
          \A rows \in Seq(Number), h, dims \in Int :
              ActionsInQuantilesOn(config, key, rows, h, dims)
    /\ MCFloat \subseteq Float => ActionsInQuantiles
<1>1. ASSUME NEW config, NEW key, IsConfig(config),
             NEW rows \in Seq(Number), NEW h \in Int, NEW dims \in Int
      PROVE  ActionsInQuantilesOn(config, key, rows, h, dims)
    <2> DEFINE Within(action, low, high) ==
                   Moderate(low) /\ Moderate(high) =>
                       /\ action \in Float
                       /\ action >= low
                       /\ Precision * (action - high)
                             <= 2 * (high - low) + Magnitude(high)
               got ==
                   DenormalizeActions(config, key, rows, h, dims)
               p == CHOOSE i \in Profiles(config, key) : TRUE
               profile == config.profiles[p]
               column(i) == 1 + ((i - 1) % dims)
               action(i) == Scaled(config, profile, column(i),
                                   Clipped(config, rows[i]))
    <2>1. SUFFICES ASSUME got.ok, config.clip
                   PROVE  /\ p \in 1 .. Len(config.profiles)
                          /\ profile.key =
                                IF key = "" THEN config.default ELSE key
                          /\ \A i \in 1 .. Len(rows) :
                                IF \E j \in 1 .. Len(config.binary) :
                                      config.binary[j] = column(i)
                                THEN got.actions[i] \in {0, Unit}
                                ELSE Within(got.actions[i],
                                            profile.q01[column(i)],
                                            profile.q99[column(i)])
        BY DEF ActionsInQuantilesOn
    <2>2. /\ ConfigIsValid(config, dims)
          /\ Profiles(config, key) # {}
          /\ \A i \in 1 .. Len(rows) : rows[i] # NotFinite
          /\ got.actions = [i \in 1 .. Len(rows) |-> action(i)]
        BY <2>1 DEF DenormalizeActions, NoActions
    <2> HIDE DEF got, Within
    <2>3. p \in Profiles(config, key)
        BY <2>2
    <2>4. /\ p \in 1 .. Len(config.profiles)
          /\ profile.key = IF key = "" THEN config.default ELSE key
        BY <2>3 DEF Profiles
    <2>5. /\ dims \in Nat \ {0}
          /\ Elements(config.continuous \o config.binary) = 1 .. dims
          /\ ProfileIsValid(config, profile, dims)
        <3>1. /\ dims > 0
              /\ Elements(config.continuous \o config.binary) = 1 .. dims
              /\ \A i \in 1 .. Len(config.profiles) :
                    ProfileIsValid(config, config.profiles[i], dims)
            BY <2>2 DEF ConfigIsValid
        <3>2. p \in 1 .. Len(config.profiles)
            BY <2>4
        <3> HIDE DEF p
        <3>3. ProfileIsValid(config, profile, dims)
            BY ONLY <3>1, <3>2
        <3> QED BY <3>1, <3>3
    <2>6. profile.q01 \in Seq(Number) /\ profile.q99 \in Seq(Number)
        <3>1. p \in 1 .. Len(config.profiles)
            BY <2>4
        <3> HIDE DEF p
        <3> QED BY <1>1, <3>1 DEF IsConfig
    <2> HIDE DEF p, profile
    <2>7. ASSUME NEW i \in 1 .. Len(rows)
          PROVE  IF \E j \in 1 .. Len(config.binary) :
                       config.binary[j] = column(i)
                 THEN action(i) \in {0, Unit}
                 ELSE Within(action(i), profile.q01[column(i)],
                             profile.q99[column(i)])
        <3> DEFINE dim == column(i)
                   value == Clipped(config, rows[i])
        <3>1. dim \in 1 .. dims
            BY <2>5
        <3>2. value \in Int /\ -Unit <= value /\ value <= Unit
            <4>1. rows[i] \in Float
                BY <2>2 DEF Number
            <4> QED BY <2>1, <4>1, ClippedIsWithin
        <3> HIDE DEF dim, value
        <3>3. CASE dim \in Elements(config.binary)
            <4>1. Scaled(config, profile, dim, value) \in {0, Unit}
                BY <3>3 DEF Scaled
            <4>2. \E j \in 1 .. Len(config.binary) : config.binary[j] = dim
                BY <3>3 DEF Elements
            <4> QED BY <4>1, <4>2 DEF dim, value
        <3>4. CASE dim \notin Elements(config.binary)
            <4> DEFINE low == profile.q01[dim]
                       high == profile.q99[dim]
            <4>1. dim \in Elements(config.continuous)
                <5>1. /\ config.continuous \in Seq(Int)
                      /\ config.binary \in Seq(Int)
                    BY <1>1 DEF IsConfig
                <5> QED BY <2>5, <3>1, <3>4, <5>1, OneOfTwoLists
            <4>2. /\ low # NotFinite /\ high # NotFinite /\ high >= low
                  /\ Len(profile.q01) = dims /\ Len(profile.q99) = dims
                BY <2>5, <3>1, <4>1 DEF ProfileIsValid
            <4>3. low \in Float /\ high \in Float
                BY <2>6, <3>1, <4>2 DEF Number
            <4>4. low = profile.q01[dim] /\ high = profile.q99[dim]
                OBVIOUS
            <4> HIDE DEF low, high
            <4>5. Within(Scaled(config, profile, dim, value), low, high)
                <5>1. low \in Int /\ high \in Int /\ low <= high
                    BY <4>2, <4>3, FloatIs
                <5> QED
                    BY <3>2, <3>4, <4>3, <4>4, <5>1, ScaledIsBetween DEF Within
            <4>6. ~\E j \in 1 .. Len(config.binary) : config.binary[j] = dim
                BY <3>4 DEF Elements
            <4> QED BY <4>5, <4>6 DEF dim, value, low, high
        <3> QED BY <3>3, <3>4
    <2> HIDE DEF action
    <2>8. \A i \in 1 .. Len(rows) : got.actions[i] = action(i)
        BY <2>2
    <2> HIDE DEF column
    <2> QED BY <2>4, <2>7, <2>8
<1>2. ASSUME MCFloat \subseteq Float
      PROVE  ActionsInQuantiles
    <2> DEFINE numbers == {-28, -6, -3, -1, 1, 2, 3, 6, 10, 12}
    <2>1. numbers \subseteq Number
        <3>1. /\ -28 = -1 * 7 * 4 /\ -6 = -1 * 6 * 1 /\ -3 = -1 * 3 * 1
              /\ -1 = -1 * 1 * 1 /\ 1 = 1 * 1 * 1 /\ 2 = 1 * 2 * 1
              /\ 3 = 1 * 3 * 1 /\ 6 = 1 * 6 * 1 /\ 10 = 1 * 5 * 2
              /\ 12 = 1 * 6 * 2
            OBVIOUS
        <3>2. /\ -28 \in MCFloat /\ -6 \in MCFloat /\ -3 \in MCFloat
              /\ -1 \in MCFloat /\ 1 \in MCFloat /\ 2 \in MCFloat
              /\ 3 \in MCFloat /\ 6 \in MCFloat /\ 10 \in MCFloat
              /\ 12 \in MCFloat
            BY <3>1 DEF MCFloat
        <3> QED BY <1>2, <3>2 DEF Number
    <2> HIDE DEF numbers
    <2>2. ASSUME NEW config \in MCConfigs
          PROVE  IsConfig(config)
        <3>1. PICK binary \in {<<2>>, <<1>>}, low \in {-28, -1, 10, 12},
                   mask \in {0, 1} :
                  /\ config.continuous = <<1>>
                  /\ config.binary = binary
                  /\ config.profiles = <<MCProfile("a", low, 10, mask),
                                         MCProfile("b", -3, 1, 1)>>
            BY DEF MCConfigs
        <3>2. <<1>> \in Seq(Int) /\ <<2>> \in Seq(Int)
            OBVIOUS
        <3>3. ASSUME NEW x \in Number, NEW y \in Number
              PROVE  <<x, y>> \in Seq(Number)
            BY Pair
        <3>4. ASSUME NEW k, NEW x \in numbers, NEW y \in numbers, NEW m
              PROVE  /\ MCProfile(k, x, y, m).q01 \in Seq(Number)
                     /\ MCProfile(k, x, y, m).q99 \in Seq(Number)
            <4>1. -1 \in numbers /\ 2 \in numbers
                BY DEF numbers
            <4> QED BY <2>1, <3>3, <4>1 DEF MCProfile
        <3> HIDE DEF MCProfile
        <3>5. /\ Len(config.profiles) = 2
              /\ config.profiles[1] = MCProfile("a", low, 10, mask)
              /\ config.profiles[2] = MCProfile("b", -3, 1, 1)
            BY <3>1
        <3>6. /\ low \in numbers /\ 10 \in numbers
              /\ -3 \in numbers /\ 1 \in numbers
            BY DEF numbers
        <3>7. \A i \in 1 .. Len(config.profiles) :
                  /\ config.profiles[i].q01 \in Seq(Number)
                  /\ config.profiles[i].q99 \in Seq(Number)
            BY <3>4, <3>5, <3>6
        <3> QED BY <3>1, <3>2, <3>7 DEF IsConfig
    <2>3. ASSUME NEW rows \in MCRows
          PROVE  rows \in Seq(Number)
        <3>1. PICK a \in {-6, -1, 2, 3, 6, NotFinite},
                   b \in {-6, -1, 2, 3, 6, NotFinite} :
                  rows = <<a, b, b, a>>
            BY DEF MCRows
        <3>2. a \in Number /\ b \in Number
            BY <2>1 DEF numbers, Number
        <3> QED BY <3>1, <3>2
    <2>4. ASSUME NEW config \in MCConfigs, NEW key, NEW rows \in MCRows
          PROVE  ActionsInQuantilesOn(config, key, rows, 2, 2)
        <3>1. IsConfig(config) /\ rows \in Seq(Number) /\ 2 \in Int
            BY <2>2, <2>3
        <3> QED BY <1>1, <3>1
    <2> QED BY <2>4, Zenon DEF ActionsInQuantiles
<1> QED
    BY <1>1, <1>2

---------------------------------------------------------------------------
(* The size of an image                                                    *)

LEMMA SquareGrows ==
    ASSUME NEW u \in Nat, NEW v \in Nat, v < u
    PROVE  v * v < u * u
<1>1. v * v <= v * u
    BY ProductGrows
<1>2. v * u + u <= u * u
    <2>1. (v + 1) * u <= u * u
        BY ProductGrows
    <2>2. (v + 1) * u = v * u + u
        OBVIOUS
    <2> QED BY <2>1, <2>2
<1>3. v * v \in Nat /\ v * u \in Nat /\ u * u \in Nat /\ u > 0
    BY ProductIsNat
<1> QED
    BY <1>1, <1>2, <1>3

(* The products of two sides that are each within their part of a bound    *)
(* are within the bound: the parts are those that the sides w and h of the *)
(* image have in its pixels.                                               *)
LEMMA WithinBound ==
    ASSUME NEW w \in Nat \ {0}, NEW h \in Nat \ {0},
           NEW a \in Nat, NEW b \in Nat, NEW bound \in Nat,
           a * a * (w * h) <= w * w * bound,
           b * b * (w * h) <= h * h * bound
    PROVE  a * b <= bound
<1> DEFINE p == w * h
           ap == a * a * p
           bp == b * b * p
           wb == w * w * bound
           hb == h * h * bound
           u == a * b * p
           v == bound * p
<1>1. /\ p \in Nat /\ a * b \in Nat /\ a * a \in Nat /\ b * b \in Nat
      /\ w * w \in Nat /\ h * h \in Nat
    BY ProductIsNat
<1>2. p > 0
    <2>1. 1 * 1 <= w * h
        BY ProductGrows
    <2> QED BY <2>1
<1>3. ap * bp = u * u /\ wb * hb = v * v
    OBVIOUS
<1>4. ap <= wb /\ bp <= hb
    OBVIOUS
<1> HIDE DEF p
<1>5. ap \in Nat /\ bp \in Nat /\ u \in Nat /\ v \in Nat
      /\ wb \in Nat /\ hb \in Nat
    BY <1>1, ProductIsNat
<1> HIDE DEF ap, bp, wb, hb
<1>6. ap * bp <= wb * hb
    BY <1>4, <1>5, ProductGrows
<1>7. ~(v < u)
    <2> HIDE DEF u, v
    <2>1. v < u => v * v < u * u
        BY <1>5, SquareGrows
    <2>2. u * u \in Nat /\ v * v \in Nat
        BY <1>5, ProductIsNat
    <2> QED BY <1>3, <1>6, <2>1, <2>2
<1>8. ASSUME bound < a * b PROVE FALSE
    <2>1. (bound + 1) * p <= (a * b) * p
        BY <1>1, <1>8, ProductGrows
    <2>2. (bound + 1) * p = bound * p + p
        BY <1>1
    <2> QED BY <1>1, <1>2, <1>5, <1>7, <2>1, <2>2
<1> QED
    BY <1>1, <1>8

LEMMA BeyondBound ==
    ASSUME NEW w \in Nat \ {0}, NEW h \in Nat \ {0},
           NEW a \in Nat, NEW b \in Nat, NEW bound \in Nat,
           a * a * (w * h) >= w * w * bound,
           b * b * (w * h) >= h * h * bound
    PROVE  a * b >= bound
<1> DEFINE p == w * h
           ap == a * a * p
           bp == b * b * p
           wb == w * w * bound
           hb == h * h * bound
           u == a * b * p
           v == bound * p
<1>1. /\ p \in Nat /\ a * b \in Nat /\ a * a \in Nat /\ b * b \in Nat
      /\ w * w \in Nat /\ h * h \in Nat
    BY ProductIsNat
<1>2. p > 0
    <2>1. 1 * 1 <= w * h
        BY ProductGrows
    <2> QED BY <2>1
<1>3. ap * bp = u * u /\ wb * hb = v * v
    OBVIOUS
<1>4. wb <= ap /\ hb <= bp
    OBVIOUS
<1> HIDE DEF p
<1>5. ap \in Nat /\ bp \in Nat /\ u \in Nat /\ v \in Nat
      /\ wb \in Nat /\ hb \in Nat
    BY <1>1, ProductIsNat
<1> HIDE DEF ap, bp, wb, hb
<1>6. wb * hb <= ap * bp
    BY <1>4, <1>5, ProductGrows
<1>7. ~(u < v)
    <2> HIDE DEF u, v
    <2>1. u < v => u * u < v * v
        BY <1>5, SquareGrows
    <2>2. u * u \in Nat /\ v * v \in Nat
        BY <1>5, ProductIsNat
    <2> QED BY <1>3, <1>6, <2>1, <2>2
<1>8. ASSUME a * b < bound PROVE FALSE
    <2>1. (a * b + 1) * p <= bound * p
        BY <1>1, <1>8, ProductGrows
    <2>2. (a * b + 1) * p = a * b * p + p
        BY <1>1
    <2> QED BY <1>1, <1>2, <1>5, <1>7, <2>1, <2>2
<1> QED
    BY <1>1, <1>8

LEMMA MultipleHasNoRest ==
    ASSUME NEW f \in Nat \ {0}, NEW k \in Nat
    PROVE  (f * k) % f = 0
<1> DEFINE a == f * k
           q == a \div f
           r == a % f
<1>1. a \in Nat
    BY ProductIsNat
<1>2. q \in Nat /\ r \in 0 .. f - 1 /\ a = f * q + r
    <2> HIDE DEF a
    <2> QED BY <1>1
<1> HIDE DEF q, r
<1>3. f * q \in Nat
    BY <1>2, ProductIsNat
<1>4. k <= q
    <2>1. f * k < f * q + f
        BY <1>1, <1>2, <1>3
    <2> QED BY <1>2, <2>1, FewerTimes
<1>5. f * k <= f * q
    BY <1>2, <1>4, ProductGrows
<1> QED
    BY <1>1, <1>2, <1>3, <1>5 DEF r

(* A product of positive numbers is no less than any of its factors.       *)
LEMMA NoLessThanFactor ==
    ASSUME NEW a \in Nat, NEW b \in Nat \ {0}
    PROVE  a * b \in Nat /\ a <= a * b
<1>1. a * 1 <= a * b
    BY ProductGrows
<1> QED
    BY <1>1, ProductIsNat

(* Between 0, which is within a bound, and a number that is beyond it,     *)
(* there is a last one within it, and one after that.                      *)
LEMMA LastWithin ==
    ASSUME NEW N \in Nat, NEW W, 0 \in W, N + 1 \notin W
    PROVE  \E k \in 0 .. N : k \in W /\ k + 1 \notin W
<1> DEFINE T == {k \in Nat : k <= N + 1 /\ k \notin W}
<1>1. PICK k \in T : \A j \in T : k <= j
    <2>1. T \in SUBSET Nat /\ N + 1 \in T
        OBVIOUS
    <2> HIDE DEF T
    <2> QED BY <2>1, LeastElement
<1>2. k # 0 /\ k - 1 \in 0 .. N
    BY <1>1
<1>3. k - 1 \notin T /\ k - 1 + 1 = k
    BY <1>1, <1>2
<1>4. k - 1 \in W /\ k - 1 + 1 \notin W
    BY <1>1, <1>2, <1>3
<1> QED
    BY <1>2, <1>4

(* A side of an image that is too large.                                   *)
LEMMA ShrunkSideIs ==
    ASSUME NEW side \in Nat \ {0}, NEW f \in Nat \ {0}, NEW p \in Nat \ {0},
           NEW hi \in Nat \ {0}
    PROVE  LET k == ShrunkSide(side, f, p, hi) IN
           k \in Nat /\ (k * f) * (k * f) * p <= side * side * hi
<1> DEFINE k == ShrunkSide(side, f, p, hi)
           most == side * side * hi
           N == side * hi
           W == {i \in Nat : i * f * i * f * p <= most}
<1>1. N \in Nat /\ most \in Nat
    BY ProductIsNat
<1>2. 0 \in W
    <2>1. 0 * f * 0 * f * p = 0
        OBVIOUS
    <2> QED BY <1>1, <2>1
<1>3. N + 1 \notin W
    <2> DEFINE m == N + 1
    <2>1. m \in Nat \ {0} /\ N < m
        BY <1>1
    <2>2. most <= N * N
        <3>1. N * N = most * hi
            OBVIOUS
        <3> QED BY <1>1, <3>1, NoLessThanFactor
    <2> HIDE DEF N
    <2>3. N * N < m * m /\ m * m \in Nat /\ N * N \in Nat
        BY <1>1, <2>1, SquareGrows, ProductIsNat
    <2> HIDE DEF m
    <2>4. f * f * p \in Nat \ {0}
        <3>1. 1 * 1 <= f * f /\ f * f \in Nat
            BY ProductGrows, ProductIsNat
        <3>2. 1 * 1 <= (f * f) * p /\ (f * f) * p \in Nat
            BY <3>1, ProductGrows, ProductIsNat
        <3> QED BY <3>2
    <2>5. m * m <= (m * m) * (f * f * p) /\ (m * m) * (f * f * p) \in Nat
        BY <2>3, <2>4, NoLessThanFactor
    <2>6. m * f * m * f * p = (m * m) * (f * f * p)
        BY <2>1
    <2>7. ~(m * f * m * f * p <= most)
        <3> HIDE DEF most
        <3> QED BY <1>1, <2>2, <2>3, <2>5, <2>6
    <2> HIDE DEF most
    <2> QED BY <2>7 DEF m
<1> HIDE DEF W, N
<1>4. \E i \in 0 .. N : i \in W /\ i + 1 \notin W
    BY <1>1, <1>2, <1>3, LastWithin
<1>5. \E i \in 0 .. N :
          /\ i * f * i * f * p <= most
          /\ (i + 1) * f * (i + 1) * f * p > most
    <2>1. PICK i \in 0 .. N : i \in W /\ i + 1 \notin W
        BY <1>4
    <2>2. i \in Nat /\ i + 1 \in Nat /\ i * f * i * f * p <= most
        BY <1>1, <2>1 DEF W
    <2>3. ~((i + 1) * f * (i + 1) * f * p <= most)
        BY <2>1, <2>2 DEF W
    <2>4. (i + 1) * f * (i + 1) * f * p \in Nat
        BY <2>2, ProductIsNat
    <2> DEFINE x == (i + 1) * f * (i + 1) * f * p
    <2>5. x > most
        <3> HIDE DEF x, most
        <3> QED BY <1>1, <2>3, <2>4 DEF x
    <2> HIDE DEF most
    <2> QED BY <2>2, <2>5
<1>6. k \in 0 .. N /\ k * f * k * f * p <= most
    BY <1>5 DEF ShrunkSide, N
<1>7. k \in Nat
    BY <1>1, <1>6
<1> HIDE DEF k
<1>8. k * f * k * f * p = (k * f) * (k * f) * p
    BY <1>7
<1> QED
    BY <1>6, <1>7, <1>8 DEF k

(* A side of an image that is too small.                                   *)
LEMMA EnlargedSideIs ==
    ASSUME NEW side \in Nat \ {0}, NEW f \in Nat \ {0}, NEW p \in Nat \ {0},
           NEW lo \in Nat \ {0}
    PROVE  LET k == EnlargedSide(side, f, p, lo) IN
           k \in Nat \ {0} /\ (k * f) * (k * f) * p >= side * side * lo
<1> DEFINE k == EnlargedSide(side, f, p, lo)
           least == side * side * lo
           N == side * lo
           W == {i \in Nat : i * f * i * f * p < least}
<1>1. N \in Nat \ {0} /\ least \in Nat \ {0}
    <2>1. 1 * 1 <= side * lo /\ side * lo \in Nat
        BY ProductGrows, ProductIsNat
    <2>2. 1 * 1 <= side * side /\ side * side \in Nat
        BY ProductGrows, ProductIsNat
    <2>3. 1 * 1 <= (side * side) * lo /\ (side * side) * lo \in Nat
        BY <2>2, ProductGrows, ProductIsNat
    <2> QED BY <2>1, <2>3
<1>2. 0 \in W
    <2>1. 0 * f * 0 * f * p = 0
        OBVIOUS
    <2> HIDE DEF least
    <2> QED BY <1>1, <2>1
<1>3. N \notin W
    <2>1. least <= N * N /\ N * N \in Nat
        <3>1. N * N = least * lo
            OBVIOUS
        <3> QED BY <1>1, <3>1, NoLessThanFactor
    <2> HIDE DEF N, least
    <2>2. f * f * p \in Nat \ {0}
        <3>1. 1 * 1 <= f * f /\ f * f \in Nat
            BY ProductGrows, ProductIsNat
        <3>2. 1 * 1 <= (f * f) * p /\ (f * f) * p \in Nat
            BY <3>1, ProductGrows, ProductIsNat
        <3> QED BY <3>2
    <2>3. N * N <= (N * N) * (f * f * p) /\ (N * N) * (f * f * p) \in Nat
        BY <2>1, <2>2, NoLessThanFactor
    <2>4. N * f * N * f * p = (N * N) * (f * f * p)
        BY <1>1
    <2>5. ~(N * f * N * f * p < least)
        BY <1>1, <2>1, <2>3, <2>4
    <2> QED BY <2>5
<1> HIDE DEF W, N
<1>4. \E i \in 0 .. N - 1 : i \in W /\ i + 1 \notin W
    <2>1. N - 1 \in Nat /\ N - 1 + 1 = N
        BY <1>1
    <2> QED BY <1>2, <1>3, <2>1, LastWithin
<1>5. \E i \in 1 .. N :
          /\ i * f * i * f * p >= least
          /\ (i - 1) * f * (i - 1) * f * p < least
    <2>1. PICK i \in 0 .. N - 1 : i \in W /\ i + 1 \notin W
        BY <1>4
    <2>2. i \in Nat /\ i + 1 \in 1 .. N /\ i + 1 - 1 = i
          /\ i * f * i * f * p < least
        BY <1>1, <2>1 DEF W
    <2>3. ~((i + 1) * f * (i + 1) * f * p < least)
        BY <2>1, <2>2 DEF W
    <2>4. (i + 1) * f * (i + 1) * f * p \in Nat
        BY <2>2, ProductIsNat
    <2> DEFINE x == (i + 1) * f * (i + 1) * f * p
    <2>5. x >= least
        <3> HIDE DEF x, least
        <3> QED BY <1>1, <2>3, <2>4 DEF x
    <2> HIDE DEF least
    <2> QED BY <2>2, <2>5
<1>6. k \in 1 .. N /\ k * f * k * f * p >= least
    BY <1>5 DEF EnlargedSide, N
<1>7. k \in Nat \ {0}
    BY <1>1, <1>6
<1> HIDE DEF k
<1>8. k * f * k * f * p = (k * f) * (k * f) * p
    BY <1>7
<1> QED
    BY <1>6, <1>7, <1>8 DEF k

(* A size whose sides are the multiples a and b of a factor.               *)
SidesAre(size, f, a, b) ==
    /\ size.width = f * a /\ size.height = f * b
    /\ size.width > 0 /\ size.width % f = 0
    /\ size.height > 0 /\ size.height % f = 0
    /\ size.width * size.height = (a * f) * (b * f)
    /\ (a * f) * (b * f) \in Nat

LEMMA MultiplesAreSides ==
    ASSUME NEW f \in Nat \ {0}, NEW a \in Nat \ {0}, NEW b \in Nat \ {0}
    PROVE  SidesAre(Resized(f * a, f * b), f, a, b)
<1> DEFINE x == f * a
           y == f * b
           size == Resized(x, y)
<1>1. x \in Nat /\ x > 0 /\ x % f = 0
    <2>1. 1 * 1 <= f * a
        BY ProductGrows
    <2> QED BY <2>1, ProductIsNat, MultipleHasNoRest
<1>2. y \in Nat /\ y > 0 /\ y % f = 0
    <2>1. 1 * 1 <= f * b
        BY ProductGrows
    <2> QED BY <2>1, ProductIsNat, MultipleHasNoRest
<1>3. x = a * f /\ y = b * f
    OBVIOUS
<1>4. size.width = x /\ size.height = y
    BY DEF Resized
<1> HIDE DEF x, y, size
<1>5. x * y \in Nat
    BY <1>1, <1>2, ProductIsNat
<1>6. x = f * a /\ y = f * b /\ size = Resized(f * a, f * b)
    BY DEF x, y, size
<1>7. SidesAre(size, f, a, b)
    BY <1>1, <1>2, <1>3, <1>4, <1>5, <1>6 DEF SidesAre
<1> QED
    BY <1>6, <1>7

(* The four ends of qwen3vl_smart_resize_dimensions.                       *)
LEMMA ResizeCases ==
    ASSUME NEW width \in Int, NEW height \in Int, NEW f \in Int,
           NEW min \in Int, NEW max \in Int,
           SmartResize(width, height, f, min, max).ok
    PROVE  LET size == SmartResize(width, height, f, min, max)
               rounded == Rounded(width, height, f)
               p == width * height
               shrunk(side) ==
                   f * LargerOf(1, ShrunkSide(side, f, p, max))
               enlarged(side) == f * EnlargedSide(side, f, p, min)
           IN  /\ ~(width <= 0 \/ height <= 0 \/ f <= 0
                         \/ min <= 0 \/ max < min)
               /\ rounded > max =>
                     size = Resized(shrunk(width), shrunk(height))
               /\ ~(rounded > max) /\ rounded < min =>
                     size = Resized(enlarged(width), enlarged(height))
               /\ ~(rounded > max) /\ ~(rounded < min) =>
                     size = Resized(f * RoundDiv(width, f),
                                    f * RoundDiv(height, f))
BY Zenon DEF SmartResize, Refused

(* An image of any size, brought to any f and between any bounds, is  *)
(* within them or is excused by its form (qwen3vl_smart_resize_dimensions).*)
THEOREM EveryResizeWithinBudget ==
    /\ \A width, height, f, min, max \in Int :
          ResizeWithinBudgetOn(width, height, f, min, max)
    /\ ResizeWithinBudget
<1>1. ASSUME NEW width \in Int, NEW height \in Int, NEW f \in Int,
             NEW min \in Int, NEW max \in Int
      PROVE  ResizeWithinBudgetOn(width, height, f, min, max)
    <2> DEFINE size == SmartResize(width, height, f, min, max)
               rounded == Rounded(width, height, f)
               p == width * height
               Within(s) ==
                   /\ s.width > 0 /\ s.width % f = 0
                   /\ s.height > 0 /\ s.height % f = 0
                   /\ s.width * s.height < min => rounded > max
                   /\ s.width * s.height > max =>
                         rounded < min \/ f \in {s.width, s.height}
    <2> SUFFICES ASSUME size.ok
                 PROVE  Within(size)
        BY DEF ResizeWithinBudgetOn
    <2>1. /\ width \in Nat \ {0} /\ height \in Nat \ {0}
          /\ f \in Nat \ {0} /\ min \in Nat \ {0}
          /\ max \in Nat \ {0} /\ min <= max
        <3>1. ~(width <= 0 \/ height <= 0 \/ f <= 0
                    \/ min <= 0 \/ max < min)
            BY ResizeCases
        <3> HIDE DEF size
        <3> QED BY <3>1
    <2>2. p \in Nat \ {0}
        <3>1. 1 * 1 <= width * height /\ width * height \in Nat
            BY <2>1, ProductGrows, ProductIsNat
        <3> QED BY <3>1
    <2>3. CASE rounded > max
        <3> DEFINE kw == ShrunkSide(width, f, p, max)
                   kh == ShrunkSide(height, f, p, max)
                   a == LargerOf(1, kw)
                   b == LargerOf(1, kh)
        <3>1. size = Resized(f * a, f * b)
            BY <2>3, ResizeCases
        <3>2. /\ kw \in Nat
              /\ (kw * f) * (kw * f) * p <= width * width * max
              /\ kh \in Nat
              /\ (kh * f) * (kh * f) * p <= height * height * max
            <4> HIDE DEF p
            <4> QED BY <2>1, <2>2, ShrunkSideIs
        <3> HIDE DEF kw, kh, size, rounded
        <3>3. a \in Nat \ {0} /\ b \in Nat \ {0}
            BY <3>2 DEF LargerOf
        <3>4. /\ a = kw \/ a = 1
              /\ b = kh \/ b = 1
            BY DEF LargerOf
        <3> HIDE DEF a, b
        <3>5. SidesAre(size, f, a, b)
            BY <2>1, <3>1, <3>3, MultiplesAreSides
        <3> USE DEF SidesAre
        <3>6. CASE a = 1 \/ b = 1
            <4>1. f * 1 = f
                BY <2>1
            <4>2. f \in {size.width, size.height}
                BY <3>5, <3>6, <4>1
            <4> QED BY <2>3, <3>5, <4>2
        <3>7. CASE a = kw /\ b = kh
            <4>1. a * f \in Nat /\ b * f \in Nat
                BY <2>1, <3>3, ProductIsNat
            <4>2. (a * f) * (b * f) <= max
                <5>1. /\ (a * f) * (a * f) * p
                            <= width * width * max
                      /\ (b * f) * (b * f) * p
                            <= height * height * max
                    BY <3>2, <3>7
                <5> QED BY <2>1, <4>1, <5>1, WithinBound
            <4>3. ~(size.width * size.height > max)
                BY <2>1, <3>5, <4>2
            <4> QED BY <2>3, <3>5, <4>3
        <3> QED BY <3>4, <3>6, <3>7
    <2>4. CASE ~(rounded > max) /\ rounded < min
        <3> DEFINE a == EnlargedSide(width, f, p, min)
                   b == EnlargedSide(height, f, p, min)
        <3>1. size = Resized(f * a, f * b)
            BY <2>4, ResizeCases
        <3>2. /\ a \in Nat \ {0}
              /\ (a * f) * (a * f) * p >= width * width * min
              /\ b \in Nat \ {0}
              /\ (b * f) * (b * f) * p >= height * height * min
            <4> HIDE DEF p
            <4> QED BY <2>1, <2>2, EnlargedSideIs
        <3> HIDE DEF a, b, size, rounded
        <3>3. SidesAre(size, f, a, b)
            BY <2>1, <3>1, <3>2, MultiplesAreSides
        <3> USE DEF SidesAre
        <3>4. a * f \in Nat /\ b * f \in Nat
            BY <2>1, <3>2, ProductIsNat
        <3>5. (a * f) * (b * f) >= min
            BY <2>1, <3>2, <3>4, BeyondBound
        <3>6. ~(size.width * size.height < min)
            BY <2>1, <3>3, <3>5
        <3> QED BY <2>4, <3>3, <3>6
    <2>5. CASE ~(rounded > max) /\ ~(rounded < min)
        <3> DEFINE a == RoundDiv(width, f)
                   b == RoundDiv(height, f)
        <3>1. size = Resized(f * a, f * b)
            BY <2>5, ResizeCases
        <3>2. a \in Nat /\ b \in Nat
            <4>1. width \div f \in Nat /\ height \div f \in Nat
                BY <2>1, Quotient
            <4> QED BY <4>1 DEF RoundDiv
        <3>3. rounded = a * b * f * f
            BY DEF Rounded
        <3> HIDE DEF a, b, size, rounded
        <3>4. rounded = (a * f) * (b * f)
            BY <2>1, <3>2, <3>3
        <3>5. a # 0 /\ b # 0
            <4>1. a = 0 \/ b = 0 => rounded = 0
                BY <2>1, <3>2, <3>4
            <4> QED BY <2>1, <2>5, <4>1
        <3>6. SidesAre(size, f, a, b)
            BY <2>1, <3>1, <3>2, <3>5, MultiplesAreSides
        <3> USE DEF SidesAre
        <3>7. size.width * size.height = rounded
            BY <3>4, <3>6
        <3> QED BY <2>5, <3>6, <3>7
    <2> QED BY <2>3, <2>4, <2>5
<1>2. ResizeWithinBudget
    <2>1. /\ 1 .. 24 \subseteq Int /\ {2, 3, 4} \subseteq Int
          /\ {1, 4, 16, 36} \subseteq Int
          /\ {4, 16, 36, 64, 100} \subseteq Int
        OBVIOUS
    <2> SUFFICES ASSUME NEW width \in 1 .. 24, NEW height \in 1 .. 24,
                        NEW side \in {2, 3, 4},
                        NEW min \in {1, 4, 16, 36},
                        NEW max \in {4, 16, 36, 64, 100}
                 PROVE  ResizeWithinBudgetOn(width, height, side, min, max)
        BY Zenon DEF ResizeWithinBudget
    <2> QED BY <1>1, <2>1
<1> QED
    BY <1>1, <1>2

---------------------------------------------------------------------------
(* The two decoders of text                                                *)

(* The bytes that a lead says there are.                                   *)
IsLead(b) ==
    \/ Length(b) = 0
    \/ Length(b) = 1 /\ b \in 0 .. 127
    \/ Length(b) = 2 /\ b \in 194 .. 223
    \/ Length(b) = 3 /\ b \in 224 .. 239
    \/ Length(b) = 4 /\ b \in 240 .. 244

LEMMA LengthIs ==
    ASSUME NEW b \in Byte
    PROVE  IsLead(b)
<1>1. CASE b \in 0 .. 127
    BY <1>1 DEF Length, IsLead
<1>2. CASE b \in 194 .. 223
    BY <1>2 DEF Length, IsLead
<1>3. CASE b \in 224 .. 239
    BY <1>3 DEF Length, IsLead
<1>4. CASE b \in 240 .. 244
    BY <1>4 DEF Length, IsLead
<1>5. CASE b \notin (0 .. 127) \cup (194 .. 223) \cup (224 .. 239)
                       \cup (240 .. 244)
    BY <1>5 DEF Length, IsLead
<1> QED
    BY <1>1, <1>2, <1>3, <1>4, <1>5

(* The bits of a character that one of its later bytes adds.               *)
Bits(bytes, i, j) == bytes[i + j] % 64

(* The bits of a character's bytes, one behind the other.                  *)
LEMMA ValueIs ==
    ASSUME NEW bytes \in Seq(Byte), NEW i \in 1 .. Len(bytes)
    PROVE  LET b == bytes[i]
               x == Bits(bytes, i, 1)
               y == Bits(bytes, i, 2)
               z == Bits(bytes, i, 3)
           IN  /\ Value(bytes, i, 1) = b
               /\ i + 1 <= Len(bytes) =>
                      Value(bytes, i, 2) = (b % 32) * 64 + x
               /\ i + 2 <= Len(bytes) =>
                      Value(bytes, i, 3) = ((b % 16) * 64 + x) * 64 + y
               /\ i + 3 <= Len(bytes) =>
                      Value(bytes, i, 4) =
                          (((b % 8) * 64 + x) * 64 + y) * 64 + z
<1> DEFINE lead(length) ==
               CASE length = 1 -> bytes[i]
                 [] length = 2 -> bytes[i] % 32
                 [] length = 3 -> bytes[i] % 16
                 [] length = 4 -> bytes[i] % 8
<1>1. bytes[i] \in Byte
    OBVIOUS
<1>2. ASSUME NEW length \in 1 .. 4, i + length - 1 <= Len(bytes)
      PROVE  \E f \in [0 .. length - 1 -> Nat] :
                 /\ f[0] = lead(length)
                 /\ \A j \in 1 .. length - 1 :
                        f[j] = f[j - 1] * 64 + Bits(bytes, i, j)
                 /\ Value(bytes, i, length) = f[length - 1]
    <2> DEFINE N == length - 1
               first == lead(length)
               step == [j \in 1 .. N |->
                           [s \in Nat |-> s * 64 + Bits(bytes, i, j)]]
               Is(f) == f = [j \in 0 .. N |->
                                IF j = 0 THEN first
                                ELSE f[j - 1] * 64 + (bytes[i + j] % 64)]
               upTo == CHOOSE f : Is(f)
    <2>1. N \in Nat /\ N \in 0 .. 3
        OBVIOUS
    <2>2. first \in Nat
        <3>1. bytes[i] \in Nat
            <4>1. \A n \in Byte : n \in Nat
                BY DEF Byte
            <4> QED BY <1>1, <4>1
        <3>2. /\ bytes[i] % 32 \in Nat /\ bytes[i] % 16 \in Nat
              /\ bytes[i] % 8 \in Nat
            BY <3>1
        <3>3. length = 1 \/ length = 2 \/ length = 3 \/ length = 4
            OBVIOUS
        <3> QED BY <3>1, <3>2, <3>3
    <2>3. \A j \in 1 .. N : Bits(bytes, i, j) \in Nat
        <3>1. ASSUME NEW j \in 1 .. N PROVE bytes[i + j] \in Byte
            <4>1. i + j \in 1 .. Len(bytes)
                BY <1>2
            <4> QED BY <4>1
        <3> HIDE DEF N
        <3>2. \A n \in Byte : n % 64 \in Nat
            BY DEF Byte
        <3> QED BY <3>1, <3>2 DEF Bits
    <2>4. Value(bytes, i, length) = upTo[N]
        BY DEF Value
    <2> HIDE DEF N, first
    <2>5. step \in [1 .. N -> [Nat -> Nat]]
        BY <2>3
    <2>6. \A j \in 1 .. N : \A s \in Nat :
              step[j][s] = s * 64 + Bits(bytes, i, j)
        OBVIOUS
    <2> HIDE DEF step
    <2>7. PICK g \in [0 .. N -> Nat] : Iterates(g, first, step, N)
        BY <2>1, <2>2, <2>5, Iteration
    <2>8. \A j \in 1 .. N : g[j] = g[j - 1] * 64 + Bits(bytes, i, j)
        <3>1. \A j \in 1 .. N : g[j - 1] \in Nat
            BY <2>1
        <3> QED BY <2>6, <2>7, <3>1 DEF Iterates
    <2>9. Is(g)
        <3> DEFINE h == [j \in 0 .. N |->
                            IF j = 0 THEN first
                            ELSE g[j - 1] * 64 + (bytes[i + j] % 64)]
        <3>1. ASSUME NEW j \in 0 .. N PROVE g[j] = h[j]
            <4>1. CASE j = 0
                BY <2>7, <4>1 DEF Iterates
            <4>2. CASE j # 0
                <5>1. j \in 1 .. N
                    BY <2>1, <4>2
                <5> QED BY <2>8, <4>2, <5>1 DEF Bits
            <4> QED BY <4>1, <4>2
        <3>2. g = [j \in 0 .. N |-> g[j]]
            OBVIOUS
        <3> QED BY <3>1, <3>2
    <2>10. Is(upTo)
        <3> HIDE DEF Is
        <3> QED BY <2>9
    <2> HIDE DEF upTo
    <2>11. upTo[0] = first
        BY <2>1, <2>10
    <2>12. ASSUME NEW j \in 1 .. N
           PROVE  upTo[j] = upTo[j - 1] * 64 + Bits(bytes, i, j)
        <3>1. j \in 0 .. N /\ j # 0
            BY <2>1
        <3> QED BY <2>10, <3>1 DEF Bits
    <2>13. \A j \in 0 .. N : upTo[j] = g[j]
        <3> HIDE DEF Is
        <3>0. g[0] = first
            BY <2>7 DEF Iterates
        <3>1. upTo[0] = g[0]
            BY <2>11, <3>0
        <3>2. 1 <= N => upTo[1] = g[1]
            BY <2>1, <2>8, <2>12, <3>1
        <3>3. 2 <= N => upTo[2] = g[2]
            BY <2>1, <2>8, <2>12, <3>2
        <3>4. 3 <= N => upTo[3] = g[3]
            BY <2>1, <2>8, <2>12, <3>3
        <3>5. \A j \in 0 .. N : j = 0 \/ (j = 1 /\ 1 <= N)
                  \/ (j = 2 /\ 2 <= N) \/ (j = 3 /\ 3 <= N)
            BY <2>1
        <3> QED BY <3>1, <3>2, <3>3, <3>4, <3>5
    <2>14. g[0] = first
        BY <2>7 DEF Iterates
    <2>15. Value(bytes, i, length) = g[N]
        BY <2>1, <2>4, <2>13
    <2> QED BY <2>8, <2>14, <2>15 DEF N, first
<1>3. Value(bytes, i, 1) = bytes[i]
    <2>1. PICK f \in [0 .. 1 - 1 -> Nat] :
              f[0] = lead(1) /\ Value(bytes, i, 1) = f[1 - 1]
        BY <1>2
    <2> QED BY <2>1
<1>4. ASSUME i + 1 <= Len(bytes)
      PROVE  Value(bytes, i, 2) = (bytes[i] % 32) * 64 + Bits(bytes, i, 1)
    <2>1. PICK f \in [0 .. 2 - 1 -> Nat] :
              /\ f[0] = lead(2)
              /\ \A j \in 1 .. 2 - 1 : f[j] = f[j - 1] * 64 + Bits(bytes, i, j)
              /\ Value(bytes, i, 2) = f[2 - 1]
        BY <1>2, <1>4
    <2>2. f[1] = f[0] * 64 + Bits(bytes, i, 1)
        BY <2>1
    <2> QED BY <2>1, <2>2
<1>5. ASSUME i + 2 <= Len(bytes)
      PROVE  Value(bytes, i, 3) =
                 ((bytes[i] % 16) * 64 + Bits(bytes, i, 1)) * 64
                     + Bits(bytes, i, 2)
    <2>1. PICK f \in [0 .. 3 - 1 -> Nat] :
              /\ f[0] = lead(3)
              /\ \A j \in 1 .. 3 - 1 : f[j] = f[j - 1] * 64 + Bits(bytes, i, j)
              /\ Value(bytes, i, 3) = f[3 - 1]
        BY <1>2, <1>5
    <2>2. /\ f[1] = f[0] * 64 + Bits(bytes, i, 1)
          /\ f[2] = f[1] * 64 + Bits(bytes, i, 2)
        BY <2>1
    <2> QED BY <2>1, <2>2
<1>6. ASSUME i + 3 <= Len(bytes)
      PROVE  Value(bytes, i, 4) =
                 (((bytes[i] % 8) * 64 + Bits(bytes, i, 1)) * 64
                     + Bits(bytes, i, 2)) * 64 + Bits(bytes, i, 3)
    <2>1. PICK f \in [0 .. 4 - 1 -> Nat] :
              /\ f[0] = lead(4)
              /\ \A j \in 1 .. 4 - 1 : f[j] = f[j - 1] * 64 + Bits(bytes, i, j)
              /\ Value(bytes, i, 4) = f[4 - 1]
        BY <1>2, <1>6
    <2>2. /\ f[1] = f[0] * 64 + Bits(bytes, i, 1)
          /\ f[2] = f[1] * 64 + Bits(bytes, i, 2)
          /\ f[3] = f[2] * 64 + Bits(bytes, i, 3)
        BY <2>1
    <2> QED BY <2>1, <2>2
<1> QED
    BY <1>3, <1>4, <1>5, <1>6

(* A second byte in its range is a value in its range.                     *)
(* The first two bytes are in their ranges exactly when the value is.      *)
LEMMA AnAsciiByte ==
    ASSUME NEW b \in 0 .. 127
    PROVE  Scalar(b) /\ ~Overlong(b, 1)
BY SMT DEF Scalar, Overlong

LEMMA SecondOfTwo ==
    ASSUME NEW b \in 194 .. 223, NEW c
    PROVE  SecondInRange(b, c)
<1>1. b # 224 /\ b # 237 /\ b # 240 /\ b # 244
    OBVIOUS
<1> QED
    BY <1>1 DEF SecondInRange

LEMMA TwoBytes ==
    ASSUME NEW b \in 194 .. 223, NEW x \in 0 .. 63
    PROVE  LET v == (b % 32) * 64 + x IN Scalar(v) /\ ~Overlong(v, 2)
<1>1. b % 32 = b - 192
    OBVIOUS
<1> QED
    BY <1>1, SMT DEF Scalar, Overlong

LEMMA ThreeBytes ==
    ASSUME NEW b \in 224 .. 239, NEW c \in 128 .. 191, NEW y \in 0 .. 63
    PROVE  LET v == ((b % 16) * 64 + (c % 64)) * 64 + y
           IN  Scalar(v) /\ ~Overlong(v, 3) <=> SecondInRange(b, c)
<1>1. b % 16 = b - 224 /\ c % 64 = c - 128
    OBVIOUS
<1> DEFINE v == ((b - 224) * 64 + (c - 128)) * 64 + y
<1>2. Scalar(v) /\ ~Overlong(v, 3) <=> SecondInRange(b, c)
    <2>1. v = 4096 * (b - 224) + 64 * (c - 128) + y /\ v \in Nat
        OBVIOUS
    <2> HIDE DEF v
    <2>2. v <= 1114111
        BY <2>1, SMT
    <2>3. v < 2048 <=> b = 224 /\ c < 160
        BY <2>1, SMT
    <2>4. v \in 55296 .. 57343 <=> b = 237 /\ c > 159
        BY <2>1, SMT
    <2> QED BY <2>2, <2>3, <2>4, SMT
            DEF Scalar, Overlong, SecondInRange
<1> QED
    BY <1>1, <1>2

LEMMA FourBytes ==
    ASSUME NEW b \in 240 .. 244, NEW c \in 128 .. 191,
           NEW y \in 0 .. 63, NEW z \in 0 .. 63
    PROVE  LET v == (((b % 8) * 64 + (c % 64)) * 64 + y) * 64 + z
           IN  Scalar(v) /\ ~Overlong(v, 4) <=> SecondInRange(b, c)
<1>1. b % 8 = b - 240 /\ c % 64 = c - 128
    OBVIOUS
<1> DEFINE v == (((b - 240) * 64 + (c - 128)) * 64 + y) * 64 + z
<1>2. Scalar(v) /\ ~Overlong(v, 4) <=> SecondInRange(b, c)
    <2>1. /\ v = 262144 * (b - 240) + 4096 * (c - 128) + 64 * y + z
          /\ v \in Nat
        OBVIOUS
    <2> HIDE DEF v
    <2>2. v < 65536 <=> b = 240 /\ c < 144
        BY <2>1, SMT
    <2>3. v <= 1114111 <=> ~(b = 244 /\ c > 143)
        BY <2>1, SMT
    <2>4. v \in 55296 .. 57343 => v < 65536
        BY <2>1, SMT
    <2> QED BY <2>2, <2>3, <2>4, SMT
            DEF Scalar, Overlong, SecondInRange
<1> QED
    BY <1>1, <1>2

(* What a byte is, and what it adds to a character.                        *)
LEMMA ByteRange == \A n \in Byte : n \in Nat /\ n <= 255 /\ n % 64 \in 0 .. 63
BY DEF Byte

(* Both decoders take the same bytes for a character.                      *)
LEMMA WholeCharacter ==
    ASSUME NEW bytes \in Seq(Byte), NEW i \in 1 .. Len(bytes)
    PROVE  StrictAt(bytes, i) <=>
               /\ Length(bytes[i]) > 0
               /\ \A j \in 1 .. Length(bytes[i]) - 1 : Continues(bytes, i, j)
<1> DEFINE b == bytes[i]
           v == Value(bytes, i, Length(b))
           x(j) == Bits(bytes, i, j)
<1>1. b \in Byte /\ Len(bytes) \in Nat
    BY LenProperties
<1>2. \A j \in Nat : j > 0 /\ i + j <= Len(bytes) =>
          bytes[i + j] \in Byte /\ x(j) \in 0 .. 63
    <2>1. ASSUME NEW j \in Nat, j > 0, i + j <= Len(bytes)
          PROVE  bytes[i + j] \in Byte
        <3>1. i + j \in 1 .. Len(bytes)
            BY <2>1
        <3> QED BY <3>1
    <2> QED BY <2>1, ByteRange DEF Bits
<1>3. CASE Length(b) = 0
    BY <1>3 DEF StrictAt
<1>4. CASE Length(b) = 1 /\ b \in 0 .. 127
    <2>1. Value(bytes, i, 1) = b
        BY ValueIs
    <2>2. Scalar(b) /\ ~Overlong(b, 1)
        <3>1. b \in 0 .. 127
            BY <1>4
        <3> HIDE DEF b
        <3> QED BY <3>1, AnAsciiByte
    <2> QED BY <1>1, <1>4, <2>1, <2>2 DEF StrictAt
<1>5. CASE Length(b) = 2 /\ b \in 194 .. 223
    <2>1. i + 2 - 1 = i + 1 /\ \A j \in 1 .. 2 - 1 : j = 1
        OBVIOUS
    <2>2. StrictAt(bytes, i) <=>
              /\ i + 1 <= Len(bytes) /\ Continuation(bytes[i + 1])
              /\ Scalar(Value(bytes, i, 2)) /\ ~Overlong(Value(bytes, i, 2), 2)
        BY <1>5, <2>1 DEF StrictAt
    <2>3. i + 1 <= Len(bytes) =>
              Scalar(Value(bytes, i, 2)) /\ ~Overlong(Value(bytes, i, 2), 2)
        <3> SUFFICES ASSUME i + 1 <= Len(bytes)
                     PROVE  /\ Scalar(Value(bytes, i, 2))
                            /\ ~Overlong(Value(bytes, i, 2), 2)
            OBVIOUS
        <3>1. x(1) \in 0 .. 63
            BY <1>2
        <3>2. Value(bytes, i, 2) = (b % 32) * 64 + x(1)
            BY ValueIs
        <3> DEFINE y == x(1)
                   w == (b % 32) * 64 + y
        <3>3. y \in 0 .. 63 /\ b \in 194 .. 223 /\ Value(bytes, i, 2) = w
            BY <1>5, <3>1, <3>2
        <3> HIDE DEF y, b
        <3>4. Scalar(w) /\ ~Overlong(w, 2)
            BY <3>3, TwoBytes
        <3> HIDE DEF w
        <3> QED BY <3>3, <3>4
    <2>4. SecondInRange(b, bytes[i + 1])
        <3>1. b \in 194 .. 223
            BY <1>5
        <3> HIDE DEF b
        <3> QED BY <3>1, SecondOfTwo
    <2>5. (\A j \in 1 .. 2 - 1 : Continues(bytes, i, j)) <=>
              i + 1 <= Len(bytes) /\ Continuation(bytes[i + 1])
        BY <2>1, <2>4 DEF Continues
    <2> QED BY <1>5, <2>2, <2>3, <2>5
<1>6. CASE Length(b) = 3 /\ b \in 224 .. 239
    <2>1. /\ i + 3 - 1 = i + 2
          /\ \A j \in 1 .. 3 - 1 : j = 1 \/ j = 2
          /\ i + 2 <= Len(bytes) => i + 1 <= Len(bytes)
        BY <1>1
    <2>2. StrictAt(bytes, i) <=>
              /\ i + 2 <= Len(bytes)
              /\ Continuation(bytes[i + 1]) /\ Continuation(bytes[i + 2])
              /\ Scalar(Value(bytes, i, 3)) /\ ~Overlong(Value(bytes, i, 3), 3)
        BY <1>6, <2>1 DEF StrictAt
    <2>3. ASSUME i + 2 <= Len(bytes), Continuation(bytes[i + 1])
          PROVE  Scalar(Value(bytes, i, 3)) /\ ~Overlong(Value(bytes, i, 3), 3)
                     <=> SecondInRange(b, bytes[i + 1])
        <3> DEFINE c == bytes[i + 1]
        <3>1. x(2) \in 0 .. 63 /\ c \in 128 .. 191
            BY <1>2, <2>3 DEF Continuation
        <3>2. Value(bytes, i, 3) = ((b % 16) * 64 + (c % 64)) * 64 + x(2)
            BY <2>3, ValueIs DEF Bits
        <3> DEFINE y == x(2)
                   w == ((b % 16) * 64 + (c % 64)) * 64 + y
        <3>3. /\ b \in 224 .. 239 /\ c \in 128 .. 191 /\ y \in 0 .. 63
              /\ Value(bytes, i, 3) = w
            BY <1>6, <3>1, <3>2
        <3> HIDE DEF y, b, c
        <3>4. Scalar(w) /\ ~Overlong(w, 3) <=> SecondInRange(b, c)
            BY <3>3, ThreeBytes
        <3> HIDE DEF w
        <3> QED BY <3>3, <3>4 DEF b, c
    <2>4. (\A j \in 1 .. 3 - 1 : Continues(bytes, i, j)) <=>
              /\ i + 2 <= Len(bytes)
              /\ Continuation(bytes[i + 1]) /\ Continuation(bytes[i + 2])
              /\ SecondInRange(b, bytes[i + 1])
        BY <2>1 DEF Continues
    <2> QED BY <1>6, <2>2, <2>3, <2>4
<1>7. CASE Length(b) = 4 /\ b \in 240 .. 244
    <2>1. /\ i + 4 - 1 = i + 3
          /\ \A j \in 1 .. 4 - 1 : j = 1 \/ j = 2 \/ j = 3
          /\ i + 3 <= Len(bytes) => i + 1 <= Len(bytes) /\ i + 2 <= Len(bytes)
        BY <1>1
    <2>2. StrictAt(bytes, i) <=>
              /\ i + 3 <= Len(bytes)
              /\ Continuation(bytes[i + 1]) /\ Continuation(bytes[i + 2])
              /\ Continuation(bytes[i + 3])
              /\ Scalar(Value(bytes, i, 4)) /\ ~Overlong(Value(bytes, i, 4), 4)
        BY <1>7, <2>1 DEF StrictAt
    <2>3. ASSUME i + 3 <= Len(bytes), Continuation(bytes[i + 1])
          PROVE  Scalar(Value(bytes, i, 4)) /\ ~Overlong(Value(bytes, i, 4), 4)
                     <=> SecondInRange(b, bytes[i + 1])
        <3> DEFINE c == bytes[i + 1]
        <3>1. x(2) \in 0 .. 63 /\ x(3) \in 0 .. 63 /\ c \in 128 .. 191
            BY <1>2, <2>1, <2>3 DEF Continuation
        <3>2. Value(bytes, i, 4) =
                  (((b % 8) * 64 + (c % 64)) * 64 + x(2)) * 64 + x(3)
            BY <2>3, ValueIs DEF Bits
        <3> DEFINE y == x(2)
                   z == x(3)
                   w == (((b % 8) * 64 + (c % 64)) * 64 + y) * 64 + z
        <3>3. /\ b \in 240 .. 244 /\ c \in 128 .. 191
              /\ y \in 0 .. 63 /\ z \in 0 .. 63
              /\ Value(bytes, i, 4) = w
            BY <1>7, <3>1, <3>2
        <3> HIDE DEF y, z, b, c
        <3>4. Scalar(w) /\ ~Overlong(w, 4) <=> SecondInRange(b, c)
            BY <3>3, FourBytes
        <3> HIDE DEF w
        <3> QED BY <3>3, <3>4 DEF b, c
    <2>4. (\A j \in 1 .. 4 - 1 : Continues(bytes, i, j)) <=>
              /\ i + 3 <= Len(bytes)
              /\ Continuation(bytes[i + 1]) /\ Continuation(bytes[i + 2])
              /\ Continuation(bytes[i + 3])
              /\ SecondInRange(b, bytes[i + 1])
        BY <2>1 DEF Continues
    <2> QED BY <1>7, <2>2, <2>3, <2>4
<1>8. IsLead(b)
    <2> HIDE DEF b
    <2> QED BY <1>1, LengthIs
<1> QED
    BY <1>3, <1>4, <1>5, <1>6, <1>7, <1>8 DEF IsLead

(* The lossy decoder goes on behind a character, or puts a replacement for *)
(* some bytes of the text.                                                 *)
LEMMA LossyIs ==
    ASSUME NEW bytes \in Seq(Byte), NEW i \in 1 .. Len(bytes)
    PROVE  /\ StrictAt(bytes, i) =>
                  LossyAt(bytes, i) =
                      [point |-> Value(bytes, i, Length(bytes[i])),
                       next |-> i + Length(bytes[i])]
           /\ StrictAt(bytes, i) =>
                  i + Length(bytes[i]) \in i + 1 .. Len(bytes) + 1
           /\ ~StrictAt(bytes, i) => LossyAt(bytes, i).point = Replacement
           /\ LossyAt(bytes, i).next \in i + 1 .. Len(bytes) + 1
<1> DEFINE L == Length(bytes[i])
           wrong == {j \in 1 .. L - 1 : ~Continues(bytes, i, j)}
           first == CHOOSE j \in wrong : \A k \in wrong : j <= k
<1>1. L \in 0 .. 4 /\ Len(bytes) \in Nat
    <2>1. bytes[i] \in Byte
        OBVIOUS
    <2>2. IsLead(bytes[i])
        BY <2>1, LengthIs
    <2> QED BY <2>2, LenProperties DEF IsLead
<1>2. LossyAt(bytes, i) =
          IF L = 0 THEN [point |-> Replacement, next |-> i + 1]
          ELSE IF wrong = {}
          THEN [point |-> Value(bytes, i, L), next |-> i + L]
          ELSE [point |-> Replacement, next |-> i + first]
    BY DEF LossyAt
<1>3. StrictAt(bytes, i) <=> L > 0 /\ wrong = {}
    BY WholeCharacter
<1>4. L > 0 /\ wrong = {} => i + L \in i + 1 .. Len(bytes) + 1
    <2>1. StrictAt(bytes, i) => i + L - 1 <= Len(bytes)
        BY DEF StrictAt
    <2> QED BY <1>1, <1>3, <2>1
<1>5. L > 0 /\ wrong # {} => i + first \in i + 1 .. Len(bytes) + 1
    <2> SUFFICES ASSUME L > 0, wrong # {}
                 PROVE  i + first \in i + 1 .. Len(bytes) + 1
        OBVIOUS
    <2>1. wrong \in SUBSET Nat
        BY <1>1
    <2> HIDE DEF wrong
    <2>2. first \in wrong /\ \A k \in wrong : first <= k
        BY <2>1, LeastElement
    <2> HIDE DEF first
    <2>3. first \in 1 .. L - 1
        BY <2>2 DEF wrong
    <2>4. \A k \in 1 .. L - 1 : k < first => Continues(bytes, i, k)
        <3>1. ASSUME NEW k \in 1 .. L - 1, k < first, k \in wrong
              PROVE  FALSE
            <4>1. first <= k
                BY <2>2, <3>1
            <4> QED BY <1>1, <2>3, <3>1, <4>1
        <3> QED BY <3>1 DEF wrong
    <2>5. first > 1 => i + (first - 1) <= Len(bytes)
        <3>1. first > 1 => Continues(bytes, i, first - 1)
            BY <1>1, <2>3, <2>4
        <3> QED BY <3>1 DEF Continues
    <2> HIDE DEF L
    <2> QED BY <1>1, <2>3, <2>5
<1> HIDE DEF wrong, first
<1> QED
    BY <1>1, <1>2, <1>3, <1>4, <1>5

(* Results of the strict decoder.                                          *)
Texts == [ok : BOOLEAN, points : Seq(Int)]

(* A character is a number.                                                *)
LEMMA ValueIsInt ==
    ASSUME NEW bytes \in Seq(Byte), NEW i \in 1 .. Len(bytes),
           StrictAt(bytes, i)
    PROVE  Value(bytes, i, Length(bytes[i])) \in Int
<1> DEFINE b == bytes[i]
           x(j) == Bits(bytes, i, j)
<1>1. b \in Byte /\ b \in Nat /\ Len(bytes) \in Nat
    BY LenProperties, ByteRange
<1>2. \A j \in Nat : j > 0 /\ i + j <= Len(bytes) => x(j) \in Int
    <2>1. ASSUME NEW j \in Nat, j > 0, i + j <= Len(bytes)
          PROVE  x(j) \in Int
        <3>1. i + j \in 1 .. Len(bytes)
            BY <2>1
        <3>2. bytes[i + j] \in Byte
            BY <3>1
        <3> QED BY <3>2, ByteRange DEF Bits
    <2> QED BY <2>1
<1>3. i + Length(b) - 1 <= Len(bytes) /\ Length(b) > 0
    BY DEF StrictAt
<1>4. IsLead(b)
    BY <1>1, LengthIs
<1>5. b % 32 \in Int /\ b % 16 \in Int /\ b % 8 \in Int
    BY <1>1
<1>6. CASE Length(b) = 1
    BY <1>1, <1>6, ValueIs
<1>7. CASE Length(b) = 2
    <2>1. i + 1 <= Len(bytes)
        BY <1>3, <1>7
    <2>2. Value(bytes, i, 2) = (b % 32) * 64 + x(1)
        BY <2>1, ValueIs
    <2>3. x(1) \in Int
        BY <1>2, <2>1
    <2> HIDE DEF x, b
    <2> QED BY <1>5, <1>7, <2>2, <2>3 DEF b
<1>8. CASE Length(b) = 3
    <2>1. i + 1 <= Len(bytes) /\ i + 2 <= Len(bytes)
        BY <1>1, <1>3, <1>8
    <2>2. Value(bytes, i, 3) = ((b % 16) * 64 + x(1)) * 64 + x(2)
        BY <2>1, ValueIs
    <2>3. x(1) \in Int /\ x(2) \in Int
        BY <1>2, <2>1
    <2> HIDE DEF x, b
    <2> QED BY <1>5, <1>8, <2>2, <2>3 DEF b
<1>9. CASE Length(b) = 4
    <2>1. /\ i + 1 <= Len(bytes) /\ i + 2 <= Len(bytes)
          /\ i + 3 <= Len(bytes)
        BY <1>1, <1>3, <1>9
    <2>2. Value(bytes, i, 4) =
              (((b % 8) * 64 + x(1)) * 64 + x(2)) * 64 + x(3)
        BY <2>1, ValueIs
    <2>3. x(1) \in Int /\ x(2) \in Int /\ x(3) \in Int
        BY <1>2, <2>1
    <2> DEFINE h == b % 8
               y == x(1)
               z == x(2)
               u == x(3)
    <2>4. /\ h \in Int /\ y \in Int /\ z \in Int /\ u \in Int
          /\ Value(bytes, i, 4) = ((h * 64 + y) * 64 + z) * 64 + u
        BY <1>5, <2>2, <2>3
    <2> HIDE DEF h, y, z, u
    <2>5. ((h * 64 + y) * 64 + z) * 64 + u \in Int
        BY <2>4
    <2> QED BY <1>9, <2>4, <2>5
<1> QED
    BY <1>3, <1>4, <1>6, <1>7, <1>8, <1>9 DEF IsLead

(* What the strict decoder makes of a text from each place on.             *)
StrictFrom(bytes, from) ==
    /\ from \in [1 .. Len(bytes) + 1 -> Texts]
    /\ from[Len(bytes) + 1] = [ok |-> TRUE, points |-> <<>>]
    /\ \A i \in 1 .. Len(bytes) :
          from[i] =
              IF ~StrictAt(bytes, i) THEN Invalid
              ELSE LET rest == from[i + Length(bytes[i])]
                   IN  IF ~rest.ok THEN Invalid
                       ELSE [ok |-> TRUE,
                             points |-> <<Value(bytes, i, Length(bytes[i]))>>
                                            \o rest.points]

(* The strict decoder computes it.                                         *)
LEMMA StrictIs ==
    ASSUME NEW bytes \in Seq(Byte)
    PROVE  \E from : StrictFrom(bytes, from) /\ Strict(bytes) = from[1]
<1> DEFINE N == Len(bytes)
           last == [ok |-> TRUE, points |-> <<>>]
           length(i) == Length(bytes[i])
           value(i) == Value(bytes, i, length(i))
           next == [i \in 1 .. N |-> IF StrictAt(bytes, i) THEN i + length(i)
                                     ELSE i + 1]
           put(i, rest) ==
               IF ~rest.ok THEN Invalid
               ELSE [ok |-> TRUE, points |-> <<value(i)>> \o rest.points]
           read(i, rest) ==
               IF ~StrictAt(bytes, i) THEN Invalid ELSE put(i, rest)
           step == [i \in 1 .. N |-> [rest \in Texts |-> read(i, rest)]]
           Is(f) == f = [i \in 1 .. N + 1 |->
                            IF i > N THEN last
                            ELSE read(i, f[i + length(i)])]
           from == CHOOSE f : Is(f)
<1>1. N \in Nat
    BY LenProperties
<1>2. last \in Texts /\ Invalid \in Texts
    BY DEF Texts, Invalid
<1>3. \A i \in 1 .. N : StrictAt(bytes, i) => i + length(i) \in i + 1 .. N + 1
    BY LossyIs
<1>4. \A i \in 1 .. N : StrictAt(bytes, i) => value(i) \in Int
    BY ValueIsInt
<1>5. Strict(bytes) = from[1]
    BY DEF Strict
<1> HIDE DEF N, last, length, value
<1>6. next \in [1 .. N -> 1 .. N + 1] /\ \A i \in 1 .. N : i < next[i]
    <2>1. \A i \in 1 .. N : i + 1 \in 1 .. N + 1 /\ i < i + 1
        BY <1>1
    <2>2. \A i \in 1 .. N : StrictAt(bytes, i) =>
              i + length(i) \in 1 .. N + 1 /\ i < i + length(i)
        BY <1>1, <1>3
    <2> QED BY <2>1, <2>2
<1>7. \A i \in 1 .. N : \A rest \in Texts : read(i, rest) \in Texts
    <2>1. ASSUME NEW i \in 1 .. N, NEW rest \in Texts,
                 StrictAt(bytes, i), rest.ok
          PROVE  [ok |-> TRUE, points |-> <<value(i)>> \o rest.points]
                     \in Texts
        <3>1. value(i) \in Int /\ rest.points \in Seq(Int)
            BY <1>4, <2>1 DEF Texts
        <3>2. <<value(i)>> \in Seq(Int)
            BY <3>1
        <3>3. <<value(i)>> \o rest.points \in Seq(Int)
            BY <3>1, <3>2, ConcatProperties
        <3> QED BY <3>3 DEF Texts
    <2> QED BY <1>2, <2>1
<1> HIDE DEF read, next
<1>8. step \in [1 .. N -> [Texts -> Texts]]
    BY <1>7
<1>9. \A i \in 1 .. N : \A rest \in Texts : step[i][rest] = read(i, rest)
    OBVIOUS
<1> HIDE DEF step
<1>10. PICK g \in [1 .. N + 1 -> Texts] : Recurs(g, last, next, step, N)
    <2>1. last \in Texts
        BY <1>2
    <2>2. Ahead(next, N)
        BY <1>6 DEF Ahead
    <2> QED BY <1>1, <1>8, <2>1, <2>2, RecursionFromEnd
<1>11. \A i \in 1 .. N : g[i] = read(i, g[i + length(i)])
    <2> TAKE i \in 1 .. N
    <2>1. next[i] \in 1 .. N + 1
        BY <1>6
    <2>2. g[i] = read(i, g[next[i]])
        BY <1>9, <1>10, <2>1 DEF Recurs
    <2>3. CASE StrictAt(bytes, i)
        <3>1. next[i] = i + length(i)
            BY <2>3 DEF next
        <3> QED BY <2>2, <3>1
    <2>4. CASE ~StrictAt(bytes, i)
        BY <2>2, <2>4 DEF read
    <2> QED BY <2>3, <2>4
<1>12. Is(g)
    <2> DEFINE h == [i \in 1 .. N + 1 |-> IF i > N THEN last
                                          ELSE read(i, g[i + length(i)])]
    <2>1. ASSUME NEW i \in 1 .. N + 1 PROVE g[i] = h[i]
        <3>1. CASE i > N
            <4>1. i = N + 1
                BY <1>1, <3>1
            <4> QED BY <1>10, <3>1, <4>1 DEF Recurs
        <3>2. CASE ~(i > N)
            <4>1. i \in 1 .. N
                BY <1>1, <3>2
            <4> QED BY <1>11, <3>2, <4>1
        <3> QED BY <3>1, <3>2
    <2>2. g = [i \in 1 .. N + 1 |-> g[i]]
        BY <1>10
    <2> QED BY <2>1, <2>2
<1>13. Is(from)
    <2> HIDE DEF Is
    <2> QED BY <1>12
<1> HIDE DEF from
<1>14. from[N + 1] = last
    <2>1. N + 1 \in 1 .. N + 1 /\ N + 1 > N
        BY <1>1
    <2> QED BY <1>13, <2>1
<1>15. \A i \in 1 .. N : from[i] = read(i, from[i + length(i)])
    <2> TAKE i \in 1 .. N
    <2>1. i \in 1 .. N + 1 /\ ~(i > N)
        BY <1>1
    <2> QED BY <1>13, <2>1
<1>16. from \in [1 .. N + 1 -> Texts]
    <2> DEFINE T == {n \in Nat : \A i \in 1 .. N + 1 :
                                    i >= N + 1 - n => from[i] \in Texts}
    <2>1. 0 \in T
        <3>1. \A i \in 1 .. N + 1 : i >= N + 1 - 0 => i = N + 1
            BY <1>1
        <3> QED BY <1>2, <1>14, <3>1
    <2>2. ASSUME NEW n \in Nat, n \in T
          PROVE  n + 1 \in T
        <3> SUFFICES ASSUME NEW i \in 1 .. N + 1, i >= N + 1 - (n + 1)
                     PROVE  from[i] \in Texts
            OBVIOUS
        <3>1. CASE i = N + 1
            BY <1>2, <1>14, <3>1
        <3>2. CASE i # N + 1
            <4>1. i \in 1 .. N
                BY <1>1, <3>2
            <4>2. CASE StrictAt(bytes, i)
                <5>1. i + length(i) \in i + 1 .. N + 1
                    BY <1>3, <4>1, <4>2
                <5>2. /\ i + length(i) \in 1 .. N + 1
                      /\ i + length(i) >= N + 1 - n
                    BY <1>1, <5>1
                <5>3. from[i + length(i)] \in Texts
                    BY <2>2, <5>2
                <5> QED BY <1>7, <1>15, <4>1, <5>3
            <4>3. CASE ~StrictAt(bytes, i)
                BY <1>2, <1>15, <4>1, <4>3 DEF read
            <4> QED BY <4>2, <4>3
        <3> QED BY <3>1, <3>2
    <2>3. N + 1 \in T
        <3> HIDE DEF T
        <3>1. \A n \in Nat : n \in T
            BY <2>1, <2>2, Induction
        <3> QED BY <1>1, <3>1
    <2>4. \A i \in 1 .. N + 1 : from[i] \in Texts
        BY <1>1, <2>3
    <2>5. from = [i \in 1 .. N + 1 |-> from[i]]
        BY <1>13
    <2> QED BY <2>4, <2>5
<1>17. StrictFrom(bytes, from)
    BY <1>14, <1>15, <1>16 DEF StrictFrom, read, N, last, length, value
<1> QED
    BY <1>5, <1>17

(* What the lossy decoder makes of a text from each place on.              *)
LossyFrom(bytes, from) ==
    /\ from \in [1 .. Len(bytes) + 1 -> Seq(Int)]
    /\ from[Len(bytes) + 1] = <<>>
    /\ \A i \in 1 .. Len(bytes) :
          from[i] = <<LossyAt(bytes, i).point>> \o from[LossyAt(bytes, i).next]

(* The lossy decoder computes it.                                          *)
LEMMA LossyFromIs ==
    ASSUME NEW bytes \in Seq(Byte)
    PROVE  \E from : LossyFrom(bytes, from) /\ Lossy(bytes) = from[1]
<1> DEFINE N == Len(bytes)
           S == Seq(Int)
           point(i) == LossyAt(bytes, i).point
           goes(i) == LossyAt(bytes, i).next
           next == [i \in 1 .. N |-> goes(i)]
           step == [i \in 1 .. N |-> [rest \in S |-> <<point(i)>> \o rest]]
           Is(f) == f = [i \in 1 .. N + 1 |->
                            IF i > N THEN <<>>
                            ELSE <<point(i)>> \o f[goes(i)]]
           from == CHOOSE f : Is(f)
<1>1. N \in Nat
    BY LenProperties
<1>2. <<>> \in S
    BY EmptySeq
<1>3. \A i \in 1 .. N : goes(i) \in i + 1 .. N + 1
    BY LossyIs
<1>4. ASSUME NEW i \in 1 .. N
      PROVE  point(i) \in Int
    <2>1. CASE StrictAt(bytes, i)
        <3>1. point(i) = Value(bytes, i, Length(bytes[i]))
            BY <2>1, LossyIs
        <3>2. Value(bytes, i, Length(bytes[i])) \in Int
            BY <2>1, ValueIsInt
        <3> HIDE DEF point
        <3> QED BY <3>1, <3>2
    <2>2. CASE ~StrictAt(bytes, i)
        BY <2>2, LossyIs DEF Replacement
    <2> QED BY <2>1, <2>2
<1>5. Lossy(bytes) = from[1]
    BY DEF Lossy
<1> HIDE DEF N, point, goes, S
<1>6. Ahead(next, N)
    <2>1. \A i \in 1 .. N : goes(i) \in 1 .. N + 1 /\ i < goes(i)
        BY <1>1, <1>3
    <2> QED BY <2>1 DEF Ahead
<1>7. \A i \in 1 .. N : \A rest \in S : <<point(i)>> \o rest \in S
    <2> TAKE i \in 1 .. N
    <2> TAKE rest \in S
    <2>1. <<point(i)>> \in Seq(Int) /\ rest \in Seq(Int)
        BY <1>4 DEF S
    <2> QED BY <2>1, ConcatProperties DEF S
<1> HIDE DEF next
<1>8. step \in [1 .. N -> [S -> S]]
    BY <1>7
<1>9. \A i \in 1 .. N : \A rest \in S : step[i][rest] = <<point(i)>> \o rest
    OBVIOUS
<1> HIDE DEF step
<1>10. PICK g \in [1 .. N + 1 -> S] : Recurs(g, <<>>, next, step, N)
    BY <1>1, <1>2, <1>6, <1>8, RecursionFromEnd
<1>11. \A i \in 1 .. N : g[i] = <<point(i)>> \o g[goes(i)]
    <2> TAKE i \in 1 .. N
    <2>1. next[i] = goes(i) /\ next[i] \in 1 .. N + 1
        BY <1>6 DEF next, Ahead
    <2> QED BY <1>9, <1>10, <2>1 DEF Recurs
<1>12. Is(g)
    <2> DEFINE h == [i \in 1 .. N + 1 |-> IF i > N THEN <<>>
                                          ELSE <<point(i)>> \o g[goes(i)]]
    <2>1. ASSUME NEW i \in 1 .. N + 1 PROVE g[i] = h[i]
        <3>1. CASE i > N
            <4>1. i = N + 1
                BY <1>1, <3>1
            <4> QED BY <1>10, <3>1, <4>1 DEF Recurs
        <3>2. CASE ~(i > N)
            <4>1. i \in 1 .. N
                BY <1>1, <3>2
            <4> QED BY <1>11, <3>2, <4>1
        <3> QED BY <3>1, <3>2
    <2>2. g = [i \in 1 .. N + 1 |-> g[i]]
        BY <1>10
    <2> QED BY <2>1, <2>2
<1>13. Is(from)
    <2> HIDE DEF Is
    <2> QED BY <1>12
<1> HIDE DEF from
<1>14. from[N + 1] = <<>>
    <2>1. N + 1 \in 1 .. N + 1 /\ N + 1 > N
        BY <1>1
    <2> QED BY <1>13, <2>1
<1>15. \A i \in 1 .. N : from[i] = <<point(i)>> \o from[goes(i)]
    <2> TAKE i \in 1 .. N
    <2>1. i \in 1 .. N + 1 /\ ~(i > N)
        BY <1>1
    <2> QED BY <1>13, <2>1
<1>16. from \in [1 .. N + 1 -> S]
    <2> DEFINE T == {n \in Nat : \A i \in 1 .. N + 1 :
                                    i >= N + 1 - n => from[i] \in S}
    <2>1. 0 \in T
        <3>1. \A i \in 1 .. N + 1 : i >= N + 1 - 0 => i = N + 1
            BY <1>1
        <3> QED BY <1>2, <1>14, <3>1
    <2>2. ASSUME NEW n \in Nat, n \in T
          PROVE  n + 1 \in T
        <3> SUFFICES ASSUME NEW i \in 1 .. N + 1, i >= N + 1 - (n + 1)
                     PROVE  from[i] \in S
            OBVIOUS
        <3>1. CASE i = N + 1
            BY <1>2, <1>14, <3>1
        <3>2. CASE i # N + 1
            <4>1. i \in 1 .. N
                BY <1>1, <3>2
            <4>2. goes(i) \in i + 1 .. N + 1
                BY <1>3, <4>1
            <4>3. goes(i) \in 1 .. N + 1 /\ goes(i) >= N + 1 - n
                BY <1>1, <4>2
            <4>4. from[goes(i)] \in S
                BY <2>2, <4>3
            <4> QED BY <1>7, <1>15, <4>1, <4>4
        <3> QED BY <3>1, <3>2
    <2>3. N + 1 \in T
        <3> HIDE DEF T
        <3>1. \A n \in Nat : n \in T
            BY <2>1, <2>2, Induction
        <3> QED BY <1>1, <3>1
    <2>4. \A i \in 1 .. N + 1 : from[i] \in S
        BY <1>1, <2>3
    <2>5. from = [i \in 1 .. N + 1 |-> from[i]]
        BY <1>13
    <2> QED BY <2>4, <2>5
<1>17. LossyFrom(bytes, from)
    BY <1>14, <1>15, <1>16 DEF LossyFrom, N, S, point, goes
<1> QED
    BY <1>5, <1>17

(* A replacement is in what a text begins with or in what comes behind.    *)
LEMMA ReplacementStays ==
    ASSUME NEW n \in Int, NEW s \in Seq(Int),
           n = Replacement \/ \E k \in 1 .. Len(s) : s[k] = Replacement
    PROVE  \E k \in 1 .. Len(<<n>> \o s) : (<<n>> \o s)[k] = Replacement
<1>1. <<n>> \in Seq(Int) /\ Len(<<n>>) = 1
    OBVIOUS
<1> DEFINE t == <<n>> \o s
<1>2. /\ t \in Seq(Int) /\ Len(t) = 1 + Len(s) /\ Len(s) \in Nat
      /\ t[1] = n
      /\ \A k \in 1 .. Len(s) : t[k + 1] = s[k]
    OBVIOUS
<1> HIDE DEF t
<1>3. CASE n = Replacement
    <2>1. 1 \in 1 .. Len(t)
        BY <1>2
    <2> QED BY <1>2, <1>3, <2>1 DEF t
<1>4. CASE \E k \in 1 .. Len(s) : s[k] = Replacement
    <2>1. PICK k \in 1 .. Len(s) : s[k] = Replacement
        BY <1>4
    <2>2. k + 1 \in 1 .. Len(t) /\ t[k + 1] = Replacement
        BY <1>2, <2>1
    <2> QED BY <2>2 DEF t
<1> QED
    BY <1>3, <1>4

(* The two decoders of fast_codec.cpp (decode_utf8_strict and              *)
(* decode_utf8_lossy) agree on every text of bytes: what the strict one    *)
(* accepts the lossy one reads alike, and in what it refuses there is a    *)
(* replacement.                                                            *)
THEOREM EveryTextDecodesAlike ==
    (\A bytes \in Seq(Byte) : DecodersAgreeOn(bytes)) /\ DecodersAgree
<1>1. ASSUME NEW bytes \in Seq(Byte)
      PROVE  DecodersAgreeOn(bytes)
    <2> DEFINE N == Len(bytes)
    <2>1. N \in Nat
        BY LenProperties
    <2>2. PICK f : StrictFrom(bytes, f) /\ Strict(bytes) = f[1]
        BY StrictIs
    <2>3. PICK g : LossyFrom(bytes, g) /\ Lossy(bytes) = g[1]
        BY LossyFromIs
    <2> DEFINE Agree(i) ==
                   IF f[i].ok THEN g[i] = f[i].points
                   ELSE \E k \in 1 .. Len(g[i]) : g[i][k] = Replacement
               T == {n \in Nat : n <= N => Agree(N + 1 - n)}
    <2>4. 0 \in T
        <3>1. N + 1 - 0 = N + 1
            BY <2>1
        <3>2. f[N + 1] = [ok |-> TRUE, points |-> <<>>] /\ g[N + 1] = <<>>
            BY <2>2, <2>3 DEF StrictFrom, LossyFrom
        <3> HIDE DEF N
        <3> QED BY <3>1, <3>2
    <2>5. ASSUME NEW i \in 1 .. N, \A j \in i + 1 .. N + 1 : Agree(j)
          PROVE  Agree(i)
        <3> DEFINE n == LossyAt(bytes, i).next
                   p == LossyAt(bytes, i).point
                   v == Value(bytes, i, Length(bytes[i]))
        <3>1. n \in i + 1 .. N + 1 /\ n \in 1 .. N + 1
            BY <2>1, LossyIs
        <3>2. g[i] = <<p>> \o g[n] /\ g[n] \in Seq(Int)
            BY <2>3, <3>1 DEF LossyFrom
        <3>3. CASE ~StrictAt(bytes, i)
            <4>1. p = Replacement
                BY <3>3, LossyIs
            <4>2. f[i] = Invalid /\ ~Invalid.ok
                BY <2>2, <3>3 DEF StrictFrom, Invalid
            <4>3. p \in Int
                BY <4>1 DEF Replacement
            <4> HIDE DEF p, n, N
            <4>4. \E k \in 1 .. Len(<<p>> \o g[n]) :
                      (<<p>> \o g[n])[k] = Replacement
                BY <3>2, <4>1, <4>3, ReplacementStays
            <4> QED BY <3>2, <4>2, <4>4
        <3>4. CASE StrictAt(bytes, i)
            <4>1. LossyAt(bytes, i) = [point |-> v,
                                       next |-> i + Length(bytes[i])]
                BY <3>4, LossyIs
            <4>2. p = v /\ n = i + Length(bytes[i])
                BY <4>1
            <4>3. v \in Int
                BY <3>4, ValueIsInt
            <4>4. f[i] = IF ~f[n].ok THEN Invalid
                         ELSE [ok |-> TRUE, points |-> <<v>> \o f[n].points]
                BY <2>2, <3>4, <4>2 DEF StrictFrom
            <4>5. Agree(n)
                BY <2>5, <3>1
            <4> HIDE DEF p, n, v, N
            <4>6. CASE f[n].ok
                <5>1. g[n] = f[n].points
                    BY <4>5, <4>6
                <5>2. f[i].ok /\ f[i].points = <<v>> \o f[n].points
                    BY <4>4, <4>6
                <5> QED BY <3>2, <4>2, <5>1, <5>2
            <4>7. CASE ~f[n].ok
                <5>1. \E k \in 1 .. Len(g[n]) : g[n][k] = Replacement
                    BY <4>5, <4>7
                <5>2. \E k \in 1 .. Len(<<p>> \o g[n]) :
                          (<<p>> \o g[n])[k] = Replacement
                    BY <3>2, <4>2, <4>3, <5>1, ReplacementStays
                <5>3. ~f[i].ok
                    BY <4>4, <4>7 DEF Invalid
                <5> QED BY <3>2, <5>2, <5>3
            <4> QED BY <4>6, <4>7
        <3> QED BY <3>3, <3>4
    <2> HIDE DEF Agree
    <2>6. \A n \in Nat : n <= N => \A j \in N + 1 - n .. N + 1 : Agree(j)
        <3> DEFINE U == {n \in Nat : n <= N =>
                            \A j \in N + 1 - n .. N + 1 : Agree(j)}
        <3>1. 0 \in U
            <4>1. Agree(N + 1 - 0)
                BY <2>1, <2>4
            <4>2. \A j \in N + 1 - 0 .. N + 1 : j = N + 1 - 0
                BY <2>1
            <4> QED BY <4>1, <4>2
        <3>2. ASSUME NEW n \in Nat, n \in U
              PROVE  n + 1 \in U
            <4> SUFFICES ASSUME n + 1 <= N,
                                NEW j \in N + 1 - (n + 1) .. N + 1
                         PROVE  Agree(j)
                OBVIOUS
            <4>1. \A k \in N + 1 - n .. N + 1 : Agree(k)
                BY <2>1, <3>2
            <4>2. CASE j \in N + 1 - n .. N + 1
                BY <4>1, <4>2
            <4>3. CASE j \notin N + 1 - n .. N + 1
                <5>1. j \in 1 .. N /\ j + 1 = N + 1 - n
                    BY <2>1, <4>3
                <5>2. \A k \in j + 1 .. N + 1 : Agree(k)
                    BY <4>1, <5>1
                <5> HIDE DEF N
                <5> QED BY <2>5, <5>1, <5>2
            <4> QED BY <4>2, <4>3
        <3> HIDE DEF U
        <3>3. \A n \in Nat : n \in U
            BY <3>1, <3>2, Induction
        <3> QED BY <3>3 DEF U
    <2>7. Agree(1)
        <3>1. N <= N /\ 1 \in N + 1 - N .. N + 1
            BY <2>1
        <3> QED BY <2>1, <2>6, <3>1
    <2> QED BY <2>2, <2>3, <2>7 DEF Agree, DecodersAgreeOn
<1>2. DecodersAgree
    <2>1. \A b \in Boundary : b \in Byte
        BY DEF Boundary, Byte
    <2>2. \A n \in 0 .. 4 : \A bytes \in [1 .. n -> Boundary] :
              bytes \in Seq(Byte)
        <3> TAKE n \in 0 .. 4
        <3> TAKE bytes \in [1 .. n -> Boundary]
        <3>1. bytes \in [1 .. n -> Byte] /\ n \in Nat
            BY <2>1
        <3> QED BY <3>1, FunctionIsSequence
    <2> QED BY <1>1, <2>2 DEF DecodersAgree
<1> QED
    BY <1>1, <1>2
=============================================================================
