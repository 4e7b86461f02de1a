--------------------------- MODULE StarVLAPrompt ---------------------------
(***************************************************************************)
(* The prompt of a StarVLA policy (src/models/starvla/oft_prompt.cpp and   *)
(* groot_prompt.cpp, and the chat template of qwen3vl_bridge.cpp).  A task *)
(* is put into a template, an OFT policy adds the state and a suffix whose *)
(* action tokens are its queries, and the placeholders of the images come  *)
(* first.  A prompt is a sequence of token numbers; a word of any text is  *)
(* Word, and what a task may hold that matters is a token of its own: it   *)
(* is text of the user, and an action token in it is tokenized as one.     *)
(***************************************************************************)
EXTENDS Integers, Sequences, FiniteSets

CONSTANT Word       \* token number of any word

NoPrompt == [ok |-> FALSE, tokens |-> <<>>]

Marker == -2        \* text of a task: the marker of an image
Nul == -3           \* text of a task: a NUL byte
Placeholder == -4   \* text of a template: {instruction}

(* Tokens of a piece of text.                                              *)
Tokens(text) == [ok |-> TRUE, tokens |-> text]

Holds(text, part) == \E i \in 1 .. Len(text) : text[i] = part

(* replace_all: what was put in is not searched again.                     *)
ReplaceAll(text, part, by) ==
    LET upTo[i \in 0 .. Len(text)] ==
            IF i = 0 THEN <<>>
            ELSE upTo[i - 1] \o (IF text[i] = part THEN by ELSE <<text[i]>>)
    IN  upTo[Len(text)]

(* build_instruction, of GR00T, PI, PI_v3 and FAST.                        *)
BuildInstruction(template, task) ==
    IF \/ task = <<>>
       \/ Holds(task, Nul) \/ Holds(template, Nul)
       \/ Holds(task, Marker) \/ Holds(template, Marker)
       \/ ~Holds(template, Placeholder)
    THEN NoPrompt
    ELSE Tokens(ReplaceAll(template, Placeholder, task))

---------------------------------------------------------------------------
(* OFT                                                                     *)

(* Mutant: a value on the lower edge of a bin is in the bin below.         *)
ReachesAbove(value, min, max, bins, edge) ==
    value * bins > min * bins + (max - min) * edge

(* The value has reached the edge, min + (max - min) / bins * edge.        *)
Reaches(value, min, max, bins, edge) ==
    value * bins >= min * bins + (max - min) * edge

(* discretize_state, for one value: up the edges to the first one that it  *)
(* does not reach; -1 if that is the first of all.                         *)
Bin(value, min, max, bins, clip) ==
    LET clamped == IF ~clip THEN value
                   ELSE IF value < min THEN min
                   ELSE IF value > max THEN max
                   ELSE value
        missed == {edge \in 0 .. bins - 1 :
                      ~Reaches(clamped, min, max, bins, edge)}
    IN  IF missed = {} THEN bins - 1
        ELSE (CHOOSE e \in missed : \A f \in missed : e <= f) - 1

(* validate_oft_prompt_config checks this form of the suffix.              *)
ActionSuffix(action_token, count) ==
    <<Word>> \o [i \in 1 .. count |-> action_token] \o <<Word>>

(* build_oft_instruction.  State is its bins in words, or nothing.         *)
BuildOFTInstruction(template, cot, task, state, action_token, count) ==
    LET stated == IF state = <<>> THEN task
                  ELSE task \o <<Word>> \o state \o <<Word>>
        instruction == stated \o ActionSuffix(action_token, count)
    IN  IF Holds(task, Marker) \/ (cot /\ ~Holds(template, Placeholder))
        THEN NoPrompt
        ELSE Tokens(IF cot
                    THEN ReplaceAll(template, Placeholder, instruction)
                    ELSE instruction)

---------------------------------------------------------------------------
(* build_qwen_media_content and apply_chat_template: the images, then the  *)
(* instruction, inside of the words of a chat.                             *)
ChatPrompt(images, instruction) ==
    <<Word>> \o images \o instruction \o <<Word>>

---------------------------------------------------------------------------
(* Properties                                                              *)

(* A state is put into the same bin as by the numpy expression that the    *)
(* comment in discretize_state quotes, digitize(value, linspace(min, max,  *)
(* bins + 1)[:-1]) - 1, which counts the edges that are not above the      *)
(* value; and a clipped value is always in a bin.                          *)
BinsMatchNumpyOn(value, min, max, bins, clip) ==
    LET bin == Bin(value, min, max, bins, clip)
        linspace == [i \in 0 .. bins |-> min * bins + (max - min) * i]
        edges == {i \in 0 .. bins - 1 : linspace[i] <= value * bins}
    IN  IF clip
        THEN /\ bin \in 0 .. bins - 1
             /\ value \in min .. max => bin = Cardinality(edges) - 1
        ELSE bin = Cardinality(edges) - 1
=============================================================================
