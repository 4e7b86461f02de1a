--------------------------- MODULE MCModelFactory ---------------------------
(* Constants of ModelFactory that a configuration cannot write, and the    *)
(* properties of its pure parts over bounded inputs.                       *)
EXTENDS ModelFactory, ActionNormalization

HostAndGPU == <<"cpu", "gpu0">>
TwoGPUs == <<"gpu0", "gpu1">>

(* Floats of three bits and an exponent of three values: 4 is 1, and from  *)
(* 8 on there is a rounding to every operation.                            *)
MCFloat == {sign * bits * scale :
                sign \in {-1, 1}, bits \in 0 .. 7, scale \in {1, 2, 4}}

(* Rows of scores of the tokens 0 .. 4: one for each of the action tokens, *)
(* one that ends the sequence, one below zero, and one with a tie.         *)
Row(scores) == [t \in 0 .. 4 |-> scores[t + 1]]
MCLogitRows == {Row(scores) : scores \in
    {<<0, 0, 2, 8, 7>>, <<0, 0, 8, 2, 4>>, <<-16, -16, -14, -6, -7>>}}

(* One image each: two of the accepted sizes, one that is enlarged, one    *)
(* that gives too many tokens and one that is too long. Tasks: words, an   *)
(* action token, a marker, as many as a generation can hold and one more.  *)
(* States and noises of every kind.                                        *)
Shown == [width |-> 2, height |-> 2, task |-> <<Word>>, state |-> "none",
          noise |-> "none", wellformed |-> TRUE]
MCObservations ==
    {Shown,
     [Shown EXCEPT !.width = 4, !.noise = "fits"],
     [Shown EXCEPT !.height = 1, !.state = "fits"],
     [Shown EXCEPT !.task = <<ActionToken>>],
     [Shown EXCEPT !.task = <<ActionToken, Word>>, !.width = 4,
                   !.state = "fits"],
     [Shown EXCEPT !.task = <<ActionToken, Word>>, !.width = 4],
     [Shown EXCEPT !.task = <<Word, Word, Word>>, !.width = 4],
     [Shown EXCEPT !.noise = "misfits"],
     [Shown EXCEPT !.task = <<Marker>>],
     [Shown EXCEPT !.width = 100],
     [Shown EXCEPT !.width = 500],
     [Shown EXCEPT !.state = "other", !.wellformed = FALSE]}

MCTemplate == <<Placeholder, Word>>
MCPreResize == [width |-> 4, height |-> 2]
MCFastTokens == <<3, 4>>
MCFastOffsets == <<0, 1, 2>>
MCFastBytes == <<195, 169>>

---------------------------------------------------------------------------
(* One first state: the properties below are about operators that no state *)
(* changes, and are evaluated there only.                                  *)
Once == phase = "loading" /\ at = 1 /\ engine = "qwen25_fast"

(* Bytes at the edges of the ranges of UTF-8.                              *)
Boundary == {65, 128, 143, 144, 159, 160, 191, 194, 224, 237, 240, 244}

(* See FastCodec: all texts of up to four such bytes.                      *)
DecodersAgree ==
    Once => \A n \in 0 .. 4 : \A bytes \in [1 .. n -> Boundary] :
                DecodersAgreeOn(bytes)

(* See QwenImage: sides of up to 24 pixels and several budgets.            *)
ResizeWithinBudget ==
    Once => \A width, height \in 1 .. 24, side \in {2, 3, 4} :
                \A min \in {1, 4, 16, 36}, max \in {4, 16, 36, 64, 100} :
                    ResizeWithinBudgetOn(width, height, side, min, max)

(* See QwenImage: all shrinkings and enlargements of up to 24 pixels.      *)
WindowsInside ==
    Once => \A input, output \in 1 .. 24 : WindowsInsideOn(input, output)

(* Configurations of two columns, valid and not, with two profiles: from   *)
(* -1 to 10 the upper quantile is exceeded, and the distance from -28 to   *)
(* 10 is infinite.                                                         *)
MCProfile(key, low, high, mask) ==
    [key |-> key, q01 |-> <<low, -1>>, q99 |-> <<high, 2>>,
     mask |-> <<mask, 0>>]
MCConfigs ==
    {[comparison |-> comparison, clip |-> clip, default |-> "a",
      continuous |-> <<1>>, binary |-> binary,
      profiles |-> <<MCProfile("a", low, 10, mask),
                     MCProfile("b", -3, 1, 1)>>] :
        comparison \in {"gt", "ge"}, clip \in BOOLEAN,
        binary \in {<<2>>, <<1>>}, low \in {-28, -1, 10, 12}, mask \in {0, 1}}

(* See ActionNormalization: two rows of numbers within and without the     *)
(* range that is scaled.                                                   *)
MCRows == {<<a, b, b, a>> : a, b \in {-6, -1, 2, 3, 6, NotFinite}}
ActionsInQuantiles ==
    Once => \A config \in MCConfigs, key \in {"", "a", "b", "c"} :
                \A rows \in MCRows :
                    ActionsInQuantilesOn(config, key, rows, 2, 2)

(* See StarVLAPrompt: values on, between and beyond the edges.             *)
BinsMatchNumpy ==
    Once => \A value \in -8 .. 8, min \in -4 .. 3, max \in -3 .. 4 :
                \A bins \in 1 .. 5, clip \in BOOLEAN :
                    min < max => BinsMatchNumpyOn(value, min, max, bins, clip)

(* See QwenBridge: scores of both signs, finite and not, and penalties     *)
(* below and above 1.                                                      *)
PenaltyNeverRewards ==
    Once => \A row \in [0 .. 2 -> {-Infinity, -8, -7, 7, 8}] :
                \A repeated \in SUBSET (0 .. 2), penalty \in {3, 5} :
                    PenaltyNeverRewardsOn(row, repeated, penalty)
=============================================================================
