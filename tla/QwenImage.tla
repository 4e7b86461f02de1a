----------------------------- MODULE QwenImage -----------------------------
(***************************************************************************)
(* How an image is brought to a size that the vision transformer takes     *)
(* (src/models/starvla/oft_image_preprocess.cpp).  The sides become        *)
(* multiples of a factor, the patch size times the spatial merge, and the  *)
(* number of pixels is brought between two bounds; one factor squared is   *)
(* one token of the prompt.  Pixels are resampled with a cubic filter,     *)
(* whose table names the source pixels of each target pixel.  Sizes are    *)
(* modelled exactly: the square roots of the code only appear rounded down *)
(* or up, so that comparing squares gives the same integers, but for a     *)
(* root that is an integer and that floating point just misses.  Weights   *)
(* and colours are left out.                                               *)
(***************************************************************************)
EXTENDS Integers

SmallerOf(a, b) == IF a < b THEN a ELSE b
LargerOf(a, b) == IF a > b THEN a ELSE b

---------------------------------------------------------------------------
(* Sizes                                                                   *)

(* round_div_ties_to_even                                                  *)
RoundDiv(value, divisor) ==
    LET quotient == value \div divisor
        doubled == 2 * (value % divisor)
    IN  IF doubled < divisor \/ (doubled = divisor /\ quotient % 2 = 0)
        THEN quotient
        ELSE quotient + 1

(* Mutant: the side of an image that is too large is rounded up.           *)
ShrunkSideUp(side, factor, pixels, max) ==
    CHOOSE k \in 1 .. side * max :
        /\ k * factor * k * factor * pixels >= side * side * max
        /\ (k - 1) * factor * (k - 1) * factor * pixels < side * side * max

(* floor(side / beta / factor), beta the root of pixels / max: the largest *)
(* k with (k * factor)^2 * pixels <= side^2 * max.                         *)
ShrunkSide(side, factor, pixels, max) ==
    CHOOSE k \in 0 .. side * max :
        /\ k * factor * k * factor * pixels <= side * side * max
        /\ (k + 1) * factor * (k + 1) * factor * pixels > side * side * max

(* ceil(side * beta / factor), beta the root of min / pixels: the smallest *)
(* k with (k * factor)^2 * pixels >= side^2 * min.                         *)
EnlargedSide(side, factor, pixels, min) ==
    CHOOSE k \in 1 .. side * min :
        /\ k * factor * k * factor * pixels >= side * side * min
        /\ (k - 1) * factor * (k - 1) * factor * pixels < side * side * min

(* Pixels after rounding each side to the nearest multiple of the factor.  *)
Rounded(width, height, factor) ==
    RoundDiv(width, factor) * RoundDiv(height, factor) * factor * factor

Refused == [ok |-> FALSE, width |-> 0, height |-> 0]

Resized(width, height) == [ok |-> TRUE, width |-> width, height |-> height]

(* qwen3vl_smart_resize_dimensions.  A side of a shrunk image never        *)
(* becomes 0, which is why the largest number of pixels is no bound for a  *)
(* very long image.                                                        *)
SmartResize(width, height, factor, min, max) ==
    LET pixels == width * height
        rounded == Rounded(width, height, factor)
        shrunk(side) ==
            factor * LargerOf(1, ShrunkSide(side, factor, pixels, max))
        enlarged(side) == factor * EnlargedSide(side, factor, pixels, min)
    IN  IF \/ width <= 0 \/ height <= 0 \/ factor <= 0
           \/ min <= 0 \/ max < min
        THEN Refused
        ELSE IF LargerOf(width, height) > 200 * SmallerOf(width, height)
        THEN Refused
        ELSE IF rounded > max THEN Resized(shrunk(width), shrunk(height))
        ELSE IF rounded < min THEN Resized(enlarged(width), enlarged(height))
        ELSE Resized(factor * RoundDiv(width, factor),
                     factor * RoundDiv(height, factor))

(* preprocess_qwen3vl_rgb: a token is one factor squared.                  *)
ImageTokens(size, factor) ==
    (size.width \div factor) * (size.height \div factor)

---------------------------------------------------------------------------
(* Resampling                                                              *)

(* (int) of a / b in C: towards zero.                                      *)
Truncate(a, b) == IF a >= 0 THEN a \div b ELSE -((-a) \div b)

(* Mutant: the window of a target pixel is not cut at the image's end.     *)
WindowPastEnd(input, output, o) ==
    LET scale == LargerOf(input, output)
        centre == (2 * o + 1) * input
    IN  [first |-> LargerOf(Truncate(centre - 4 * scale + output,
                                     2 * output), 0),
         end |-> Truncate(centre + 4 * scale + output, 2 * output)]

(* make_filter_table: the source pixels [first, end) of target pixel o,    *)
(* two filter widths to each side of its centre.  All is times 2 * output: *)
(* the centre is (o + 0.5) * input / output, and the filter is as wide as  *)
(* the larger of one source and one target pixel.                          *)
Window(input, output, o) ==
    LET scale == LargerOf(input, output)
        centre == (2 * o + 1) * input
    IN  [first |-> LargerOf(Truncate(centre - 4 * scale + output,
                                     2 * output), 0),
         end |-> SmallerOf(Truncate(centre + 4 * scale + output,
                                    2 * output), input)]

(* Weights kept for a target pixel: ceil(support) * 2 + 1, the support     *)
(* being twice the width.                                                  *)
KernelSize(input, output) ==
    LET scale == LargerOf(input, output)
    IN  2 * ((2 * scale + output - 1) \div output) + 1

(* resize_horizontal and resize_vertical read source pixels                *)
(* first .. first + count - 1 and weights 0 .. count - 1.                  *)
Count(input, output, o) ==
    LET window == Window(input, output, o) IN
    LargerOf(0, SmallerOf(window.end - window.first,
                          KernelSize(input, output)))

---------------------------------------------------------------------------
(* Properties                                                              *)

(* An image that is accepted has sides that are positive multiples of the  *)
(* factor.  One that was too large has the most pixels at most, unless a   *)
(* side of it is a single factor; one that was too small has the fewest at *)
(* least; another one has a number between the two                         *)
(* (qwen3vl_smart_resize_dimensions).                                      *)
ResizeWithinBudgetOn(width, height, factor, min, max) ==
    LET size == SmartResize(width, height, factor, min, max)
        pixels == size.width * size.height
        rounded == Rounded(width, height, factor)
    IN  size.ok =>
            /\ size.width > 0 /\ size.width % factor = 0
            /\ size.height > 0 /\ size.height % factor = 0
            /\ pixels < min => rounded > max
            /\ pixels > max => \/ rounded < min
                               \/ factor \in {size.width, size.height}

(* Every target pixel is computed from at least one source pixel, from no  *)
(* pixel outside of the image, and its weights are all in the table, both  *)
(* for shrinking and for enlarging (make_filter_table).                    *)
WindowsInsideOn(input, output) ==
    \A o \in 0 .. output - 1 :
        LET window == Window(input, output, o) IN
        /\ window.first >= 0
        /\ window.end - window.first \in 1 .. KernelSize(input, output)
        /\ window.first + Count(input, output, o) <= input
=============================================================================
