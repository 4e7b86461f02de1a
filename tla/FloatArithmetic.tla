-------------------------- MODULE FloatArithmetic --------------------------
(***************************************************************************)
(* The floats the StarVLA policies compute with.  The smallest distance of *)
(* two of them is a step, a float is a number of steps, and the result of  *)
(* an operation is rounded: it is the float that is nearest to the exact   *)
(* result, a quotient of two whole numbers.  The finite floats are a       *)
(* constant, of which only what holds of those of 32 bits is assumed:      *)
(* there a step is 2^-149, Unit is 2^149, and Precision 2^24.              *)
(***************************************************************************)
EXTENDS Integers

CONSTANTS
    Float,      \* the finite floats
    Unit,       \* steps that make 1
    Infinity,   \* stands for infinite: what is rounded of so many steps
    Precision   \* rounding changes a result by at most one part in so many

Distance(x, y) == IF x < y THEN y - x ELSE x - y

Magnitude(x) == Distance(x, 0)

Adjacent(f, g) == f < g /\ ~\E h \in Float : f < h /\ h < g

(* A float is even when its last bit is 0: the two next to each other are  *)
(* told apart by whether twice their distance divides them.                *)
ASSUME FloatAssumption ==
    /\ Unit \in Nat \ {0} /\ Unit % 2 = 0
    /\ Infinity \in Nat
    /\ Precision \in Nat \ {0, 1}
    /\ Float \subseteq 1 - Infinity .. Infinity - 1
    /\ {0, Unit, 2 * Unit} \subseteq Float
    /\ \A f \in Float : -f \in Float
    /\ \A f, g \in Float :
          Adjacent(f, g) => \E e \in {f, g} : e % (2 * (g - f)) = 0
    /\ \A x \in 1 - Infinity .. Infinity - 1 :
          \E f \in Float : Precision * Distance(f, x) <= Magnitude(x)

IsNearest(f, num, den) ==
    \A g \in Float : Distance(den * f, num) <= Distance(den * g, num)

(* The exact result num / den, where den is positive, as a float: the      *)
(* nearest one, of two equally near ones the even one.                     *)
Round(num, den) ==
    IF num >= den * Infinity THEN Infinity
    ELSE IF num <= -(den * Infinity) THEN -Infinity
    ELSE CHOOSE f \in Float :
            /\ IsNearest(f, num, den)
            /\ \A g \in Float \ {f} :
                  IsNearest(g, num, den) => f % (2 * Distance(f, g)) = 0
=============================================================================
