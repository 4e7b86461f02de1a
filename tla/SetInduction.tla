---------------------------- MODULE SetInduction ----------------------------
(***************************************************************************)
(* Induction over the natural numbers as a fact about sets, and what the   *)
(* proofs about StarVLA and about the protocol need of it: least and       *)
(* greatest elements, sequences as functions, and that what is defined     *)
(* step by step, such as the text in StarVLAPrompt that grows piece by     *)
(* piece or the bytes of a number in Protocol, or from the end on, such as *)
(* a text that is decoded, exists.                                         *)
(***************************************************************************)
EXTENDS Integers, Sequences, WellFoundedInduction, SequenceTheorems, TLAPS

(* A set of natural numbers that is not empty has a least element.         *)
LEMMA LeastElement ==
    ASSUME NEW T \in SUBSET Nat, T # {}
    PROVE  \E x \in T : \A y \in T : x <= y
<1> DEFINE R == OpToRel(<, Nat)
<1>1. IsWellFoundedOn(R, Nat)
    BY NatLessThanWellFounded
<1>2. PICK x \in T : \A y \in T : ~(<<y, x>> \in R)
    <2> HIDE DEF R
    <2> QED BY <1>1, WFMin
<1>3. R = {ss \in Nat \X Nat : ss[1] < ss[2]}
    BY DEF OpToRel
<1>4. \A y \in T : y < x => <<y, x>> \in R
    BY <1>3
<1> HIDE DEF R
<1>5. \A y \in T : ~(y < x)
    BY <1>2, <1>4, Zenon
<1> QED
    BY <1>5

(* A set of numbers of a range that is not empty has a greatest element.   *)
LEMMA GreatestElement ==
    ASSUME NEW N \in Nat, NEW T \in SUBSET (1 .. N), T # {}
    PROVE  \E x \in T : \A y \in T : y <= x
<1> DEFINE U == {n \in Nat : N - n \in T}
<1>1. U \in SUBSET Nat /\ U # {}
    <2>1. PICK t \in T : TRUE
        OBVIOUS
    <2>2. N - t \in Nat /\ N - (N - t) = t
        OBVIOUS
    <2>3. N - t \in U
        BY <2>2
    <2> QED BY <2>3
<1>2. PICK u \in U : \A v \in U : u <= v
    <2> HIDE DEF U
    <2> QED BY <1>1, LeastElement
<1>3. ASSUME NEW y \in T
      PROVE  y <= N - u
    <2>1. N - y \in U
        <3>1. N - y \in Nat /\ N - (N - y) = y
            OBVIOUS
        <3> QED BY <3>1
    <2>2. u <= N - y
        BY <2>1, <1>2
    <2> QED BY <2>2
<1> QED
    BY <1>3

(* A set with 0 in it, and the successor of each number in it, has them    *)
(* all.                                                                    *)
LEMMA Induction ==
    ASSUME NEW S, 0 \in S, \A n \in Nat : n \in S => n + 1 \in S
    PROVE  \A n \in Nat : n \in S
<1> SUFFICES ASSUME NEW m \in Nat, m \notin S PROVE FALSE
    OBVIOUS
<1> DEFINE T == {n \in Nat : n \notin S}
<1>1. PICK x \in T : \A y \in T : x <= y
    <2>1. T \in SUBSET Nat /\ T # {}
        OBVIOUS
    <2> HIDE DEF T
    <2> QED BY <2>1, LeastElement
<1>2. x - 1 \in Nat /\ x - 1 \notin T
    BY <1>1
<1> QED
    BY <1>1, <1>2

(* A function on the numbers up to n is a sequence of length n.            *)
LEMMA FunctionIsSequence ==
    ASSUME NEW S, NEW n \in Nat, NEW f \in [1 .. n -> S]
    PROVE  f \in Seq(S) /\ Len(f) = n
<1>1. f \in Seq(S)
    BY SeqDef
<1>2. Len(f) \in Nat /\ DOMAIN f = 1 .. Len(f)
    BY <1>1, LenProperties
<1>3. 1 .. n = 1 .. Len(f)
    BY <1>2
<1>4. n = Len(f)
    BY <1>2, <1>3
<1> QED
    BY <1>1, <1>4

(* What is computed step by step, each value from the one before it.       *)
Iterates(f, first, step, N) ==
    /\ f[0] = first
    /\ \A i \in 1 .. N : f[i] = step[i][f[i - 1]]

(* It exists.                                                              *)
LEMMA Iteration ==
    ASSUME NEW S, NEW first \in S, NEW N \in Nat,
           NEW step \in [1 .. N -> [S -> S]]
    PROVE  \E f \in [0 .. N -> S] : Iterates(f, first, step, N)
<1> DEFINE Runs(f, n) ==
               /\ f \in [0 .. n -> S]
               /\ f[0] = first
               /\ \A i \in 1 .. n : f[i] = step[i][f[i - 1]]
           T == {n \in Nat : n <= N => \E f : Runs(f, n)}
<1>1. 0 \in T
    <2>1. Runs([i \in 0 .. 0 |-> first], 0)
        OBVIOUS
    <2> HIDE DEF Runs
    <2> QED BY <2>1
<1>2. ASSUME NEW n \in Nat, n \in T
      PROVE  n + 1 \in T
    <2> SUFFICES ASSUME n + 1 <= N PROVE \E f : Runs(f, n + 1)
        <3> HIDE DEF Runs
        <3> QED OBVIOUS
    <2>1. PICK f : Runs(f, n)
        <3> HIDE DEF Runs
        <3> QED BY <1>2
    <2> DEFINE m == n + 1
               next == step[m][f[n]]
               g == [i \in 0 .. m |-> IF i = m THEN next ELSE f[i]]
    <2>2. m \in 1 .. N /\ m - 1 = n /\ n \in 0 .. n
        OBVIOUS
    <2> HIDE DEF m
    <2>3. next \in S
        <3>1. f[n] \in S /\ step[m] \in [S -> S]
            BY <2>1, <2>2
        <3> QED BY <3>1
    <2>4. g \in [0 .. m -> S] /\ g[0] = first
        <3> HIDE DEF next
        <3> QED BY <2>1, <2>2, <2>3
    <2>5. ASSUME NEW i \in 1 .. m
          PROVE  g[i] = step[i][g[i - 1]]
        <3>1. CASE i = m
            <4>1. g[i] = next /\ g[i - 1] = f[n]
                BY <2>2, <3>1
            <4> QED BY <3>1, <4>1
        <3>2. CASE i # m
            <4>1. i \in 1 .. n /\ g[i] = f[i] /\ g[i - 1] = f[i - 1]
                BY <2>2, <3>2
            <4> QED BY <2>1, <4>1
        <3> QED BY <3>1, <3>2
    <2> HIDE DEF g
    <2>6. Runs(g, m)
        BY <2>4, <2>5
    <2> HIDE DEF Runs
    <2> QED BY <2>6 DEF m
<1>3. N \in T
    <2> HIDE DEF T
    <2> QED BY <1>1, <1>2, Induction
<1>4. PICK f : Runs(f, N)
    <2> HIDE DEF Runs
    <2> QED BY <1>3
<1> QED
    BY <1>4 DEF Iterates

(* The texts that result from putting the first pieces one behind the      *)
(* other.                                                                  *)
Joins(g, piece, n) ==
    /\ g[0] = <<>>
    /\ \A i \in 1 .. n : g[i] = g[i - 1] \o piece[i]

(* They exist.                                                             *)
LEMMA Concatenations ==
    ASSUME NEW S, NEW N \in Nat, NEW piece \in [1 .. N -> Seq(S)]
    PROVE  \E g \in [0 .. N -> Seq(S)] : Joins(g, piece, N)
<1> DEFINE T == Seq(S)
           step == [i \in 1 .. N |-> [s \in T |-> s \o piece[i]]]
<1>1. <<>> \in T
    BY EmptySeq
<1>2. \A i \in 1 .. N : \A s \in T : s \o piece[i] \in T
    BY ConcatProperties
<1> HIDE DEF T
<1>3. step \in [1 .. N -> [T -> T]]
    BY <1>2
<1>4. \A i \in 1 .. N : \A s \in T : step[i][s] = s \o piece[i]
    OBVIOUS
<1> HIDE DEF step
<1>5. PICK g \in [0 .. N -> T] : Iterates(g, <<>>, step, N)
    BY <1>1, <1>3, Iteration
<1>6. \A i \in 1 .. N : g[i - 1] \in T
    OBVIOUS
<1>7. Joins(g, piece, N)
    BY <1>4, <1>5, <1>6 DEF Joins, Iterates
<1> QED
    BY <1>7 DEF T

(* A function that is defined by recursion from its end, each value by one *)
(* further on.                                                             *)
Ahead(next, N) ==
    next \in [1 .. N -> 1 .. N + 1] /\ \A i \in 1 .. N : i < next[i]

Recurs(f, last, next, step, N) ==
    /\ f[N + 1] = last
    /\ \A i \in 1 .. N : f[i] = step[i][f[next[i]]]

(* What holds of the end, and of a place when it does of the next one,     *)
(* holds of all of them.                                                   *)
LEMMA FromEnd ==
    ASSUME NEW N \in Nat, NEW next, Ahead(next, N), NEW T, N + 1 \in T,
           \A i \in 1 .. N : next[i] \in T => i \in T
    PROVE  \A i \in 1 .. N + 1 : i \in T
<1> DEFINE R == {n \in Nat : \A i \in 1 .. N + 1 :
                                i >= N + 1 - n => i \in T}
<1>1. 0 \in R
    <2>1. \A i \in 1 .. N + 1 : i >= N + 1 - 0 => i = N + 1
        OBVIOUS
    <2> QED BY <2>1
<1>2. ASSUME NEW n \in Nat, n \in R
      PROVE  n + 1 \in R
    <2> SUFFICES ASSUME NEW i \in 1 .. N + 1, i >= N + 1 - (n + 1)
                 PROVE  i \in T
        OBVIOUS
    <2>1. CASE i = N + 1
        BY <2>1
    <2>2. CASE i # N + 1
        <3>1. i \in 1 .. N
            BY <2>2
        <3>2. next[i] \in 1 .. N + 1 /\ i < next[i]
            BY <3>1 DEF Ahead
        <3>3. next[i] >= N + 1 - n
            BY <3>2
        <3>4. next[i] \in T
            BY <1>2, <3>2, <3>3
        <3> QED BY <3>1, <3>4
    <2> QED BY <2>1, <2>2
<1>3. N \in R
    <2> HIDE DEF R
    <2>1. \A n \in Nat : n \in R
        BY <1>1, <1>2, Induction
    <2> QED BY <2>1
<1> QED
    BY <1>3

(* It exists.                                                              *)
LEMMA RecursionFromEnd ==
    ASSUME NEW S, NEW last \in S, NEW N \in Nat,
           NEW next, Ahead(next, N),
           NEW step \in [1 .. N -> [S -> S]]
    PROVE  \E f \in [1 .. N + 1 -> S] : Recurs(f, last, next, step, N)
<1> USE DEF Ahead
<1> DEFINE Runs(f, k) ==
               /\ f \in [k .. N + 1 -> S]
               /\ f[N + 1] = last
               /\ \A i \in k .. N : f[i] = step[i][f[next[i]]]
           T == {n \in Nat : n <= N => \E f : Runs(f, N + 1 - n)}
<1>1. 0 \in T
    <2>1. Runs([i \in N + 1 .. N + 1 |-> last], N + 1)
        OBVIOUS
    <2>2. N + 1 - 0 = N + 1
        OBVIOUS
    <2> HIDE DEF Runs
    <2> QED BY <2>1, <2>2
<1>2. ASSUME NEW n \in Nat, n \in T
      PROVE  n + 1 \in T
    <2> SUFFICES ASSUME n + 1 <= N PROVE \E f : Runs(f, N + 1 - (n + 1))
        <3> HIDE DEF Runs
        <3> QED OBVIOUS
    <2>1. PICK f : Runs(f, N + 1 - n)
        <3> HIDE DEF Runs
        <3> QED BY <1>2
    <2> DEFINE m == N - n
               g == [i \in m .. N + 1 |->
                        IF i = m THEN step[m][f[next[m]]] ELSE f[i]]
    <2>2. /\ m \in 1 .. N /\ N + 1 - n = m + 1 /\ N + 1 - (n + 1) = m
        OBVIOUS
    <2> HIDE DEF m
    <2>3. next[m] \in m + 1 .. N + 1
        BY <2>2
    <2>4. f \in [m + 1 .. N + 1 -> S] /\ f[N + 1] = last
        BY <2>1, <2>2
    <2>5. \A i \in m + 1 .. N : f[i] = step[i][f[next[i]]]
        BY <2>1, <2>2
    <2>6. step[m][f[next[m]]] \in S
        BY <2>2, <2>3, <2>4
    <2>7. g \in [m .. N + 1 -> S]
        <3>1. \A i \in m .. N + 1 : i = m \/ i \in m + 1 .. N + 1
            BY <2>2
        <3> QED BY <2>4, <2>6, <3>1
    <2>8. g[N + 1] = last
        BY <2>2, <2>4
    <2>9. ASSUME NEW i \in m .. N PROVE g[i] = step[i][g[next[i]]]
        <3>1. next[i] \in m + 1 .. N + 1 /\ next[i] # m
            BY <2>2
        <3>2. g[next[i]] = f[next[i]]
            BY <2>2, <3>1
        <3>3. CASE i = m
            BY <2>2, <3>2, <3>3
        <3>4. CASE i # m
            <4>1. i \in m + 1 .. N /\ i \in m .. N + 1
                BY <2>2, <3>4
            <4>2. g[i] = f[i]
                BY <3>4, <4>1
            <4> QED BY <2>5, <3>2, <4>1, <4>2
        <3> QED BY <3>3, <3>4
    <2>10. Runs(g, m)
        BY <2>7, <2>8, <2>9
    <2> HIDE DEF Runs
    <2> QED BY <2>2, <2>10
<1>3. N \in T
    <2>1. T \in SUBSET Nat
        <3> HIDE DEF Runs
        <3> QED OBVIOUS
    <2> HIDE DEF T
    <2> QED BY <1>1, <1>2, Induction
<1>4. PICK f : Runs(f, 1)
    <2> HIDE DEF Runs
    <2>1. N + 1 - N = 1
        OBVIOUS
    <2> QED BY <1>3, <2>1
<1> QED
    BY <1>4 DEF Recurs
=============================================================================
