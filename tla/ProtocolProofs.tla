--------------------------- MODULE ProtocolProofs ---------------------------
(***************************************************************************)
(* Proofs about the wire protocol, for every number of values that a byte  *)
(* may have, all messages whose numbers and sizes have the widths of their *)
(* fields, and all payloads.  protocol.cpp and model_client.py agree on    *)
(* one layout: what one of them encodes another decodes, what a decoder    *)
(* accepts is what would have been encoded, and the two clients tell the   *)
(* same payloads apart and read the same, but for names that are no text.  *)
(*                                                                         *)
(* The argument goes from small to large.  The bytes of a number are the   *)
(* remainders of repeated division, and reading them is undone by it, so   *)
(* that a payload has the bytes of a number at a place exactly when the    *)
(* number is read there.  Texts that are put one behind the other are at   *)
(* the sums of the lengths before them.  So a payload is the encoding of a *)
(* message exactly when it holds the parts of the message where the        *)
(* decoder looks for them (RequestLayout, ResponseLayout).  From left to   *)
(* right this says that a message survives, from right to left that what   *)
(* is accepted is exact.                                                   *)
(***************************************************************************)
EXTENDS MCModelServer, Integers, SetInduction, FiniteSetTheorems

---------------------------------------------------------------------------
(* Numbers                                                                 *)

Byte == 0 .. ByteValues - 1

(* Division by the number of values of a byte takes a byte away.           *)
LEMMA OneByte ==
    ASSUME NEW n \in Nat
    PROVE  /\ n % ByteValues \in Byte
           /\ n \div ByteValues \in Nat
           /\ (n % ByteValues) + ByteValues * (n \div ByteValues) = n
<1>1. ByteValues \in Nat \ {0}
    BY ByteAssumption
<1> QED
    BY <1>1 DEF Byte

(* A number below m * ByteValues has a quotient below m.                   *)
LEMMA ByteLess ==
    ASSUME NEW n \in Nat, NEW m \in Nat, n < m * ByteValues
    PROVE  n \div ByteValues < m
<1> DEFINE b == ByteValues
           q == n \div b
<1>1. b \in Nat \ {0} /\ q \in Nat
    BY ByteAssumption
<1>2. b * q <= n
    BY <1>1
<1> HIDE DEF b, q
<1>3. CASE q >= m
    <2>1. b * q >= b * m
        BY <1>1, <1>3
    <2>2. b * m = m * b
        BY <1>1
    <2>3. b * q \in Int /\ b * m \in Int
        BY <1>1
    <2> QED BY <1>2, <2>1, <2>2, <2>3 DEF b
<1> QED
    BY <1>1, <1>3 DEF q, b

(* What is left of a number after each of its bytes.                       *)
Quotients(f, n, size) ==
    /\ f \in [0 .. size -> Nat]
    /\ f[0] = n
    /\ \A i \in 1 .. size : f[i] = f[i - 1] \div ByteValues

(* They exist, by iteration.                                               *)
LEMMA QuotientsExist ==
    ASSUME NEW n \in Nat, NEW size \in Nat
    PROVE  \E f : Quotients(f, n, size)
<1> DEFINE step == [i \in 1 .. size |-> [m \in Nat |-> m \div ByteValues]]
<1>1. step \in [1 .. size -> [Nat -> Nat]]
    BY OneByte
<1>2. \A i \in 1 .. size : \A m \in Nat : step[i][m] = m \div ByteValues
    OBVIOUS
<1> HIDE DEF step
<1>3. PICK f \in [0 .. size -> Nat] :
          Iterates(f, n, step, size)
    BY <1>1, Iteration
<1>4. \A i \in 1 .. size : f[i - 1] \in Nat
    OBVIOUS
<1> QED
    BY <1>2, <1>3, <1>4 DEF Quotients, Iterates

(* The bytes that are put are those that division takes away.              *)
LEMMA PutIs ==
    ASSUME NEW n \in Nat, NEW size \in Nat
    PROVE  \E f : /\ Quotients(f, n, size)
                  /\ Put(size, n) = [i \in 1 .. size |->
                                        f[i - 1] % ByteValues]
<1> DEFINE Is(f) == f = [i \in 0 .. size |->
                            IF i = 0 THEN n ELSE f[i - 1] \div ByteValues]
           rest == CHOOSE f : Is(f)
<1>1. PICK g : Quotients(g, n, size)
    BY QuotientsExist
<1>2. Is(g)
    <2> DEFINE h == [i \in 0 .. size |->
                        IF i = 0 THEN n ELSE g[i - 1] \div ByteValues]
    <2>1. ASSUME NEW i \in 0 .. size PROVE g[i] = h[i]
        <3>1. CASE i = 0
            BY <1>1, <3>1 DEF Quotients
        <3>2. CASE i # 0
            <4>1. i \in 1 .. size
                BY <3>2
            <4> QED BY <1>1, <3>2, <4>1 DEF Quotients
        <3> QED BY <3>1, <3>2
    <2>2. g = [i \in 0 .. size |-> g[i]]
        BY <1>1 DEF Quotients
    <2> QED BY <2>1, <2>2
<1>3. Is(rest)
    <2> HIDE DEF Is
    <2> QED BY <1>2
<1>4. \A k \in Nat : k <= size => rest[k] = g[k]
    <2> HIDE DEF rest
    <2> DEFINE S == {k \in Nat : k <= size => rest[k] = g[k]}
    <2>1. 0 \in S
        BY <1>1, <1>3 DEF Quotients
    <2>2. ASSUME NEW k \in Nat, k \in S
          PROVE  k + 1 \in S
        <3> SUFFICES ASSUME k + 1 <= size PROVE rest[k + 1] = g[k + 1]
            OBVIOUS
        <3> DEFINE m == k + 1
        <3>1. m \in 0 .. size /\ m # 0 /\ m - 1 = k /\ m \in 1 .. size
            OBVIOUS
        <3>2. rest[k] = g[k]
            BY <2>2
        <3> HIDE DEF m
        <3>3. rest[m] = rest[m - 1] \div ByteValues
            BY <1>3, <3>1
        <3>4. g[m] = g[m - 1] \div ByteValues
            BY <1>1, <3>1 DEF Quotients
        <3> QED BY <3>1, <3>2, <3>3, <3>4 DEF m
    <2>3. \A k \in Nat : k \in S
        <3> HIDE DEF S
        <3> QED BY <2>1, <2>2, Induction
    <2> QED BY <2>3
<1>5. Put(size, n) = [i \in 1 .. size |-> rest[i - 1] % ByteValues]
    BY DEF Put
<1>6. \A i \in 1 .. size : rest[i - 1] = g[i - 1]
    <2> HIDE DEF rest
    <2>1. \A i \in 1 .. size : i - 1 \in Nat /\ i - 1 <= size
        OBVIOUS
    <2> QED BY <1>4, <2>1
<1>7. Put(size, n) = [i \in 1 .. size |-> g[i - 1] % ByteValues]
    <2> HIDE DEF rest
    <2> QED BY <1>5, <1>6
<1> QED
    BY <1>1, <1>7

(* What is left to be read of a number behind each of its bytes.           *)
Reads(p, at, f, size) ==
    /\ f \in [0 .. size -> Nat]
    /\ f[size] = 0
    /\ \A i \in 1 .. size : f[i - 1] = p[at + i] + ByteValues * f[i]

(* A payload has so many bytes behind a position.                          *)
Reaches(p, at, size) == p \in Seq(Byte) /\ at + size <= Len(p)

(* What is read of one place is a byte.                                    *)
LEMMA ByteOf ==
    ASSUME NEW p, NEW at \in Nat, NEW size \in Nat, Reaches(p, at, size),
           NEW i \in 1 .. size
    PROVE  p[at + i] \in Byte /\ p[at + i] \in Nat
<1> DEFINE k == at + i
<1>1. Len(p) \in Nat
    BY LenProperties DEF Reaches
<1>2. k \in 1 .. Len(p)
    BY <1>1 DEF Reaches
<1> HIDE DEF k
<1>3. p[k] \in Byte
    BY <1>2, ElementOfSeq DEF Reaches
<1>4. p[k] \in Nat
    BY <1>3, ByteAssumption DEF Byte
<1> QED
    BY <1>3, <1>4 DEF k

(* They exist, from the last byte to the first.                            *)
LEMMA ReadsExist ==
    ASSUME NEW p, NEW at \in Nat, NEW size \in Nat, Reaches(p, at, size)
    PROVE  \E f : Reads(p, at, f, size)
<1> DEFINE byte(j) == p[at + (size - j + 1)]
           step == [j \in 1 .. size |->
                       [m \in Nat |-> byte(j) + ByteValues * m]]
<1>1. \A j \in 1 .. size : byte(j) \in Nat
    <2>1. \A j \in 1 .. size : size - j + 1 \in 1 .. size
        OBVIOUS
    <2> QED BY <2>1, ByteOf
<1>2. step \in [1 .. size -> [Nat -> Nat]]
    <2> HIDE DEF byte
    <2> QED BY <1>1, ByteAssumption
<1>3. \A j \in 1 .. size : \A m \in Nat :
          step[j][m] = byte(j) + ByteValues * m
    OBVIOUS
<1> HIDE DEF step
<1>4. PICK g \in [0 .. size -> Nat] :
          Iterates(g, 0, step, size)
    BY <1>2, Iteration
<1> DEFINE f == [i \in 0 .. size |-> g[size - i]]
<1>5. f \in [0 .. size -> Nat] /\ f[size] = 0
    BY <1>4 DEF Iterates
<1>6. ASSUME NEW i \in 1 .. size
      PROVE  f[i - 1] = p[at + i] + ByteValues * f[i]
    <2> DEFINE j == size - i + 1
    <2>1. /\ j \in 1 .. size /\ size - j + 1 = i
          /\ f[i - 1] = g[j] /\ f[i] = g[j - 1]
        <3>1. size - (i - 1) = j /\ size - i = j - 1
            OBVIOUS
        <3> QED BY <3>1
    <2> HIDE DEF j, f
    <2>2. g[j - 1] \in Nat
        BY <2>1
    <2>3. g[j] = byte(j) + ByteValues * g[j - 1]
        <3> HIDE DEF byte
        <3> QED BY <1>3, <1>4, <2>1, <2>2 DEF Iterates
    <2> QED BY <2>1, <2>3
<1> HIDE DEF f
<1> QED
    BY <1>5, <1>6 DEF Reads

(* The number is all that is left behind no byte of it.                    *)
LEMMA GetReads ==
    ASSUME NEW p, NEW at \in Nat, NEW size \in Nat, NEW f,
           Reads(p, at, f, size)
    PROVE  Get(p, at, size) = f[0]
<1> DEFINE Is(g) == g = [i \in 0 .. size |->
                            IF i = size THEN 0
                            ELSE p[at + i + 1] + ByteValues * g[i + 1]]
           from == CHOOSE g : Is(g)
<1>1. ASSUME NEW i \in 0 .. size, i # size
      PROVE  f[i] = p[at + i + 1] + ByteValues * f[i + 1]
    <2> DEFINE k == i + 1
    <2>1. k \in 1 .. size /\ k - 1 = i /\ at + k = at + i + 1
        BY <1>1
    <2> HIDE DEF k
    <2>2. f[k - 1] = p[at + k] + ByteValues * f[k]
        BY <2>1 DEF Reads
    <2> QED BY <2>1, <2>2 DEF k
<1>2. Is(f)
    <2> DEFINE h == [i \in 0 .. size |->
                        IF i = size THEN 0
                        ELSE p[at + i + 1] + ByteValues * f[i + 1]]
    <2>1. ASSUME NEW i \in 0 .. size PROVE f[i] = h[i]
        BY <1>1 DEF Reads
    <2>2. f = [i \in 0 .. size |-> f[i]]
        BY DEF Reads
    <2> QED BY <2>1, <2>2
<1>3. Is(from)
    <2> HIDE DEF Is
    <2> QED BY <1>2
<1>4. \A k \in Nat : k <= size => from[size - k] = f[size - k]
    <2> HIDE DEF from
    <2> DEFINE S == {k \in Nat : k <= size => from[size - k] = f[size - k]}
    <2>1. 0 \in S
        <3>1. from[size] = 0
            BY <1>3
        <3> QED BY <3>1 DEF Reads
    <2>2. ASSUME NEW k \in Nat, k \in S
          PROVE  k + 1 \in S
        <3> SUFFICES ASSUME k + 1 <= size
                     PROVE  from[size - (k + 1)] = f[size - (k + 1)]
            OBVIOUS
        <3> DEFINE m == size - (k + 1)
        <3>1. m \in 0 .. size /\ m # size /\ m + 1 = size - k
            OBVIOUS
        <3>2. from[size - k] = f[size - k]
            BY <2>2
        <3> HIDE DEF m
        <3>3. from[m] = p[at + m + 1] + ByteValues * from[m + 1]
            BY <1>3, <3>1
        <3>4. f[m] = p[at + m + 1] + ByteValues * f[m + 1]
            BY <1>1, <3>1
        <3> QED BY <3>1, <3>2, <3>3, <3>4 DEF m
    <2>3. \A k \in Nat : k \in S
        <3> HIDE DEF S
        <3> QED BY <2>1, <2>2, Induction
    <2> QED BY <2>3
<1>5. from[0] = f[0]
    <2> HIDE DEF from
    <2>1. size - size = 0
        OBVIOUS
    <2>2. from[size - size] = f[size - size]
        BY <1>4
    <2> QED BY <2>1, <2>2
<1>6. Get(p, at, size) = from[0]
    BY DEF Get
<1> QED
    BY <1>5, <1>6

(* Reading undoes division and division undoes reading.                    *)
LeavesBytes(p, at, f, size) ==
    \A i \in 1 .. size : p[at + i] = f[i - 1] % ByteValues

LEMMA ReadsAreQuotients ==
    ASSUME NEW p, NEW at \in Nat, NEW size \in Nat, NEW f,
           Reaches(p, at, size)
    PROVE  Reads(p, at, f, size) <=>
               /\ Quotients(f, f[0], size)
               /\ f[size] = 0
               /\ LeavesBytes(p, at, f, size)
<1>1. ASSUME NEW a \in Nat, NEW x \in Byte, NEW y \in Nat
      PROVE  a = x + ByteValues * y <=>
                 y = a \div ByteValues /\ x = a % ByteValues
    <2>1. ByteValues \in Nat \ {0} /\ x \in Nat /\ x < ByteValues
        BY ByteAssumption DEF Byte
    <2>2. ASSUME a = x + ByteValues * y
          PROVE  y = a \div ByteValues /\ x = a % ByteValues
        <3> DEFINE q == a \div ByteValues
                   r == a % ByteValues
        <3>1. /\ q \in Nat /\ r \in Nat /\ r < ByteValues
              /\ r + ByteValues * q = a
            BY <2>1, OneByte DEF Byte
        <3> HIDE DEF q, r
        <3>2. CASE y = q
            BY <2>1, <2>2, <3>1, <3>2 DEF q, r
        <3>3. CASE y < q
            <4>1. ByteValues * (y + 1) <= ByteValues * q
                BY <2>1, <3>1, <3>3
            <4>2. ByteValues * (y + 1) = ByteValues * y + ByteValues
                BY <2>1
            <4>3. ByteValues * y \in Nat /\ ByteValues * q \in Nat
                BY <2>1, <3>1
            <4> QED BY <2>1, <2>2, <3>1, <4>1, <4>2, <4>3
        <3>4. CASE q < y
            <4>1. ByteValues * (q + 1) <= ByteValues * y
                BY <2>1, <3>1, <3>4
            <4>2. ByteValues * (q + 1) = ByteValues * q + ByteValues
                BY <2>1, <3>1
            <4>3. ByteValues * y \in Nat /\ ByteValues * q \in Nat
                BY <2>1, <3>1
            <4> QED BY <2>1, <2>2, <3>1, <4>1, <4>2, <4>3
        <3> QED BY <3>1, <3>2, <3>3, <3>4
    <2>3. ASSUME y = a \div ByteValues, x = a % ByteValues
          PROVE  a = x + ByteValues * y
        BY <2>3, OneByte
    <2> QED BY <2>2, <2>3
<1>2. ASSUME f \in [0 .. size -> Nat], NEW i \in 1 .. size
      PROVE  f[i - 1] = p[at + i] + ByteValues * f[i] <=>
                 /\ f[i] = f[i - 1] \div ByteValues
                 /\ p[at + i] = f[i - 1] % ByteValues
    <2>1. f[i - 1] \in Nat /\ f[i] \in Nat
        BY <1>2
    <2>2. p[at + i] \in Byte
        BY ByteOf
    <2> QED BY <1>1, <2>1, <2>2
<1> QED
    BY <1>2 DEF Reads, Quotients, LeavesBytes

(* Division by so many bytes leaves nothing of a number that fits.         *)
LEMMA NothingLeft ==
    ASSUME NEW n \in Nat, NEW f
    PROVE  /\ n < Word /\ Quotients(f, n, 4) => f[4] = 0
           /\ n < Word * Word /\ Quotients(f, n, 8) => f[8] = 0
<1> DEFINE b == ByteValues
<1>1. b \in Nat \ {0}
    BY ByteAssumption
<1>2. /\ 1 * b \in Nat /\ b * b \in Nat /\ b * b * b \in Nat
      /\ b * b * b * b \in Nat /\ 1 * b = b
    BY <1>1
<1>3. Word = b * b * b * b
    BY DEF Word
<1> HIDE DEF b
<1>4. ASSUME NEW x0 \in Nat, NEW x1 \in Nat, NEW x2 \in Nat, NEW x3 \in Nat,
             NEW x4 \in Nat,
             x1 = x0 \div ByteValues, x2 = x1 \div ByteValues,
             x3 = x2 \div ByteValues, x4 = x3 \div ByteValues,
             x0 < Word
      PROVE  x4 = 0
    <2>1. x1 < b * b * b
        BY <1>2, <1>3, <1>4, ByteLess DEF b
    <2>2. x2 < b * b
        BY <1>2, <1>4, <2>1, ByteLess DEF b
    <2>3. x3 < b
        BY <1>1, <1>4, <2>2, ByteLess DEF b
    <2>4. x4 < 1
        <3>1. x3 < 1 * b
            BY <1>2, <2>3
        <3> QED BY <1>4, <3>1, ByteLess DEF b
    <2> QED BY <2>4
<1>5. ASSUME n < Word, Quotients(f, n, 4)
      PROVE  f[4] = 0
    <2>1. /\ f[0] \in Nat /\ f[1] \in Nat /\ f[2] \in Nat /\ f[3] \in Nat
          /\ f[4] \in Nat
          /\ f[1] = f[0] \div ByteValues /\ f[2] = f[1] \div ByteValues
          /\ f[3] = f[2] \div ByteValues /\ f[4] = f[3] \div ByteValues
          /\ f[0] = n
        BY <1>5 DEF Quotients
    <2> QED BY <1>4, <1>5, <2>1
<1>6. ASSUME NEW x0 \in Nat, NEW x1 \in Nat, NEW x2 \in Nat, NEW x3 \in Nat,
             NEW x4 \in Nat,
             x1 = x0 \div ByteValues, x2 = x1 \div ByteValues,
             x3 = x2 \div ByteValues, x4 = x3 \div ByteValues,
             x0 < Word * Word
      PROVE  x4 < Word
    <2> DEFINE w == Word
    <2>1. w \in Nat
        BY <1>2, <1>3
    <2>2. w * w = w * (b * b * b) * b
        <3> DEFINE c == b * b * b
        <3>1. c \in Nat /\ b \in Nat /\ Word = c * b
            BY <1>1, <1>2, <1>3
        <3> HIDE DEF c
        <3>2. w * (c * b) = w * c * b
            BY <2>1, <3>1
        <3>3. w * w = w * c * b
            BY <3>1, <3>2
        <3> QED BY <3>3 DEF c
    <2>3. w * (b * b * b) = w * (b * b) * b
        BY <1>2, <1>1, <2>1
    <2>4. w * (b * b) = w * b * b
        BY <1>2, <1>1, <2>1
    <2>5. /\ w * (b * b * b) \in Nat /\ w * (b * b) \in Nat /\ w * b \in Nat
        BY <1>2, <1>1, <2>1
    <2> HIDE DEF w
    <2>6. x1 < w * (b * b * b)
        BY <1>6, <2>2, <2>5, ByteLess DEF b, w
    <2>7. x2 < w * (b * b)
        BY <1>6, <2>3, <2>5, <2>6, ByteLess DEF b
    <2>8. x3 < w * b
        BY <1>6, <2>4, <2>5, <2>7, ByteLess DEF b
    <2>9. x4 < w
        BY <1>6, <2>1, <2>8, ByteLess DEF b
    <2> QED BY <2>9 DEF w
<1>7. ASSUME n < Word * Word, Quotients(f, n, 8)
      PROVE  f[8] = 0
    <2>1. /\ f[0] \in Nat /\ f[1] \in Nat /\ f[2] \in Nat /\ f[3] \in Nat
          /\ f[4] \in Nat
          /\ f[1] = f[0] \div ByteValues /\ f[2] = f[1] \div ByteValues
          /\ f[3] = f[2] \div ByteValues /\ f[4] = f[3] \div ByteValues
          /\ f[0] = n
        BY <1>7 DEF Quotients
    <2>2. /\ f[5] \in Nat /\ f[6] \in Nat /\ f[7] \in Nat /\ f[8] \in Nat
          /\ f[5] = f[4] \div ByteValues /\ f[6] = f[5] \div ByteValues
          /\ f[7] = f[6] \div ByteValues /\ f[8] = f[7] \div ByteValues
        BY <1>7 DEF Quotients
    <2>3. f[4] < Word
        BY <1>6, <1>7, <2>1
    <2> QED BY <1>4, <2>1, <2>2, <2>3
<1> QED
    BY <1>5, <1>7

(* put_u32 and put_u64 write so many bytes, whatever the number is.        *)
LEMMA PutIsBytes ==
    ASSUME NEW n \in Nat, NEW size \in Nat
    PROVE  Put(size, n) \in Seq(Byte) /\ Len(Put(size, n)) = size
<1>1. PICK f : /\ Quotients(f, n, size)
               /\ Put(size, n) = [i \in 1 .. size |-> f[i - 1] % ByteValues]
    BY PutIs
<1>2. \A i \in 1 .. size : f[i - 1] % ByteValues \in Byte
    <2> SUFFICES ASSUME NEW i \in 1 .. size
                 PROVE  f[i - 1] % ByteValues \in Byte
        OBVIOUS
    <2>1. f[i - 1] \in Nat
        BY <1>1 DEF Quotients
    <2> QED BY <2>1, OneByte
<1>3. Put(size, n) \in [1 .. size -> Byte]
    BY <1>1, <1>2
<1> QED
    BY <1>3, FunctionIsSequence

(* A payload has a text behind so many bytes.                              *)
Has(p, at, text) ==
    /\ at + Len(text) <= Len(p)
    /\ \A i \in 1 .. Len(text) : p[at + i] = text[i]

(* A number that fits so many bytes.                                       *)
Fits(n, size) ==
    /\ n \in Nat
    /\ \A f : Quotients(f, n, size) => f[size] = 0

(* A number is read where, and only where, it is written.                  *)
LEMMA NumberAt ==
    ASSUME NEW p, NEW at \in Nat, NEW size \in Nat, Reaches(p, at, size),
           NEW n, Fits(n, size)
    PROVE  Has(p, at, Put(size, n)) <=> Get(p, at, size) = n
<1>1. n \in Nat
    BY DEF Fits
<1>2. PICK f : /\ Quotients(f, n, size)
               /\ Put(size, n) = [i \in 1 .. size |-> f[i - 1] % ByteValues]
    BY <1>1, PutIs
<1>3. Len(Put(size, n)) = size
    BY <1>1, PutIsBytes
<1>4. f[0] = n /\ f[size] = 0
    BY <1>2 DEF Fits, Quotients
<1>5. Has(p, at, Put(size, n)) <=> LeavesBytes(p, at, f, size)
    BY <1>2, <1>3 DEF Has, Reaches, LeavesBytes
<1>6. ASSUME Has(p, at, Put(size, n))
      PROVE  Get(p, at, size) = n
    <2>1. Reads(p, at, f, size)
        BY <1>2, <1>4, <1>5, <1>6, ReadsAreQuotients
    <2> QED BY <2>1, <1>4, GetReads
<1>7. ASSUME Get(p, at, size) = n
      PROVE  Has(p, at, Put(size, n))
    <2>1. PICK g : Reads(p, at, g, size)
        BY ReadsExist
    <2>2. g[0] = n
        BY <1>7, <2>1, GetReads
    <2>3. /\ Quotients(g, n, size)
          /\ LeavesBytes(p, at, g, size)
        <3>1. Quotients(g, g[0], size) /\ LeavesBytes(p, at, g, size)
            BY <2>1, ReadsAreQuotients
        <3> QED BY <2>2, <3>1
    <2>4. \A i \in 0 .. size : g[i] = f[i]
        <3> DEFINE S == {k \in Nat : k <= size => g[k] = f[k]}
        <3>1. 0 \in S
            BY <1>4, <2>2
        <3>2. ASSUME NEW k \in Nat, k \in S
              PROVE  k + 1 \in S
            <4> SUFFICES ASSUME k + 1 <= size PROVE g[k + 1] = f[k + 1]
                OBVIOUS
            <4> DEFINE m == k + 1
            <4>1. m \in 1 .. size /\ m - 1 = k
                OBVIOUS
            <4>2. g[k] = f[k]
                BY <3>2
            <4> HIDE DEF m
            <4>3. /\ g[m] = g[m - 1] \div ByteValues
                  /\ f[m] = f[m - 1] \div ByteValues
                BY <1>2, <2>3, <4>1 DEF Quotients
            <4> QED BY <4>1, <4>2, <4>3 DEF m
        <3>3. \A k \in Nat : k \in S
            <4> HIDE DEF S
            <4> QED BY <3>1, <3>2, Induction
        <3> QED BY <3>3
    <2> QED BY <1>5, <2>3, <2>4 DEF LeavesBytes
<1> QED
    BY <1>6, <1>7

(* What is read of four bytes is a word, of eight one of two words.        *)
LEMMA NumbersFit ==
    /\ Word \in Nat /\ Word * Word \in Nat
    /\ \A n \in 0 .. Word - 1 : Fits(n, 4)
    /\ \A n \in 0 .. Word * Word - 1 : Fits(n, 8)
<1>1. Word \in Nat /\ Word * Word \in Nat
    <2>1. ByteValues \in Nat
        BY ByteAssumption
    <2>2. ByteValues * ByteValues \in Nat
        BY <2>1
    <2>3. ByteValues * ByteValues * ByteValues \in Nat
        BY <2>1, <2>2
    <2>4. Word \in Nat
        BY <2>1, <2>3 DEF Word
    <2> QED BY <2>4
<1>2. ASSUME NEW n \in 0 .. Word - 1
      PROVE  Fits(n, 4)
    <2>1. n \in Nat /\ n < Word
        BY <1>1
    <2> QED BY <2>1, NothingLeft DEF Fits
<1>3. ASSUME NEW n \in 0 .. Word * Word - 1
      PROVE  Fits(n, 8)
    <2>1. n \in Nat /\ n < Word * Word
        BY <1>1
    <2> QED BY <2>1, NothingLeft DEF Fits
<1> QED
    BY <1>1, <1>2, <1>3

(* One more byte keeps a number below the next power.                      *)
LEMMA ReadStep ==
    ASSUME NEW x \in Byte, NEW y \in Nat, NEW m \in Nat, y < m
    PROVE  x + ByteValues * y < ByteValues * m
<1>1. ByteValues \in Nat /\ x \in Nat /\ x < ByteValues
    BY ByteAssumption DEF Byte
<1>2. ByteValues * (y + 1) <= ByteValues * m
    BY <1>1
<1>3. ByteValues * (y + 1) = ByteValues * y + ByteValues
    BY <1>1
<1>4. ByteValues * y \in Nat /\ ByteValues * m \in Nat
    BY <1>1
<1> QED
    BY <1>1, <1>2, <1>3, <1>4

(* read_u32 and read_u64 give numbers of their width.                      *)
LEMMA GetIsNumber ==
    ASSUME NEW p, NEW at \in Nat
    PROVE  /\ Reaches(p, at, 4) => Get(p, at, 4) \in 0 .. Word - 1
           /\ Reaches(p, at, 8) => Get(p, at, 8) \in 0 .. Word * Word - 1
<1> DEFINE b == ByteValues
<1>1. /\ b \in Nat /\ 1 \in Nat /\ b * 1 = b /\ b * b \in Nat
      /\ b * (b * b) \in Nat
    BY ByteAssumption
<1>2. Word \in Nat /\ Word * Word \in Nat
    BY NumbersFit
<1>3. b * (b * (b * b)) = Word
    <2>1. b * b * b = b * (b * b)
        BY <1>1
    <2>2. b * (b * b) * b = b * (b * (b * b))
        BY <1>1
    <2> QED BY <2>1, <2>2 DEF Word
<1>4. b * (b * (b * (b * Word))) = Word * Word
    <2> DEFINE w == Word
    <2>1. w \in Nat /\ b * w \in Nat /\ b * (b * w) \in Nat
        BY <1>1, <1>2
    <2> HIDE DEF w
    <2>2. b * (b * w) = b * b * w
        BY <1>1, <2>1
    <2>3. b * (b * (b * w)) = b * (b * b) * w
        <3>1. b * (b * b * w) = b * (b * b) * w
            BY <1>1, <2>1
        <3> QED BY <2>2, <3>1
    <2>4. b * (b * (b * (b * w))) = b * (b * (b * b)) * w
        <3>1. b * (b * (b * b) * w) = b * (b * (b * b)) * w
            BY <1>1, <2>1
        <3> QED BY <2>3, <3>1
    <2> QED BY <2>4, <1>3 DEF w
<1>5. ASSUME NEW size \in Nat, NEW f, Reaches(p, at, size),
             Reads(p, at, f, size), NEW i \in 1 .. size, NEW m \in Nat,
             f[i] < m
      PROVE  f[i - 1] < b * m /\ f[i - 1] \in Nat
    <2>1. f[i - 1] \in Nat /\ f[i] \in Nat
        BY <1>5 DEF Reads
    <2>2. f[i - 1] = p[at + i] + b * f[i]
        BY <1>5 DEF Reads
    <2>3. p[at + i] \in Byte
        BY <1>5, ByteOf
    <2> QED BY <1>5, <2>1, <2>2, <2>3, ReadStep
<1>6. ASSUME NEW size \in Nat, NEW f, Reaches(p, at, size),
             Reads(p, at, f, size), NEW k \in 4 .. size, NEW m \in Nat,
             f[k] < m, b * m \in Nat, b * (b * m) \in Nat,
             b * (b * (b * m)) \in Nat
      PROVE  f[k - 4] < b * (b * (b * (b * m))) /\ f[k - 4] \in Nat
    <2>1. /\ k \in 1 .. size /\ k - 1 \in 1 .. size /\ k - 2 \in 1 .. size
          /\ k - 3 \in 1 .. size
          /\ k - 1 - 1 = k - 2 /\ k - 2 - 1 = k - 3 /\ k - 3 - 1 = k - 4
        OBVIOUS
    <2>2. f[k - 1] < b * m
        BY <1>5, <1>6, <2>1
    <2>3. f[k - 1 - 1] < b * (b * m)
        BY <1>5, <1>6, <2>1, <2>2
    <2>4. f[k - 2 - 1] < b * (b * (b * m))
        BY <1>5, <1>6, <2>1, <2>3
    <2>5. f[k - 3 - 1] < b * (b * (b * (b * m))) /\ f[k - 3 - 1] \in Nat
        BY <1>5, <1>6, <2>1, <2>4
    <2> QED BY <2>1, <2>5
<1>7. ASSUME Reaches(p, at, 4)
      PROVE  Get(p, at, 4) \in 0 .. Word - 1
    <2>1. PICK f : Reads(p, at, f, 4)
        BY <1>7, ReadsExist
    <2>2. f[4] < 1
        BY <2>1 DEF Reads
    <2>3. f[4 - 4] < b * (b * (b * (b * 1))) /\ f[4 - 4] \in Nat
        <3> HIDE DEF b
        <3> QED BY <1>1, <1>6, <1>7, <2>1, <2>2
    <2>4. f[0] < Word /\ f[0] \in Nat
        BY <1>1, <1>3, <2>3
    <2> QED BY <1>2, <1>7, <2>1, <2>4, GetReads
<1>8. ASSUME Reaches(p, at, 8)
      PROVE  Get(p, at, 8) \in 0 .. Word * Word - 1
    <2>1. PICK f : Reads(p, at, f, 8)
        BY <1>8, ReadsExist
    <2>2. f[8] < 1
        BY <2>1 DEF Reads
    <2>3. f[8 - 4] < b * (b * (b * (b * 1))) /\ f[8 - 4] \in Nat
        <3> HIDE DEF b
        <3> QED BY <1>1, <1>6, <1>8, <2>1, <2>2
    <2>4. f[4] < Word
        BY <1>1, <1>3, <2>3
    <2>5. b * Word \in Nat /\ b * (b * Word) \in Nat
          /\ b * (b * (b * Word)) \in Nat
        <3>1. b * Word \in Nat
            BY <1>1, <1>2
        <3>2. b * (b * Word) \in Nat
            BY <1>1, <3>1
        <3> QED BY <1>1, <3>1, <3>2
    <2>6. f[4 - 4] < b * (b * (b * (b * Word))) /\ f[4 - 4] \in Nat
        <3> HIDE DEF b
        <3> QED BY <1>2, <1>6, <1>8, <2>1, <2>4, <2>5
    <2>7. f[0] < Word * Word /\ f[0] \in Nat
        BY <1>4, <2>6
    <2> QED BY <1>2, <1>8, <2>1, <2>7, GetReads
<1> QED
    BY <1>7, <1>8

---------------------------------------------------------------------------
(* Texts and payloads                                                      *)

LEMMA Joined ==
    ASSUME NEW s \in Seq(Byte), NEW t \in Seq(Byte)
    PROVE  /\ s \o t \in Seq(Byte)
           /\ Len(s) \in Nat /\ Len(t) \in Nat
           /\ Len(s \o t) = Len(s) + Len(t)
BY ConcatProperties, LenProperties

(* A payload has two texts behind one another when it has both.            *)
LEMMA JoinedAt ==
    ASSUME NEW s \in Seq(Byte), NEW t \in Seq(Byte),
           NEW p \in Seq(Byte), NEW at \in Nat
    PROVE  Has(p, at, s \o t) <=> Has(p, at, s) /\ Has(p, at + Len(s), t)
<1>1. Len(s) \in Nat /\ Len(t) \in Nat
    BY LenProperties
<1>2. /\ s \o t \in Seq(Byte)
      /\ Len(s \o t) = Len(s) + Len(t)
      /\ \A i \in 1 .. Len(s) + Len(t) :
            (s \o t)[i] = IF i <= Len(s) THEN s[i] ELSE t[i - Len(s)]
    BY ConcatProperties
<1> DEFINE m == Len(s)
           n == Len(t)
           u == s \o t
<1>3. /\ m \in Nat /\ n \in Nat /\ Len(u) = m + n /\ Len(p) \in Nat
      /\ \A i \in 1 .. m : u[i] = s[i]
      /\ \A i \in m + 1 .. m + n : u[i] = t[i - m]
    BY <1>1, <1>2, LenProperties
<1> HIDE DEF u
<1>4. ASSUME Has(p, at, u)
      PROVE  Has(p, at, s) /\ Has(p, at + m, t)
    <2>1. \A i \in 1 .. m : p[at + i] = s[i]
        BY <1>3, <1>4 DEF Has
    <2>2. ASSUME NEW i \in 1 .. n PROVE p[at + m + i] = t[i]
        <3> DEFINE k == m + i
        <3>1. /\ k \in m + 1 .. m + n /\ k \in 1 .. m + n
              /\ k - m = i /\ at + k = at + m + i
            BY <1>3
        <3> HIDE DEF k
        <3>2. p[at + k] = u[k] /\ u[k] = t[k - m]
            BY <1>3, <1>4, <3>1 DEF Has
        <3> QED BY <3>1, <3>2
    <2> QED BY <1>3, <1>4, <2>1, <2>2 DEF Has
<1>5. ASSUME Has(p, at, s), Has(p, at + m, t)
      PROVE  Has(p, at, u)
    <2>1. ASSUME NEW k \in 1 .. m + n PROVE p[at + k] = u[k]
        <3>1. CASE k <= m
            BY <1>3, <1>5, <3>1 DEF Has
        <3>2. CASE k > m
            <4> DEFINE i == k - m
            <4>1. /\ i \in 1 .. n /\ at + m + i = at + k
                  /\ k \in m + 1 .. m + n
                BY <1>3, <3>2
            <4>2. u[k] = t[i]
                BY <1>3, <4>1
            <4> HIDE DEF i
            <4>3. p[at + m + i] = t[i]
                BY <1>5, <4>1 DEF Has
            <4> QED BY <4>1, <4>2, <4>3
        <3> QED BY <1>3, <3>1, <3>2
    <2> QED BY <1>3, <1>5, <2>1 DEF Has
<1> QED BY <1>4, <1>5 DEF u

(* Cutting out a text gives it where, and only where, it is.               *)
LEMMA TextAt ==
    ASSUME NEW p \in Seq(Byte), NEW at \in Nat
    PROVE  /\ \A n \in Nat : at + n <= Len(p) =>
                 Cut(p, at, n) \in Seq(Byte) /\ Len(Cut(p, at, n)) = n
           /\ \A s \in Seq(Byte) :
                 Has(p, at, s) <=>
                     /\ at + Len(s) <= Len(p)
                     /\ Cut(p, at, Len(s)) = s
<1>1. Len(p) \in Nat
    BY LenProperties
<1>2. ASSUME NEW n \in Nat, at + n <= Len(p)
      PROVE  /\ Cut(p, at, n) \in Seq(Byte) /\ Len(Cut(p, at, n)) = n
             /\ \A i \in 1 .. n : Cut(p, at, n)[i] = p[at + i]
    <2> DEFINE first == at + 1
               last == at + n
    <2>1. first \in Int /\ last \in Int /\ first .. last \subseteq 1 .. Len(p)
        BY <1>1, <1>2
    <2>2. \A i \in first .. last : p[i] \in Byte
        BY <2>1, ElementOfSeq
    <2>3. Cut(p, at, n) = SubSeq(p, first, last)
        BY DEF Cut
    <2>4. /\ last - first + 1 = n
          /\ (IF first <= last THEN last - first + 1 ELSE 0) = n
          /\ \A i \in 1 .. n : first + i - 1 = at + i
        OBVIOUS
    <2> HIDE DEF first, last
    <2>5. /\ Cut(p, at, n) \in Seq(Byte)
          /\ Len(Cut(p, at, n)) = IF first <= last THEN last - first + 1
                                  ELSE 0
          /\ \A i \in 1 .. last - first + 1 :
                Cut(p, at, n)[i] = p[first + i - 1]
        BY <2>1, <2>2, <2>3, SubSeqProperties
    <2> QED BY <2>4, <2>5
<1>3. ASSUME NEW s \in Seq(Byte)
      PROVE  Has(p, at, s) <=>
                 at + Len(s) <= Len(p) /\ Cut(p, at, Len(s)) = s
    <2>1. Len(s) \in Nat
        BY LenProperties
    <2>2. ASSUME Has(p, at, s)
          PROVE  Cut(p, at, Len(s)) = s
        <3>1. at + Len(s) <= Len(p)
            BY <2>2 DEF Has
        <3>2. \A i \in 1 .. Len(s) : p[at + i] = s[i]
            BY <2>2 DEF Has
        <3> DEFINE c == Cut(p, at, Len(s))
        <3>3. /\ c \in Seq(Byte) /\ Len(c) = Len(s)
              /\ \A i \in 1 .. Len(s) : c[i] = p[at + i]
            BY <1>2, <2>1, <3>1
        <3> HIDE DEF c
        <3>4. Len(s) = Len(c) /\ \A i \in 1 .. Len(c) : c[i] = s[i]
            BY <3>2, <3>3
        <3> QED BY <3>3, <3>4, SeqEqual DEF c
    <2>3. ASSUME at + Len(s) <= Len(p), Cut(p, at, Len(s)) = s
          PROVE  Has(p, at, s)
        <3>1. \A i \in 1 .. Len(s) : s[i] = p[at + i]
            BY <1>2, <2>1, <2>3
        <3> QED BY <2>3, <3>1 DEF Has
    <2>4. Has(p, at, s) => at + Len(s) <= Len(p)
        BY DEF Has
    <2> QED BY <2>2, <2>3, <2>4
<1> QED
    BY <1>2, <1>3

(* A payload is a text that it has and that is as long.                    *)
LEMMA WholeText ==
    ASSUME NEW p \in Seq(Byte), NEW s \in Seq(Byte)
    PROVE  p = s <=> Has(p, 0, s) /\ Len(p) = Len(s)
<1>1. Len(p) \in Nat /\ Len(s) \in Nat
    BY LenProperties
<1>2. ASSUME p = s
      PROVE  Has(p, 0, s)
    BY <1>1, <1>2 DEF Has
<1>3. ASSUME Has(p, 0, s), Len(p) = Len(s)
      PROVE  p = s
    <2>1. \A i \in 1 .. Len(p) : p[i] = s[i]
        <3>1. \A i \in 1 .. Len(p) : 0 + i = i
            BY <1>1
        <3> QED BY <1>3, <3>1 DEF Has
    <2> QED BY <1>3, <2>1, SeqEqual
<1> QED
    BY <1>2, <1>3

(* FlattenSeq puts one piece behind the other.                             *)
LEMMA FlattenIs ==
    ASSUME NEW N \in Nat, NEW ss \in [1 .. N -> Seq(Byte)]
    PROVE  \E g \in [0 .. N -> Seq(Byte)] :
              Joins(g, ss, N) /\ FlattenSeq(ss) = g[N]
<1>1. PICK g \in [0 .. N -> Seq(Byte)] : Joins(g, ss, N)
    BY Concatenations
<1>2. Len(ss) = N /\ ss \in Seq(Seq(Byte))
    <2> DEFINE S == Seq(Byte)
    <2>1. ss \in [1 .. N -> S]
        OBVIOUS
    <2> HIDE DEF S
    <2> QED BY <2>1, FunctionIsSequence DEF S
<1>3. CASE N = 0
    <2>1. ss = <<>>
        BY <1>2, <1>3, EmptySeq
    <2>2. FlattenSeq(ss) = <<>>
        BY <2>1 DEF FlattenSeq
    <2> QED BY <1>1, <1>3, <2>2 DEF Joins
<1>4. CASE N # 0
    <2> DEFINE Is(f) == f = [i \in 1 .. N |->
                                IF i = 1 THEN ss[i] ELSE f[i - 1] \o ss[i]]
               flatten == CHOOSE f : Is(f)
               h == [i \in 1 .. N |-> g[i]]
    <2>1. Is(h)
        <3>1. ASSUME NEW i \in 1 .. N
              PROVE  h[i] = IF i = 1 THEN ss[i] ELSE h[i - 1] \o ss[i]
            <4>1. g[i] = g[i - 1] \o ss[i]
                BY <1>1 DEF Joins
            <4>2. CASE i = 1
                <5>1. g[i - 1] = <<>>
                    BY <1>1, <4>2 DEF Joins
                <5>2. <<>> \o ss[i] = ss[i]
                    BY ConcatEmptySeq
                <5> QED BY <4>1, <4>2, <5>1, <5>2
            <4>3. CASE i # 1
                <5>1. i - 1 \in 1 .. N
                    BY <4>3
                <5> QED BY <4>1, <4>3, <5>1
            <4> QED BY <4>2, <4>3
        <3> QED BY <3>1
    <2>2. Is(flatten)
        <3> HIDE DEF Is
        <3> QED BY <2>1
    <2>3. \A k \in Nat : k + 1 <= N => flatten[k + 1] = g[k + 1]
        <3> HIDE DEF flatten
        <3> DEFINE S == {k \in Nat : k + 1 <= N => flatten[k + 1] = g[k + 1]}
        <3>1. 0 \in S
            <4>1. flatten[1] = ss[1]
                BY <1>4, <2>2
            <4>2. h[1] = ss[1] /\ h[1] = g[1]
                BY <1>4, <2>1
            <4> QED BY <4>1, <4>2
        <3>2. ASSUME NEW k \in Nat, k \in S
              PROVE  k + 1 \in S
            <4> SUFFICES ASSUME k + 1 + 1 <= N
                         PROVE  flatten[k + 1 + 1] = g[k + 1 + 1]
                OBVIOUS
            <4> DEFINE m == k + 1 + 1
            <4>1. /\ m \in 1 .. N /\ m # 1 /\ m - 1 = k + 1
                  /\ m - 1 \in 1 .. N
                OBVIOUS
            <4>2. flatten[k + 1] = g[k + 1]
                BY <3>2
            <4> HIDE DEF m
            <4>3. flatten[m] = flatten[m - 1] \o ss[m]
                BY <2>2, <4>1
            <4>4. g[m] = g[m - 1] \o ss[m]
                BY <1>1, <4>1 DEF Joins
            <4> QED BY <4>1, <4>2, <4>3, <4>4 DEF m
        <3>3. \A k \in Nat : k \in S
            <4> HIDE DEF S
            <4> QED BY <3>1, <3>2, Induction
        <3> QED BY <3>3
    <2>4. flatten[N] = g[N]
        <3> HIDE DEF flatten
        <3> DEFINE k == N - 1
        <3>1. k \in Nat /\ k + 1 <= N /\ k + 1 = N
            BY <1>4
        <3> HIDE DEF k
        <3>2. flatten[k + 1] = g[k + 1]
            BY <2>3, <3>1
        <3> QED BY <3>1, <3>2
    <2>5. FlattenSeq(ss) = flatten[N]
        BY <1>2, <1>4 DEF FlattenSeq
    <2> QED BY <1>1, <2>4, <2>5
<1> QED
    BY <1>3, <1>4

(* Where the pieces of a text are when the text is at a place.             *)
Offsets(off, ss, N) ==
    /\ off \in [0 .. N -> Nat]
    /\ \A i \in 1 .. N : off[i] = off[i - 1] + Len(ss[i])

(* The pieces are at their offsets, whichever payload they are in.         *)
LEMMA Pieces ==
    ASSUME NEW N \in Nat, NEW ss \in [1 .. N -> Seq(Byte)], NEW off,
           Offsets(off, ss, N)
    PROVE  /\ FlattenSeq(ss) \in Seq(Byte)
           /\ off[0] + Len(FlattenSeq(ss)) = off[N]
           /\ \A p \in Seq(Byte) :
                 Has(p, off[0], FlattenSeq(ss)) <=>
                     /\ off[0] <= Len(p)
                     /\ \A i \in 1 .. N : Has(p, off[i - 1], ss[i])
<1>1. PICK g \in [0 .. N -> Seq(Byte)] :
          Joins(g, ss, N) /\ FlattenSeq(ss) = g[N]
    BY FlattenIs
<1> DEFINE a == off[0]
<1>2. a \in Nat
    BY DEF Offsets
<1>3. ASSUME NEW p \in Seq(Byte)
      PROVE  /\ a + Len(g[N]) = off[N]
             /\ Has(p, a, g[N]) <=>
                    /\ a <= Len(p)
                    /\ \A i \in 1 .. N : Has(p, off[i - 1], ss[i])
    <2> DEFINE Q(k) == /\ a + Len(g[k]) = off[k]
                       /\ Has(p, a, g[k]) <=>
                              /\ a <= Len(p)
                              /\ \A i \in 1 .. k : Has(p, off[i - 1], ss[i])
               S == {k \in Nat : k <= N => Q(k)}
    <2>1. Q(0)
        <3>1. g[0] = <<>> /\ Len(<<>>) = 0
            BY <1>1 DEF Joins
        <3> QED BY <1>2, <3>1 DEF Has
    <2>2. ASSUME NEW k \in Nat, k \in S
          PROVE  k + 1 \in S
        <3> SUFFICES ASSUME k + 1 <= N PROVE Q(k + 1)
            <4> HIDE DEF Q
            <4> QED OBVIOUS
        <3>1. Q(k)
            <4> HIDE DEF Q
            <4> QED BY <2>2
        <3> DEFINE m == k + 1
        <3>2. m \in 1 .. N /\ m - 1 = k /\ k \in 0 .. N
            OBVIOUS
        <3>3. 1 .. m = (1 .. k) \cup {m}
            OBVIOUS
        <3> HIDE DEF m
        <3>4. /\ g[m] = g[k] \o ss[m] /\ g[k] \in Seq(Byte)
              /\ ss[m] \in Seq(Byte)
            <4>1. g[m] = g[m - 1] \o ss[m]
                BY <1>1, <3>2 DEF Joins
            <4> QED BY <3>2, <4>1
        <3>5. off[m] = off[k] + Len(ss[m]) /\ off[k] \in Nat
            BY <3>2 DEF Offsets
        <3>6. /\ Len(g[m]) = Len(g[k]) + Len(ss[m])
              /\ Len(g[k]) \in Nat /\ Len(ss[m]) \in Nat
              /\ Has(p, a, g[m]) <=>
                     Has(p, a, g[k]) /\ Has(p, a + Len(g[k]), ss[m])
            BY <1>2, <3>4, Joined, JoinedAt
        <3>7. a + Len(g[m]) = off[m]
            <4>1. a + Len(g[k]) = off[k]
                BY <3>1
            <4>2. /\ Len(g[m]) = Len(g[k]) + Len(ss[m])
                  /\ Len(g[k]) \in Nat /\ Len(ss[m]) \in Nat
                BY <3>6
            <4> HIDE DEF a, S, Q
            <4>3. a + (Len(g[k]) + Len(ss[m])) = a + Len(g[k]) + Len(ss[m])
                BY ONLY <1>2, <4>2
            <4> QED BY ONLY <3>5, <4>1, <4>2, <4>3
        <3>8. Has(p, a, g[m]) <=>
                  /\ a <= Len(p)
                  /\ \A i \in 1 .. m : Has(p, off[i - 1], ss[i])
            <4>1. Has(p, a, g[m]) <=>
                      Has(p, a, g[k]) /\ Has(p, off[m - 1], ss[m])
                BY <3>1, <3>2, <3>6
            <4> HIDE DEF a
            <4>2. Has(p, a, g[k]) <=>
                      /\ a <= Len(p)
                      /\ \A i \in 1 .. k : Has(p, off[i - 1], ss[i])
                BY <3>1 DEF a
            <4> QED BY <3>3, <4>1, <4>2
        <3> QED BY <3>7, <3>8 DEF m
    <2>3. N \in S
        <3>1. 0 \in S
            <4> HIDE DEF Q
            <4> QED BY <2>1
        <3> HIDE DEF S
        <3> QED BY <2>2, <3>1, Induction
    <2>4. Q(N)
        <3> HIDE DEF Q
        <3> QED BY <2>3
    <2> QED BY <2>4
<1>4. <<>> \in Seq(Byte)
    BY EmptySeq
<1> QED
    BY <1>1, <1>3, <1>4

(* A payload has all the pieces at their places.                           *)
HasAll(p, off, ss, N) == \A i \in 1 .. N : Has(p, off[i - 1], ss[i])

LEMMA PiecesAt ==
    ASSUME NEW N \in Nat, NEW ss \in [1 .. N -> Seq(Byte)], NEW off,
           Offsets(off, ss, N), NEW p \in Seq(Byte)
    PROVE  Has(p, off[0], FlattenSeq(ss)) <=>
               off[0] <= Len(p) /\ HasAll(p, off, ss, N)
BY Pieces DEF HasAll

(* Pieces of one size.                                                     *)
LEMMA EqualPieces ==
    ASSUME NEW N \in Nat, NEW ss \in [1 .. N -> Seq(Byte)],
           NEW size \in {4, 32}, \A i \in 1 .. N : Len(ss[i]) = size
    PROVE  /\ FlattenSeq(ss) \in Seq(Byte)
           /\ Len(FlattenSeq(ss)) = size * N
           /\ \A p \in Seq(Byte), at \in Nat :
                 Has(p, at, FlattenSeq(ss)) <=>
                     /\ at <= Len(p)
                     /\ \A i \in 1 .. N : Has(p, at + (i - 1) * size, ss[i])
<1>1. ASSUME NEW at \in Nat
      PROVE  /\ FlattenSeq(ss) \in Seq(Byte)
             /\ at + Len(FlattenSeq(ss)) = at + size * N
             /\ \A p \in Seq(Byte) :
                   Has(p, at, FlattenSeq(ss)) <=>
                       /\ at <= Len(p)
                       /\ \A i \in 1 .. N :
                             Has(p, at + (i - 1) * size, ss[i])
    <2> DEFINE off == [i \in 0 .. N |-> at + i * size]
    <2>1. off \in [0 .. N -> Nat]
        OBVIOUS
    <2>2. ASSUME NEW i \in 1 .. N PROVE off[i] = off[i - 1] + Len(ss[i])
        <3>1. off[i] = at + i * size /\ off[i - 1] = at + (i - 1) * size
            OBVIOUS
        <3>2. at + i * size = at + (i - 1) * size + size
            OBVIOUS
        <3> HIDE DEF off
        <3> QED BY <3>1, <3>2
    <2>3. off[0] = at /\ off[N] = at + size * N
        OBVIOUS
    <2>4. \A i \in 1 .. N : off[i - 1] = at + (i - 1) * size
        OBVIOUS
    <2> HIDE DEF off
    <2>5. Offsets(off, ss, N)
        BY <2>1, <2>2 DEF Offsets
    <2>6. FlattenSeq(ss) \in Seq(Byte) /\ off[0] + Len(FlattenSeq(ss)) = off[N]
        BY <2>5, Pieces
    <2>7. ASSUME NEW p \in Seq(Byte)
          PROVE  Has(p, at, FlattenSeq(ss)) <=>
                     /\ at <= Len(p)
                     /\ \A i \in 1 .. N : Has(p, at + (i - 1) * size, ss[i])
        <3>1. Has(p, off[0], FlattenSeq(ss)) <=>
                  off[0] <= Len(p) /\ HasAll(p, off, ss, N)
            BY <2>5, PiecesAt
        <3> QED BY <2>3, <2>4, <3>1 DEF HasAll
    <2> QED BY <2>3, <2>6, <2>7
<1>2. FlattenSeq(ss) \in Seq(Byte) /\ 0 + Len(FlattenSeq(ss)) = 0 + size * N
    <2>1. 0 \in Nat
        OBVIOUS
    <2> QED BY <1>1, <2>1
<1>3. Len(FlattenSeq(ss)) \in Nat
    BY <1>2, LenProperties
<1>4. size * N \in Nat
    OBVIOUS
<1>5. Len(FlattenSeq(ss)) = size * N
    BY ONLY <1>2, <1>3, <1>4
<1> QED
    BY <1>1, <1>2, <1>5

(* Numbers of four bytes, one behind the other (put_u32 and put_f32 in a   *)
(* loop).                                                                  *)
Words == 0 .. Word - 1

(* They are texts of four bytes each, one behind the other.                *)
LEMMA WordsJoined ==
    ASSUME NEW numbers \in Seq(Words)
    PROVE  /\ PutAll(4, numbers) \in Seq(Byte)
           /\ Len(numbers) \in Nat
           /\ Len(PutAll(4, numbers)) = 4 * Len(numbers)
           /\ \A p \in Seq(Byte), at \in Nat :
                 Has(p, at, PutAll(4, numbers)) <=>
                     /\ at + 4 * Len(numbers) <= Len(p)
                     /\ GetAll(p, at, 4, Len(numbers)) = numbers
<1> DEFINE N == Len(numbers)
           ss == [i \in 1 .. N |-> Put(4, numbers[i])]
<1>1. N \in Nat /\ \A i \in 1 .. N : numbers[i] \in Words
    BY LenProperties, ElementOfSeq
<1>2. \A n \in Words : n \in Nat /\ Fits(n, 4)
    BY NumbersFit DEF Words
<1>3. \A i \in 1 .. N : ss[i] \in Seq(Byte) /\ Len(ss[i]) = 4
    BY <1>1, <1>2, PutIsBytes
<1>4. ss \in [1 .. N -> Seq(Byte)]
    BY <1>3
<1>5. PutAll(4, numbers) = FlattenSeq(ss)
    BY DEF PutAll
<1>6. /\ FlattenSeq(ss) \in Seq(Byte) /\ Len(FlattenSeq(ss)) = 4 * N
      /\ \A p \in Seq(Byte), at \in Nat :
            Has(p, at, FlattenSeq(ss)) <=>
                /\ at <= Len(p)
                /\ \A i \in 1 .. N : Has(p, at + (i - 1) * 4, ss[i])
    <2> HIDE DEF ss, N
    <2>1. 4 \in {4, 32}
        OBVIOUS
    <2> QED BY <1>1, <1>3, <1>4, <2>1, EqualPieces
<1>7. ASSUME NEW p \in Seq(Byte), NEW at \in Nat
      PROVE  Has(p, at, FlattenSeq(ss)) <=>
                 at + 4 * N <= Len(p) /\ GetAll(p, at, 4, N) = numbers
    <2>1. Len(p) \in Nat
        BY LenProperties
    <2>2. Has(p, at, FlattenSeq(ss)) => at + 4 * N <= Len(p)
        BY <1>6 DEF Has
    <2>3. SUFFICES ASSUME at + 4 * N <= Len(p)
                   PROVE  Has(p, at, FlattenSeq(ss)) <=>
                              GetAll(p, at, 4, N) = numbers
        BY <2>2
    <2>4. ASSUME NEW i \in 1 .. N
          PROVE  Has(p, at + (i - 1) * 4, ss[i]) <=>
                     Get(p, at + (i - 1) * 4, 4) = numbers[i]
        <3> DEFINE k == at + (i - 1) * 4
        <3>1. k \in Nat /\ k + 4 <= Len(p)
            BY <1>1, <2>1, <2>3
        <3> HIDE DEF k
        <3>2. Reaches(p, k, 4)
            BY <3>1 DEF Reaches
        <3>3. Fits(numbers[i], 4)
            BY <1>1, <1>2
        <3>4. Has(p, k, Put(4, numbers[i])) <=> Get(p, k, 4) = numbers[i]
            BY <3>1, <3>2, <3>3, NumberAt
        <3>5. ss[i] = Put(4, numbers[i])
            OBVIOUS
        <3> QED BY <3>4, <3>5 DEF k
    <2>5. at <= Len(p)
        BY <1>1, <2>1, <2>3
    <2>6. GetAll(p, at, 4, N) = numbers <=>
              \A i \in 1 .. N : Get(p, at + (i - 1) * 4, 4) = numbers[i]
        <3>1. numbers = [i \in 1 .. N |-> numbers[i]]
            BY LenProperties
        <3>2. GetAll(p, at, 4, N) =
                  [i \in 1 .. N |-> Get(p, at + (i - 1) * 4, 4)]
            BY DEF GetAll
        <3> HIDE DEF N
        <3> QED BY <3>1, <3>2
    <2> HIDE DEF ss, N
    <2> QED BY <1>6, <2>4, <2>5, <2>6
<1> HIDE DEF ss
<1> QED
    BY <1>1, <1>5, <1>6, <1>7

LEMMA WordsAt ==
    ASSUME NEW numbers \in Seq(Words), NEW p \in Seq(Byte), NEW at \in Nat
    PROVE  Has(p, at, PutAll(4, numbers)) <=>
               /\ at + 4 * Len(numbers) <= Len(p)
               /\ GetAll(p, at, 4, Len(numbers)) = numbers
BY WordsJoined

LEMMA WordsLength ==
    ASSUME NEW numbers \in Seq(Words)
    PROVE  /\ PutAll(4, numbers) \in Seq(Byte)
           /\ Len(numbers) \in Nat
           /\ Len(PutAll(4, numbers)) = 4 * Len(numbers)
BY WordsJoined

---------------------------------------------------------------------------
(* Requests                                                                *)

(* The numbers one by one.                                                 *)
LEMMA EachWordAt ==
    ASSUME NEW numbers \in Seq(Words), NEW p \in Seq(Byte), NEW at \in Nat
    PROVE  Has(p, at, PutAll(4, numbers)) <=>
               /\ at + 4 * Len(numbers) <= Len(p)
               /\ \A i \in 1 .. Len(numbers) :
                     Get(p, at + (i - 1) * 4, 4) = numbers[i]
<1> DEFINE N == Len(numbers)
           got(i) == Get(p, at + (i - 1) * 4, 4)
<1>1. numbers = [i \in 1 .. N |-> numbers[i]]
    BY LenProperties
<1>2. GetAll(p, at, 4, N) = [i \in 1 .. N |-> got(i)]
    BY DEF GetAll
<1>3. Has(p, at, PutAll(4, numbers)) <=>
          at + 4 * N <= Len(p) /\ GetAll(p, at, 4, N) = numbers
    BY WordsAt
<1> HIDE DEF N, got
<1>4. GetAll(p, at, 4, N) = numbers <=> \A i \in 1 .. N : got(i) = numbers[i]
    BY <1>1, <1>2
<1> QED
    BY <1>3, <1>4 DEF N, got

LEMMA FourWords ==
    ASSUME NEW a \in Words, NEW b \in Words, NEW c \in Words, NEW d \in Words
    PROVE  LET w == <<a, b, c, d>>
           IN  /\ PutAll(4, w) \in Seq(Byte) /\ Len(PutAll(4, w)) = 16
<1> DEFINE w == <<a, b, c, d>>
<1>1. /\ w \in Seq(Words) /\ Len(w) = 4
      /\ w[1] = a /\ w[2] = b /\ w[3] = c /\ w[4] = d
    OBVIOUS
<1> HIDE DEF w
<1>2. PutAll(4, w) \in Seq(Byte) /\ Len(PutAll(4, w)) = 16
    <2>1. PutAll(4, w) \in Seq(Byte) /\ Len(PutAll(4, w)) = 4 * Len(w)
        BY <1>1, WordsLength
    <2> QED BY <1>1, <2>1
<1> QED
    BY <1>2 DEF w

LEMMA FourWordsAt ==
    ASSUME NEW a \in Words, NEW b \in Words, NEW c \in Words, NEW d \in Words,
           NEW p \in Seq(Byte), NEW at \in Nat
    PROVE  Has(p, at, PutAll(4, <<a, b, c, d>>)) <=>
               /\ at + 16 <= Len(p)
               /\ Get(p, at, 4) = a /\ Get(p, at + 4, 4) = b
               /\ Get(p, at + 8, 4) = c /\ Get(p, at + 12, 4) = d
<1> DEFINE w == <<a, b, c, d>>
<1>1. /\ w \in Seq(Words) /\ Len(w) = 4
      /\ w[1] = a /\ w[2] = b /\ w[3] = c /\ w[4] = d
    OBVIOUS
<1> HIDE DEF w
<1> DEFINE got(i) == Get(p, at + (i - 1) * 4, 4)
<1>2. Has(p, at, PutAll(4, w)) <=>
          /\ at + 4 * Len(w) <= Len(p)
          /\ \A i \in 1 .. Len(w) : got(i) = w[i]
    BY <1>1, EachWordAt
<1>3. /\ got(1) = Get(p, at, 4) /\ got(2) = Get(p, at + 4, 4)
      /\ got(3) = Get(p, at + 8, 4) /\ got(4) = Get(p, at + 12, 4)
    <2>1. /\ at + (1 - 1) * 4 = at /\ at + (2 - 1) * 4 = at + 4
          /\ at + (3 - 1) * 4 = at + 8 /\ at + (4 - 1) * 4 = at + 12
        OBVIOUS
    <2> QED BY <2>1
<1> HIDE DEF got
<1>4. Has(p, at, PutAll(4, w)) <=>
          at + 16 <= Len(p) /\ \A i \in 1 .. 4 : got(i) = w[i]
    BY <1>1, <1>2
<1>5. 1 .. 4 = {1, 2, 3, 4}
    OBVIOUS
<1> QED BY <1>1, <1>3, <1>4, <1>5 DEF w

LEMMA SixWords ==
    ASSUME NEW a \in Words, NEW b \in Words, NEW c \in Words, NEW d \in Words,
           NEW e \in Words, NEW f \in Words
    PROVE  LET w == <<a, b, c, d, e, f>>
           IN  /\ PutAll(4, w) \in Seq(Byte) /\ Len(PutAll(4, w)) = 24
<1> DEFINE w == <<a, b, c, d, e, f>>
<1>1. /\ w \in Seq(Words) /\ Len(w) = 6
      /\ w[1] = a /\ w[2] = b /\ w[3] = c /\ w[4] = d
      /\ w[5] = e /\ w[6] = f
    OBVIOUS
<1> HIDE DEF w
<1>2. PutAll(4, w) \in Seq(Byte) /\ Len(PutAll(4, w)) = 24
    <2>1. PutAll(4, w) \in Seq(Byte) /\ Len(PutAll(4, w)) = 4 * Len(w)
        BY <1>1, WordsLength
    <2> QED BY <1>1, <2>1
<1> QED
    BY <1>2 DEF w

LEMMA SixWordsAt ==
    ASSUME NEW a \in Words, NEW b \in Words, NEW c \in Words, NEW d \in Words,
           NEW e \in Words, NEW f \in Words,
           NEW p \in Seq(Byte), NEW at \in Nat
    PROVE  Has(p, at, PutAll(4, <<a, b, c, d, e, f>>)) <=>
               /\ at + 24 <= Len(p)
               /\ Get(p, at, 4) = a /\ Get(p, at + 4, 4) = b
               /\ Get(p, at + 8, 4) = c /\ Get(p, at + 12, 4) = d
               /\ Get(p, at + 16, 4) = e /\ Get(p, at + 20, 4) = f
<1> DEFINE w == <<a, b, c, d, e, f>>
<1>1. /\ w \in Seq(Words) /\ Len(w) = 6
      /\ w[1] = a /\ w[2] = b /\ w[3] = c /\ w[4] = d
      /\ w[5] = e /\ w[6] = f
    OBVIOUS
<1> HIDE DEF w
<1> DEFINE got(i) == Get(p, at + (i - 1) * 4, 4)
<1>2. Has(p, at, PutAll(4, w)) <=>
          /\ at + 4 * Len(w) <= Len(p)
          /\ \A i \in 1 .. Len(w) : got(i) = w[i]
    BY <1>1, EachWordAt
<1>3. /\ got(1) = Get(p, at, 4) /\ got(2) = Get(p, at + 4, 4)
      /\ got(3) = Get(p, at + 8, 4) /\ got(4) = Get(p, at + 12, 4)
      /\ got(5) = Get(p, at + 16, 4) /\ got(6) = Get(p, at + 20, 4)
    <2>1. /\ at + (1 - 1) * 4 = at /\ at + (2 - 1) * 4 = at + 4
          /\ at + (3 - 1) * 4 = at + 8 /\ at + (4 - 1) * 4 = at + 12
          /\ at + (5 - 1) * 4 = at + 16 /\ at + (6 - 1) * 4 = at + 20
        OBVIOUS
    <2> QED BY <2>1
<1> HIDE DEF got
<1>4. Has(p, at, PutAll(4, w)) <=>
          at + 24 <= Len(p) /\ \A i \in 1 .. 6 : got(i) = w[i]
    BY <1>1, <1>2
<1>5. 1 .. 6 = {1, 2, 3, 4, 5, 6}
    OBVIOUS
<1> QED BY <1>1, <1>3, <1>4, <1>5 DEF w

(* Values of a uint64_t.                                                   *)
LongWords == 0 .. Word * Word - 1

LEMMA LongLength ==
    ASSUME NEW n \in LongWords
    PROVE  Put(8, n) \in Seq(Byte) /\ Len(Put(8, n)) = 8
<1>1. n \in Nat /\ 8 \in Nat
    BY NumbersFit DEF LongWords
<1> QED
    BY <1>1, PutIsBytes

LEMMA LongAt ==
    ASSUME NEW n \in LongWords, NEW p \in Seq(Byte), NEW at \in Nat
    PROVE  Has(p, at, Put(8, n)) <=> at + 8 <= Len(p) /\ Get(p, at, 8) = n
<1>1. n \in Nat /\ Fits(n, 8) /\ 8 \in Nat
    BY NumbersFit DEF LongWords
<1>2. Has(p, at, Put(8, n)) => at + 8 <= Len(p)
    BY LongLength DEF Has
<1>3. ASSUME at + 8 <= Len(p)
      PROVE  Has(p, at, Put(8, n)) <=> Get(p, at, 8) = n
    <2>1. Reaches(p, at, 8)
        BY <1>3 DEF Reaches
    <2> QED BY <1>1, <2>1, NumberAt
<1> QED
    BY <1>2, <1>3

(* Images and requests whose numbers and sizes have the widths of their    *)
(* fields (protocol.h), whether they are valid or not.                     *)
FittingImages ==
    {image \in [format : Words, width : Words, height : Words,
                channels : Words, stride : Words,
                name : Seq(Byte), data : Seq(Byte)] :
        Len(image.name) \in Words /\ Len(image.data) \in LongWords}

FittingRequests ==
    {r \in [images : Seq(FittingImages), state : Seq(Words),
                  noise : Seq(Words), task : Seq(Byte)] :
        /\ Len(r.images) \in Words /\ Len(r.state) \in Words
        /\ Len(r.noise) \in Words /\ Len(r.task) \in Words}

(* The fields at a place are those of an image.                            *)
Describes(p, at, image) ==
    /\ at + 32 <= Len(p)
    /\ Get(p, at, 4) = image.format
    /\ Get(p, at + 4, 4) = Len(image.name)
    /\ Get(p, at + 8, 4) = image.width
    /\ Get(p, at + 12, 4) = image.height
    /\ Get(p, at + 16, 4) = image.channels
    /\ Get(p, at + 20, 4) = image.stride
    /\ Get(p, at + 24, 8) = Len(image.data)

(* The fields of an image take 32 bytes (ImageFieldsSize).                 *)
LEMMA FieldsLength ==
    ASSUME NEW image \in FittingImages
    PROVE  ImageFields(image) \in Seq(Byte) /\ Len(ImageFields(image)) = 32
<1> DEFINE a == image.format
           b == Len(image.name)
           c == image.width
           d == image.height
           e == image.channels
           f == image.stride
           n == Len(image.data)
           s == PutAll(4, <<a, b, c, d, e, f>>)
           t == Put(8, n)
<1>1. /\ a \in Words /\ b \in Words /\ c \in Words /\ d \in Words
      /\ e \in Words /\ f \in Words /\ n \in LongWords
    BY DEF FittingImages
<1>4. ImageFields(image) = s \o t
    BY DEF ImageFields
<1> HIDE DEF a, b, c, d, e, f, n
<1>2. s \in Seq(Byte) /\ Len(s) = 24
    BY <1>1, SixWords
<1>3. t \in Seq(Byte) /\ Len(t) = 8
    BY <1>1, LongLength
<1> HIDE DEF s, t
<1>5. s \o t \in Seq(Byte) /\ Len(s \o t) = Len(s) + Len(t)
    BY <1>2, <1>3, Joined
<1> QED
    BY <1>2, <1>3, <1>4, <1>5

(* A payload has the fields of an image exactly when they are read of it.  *)
LEMMA FieldsAt ==
    ASSUME NEW image \in FittingImages, NEW p \in Seq(Byte), NEW at \in Nat
    PROVE  Has(p, at, ImageFields(image)) <=> Describes(p, at, image)
<1> DEFINE a == image.format
           b == Len(image.name)
           c == image.width
           d == image.height
           e == image.channels
           f == image.stride
           n == Len(image.data)
           s == PutAll(4, <<a, b, c, d, e, f>>)
           t == Put(8, n)
<1>1. /\ a \in Words /\ b \in Words /\ c \in Words /\ d \in Words
      /\ e \in Words /\ f \in Words /\ n \in LongWords
    BY DEF FittingImages
<1>4. ImageFields(image) = s \o t
    BY DEF ImageFields
<1> HIDE DEF a, b, c, d, e, f, n
<1>2. s \in Seq(Byte) /\ Len(s) = 24
    BY <1>1, SixWords
<1>3. t \in Seq(Byte)
    BY <1>1, LongLength
<1>5. Has(p, at, s) <=>
          /\ at + 24 <= Len(p)
          /\ Get(p, at, 4) = a /\ Get(p, at + 4, 4) = b
          /\ Get(p, at + 8, 4) = c /\ Get(p, at + 12, 4) = d
          /\ Get(p, at + 16, 4) = e /\ Get(p, at + 20, 4) = f
    BY <1>1, SixWordsAt
<1>6. Has(p, at + 24, t) <=> at + 32 <= Len(p) /\ Get(p, at + 24, 8) = n
    <2> DEFINE k == at + 24
    <2>1. k \in Nat /\ k + 8 = at + 32
        OBVIOUS
    <2> HIDE DEF k
    <2>2. Has(p, k, t) <=> k + 8 <= Len(p) /\ Get(p, k, 8) = n
        BY <1>1, <2>1, LongAt
    <2> QED BY <2>1, <2>2 DEF k
<1> HIDE DEF s, t
<1>7. Has(p, at, s \o t) <=> Has(p, at, s) /\ Has(p, at + 24, t)
    <2>1. Has(p, at, s \o t) <=> Has(p, at, s) /\ Has(p, at + Len(s), t)
        BY <1>2, <1>3, JoinedAt
    <2> QED BY <1>2, <2>1
<1>8. at + 32 <= Len(p) => at + 24 <= Len(p)
    BY LenProperties
<1> QED
    BY <1>4, <1>5, <1>6, <1>7, <1>8 DEF Describes, a, b, c, d, e, f, n

(* The fields of all images, and where they are.                           *)
AllFields(images) ==
    FlattenSeq([i \in 1 .. Len(images) |-> ImageFields(images[i])])

LEMMA AllFieldsPieces ==
    ASSUME NEW images \in Seq(FittingImages)
    PROVE  LET N == Len(images)
               ss == [i \in 1 .. N |-> ImageFields(images[i])]
           IN  /\ N \in Nat /\ ss \in [1 .. N -> Seq(Byte)]
               /\ \A i \in 1 .. N : /\ images[i] \in FittingImages
                                    /\ ss[i] = ImageFields(images[i])
                                    /\ Len(ss[i]) = 32
<1>1. /\ Len(images) \in Nat
      /\ \A i \in 1 .. Len(images) : images[i] \in FittingImages
    BY LenProperties, ElementOfSeq
<1> QED
    BY <1>1, FieldsLength

LEMMA AllFieldsLength ==
    ASSUME NEW images \in Seq(FittingImages)
    PROVE  /\ AllFields(images) \in Seq(Byte)
           /\ Len(AllFields(images)) = 32 * Len(images)
<1> DEFINE N == Len(images)
           ss == [i \in 1 .. N |-> ImageFields(images[i])]
<1>1. /\ N \in Nat /\ ss \in [1 .. N -> Seq(Byte)]
      /\ \A i \in 1 .. N : Len(ss[i]) = 32
    BY AllFieldsPieces
<1>2. AllFields(images) = FlattenSeq(ss)
    BY DEF AllFields
<1> HIDE DEF ss, N
<1>3. 32 \in {4, 32}
    OBVIOUS
<1>4. FlattenSeq(ss) \in Seq(Byte) /\ Len(FlattenSeq(ss)) = 32 * N
    BY <1>1, <1>3, EqualPieces
<1> QED
    BY <1>2, <1>4 DEF N

LEMMA AllFieldsAt ==
    ASSUME NEW images \in Seq(FittingImages),
           NEW p \in Seq(Byte), NEW at \in Nat
    PROVE  Has(p, at, AllFields(images)) <=>
               /\ at <= Len(p)
               /\ \A i \in 1 .. Len(images) :
                     Describes(p, at + (i - 1) * 32, images[i])
<1> DEFINE N == Len(images)
           ss == [i \in 1 .. N |-> ImageFields(images[i])]
<1>1. /\ N \in Nat /\ ss \in [1 .. N -> Seq(Byte)]
      /\ \A i \in 1 .. N : /\ images[i] \in FittingImages
                           /\ ss[i] = ImageFields(images[i])
                           /\ Len(ss[i]) = 32
    BY AllFieldsPieces
<1>2. AllFields(images) = FlattenSeq(ss)
    BY DEF AllFields
<1> HIDE DEF ss
<1>3. ASSUME NEW i \in 1 .. N
      PROVE  Has(p, at + (i - 1) * 32, ss[i]) <=>
                 Describes(p, at + (i - 1) * 32, images[i])
    <2> DEFINE k == at + (i - 1) * 32
    <2>1. k \in Nat
        BY <1>1
    <2> HIDE DEF k
    <2>2. Has(p, k, ImageFields(images[i])) <=> Describes(p, k, images[i])
        BY <1>1, <2>1, FieldsAt
    <2> QED BY <1>1, <2>2 DEF k
<1>4. Has(p, at, FlattenSeq(ss)) <=>
          /\ at <= Len(p)
          /\ \A i \in 1 .. N : Has(p, at + (i - 1) * 32, ss[i])
    <2>1. 32 \in {4, 32}
        OBVIOUS
    <2> HIDE DEF N
    <2> QED BY <1>1, <2>1, EqualPieces
<1> QED
    BY <1>2, <1>3, <1>4

---------------------------------------------------------------------------
(* The parts of a request                                                  *)

(* The six parts of a request and where they are.                          *)
LEMMA SixParts ==
    ASSUME NEW a \in Seq(Byte), NEW b \in Seq(Byte), NEW c \in Seq(Byte),
           NEW d \in Seq(Byte), NEW e \in Seq(Byte), NEW f \in Seq(Byte)
    PROVE  /\ a \o b \o c \o d \o e \o f \in Seq(Byte)
           /\ Len(a \o b \o c \o d \o e \o f)
                 = Len(a) + Len(b) + Len(c) + Len(d) + Len(e) + Len(f)
<1>1. /\ a \o b \in Seq(Byte) /\ Len(a \o b) = Len(a) + Len(b)
    BY Joined
<1>2. /\ a \o b \o c \in Seq(Byte)
      /\ Len(a \o b \o c) = Len(a \o b) + Len(c)
    BY <1>1, Joined
<1>3. /\ a \o b \o c \o d \in Seq(Byte)
      /\ Len(a \o b \o c \o d) = Len(a \o b \o c) + Len(d)
    BY <1>2, Joined
<1>4. /\ a \o b \o c \o d \o e \in Seq(Byte)
      /\ Len(a \o b \o c \o d \o e) = Len(a \o b \o c \o d) + Len(e)
    BY <1>3, Joined
<1>5. /\ a \o b \o c \o d \o e \o f \in Seq(Byte)
      /\ Len(a \o b \o c \o d \o e \o f)
            = Len(a \o b \o c \o d \o e) + Len(f)
    BY <1>4, Joined
<1> QED
    BY <1>1, <1>2, <1>3, <1>4, <1>5

(* One more part behind those that are there.                              *)
LEMMA OneMoreAt ==
    ASSUME NEW s \in Seq(Byte), NEW t \in Seq(Byte), NEW n \in Nat,
           Len(s) = n, NEW p \in Seq(Byte)
    PROVE  /\ s \o t \in Seq(Byte)
           /\ Len(s \o t) = n + Len(t)
           /\ n + Len(t) \in Nat
           /\ Has(p, 0, s \o t) <=> Has(p, 0, s) /\ Has(p, n, t)
<1>1. 0 \in Nat /\ 0 + n = n
    OBVIOUS
<1>2. Has(p, 0, s \o t) <=> Has(p, 0, s) /\ Has(p, 0 + Len(s), t)
    BY <1>1, JoinedAt
<1>3. /\ s \o t \in Seq(Byte) /\ Len(t) \in Nat
      /\ Len(s \o t) = Len(s) + Len(t)
    BY Joined
<1> QED
    BY <1>1, <1>2, <1>3

LEMMA SixPartsAt ==
    ASSUME NEW a \in Seq(Byte), NEW b \in Seq(Byte), NEW c \in Seq(Byte),
           NEW d \in Seq(Byte), NEW e \in Seq(Byte), NEW f \in Seq(Byte),
           NEW p \in Seq(Byte)
    PROVE  Has(p, 0, a \o b \o c \o d \o e \o f) <=>
               /\ Has(p, 0, a)
               /\ Has(p, Len(a), b)
               /\ Has(p, Len(a) + Len(b), c)
               /\ Has(p, Len(a) + Len(b) + Len(c), d)
               /\ Has(p, Len(a) + Len(b) + Len(c) + Len(d), e)
               /\ Has(p, Len(a) + Len(b) + Len(c) + Len(d) + Len(e), f)
<1> DEFINE ab == a \o b
           abc == ab \o c
           abcd == abc \o d
           abcde == abcd \o e
           n1 == Len(a)
           n2 == n1 + Len(b)
           n3 == n2 + Len(c)
           n4 == n3 + Len(d)
           n5 == n4 + Len(e)
<1>1. n1 \in Nat /\ Len(a) = n1
    BY LenProperties
<1> HIDE DEF n1
<1>2. /\ ab \in Seq(Byte) /\ Len(ab) = n2 /\ n2 \in Nat
      /\ Has(p, 0, ab) <=> Has(p, 0, a) /\ Has(p, n1, b)
    BY <1>1, OneMoreAt
<1> HIDE DEF ab, n2
<1>3. /\ abc \in Seq(Byte) /\ Len(abc) = n3 /\ n3 \in Nat
      /\ Has(p, 0, abc) <=> Has(p, 0, ab) /\ Has(p, n2, c)
    BY <1>2, OneMoreAt
<1> HIDE DEF abc, n3
<1>4. /\ abcd \in Seq(Byte) /\ Len(abcd) = n4 /\ n4 \in Nat
      /\ Has(p, 0, abcd) <=> Has(p, 0, abc) /\ Has(p, n3, d)
    BY <1>3, OneMoreAt
<1> HIDE DEF abcd, n4
<1>5. /\ abcde \in Seq(Byte) /\ Len(abcde) = n5 /\ n5 \in Nat
      /\ Has(p, 0, abcde) <=> Has(p, 0, abcd) /\ Has(p, n4, e)
    BY <1>4, OneMoreAt
<1> HIDE DEF abcde, n5
<1>6. Has(p, 0, abcde \o f) <=> Has(p, 0, abcde) /\ Has(p, n5, f)
    BY <1>5, OneMoreAt
<1>7. abcde \o f = a \o b \o c \o d \o e \o f
    BY DEF ab, abc, abcd, abcde
<1>8. Has(p, 0, abcde \o f) <=>
          /\ Has(p, 0, a) /\ Has(p, n1, b) /\ Has(p, n2, c)
          /\ Has(p, n3, d) /\ Has(p, n4, e) /\ Has(p, n5, f)
    BY ONLY <1>2, <1>3, <1>4, <1>5, <1>6
<1> QED
    BY <1>7, <1>8 DEF n1, n2, n3, n4, n5

---------------------------------------------------------------------------
(* The images of a request                                                 *)

(* Where the names and the data of the images are.                         *)
ImagePlaces(off, p, N) ==
    /\ off \in [0 .. N -> Nat]
    /\ off[0] = TaskAt(p) + TaskLength(p)
    /\ \A k \in 1 .. N : off[k] = off[k - 1] + ImageField(p, k, 2)
                                             + ImageField(p, k, 7)
    /\ \A k \in 0 .. N : ImageAt(p, k + 1) = off[k]

LEMMA ImagePlacesExist ==
    ASSUME NEW p, NEW N \in Nat, TaskAt(p) + TaskLength(p) \in Nat,
           \A k \in 1 .. N : /\ ImageField(p, k, 2) \in Nat
                             /\ ImageField(p, k, 7) \in Nat
    PROVE  \E off : ImagePlaces(off, p, N)
<1> DEFINE first == TaskAt(p) + TaskLength(p)
           name(k) == ImageField(p, k, 2)
           data(k) == ImageField(p, k, 7)
           step == [k \in 1 .. N |-> [m \in Nat |-> m + name(k) + data(k)]]
<1>0. first \in Nat /\ \A k \in 1 .. N : name(k) \in Nat /\ data(k) \in Nat
    OBVIOUS
<1> HIDE DEF first, name, data
<1>1. step \in [1 .. N -> [Nat -> Nat]]
    BY <1>0
<1>2. \A k \in 1 .. N : \A m \in Nat : step[k][m] = m + name(k) + data(k)
    OBVIOUS
<1> HIDE DEF step
<1>3. PICK off \in [0 .. N -> Nat] : Iterates(off, first, step, N)
    BY <1>0, <1>1, Iteration
<1>4. /\ off[0] = first
      /\ \A k \in 1 .. N : off[k] = off[k - 1] + name(k) + data(k)
    <2>1. \A k \in 1 .. N : off[k - 1] \in Nat
        OBVIOUS
    <2> QED BY <1>2, <1>3, <2>1 DEF Iterates
<1>5. ASSUME NEW k \in 0 .. N
      PROVE  ImageAt(p, k + 1) = off[k]
    <2> DEFINE Is(f) == f = [j \in 1 .. k + 1 |->
                                IF j = 1 THEN first
                                ELSE f[j - 1] + name(j - 1) + data(j - 1)]
               at == CHOOSE f : Is(f)
               h == [j \in 1 .. k + 1 |-> off[j - 1]]
    <2>1. Is(h)
        <3>1. ASSUME NEW j \in 1 .. k + 1
              PROVE  h[j] = IF j = 1 THEN first
                            ELSE h[j - 1] + name(j - 1) + data(j - 1)
            <4>1. CASE j = 1
                BY <1>4, <4>1
            <4>2. CASE j # 1
                <5> DEFINE i == j - 1
                <5>1. i \in 1 .. N /\ i \in 1 .. k + 1
                    BY <4>2
                <5>2. h[j] = off[i] /\ h[i] = off[i - 1]
                    BY <5>1
                <5> HIDE DEF i, h
                <5>3. off[i] = off[i - 1] + name(i) + data(i)
                    BY <1>4, <5>1
                <5>4. h[j] = h[i] + name(i) + data(i)
                    BY <5>2, <5>3
                <5> QED BY <4>2, <5>4 DEF i
            <4> QED BY <4>1, <4>2
        <3> QED BY <3>1
    <2>2. Is(at)
        <3> HIDE DEF Is
        <3> QED BY <2>1
    <2>3. \A j \in Nat : j <= k => at[j + 1] = off[j]
        <3> HIDE DEF at
        <3> DEFINE S == {j \in Nat : j <= k => at[j + 1] = off[j]}
        <3>1. 0 \in S
            BY <1>4, <2>2
        <3>2. ASSUME NEW j \in Nat, j \in S
              PROVE  j + 1 \in S
            <4> SUFFICES ASSUME j + 1 <= k PROVE at[j + 1 + 1] = off[j + 1]
                OBVIOUS
            <4> DEFINE i == j + 1
                       m == i + 1
            <4>1. /\ i \in 1 .. N /\ i - 1 = j
                  /\ m \in 1 .. k + 1 /\ m # 1 /\ m - 1 = i
                OBVIOUS
            <4>2. at[i] = off[i - 1]
                BY <3>2
            <4> HIDE DEF i, m
            <4>3. at[m] = at[i] + name(i) + data(i)
                BY <2>2, <4>1
            <4>4. off[i] = off[i - 1] + name(i) + data(i)
                BY <1>4, <4>1
            <4>5. at[m] = off[i]
                BY <4>2, <4>3, <4>4
            <4> QED BY <4>5 DEF i, m
        <3>3. \A j \in Nat : j \in S
            <4> HIDE DEF S
            <4> QED BY <3>1, <3>2, Induction
        <3> QED BY <3>3
    <2>4. ImageAt(p, k + 1) = at[k + 1]
        BY DEF ImageAt, first, name, data
    <2> HIDE DEF at
    <2> QED BY <2>3, <2>4
<1> QED
    BY <1>4, <1>5 DEF ImagePlaces, first, name, data

(* The fields that go before an image are those that are read.             *)
Fields(p, images) ==
    \A i \in 1 .. Len(images) : Describes(p, 16 + (i - 1) * 32, images[i])

LEMMA FieldOf ==
    ASSUME NEW images, NEW p, Fields(p, images), NEW i \in 1 .. Len(images),
           Len(images) \in Nat
    PROVE  /\ ImageField(p, i, 1) = images[i].format
           /\ ImageField(p, i, 2) = Len(images[i].name)
           /\ ImageField(p, i, 3) = images[i].width
           /\ ImageField(p, i, 4) = images[i].height
           /\ ImageField(p, i, 5) = images[i].channels
           /\ ImageField(p, i, 6) = images[i].stride
           /\ ImageField(p, i, 7) = Len(images[i].data)
<1> DEFINE at == 16 + (i - 1) * 32
<1>1. Describes(p, at, images[i]) /\ at \in Nat
    BY DEF Fields
<1>2. /\ ImageField(p, i, 1) = Get(p, at + 4 * (1 - 1), 4)
      /\ ImageField(p, i, 2) = Get(p, at + 4 * (2 - 1), 4)
      /\ ImageField(p, i, 3) = Get(p, at + 4 * (3 - 1), 4)
      /\ ImageField(p, i, 4) = Get(p, at + 4 * (4 - 1), 4)
      /\ ImageField(p, i, 5) = Get(p, at + 4 * (5 - 1), 4)
      /\ ImageField(p, i, 6) = Get(p, at + 4 * (6 - 1), 4)
      /\ ImageField(p, i, 7) = Get(p, at + 4 * (7 - 1), 8)
    BY DEF ImageField, RequestFixed, ImageFieldsSize
<1> HIDE DEF at
<1>3. /\ at + 4 * (1 - 1) = at
      /\ at + 4 * (2 - 1) = at + 4
      /\ at + 4 * (3 - 1) = at + 8
      /\ at + 4 * (4 - 1) = at + 12
      /\ at + 4 * (5 - 1) = at + 16
      /\ at + 4 * (6 - 1) = at + 20
      /\ at + 4 * (7 - 1) = at + 24
    BY <1>1
<1> QED
    BY <1>1, <1>2, <1>3 DEF Describes

(* The names and the data of the images.                                   *)
AllImages(images) ==
    FlattenSeq([i \in 1 .. Len(images) |-> ImageBytes(images[i])])

Images(p, images) ==
    \A i \in 1 .. Len(images) :
        /\ Has(p, ImageAt(p, i), images[i].name)
        /\ Has(p, ImageAt(p, i) + Len(images[i].name), images[i].data)

ImagesStart(p) == TaskAt(p) + TaskLength(p)

LEMMA AllImagesPieces ==
    ASSUME NEW images \in Seq(FittingImages)
    PROVE  LET N == Len(images)
               ss == [i \in 1 .. N |-> ImageBytes(images[i])]
           IN  /\ N \in Nat /\ ss \in [1 .. N -> Seq(Byte)]
               /\ \A i \in 1 .. N :
                     /\ images[i] \in FittingImages
                     /\ images[i].name \in Seq(Byte)
                     /\ images[i].data \in Seq(Byte)
                     /\ Len(images[i].name) \in Nat
                     /\ Len(images[i].data) \in Nat
                     /\ ss[i] = images[i].name \o images[i].data
                     /\ Len(ss[i]) = Len(images[i].name)
                                         + Len(images[i].data)
<1> DEFINE N == Len(images)
           ss == [i \in 1 .. N |-> ImageBytes(images[i])]
<1>1. /\ N \in Nat
      /\ \A i \in 1 .. N : images[i] \in FittingImages
    BY LenProperties, ElementOfSeq
<1>2. ASSUME NEW i \in 1 .. N
      PROVE  /\ images[i].name \in Seq(Byte)
             /\ images[i].data \in Seq(Byte)
             /\ Len(images[i].name) \in Nat
             /\ Len(images[i].data) \in Nat
             /\ ss[i] = images[i].name \o images[i].data
             /\ ss[i] \in Seq(Byte)
             /\ Len(ss[i]) = Len(images[i].name) + Len(images[i].data)
    <2> DEFINE s == images[i].name
               t == images[i].data
    <2>1. s \in Seq(Byte) /\ t \in Seq(Byte)
        BY <1>1 DEF FittingImages
    <2>2. ss[i] = s \o t
        BY DEF ImageBytes
    <2> HIDE DEF s, t, ss
    <2>3. /\ s \o t \in Seq(Byte) /\ Len(s \o t) = Len(s) + Len(t)
          /\ Len(s) \in Nat /\ Len(t) \in Nat
        BY <2>1, Joined
    <2> QED BY <2>1, <2>2, <2>3 DEF s, t
<1>3. ss \in [1 .. N -> Seq(Byte)]
    <2>1. \A i \in 1 .. N : ss[i] \in Seq(Byte)
        BY <1>2
    <2> QED BY <2>1
<1> QED
    BY <1>1, <1>2, <1>3

LEMMA AllImagesAt ==
    ASSUME NEW images \in Seq(FittingImages), NEW p \in Seq(Byte),
           Fields(p, images), ImagesStart(p) \in Nat
    PROVE  /\ AllImages(images) \in Seq(Byte)
           /\ ImagesStart(p) + Len(AllImages(images))
                 = ImageAt(p, Len(images) + 1)
           /\ Has(p, ImagesStart(p), AllImages(images)) <=>
                 ImagesStart(p) <= Len(p) /\ Images(p, images)
<1> DEFINE N == Len(images)
           ss == [i \in 1 .. N |-> ImageBytes(images[i])]
           first == ImagesStart(p)
<1>1. /\ N \in Nat /\ ss \in [1 .. N -> Seq(Byte)]
      /\ \A i \in 1 .. N :
            /\ images[i].name \in Seq(Byte)
            /\ images[i].data \in Seq(Byte)
            /\ Len(images[i].name) \in Nat
            /\ Len(images[i].data) \in Nat
            /\ ss[i] = images[i].name \o images[i].data
            /\ Len(ss[i]) = Len(images[i].name) + Len(images[i].data)
    BY AllImagesPieces
<1>2. AllImages(images) = FlattenSeq(ss)
    BY DEF AllImages
<1> HIDE DEF ss
<1>3. \A i \in 1 .. N : /\ ImageField(p, i, 2) = Len(images[i].name)
                        /\ ImageField(p, i, 7) = Len(images[i].data)
    BY <1>1, FieldOf
<1>4. PICK off : ImagePlaces(off, p, N)
    <2>1. TaskAt(p) + TaskLength(p) \in Nat
        BY DEF ImagesStart
    <2>2. \A k \in 1 .. N : /\ ImageField(p, k, 2) \in Nat
                            /\ ImageField(p, k, 7) \in Nat
        BY <1>1, <1>3
    <2> QED BY <1>1, <2>1, <2>2, ImagePlacesExist
<1>5. /\ off \in [0 .. N -> Nat] /\ off[0] = first
      /\ off[N] = ImageAt(p, N + 1)
    BY <1>1, <1>4 DEF ImagePlaces, ImagesStart
<1>6. Offsets(off, ss, N)
    <2>1. ASSUME NEW k \in 1 .. N
          PROVE  off[k] = off[k - 1] + Len(ss[k])
        <3> DEFINE a == off[k - 1]
                   m == Len(images[k].name)
                   n == Len(images[k].data)
        <3>1. a \in Nat /\ m \in Nat /\ n \in Nat
            <4>1. k - 1 \in 0 .. N
                BY <1>1
            <4> QED BY <1>1, <1>5, <4>1
        <3>2. off[k] = a + m + n
            BY <1>3, <1>4 DEF ImagePlaces
        <3>3. Len(ss[k]) = m + n
            BY <1>1
        <3> HIDE DEF a, m, n
        <3>4. a + m + n = a + (m + n)
            BY <3>1
        <3> QED BY <3>2, <3>3, <3>4 DEF a
    <2> QED BY <1>5, <2>1 DEF Offsets
<1>7. ASSUME NEW i \in 1 .. N
      PROVE  /\ off[i - 1] = ImageAt(p, i)
             /\ off[i - 1] \in Nat
    <2> DEFINE k == i - 1
    <2>1. k \in 0 .. N /\ k + 1 = i
        BY <1>1
    <2> HIDE DEF k
    <2>2. ImageAt(p, k + 1) = off[k] /\ off[k] \in Nat
        BY <1>4, <2>1 DEF ImagePlaces
    <2> QED BY <2>1, <2>2 DEF k
<1>8. ASSUME NEW i \in 1 .. N
      PROVE  Has(p, off[i - 1], ss[i]) <=>
                 /\ Has(p, ImageAt(p, i), images[i].name)
                 /\ Has(p, ImageAt(p, i) + Len(images[i].name),
                        images[i].data)
    <2> DEFINE s == images[i].name
               t == images[i].data
               at == ImageAt(p, i)
    <2>1. s \in Seq(Byte) /\ t \in Seq(Byte) /\ ss[i] = s \o t /\ at \in Nat
        BY <1>1, <1>7
    <2> HIDE DEF s, t, at
    <2>2. Has(p, at, s \o t) <=> Has(p, at, s) /\ Has(p, at + Len(s), t)
        BY <2>1, JoinedAt
    <2> QED BY <1>7, <2>1, <2>2 DEF s, t, at
<1>9. HasAll(p, off, ss, N) <=> Images(p, images)
    <2> QED BY <1>8 DEF HasAll, Images
<1> HIDE DEF N
<1>10. FlattenSeq(ss) \in Seq(Byte) /\ off[0] + Len(FlattenSeq(ss)) = off[N]
    BY <1>1, <1>6, Pieces
<1>11. Has(p, off[0], FlattenSeq(ss)) <=>
           off[0] <= Len(p) /\ HasAll(p, off, ss, N)
    BY <1>1, <1>6, PiecesAt
<1> QED
    BY <1>2, <1>5, <1>9, <1>10, <1>11 DEF N

---------------------------------------------------------------------------
(* A payload that encodes a request                                        *)

(* What is in a payload that is the encoding of a request.                 *)
Counts(p, r) ==
    /\ 16 <= Len(p)
    /\ ImageCount(p) = Len(r.images) /\ StateDim(p) = Len(r.state)
    /\ NoiseDim(p) = Len(r.noise) /\ TaskLength(p) = Len(r.task)

NumbersAt(p, at, numbers) ==
    /\ at + 4 * Len(numbers) <= Len(p)
    /\ GetAll(p, at, 4, Len(numbers)) = numbers

Holds(p, r) ==
    /\ Counts(p, r)
    /\ Fields(p, r.images)
    /\ NumbersAt(p, StateAt(p), r.state)
    /\ NumbersAt(p, NoiseAt(p), r.noise)
    /\ Has(p, TaskAt(p), r.task)
    /\ Images(p, r.images)
    /\ ImageAt(p, Len(r.images) + 1) = Len(p)

(* The parts of a request.                                                 *)
LEMMA FittingParts ==
    ASSUME NEW r \in FittingRequests
    PROVE  /\ r.images \in Seq(FittingImages)
           /\ r.state \in Seq(Words) /\ r.noise \in Seq(Words)
           /\ r.task \in Seq(Byte)
           /\ Len(r.images) \in Words /\ Len(r.state) \in Words
           /\ Len(r.noise) \in Words /\ Len(r.task) \in Words
           /\ Len(r.images) \in Nat /\ Len(r.state) \in Nat
           /\ Len(r.noise) \in Nat /\ Len(r.task) \in Nat
<1>1. \A n \in Words : n \in Nat
    BY NumbersFit DEF Words
<1> QED
    BY <1>1 DEF FittingRequests

(* The four counts that a request begins with.                             *)
LEMMA HeaderAt ==
    ASSUME NEW r \in FittingRequests, NEW p \in Seq(Byte)
    PROVE  LET header == PutAll(4, <<Len(r.images), Len(r.state),
                                     Len(r.noise), Len(r.task)>>)
           IN  /\ header \in Seq(Byte) /\ Len(header) = 16
               /\ Has(p, 0, header) <=> Counts(p, r)
<1> DEFINE a == Len(r.images)
           b == Len(r.state)
           c == Len(r.noise)
           d == Len(r.task)
           header == PutAll(4, <<a, b, c, d>>)
<1>1. a \in Words /\ b \in Words /\ c \in Words /\ d \in Words
    BY FittingParts
<1> HIDE DEF a, b, c, d
<1>2. header \in Seq(Byte) /\ Len(header) = 16
    BY <1>1, FourWords
<1>3. Has(p, 0, header) <=>
          /\ 0 + 16 <= Len(p)
          /\ Get(p, 0, 4) = a /\ Get(p, 0 + 4, 4) = b
          /\ Get(p, 0 + 8, 4) = c /\ Get(p, 0 + 12, 4) = d
    BY <1>1, FourWordsAt
<1>4. 0 + 16 = 16 /\ 0 + 4 = 4 /\ 0 + 8 = 8 /\ 0 + 12 = 12
    OBVIOUS
<1>5. Has(p, 0, header) <=> Counts(p, r)
    BY <1>3, <1>4
       DEF Counts, ImageCount, StateDim, NoiseDim, TaskLength, a, b, c, d
<1> QED
    BY <1>2, <1>5 DEF a, b, c, d

(* Where the decoder looks for a section is where the encoder put it.      *)
LEMMA SectionsAt ==
    ASSUME NEW r \in FittingRequests, NEW p, Counts(p, r)
    PROVE  /\ StateAt(p) = 16 + 32 * Len(r.images)
           /\ NoiseAt(p) = StateAt(p) + 4 * Len(r.state)
           /\ TaskAt(p) = NoiseAt(p) + 4 * Len(r.noise)
           /\ ImagesStart(p) = TaskAt(p) + Len(r.task)
           /\ StateAt(p) \in Nat /\ NoiseAt(p) \in Nat
           /\ TaskAt(p) \in Nat /\ ImagesStart(p) \in Nat
<1> DEFINE a == Len(r.images)
           b == Len(r.state)
           c == Len(r.noise)
           d == Len(r.task)
<1>1. a \in Nat /\ b \in Nat /\ c \in Nat /\ d \in Nat
    BY FittingParts
<1>2. /\ StateAt(p) = 16 + a * 32
      /\ NoiseAt(p) = StateAt(p) + 4 * b
      /\ TaskAt(p) = NoiseAt(p) + 4 * c
      /\ ImagesStart(p) = TaskAt(p) + d
    BY DEF Counts, StateAt, NoiseAt, TaskAt, ImagesStart, RequestFixed,
           ImageFieldsSize
<1> HIDE DEF a, b, c, d
<1> DEFINE sa == StateAt(p)
           na == NoiseAt(p)
           ta == TaskAt(p)
           ia == ImagesStart(p)
<1>3. sa = 16 + a * 32 /\ na = sa + 4 * b /\ ta = na + 4 * c /\ ia = ta + d
    BY <1>2
<1> HIDE DEF sa, na, ta, ia
<1>4. /\ sa = 16 + 32 * a
      /\ sa \in Nat /\ na \in Nat /\ ta \in Nat /\ ia \in Nat
    BY <1>1, <1>3
<1> QED
    BY <1>3, <1>4 DEF a, b, c, d, sa, na, ta, ia

(* What encode_predict_request puts one behind the other.                  *)
LEMMA RequestBytesAre ==
    ASSUME NEW r
    PROVE  RequestBytes(r) =
               PutAll(4, <<Len(r.images), Len(r.state),
                           Len(r.noise), Len(r.task)>>)
                   \o AllFields(r.images) \o PutAll(4, r.state)
                   \o PutAll(4, r.noise) \o r.task \o AllImages(r.images)
BY DEF RequestBytes, AllFields, AllImages

LEMMA AllImagesAreBytes ==
    ASSUME NEW images \in Seq(FittingImages)
    PROVE  AllImages(images) \in Seq(Byte)
<1> DEFINE N == Len(images)
           ss == [i \in 1 .. N |-> ImageBytes(images[i])]
<1>1. N \in Nat /\ ss \in [1 .. N -> Seq(Byte)]
    BY AllImagesPieces
<1>2. AllImages(images) = FlattenSeq(ss)
    BY DEF AllImages
<1> HIDE DEF N, ss
<1>3. PICK g \in [0 .. N -> Seq(Byte)] :
          Joins(g, ss, N) /\ FlattenSeq(ss) = g[N]
    BY <1>1, FlattenIs
<1> QED
    BY <1>1, <1>2, <1>3

(* A payload is the encoding of a request exactly when it holds its parts. *)
LEMMA RequestLayout ==
    ASSUME NEW r \in FittingRequests, NEW p \in Seq(Byte)
    PROVE  p = RequestBytes(r) <=> Holds(p, r)
<1> DEFINE a == PutAll(4, <<Len(r.images), Len(r.state),
                            Len(r.noise), Len(r.task)>>)
           b == AllFields(r.images)
           c == PutAll(4, r.state)
           d == PutAll(4, r.noise)
           e == r.task
           f == AllImages(r.images)
           x == Len(r.images)
           y == Len(r.state)
           z == Len(r.noise)
<1>1. /\ r.images \in Seq(FittingImages)
      /\ r.state \in Seq(Words) /\ r.noise \in Seq(Words)
      /\ e \in Seq(Byte)
      /\ x \in Nat /\ y \in Nat /\ z \in Nat /\ Len(e) \in Nat
      /\ Len(p) \in Nat
    BY FittingParts, LenProperties
<1>2. RequestBytes(r) = a \o b \o c \o d \o e \o f
    BY RequestBytesAre
<1>3. /\ a \in Seq(Byte) /\ Len(a) = 16
      /\ Has(p, 0, a) <=> Counts(p, r)
    BY HeaderAt
<1>4. /\ b \in Seq(Byte) /\ Len(b) = 32 * x
      /\ Has(p, 16, b) <=> 16 <= Len(p) /\ Fields(p, r.images)
    <2>1. 16 \in Nat
        OBVIOUS
    <2>2. b \in Seq(Byte) /\ Len(b) = 32 * x
        BY <1>1, AllFieldsLength
    <2>3. Has(p, 16, b) <=>
              /\ 16 <= Len(p)
              /\ \A i \in 1 .. Len(r.images) :
                    Describes(p, 16 + (i - 1) * 32, r.images[i])
        BY <1>1, <2>1, AllFieldsAt
    <2> QED BY <2>2, <2>3 DEF Fields
<1>5. /\ c \in Seq(Byte) /\ Len(c) = 4 * y
      /\ d \in Seq(Byte) /\ Len(d) = 4 * z
    BY <1>1, WordsLength
<1>6. /\ f \in Seq(Byte)
      /\ Len(f) \in Nat
    BY <1>1, AllImagesAreBytes, LenProperties
<1> DEFINE sa == StateAt(p)
           na == NoiseAt(p)
           ta == TaskAt(p)
           ia == ImagesStart(p)
           n == Len(e)
<1>7. ASSUME Counts(p, r)
      PROVE  /\ sa = 16 + 32 * x /\ na = sa + 4 * y /\ ta = na + 4 * z
             /\ ia = ta + n
             /\ sa \in Nat /\ na \in Nat /\ ta \in Nat /\ ia \in Nat
    BY <1>7, SectionsAt
<1>8. ASSUME Counts(p, r), Fields(p, r.images)
      PROVE  /\ ia + Len(f) = ImageAt(p, x + 1)
             /\ Has(p, ia, f) <=> ia <= Len(p) /\ Images(p, r.images)
    BY <1>1, <1>7, <1>8, AllImagesAt
<1>9. ASSUME Counts(p, r)
      PROVE  /\ Has(p, sa, c) <=> NumbersAt(p, sa, r.state)
             /\ Has(p, na, d) <=> NumbersAt(p, na, r.noise)
    BY <1>1, <1>7, <1>9, WordsAt DEF NumbersAt
<1>10. Has(p, ta, e) => ta + n <= Len(p)
    BY DEF Has
<1>11. Has(p, 0, a \o b \o c \o d \o e \o f) <=>
           /\ Has(p, 0, a)
           /\ Has(p, Len(a), b)
           /\ Has(p, Len(a) + Len(b), c)
           /\ Has(p, Len(a) + Len(b) + Len(c), d)
           /\ Has(p, Len(a) + Len(b) + Len(c) + Len(d), e)
           /\ Has(p, Len(a) + Len(b) + Len(c) + Len(d) + Len(e), f)
    <2> HIDE DEF a, b, c, d, e, f
    <2> QED BY <1>1, <1>3, <1>4, <1>5, <1>6, SixPartsAt, ZenonT(60)
<1>12. /\ a \o b \o c \o d \o e \o f \in Seq(Byte)
       /\ Len(a \o b \o c \o d \o e \o f)
              = Len(a) + Len(b) + Len(c) + Len(d) + Len(e) + Len(f)
    <2> HIDE DEF a, b, c, d, e, f
    <2>1. /\ a \in Seq(Byte) /\ b \in Seq(Byte) /\ c \in Seq(Byte)
          /\ d \in Seq(Byte) /\ e \in Seq(Byte) /\ f \in Seq(Byte)
        BY <1>1, <1>3, <1>4, <1>5, <1>6
    <2> QED BY <2>1, SixParts
<1>13. p = RequestBytes(r) <=>
           /\ Has(p, 0, a \o b \o c \o d \o e \o f)
           /\ Len(p) = Len(a \o b \o c \o d \o e \o f)
    BY <1>2, <1>12, WholeText
<1>14. Holds(p, r) <=>
           /\ Counts(p, r) /\ Fields(p, r.images)
           /\ NumbersAt(p, sa, r.state) /\ NumbersAt(p, na, r.noise)
           /\ Has(p, ta, e) /\ Images(p, r.images)
           /\ ImageAt(p, x + 1) = Len(p)
    BY DEF Holds
<1>15. Counts(p, r) => 16 <= Len(p)
    BY DEF Counts
<1> HIDE DEF a, b, c, d, e, f, x, y, z, sa, na, ta, ia, n
<1>16. ASSUME Counts(p, r)
       PROVE  /\ Len(a) = 16 /\ Len(a) + Len(b) = sa
              /\ Len(a) + Len(b) + Len(c) = na
              /\ Len(a) + Len(b) + Len(c) + Len(d) = ta
              /\ Len(a) + Len(b) + Len(c) + Len(d) + Len(e) = ia
              /\ Len(a) + Len(b) + Len(c) + Len(d) + Len(e) + Len(f)
                    = ia + Len(f)
    BY <1>3, <1>4, <1>5, <1>7, <1>16 DEF n
<1>17. ASSUME Counts(p, r)
       PROVE  p = RequestBytes(r) <=> Holds(p, r)
    <2>1. p = RequestBytes(r) <=>
              /\ Has(p, 16, b) /\ Has(p, sa, c)
              /\ Has(p, na, d) /\ Has(p, ta, e) /\ Has(p, ia, f)
              /\ Len(p) = ia + Len(f)
        BY <1>3, <1>11, <1>12, <1>13, <1>16, <1>17
    <2>2. Has(p, ta, e) => ia <= Len(p)
        BY <1>7, <1>10, <1>17
    <2> QED BY <1>4, <1>8, <1>9, <1>14, <1>15, <1>17, <2>1, <2>2
<1>18. ASSUME ~Counts(p, r)
       PROVE  p = RequestBytes(r) <=> Holds(p, r)
    BY <1>3, <1>11, <1>13, <1>14, <1>18
<1> QED
    BY <1>17, <1>18

---------------------------------------------------------------------------
(* What is encoded is read                                                 *)

(* What the server reads of a payload that it accepts.                     *)
ReadRequest(p) ==
    [images |-> [i \in 1 .. ImageCount(p) |-> ImageFrom(p, i)],
     state |-> GetAll(p, StateAt(p), 4, StateDim(p)),
     noise |-> GetAll(p, NoiseAt(p), 4, NoiseDim(p)),
     task |-> Cut(p, TaskAt(p), TaskLength(p))]

IsSound(r) ==
    /\ AllFinite(r.state \o r.noise)
    /\ \A i \in 1 .. Len(r.images) : ImageIsValid(r.images[i])

LEMMA DecodeIs ==
    ASSUME NEW p
    PROVE  DecodeRequest(p) =
               IF /\ HasImageFields(p) /\ FieldsAreValid(p)
                  /\ ImageAt(p, ImageCount(p) + 1) = Len(p)
                  /\ IsSound(ReadRequest(p))
               THEN [ok |-> TRUE, message |-> ReadRequest(p)]
               ELSE Refused
BY DEF DecodeRequest, ReadRequest, IsSound, EndsAt

(* It is the request that the payload encodes, if its images are in the    *)
(* only format there is.                                                   *)
LEMMA HeldIsRead ==
    ASSUME NEW r \in FittingRequests, NEW p \in Seq(Byte), Holds(p, r),
           \A i \in 1 .. Len(r.images) : r.images[i].format = RawRGB
    PROVE  ReadRequest(p) = r
<1>1. /\ r.images \in Seq(FittingImages)
      /\ r.state \in Seq(Words) /\ r.noise \in Seq(Words)
      /\ r.task \in Seq(Byte)
      /\ Len(r.images) \in Nat
    BY FittingParts
<1>2. /\ Counts(p, r) /\ Fields(p, r.images)
      /\ NumbersAt(p, StateAt(p), r.state)
      /\ NumbersAt(p, NoiseAt(p), r.noise)
      /\ Has(p, TaskAt(p), r.task) /\ Images(p, r.images)
    BY DEF Holds
<1>3. GetAll(p, StateAt(p), 4, StateDim(p)) = r.state
    BY <1>2 DEF NumbersAt, Counts
<1>4. GetAll(p, NoiseAt(p), 4, NoiseDim(p)) = r.noise
    BY <1>2 DEF NumbersAt, Counts
<1>5. Cut(p, TaskAt(p), TaskLength(p)) = r.task
    <2>1. TaskAt(p) \in Nat
        BY <1>2, SectionsAt
    <2>2. Cut(p, TaskAt(p), Len(r.task)) = r.task
        BY <1>1, <1>2, <2>1, TextAt
    <2> QED BY <1>2, <2>2 DEF Counts
<1>6. ASSUME NEW i \in 1 .. Len(r.images)
      PROVE  ImageFrom(p, i) = r.images[i]
    <2> DEFINE image == r.images[i]
               at == ImageAt(p, i)
               m == Len(image.name)
    <2>1. image \in FittingImages
        BY <1>1, ElementOfSeq
    <2>2. /\ ImageField(p, i, 2) = m
          /\ ImageField(p, i, 3) = image.width
          /\ ImageField(p, i, 4) = image.height
          /\ ImageField(p, i, 5) = image.channels
          /\ ImageField(p, i, 6) = image.stride
          /\ ImageField(p, i, 7) = Len(image.data)
        <3>1. Len(r.images) \in Nat /\ Fields(p, r.images)
            BY <1>1, <1>2, LenProperties
        <3> QED BY <3>1, FieldOf, SMTT(30)
    <2>3. Has(p, at, image.name) /\ Has(p, at + m, image.data)
        BY <1>2 DEF Images
    <2>4. at \in Nat /\ m \in Nat
        <3>1. m \in Nat
            BY <2>1, LenProperties DEF FittingImages
        <3>2. at \in Nat
            <4> DEFINE N == Len(r.images)
            <4>1. TaskAt(p) + TaskLength(p) \in Nat
                BY <1>2, SectionsAt DEF ImagesStart
            <4>2. \A k \in 1 .. N : /\ ImageField(p, k, 2) \in Nat
                                    /\ ImageField(p, k, 7) \in Nat
                <5> SUFFICES ASSUME NEW k \in 1 .. N
                             PROVE  /\ ImageField(p, k, 2) \in Nat
                                    /\ ImageField(p, k, 7) \in Nat
                    OBVIOUS
                <5>1. /\ Len(r.images[k].name) \in Nat
                      /\ Len(r.images[k].data) \in Nat
                    BY <1>1, AllImagesPieces
                <5>2. /\ ImageField(p, k, 2) = Len(r.images[k].name)
                      /\ ImageField(p, k, 7) = Len(r.images[k].data)
                    BY <1>1, <1>2, FieldOf
                <5> QED BY <5>1, <5>2
            <4>3. PICK off : ImagePlaces(off, p, N)
                BY <1>1, <4>1, <4>2, ImagePlacesExist
            <4> DEFINE k == i - 1
            <4>4. k \in 0 .. N /\ k + 1 = i
                BY <1>1
            <4> HIDE DEF k
            <4>5. ImageAt(p, k + 1) = off[k] /\ off[k] \in Nat
                BY <4>3, <4>4 DEF ImagePlaces
            <4> QED BY <4>4, <4>5
        <3> QED BY <3>1, <3>2
    <2>5. image.name \in Seq(Byte) /\ image.data \in Seq(Byte)
        BY <2>1 DEF FittingImages
    <2>6. image.format = RawRGB
        OBVIOUS
    <2> HIDE DEF image, at, m
    <2>7. Cut(p, at, m) = image.name
        BY <2>3, <2>4, <2>5, TextAt DEF m
    <2>8. Cut(p, at + m, Len(image.data)) = image.data
        <3>1. at + m \in Nat
            BY <2>4
        <3> QED BY <2>3, <2>5, <3>1, TextAt
    <2>9. image = [format |-> image.format, width |-> image.width,
                   height |-> image.height, channels |-> image.channels,
                   stride |-> image.stride, name |-> image.name,
                   data |-> image.data]
        BY <2>1 DEF FittingImages
    <2>10. ImageFrom(p, i) =
               [format |-> RawRGB,
                width |-> ImageField(p, i, 3),
                height |-> ImageField(p, i, 4),
                channels |-> ImageField(p, i, 5),
                stride |-> ImageField(p, i, 6),
                name |-> Cut(p, at, ImageField(p, i, 2)),
                data |-> Cut(p, at + ImageField(p, i, 2),
                             ImageField(p, i, 7))]
        BY DEF ImageFrom, at
    <2>11. ImageFrom(p, i) = image
        BY <2>2, <2>6, <2>7, <2>8, <2>9, <2>10
    <2> QED BY <2>11 DEF image
<1>7. [i \in 1 .. ImageCount(p) |-> ImageFrom(p, i)] = r.images
    <2>1. r.images = [i \in 1 .. Len(r.images) |-> r.images[i]]
        BY <1>1, LenProperties
    <2>2. ImageCount(p) = Len(r.images)
        BY <1>2 DEF Counts
    <2> QED BY <1>6, <2>1, <2>2
<1>8. r = [images |-> r.images, state |-> r.state, noise |-> r.noise,
           task |-> r.task]
    BY DEF FittingRequests
<1> QED
    BY <1>3, <1>4, <1>5, <1>7, <1>8 DEF ReadRequest

LEMMA RequestIsBytes ==
    ASSUME NEW r \in FittingRequests
    PROVE  RequestBytes(r) \in Seq(Byte)
<1> DEFINE a == PutAll(4, <<Len(r.images), Len(r.state),
                            Len(r.noise), Len(r.task)>>)
           b == AllFields(r.images)
           c == PutAll(4, r.state)
           d == PutAll(4, r.noise)
           e == r.task
           f == AllImages(r.images)
<1>1. a \in Seq(Byte)
    <2>1. <<>> \in Seq(Byte)
        BY EmptySeq
    <2> QED BY <2>1, HeaderAt
<1>2. b \in Seq(Byte)
    BY FittingParts, AllFieldsLength
<1>3. c \in Seq(Byte) /\ d \in Seq(Byte)
    BY FittingParts, WordsLength
<1>4. e \in Seq(Byte)
    BY FittingParts
<1>5. f \in Seq(Byte)
    BY FittingParts, AllImagesAreBytes
<1>6. RequestBytes(r) = a \o b \o c \o d \o e \o f
    BY RequestBytesAre
<1> HIDE DEF a, b, c, d, e, f
<1>7. a \o b \o c \o d \o e \o f \in Seq(Byte)
    BY <1>1, <1>2, <1>3, <1>4, <1>5, SixParts
<1> QED
    BY <1>6, <1>7

LEMMA EncodeIs ==
    ASSUME NEW r \in FittingRequests
    PROVE  EncodeRequest(r) = IF r.images # <<>> /\ IsSound(r)
                              THEN Payload(RequestBytes(r)) ELSE Refused
<1>1. \A n \in Words : n < Word
    BY NumbersFit DEF Words
<1>2. /\ CountFits(r.images) /\ CountFits(r.task)
      /\ CountFits(r.state) /\ CountFits(r.noise)
    BY <1>1, FittingParts DEF CountFits
<1> QED
    BY <1>2 DEF EncodeRequest, IsSound

(* No check of decode_predict_request refuses a request that was encoded.  *)
LEMMA HeldIsAccepted ==
    ASSUME NEW r \in FittingRequests, NEW p \in Seq(Byte), Holds(p, r),
           r.images # <<>>
    PROVE  DecodeRequest(p) = IF IsSound(r)
                              THEN [ok |-> TRUE, message |-> r] ELSE Refused
<1> DEFINE N == Len(r.images)
<1>1. /\ r.images \in Seq(FittingImages)
      /\ N \in Nat /\ N # 0
    BY FittingParts, EmptySeq
<1>2. Counts(p, r) /\ Fields(p, r.images) /\ ImageAt(p, N + 1) = Len(p)
    BY DEF Holds
<1>3. ImageCount(p) = N
    BY <1>2 DEF Counts
<1>4. HasImageFields(p)
    <2> DEFINE n == N
               L == Len(p)
    <2>1. L \in Nat /\ 16 <= L
        BY <1>2, LenProperties DEF Counts
    <2>2. 16 + 32 * n <= L
        <3>1. StateAt(p) = 16 + 32 * n
            BY <1>2, SectionsAt
        <3>2. StateAt(p) + 4 * Len(r.state) <= L
            BY DEF Holds, NumbersAt
        <3>3. Len(r.state) \in Nat
            BY FittingParts
        <3> DEFINE sa == StateAt(p)
                   m == Len(r.state)
        <3>4. n \in Nat /\ sa = 16 + 32 * n /\ sa + 4 * m <= L /\ m \in Nat
            BY <1>1, <3>1, <3>2, <3>3
        <3> HIDE DEF n, L, sa, m
        <3> QED BY ONLY <2>1, <3>4
    <2> HIDE DEF n, L
    <2>3. n <= (L - 16) \div 32
        <3>1. n \in Nat
            BY <1>1 DEF n
        <3> QED BY <2>1, <2>2, <3>1
    <2> QED BY <1>1, <1>3, <2>1, <2>3
            DEF HasImageFields, RequestFixed, ImageFieldsSize, n, L
<1>5. ASSUME NEW i \in 1 .. N
      PROVE  /\ ImageField(p, i, 1) = r.images[i].format
             /\ ImageField(p, i, 3) = r.images[i].width
             /\ ImageField(p, i, 4) = r.images[i].height
             /\ ImageField(p, i, 5) = r.images[i].channels
    BY <1>1, <1>2, FieldOf
<1>6. IsSound(r) => FieldsAreValid(p)
    BY <1>3, <1>5 DEF IsSound, FieldsAreValid, ImageIsValid
<1>7. ASSUME FieldsAreValid(p)
      PROVE  ReadRequest(p) = r
    <2>1. \A i \in 1 .. N : r.images[i].format = RawRGB
        BY <1>3, <1>5, <1>7 DEF FieldsAreValid
    <2> QED BY <2>1, HeldIsRead
<1>8. DecodeRequest(p) =
          IF /\ HasImageFields(p) /\ FieldsAreValid(p)
             /\ ImageAt(p, ImageCount(p) + 1) = Len(p)
             /\ IsSound(ReadRequest(p))
          THEN [ok |-> TRUE, message |-> ReadRequest(p)]
          ELSE Refused
    BY DecodeIs
<1>9. CASE IsSound(r)
    BY <1>2, <1>3, <1>4, <1>6, <1>7, <1>8, <1>9
<1>10. CASE ~IsSound(r)
    BY <1>7, <1>8, <1>10
<1> QED
    BY <1>9, <1>10

(* So every request survives.                                              *)
LEMMA FittingRequestSurvives ==
    ASSUME NEW r \in FittingRequests
    PROVE  RequestSurvives(r)
<1> DEFINE p == RequestBytes(r)
<1>1. p \in Seq(Byte)
    BY RequestIsBytes
<1>2. Holds(p, r)
    BY <1>1, RequestLayout
<1> HIDE DEF p
<1>3. r.images # <<>> =>
          DecodeRequest(p) = IF IsSound(r)
                             THEN [ok |-> TRUE, message |-> r] ELSE Refused
    BY <1>1, <1>2, HeldIsAccepted
<1>4. EncodeRequest(r) = IF r.images # <<>> /\ IsSound(r)
                         THEN Payload(p) ELSE Refused
    BY EncodeIs DEF p
<1>5. PythonEncode(r) = IF r.images = <<>> THEN Refused ELSE Payload(p)
    BY DEF PythonEncode, p
<1> HIDE DEF p
<1>6. CASE r.images = <<>>
    BY <1>4, <1>5, <1>6 DEF RequestSurvives, Refused
<1>7. CASE r.images # <<>> /\ IsSound(r)
    BY <1>3, <1>4, <1>5, <1>7 DEF RequestSurvives, Payload
<1>8. CASE r.images # <<>> /\ ~IsSound(r)
    BY <1>3, <1>4, <1>5, <1>8 DEF RequestSurvives, Payload, Refused
<1> QED
    BY <1>6, <1>7, <1>8

---------------------------------------------------------------------------
(* What is accepted is what would be encoded                               *)

(* What is accepted holds what is read.                                    *)
LEMMA FieldsReach ==
    ASSUME NEW p \in Seq(Byte), HasImageFields(p)
    PROVE  /\ 16 <= Len(p) /\ Len(p) \in Nat
           /\ ImageCount(p) \in Words /\ ImageCount(p) \in Nat
           /\ StateDim(p) \in Words /\ NoiseDim(p) \in Words
           /\ TaskLength(p) \in Words
           /\ 16 + 32 * ImageCount(p) <= Len(p)
<1>1. 16 <= Len(p) /\ Len(p) \in Nat
    BY LenProperties DEF HasImageFields, RequestFixed
<1>2. /\ Reaches(p, 0, 4) /\ Reaches(p, 4, 4)
      /\ Reaches(p, 8, 4) /\ Reaches(p, 12, 4)
    BY <1>1 DEF Reaches
<1>3. /\ ImageCount(p) \in Words /\ StateDim(p) \in Words
      /\ NoiseDim(p) \in Words /\ TaskLength(p) \in Words
    BY <1>2, GetIsNumber
       DEF Words, ImageCount, StateDim, NoiseDim, TaskLength
<1> DEFINE n == ImageCount(p)
           L == Len(p)
<1>4. n \in Nat /\ n <= (L - 16) \div 32
    <2>1. \A k \in Words : k \in Nat
        BY NumbersFit DEF Words
    <2> QED BY <1>3, <2>1 DEF HasImageFields, RequestFixed, ImageFieldsSize
<1> HIDE DEF n, L
<1>5. 16 + 32 * n <= L
    BY <1>1, <1>4 DEF L
<1> QED
    BY <1>1, <1>3, <1>4, <1>5 DEF n, L

LEMMA FieldsAreNumbers ==
    ASSUME NEW p \in Seq(Byte), HasImageFields(p),
           NEW i \in 1 .. ImageCount(p)
    PROVE  /\ \A field \in 1 .. 6 : ImageField(p, i, field) \in Words
           /\ ImageField(p, i, 7) \in LongWords
           /\ 16 + (i - 1) * 32 \in Nat
           /\ 16 + (i - 1) * 32 + 32 <= Len(p)
<1> DEFINE at == 16 + (i - 1) * 32
<1>1. at \in Nat /\ at + 32 <= Len(p) /\ Len(p) \in Nat
    BY FieldsReach
<1>2. \A field : ImageField(p, i, field) =
                     Get(p, at + 4 * (field - 1), IF field = 7 THEN 8 ELSE 4)
    BY DEF ImageField, RequestFixed, ImageFieldsSize
<1> HIDE DEF at
<1>3. ASSUME NEW field \in 1 .. 6
      PROVE  ImageField(p, i, field) \in Words
    <2> DEFINE k == at + 4 * (field - 1)
    <2>1. k \in Nat /\ k + 4 <= Len(p)
        BY <1>1
    <2>2. ImageField(p, i, field) = Get(p, k, 4)
        BY <1>2
    <2> HIDE DEF k
    <2>3. Reaches(p, k, 4)
        BY <2>1 DEF Reaches
    <2>4. Get(p, k, 4) \in 0 .. Word - 1
        BY <2>1, <2>3, GetIsNumber
    <2> QED BY <2>2, <2>4 DEF Words
<1>4. ImageField(p, i, 7) \in LongWords
    <2> DEFINE k == at + 24
    <2>1. k \in Nat /\ k + 8 <= Len(p)
        BY <1>1
    <2>2. ImageField(p, i, 7) = Get(p, k, 8)
        BY <1>2
    <2> HIDE DEF k
    <2>3. Reaches(p, k, 8)
        BY <2>1 DEF Reaches
    <2>4. Get(p, k, 8) \in 0 .. Word * Word - 1
        BY <2>1, <2>3, GetIsNumber
    <2> QED BY <2>2, <2>4 DEF LongWords
<1> QED
    BY <1>1, <1>3, <1>4 DEF at

LEMMA PlacesInOrder ==
    ASSUME NEW p, NEW N \in Nat, NEW off, ImagePlaces(off, p, N),
           \A k \in 1 .. N : /\ ImageField(p, k, 2) \in Nat
                             /\ ImageField(p, k, 7) \in Nat
    PROVE  \A k \in 0 .. N : off[k] <= off[N]
<1> DEFINE S == {k \in Nat : k <= N => off[N - k] <= off[N]}
<1>1. \A k \in 0 .. N : off[k] \in Nat
    BY DEF ImagePlaces
<1>2. 0 \in S
    <2>1. N - 0 = N /\ off[N] \in Nat
        BY <1>1
    <2> QED BY <2>1
<1>3. ASSUME NEW k \in Nat, k \in S
      PROVE  k + 1 \in S
    <2> SUFFICES ASSUME k + 1 <= N PROVE off[N - (k + 1)] <= off[N]
        OBVIOUS
    <2> DEFINE m == N - k
    <2>1. m \in 1 .. N /\ m \in 0 .. N /\ m - 1 \in 0 .. N
          /\ N - (k + 1) = m - 1
        OBVIOUS
    <2>2. off[m] <= off[N]
        BY <1>3
    <2> HIDE DEF m
    <2>3. off[m] = off[m - 1] + ImageField(p, m, 2) + ImageField(p, m, 7)
        BY <2>1 DEF ImagePlaces
    <2> DEFINE x == off[m - 1]
               y == ImageField(p, m, 2)
               z == ImageField(p, m, 7)
               u == off[m]
               v == off[N]
    <2>4. /\ x \in Nat /\ y \in Nat /\ z \in Nat /\ u \in Nat /\ v \in Nat
          /\ u = x + y + z /\ u <= v
        BY <1>1, <2>1, <2>2, <2>3
    <2> HIDE DEF x, y, z, u, v
    <2>5. x <= v
        BY <2>4
    <2> QED BY <2>1, <2>5 DEF x, v
<1>4. \A k \in Nat : k \in S
    <2> HIDE DEF S
    <2> QED BY <1>2, <1>3, Induction
<1>5. ASSUME NEW k \in 0 .. N
      PROVE  off[k] <= off[N]
    <2>1. N - k \in Nat /\ N - k <= N /\ N - (N - k) = k
        OBVIOUS
    <2>2. off[N - (N - k)] <= off[N]
        BY <1>4, <2>1
    <2> QED BY <2>1, <2>2
<1> QED
    BY <1>5

(* The sections of a payload that is as long as it says.                   *)
LEMMA SectionsFit ==
    ASSUME NEW p \in Seq(Byte), HasImageFields(p),
           ImageAt(p, ImageCount(p) + 1) = Len(p)
    PROVE  /\ StateAt(p) \in Nat /\ NoiseAt(p) \in Nat /\ TaskAt(p) \in Nat
           /\ StateDim(p) \in Nat /\ NoiseDim(p) \in Nat
           /\ TaskLength(p) \in Nat
           /\ NoiseAt(p) = StateAt(p) + 4 * StateDim(p)
           /\ TaskAt(p) = NoiseAt(p) + 4 * NoiseDim(p)
           /\ NoiseAt(p) <= Len(p) /\ TaskAt(p) <= Len(p)
           /\ TaskAt(p) + TaskLength(p) <= Len(p)
           /\ \A i \in 1 .. ImageCount(p) :
                 /\ ImageAt(p, i) \in Nat
                 /\ ImageField(p, i, 2) \in Nat
                 /\ ImageField(p, i, 7) \in Nat
                 /\ ImageAt(p, i) + ImageField(p, i, 2)
                        + ImageField(p, i, 7) <= Len(p)
<1> DEFINE N == ImageCount(p)
           sd == StateDim(p)
           nd == NoiseDim(p)
           tl == TaskLength(p)
           sa == StateAt(p)
           na == NoiseAt(p)
           ta == TaskAt(p)
<1>1. /\ N \in Nat /\ sd \in Nat /\ nd \in Nat /\ tl \in Nat
      /\ Len(p) \in Nat
    <2>1. \A k \in Words : k \in Nat
        BY NumbersFit DEF Words
    <2> QED BY <2>1, FieldsReach
<1>2. /\ sa = 16 + N * 32 /\ na = sa + 4 * sd /\ ta = na + 4 * nd
    BY DEF StateAt, NoiseAt, TaskAt, RequestFixed, ImageFieldsSize
<1>3. \A k \in 1 .. N : /\ ImageField(p, k, 2) \in Nat
                        /\ ImageField(p, k, 7) \in Nat
    <2>1. \A k \in Words : k \in Nat
        BY NumbersFit DEF Words
    <2>2. \A k \in LongWords : k \in Nat
        BY NumbersFit DEF LongWords
    <2> QED BY <2>1, <2>2, FieldsAreNumbers
<1>4. ImageAt(p, N + 1) = Len(p)
    OBVIOUS
<1> HIDE DEF N, sd, nd, tl, sa, na, ta
<1>5. sa \in Nat /\ na \in Nat /\ ta \in Nat /\ ta + tl \in Nat
    BY <1>1, <1>2
<1>6. PICK off : ImagePlaces(off, p, N)
    <2>1. TaskAt(p) + TaskLength(p) \in Nat
        BY <1>5 DEF ta, tl
    <2> QED BY <1>1, <1>3, <2>1, ImagePlacesExist
<1>7. \A k \in 0 .. N : off[k] \in Nat /\ off[k] <= Len(p)
    <2>1. \A k \in 0 .. N : off[k] <= off[N]
        BY <1>1, <1>3, <1>6, PlacesInOrder
    <2>2. off[N] = Len(p)
        BY <1>1, <1>4, <1>6 DEF ImagePlaces
    <2>3. \A k \in 0 .. N : off[k] \in Nat
        BY <1>6 DEF ImagePlaces
    <2> QED BY <2>1, <2>2, <2>3
<1>8. ta + tl <= Len(p)
    <2>1. off[0] = ta + tl
        BY <1>6 DEF ImagePlaces, ta, tl
    <2> QED BY <1>1, <1>7, <2>1
<1>9. na <= Len(p) /\ ta <= Len(p)
    BY <1>1, <1>2, <1>5, <1>8
<1>10. ASSUME NEW i \in 1 .. N
       PROVE  /\ ImageAt(p, i) \in Nat
              /\ ImageAt(p, i) + ImageField(p, i, 2) + ImageField(p, i, 7)
                    <= Len(p)
    <2> DEFINE k == i - 1
    <2>1. k \in 0 .. N /\ k + 1 = i /\ i \in 0 .. N
        BY <1>1
    <2> HIDE DEF k
    <2>2. ImageAt(p, k + 1) = off[k] /\ off[k] \in Nat
        BY <1>6, <2>1 DEF ImagePlaces
    <2>3. off[i] = off[i - 1] + ImageField(p, i, 2) + ImageField(p, i, 7)
        BY <1>6 DEF ImagePlaces
    <2>4. off[i] <= Len(p)
        BY <1>7, <2>1
    <2> QED BY <2>1, <2>2, <2>3, <2>4 DEF k
<1> QED
    BY <1>1, <1>2, <1>3, <1>5, <1>8, <1>9, <1>10 DEF N, sd, nd, tl, sa, na, ta

LEMMA NumbersRead ==
    ASSUME NEW p \in Seq(Byte), NEW at \in Nat, NEW n \in Nat,
           at + 4 * n <= Len(p)
    PROVE  /\ GetAll(p, at, 4, n) \in Seq(Words)
           /\ Len(GetAll(p, at, 4, n)) = n
           /\ NumbersAt(p, at, GetAll(p, at, 4, n))
<1>1. ASSUME NEW i \in 1 .. n
      PROVE  Get(p, at + (i - 1) * 4, 4) \in Words
    <2> DEFINE k == at + (i - 1) * 4
    <2>1. k \in Nat /\ k + 4 <= Len(p)
        BY LenProperties
    <2> HIDE DEF k
    <2>2. Reaches(p, k, 4)
        BY <2>1 DEF Reaches
    <2>3. Get(p, k, 4) \in 0 .. Word - 1
        BY <2>1, <2>2, GetIsNumber
    <2> QED BY <2>3 DEF Words, k
<1>2. GetAll(p, at, 4, n) \in [1 .. n -> Words]
    BY <1>1 DEF GetAll
<1>3. /\ GetAll(p, at, 4, n) \in Seq(Words)
      /\ Len(GetAll(p, at, 4, n)) = n
    BY <1>2, FunctionIsSequence
<1> QED
    BY <1>3 DEF NumbersAt

LEMMA ReadIsHeld ==
    ASSUME NEW p \in Seq(Byte), HasImageFields(p), FieldsAreValid(p),
           ImageAt(p, ImageCount(p) + 1) = Len(p)
    PROVE  /\ ReadRequest(p) \in FittingRequests
           /\ Holds(p, ReadRequest(p))
           /\ ReadRequest(p).images # <<>>
<1> DEFINE r == ReadRequest(p)
           N == ImageCount(p)
           images == [i \in 1 .. N |-> ImageFrom(p, i)]
           state == GetAll(p, StateAt(p), 4, StateDim(p))
           noise == GetAll(p, NoiseAt(p), 4, NoiseDim(p))
           task == Cut(p, TaskAt(p), TaskLength(p))
<1>1. r = [images |-> images, state |-> state, noise |-> noise,
           task |-> task]
    BY DEF ReadRequest
<1>2. /\ N \in Nat /\ N \in Words /\ N # 0
      /\ 16 <= Len(p) /\ Len(p) \in Nat
      /\ StateDim(p) \in Words /\ NoiseDim(p) \in Words
      /\ TaskLength(p) \in Words
    BY FieldsReach DEF HasImageFields
<1>3. /\ StateAt(p) \in Nat /\ NoiseAt(p) \in Nat /\ TaskAt(p) \in Nat
      /\ StateDim(p) \in Nat /\ NoiseDim(p) \in Nat /\ TaskLength(p) \in Nat
      /\ StateAt(p) + 4 * StateDim(p) <= Len(p)
      /\ NoiseAt(p) + 4 * NoiseDim(p) <= Len(p)
      /\ TaskAt(p) + TaskLength(p) <= Len(p)
    BY SectionsFit
<1>4. /\ state \in Seq(Words) /\ Len(state) = StateDim(p)
      /\ NumbersAt(p, StateAt(p), state)
    BY <1>3, NumbersRead
<1>5. /\ noise \in Seq(Words) /\ Len(noise) = NoiseDim(p)
      /\ NumbersAt(p, NoiseAt(p), noise)
    BY <1>3, NumbersRead
<1>6. /\ task \in Seq(Byte) /\ Len(task) = TaskLength(p)
      /\ Has(p, TaskAt(p), task)
    <2>1. task \in Seq(Byte) /\ Len(task) = TaskLength(p)
        BY <1>3, TextAt
    <2>2. /\ TaskAt(p) + Len(task) <= Len(p)
          /\ Cut(p, TaskAt(p), Len(task)) = task
        BY <1>3, <2>1
    <2> HIDE DEF task
    <2> QED BY <1>3, <2>1, <2>2, TextAt
<1>7. ASSUME NEW i \in 1 .. N
      PROVE  /\ images[i] \in FittingImages
             /\ Describes(p, 16 + (i - 1) * 32, images[i])
             /\ Has(p, ImageAt(p, i), images[i].name)
             /\ Has(p, ImageAt(p, i) + Len(images[i].name), images[i].data)
    <2> DEFINE at == ImageAt(p, i)
               m == ImageField(p, i, 2)
               n == ImageField(p, i, 7)
               s == Cut(p, at, m)
               t == Cut(p, at + m, n)
               k == 16 + (i - 1) * 32
    <2>1. at \in Nat /\ m \in Nat /\ n \in Nat /\ at + m + n <= Len(p)
        BY SectionsFit
    <2>2. /\ m \in Words /\ n \in LongWords
          /\ ImageField(p, i, 1) \in Words
          /\ ImageField(p, i, 3) \in Words /\ ImageField(p, i, 4) \in Words
          /\ ImageField(p, i, 5) \in Words /\ ImageField(p, i, 6) \in Words
          /\ k \in Nat /\ k + 32 <= Len(p)
        BY FieldsAreNumbers
    <2>3. images[i] =
              [format |-> RawRGB,
               width |-> ImageField(p, i, 3),
               height |-> ImageField(p, i, 4),
               channels |-> ImageField(p, i, 5),
               stride |-> ImageField(p, i, 6),
               name |-> s, data |-> t]
        BY DEF ImageFrom
    <2>4. RawRGB = ImageField(p, i, 1)
        BY DEF FieldsAreValid
    <2>5. /\ ImageField(p, i, 1) = Get(p, k + 4 * (1 - 1), 4)
          /\ ImageField(p, i, 2) = Get(p, k + 4 * (2 - 1), 4)
          /\ ImageField(p, i, 3) = Get(p, k + 4 * (3 - 1), 4)
          /\ ImageField(p, i, 4) = Get(p, k + 4 * (4 - 1), 4)
          /\ ImageField(p, i, 5) = Get(p, k + 4 * (5 - 1), 4)
          /\ ImageField(p, i, 6) = Get(p, k + 4 * (6 - 1), 4)
          /\ ImageField(p, i, 7) = Get(p, k + 4 * (7 - 1), 8)
        BY DEF ImageField, RequestFixed, ImageFieldsSize
    <2>6. m = ImageField(p, i, 2) /\ n = ImageField(p, i, 7)
        OBVIOUS
    <2> HIDE DEF m, n, at, k
    <2>7. at + m \in Nat /\ at + m <= Len(p)
        BY <1>2, <2>1
    <2>8. s \in Seq(Byte) /\ Len(s) = m /\ Has(p, at, s)
        <3>1. s \in Seq(Byte) /\ Len(s) = m
            BY <2>1, <2>7, TextAt
        <3>2. at + Len(s) <= Len(p) /\ Cut(p, at, Len(s)) = s
            BY <2>7, <3>1
        <3> HIDE DEF s
        <3> QED BY <2>1, <3>1, <3>2, TextAt
    <2>9. t \in Seq(Byte) /\ Len(t) = n /\ Has(p, at + m, t)
        <3>1. t \in Seq(Byte) /\ Len(t) = n
            BY <2>1, <2>7, TextAt
        <3>2. at + m + Len(t) <= Len(p) /\ Cut(p, at + m, Len(t)) = t
            BY <2>1, <3>1
        <3> HIDE DEF t
        <3> QED BY <2>7, <3>1, <3>2, TextAt
    <2> HIDE DEF s, t, images
    <2>10. images[i] \in FittingImages
        BY <2>2, <2>3, <2>4, <2>8, <2>9 DEF FittingImages
    <2>11. Describes(p, k, images[i])
        <3>1. /\ k + 4 * (1 - 1) = k
              /\ k + 4 * (2 - 1) = k + 4
              /\ k + 4 * (3 - 1) = k + 8
              /\ k + 4 * (4 - 1) = k + 12
              /\ k + 4 * (5 - 1) = k + 16
              /\ k + 4 * (6 - 1) = k + 20
              /\ k + 4 * (7 - 1) = k + 24
            BY <2>2
        <3> QED BY <2>2, <2>3, <2>4, <2>5, <2>6, <2>8, <2>9, <3>1
                DEF Describes
    <2>12. Has(p, at, images[i].name) /\ Has(p, at + Len(images[i].name),
                                             images[i].data)
        BY <2>3, <2>8, <2>9
    <2> QED BY <2>10, <2>11, <2>12 DEF k, at
<1>8. images \in Seq(FittingImages) /\ Len(images) = N
    <2>1. images \in [1 .. N -> FittingImages]
        BY <1>7
    <2> HIDE DEF images, N
    <2> QED BY <1>2, <2>1, FunctionIsSequence
<1>9. Fields(p, images) /\ Images(p, images)
    <2> HIDE DEF images
    <2> QED BY <1>7, <1>8 DEF Fields, Images
<1>10. images # <<>>
    <2> HIDE DEF images
    <2> QED BY <1>2, <1>8, EmptySeq
<1>11. ImageAt(p, N + 1) = Len(p)
    OBVIOUS
<1>12. N = ImageCount(p)
    OBVIOUS
<1> HIDE DEF r, images, state, noise, task, N
<1>13. r \in FittingRequests
    BY <1>1, <1>2, <1>4, <1>5, <1>6, <1>8 DEF FittingRequests
<1>14. Holds(p, r)
    BY <1>1, <1>2, <1>4, <1>5, <1>6, <1>8, <1>9, <1>11, <1>12
       DEF Holds, Counts
<1> QED
    BY <1>1, <1>10, <1>13, <1>14 DEF r

(* So every accepted payload is the encoding of its request.               *)
LEMMA EveryRequestIsExact ==
    ASSUME NEW p \in Seq(Byte)
    PROVE  RequestIsExact(p)
<1>1. DecodeRequest(p) =
          IF /\ HasImageFields(p) /\ FieldsAreValid(p)
             /\ ImageAt(p, ImageCount(p) + 1) = Len(p)
             /\ IsSound(ReadRequest(p))
          THEN [ok |-> TRUE, message |-> ReadRequest(p)]
          ELSE Refused
    BY DecodeIs
<1>2. CASE /\ HasImageFields(p) /\ FieldsAreValid(p)
           /\ ImageAt(p, ImageCount(p) + 1) = Len(p)
           /\ IsSound(ReadRequest(p))
    <2> DEFINE r == ReadRequest(p)
    <2>1. r \in FittingRequests /\ Holds(p, r) /\ r.images # <<>>
        BY <1>2, ReadIsHeld
    <2>2. DecodeRequest(p).message = r
        BY <1>1, <1>2
    <2>3. IsSound(r)
        BY <1>2
    <2> HIDE DEF r
    <2>4. p = RequestBytes(r)
        BY <2>1, RequestLayout
    <2>5. EncodeRequest(r) = Payload(RequestBytes(r))
        BY <2>1, <2>3, EncodeIs
    <2> QED BY <2>2, <2>4, <2>5 DEF RequestIsExact
<1>3. CASE ~(/\ HasImageFields(p) /\ FieldsAreValid(p)
             /\ ImageAt(p, ImageCount(p) + 1) = Len(p)
             /\ IsSound(ReadRequest(p)))
    BY <1>1, <1>3 DEF RequestIsExact, Refused
<1> QED
    BY <1>2, <1>3

---------------------------------------------------------------------------
(* Responses                                                               *)

(* Metrics and responses whose numbers and sizes have the widths of their  *)
(* fields (protocol.h); a duration is a uint64_t.                          *)
FittingMetrics ==
    {metric \in [name : Seq(Byte), value : LongWords] :
        Len(metric.name) \in Words}

FittingResponses ==
    {response \in [chunk_size : Words, action_dim : Words,
                   actions : Seq(Words), metrics : Seq(FittingMetrics)] :
        /\ Len(response.actions) \in Words
        /\ Len(response.metrics) \in Words}

(* The parts of a response.                                                *)
LEMMA FittingAnswer ==
    ASSUME NEW r \in FittingResponses
    PROVE  /\ r.chunk_size \in Words /\ r.action_dim \in Words
           /\ r.actions \in Seq(Words) /\ r.metrics \in Seq(FittingMetrics)
           /\ Len(r.actions) \in Words /\ Len(r.metrics) \in Words
           /\ Len(r.actions) \in Nat /\ Len(r.metrics) \in Nat
<1>1. \A n \in Words : n \in Nat
    BY NumbersFit DEF Words
<1> QED
    BY <1>1 DEF FittingResponses

(* A metric at a place.                                                    *)
Measures(p, at, metric) ==
    /\ at + MetricFixed <= Len(p)
    /\ Get(p, at, 4) = Len(metric.name)
    /\ Get(p, at + 4, 8) = metric.value
    /\ Has(p, at + MetricFixed, metric.name)

LEMMA MetricIs ==
    ASSUME NEW metric \in FittingMetrics
    PROVE  /\ metric.name \in Seq(Byte) /\ metric.value \in LongWords
           /\ Len(metric.name) \in Words /\ Len(metric.name) \in Nat
           /\ MetricBytes(metric) \in Seq(Byte)
           /\ Len(MetricBytes(metric)) = 12 + Len(metric.name)
<1> DEFINE name == metric.name
           a == Put(4, Len(name))
           b == Put(8, metric.value)
<1>1. /\ name \in Seq(Byte) /\ metric.value \in LongWords
      /\ Len(name) \in Words
    BY DEF FittingMetrics
<1>2. Len(name) \in Nat
    BY <1>1, LenProperties
<1>3. a \in Seq(Byte) /\ Len(a) = 4
    BY <1>2, PutIsBytes
<1>4. b \in Seq(Byte) /\ Len(b) = 8
    BY <1>1, LongLength
<1>5. MetricBytes(metric) = a \o b \o name
    BY DEF MetricBytes
<1> HIDE DEF a, b, name
<1>6. a \o b \in Seq(Byte) /\ Len(a \o b) = 12
    <2>1. a \o b \in Seq(Byte) /\ Len(a \o b) = Len(a) + Len(b)
        BY <1>3, <1>4, Joined
    <2> QED BY <1>3, <1>4, <2>1
<1>7. a \o b \o name \in Seq(Byte) /\ Len(a \o b \o name) = 12 + Len(name)
    BY <1>1, <1>6, Joined
<1> QED
    BY <1>1, <1>2, <1>5, <1>7 DEF name

(* A payload has a metric exactly when it is read of it.                   *)
LEMMA MetricHeld ==
    ASSUME NEW metric \in FittingMetrics, NEW p \in Seq(Byte), NEW at \in Nat
    PROVE  Has(p, at, MetricBytes(metric)) <=> Measures(p, at, metric)
<1> DEFINE name == metric.name
           a == Put(4, Len(name))
           b == Put(8, metric.value)
           k4 == at + 4
           k12 == at + 12
<1>1. /\ name \in Seq(Byte) /\ metric.value \in LongWords
      /\ Len(name) \in Words /\ Len(name) \in Nat
    BY MetricIs
<1>2. Len(p) \in Nat
    BY LenProperties
<1>3. MetricBytes(metric) = a \o b \o name
    BY DEF MetricBytes
<1>4. a \in Seq(Byte) /\ Len(a) = 4
    BY <1>1, PutIsBytes
<1>5. b \in Seq(Byte) /\ Len(b) = 8
    BY <1>1, LongLength
<1>6. k4 \in Nat /\ k12 \in Nat /\ k4 + 8 = k12 /\ k12 = at + 12
      /\ at + 4 = k4
    OBVIOUS
<1>7. at + 4 <= Len(p) =>
          (Has(p, at, a) <=> Get(p, at, 4) = Len(name))
    <2>1. Fits(Len(name), 4)
        BY <1>1, NumbersFit DEF Words
    <2>2. at + 4 <= Len(p) => Reaches(p, at, 4)
        BY DEF Reaches
    <2> HIDE DEF name
    <2> QED BY <2>1, <2>2, NumberAt
<1>8. Has(p, k4, b) <=> k4 + 8 <= Len(p) /\ Get(p, k4, 8) = metric.value
    <2> HIDE DEF k4
    <2> QED BY <1>1, <1>6, LongAt
<1> HIDE DEF a, b, name
<1>9. a \o b \in Seq(Byte) /\ Len(a \o b) = 12
    <2>1. a \o b \in Seq(Byte) /\ Len(a \o b) = Len(a) + Len(b)
        BY <1>4, <1>5, Joined
    <2> QED BY <1>4, <1>5, <2>1
<1>10. Has(p, at, a \o b) <=> Has(p, at, a) /\ Has(p, at + 4, b)
    <2>1. Has(p, at, a \o b) <=> Has(p, at, a) /\ Has(p, at + Len(a), b)
        BY <1>4, <1>5, JoinedAt
    <2> QED BY <1>4, <2>1
<1>11. Has(p, at, a \o b \o name) <=>
           Has(p, at, a \o b) /\ Has(p, at + 12, name)
    <2>1. Has(p, at, a \o b \o name) <=>
              Has(p, at, a \o b) /\ Has(p, at + Len(a \o b), name)
        BY <1>1, <1>9, JoinedAt
    <2> QED BY <1>9, <2>1
<1>12. k4 + 8 <= Len(p) => at + 4 <= Len(p)
    BY <1>2
<1>13. /\ k4 + 8 <= Len(p) <=> at + MetricFixed <= Len(p)
       /\ at + MetricFixed = k12
    BY DEF MetricFixed
<1> QED
    BY <1>3, <1>6, <1>7, <1>8, <1>10, <1>11, <1>12, <1>13
       DEF Measures, name

(* Where the metrics of a payload are.                                     *)
MetricPlaces(off, p, N) ==
    /\ off \in [0 .. N -> Nat]
    /\ off[0] = 16
    /\ \A k \in 1 .. N : off[k] = MetricEnd(p, off[k - 1])
    /\ \A k \in 0 .. N : MetricAt(p, k + 1) = off[k]

LEMMA MetricEndIs ==
    ASSUME NEW p \in Seq(Byte), NEW at \in Nat
    PROVE  /\ MetricEnd(p, at) \in Nat
           /\ at + 12 <= Len(p) =>
                 /\ Get(p, at, 4) \in Words /\ Get(p, at, 4) \in Nat
                 /\ Get(p, at + 4, 8) \in LongWords
                 /\ MetricEnd(p, at) = at + 12 + Get(p, at, 4)
           /\ ~(at + 12 <= Len(p)) => MetricEnd(p, at) = Len(p) + 1
<1>1. Len(p) \in Nat
    BY LenProperties
<1>2. ASSUME at + 12 <= Len(p)
      PROVE  /\ Get(p, at, 4) \in Words /\ Get(p, at, 4) \in Nat
             /\ Get(p, at + 4, 8) \in LongWords
             /\ MetricEnd(p, at) = at + 12 + Get(p, at, 4)
    <2>1. Reaches(p, at, 4)
        BY <1>1, <1>2 DEF Reaches
    <2>2. Get(p, at, 4) \in Words
        BY <2>1, GetIsNumber DEF Words
    <2>3. Get(p, at, 4) \in Nat
        BY <2>2, NumbersFit DEF Words
    <2>4. Get(p, at + 4, 8) \in LongWords
        <3> DEFINE k == at + 4
        <3>1. k \in Nat /\ k + 8 <= Len(p)
            BY <1>1, <1>2
        <3> HIDE DEF k
        <3>2. Reaches(p, k, 8)
            BY <3>1 DEF Reaches
        <3>3. Get(p, k, 8) \in LongWords
            BY <3>1, <3>2, GetIsNumber DEF LongWords
        <3> QED BY <3>3 DEF k
    <2>5. MetricEnd(p, at) = at + 12 + Get(p, at, 4)
        BY <1>1, <1>2 DEF MetricEnd, MetricFixed
    <2> QED BY <2>2, <2>3, <2>4, <2>5
<1>3. ASSUME ~(at + 12 <= Len(p))
      PROVE  MetricEnd(p, at) = Len(p) + 1
    BY <1>1, <1>3 DEF MetricEnd, MetricFixed
<1>4. MetricEnd(p, at) \in Nat
    BY <1>1, <1>2, <1>3
<1> QED
    BY <1>2, <1>3, <1>4

LEMMA MetricPlacesExist ==
    ASSUME NEW p \in Seq(Byte), NEW N \in Nat
    PROVE  \E off : MetricPlaces(off, p, N)
<1> DEFINE next(m) == MetricEnd(p, m)
           step == [k \in 1 .. N |-> [m \in Nat |-> next(m)]]
<1>0. \A m \in Nat : next(m) \in Nat
    BY MetricEndIs
<1> HIDE DEF next
<1>1. step \in [1 .. N -> [Nat -> Nat]]
    BY <1>0
<1>2. \A k \in 1 .. N : \A m \in Nat : step[k][m] = next(m)
    OBVIOUS
<1> HIDE DEF step
<1>3. PICK off \in [0 .. N -> Nat] : Iterates(off, 16, step, N)
    BY <1>1, Iteration
<1>4. /\ off[0] = 16
      /\ \A k \in 1 .. N : off[k] = next(off[k - 1])
    <2>1. \A k \in 1 .. N : off[k - 1] \in Nat
        OBVIOUS
    <2> QED BY <1>2, <1>3, <2>1 DEF Iterates
<1>5. ASSUME NEW k \in 0 .. N
      PROVE  MetricAt(p, k + 1) = off[k]
    <2> DEFINE Is(f) == f = [j \in 1 .. k + 1 |->
                                IF j = 1 THEN 16 ELSE next(f[j - 1])]
               at == CHOOSE f : Is(f)
               h == [j \in 1 .. k + 1 |-> off[j - 1]]
    <2>1. Is(h)
        <3>1. ASSUME NEW j \in 1 .. k + 1
              PROVE  h[j] = IF j = 1 THEN 16 ELSE next(h[j - 1])
            <4>1. CASE j = 1
                BY <1>4, <4>1
            <4>2. CASE j # 1
                <5> DEFINE i == j - 1
                <5>1. i \in 1 .. N /\ i \in 1 .. k + 1
                    BY <4>2
                <5>2. h[j] = off[i] /\ h[i] = off[i - 1]
                    BY <5>1
                <5> HIDE DEF i, h
                <5>3. off[i] = next(off[i - 1])
                    BY <1>4, <5>1
                <5>4. h[j] = next(h[i])
                    BY <5>2, <5>3
                <5> QED BY <4>2, <5>4 DEF i
            <4> QED BY <4>1, <4>2
        <3> QED BY <3>1
    <2>2. Is(at)
        <3> HIDE DEF Is
        <3> QED BY <2>1
    <2>3. \A j \in Nat : j <= k => at[j + 1] = off[j]
        <3> HIDE DEF at
        <3> DEFINE S == {j \in Nat : j <= k => at[j + 1] = off[j]}
        <3>1. 0 \in S
            BY <1>4, <2>2
        <3>2. ASSUME NEW j \in Nat, j \in S
              PROVE  j + 1 \in S
            <4> SUFFICES ASSUME j + 1 <= k PROVE at[j + 1 + 1] = off[j + 1]
                OBVIOUS
            <4> DEFINE i == j + 1
                       m == i + 1
            <4>1. /\ i \in 1 .. N /\ i - 1 = j
                  /\ m \in 1 .. k + 1 /\ m # 1 /\ m - 1 = i
                OBVIOUS
            <4>2. at[i] = off[i - 1]
                BY <3>2
            <4> HIDE DEF i, m
            <4>3. at[m] = next(at[i])
                BY <2>2, <4>1
            <4>4. off[i] = next(off[i - 1])
                BY <1>4, <4>1
            <4>5. at[m] = off[i]
                BY <4>2, <4>3, <4>4
            <4> QED BY <4>5 DEF i, m
        <3>3. \A j \in Nat : j \in S
            <4> HIDE DEF S
            <4> QED BY <3>1, <3>2, Induction
        <3> QED BY <3>3
    <2>4. MetricAt(p, k + 1) = at[k + 1]
        BY DEF MetricAt, ResponseFixed, next
    <2> HIDE DEF at
    <2> QED BY <2>3, <2>4
<1> QED
    BY <1>4, <1>5 DEF MetricPlaces, next

---------------------------------------------------------------------------
(* The metrics of a response                                               *)

(* What encode_predict_response puts one behind the other.                 *)
AllMetrics(metrics) ==
    FlattenSeq([i \in 1 .. Len(metrics) |-> MetricBytes(metrics[i])])

ResponseBytes(r) ==
    PutAll(4, <<r.chunk_size, r.action_dim, Len(r.actions), Len(r.metrics)>>)
        \o AllMetrics(r.metrics) \o PutAll(4, r.actions)

LEMMA AllMetricsPieces ==
    ASSUME NEW metrics \in Seq(FittingMetrics)
    PROVE  LET N == Len(metrics)
               ss == [i \in 1 .. N |-> MetricBytes(metrics[i])]
           IN  /\ N \in Nat /\ ss \in [1 .. N -> Seq(Byte)]
               /\ \A i \in 1 .. N :
                     /\ metrics[i] \in FittingMetrics
                     /\ Len(metrics[i].name) \in Nat
                     /\ ss[i] = MetricBytes(metrics[i])
                     /\ Len(ss[i]) = 12 + Len(metrics[i].name)
<1>1. /\ Len(metrics) \in Nat
      /\ \A i \in 1 .. Len(metrics) : metrics[i] \in FittingMetrics
    BY LenProperties, ElementOfSeq
<1> QED
    BY <1>1, MetricIs

LEMMA AllMetricsAreBytes ==
    ASSUME NEW metrics \in Seq(FittingMetrics)
    PROVE  AllMetrics(metrics) \in Seq(Byte)
<1> DEFINE N == Len(metrics)
           ss == [i \in 1 .. N |-> MetricBytes(metrics[i])]
<1>1. N \in Nat /\ ss \in [1 .. N -> Seq(Byte)]
    BY AllMetricsPieces
<1>2. AllMetrics(metrics) = FlattenSeq(ss)
    BY DEF AllMetrics
<1> HIDE DEF N, ss
<1>3. PICK g \in [0 .. N -> Seq(Byte)] :
          Joins(g, ss, N) /\ FlattenSeq(ss) = g[N]
    BY <1>1, FlattenIs
<1> QED
    BY <1>1, <1>2, <1>3

(* The metrics are where each one's length says that the next one is.      *)
MetricsAt(p, metrics) ==
    \A i \in 1 .. Len(metrics) : Measures(p, MetricAt(p, i), metrics[i])

LEMMA AllMetricsAt ==
    ASSUME NEW metrics \in Seq(FittingMetrics), NEW p \in Seq(Byte)
    PROVE  /\ Has(p, 16, AllMetrics(metrics)) <=>
                  16 <= Len(p) /\ MetricsAt(p, metrics)
           /\ MetricsAt(p, metrics) =>
                  16 + Len(AllMetrics(metrics)) = MetricAt(p, Len(metrics) + 1)
           /\ MetricAt(p, Len(metrics) + 1) \in Nat
<1> DEFINE N == Len(metrics)
           ss == [i \in 1 .. N |-> MetricBytes(metrics[i])]
<1>1. /\ N \in Nat /\ ss \in [1 .. N -> Seq(Byte)]
      /\ \A i \in 1 .. N :
            /\ metrics[i] \in FittingMetrics
            /\ Len(metrics[i].name) \in Nat
            /\ ss[i] = MetricBytes(metrics[i])
            /\ Len(ss[i]) = 12 + Len(metrics[i].name)
    BY AllMetricsPieces
<1>2. AllMetrics(metrics) = FlattenSeq(ss)
    BY DEF AllMetrics
<1> HIDE DEF ss
<1>3. PICK off : MetricPlaces(off, p, N)
    BY <1>1, MetricPlacesExist
<1>4. /\ off \in [0 .. N -> Nat] /\ off[0] = 16
      /\ off[N] = MetricAt(p, N + 1) /\ off[N] \in Nat
    BY <1>1, <1>3 DEF MetricPlaces
<1>5. ASSUME NEW i \in 1 .. N
      PROVE  off[i - 1] = MetricAt(p, i) /\ off[i - 1] \in Nat
    <2> DEFINE k == i - 1
    <2>1. k \in 0 .. N /\ k + 1 = i
        BY <1>1
    <2> HIDE DEF k
    <2>2. MetricAt(p, k + 1) = off[k] /\ off[k] \in Nat
        BY <1>3, <2>1 DEF MetricPlaces
    <2> QED BY <2>1, <2>2 DEF k
<1>6. ASSUME NEW i \in 1 .. N, NEW at \in Nat
      PROVE  /\ Has(p, at, ss[i]) <=> Measures(p, at, metrics[i])
             /\ Has(p, at, ss[i]) => MetricEnd(p, at) = at + Len(ss[i])
    <2>1. Has(p, at, ss[i]) <=> Measures(p, at, metrics[i])
        BY <1>1, <1>6, MetricHeld
    <2>2. ASSUME Measures(p, at, metrics[i])
          PROVE  MetricEnd(p, at) = at + Len(ss[i])
        <3> DEFINE n == Len(metrics[i].name)
        <3>1. at + 12 <= Len(p) /\ Get(p, at, 4) = n
            BY <2>2 DEF Measures, MetricFixed
        <3>2. MetricEnd(p, at) = at + 12 + n
            BY <3>1, MetricEndIs
        <3>3. n \in Nat /\ Len(ss[i]) = 12 + n
            BY <1>1
        <3> HIDE DEF n
        <3>4. at + 12 + n = at + (12 + n)
            BY <3>3
        <3> QED BY <3>2, <3>3, <3>4
    <2> QED BY <2>1, <2>2
<1>7. HasAll(p, off, ss, N) <=> MetricsAt(p, metrics)
    BY <1>5, <1>6 DEF HasAll, MetricsAt
<1>8. ASSUME MetricsAt(p, metrics)
      PROVE  /\ 16 <= Len(p) => Has(p, 16, AllMetrics(metrics))
             /\ 16 + Len(AllMetrics(metrics)) = MetricAt(p, N + 1)
    <2>1. Offsets(off, ss, N)
        <3>1. ASSUME NEW k \in 1 .. N
              PROVE  off[k] = off[k - 1] + Len(ss[k])
            <4>1. off[k] = MetricEnd(p, off[k - 1])
                BY <1>3 DEF MetricPlaces
            <4>2. off[k - 1] \in Nat /\ Has(p, off[k - 1], ss[k])
                BY <1>5, <1>7, <1>8 DEF HasAll
            <4> DEFINE at == off[k - 1]
            <4> HIDE DEF at
            <4>3. MetricEnd(p, at) = at + Len(ss[k])
                BY <1>6, <4>2 DEF at
            <4> QED BY <4>1, <4>3 DEF at
        <3> QED BY <1>4, <3>1 DEF Offsets
    <2> HIDE DEF N
    <2>2. off[0] + Len(FlattenSeq(ss)) = off[N]
        BY <1>1, <2>1, Pieces
    <2>3. Has(p, off[0], FlattenSeq(ss)) <=>
              off[0] <= Len(p) /\ HasAll(p, off, ss, N)
        BY <1>1, <2>1, PiecesAt
    <2> QED BY <1>2, <1>4, <1>7, <1>8, <2>2, <2>3
<1>9. ASSUME Has(p, 16, AllMetrics(metrics))
      PROVE  16 <= Len(p) /\ MetricsAt(p, metrics)
    <2> DEFINE len(k) == Len(ss[k])
               step == [k \in 1 .. N |-> [m \in Nat |-> m + len(k)]]
    <2>1. \A k \in 1 .. N : len(k) \in Nat
        BY <1>1
    <2> HIDE DEF len
    <2>2. step \in [1 .. N -> [Nat -> Nat]]
        BY <2>1
    <2>3. \A k \in 1 .. N : \A m \in Nat : step[k][m] = m + len(k)
        OBVIOUS
    <2> HIDE DEF step
    <2>4. PICK at \in [0 .. N -> Nat] : Iterates(at, 16, step, N)
        <3>1. 16 \in Nat
            OBVIOUS
        <3> HIDE DEF N
        <3> QED BY <1>1, <2>2, <3>1, Iteration
    <2>5. /\ at[0] = 16
          /\ \A k \in 1 .. N : /\ at[k] = at[k - 1] + Len(ss[k])
                               /\ at[k - 1] \in Nat
        <3>1. \A k \in 1 .. N : at[k - 1] \in Nat
            OBVIOUS
        <3> QED BY <2>3, <2>4, <3>1 DEF Iterates, len
    <2>6. Offsets(at, ss, N)
        BY <2>4, <2>5 DEF Offsets
    <2>7. 16 <= Len(p) /\ HasAll(p, at, ss, N)
        <3> HIDE DEF N
        <3>1. Has(p, at[0], FlattenSeq(ss)) <=>
                  at[0] <= Len(p) /\ HasAll(p, at, ss, N)
            BY <1>1, <2>6, PiecesAt
        <3> QED BY <1>2, <1>9, <2>5, <3>1
    <2>8. \A k \in Nat : k <= N => at[k] = off[k]
        <3> DEFINE S == {k \in Nat : k <= N => at[k] = off[k]}
        <3>1. 0 \in S
            BY <1>4, <2>5
        <3>2. ASSUME NEW k \in Nat, k \in S
              PROVE  k + 1 \in S
            <4> SUFFICES ASSUME k + 1 <= N PROVE at[k + 1] = off[k + 1]
                OBVIOUS
            <4> DEFINE m == k + 1
            <4>1. m \in 1 .. N /\ m - 1 = k
                BY <1>1
            <4>2. at[k] = off[k]
                BY <1>1, <3>2
            <4> HIDE DEF m
            <4>3. at[m] = at[k] + Len(ss[m]) /\ at[k] \in Nat
                BY <2>5, <4>1
            <4>4. off[m] = MetricEnd(p, off[k])
                BY <1>3, <4>1 DEF MetricPlaces
            <4>5. Has(p, at[k], ss[m])
                BY <2>7, <4>1 DEF HasAll
            <4> DEFINE x == at[k]
            <4> HIDE DEF x
            <4>6. MetricEnd(p, x) = x + Len(ss[m])
                BY <1>6, <4>1, <4>3, <4>5 DEF x
            <4> QED BY <4>2, <4>3, <4>4, <4>6 DEF x, m
        <3>3. \A k \in Nat : k \in S
            <4> HIDE DEF S
            <4> QED BY <3>1, <3>2, Induction
        <3> QED BY <3>3
    <2>9. \A i \in 1 .. N : at[i - 1] = off[i - 1]
        <3>1. \A i \in 1 .. N : i - 1 \in Nat /\ i - 1 <= N
            BY <1>1
        <3> QED BY <2>8, <3>1
    <2>10. HasAll(p, off, ss, N)
        BY <2>7, <2>9 DEF HasAll
    <2> QED BY <1>7, <2>7, <2>10
<1> QED
    BY <1>4, <1>8, <1>9

---------------------------------------------------------------------------
(* A payload that encodes a response                                       *)

(* What is in a payload that is the encoding of a response.                *)
Announces(p, r) ==
    /\ 16 <= Len(p)
    /\ Get(p, 0, 4) = r.chunk_size /\ Get(p, 4, 4) = r.action_dim
    /\ ActionCount(p) = Len(r.actions) /\ MetricCount(p) = Len(r.metrics)

ActionsAt(p, r) == MetricAt(p, Len(r.metrics) + 1)

Answers(p, r) ==
    /\ Announces(p, r)
    /\ MetricsAt(p, r.metrics)
    /\ NumbersAt(p, ActionsAt(p, r), r.actions)
    /\ ActionsAt(p, r) + 4 * Len(r.actions) = Len(p)

LEMMA AnnouncedAt ==
    ASSUME NEW r \in FittingResponses, NEW p \in Seq(Byte)
    PROVE  LET header == PutAll(4, <<r.chunk_size, r.action_dim,
                                     Len(r.actions), Len(r.metrics)>>)
           IN  /\ header \in Seq(Byte) /\ Len(header) = 16
               /\ Has(p, 0, header) <=> Announces(p, r)
<1> DEFINE a == r.chunk_size
           b == r.action_dim
           c == Len(r.actions)
           d == Len(r.metrics)
           header == PutAll(4, <<a, b, c, d>>)
<1>1. a \in Words /\ b \in Words /\ c \in Words /\ d \in Words
    BY FittingAnswer
<1> HIDE DEF a, b, c, d
<1>2. header \in Seq(Byte) /\ Len(header) = 16
    BY <1>1, FourWords
<1>3. Has(p, 0, header) <=>
          /\ 0 + 16 <= Len(p)
          /\ Get(p, 0, 4) = a /\ Get(p, 0 + 4, 4) = b
          /\ Get(p, 0 + 8, 4) = c /\ Get(p, 0 + 12, 4) = d
    BY <1>1, FourWordsAt
<1>4. 0 + 16 = 16 /\ 0 + 4 = 4 /\ 0 + 8 = 8 /\ 0 + 12 = 12
    OBVIOUS
<1>5. Has(p, 0, header) <=> Announces(p, r)
    BY <1>3, <1>4 DEF Announces, ActionCount, MetricCount, a, b, c, d
<1> QED
    BY <1>2, <1>5 DEF a, b, c, d

LEMMA ResponseLayout ==
    ASSUME NEW r \in FittingResponses, NEW p \in Seq(Byte)
    PROVE  /\ ResponseBytes(r) \in Seq(Byte)
           /\ p = ResponseBytes(r) <=> Answers(p, r)
<1> DEFINE a == PutAll(4, <<r.chunk_size, r.action_dim,
                            Len(r.actions), Len(r.metrics)>>)
           b == AllMetrics(r.metrics)
           c == PutAll(4, r.actions)
           x == Len(r.actions)
           at == ActionsAt(p, r)
<1>1. /\ r.actions \in Seq(Words) /\ r.metrics \in Seq(FittingMetrics)
      /\ x \in Nat /\ Len(p) \in Nat
    BY FittingAnswer, LenProperties
<1>2. ResponseBytes(r) = a \o b \o c
    BY DEF ResponseBytes
<1>3. /\ a \in Seq(Byte) /\ Len(a) = 16
      /\ Has(p, 0, a) <=> Announces(p, r)
    BY AnnouncedAt
<1>4. /\ b \in Seq(Byte) /\ Len(b) \in Nat
      /\ Has(p, 16, b) <=> 16 <= Len(p) /\ MetricsAt(p, r.metrics)
      /\ MetricsAt(p, r.metrics) => 16 + Len(b) = at
      /\ at \in Nat
    BY <1>1, AllMetricsAreBytes, AllMetricsAt, LenProperties DEF ActionsAt
<1>5. /\ c \in Seq(Byte) /\ Len(c) = 4 * x
      /\ Has(p, at, c) <=> NumbersAt(p, at, r.actions)
    <2>1. c \in Seq(Byte) /\ Len(c) = 4 * x
        BY <1>1, WordsLength
    <2>2. Has(p, at, c) <=> NumbersAt(p, at, r.actions)
        <3> HIDE DEF at
        <3> QED BY <1>1, <1>4, WordsAt DEF NumbersAt
    <2> QED BY <2>1, <2>2
<1>6. Answers(p, r) <=> /\ Announces(p, r) /\ MetricsAt(p, r.metrics)
                        /\ NumbersAt(p, at, r.actions)
                        /\ at + 4 * x = Len(p)
    BY DEF Answers
<1>7. Announces(p, r) => 16 <= Len(p)
    BY DEF Announces
<1> HIDE DEF a, b, c, x, at
<1> DEFINE ab == a \o b
           n == 16 + Len(b)
<1>8. /\ ab \in Seq(Byte) /\ Len(ab) = n /\ n \in Nat
      /\ Has(p, 0, ab) <=> Has(p, 0, a) /\ Has(p, 16, b)
    <2> DEFINE m == Len(a)
    <2>1. m \in Nat /\ Len(a) = m /\ m = 16
        BY <1>3
    <2>2. a \in Seq(Byte) /\ b \in Seq(Byte)
        BY <1>3, <1>4
    <2> HIDE DEF m
    <2>3. /\ a \o b \in Seq(Byte) /\ Len(a \o b) = m + Len(b)
          /\ m + Len(b) \in Nat
          /\ Has(p, 0, a \o b) <=> Has(p, 0, a) /\ Has(p, m, b)
        <3>1. 0 \in Nat /\ 0 + m = m
            BY <2>1
        <3>2. a \o b \in Seq(Byte) /\ Len(a \o b) = m + Len(b)
            BY <2>1, <2>2, Joined
        <3>3. m + Len(b) \in Nat
            BY <1>4, <2>1
        <3>4. Has(p, 0, a \o b) <=> Has(p, 0, a) /\ Has(p, 0 + Len(a), b)
            BY <2>2, <3>1, JoinedAt
        <3>5. 0 + Len(a) = m
            BY <2>1
        <3> QED BY <3>2, <3>3, <3>4, <3>5
    <2> QED BY <2>1, <2>3
<1> HIDE DEF ab
<1>9. /\ ab \o c \in Seq(Byte) /\ Len(ab \o c) = n + Len(c)
      /\ Has(p, 0, ab \o c) <=> Has(p, 0, ab) /\ Has(p, n, c)
    <2> HIDE DEF n
    <2> QED BY <1>5, <1>8, OneMoreAt
<1>10. ResponseBytes(r) = ab \o c
    BY <1>2 DEF ab
<1>11. p = ResponseBytes(r) <=>
           Has(p, 0, ab \o c) /\ Len(p) = Len(ab \o c)
    BY <1>9, <1>10, WholeText
<1>12. p = ResponseBytes(r) <=>
           /\ Announces(p, r) /\ MetricsAt(p, r.metrics)
           /\ Has(p, n, c) /\ Len(p) = n + 4 * x
    BY <1>3, <1>4, <1>5, <1>7, <1>8, <1>9, <1>11
<1>13. MetricsAt(p, r.metrics) => n = at
    BY <1>4
<1> HIDE DEF n
<1>14. p = ResponseBytes(r) <=> Answers(p, r)
    BY <1>5, <1>6, <1>12, <1>13
<1> QED
    BY <1>9, <1>10, <1>14

LEMMA EncodeResponseIs ==
    ASSUME NEW r \in FittingResponses
    PROVE  EncodeResponse(r) =
               IF /\ r.chunk_size * r.action_dim = Len(r.actions)
                  /\ \A i \in 1 .. Len(r.metrics) : r.metrics[i].name # <<>>
               THEN Payload(ResponseBytes(r)) ELSE Refused
<1>1. \A n \in Words : n < Word
    BY NumbersFit DEF Words
<1>2. CountFits(r.actions) /\ CountFits(r.metrics)
    BY <1>1, FittingAnswer DEF CountFits
<1>3. \A i \in 1 .. Len(r.metrics) : CountFits(r.metrics[i].name)
    <2> SUFFICES ASSUME NEW i \in 1 .. Len(r.metrics)
                 PROVE  CountFits(r.metrics[i].name)
        OBVIOUS
    <2>1. r.metrics[i] \in FittingMetrics
        BY FittingAnswer, ElementOfSeq
    <2> QED BY <1>1, <2>1 DEF FittingMetrics, CountFits
<1> QED
    BY <1>2, <1>3 DEF EncodeResponse, ResponseBytes, AllMetrics

(* What is read of a payload that holds a response is the response.        *)
LEMMA AnswerIsRead ==
    ASSUME NEW r \in FittingResponses, NEW p \in Seq(Byte), Answers(p, r)
    PROVE  /\ Metrics(p) = r.metrics
           /\ Actions(p) = r.actions
           /\ ActionsEnd(p) = Len(p)
           /\ r.chunk_size * r.action_dim = Len(r.actions) => ShapeIsRight(p)
           /\ Get(p, 0, 4) = r.chunk_size
           /\ Get(p, 4, 4) = r.action_dim
           /\ MetricCount(p) = Len(r.metrics)
<1>1. /\ r.actions \in Seq(Words) /\ r.metrics \in Seq(FittingMetrics)
      /\ Len(r.actions) \in Nat /\ Len(r.metrics) \in Nat
    BY FittingAnswer
<1>2. /\ Announces(p, r) /\ MetricsAt(p, r.metrics)
      /\ NumbersAt(p, ActionsAt(p, r), r.actions)
      /\ ActionsAt(p, r) + 4 * Len(r.actions) = Len(p)
    BY DEF Answers
<1>3. /\ MetricCount(p) = Len(r.metrics) /\ ActionCount(p) = Len(r.actions)
      /\ Get(p, 0, 4) = r.chunk_size /\ Get(p, 4, 4) = r.action_dim
      /\ 16 <= Len(p)
    BY <1>2 DEF Announces
<1>4. Actions(p) = r.actions
    BY <1>2, <1>3 DEF Actions, NumbersAt, ActionsAt
<1>5. ActionsEnd(p) = Len(p)
    BY <1>2, <1>3 DEF ActionsEnd, ActionsAt
<1>6. r.chunk_size * r.action_dim = Len(r.actions) => ShapeIsRight(p)
    BY <1>3 DEF ShapeIsRight, ResponseFixed
<1>7. ASSUME NEW i \in 1 .. Len(r.metrics)
      PROVE  [name |-> Cut(p, MetricAt(p, i) + MetricFixed,
                           Get(p, MetricAt(p, i), 4)),
              value |-> Get(p, MetricAt(p, i) + 4, 8)] = r.metrics[i]
    <2> DEFINE metric == r.metrics[i]
               at == MetricAt(p, i)
    <2>1. metric \in FittingMetrics
        BY <1>1, ElementOfSeq
    <2>2. Measures(p, at, metric)
        BY <1>2 DEF MetricsAt
    <2>3. at \in Nat
        <3> DEFINE N == Len(r.metrics)
                   k == i - 1
        <3>1. PICK off : MetricPlaces(off, p, N)
            BY <1>1, MetricPlacesExist
        <3>2. k \in 0 .. N /\ k + 1 = i
            BY <1>1
        <3> HIDE DEF k
        <3>3. MetricAt(p, k + 1) = off[k] /\ off[k] \in Nat
            BY <3>1, <3>2 DEF MetricPlaces
        <3> QED BY <3>2, <3>3
    <2> HIDE DEF metric, at
    <2>4. metric.name \in Seq(Byte)
        BY <2>1, MetricIs
    <2>5. Cut(p, at + MetricFixed, Len(metric.name)) = metric.name
        <3>1. at + MetricFixed \in Nat
            BY <2>3 DEF MetricFixed
        <3>2. Has(p, at + MetricFixed, metric.name)
            BY <2>2 DEF Measures
        <3> QED BY <2>4, <3>1, <3>2, TextAt
    <2>6. /\ Get(p, at, 4) = Len(metric.name)
          /\ Get(p, at + 4, 8) = metric.value
        BY <2>2 DEF Measures
    <2>7. metric = [name |-> metric.name, value |-> metric.value]
        BY <2>1 DEF FittingMetrics
    <2>8. [name |-> Cut(p, at + MetricFixed, Get(p, at, 4)),
           value |-> Get(p, at + 4, 8)] = metric
        BY <2>5, <2>6, <2>7
    <2> QED BY <2>8 DEF metric, at
<1>8. Metrics(p) = r.metrics
    <2>1. r.metrics = [i \in 1 .. Len(r.metrics) |-> r.metrics[i]]
        BY <1>1, LenProperties
    <2>2. Metrics(p) =
              [i \in 1 .. Len(r.metrics) |->
                  [name |-> Cut(p, MetricAt(p, i) + MetricFixed,
                                Get(p, MetricAt(p, i), 4)),
                   value |-> Get(p, MetricAt(p, i) + 4, 8)]]
        BY <1>3 DEF Metrics
    <2> QED BY <1>7, <2>1, <2>2
<1> QED
    BY <1>3, <1>4, <1>5, <1>6, <1>8

(* So every response survives, on its way to either client.                *)
LEMMA FittingResponseSurvives ==
    ASSUME NEW r \in FittingResponses
    PROVE  ResponseSurvives(r)
<1> DEFINE p == ResponseBytes(r)
           named == \A i \in 1 .. Len(r.metrics) : r.metrics[i].name # <<>>
<1>1. p \in Seq(Byte)
    <2>1. <<>> \in Seq(Byte)
        BY EmptySeq
    <2> QED BY <2>1, ResponseLayout
<1>2. Answers(p, r)
    BY <1>1, ResponseLayout
<1>3. EncodeResponse(r) =
          IF r.chunk_size * r.action_dim = Len(r.actions) /\ named
          THEN Payload(p) ELSE Refused
    BY EncodeResponseIs
<1> HIDE DEF p
<1>4. CASE r.chunk_size * r.action_dim = Len(r.actions) /\ named
    <2>1. /\ Metrics(p) = r.metrics /\ Actions(p) = r.actions
          /\ ActionsEnd(p) = Len(p) /\ ShapeIsRight(p)
          /\ Get(p, 0, 4) = r.chunk_size /\ Get(p, 4, 4) = r.action_dim
          /\ MetricCount(p) = Len(r.metrics)
        BY <1>1, <1>2, <1>4, AnswerIsRead
    <2>2. r = [chunk_size |-> r.chunk_size, action_dim |-> r.action_dim,
               actions |-> r.actions, metrics |-> r.metrics]
        BY DEF FittingResponses
    <2>3. ~\E i \in 1 .. MetricCount(p) : Metrics(p)[i].name = <<>>
        BY <1>4, <2>1
    <2>4. DecodeResponse(p) = [ok |-> TRUE, message |-> r]
        BY <2>1, <2>2, <2>3 DEF DecodeResponse, EndsAt
    <2>5. PythonDecode(p) =
              [ok |-> TRUE,
               message |-> [chunk_size |-> r.chunk_size,
                            action_dim |-> r.action_dim,
                            actions |-> r.actions,
                            timings |-> Timings(r.metrics)]]
        BY <2>1 DEF PythonDecode, PythonEnds
    <2>6. EncodeResponse(r).payload = p
        BY <1>3, <1>4 DEF Payload
    <2> QED BY <2>4, <2>5, <2>6 DEF ResponseSurvives
<1>5. CASE ~(r.chunk_size * r.action_dim = Len(r.actions) /\ named)
    BY <1>3, <1>5 DEF ResponseSurvives, Refused
<1> QED
    BY <1>4, <1>5

---------------------------------------------------------------------------
(* What a client accepts of a server                                       *)

LEMMA ResponseCounts ==
    ASSUME NEW p \in Seq(Byte), ShapeIsRight(p)
    PROVE  /\ 16 <= Len(p) /\ Len(p) \in Nat
           /\ Get(p, 0, 4) \in Words /\ Get(p, 4, 4) \in Words
           /\ ActionCount(p) \in Words /\ MetricCount(p) \in Words
           /\ ActionCount(p) \in Nat /\ MetricCount(p) \in Nat
           /\ Get(p, 0, 4) * Get(p, 4, 4) = ActionCount(p)
<1>1. 16 <= Len(p) /\ Len(p) \in Nat
    BY LenProperties DEF ShapeIsRight, ResponseFixed
<1>2. /\ Reaches(p, 0, 4) /\ Reaches(p, 4, 4)
      /\ Reaches(p, 8, 4) /\ Reaches(p, 12, 4)
    BY <1>1 DEF Reaches
<1>3. /\ Get(p, 0, 4) \in Words /\ Get(p, 4, 4) \in Words
      /\ ActionCount(p) \in Words /\ MetricCount(p) \in Words
    BY <1>2, GetIsNumber DEF Words, ActionCount, MetricCount
<1>4. \A k \in Words : k \in Nat
    BY NumbersFit DEF Words
<1> QED
    BY <1>1, <1>3, <1>4 DEF ShapeIsRight

(* Once a metric is cut short, all behind it are behind the payload.       *)
LEMMA MetricsReach ==
    ASSUME NEW p \in Seq(Byte), NEW N \in Nat, NEW off,
           MetricPlaces(off, p, N), off[N] <= Len(p)
    PROVE  /\ \A k \in 0 .. N : off[k] \in Nat /\ off[k] <= Len(p)
           /\ \A i \in 1 .. N :
                 /\ off[i - 1] + 12 <= Len(p)
                 /\ off[i - 1] + 12 + Get(p, off[i - 1], 4) <= Len(p)
<1>1. \A k \in 0 .. N : off[k] \in Nat
    BY DEF MetricPlaces
<1>2. Len(p) \in Nat
    BY LenProperties
<1>3. ASSUME NEW i \in 1 .. N, off[i] <= Len(p)
      PROVE  /\ off[i - 1] \in Nat
             /\ off[i - 1] + 12 <= Len(p)
             /\ off[i - 1] + 12 + Get(p, off[i - 1], 4) <= Len(p)
             /\ off[i - 1] <= Len(p)
    <2> DEFINE at == off[i - 1]
    <2>1. i - 1 \in 0 .. N
        OBVIOUS
    <2>2. at \in Nat
        BY <1>1, <2>1
    <2>3. off[i] = MetricEnd(p, at)
        BY DEF MetricPlaces
    <2> HIDE DEF at
    <2>4. at + 12 <= Len(p)
        <3>1. ~(at + 12 <= Len(p)) => MetricEnd(p, at) = Len(p) + 1
            BY <2>2, MetricEndIs
        <3>2. MetricEnd(p, at) <= Len(p)
            BY <1>3, <2>3
        <3> QED BY <1>2, <3>1, <3>2
    <2>5. MetricEnd(p, at) = at + 12 + Get(p, at, 4)
        BY <2>2, <2>4, MetricEndIs
    <2>6. at <= Len(p)
        BY <1>2, <2>2, <2>4
    <2> QED BY <1>3, <2>2, <2>3, <2>4, <2>5, <2>6 DEF at
<1> DEFINE S == {k \in Nat : k <= N => off[N - k] <= Len(p)}
<1>4. 0 \in S
    <2>1. N - 0 = N
        OBVIOUS
    <2> QED BY <2>1
<1>5. ASSUME NEW k \in Nat, k \in S
      PROVE  k + 1 \in S
    <2> SUFFICES ASSUME k + 1 <= N PROVE off[N - (k + 1)] <= Len(p)
        OBVIOUS
    <2> DEFINE m == N - k
    <2>1. m \in 1 .. N /\ N - (k + 1) = m - 1
        OBVIOUS
    <2>2. off[m] <= Len(p)
        BY <1>5
    <2> HIDE DEF m
    <2>3. off[m - 1] <= Len(p)
        BY <1>3, <2>1, <2>2
    <2> QED BY <2>1, <2>3
<1>6. \A k \in Nat : k \in S
    <2> HIDE DEF S
    <2> QED BY <1>4, <1>5, Induction
<1>7. ASSUME NEW k \in 0 .. N
      PROVE  off[k] <= Len(p)
    <2>1. N - k \in Nat /\ N - k <= N /\ N - (N - k) = k
        OBVIOUS
    <2>2. off[N - (N - k)] <= Len(p)
        BY <1>6, <2>1
    <2> QED BY <2>1, <2>2
<1>8. \A i \in 1 .. N : off[i] <= Len(p)
    BY <1>7
<1> QED
    BY <1>1, <1>3, <1>7, <1>8

LEMMA MetricsFit ==
    ASSUME NEW p \in Seq(Byte), ShapeIsRight(p), ActionsEnd(p) = Len(p)
    PROVE  /\ MetricAt(p, MetricCount(p) + 1) \in Nat
           /\ MetricAt(p, MetricCount(p) + 1) + 4 * ActionCount(p) = Len(p)
           /\ \A i \in 1 .. MetricCount(p) :
                 /\ MetricAt(p, i) \in Nat
                 /\ MetricAt(p, i) + 12 <= Len(p)
                 /\ MetricAt(p, i) + 12 + Get(p, MetricAt(p, i), 4) <= Len(p)
<1> DEFINE N == MetricCount(p)
           end == MetricAt(p, N + 1)
<1>1. N \in Nat /\ ActionCount(p) \in Nat /\ Len(p) \in Nat
    BY ResponseCounts
<1>2. end + 4 * ActionCount(p) = Len(p)
    BY DEF ActionsEnd
<1> HIDE DEF N
<1>3. PICK off : MetricPlaces(off, p, N)
    BY <1>1, MetricPlacesExist
<1>4. end = off[N] /\ off[N] \in Nat
    BY <1>1, <1>3 DEF MetricPlaces
<1> HIDE DEF end
<1>5. end <= Len(p)
    BY <1>1, <1>2, <1>4
<1>6. \A i \in 1 .. N :
          /\ off[i - 1] + 12 <= Len(p)
          /\ off[i - 1] + 12 + Get(p, off[i - 1], 4) <= Len(p)
    BY <1>1, <1>3, <1>4, <1>5, MetricsReach
<1>7. ASSUME NEW i \in 1 .. N
      PROVE  off[i - 1] = MetricAt(p, i) /\ off[i - 1] \in Nat
    <2> DEFINE k == i - 1
    <2>1. k \in 0 .. N /\ k + 1 = i
        BY <1>1
    <2> HIDE DEF k
    <2>2. MetricAt(p, k + 1) = off[k] /\ off[k] \in Nat
        BY <1>3, <2>1 DEF MetricPlaces
    <2> QED BY <2>1, <2>2 DEF k
<1> QED
    BY <1>2, <1>4, <1>6, <1>7 DEF N, end

ReadResponse(p) ==
    [chunk_size |-> Get(p, 0, 4), action_dim |-> Get(p, 4, 4),
     actions |-> Actions(p), metrics |-> Metrics(p)]

LEMMA ReadIsAnswer ==
    ASSUME NEW p \in Seq(Byte), ShapeIsRight(p), ActionsEnd(p) = Len(p)
    PROVE  /\ ReadResponse(p) \in FittingResponses
           /\ Answers(p, ReadResponse(p))
           /\ Len(ReadResponse(p).actions) = ActionCount(p)
           /\ Len(ReadResponse(p).metrics) = MetricCount(p)
<1> DEFINE r == ReadResponse(p)
           N == MetricCount(p)
           metrics == Metrics(p)
           actions == Actions(p)
           end == MetricAt(p, N + 1)
<1>1. /\ 16 <= Len(p) /\ Len(p) \in Nat
      /\ Get(p, 0, 4) \in Words /\ Get(p, 4, 4) \in Words
      /\ ActionCount(p) \in Words /\ N \in Words
      /\ ActionCount(p) \in Nat /\ N \in Nat
    BY ResponseCounts
<1>2. end \in Nat /\ end + 4 * ActionCount(p) = Len(p)
    BY MetricsFit
<1>3. /\ actions \in Seq(Words) /\ Len(actions) = ActionCount(p)
      /\ NumbersAt(p, end, actions)
    <2>1. actions = GetAll(p, end, 4, ActionCount(p))
        BY DEF Actions
    <2> HIDE DEF actions, end
    <2>2. end + 4 * ActionCount(p) <= Len(p)
        BY <1>1, <1>2
    <2> QED BY <1>1, <1>2, <2>1, <2>2, NumbersRead
<1>4. ASSUME NEW i \in 1 .. N
      PROVE  /\ metrics[i] \in FittingMetrics
             /\ Measures(p, MetricAt(p, i), metrics[i])
    <2> DEFINE at == MetricAt(p, i)
               n == Get(p, at, 4)
               s == Cut(p, at + MetricFixed, n)
               v == Get(p, at + 4, 8)
    <2>1. at \in Nat /\ at + 12 <= Len(p) /\ at + 12 + n <= Len(p)
        BY MetricsFit
    <2>2. metrics[i] = [name |-> s, value |-> v]
        BY DEF Metrics
    <2> HIDE DEF at
    <2>3. n \in Words /\ n \in Nat /\ v \in LongWords
        BY <2>1, MetricEndIs
    <2>4. n = Get(p, at, 4) /\ v = Get(p, at + 4, 8)
        OBVIOUS
    <2> HIDE DEF n, v
    <2>5. s \in Seq(Byte) /\ Len(s) = n /\ Has(p, at + MetricFixed, s)
        <3> DEFINE k == at + MetricFixed
        <3>1. k \in Nat /\ k + n <= Len(p) /\ s = Cut(p, k, n)
            BY <2>1, <2>3 DEF MetricFixed
        <3> HIDE DEF k, s
        <3>2. s \in Seq(Byte) /\ Len(s) = n
            BY <2>3, <3>1, TextAt
        <3>3. k + Len(s) <= Len(p) /\ Cut(p, k, Len(s)) = s
            BY <3>1, <3>2
        <3>4. Has(p, k, s)
            BY <3>1, <3>2, <3>3, TextAt
        <3> QED BY <3>2, <3>4 DEF k
    <2> HIDE DEF s, metrics
    <2>6. metrics[i] \in FittingMetrics
        BY <2>2, <2>3, <2>5 DEF FittingMetrics
    <2>7. Measures(p, at, metrics[i])
        BY <2>1, <2>2, <2>4, <2>5 DEF Measures, MetricFixed
    <2> QED BY <2>6, <2>7 DEF at
<1>5. metrics \in Seq(FittingMetrics) /\ Len(metrics) = N
    <2>1. metrics = [i \in 1 .. N |-> metrics[i]]
        BY DEF Metrics
    <2> HIDE DEF metrics, N
    <2>2. metrics \in [1 .. N -> FittingMetrics]
        BY <1>4, <2>1
    <2> QED BY <1>1, <2>2, FunctionIsSequence
<1>6. MetricsAt(p, metrics)
    <2> HIDE DEF metrics
    <2> QED BY <1>4, <1>5 DEF MetricsAt
<1>7. r = [chunk_size |-> Get(p, 0, 4), action_dim |-> Get(p, 4, 4),
           actions |-> actions, metrics |-> metrics]
    BY DEF ReadResponse
<1>8. N = MetricCount(p) /\ end = MetricAt(p, N + 1)
    OBVIOUS
<1> HIDE DEF r, N, metrics, actions, end
<1>9. r \in FittingResponses
    BY <1>1, <1>3, <1>5, <1>7 DEF FittingResponses
<1>10. Announces(p, r)
    BY <1>1, <1>3, <1>5, <1>7, <1>8 DEF Announces
<1>11. ActionsAt(p, r) = end
    BY <1>5, <1>7, <1>8 DEF ActionsAt
<1>12. Answers(p, r)
    BY <1>2, <1>3, <1>6, <1>7, <1>10, <1>11 DEF Answers
<1> QED
    BY <1>3, <1>5, <1>7, <1>8, <1>9, <1>12 DEF r

LEMMA EveryResponseIsExact ==
    ASSUME NEW p \in Seq(Byte)
    PROVE  ResponseIsExact(p)
<1> DEFINE unnamed == \E i \in 1 .. MetricCount(p) :
                          Metrics(p)[i].name = <<>>
           r == ReadResponse(p)
<1>1. DecodeResponse(p) =
          IF ShapeIsRight(p) /\ ActionsEnd(p) = Len(p) /\ ~unnamed
          THEN [ok |-> TRUE, message |-> r] ELSE Refused
    BY DEF DecodeResponse, EndsAt, ReadResponse
<1>2. CASE ShapeIsRight(p) /\ ActionsEnd(p) = Len(p) /\ ~unnamed
    <2>1. /\ r \in FittingResponses /\ Answers(p, r)
          /\ Len(r.actions) = ActionCount(p)
          /\ Len(r.metrics) = MetricCount(p)
        BY <1>2, ReadIsAnswer
    <2>2. /\ r.chunk_size = Get(p, 0, 4) /\ r.action_dim = Get(p, 4, 4)
          /\ r.metrics = Metrics(p)
        BY DEF ReadResponse
    <2>3. /\ r.chunk_size * r.action_dim = Len(r.actions)
          /\ \A i \in 1 .. Len(r.metrics) : r.metrics[i].name # <<>>
        BY <1>2, <2>1, <2>2, ResponseCounts
    <2>4. DecodeResponse(p).message = r
        BY <1>1, <1>2
    <2> HIDE DEF r
    <2>5. p = ResponseBytes(r)
        BY <2>1, ResponseLayout
    <2>6. EncodeResponse(r) = Payload(ResponseBytes(r))
        BY <2>1, <2>3, EncodeResponseIs
    <2> QED BY <2>4, <2>5, <2>6 DEF ResponseIsExact
<1>3. CASE ~(ShapeIsRight(p) /\ ActionsEnd(p) = Len(p) /\ ~unnamed)
    BY <1>1, <1>3 DEF ResponseIsExact, Refused
<1> QED
    BY <1>2, <1>3

---------------------------------------------------------------------------
(* The names of timings                                                    *)

(* The first elements of the first elements.                               *)
LEMMA PrefixOfPrefix ==
    ASSUME NEW S, NEW s \in Seq(S), NEW n \in Nat, NEW m \in Nat,
           m <= n, n <= Len(s), NEW t, t = SubSeq(s, 1, n)
    PROVE  SubSeq(t, 1, m) = SubSeq(s, 1, m)
<1>1. Len(s) \in Nat
    BY LenProperties
<1>2. CASE m = 0
    <2>1. 1 \in Int /\ m \in Int /\ m < 1
        BY <1>2
    <2> QED BY <2>1, SubSeqEmpty
<1>3. CASE m # 0
    <2>1. /\ 1 \in 1 .. Len(s) /\ n \in 1 .. Len(s)
          /\ 1 \in 1 .. n - 1 + 1 /\ m \in 1 .. n - 1 + 1
        BY <1>1, <1>3
    <2>2. SubSeq(SubSeq(s, 1, n), 1, m) = SubSeq(s, 1 + 1 - 1, 1 + m - 1)
        BY <2>1, SubSeqOfSubSeq
    <2>3. 1 + 1 - 1 = 1 /\ 1 + m - 1 = m
        OBVIOUS
    <2> QED BY <2>2, <2>3
<1> QED
    BY <1>2, <1>3

(* A character at a place, what is behind it, and that it is the only one. *)
LEMMA CharacterHere ==
    ASSUME NEW b \in Seq(Byte), NEW i \in 1 .. Len(b),
           NEW c \in Characters, IsPrefix(c, From(b, i))
    PROVE  /\ Len(c) \in Nat \ {0} /\ i + Len(c) \in i + 1 .. Len(b) + 1
           /\ From(b, i) = c \o From(b, i + Len(c))
           /\ \A d \in Characters : IsPrefix(d, From(b, i)) => d = c
<1> DEFINE N == Len(b)
           L == Len(c)
           rest == From(b, i)
           behind == From(b, i + L)
<1>1. c \in Seq(Byte) /\ c # <<>>
    BY CharacterAssumption DEF Byte
<1>2. N \in Nat /\ L \in Nat /\ DOMAIN c = 1 .. L
    BY <1>1, LenProperties
<1>3. L # 0
    BY <1>1, EmptySeq
<1>4. /\ rest \in Seq(Byte) /\ Len(rest) = N - i + 1
      /\ \A k \in 1 .. N - i + 1 : rest[k] = b[i + k - 1]
    <2>1. \A k \in i .. N : b[k] \in Byte
        BY <1>2, ElementOfSeq
    <2>2. i \in Int /\ N \in Int /\ i <= N
        BY <1>2
    <2> HIDE DEF N
    <2>3. /\ SubSeq(b, i, N) \in Seq(Byte)
          /\ Len(SubSeq(b, i, N)) = N - i + 1
          /\ \A k \in 1 .. N - i + 1 : SubSeq(b, i, N)[k] = b[i + k - 1]
        BY <2>1, <2>2, SubSeqProperties
    <2> QED BY <2>3 DEF From, N
<1>5. L <= N - i + 1 /\ SubSeq(c, 1, L) = SubSeq(rest, 1, L)
    BY <1>4 DEF IsPrefix
<1>6. SubSeq(c, 1, L) = c
    BY <1>1, SubSeqFull
<1>7. \A k \in 1 .. L : c[k] = rest[k]
    <2>1. \A k \in 1 .. L : SubSeq(rest, 1, L)[k] = rest[k]
        <3> HIDE DEF rest, L
        <3>1. \A k \in 1 .. L : rest[k] \in Byte
            BY <1>2, <1>4, <1>5, ElementOfSeq
        <3>2. /\ 1 \in Int /\ L \in Int
              /\ \A k \in 1 .. L - 1 + 1 :
                    SubSeq(rest, 1, L)[k] = rest[1 + k - 1]
            BY <1>2, <3>1, SubSeqProperties
        <3> QED BY <1>2, <3>2
    <2> QED BY <1>5, <1>6, <2>1
<1>8. /\ behind \in Seq(Byte) /\ Len(behind) = N - (i + L) + 1
      /\ \A k \in 1 .. N - (i + L) + 1 : behind[k] = b[i + L + k - 1]
    <2> DEFINE m == i + L
    <2>1. \A k \in m .. N : b[k] \in Byte
        BY <1>2, ElementOfSeq
    <2>2. m \in Int /\ N \in Int /\ m <= N + 1
        BY <1>2, <1>5
    <2> HIDE DEF N, m
    <2>3. /\ SubSeq(b, m, N) \in Seq(Byte)
          /\ Len(SubSeq(b, m, N)) = IF m <= N THEN N - m + 1 ELSE 0
          /\ \A k \in 1 .. N - m + 1 : SubSeq(b, m, N)[k] = b[m + k - 1]
        BY <2>1, <2>2, SubSeqProperties
    <2>4. (IF m <= N THEN N - m + 1 ELSE 0) = N - m + 1
        BY <2>2
    <2> QED BY <2>3, <2>4 DEF From, N, m
<1> HIDE DEF N, L, rest, behind
<1>9. rest = c \o behind
    <2>1. /\ c \o behind \in Seq(Byte)
          /\ Len(c \o behind) = L + Len(behind)
          /\ \A k \in 1 .. L + Len(behind) :
                (c \o behind)[k] = IF k <= L THEN c[k] ELSE behind[k - L]
        BY <1>1, <1>8, ConcatProperties DEF L
    <2>2. Len(c \o behind) = Len(rest)
        BY <1>2, <1>4, <1>8, <2>1
    <2>3. ASSUME NEW k \in 1 .. Len(rest)
          PROVE  rest[k] = (c \o behind)[k]
        <3>1. CASE k <= L
            BY <1>2, <1>4, <1>5, <1>7, <1>8, <2>1, <2>2, <3>1
        <3>2. CASE ~(k <= L)
            <4> DEFINE j == k - L
            <4>1. /\ j \in 1 .. N - (i + L) + 1
                  /\ i + L + j - 1 = i + k - 1
                  /\ k \in 1 .. N - i + 1
                BY <1>2, <1>4, <3>2
            <4>2. k \in 1 .. L + Len(behind)
                BY <2>1, <2>2
            <4>3. (c \o behind)[k] = behind[j]
                BY <2>1, <3>2, <4>2
            <4> HIDE DEF j
            <4>4. behind[j] = b[i + L + j - 1]
                BY <1>8, <4>1
            <4>5. rest[k] = b[i + k - 1]
                BY <1>4, <4>1
            <4> QED BY <4>1, <4>3, <4>4, <4>5
        <3> QED BY <3>1, <3>2
    <2> QED BY <1>4, <2>1, <2>2, <2>3, SeqEqual
<1>10. ASSUME NEW d \in Characters, IsPrefix(d, rest)
       PROVE  d = c
    <2> DEFINE M == Len(d)
    <2>1. d \in Seq(Byte) /\ M \in Nat
        BY CharacterAssumption, LenProperties DEF Byte
    <2>2. M <= Len(rest) /\ SubSeq(d, 1, M) = SubSeq(rest, 1, M)
        BY <1>10 DEF IsPrefix
    <2>3. L <= Len(rest) /\ SubSeq(c, 1, L) = SubSeq(rest, 1, L)
        BY <1>4, <1>5
    <2>4. SubSeq(d, 1, M) = d
        BY <2>1, SubSeqFull
    <2> HIDE DEF M
    <2>5. CASE L <= M
        <3>1. SubSeq(d, 1, L) = SubSeq(rest, 1, L)
            BY <1>2, <1>4, <2>1, <2>2, <2>4, <2>5, PrefixOfPrefix
        <3>2. IsPrefix(c, d)
            BY <2>3, <2>5, <3>1 DEF IsPrefix, L, M
        <3> QED BY <3>2, CharacterAssumption
    <2>6. CASE ~(L <= M)
        <3>1. M <= L
            BY <1>2, <2>1, <2>6
        <3>2. SubSeq(c, 1, M) = SubSeq(rest, 1, M)
            BY <1>2, <1>4, <1>6, <2>1, <2>3, <3>1, PrefixOfPrefix
        <3>3. IsPrefix(d, c)
            BY <2>2, <3>1, <3>2 DEF IsPrefix, L, M
        <3> QED BY <3>3, CharacterAssumption
    <2> QED BY <2>5, <2>6
<1>11. L \in Nat \ {0} /\ i + L \in i + 1 .. N + 1
    BY <1>2, <1>3, <1>5
<1> QED
    BY <1>9, <1>10, <1>11 DEF N, L, rest, behind

(* What is read at a place: there is something behind it to go on with, and*)
(* a character that is there is read.                                      *)
LEMMA CharacterIs ==
    ASSUME NEW b \in Seq(Byte), NEW i \in 1 .. Len(b)
    PROVE  /\ CharacterAt(b, i).character \in Seq(Byte) \ {<<>>}
           /\ CharacterAt(b, i).next \in i + 1 .. Len(b) + 1
           /\ \A c \in Characters : IsPrefix(c, From(b, i)) =>
                 CharacterAt(b, i) = [character |-> c, next |-> i + Len(c)]
<1> DEFINE here == {c \in Characters : IsPrefix(c, From(b, i))}
           n == Len(From(b, i))
           begun == {k \in 1 .. n :
                         \E c \in Characters : IsPrefix(Cut(b, i - 1, k), c)}
           longest == Max({1} \cup begun)
           first == CHOOSE c \in here : TRUE
<1>1. CharacterAt(b, i) =
          IF here # {}
          THEN [character |-> first, next |-> i + Len(first)]
          ELSE [character |-> Replacement, next |-> i + longest]
    BY DEF CharacterAt
<1>2. \A c \in Characters : c \in Seq(Byte) \ {<<>>}
    BY CharacterAssumption DEF Byte
<1>3. Len(b) \in Nat
    BY LenProperties
<1>4. CASE here = {}
    <2>1. n = Len(b) - i + 1
        <3>1. \A k \in i .. Len(b) : b[k] \in Byte
            BY <1>3, ElementOfSeq
        <3>2. i \in Int /\ Len(b) \in Int /\ i <= Len(b)
            BY <1>3
        <3>3. Len(SubSeq(b, i, Len(b))) = Len(b) - i + 1
            BY <3>1, <3>2, SubSeqProperties
        <3> QED BY <3>3 DEF From
    <2>2. longest \in 1 .. n
        <3> DEFINE T == {1} \cup begun
        <3>1. T \in SUBSET (1 .. n) /\ T # {} /\ n \in Nat
            BY <1>3, <2>1
        <3> HIDE DEF T
        <3>2. \E m \in T : \A k \in T : m >= k
            <4>1. \A k \in T : k \in Nat /\ k <= n
                BY <3>1
            <4>2. T \in SUBSET Nat
                BY <4>1
            <4>3. PICK m \in T : \A k \in T : k <= m
                BY <3>1, <4>1, <4>2, GreatestElement
            <4> QED BY <3>1, <4>1, <4>3
        <3>3. Max(T) \in T
            BY <3>2 DEF Max
        <3> QED BY <3>1, <3>3 DEF T
    <2> HIDE DEF n, longest
    <2>3. i + longest \in i + 1 .. Len(b) + 1
        BY <1>3, <2>1, <2>2
    <2>4. \A c \in Characters : ~IsPrefix(c, From(b, i))
        BY <1>4
    <2>5. CharacterAt(b, i) = [character |-> Replacement,
                               next |-> i + longest]
        BY <1>1, <1>4
    <2> QED BY <1>2, <2>3, <2>4, <2>5, CharacterAssumption
<1>5. CASE here # {}
    <2>1. first \in Characters /\ IsPrefix(first, From(b, i))
        BY <1>5
    <2>2. CharacterAt(b, i) = [character |-> first, next |-> i + Len(first)]
        BY <1>1, <1>5
    <2> HIDE DEF first
    <2>3. /\ i + Len(first) \in i + 1 .. Len(b) + 1
          /\ \A d \in Characters : IsPrefix(d, From(b, i)) => d = first
        BY <2>1, CharacterHere
    <2> QED BY <1>2, <2>1, <2>2, <2>3
<1> QED
    BY <1>4, <1>5

(* What Python reads from each place on.                                   *)
ReadFrom(b, from) ==
    /\ \A i \in 1 .. Len(b) + 1 : from[i] \in Seq(Byte)
    /\ from[Len(b) + 1] = <<>>
    /\ \A i \in 1 .. Len(b) :
          from[i] = CharacterAt(b, i).character
                        \o from[CharacterAt(b, i).next]

LEMMA PythonTextIs ==
    ASSUME NEW b \in Seq(Byte)
    PROVE  \E from : ReadFrom(b, from) /\ PythonText(b) = from[1]
<1> DEFINE N == Len(b)
           S == Seq(Byte)
           char(i) == CharacterAt(b, i).character
           goes(i) == CharacterAt(b, i).next
           next == [i \in 1 .. N |-> goes(i)]
           step == [i \in 1 .. N |-> [rest \in S |-> char(i) \o rest]]
           Is(f) == f = [i \in 1 .. N + 1 |->
                            IF i > N THEN <<>> ELSE char(i) \o f[goes(i)]]
           from == CHOOSE f : Is(f)
<1>1. N \in Nat
    BY LenProperties
<1>2. <<>> \in S
    BY EmptySeq
<1>3. \A i \in 1 .. N : goes(i) \in i + 1 .. N + 1 /\ char(i) \in S
    BY CharacterIs
<1>4. PythonText(b) = from[1]
    BY DEF PythonText
<1>5. ReadFrom(b, from) <=>
          /\ \A i \in 1 .. N + 1 : from[i] \in S
          /\ from[N + 1] = <<>>
          /\ \A i \in 1 .. N : from[i] = char(i) \o from[goes(i)]
    BY DEF ReadFrom
<1> HIDE DEF N, char, goes, S
<1>6. Ahead(next, N)
    <2>1. \A i \in 1 .. N : goes(i) \in 1 .. N + 1 /\ i < goes(i)
        BY <1>1, <1>3
    <2> QED BY <2>1 DEF Ahead
<1>7. \A i \in 1 .. N : \A rest \in S : char(i) \o rest \in S
    BY <1>3, ConcatProperties DEF S
<1>8. next \in [1 .. N -> 1 .. N + 1] /\ \A i \in 1 .. N : next[i] = goes(i)
    BY <1>6 DEF Ahead
<1> HIDE DEF next
<1>9. step \in [1 .. N -> [S -> S]]
    BY <1>7
<1>10. \A i \in 1 .. N : \A rest \in S : step[i][rest] = char(i) \o rest
    OBVIOUS
<1> HIDE DEF step
<1>11. PICK g \in [1 .. N + 1 -> S] : Recurs(g, <<>>, next, step, N)
    BY <1>1, <1>2, <1>6, <1>9, RecursionFromEnd
<1>12. ASSUME NEW i \in 1 .. N
       PROVE  g[i] = char(i) \o g[goes(i)]
    <2>1. next[i] = goes(i) /\ next[i] \in 1 .. N + 1
        BY <1>8
    <2>2. g[next[i]] \in S
        BY <1>11, <2>1
    <2>3. g[i] = step[i][g[next[i]]]
        BY <1>11 DEF Recurs
    <2>4. g[i] = char(i) \o g[next[i]]
        BY <1>10, <2>2, <2>3
    <2> QED BY <2>1, <2>4
<1>13. Is(g)
    <2> DEFINE h == [i \in 1 .. N + 1 |-> IF i > N THEN <<>>
                                          ELSE char(i) \o g[goes(i)]]
    <2>1. ASSUME NEW i \in 1 .. N + 1 PROVE g[i] = h[i]
        <3>1. CASE i > N
            <4>1. i = N + 1
                BY <1>1, <3>1
            <4> QED BY <1>11, <3>1, <4>1 DEF Recurs
        <3>2. CASE ~(i > N)
            <4>1. i \in 1 .. N
                BY <1>1, <3>2
            <4> QED BY <1>12, <3>2, <4>1
        <3> QED BY <3>1, <3>2
    <2>2. g = [i \in 1 .. N + 1 |-> g[i]]
        BY <1>11
    <2> QED BY <2>1, <2>2
<1>14. Is(from)
    <2> HIDE DEF Is
    <2> QED BY <1>13
<1> HIDE DEF from
<1>15. from[N + 1] = <<>>
    <2>1. N + 1 \in 1 .. N + 1 /\ N + 1 > N
        BY <1>1
    <2> QED BY <1>14, <2>1
<1>16. \A i \in 1 .. N : from[i] = char(i) \o from[goes(i)]
    <2> TAKE i \in 1 .. N
    <2>1. i \in 1 .. N + 1 /\ ~(i > N)
        BY <1>1
    <2> QED BY <1>14, <2>1
<1>17. \A i \in 1 .. N + 1 : from[i] \in S
    <2> DEFINE Typed(i) == from[i] \in S
    <2>1. Typed(N + 1)
        BY <1>2, <1>15
    <2>2. \A i \in 1 .. N : Typed(goes(i)) => Typed(i)
        BY <1>3, <1>7, <1>16
    <2> DEFINE T == {i \in 1 .. N + 1 : Typed(i)}
    <2> HIDE DEF Typed
    <2>3. N + 1 \in T /\ \A i \in 1 .. N : goes(i) \in T => i \in T
        BY <1>1, <2>1, <2>2
    <2>4. \A i \in 1 .. N : goes(i) \in i + 1 .. N + 1
        BY <1>3
    <2> HIDE DEF T
    <2>5. \A i \in 1 .. N : next[i] \in T => i \in T
        BY <1>8, <2>3
    <2>6. \A i \in 1 .. N + 1 : i \in T
        BY <1>1, <1>6, <2>3, <2>5, FromEnd
    <2> QED BY <2>6 DEF T, Typed
<1> QED
    BY <1>4, <1>5, <1>15, <1>16, <1>17

(* Whether there is nothing but characters from each place on.             *)
SpelledFrom(b, from) ==
    /\ from[Len(b) + 1]
    /\ \A i \in 1 .. Len(b) :
          from[i] <=> \E c \in Characters :
                          IsPrefix(c, From(b, i)) /\ from[i + Len(c)]

LEMMA IsTextIs ==
    ASSUME NEW b \in Seq(Byte)
    PROVE  \E from : SpelledFrom(b, from) /\ (IsText(b) <=> from[1])
<1> DEFINE N == Len(b)
           S == BOOLEAN
           goes(i) == CharacterAt(b, i).next
           here(i) == \E c \in Characters : IsPrefix(c, From(b, i))
           spelled(i, f) == \E c \in Characters :
                                IsPrefix(c, From(b, i)) /\ f[i + Len(c)]
           next == [i \in 1 .. N |-> goes(i)]
           step == [i \in 1 .. N |-> [rest \in S |-> here(i) /\ rest]]
           Is(f) == f = [i \in 1 .. N + 1 |-> i > N \/ spelled(i, f)]
           from == CHOOSE f : Is(f)
<1>1. N \in Nat
    BY LenProperties
<1>2. \A i \in 1 .. N : goes(i) \in i + 1 .. N + 1
    BY CharacterIs
<1>3. ASSUME NEW i \in 1 .. N, NEW f
      PROVE  spelled(i, f) <=> here(i) /\ f[goes(i)]
    <2>1. \A c \in Characters : IsPrefix(c, From(b, i)) =>
              goes(i) = i + Len(c)
        BY CharacterIs
    <2> HIDE DEF goes
    <2> QED BY <2>1
<1>4. IsText(b) = from[1]
    BY DEF IsText
<1>5. SpelledFrom(b, from) <=>
          /\ from[N + 1]
          /\ \A i \in 1 .. N : from[i] <=> spelled(i, from)
    BY DEF SpelledFrom
<1>6. \A f : \A i \in 1 .. N :
          spelled(i, f) \in BOOLEAN /\ here(i) \in BOOLEAN
    OBVIOUS
<1> HIDE DEF N, goes, here, spelled
<1>7. Ahead(next, N)
    <2>1. \A i \in 1 .. N : goes(i) \in 1 .. N + 1 /\ i < goes(i)
        BY <1>1, <1>2
    <2> QED BY <2>1 DEF Ahead
<1>8. next \in [1 .. N -> 1 .. N + 1] /\ \A i \in 1 .. N : next[i] = goes(i)
    BY <1>7 DEF Ahead
<1> HIDE DEF next
<1>9. step \in [1 .. N -> [S -> S]]
    OBVIOUS
<1>10. \A i \in 1 .. N : \A rest \in S : step[i][rest] = (here(i) /\ rest)
    OBVIOUS
<1>11. TRUE \in S
    OBVIOUS
<1> HIDE DEF step, S
<1>12. PICK g \in [1 .. N + 1 -> S] : Recurs(g, TRUE, next, step, N)
    BY <1>1, <1>7, <1>9, <1>11, RecursionFromEnd
<1>13. \A i \in 1 .. N : g[i] = (here(i) /\ g[goes(i)])
    BY <1>8, <1>10, <1>12 DEF Recurs
<1>14. Is(g)
    <2> DEFINE h == [i \in 1 .. N + 1 |-> i > N \/ spelled(i, g)]
    <2>1. ASSUME NEW i \in 1 .. N + 1 PROVE g[i] = h[i]
        <3>1. CASE i > N
            <4>1. i = N + 1
                BY <1>1, <3>1
            <4>2. g[i] = TRUE
                BY <1>12, <4>1 DEF Recurs
            <4> QED BY <3>1, <4>2
        <3>2. CASE ~(i > N)
            <4>1. i \in 1 .. N
                BY <1>1, <3>2
            <4>2. spelled(i, g) = (here(i) /\ g[goes(i)])
                <5>1. spelled(i, g) \in BOOLEAN
                    BY <1>6, <4>1
                <5>2. spelled(i, g) <=> here(i) /\ g[goes(i)]
                    BY <1>3, <4>1
                <5> QED BY <5>1, <5>2
            <4>3. h[i] = spelled(i, g)
                <5>1. h[i] = (i > N \/ spelled(i, g))
                    OBVIOUS
                <5>2. spelled(i, g) \in BOOLEAN
                    BY <1>6, <4>1
                <5> QED BY <3>2, <5>1, <5>2
            <4> QED BY <1>13, <4>1, <4>2, <4>3
        <3> QED BY <3>1, <3>2
    <2>2. g = [i \in 1 .. N + 1 |-> g[i]]
        BY <1>12
    <2> QED BY <2>1, <2>2
<1>15. Is(from)
    <2> HIDE DEF Is
    <2> QED BY <1>14
<1> HIDE DEF from
<1>16. from[N + 1]
    <2>1. N + 1 \in 1 .. N + 1 /\ N + 1 > N
        BY <1>1
    <2> QED BY <1>15, <2>1
<1>17. \A i \in 1 .. N : from[i] <=> spelled(i, from)
    <2> TAKE i \in 1 .. N
    <2>1. i \in 1 .. N + 1 /\ ~(i > N)
        BY <1>1
    <2>2. from[i] = (i > N \/ spelled(i, from))
        BY <1>15, <2>1
    <2> QED BY <2>1, <2>2
<1> QED
    BY <1>4, <1>5, <1>16, <1>17

(* Text is read as it is.                                                  *)
LEMMA TextIsKept ==
    ASSUME NEW b \in Seq(Byte), IsText(b)
    PROVE  PythonText(b) = b
<1> DEFINE N == Len(b)
           next == [i \in 1 .. N |-> CharacterAt(b, i).next]
<1>1. N \in Nat
    BY LenProperties
<1>2. PICK read : ReadFrom(b, read) /\ PythonText(b) = read[1]
    BY PythonTextIs
<1>3. PICK spelled : SpelledFrom(b, spelled) /\ spelled[1]
    BY IsTextIs
<1> DEFINE T == {i \in 1 .. N + 1 : spelled[i] => read[i] = From(b, i)}
<1>4. From(b, N + 1) = <<>>
    <2>1. N + 1 \in Int /\ N \in Int /\ N < N + 1
        BY <1>1
    <2> QED BY <2>1, SubSeqEmpty DEF From
<1>5. N + 1 \in T
    <2>1. read[N + 1] = <<>>
        BY <1>2 DEF ReadFrom
    <2>2. N + 1 \in 1 .. N + 1
        BY <1>1
    <2> QED BY <1>4, <2>1, <2>2
<1>6. Ahead(next, N)
    <2>1. \A i \in 1 .. N : CharacterAt(b, i).next \in i + 1 .. N + 1
        BY CharacterIs
    <2>2. \A i \in 1 .. N : /\ CharacterAt(b, i).next \in 1 .. N + 1
                            /\ i < CharacterAt(b, i).next
        BY <1>1, <2>1
    <2> QED BY <2>2 DEF Ahead
<1>7. ASSUME NEW i \in 1 .. N, next[i] \in T
      PROVE  i \in T
    <2> SUFFICES ASSUME spelled[i] PROVE read[i] = From(b, i)
        BY <1>1
    <2>1. PICK c \in Characters :
              IsPrefix(c, From(b, i)) /\ spelled[i + Len(c)]
        BY <1>3 DEF SpelledFrom
    <2>2. CharacterAt(b, i) = [character |-> c, next |-> i + Len(c)]
        BY <2>1, CharacterIs
    <2>3. read[i + Len(c)] = From(b, i + Len(c))
        BY <1>7, <2>1, <2>2
    <2>4. read[i] = c \o read[i + Len(c)]
        <3>1. /\ CharacterAt(b, i).character = c
              /\ CharacterAt(b, i).next = i + Len(c)
            BY <2>2
        <3>2. read[i] = CharacterAt(b, i).character
                            \o read[CharacterAt(b, i).next]
            BY <1>2 DEF ReadFrom
        <3> QED BY <3>1, <3>2
    <2>5. From(b, i) = c \o From(b, i + Len(c))
        BY <2>1, CharacterHere
    <2> QED BY <2>3, <2>4, <2>5
<1>8. 1 \in T
    <2> HIDE DEF T, next
    <2>1. \A i \in 1 .. N + 1 : i \in T
        BY <1>1, <1>5, <1>6, <1>7, FromEnd
    <2> QED BY <1>1, <2>1
<1>9. read[1] = From(b, 1)
    BY <1>3, <1>8
<1>10. From(b, 1) = b
    BY SubSeqFull DEF From
<1> QED
    BY <1>2, <1>9, <1>10

(* Nothing is read from nothing, and from nothing else.                    *)
LEMMA OnlyNothingIsEmpty ==
    ASSUME NEW b \in Seq(Byte)
    PROVE  PythonText(b) = <<>> <=> b = <<>>
<1>1. PICK from : ReadFrom(b, from) /\ PythonText(b) = from[1]
    BY PythonTextIs
<1>2. Len(b) \in Nat
    BY LenProperties
<1>3. CASE b = <<>>
    <2>1. Len(b) = 0
        BY <1>3, EmptySeq
    <2> QED BY <1>1, <1>3, <2>1 DEF ReadFrom
<1>4. CASE b # <<>>
    <2> DEFINE c == CharacterAt(b, 1).character
               n == CharacterAt(b, 1).next
    <2>1. 1 \in 1 .. Len(b)
        <3>1. Len(b) # 0
            BY <1>4, EmptySeq
        <3> QED BY <1>2, <3>1
    <2>2. /\ c \in Seq(Byte) /\ c # <<>>
          /\ n \in 1 + 1 .. Len(b) + 1
        BY <2>1, CharacterIs
    <2>3. from[1] = c \o from[n]
        BY <1>1, <2>1 DEF ReadFrom
    <2> HIDE DEF c, n
    <2>4. from[n] \in Seq(Byte)
        <3>1. n \in 1 .. Len(b) + 1
            BY <1>2, <2>2
        <3> QED BY <1>1, <3>1 DEF ReadFrom
    <2>5. Len(from[1]) = Len(c) + Len(from[n])
        BY <2>2, <2>3, <2>4, ConcatProperties
    <2>6. Len(c) \in Nat /\ Len(c) # 0 /\ Len(from[n]) \in Nat
        BY <2>2, <2>4, EmptySeq, LenProperties
    <2>7. Len(from[1]) # 0
        BY <2>5, <2>6
    <2> QED BY <1>1, <1>4, <2>7, EmptySeq
<1> QED
    BY <1>3, <1>4

(* Of which texts there are timings.                                       *)
LEMMA TimingsAre ==
    ASSUME NEW metrics
    PROVE  DOMAIN Timings(metrics) =
               {PythonText(metrics[i].name) : i \in 1 .. Len(metrics)}
BY DEF Timings

LEMMA EveryClientAgrees ==
    ASSUME NEW p \in Seq(Byte)
    PROVE  ClientsAgreeOn(p)
<1> DEFINE metrics == Metrics(p)
           unnamed == \E i \in 1 .. MetricCount(p) : metrics[i].name = <<>>
           fits == ShapeIsRight(p) /\ ActionsEnd(p) = Len(p)
           cpp == [ok |-> TRUE,
                   message |-> [chunk_size |-> Get(p, 0, 4),
                                action_dim |-> Get(p, 4, 4),
                                actions |-> Actions(p),
                                metrics |-> metrics]]
           python == [ok |-> TRUE,
                      message |-> [chunk_size |-> Get(p, 0, 4),
                                   action_dim |-> Get(p, 4, 4),
                                   actions |-> Actions(p),
                                   timings |-> Timings(metrics)]]
<1>1. DecodeResponse(p) = IF fits /\ ~unnamed THEN cpp ELSE Refused
    BY DEF DecodeResponse, EndsAt
<1>2. PythonDecode(p) = IF fits THEN python ELSE Refused
    BY DEF PythonDecode, PythonEnds
<1>3. CASE ~fits
    BY <1>1, <1>2, <1>3 DEF ClientsAgreeOn, Refused
<1>4. ASSUME fits
      PROVE  /\ Len(metrics) = MetricCount(p)
             /\ \A i \in 1 .. Len(metrics) : metrics[i].name \in Seq(Byte)
    <2>1. /\ Len(ReadResponse(p).metrics) = MetricCount(p)
          /\ ReadResponse(p) \in FittingResponses
        BY <1>4, ReadIsAnswer
    <2>2. ReadResponse(p).metrics = metrics
        BY DEF ReadResponse
    <2> HIDE DEF metrics
    <2>3. metrics \in Seq(FittingMetrics)
        BY <2>1, <2>2 DEF FittingResponses
    <2>4. \A i \in 1 .. Len(metrics) : metrics[i] \in FittingMetrics
        BY <2>3, ElementOfSeq
    <2>5. \A i \in 1 .. Len(metrics) : metrics[i].name \in Seq(Byte)
        BY <2>4 DEF FittingMetrics
    <2> QED BY <2>1, <2>2, <2>5
<1> DEFINE texts == DOMAIN Timings(metrics)
<1>5. texts = {PythonText(metrics[i].name) : i \in 1 .. Len(metrics)}
    BY TimingsAre
<1>6. python.ok /\ python.message.timings = Timings(metrics)
    OBVIOUS
<1> HIDE DEF texts
<1>7. ASSUME fits PROVE unnamed <=> <<>> \in texts
    <2>1. \A i \in 1 .. Len(metrics) :
              PythonText(metrics[i].name) = <<>> <=> metrics[i].name = <<>>
        BY <1>4, <1>7, OnlyNothingIsEmpty
    <2> HIDE DEF metrics
    <2> QED BY <1>4, <1>5, <1>7, <2>1
<1>8. CASE fits /\ ~unnamed
    <2>1. DecodeResponse(p) = cpp /\ PythonDecode(p) = python
        BY <1>1, <1>2, <1>8
    <2>2. /\ cpp.ok /\ python.ok
          /\ cpp.message.metrics = metrics
          /\ \A f \in {"chunk_size", "action_dim", "actions"} :
                cpp.message[f] = python.message[f]
          /\ python.message.timings = Timings(metrics)
        OBVIOUS
    <2>3. <<>> \notin DOMAIN python.message.timings
        BY <1>6, <1>7, <1>8 DEF texts
    <2>4. ASSUME \A i \in 1 .. Len(metrics) : IsText(metrics[i].name)
          PROVE  DOMAIN python.message.timings =
                     {metrics[i].name : i \in 1 .. Len(metrics)}
        <3>1. \A i \in 1 .. Len(metrics) :
                  PythonText(metrics[i].name) = metrics[i].name
            BY <1>4, <1>8, <2>4, TextIsKept
        <3> HIDE DEF metrics
        <3>2. texts = {metrics[i].name : i \in 1 .. Len(metrics)}
            BY <1>5, <3>1
        <3> QED BY <1>6, <3>2 DEF texts
    <2> HIDE DEF cpp, python, metrics
    <2> QED BY <2>1, <2>2, <2>3, <2>4 DEF ClientsAgreeOn
<1>9. CASE fits /\ unnamed
    <2>1. DecodeResponse(p) = Refused /\ PythonDecode(p) = python
        BY <1>1, <1>2, <1>9
    <2>2. <<>> \in DOMAIN python.message.timings
        BY <1>6, <1>7, <1>9 DEF texts
    <2>3. Refused.ok = FALSE
        BY DEF Refused
    <2> HIDE DEF python, metrics
    <2> QED BY <1>6, <2>1, <2>2, <2>3 DEF ClientsAgreeOn
<1> QED
    BY <1>3, <1>8, <1>9

---------------------------------------------------------------------------
(* The messages that TLC tries                                             *)

(* A byte has at least two values, so that a word has at least 16.         *)
LEMMA SmallNumbers ==
    /\ 0 \in Byte /\ 1 \in Byte
    /\ Word \in Nat /\ Word >= 16
    /\ \A n \in 0 .. 15 : n \in Words
    /\ \A n \in 0 .. 255 : n \in LongWords
<1> DEFINE b == ByteValues
<1>1. b \in Nat /\ b >= 2
    BY ByteAssumption
<1>2. b * b \in Nat /\ b * b >= 4
    BY <1>1
<1>3. b * b * b \in Nat /\ b * b * b >= 8
    <2> DEFINE c == b * b
    <2>1. c \in Nat /\ c >= 4
        BY <1>2
    <2> HIDE DEF b, c
    <2>2. c * b \in Nat
        BY <1>1, <2>1
    <2>3. c * b >= c * 2
        BY <1>1, <2>1
    <2> QED BY <2>1, <2>2, <2>3 DEF c
<1>4. Word \in Nat /\ Word >= 16
    <2> DEFINE c == b * b * b
    <2>1. c \in Nat /\ c >= 8 /\ Word = c * b
        BY <1>3 DEF Word
    <2> HIDE DEF b, c
    <2>2. c * b \in Nat
        BY <1>1, <2>1
    <2>3. c * b >= c * 2
        BY <1>1, <2>1
    <2> QED BY <2>1, <2>2, <2>3
<1>5. Word * Word \in Nat /\ Word * Word >= 256
    <2> DEFINE w == Word
    <2>1. w \in Nat /\ w >= 16
        BY <1>4
    <2> HIDE DEF w
    <2>2. w * w \in Nat
        BY <2>1
    <2>3. w * w >= w * 16
        BY <2>1
    <2>4. w * 16 >= 256
        BY <2>1
    <2> DEFINE u == w * w
               v == w * 16
    <2>5. u \in Nat /\ u >= v /\ v >= 256
        BY <2>2, <2>3, <2>4
    <2> HIDE DEF u, v
    <2>6. u \in Nat /\ u >= 256
        BY <2>1, <2>5 DEF v
    <2> QED BY <2>6 DEF u, w
<1> QED
    BY <1>1, <1>4, <1>5 DEF Byte, Words, LongWords

(* The texts of the messages are bytes.                                    *)
LEMMA ShortTexts ==
    /\ <<>> \in Seq(Byte) /\ <<0>> \in Seq(Byte) /\ <<1>> \in Seq(Byte)
    /\ <<1, 0>> \in Seq(Byte) /\ <<0, 1>> \in Seq(Byte)
    /\ <<1, 1, 0>> \in Seq(Byte)
    /\ Len(<<>>) \in Words /\ Len(<<0>>) \in Words /\ Len(<<1>>) \in Words
    /\ Len(<<1, 0>>) \in Words /\ Len(<<0, 1>>) \in Words
    /\ Len(<<1, 1, 0>>) \in Words
<1>1. 0 \in Byte /\ 1 \in Byte
    BY SmallNumbers
<1>2. 0 \in Words /\ 1 \in Words /\ 2 \in Words /\ 3 \in Words
    BY SmallNumbers
<1> QED
    BY <1>1, <1>2

(* The images, the requests and the responses fit their fields.            *)
LEMMA TestImageFits ==
    ASSUME NEW width \in 0 .. 15, NEW height \in 0 .. 15,
           NEW stride \in 0 .. 15, NEW name \in Seq(Byte),
           Len(name) \in Words, NEW size \in 0 .. 15
    PROVE  /\ Image(width, height, stride, name, size) \in FittingImages
           /\ Image(width, height, stride, name, size).data \in Seq(Byte)
           /\ Len(Image(width, height, stride, name, size).data) = size
<1> DEFINE data == [i \in 1 .. size |-> i % ByteValues]
<1>1. /\ width \in Words /\ height \in Words /\ stride \in Words
      /\ 3 \in Words /\ 1 \in Words /\ size \in LongWords
    <2>1. 3 \in 0 .. 15 /\ 1 \in 0 .. 15 /\ size \in 0 .. 255
        OBVIOUS
    <2> QED BY <2>1, SmallNumbers
<1>2. data \in [1 .. size -> Byte]
    <2>1. \A i \in 1 .. size : i % ByteValues \in Byte
        BY OneByte
    <2> QED BY <2>1
<1>3. data \in Seq(Byte) /\ Len(data) = size
    <2> HIDE DEF data
    <2> QED BY <1>2, FunctionIsSequence
<1>4. Image(width, height, stride, name, size) =
          [format |-> 1, width |-> width, height |-> height, channels |-> 3,
           stride |-> stride, name |-> name, data |-> data]
    BY DEF Image, RawRGB
<1> HIDE DEF data
<1> QED
    BY <1>1, <1>3, <1>4 DEF FittingImages

LEMMA TestRequestFits ==
    ASSUME NEW r \in Requests
    PROVE  r \in FittingRequests
<1>1. \A i \in TestImages : i \in FittingImages
    <2>0. /\ 0 \in 0 .. 15 /\ 1 \in 0 .. 15 /\ 2 \in 0 .. 15 /\ 3 \in 0 .. 15
          /\ 4 \in 0 .. 15 /\ 6 \in 0 .. 15 /\ 9 \in 0 .. 15
        OBVIOUS
    <2>1. Image(1, 1, 0, <<>>, 3) \in FittingImages
        BY <2>0, ShortTexts, TestImageFits, Zenon
    <2>2. Image(1, 2, 4, <<1, 0>>, 9) \in FittingImages
        BY <2>0, ShortTexts, TestImageFits, Zenon
    <2>3. Image(2, 1, 6, <<1>>, 6) \in FittingImages
        BY <2>0, ShortTexts, TestImageFits, Zenon
    <2>4. Image(1, 1, 3, <<>>, 2) \in FittingImages
        BY <2>0, ShortTexts, TestImageFits, Zenon
    <2>5. Image(1, 1, 2, <<>>, 3) \in FittingImages
        BY <2>0, ShortTexts, TestImageFits, Zenon
    <2>6. Image(6, 1, 0, <<0>>, 2) \in FittingImages
        BY <2>0, ShortTexts, TestImageFits, Zenon
    <2> QED BY <2>1, <2>2, <2>3, <2>4, <2>5, <2>6 DEF TestImages
<1>2. r.images \in Seq(FittingImages) /\ Len(r.images) \in Words
    <2>1. 0 \in Words /\ 1 \in Words /\ 2 \in Words
        BY SmallNumbers
    <2>2. r.images \in {<<>>} \cup {<<i>> : i \in TestImages}
                           \cup {<<i, k>> : i, k \in TestImages}
        BY DEF Requests
    <2>3. CASE r.images = <<>>
        BY <2>1, <2>3
    <2>4. CASE r.images \in {<<i>> : i \in TestImages}
        <3>1. PICK i \in FittingImages : r.images = <<i>>
            BY <1>1, <2>4
        <3> QED BY <2>1, <3>1
    <2>5. CASE r.images \in {<<i, k>> : i, k \in TestImages}
        <3>1. PICK i \in FittingImages, k \in FittingImages :
                  r.images = <<i, k>>
            BY <1>1, <2>5
        <3> QED BY <2>1, <3>1
    <2> QED BY <2>2, <2>3, <2>4, <2>5
<1>3. \A s \in Floats : s \in Seq(Words) /\ Len(s) \in Words
    <2>1. /\ 0 \in Words /\ 1 \in Words /\ 2 \in Words /\ 5 \in Words
          /\ 7 \in Words /\ 14 \in Words
        BY SmallNumbers
    <2>2. /\ <<>> \in Seq(Words) /\ Len(<<>>) \in Words
          /\ <<5>> \in Seq(Words) /\ Len(<<5>>) \in Words
          /\ <<0, 7>> \in Seq(Words) /\ Len(<<0, 7>>) \in Words
          /\ <<14>> \in Seq(Words) /\ Len(<<14>>) \in Words
        BY <2>1
    <2> QED BY <2>2 DEF Floats
<1>4. /\ r.state \in Floats /\ r.noise \in Floats
      /\ r.task \in {<<>>, <<1, 1, 0>>}
      /\ r = [images |-> r.images, state |-> r.state, noise |-> r.noise,
              task |-> r.task]
    BY DEF Requests
<1>5. r.task \in Seq(Byte) /\ Len(r.task) \in Words
    BY <1>4, ShortTexts
<1> QED
    BY <1>2, <1>3, <1>4, <1>5 DEF FittingRequests

LEMMA TestResponseFits ==
    ASSUME NEW r \in Responses
    PROVE  r \in FittingResponses
<1>1. \A m \in TestMetrics : m \in Seq(FittingMetrics) /\ Len(m) \in Words
    <2>1. /\ 0 \in Words /\ 1 \in Words /\ 2 \in Words
          /\ 200 \in LongWords /\ 3 \in LongWords /\ 40 \in LongWords
        BY SmallNumbers
    <2>2. \A n \in {<<>>, <<1>>, <<1, 0>>, <<0, 1>>} :
             \A v \in {200, 3, 40} :
                 [name |-> n, value |-> v] \in FittingMetrics
        BY <2>1, ShortTexts DEF FittingMetrics
    <2> SUFFICES ASSUME NEW m \in TestMetrics
                 PROVE  m \in Seq(FittingMetrics) /\ Len(m) \in Words
        OBVIOUS
    <2>3. CASE m = <<>>
        BY <2>1, <2>3
    <2> DEFINE short == <<1>>
    <2>4. ASSUME NEW n \in {<<>>, short, <<1, 0>>},
                 m = <<[name |-> n, value |-> 200]>>
          PROVE  m \in Seq(FittingMetrics) /\ Len(m) \in Words
        <3>1. [name |-> n, value |-> 200] \in FittingMetrics
            BY <2>2
        <3> DEFINE x == [name |-> n, value |-> 200]
        <3> HIDE DEF x
        <3> QED BY <2>1, <2>4, <3>1 DEF x
    <2>5. ASSUME NEW n \in {short, <<0, 1>>},
                 m = <<[name |-> short, value |-> 3],
                       [name |-> n, value |-> 40]>>
          PROVE  m \in Seq(FittingMetrics) /\ Len(m) \in Words
        <3> DEFINE x == [name |-> short, value |-> 3]
                   y == [name |-> n, value |-> 40]
        <3>1. x \in FittingMetrics /\ y \in FittingMetrics /\ m = <<x, y>>
            BY <2>2, <2>5
        <3> HIDE DEF x, y
        <3> QED BY <2>1, <3>1
    <2> QED BY <2>3, <2>4, <2>5 DEF TestMetrics
<1>2. PICK c \in 0 .. 2, d \in 0 .. 2, n \in {0, 1, 2, 4}, m \in TestMetrics :
          r = [chunk_size |-> c, action_dim |-> d, metrics |-> m,
               actions |-> [i \in 1 .. n |-> (5 * i) % Word]]
    BY DEF Responses
<1> DEFINE actions == [i \in 1 .. n |-> (5 * i) % Word]
<1>3. c \in Words /\ d \in Words /\ n \in Words /\ n \in Nat
    BY SmallNumbers
<1>4. actions \in [1 .. n -> Words]
    <2>1. Word \in Nat \ {0}
        BY SmallNumbers
    <2>2. \A i \in 1 .. n : (5 * i) % Word \in 0 .. Word - 1
        BY <1>3, <2>1
    <2> QED BY <2>2 DEF Words
<1>5. actions \in Seq(Words) /\ Len(actions) = n
    <2> HIDE DEF actions
    <2> QED BY <1>3, <1>4, FunctionIsSequence
<1>6. /\ r.chunk_size = c /\ r.action_dim = d /\ r.metrics = m
      /\ r.actions = actions
      /\ r = [chunk_size |-> c, action_dim |-> d, actions |-> actions,
              metrics |-> m]
    BY <1>2
<1> HIDE DEF actions
<1> QED
    BY <1>1, <1>3, <1>5, <1>6 DEF FittingResponses

(* A payload that is cut, made longer and changed in a byte is a payload.  *)
LEMMA AlteredAreBytes ==
    ASSUME NEW s \in Seq(Byte), NEW p \in Altered(s)
    PROVE  p \in Seq(Byte)
<1> DEFINE long == s \o <<1, 0>>
<1>1. long \in Seq(Byte)
    BY ShortTexts, Joined
<1>2. PICK k \in 1 .. Len(long) : \E i \in 1 .. Len(Cut(long, 0, k)) :
          \E b \in Bytes : p = [Cut(long, 0, k) EXCEPT ![i] = b]
    BY DEF Altered
<1> HIDE DEF long
<1>3. Cut(long, 0, k) \in Seq(Byte)
    <2>1. /\ 0 \in Nat /\ k \in Nat /\ 0 + k <= Len(long)
        BY <1>1, LenProperties
    <2> QED BY <1>1, <2>1, TextAt
<1> DEFINE cut == Cut(long, 0, k)
<1> HIDE DEF cut
<1>4. cut \in Seq(Byte) /\ \E i \in 1 .. Len(cut) : \E b \in Byte :
          p = [cut EXCEPT ![i] = b]
    BY <1>2, <1>3 DEF cut, Bytes, Byte
<1> QED
    BY <1>4, ExceptSeq

(* The requests that TLC damages are encoded.                              *)
LEMMA DamagedIsEncoded ==
    ASSUME NEW r \in DamagedRequests
    PROVE  r \in FittingRequests /\ EncodeRequest(r) = Payload(RequestBytes(r))
<1>1. /\ r \in Requests /\ r.state = <<5>> /\ r.noise = <<>>
      /\ r.images \in {<<Image(1, 1, 0, <<>>, 3)>>,
                       <<Image(2, 1, 6, <<1>>, 6)>>}
    BY DEF DamagedRequests
<1>2. r \in FittingRequests
    BY <1>1, TestRequestFits
<1>3. Finite(5)
    <2> DEFINE b == ByteValues
               c == b * b * b
               q == Word \div b
    <2>1. b \in Nat /\ b >= 2
        BY ByteAssumption
    <2>2. b * b \in Nat /\ b * b >= 4
        BY <2>1
    <2>3. c \in Nat /\ c >= 8
        <3> DEFINE d == b * b
        <3>1. d \in Nat /\ d >= 4
            BY <2>2
        <3> HIDE DEF b, d
        <3>2. d * b \in Nat
            BY <2>1, <3>1
        <3>3. d * b >= d * 2
            BY <2>1, <3>1
        <3> QED BY <3>1, <3>2, <3>3 DEF d
    <2>4. q = c
        <3>1. Word = c * b
            BY DEF Word
        <3> HIDE DEF b, c
        <3>2. c * b = b * c /\ b \in Nat \ {0}
            BY <2>1, <2>3
        <3>3. b * c = 0 + b * c /\ 0 \in 0 .. b - 1
            BY <2>1, <2>3
        <3>4. (c * b) \div b = c
            BY <2>1, <2>3, <3>2, <3>3
        <3> QED BY <3>1, <3>4
    <2> HIDE DEF q, c
    <2>5. 5 \div q = 0
        BY <2>3, <2>4
    <2> HIDE DEF b
    <2>6. b - 1 # 0
        BY <2>1
    <2> QED BY <2>5, <2>6 DEF Finite, q, b
<1>4. AllFinite(r.state \o r.noise)
    <2>1. r.state \o r.noise = <<5>>
        BY <1>1
    <2>2. Len(<<5>>) = 1 /\ <<5>>[1] = 5
        OBVIOUS
    <2> QED BY <1>3, <2>1, <2>2 DEF AllFinite
<1>5. Word \in Nat /\ Word >= 16
    BY SmallNumbers
<1>6. ImageIsValid(Image(1, 1, 0, <<>>, 3))
    <2> DEFINE image == Image(1, 1, 0, <<>>, 3)
    <2>1. /\ image.format = RawRGB /\ image.width = 1 /\ image.height = 1
          /\ image.channels = 3 /\ image.stride = 0 /\ image.name = <<>>
        BY DEF Image
    <2>2. image.data \in Seq(Byte) /\ Len(image.data) = 3
        <3>1. 0 \in 0 .. 15 /\ 1 \in 0 .. 15 /\ 3 \in 0 .. 15
            OBVIOUS
        <3>2. <<>> \in Seq(Byte) /\ Len(<<>>) \in Words
            BY ShortTexts
        <3>3. Image(1, 1, 0, <<>>, 3).data \in Seq(Byte)
            BY <3>1, <3>2, TestImageFits, Zenon
        <3>4. Len(image.data) = 3
            <4> DEFINE data == [i \in 1 .. 3 |-> i % ByteValues]
            <4>1. data \in [1 .. 3 -> Byte]
                <5>1. \A i \in 1 .. 3 : i % ByteValues \in Byte
                    BY OneByte
                <5> QED BY <5>1
            <4>2. image.data = data
                BY DEF Image
            <4> HIDE DEF data
            <4>3. Len(data) = 3
                <5>1. 3 \in Nat
                    OBVIOUS
                <5> QED BY <4>1, <5>1, FunctionIsSequence
            <4> QED BY <4>2, <4>3
        <3> QED BY <3>3, <3>4
    <2> HIDE DEF image
    <2>3. RowBytes(image) = 3
        BY <1>5, <2>1 DEF RowBytes
    <2>4. Stride(image) = 3
        BY <2>1, <2>3 DEF Stride
    <2>5. image.data # <<>>
        <3>1. Len(<<>>) = 0
            OBVIOUS
        <3>2. ASSUME image.data = <<>>
              PROVE  FALSE
            <4>1. Len(image.data) = Len(<<>>)
                BY <3>2, Zenon
            <4> QED BY <2>2, <3>1, <4>1
        <3> QED BY <3>2, Zenon
    <2>6. CountFits(image.name)
        <3>1. Len(<<>>) = 0
            OBVIOUS
        <3> QED BY <1>5, <2>1, <3>1 DEF CountFits
    <2>7. Len(image.data) >= Stride(image) * image.height
        BY <2>1, <2>2, <2>4
    <2>8. Stride(image) >= RowBytes(image)
        BY <2>3, <2>4
    <2>9. ImageIsValid(image)
        BY <2>1, <2>5, <2>6, <2>7, <2>8 DEF ImageIsValid
    <2> QED BY <2>9 DEF image
<1>7. ImageIsValid(Image(2, 1, 6, <<1>>, 6))
    <2> DEFINE image == Image(2, 1, 6, <<1>>, 6)
    <2>1. /\ image.format = RawRGB /\ image.width = 2 /\ image.height = 1
          /\ image.channels = 3 /\ image.stride = 6 /\ image.name = <<1>>
        BY DEF Image
    <2>2. image.data \in Seq(Byte) /\ Len(image.data) = 6
        <3>1. 1 \in 0 .. 15 /\ 2 \in 0 .. 15 /\ 6 \in 0 .. 15
            OBVIOUS
        <3>2. <<1>> \in Seq(Byte) /\ Len(<<1>>) \in Words
            BY ShortTexts
        <3>3. Image(2, 1, 6, <<1>>, 6).data \in Seq(Byte)
            BY <3>1, <3>2, TestImageFits, Zenon
        <3>4. Len(image.data) = 6
            <4> DEFINE data == [i \in 1 .. 6 |-> i % ByteValues]
            <4>1. data \in [1 .. 6 -> Byte]
                <5>1. \A i \in 1 .. 6 : i % ByteValues \in Byte
                    BY OneByte
                <5> QED BY <5>1
            <4>2. image.data = data
                BY DEF Image
            <4> HIDE DEF data
            <4>3. Len(data) = 6
                <5>1. 6 \in Nat
                    OBVIOUS
                <5> QED BY <4>1, <5>1, FunctionIsSequence
            <4> QED BY <4>2, <4>3
        <3> QED BY <3>3, <3>4
    <2> HIDE DEF image
    <2>3. RowBytes(image) = 6
        BY <1>5, <2>1 DEF RowBytes
    <2>4. Stride(image) = 6
        BY <2>1, <2>3 DEF Stride
    <2>5. image.data # <<>>
        <3>1. Len(<<>>) = 0
            OBVIOUS
        <3>2. ASSUME image.data = <<>>
              PROVE  FALSE
            <4>1. Len(image.data) = Len(<<>>)
                BY <3>2, Zenon
            <4> QED BY <2>2, <3>1, <4>1
        <3> QED BY <3>2, Zenon
    <2>6. CountFits(image.name)
        <3>1. Len(<<1>>) = 1
            OBVIOUS
        <3> QED BY <1>5, <2>1, <3>1 DEF CountFits
    <2>7. Len(image.data) >= Stride(image) * image.height
        BY <2>1, <2>2, <2>4
    <2>8. Stride(image) >= RowBytes(image)
        BY <2>3, <2>4
    <2>9. ImageIsValid(image)
        BY <2>1, <2>5, <2>6, <2>7, <2>8 DEF ImageIsValid
    <2> QED BY <2>9 DEF image
<1>8. PICK image : ImageIsValid(image) /\ r.images = <<image>>
    BY <1>1, <1>6, <1>7
<1>9. /\ r.images # <<>>
      /\ \A i \in 1 .. Len(r.images) : ImageIsValid(r.images[i])
    <2>1. Len(<<image>>) = 1 /\ <<image>>[1] = image
        OBVIOUS
    <2> QED BY <1>8, <2>1
<1> QED
    BY <1>2, <1>4, <1>9, EncodeIs DEF IsSound

(* The bytes of an answer that TLC damages stay bytes.                     *)
LEMMA DamagedAnswersAreBytes ==
    ASSUME NEW r \in DamagedResponses,
           NEW p \in Altered(EncodeResponse(r).payload)
    PROVE  p \in Seq(Byte)
<1>1. r \in Responses /\ EncodeResponse(r).ok
    BY DEF DamagedResponses
<1>2. r \in FittingResponses
    BY <1>1, TestResponseFits
<1>3. EncodeResponse(r).payload = ResponseBytes(r)
    <2>1. EncodeResponse(r) \in {Payload(ResponseBytes(r)), Refused}
        BY <1>2, EncodeResponseIs
    <2>2. ~Refused.ok /\ Payload(ResponseBytes(r)).payload = ResponseBytes(r)
        BY DEF Refused, Payload
    <2> QED BY <1>1, <2>1, <2>2
<1>4. ResponseBytes(r) \in Seq(Byte)
    <2>1. <<>> \in Seq(Byte)
        BY EmptySeq
    <2> QED BY <1>2, <2>1, ResponseLayout
<1> QED
    BY <1>3, <1>4, AlteredAreBytes

---------------------------------------------------------------------------
(* The theorems                                                            *)

(* What the C++ client sends is what the server reads, the Python client   *)
(* sends the same bytes, and what C++ would not have sent the server       *)
(* refuses: for every number of values of a byte, every number of images,  *)
(* every width and height that has a field, and texts and numbers of any   *)
(* length that has one (encode_predict_request, decode_predict_request,    *)
(* encode_predict_observation).                                            *)
THEOREM EveryRequestSurvives ==
    (\A r \in FittingRequests : RequestSurvives(r)) /\ RequestsSurvive
<1>1. \A r \in FittingRequests : RequestSurvives(r)
    BY FittingRequestSurvives
<1>2. RequestsSurvive
    BY <1>1, TestRequestFits DEF RequestsSurvive
<1> QED
    BY <1>1, <1>2

(* What the server answers is what each of the two clients reads, for      *)
(* every shape and number of actions and any metrics                       *)
(* (encode_predict_response and the two decode_predict_response).          *)
THEOREM EveryResponseSurvives ==
    (\A r \in FittingResponses : ResponseSurvives(r)) /\ ResponsesSurvive
<1>1. \A r \in FittingResponses : ResponseSurvives(r)
    BY FittingResponseSurvives
<1>2. ResponsesSurvive
    BY <1>1, TestResponseFits DEF ResponsesSurvive
<1> QED
    BY <1>1, <1>2

(* Every payload that is accepted, whatever its bytes are, is the encoding *)
(* of what is read from it (decode_predict_request and                     *)
(* decode_predict_response): no two payloads mean the same.                *)
THEOREM EveryDecodingIsExact ==
    /\ \A p \in Seq(Byte) : RequestIsExact(p) /\ ResponseIsExact(p)
    /\ DecodingIsExact
<1>1. \A p \in Seq(Byte) : RequestIsExact(p) /\ ResponseIsExact(p)
    BY EveryRequestIsExact, EveryResponseIsExact
<1>2. ASSUME NEW r \in DamagedRequests,
             NEW p \in Altered(EncodeRequest(r).payload)
      PROVE  RequestIsExact(p)
    <2>1. EncodeRequest(r).payload = RequestBytes(r) /\ r \in FittingRequests
        BY DamagedIsEncoded DEF Payload
    <2>2. RequestBytes(r) \in Seq(Byte)
        BY <2>1, RequestIsBytes
    <2>3. p \in Seq(Byte)
        BY <2>1, <2>2, AlteredAreBytes
    <2> QED BY <1>1, <2>3
<1>3. ASSUME NEW r \in DamagedResponses,
             NEW p \in Altered(EncodeResponse(r).payload)
      PROVE  ResponseIsExact(p)
    BY <1>1, DamagedAnswersAreBytes
<1> QED
    BY <1>1, <1>2, <1>3 DEF DecodingIsExact

(* The clients in C++ and in Python accept the same payloads, whatever     *)
(* their bytes are, but for a metric without a name, and read the same     *)
(* from them; names that are text stay as they are, others are read as     *)
(* Python replaces what is no text (the two decode_predict_response).      *)
THEOREM ClientsAlwaysAgree ==
    (\A p \in Seq(Byte) : ClientsAgreeOn(p)) /\ ClientsAgree
<1>1. \A p \in Seq(Byte) : ClientsAgreeOn(p)
    BY EveryClientAgrees
<1>2. ASSUME NEW r \in DamagedResponses,
             NEW p \in Altered(EncodeResponse(r).payload)
      PROVE  ClientsAgreeOn(p)
    BY <1>1, DamagedAnswersAreBytes
<1> QED
    BY <1>1, <1>2 DEF ClientsAgree
=============================================================================
