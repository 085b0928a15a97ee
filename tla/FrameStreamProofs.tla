--------------------------- MODULE FrameStreamProofs ---------------------------
(***************************************************************************)
(* Proofs about FrameStream and the parser of RctFrame, for any messages   *)
(* of standard frames, any number of frames, any damage and any sizes of   *)
(* the reads.                                                              *)
(***************************************************************************)
EXTENDS FrameStream, QueueFacts, WellFoundedInduction

-----------------------------------------------------------------------------
(* Induction, from the order of the natural numbers.                       *)

(* A set of natural numbers that is not empty has a least one. *)
LEMMA LeastNatural ==
  ASSUME NEW T \in SUBSET Nat, T # {}
  PROVE  \E n \in T : \A m \in T : n <= m
  <1>1. PICK n \in T : \A m \in T : ~(<<m, n>> \in OpToRel(<, Nat))
    BY NatLessThanWellFounded, WFMin
  <1>2. \A m \in T : ~(m < n)
    BY <1>1 DEF OpToRel
  <1>3. \A m \in T : m \in Nat /\ n \in Nat
    OBVIOUS
  <1>. QED
    BY <1>2, <1>3

(* A set of natural numbers with 0 and every successor has them all. *)
LEMMA InductionSet ==
  ASSUME NEW T \in SUBSET Nat, 0 \in T, \A n \in T : n + 1 \in T
  PROVE  T = Nat
  <1>. SUFFICES ASSUME Nat \ T # {}
                PROVE  FALSE
    OBVIOUS
  <1>1. PICK n \in Nat \ T : \A m \in Nat \ T : n <= m
    BY LeastNatural
  <1>2. n # 0 /\ n - 1 \in Nat /\ ~(n <= n - 1) /\ (n - 1) + 1 = n
    BY <1>1
  <1>3. n - 1 \in T
    BY <1>1, <1>2
  <1>. QED
    BY <1>2, <1>3

(* What holds of a and passes on to the next one holds up to n. *)
LEMMA InductionUpTo ==
  ASSUME NEW T \in SUBSET Nat, NEW a \in Nat, NEW n \in Nat, a \in T,
         \A k \in T : a <= k /\ k < n => k + 1 \in T
  PROVE  \A k \in a..n : k \in T
  <1>. DEFINE U == {j \in Nat : a + j <= n => a + j \in T}
  <1>1. 0 \in U
    OBVIOUS
  <1>2. ASSUME NEW j \in U
        PROVE  j + 1 \in U
    <2>. SUFFICES ASSUME a + (j + 1) <= n
                  PROVE  a + (j + 1) \in T
      OBVIOUS
    <2>1. a + j <= n /\ a + j \in Nat /\ a <= a + j /\ a + j < n /\ (a + j) + 1 = a + (j + 1)
      OBVIOUS
    <2>2. a + j \in T
      BY <2>1
    <2>. QED
      BY <2>1, <2>2
  <1>3. U = Nat
    <2>. HIDE DEF U
    <2>1. U \in SUBSET Nat
      BY DEF U
    <2>. QED
      BY <1>1, <1>2, <2>1, InductionSet
  <1>4. ASSUME NEW k \in a..n
        PROVE  k \in T
    <2>1. k - a \in Nat /\ a + (k - a) = k /\ k <= n
      OBVIOUS
    <2>2. k - a \in U
      BY <1>3, <2>1
    <2>. QED
      BY <2>1, <2>2
  <1>. QED
    BY <1>4

-----------------------------------------------------------------------------
(* The checksum.                                                           *)

Words == {n \in Nat : n < 65536}

(* A value that is taken through n steps. *)
AreChain(f, x, step, n) == f = [k \in 0..n |-> IF k = 0 THEN x ELSE step[k][f[k-1]]]

(* There is a value after every step. *)
LEMMA ChainExists ==
  ASSUME NEW x, NEW step, NEW n \in Nat
  PROVE  \E f : AreChain(f, x, step, n)
  <1>. DEFINE T == {j \in Nat : \E f : AreChain(f, x, step, j)}
  <1>1. 0 \in T
    <2>1. PICK f : f = [k \in 0..0 |-> x]
      OBVIOUS
    <2>2. \A k \in 0..0 : k = 0
      OBVIOUS
    <2>3. f = [k \in 0..0 |-> IF k = 0 THEN x ELSE step[k][f[k-1]]]
      BY <2>1, <2>2
    <2>. QED
      BY <2>3 DEF AreChain
  <1>2. ASSUME NEW j \in T
        PROVE  j + 1 \in T
    <2>1. PICK f : AreChain(f, x, step, j)
      OBVIOUS
    <2>2. PICK g : g = [k \in 0..(j + 1) |-> IF k = j + 1 THEN step[j + 1][f[j]] ELSE f[k]]
      OBVIOUS
    <2>3. /\ \A k \in 0..(j + 1) : k # j + 1 => k \in 0..j
          /\ \A k \in 0..(j + 1) : k # 0 => k - 1 \in 0..(j + 1) /\ k - 1 # j + 1
          /\ (j + 1) - 1 = j /\ j + 1 # 0 /\ j \in 0..j /\ j # j + 1 /\ j \in 0..(j + 1)
      OBVIOUS
    <2>4. ASSUME NEW k \in 0..(j + 1)
          PROVE  g[k] = IF k = 0 THEN x ELSE step[k][g[k-1]]
      <3>1. CASE k = j + 1
        BY <2>2, <2>3, <3>1
      <3>2. CASE k # j + 1
        <4>1. g[k] = f[k] /\ k \in 0..j
          BY <2>2, <2>3, <3>2
        <4>2. f[k] = IF k = 0 THEN x ELSE step[k][f[k-1]]
          BY <2>1, <4>1 DEF AreChain
        <4>3. k # 0 => g[k - 1] = f[k - 1]
          BY <2>2, <2>3
        <4>. QED
          BY <4>1, <4>2, <4>3
      <3>. QED
        BY <3>1, <3>2
    <2>5. AreChain(g, x, step, j + 1)
      BY <2>2, <2>4 DEF AreChain
    <2>. QED
      BY <2>5
  <1>3. T = Nat
    <2>. HIDE DEF T
    <2>1. T \in SUBSET Nat
      BY DEF T
    <2>. QED
      BY <1>1, <1>2, <2>1, InductionSet
  <1>. QED
    BY <1>3

(* Steps that stay in a set never leave it. *)
LEMMA ChainStays ==
  ASSUME NEW f, NEW D, NEW n \in Nat, f[0] \in D,
         \A k \in 1..n : f[k - 1] \in D => f[k] \in D
  PROVE  \A k \in 0..n : f[k] \in D
  <1>. DEFINE T == {k \in 0..n : f[k] \in D}
  <1>1. T \in SUBSET Nat /\ 0 \in T
    OBVIOUS
  <1>2. ASSUME NEW k \in T, k < n
        PROVE  k + 1 \in T
    <2>1. k + 1 \in 1..n /\ (k + 1) - 1 = k /\ k + 1 \in 0..n
      BY <1>2
    <2>. QED
      BY <2>1
  <1>3. \A k \in 0..n : k \in T
    <2>. HIDE DEF T
    <2>. QED
      BY <1>1, <1>2, InductionUpTo
  <1>. QED
    BY <1>3

(* Steps that tell values apart tell them apart to the end. *)
LEMMA ChainsDiffer ==
  ASSUME NEW f, NEW g, NEW n \in Nat, NEW i \in 0..n, f[i] # g[i],
         \A k \in (i + 1)..n : f[k - 1] # g[k - 1] => f[k] # g[k]
  PROVE  f[n] # g[n]
  <1>. DEFINE T == {k \in 0..n : f[k] # g[k]}
  <1>1. T \in SUBSET Nat /\ i \in T /\ i \in Nat /\ n \in i..n
    OBVIOUS
  <1>2. ASSUME NEW k \in T, i <= k, k < n
        PROVE  k + 1 \in T
    <2>1. k + 1 \in (i + 1)..n /\ (k + 1) - 1 = k /\ k + 1 \in 0..n
      BY <1>2
    <2>. QED
      BY <2>1
  <1>3. \A k \in i..n : k \in T
    <2>. HIDE DEF T
    <2>. QED
      BY <1>1, <1>2, InductionUpTo
  <1>. QED
    BY <1>1, <1>3

(* Up to the first difference the values are the same. *)
LEMMA ChainsAgree ==
  ASSUME NEW f, NEW g, NEW n \in Nat, f[0] = g[0],
         \A k \in 1..n : f[k - 1] = g[k - 1] => f[k] = g[k]
  PROVE  f[n] = g[n]
  <1>. DEFINE T == {k \in 0..n : f[k] = g[k]}
  <1>1. T \in SUBSET Nat /\ 0 \in T /\ n \in 0..n
    OBVIOUS
  <1>2. ASSUME NEW k \in T, k < n
        PROVE  k + 1 \in T
    <2>1. k + 1 \in 1..n /\ (k + 1) - 1 = k /\ k + 1 \in 0..n
      BY <1>2
    <2>. QED
      BY <2>1
  <1>3. \A k \in 0..n : k \in T
    <2>. HIDE DEF T
    <2>. QED
      BY <1>1, <1>2, InductionUpTo
  <1>. QED
    BY <1>1, <1>3

(* One bit of a number is changed. *)
LEMMA FlipFacts ==
  ASSUME NEW k \in {0, 5, 12}, NEW x \in Words
  PROVE  Flip(x, k) \in Words /\ Flip(Flip(x, k), k) = x
  <1>1. CASE k = 0
    BY <1>1, SMT DEF Flip, Bit, Words
  <1>2. CASE k = 5
    BY <1>2, SMT DEF Flip, Bit, Words
  <1>3. CASE k = 12
    BY <1>3, SMT DEF Flip, Bit, Words
  <1>. QED
    BY <1>1, <1>2, <1>3

(* Both ways of a shift end with another lowest bit. *)
LEMMA ShiftFacts ==
  ASSUME NEW x \in Words
  PROVE  Shift(x) \in Words /\ \A y \in Words : x # y => Shift(x) # Shift(y)
  <1>. DEFINE Out(z) == Flip(Flip(Flip(2 * z - 65536, 0), 5), 12)
  <1>1. ASSUME NEW z \in Words, z >= 32768
        PROVE  /\ Out(z) \in Words /\ Out(z) % 2 = 1 /\ Shift(z) = Out(z)
               /\ Flip(Flip(Flip(Out(z), 12), 5), 0) = 2 * z - 65536
    <2>1. PICK a \in Words : a = 2 * z - 65536 /\ a % 2 = 0
      BY <1>1, SMT DEF Words
    <2>2. PICK b \in Words : b = Flip(a, 0) /\ Flip(b, 0) = a
      BY FlipFacts
    <2>3. PICK c \in Words : c = Flip(b, 5) /\ Flip(c, 5) = b
      BY FlipFacts
    <2>4. PICK d \in Words : d = Flip(c, 12) /\ Flip(d, 12) = c
      BY FlipFacts
    <2>5. Out(z) = d
      BY <2>1, <2>2, <2>3, <2>4
    <2>6. b % 2 = 1
      BY <2>1, <2>2, SMT DEF Flip, Bit, Words
    <2>7. c % 2 = 1
      BY <2>3, <2>6, SMT DEF Flip, Bit, Words
    <2>8. d % 2 = 1
      BY <2>4, <2>7, SMT DEF Flip, Bit, Words
    <2>9. Shift(z) = Out(z)
      BY <1>1, SMT DEF Shift, Words
    <2>. QED
      BY <2>1, <2>2, <2>3, <2>4, <2>5, <2>8, <2>9
  <1>2. ASSUME NEW z \in Words, ~(z >= 32768)
        PROVE  Shift(z) = 2 * z /\ Shift(z) \in Words /\ Shift(z) % 2 = 0
    BY <1>2, SMT DEF Shift, Words
  <1>3. Shift(x) \in Words
    BY <1>1, <1>2
  <1>4. ASSUME NEW y \in Words, Shift(x) = Shift(y)
        PROVE  x = y
    <2>. HIDE DEF Out
    <2>1. CASE x >= 32768 /\ y >= 32768
      <3>1. Out(x) = Out(y)
        BY <1>1, <1>4, <2>1
      <3>2. 2 * x - 65536 = 2 * y - 65536
        BY <1>1, <2>1, <3>1
      <3>. QED
        BY <3>2, SMT DEF Words
    <2>2. CASE ~(x >= 32768) /\ ~(y >= 32768)
      BY <1>2, <1>4, <2>2, SMT DEF Words
    <2>3. CASE x >= 32768 /\ ~(y >= 32768)
      BY <1>1, <1>2, <1>4, <2>3
    <2>4. CASE ~(x >= 32768) /\ y >= 32768
      BY <1>1, <1>2, <1>4, <2>4
    <2>. QED
      BY <2>1, <2>2, <2>3, <2>4
  <1>. QED
    BY <1>3, <1>4

(* The places of a byte, and what the bits f above the low byte are worth. *)
Places == {0, 1, 2, 3, 4, 5, 6, 7}
Weighted(f) == 256 * f[0] + 512 * f[1] + 1024 * f[2] + 2048 * f[3]
            + 4096 * f[4] + 8192 * f[5] + 16384 * f[6] + 32768 * f[7]

Low(b)     == [k \in Places |-> Bit(b, k)]
High(c)    == [k \in Places |-> Bit(c, k + 8)]
Both(c, b) == [k \in Places |-> (Bit(c, k + 8) + Bit(b, k)) % 2]

(* A number is made of its bits. *)
LEMMA BitFacts ==
  /\ \A x \in Nat : Low(x) \in [Places -> {0, 1}] /\ High(x) \in [Places -> {0, 1}]
  /\ \A b \in Bytes : 256 * b = Weighted(Low(b))
  /\ \A c \in Words : c = (c % 256) + Weighted(High(c))
  <1>1. ASSUME NEW x \in Nat, NEW k \in Places
        PROVE  Bit(x, k) \in {0, 1} /\ Bit(x, k + 8) \in {0, 1}
    BY SMT DEF Bit, Places
  <1>2. ASSUME NEW b \in Bytes
        PROVE  256 * b = Weighted(Low(b))
    <2>1. 256 * b = 256 * Bit(b, 0) + 512 * Bit(b, 1) + 1024 * Bit(b, 2) + 2048 * Bit(b, 3)
                      + 4096 * Bit(b, 4) + 8192 * Bit(b, 5) + 16384 * Bit(b, 6) + 32768 * Bit(b, 7)
      BY SMT DEF Bit, Bytes
    <2>. QED
      BY <2>1, SMT DEF Weighted, Low, Places
  <1>3. ASSUME NEW c \in Words
        PROVE  c = (c % 256) + Weighted(High(c))
    <2>1. c = (c % 256) + 256 * Bit(c, 8) + 512 * Bit(c, 9) + 1024 * Bit(c, 10) + 2048 * Bit(c, 11)
                + 4096 * Bit(c, 12) + 8192 * Bit(c, 13) + 16384 * Bit(c, 14) + 32768 * Bit(c, 15)
      BY SMT DEF Bit, Words
    <2>2. PICK f : f = High(c)
      OBVIOUS
    <2>3. /\ f[0] = Bit(c, 8) /\ f[1] = Bit(c, 9) /\ f[2] = Bit(c, 10) /\ f[3] = Bit(c, 11)
          /\ f[4] = Bit(c, 12) /\ f[5] = Bit(c, 13) /\ f[6] = Bit(c, 14) /\ f[7] = Bit(c, 15)
      BY <2>2, SMT DEF High, Places
    <2>4. c \in Nat /\ \A k \in Places : Bit(c, k + 8) \in {0, 1}
      BY <1>1 DEF Words
    <2>5. /\ f[0] \in {0, 1} /\ f[1] \in {0, 1} /\ f[2] \in {0, 1} /\ f[3] \in {0, 1}
          /\ f[4] \in {0, 1} /\ f[5] \in {0, 1} /\ f[6] \in {0, 1} /\ f[7] \in {0, 1}
      BY <2>2, <2>4, SMT DEF High, Places
    <2>. QED
      BY <2>1, <2>2, <2>3, <2>4, <2>5, SMT DEF Weighted
  <1>. QED
    BY <1>1, <1>2, <1>3 DEF Low, High

(* What an exclusive or with the byte above 255 makes. *)
LEMMA XorForm ==
  ASSUME NEW c \in Words, NEW b \in Bytes
  PROVE  /\ XorHigh(c, b) = (c % 256) + Weighted(Both(c, b))
         /\ Both(c, b) \in [Places -> {0, 1}] /\ c % 256 \in Nat /\ c % 256 < 256
  <1>1. c \in Nat /\ b \in Nat
    BY SMT DEF Words, Bytes
  <1>2. PICK f : f = Both(c, b)
    OBVIOUS
  <1>3. ASSUME NEW k \in Places
        PROVE  f[k] = (Bit(c, k + 8) + Bit(b, k)) % 2 /\ f[k] \in {0, 1}
    <2>1. Bit(c, k + 8) \in {0, 1} /\ Bit(b, k) \in {0, 1}
      BY <1>1, BitFacts DEF Low, High
    <2>2. \A x, y \in {0, 1} : (x + y) % 2 \in {0, 1}
      BY SMT
    <2>. QED
      BY <1>2, <2>1, <2>2 DEF Both
  <1>4. XorHigh(c, b) = (c % 256) + 256 * f[0] + 512 * f[1] + 1024 * f[2] + 2048 * f[3]
                          + 4096 * f[4] + 8192 * f[5] + 16384 * f[6] + 32768 * f[7]
    <2>1. /\ f[0] = (Bit(c, 0 + 8) + Bit(b, 0)) % 2 /\ f[1] = (Bit(c, 1 + 8) + Bit(b, 1)) % 2
          /\ f[2] = (Bit(c, 2 + 8) + Bit(b, 2)) % 2 /\ f[3] = (Bit(c, 3 + 8) + Bit(b, 3)) % 2
          /\ f[4] = (Bit(c, 4 + 8) + Bit(b, 4)) % 2 /\ f[5] = (Bit(c, 5 + 8) + Bit(b, 5)) % 2
          /\ f[6] = (Bit(c, 6 + 8) + Bit(b, 6)) % 2 /\ f[7] = (Bit(c, 7 + 8) + Bit(b, 7)) % 2
      BY <1>3, Zenon DEF Places
    <2>. QED
      BY <2>1, SMT DEF XorHigh
  <1>5. /\ f[0] \in {0, 1} /\ f[1] \in {0, 1} /\ f[2] \in {0, 1} /\ f[3] \in {0, 1}
        /\ f[4] \in {0, 1} /\ f[5] \in {0, 1} /\ f[6] \in {0, 1} /\ f[7] \in {0, 1}
    BY <1>3 DEF Places
  <1>6. c % 256 \in Nat /\ c % 256 < 256
    BY <1>1, SMT
  <1>7. XorHigh(c, b) = (c % 256) + Weighted(f)
    <2>1. PICK x0, x1, x2, x3, x4, x5, x6, x7 :
            /\ f[0] = x0 /\ f[1] = x1 /\ f[2] = x2 /\ f[3] = x3
            /\ f[4] = x4 /\ f[5] = x5 /\ f[6] = x6 /\ f[7] = x7
      OBVIOUS
    <2>2. PICK a : a = c % 256
      OBVIOUS
    <2>3. Weighted(f) = 256 * x0 + 512 * x1 + 1024 * x2 + 2048 * x3
                     + 4096 * x4 + 8192 * x5 + 16384 * x6 + 32768 * x7
      BY <2>1, SMT DEF Weighted
    <2>4. XorHigh(c, b) = a + 256 * x0 + 512 * x1 + 1024 * x2 + 2048 * x3
                            + 4096 * x4 + 8192 * x5 + 16384 * x6 + 32768 * x7
      BY <1>4, <2>1, <2>2, SMT
    <2>5. /\ x0 \in {0, 1} /\ x1 \in {0, 1} /\ x2 \in {0, 1} /\ x3 \in {0, 1}
          /\ x4 \in {0, 1} /\ x5 \in {0, 1} /\ x6 \in {0, 1} /\ x7 \in {0, 1}
      BY <1>5, <2>1
    <2>. QED
      BY <1>6, <2>2, <2>3, <2>4, <2>5
  <1>8. f \in [Places -> {0, 1}]
    BY <1>2, <1>3 DEF Both
  <1>. QED
    BY <1>2, <1>6, <1>7, <1>8

(* Different low bytes, or different bits above them, make different numbers. *)
LEMMA SumFacts ==
  ASSUME NEW a \in Nat, NEW d \in Nat, a < 256, d < 256,
         NEW f \in [Places -> {0, 1}], NEW g \in [Places -> {0, 1}]
  PROVE  /\ a + Weighted(f) = d + Weighted(g) => a = d /\ \A k \in Places : f[k] = g[k]
         /\ a + Weighted(f) \in Words
  <1>1. /\ f[0] \in {0, 1} /\ f[1] \in {0, 1} /\ f[2] \in {0, 1} /\ f[3] \in {0, 1}
        /\ f[4] \in {0, 1} /\ f[5] \in {0, 1} /\ f[6] \in {0, 1} /\ f[7] \in {0, 1}
    BY DEF Places
  <1>2. /\ g[0] \in {0, 1} /\ g[1] \in {0, 1} /\ g[2] \in {0, 1} /\ g[3] \in {0, 1}
        /\ g[4] \in {0, 1} /\ g[5] \in {0, 1} /\ g[6] \in {0, 1} /\ g[7] \in {0, 1}
    BY DEF Places
  <1>3. ASSUME a + Weighted(f) = d + Weighted(g)
        PROVE  /\ a = d /\ f[0] = g[0] /\ f[1] = g[1] /\ f[2] = g[2] /\ f[3] = g[3]
               /\ f[4] = g[4] /\ f[5] = g[5] /\ f[6] = g[6] /\ f[7] = g[7]
    <2>1. PICK x0, x1, x2, x3, x4, x5, x6, x7 :
            /\ f[0] = x0 /\ f[1] = x1 /\ f[2] = x2 /\ f[3] = x3
            /\ f[4] = x4 /\ f[5] = x5 /\ f[6] = x6 /\ f[7] = x7
      OBVIOUS
    <2>2. PICK y0, y1, y2, y3, y4, y5, y6, y7 :
            /\ g[0] = y0 /\ g[1] = y1 /\ g[2] = y2 /\ g[3] = y3
            /\ g[4] = y4 /\ g[5] = y5 /\ g[6] = y6 /\ g[7] = y7
      OBVIOUS
    <2>3. a + (256 * x0 + 512 * x1 + 1024 * x2 + 2048 * x3
                 + 4096 * x4 + 8192 * x5 + 16384 * x6 + 32768 * x7)
            = d + (256 * y0 + 512 * y1 + 1024 * y2 + 2048 * y3
                     + 4096 * y4 + 8192 * y5 + 16384 * y6 + 32768 * y7)
      BY <1>3, <2>1, <2>2, SMT DEF Weighted
    <2>5. /\ x0 \in {0, 1} /\ x1 \in {0, 1} /\ x2 \in {0, 1} /\ x3 \in {0, 1}
          /\ x4 \in {0, 1} /\ x5 \in {0, 1} /\ x6 \in {0, 1} /\ x7 \in {0, 1}
      BY <1>1, <2>1
    <2>6. /\ y0 \in {0, 1} /\ y1 \in {0, 1} /\ y2 \in {0, 1} /\ y3 \in {0, 1}
          /\ y4 \in {0, 1} /\ y5 \in {0, 1} /\ y6 \in {0, 1} /\ y7 \in {0, 1}
      BY <1>2, <2>2
    <2>4. /\ a = d /\ x0 = y0 /\ x1 = y1 /\ x2 = y2 /\ x3 = y3
          /\ x4 = y4 /\ x5 = y5 /\ x6 = y6 /\ x7 = y7
      BY <2>3, <2>5, <2>6
    <2>. QED
      BY <2>1, <2>2, <2>4, Zenon
  <1>4. a + Weighted(f) \in Words
    BY <1>1, SMT DEF Weighted, Words
  <1>. QED
    BY <1>3, <1>4 DEF Places

(* The exclusive or tells apart the numbers and the bytes. *)
LEMMA XorFacts ==
  ASSUME NEW c \in Words, NEW b \in Bytes
  PROVE  /\ XorHigh(c, b) \in Words
         /\ \A d \in Words : XorHigh(c, b) = XorHigh(d, b) => c = d
         /\ \A e \in Bytes : XorHigh(c, b) = XorHigh(c, e) => b = e
  <1>1. /\ \A e \in Bytes : e \in Nat
        /\ \A d \in Words : d \in Nat /\ d % 256 \in Nat /\ d % 256 < 256
    BY SMT DEF Bytes, Words
  <1>2. ASSUME NEW d \in Words, NEW e \in Bytes, XorHigh(c, b) = XorHigh(d, e)
        PROVE  c % 256 = d % 256 /\ \A k \in Places : Both(c, b)[k] = Both(d, e)[k]
    BY <1>2, XorForm, SumFacts
  <1>3. XorHigh(c, b) \in Words
    BY XorForm, SumFacts
  <1>4. /\ \A x, y, z \in {0, 1} : (x + y) % 2 = (z + y) % 2 => x = z
        /\ \A x, y, z \in {0, 1} : (x + y) % 2 = (x + z) % 2 => y = z
    BY SMT
  <1>5. ASSUME NEW d \in Words, NEW e \in Bytes, NEW k \in Places
        PROVE  /\ Both(d, e)[k] = (High(d)[k] + Low(e)[k]) % 2
               /\ High(d)[k] \in {0, 1} /\ Low(e)[k] \in {0, 1}
    <2>1. High(d)[k] \in {0, 1} /\ Low(e)[k] \in {0, 1}
      BY <1>1, BitFacts
    <2>. QED
      BY <2>1 DEF Both, High, Low
  <1>6. ASSUME NEW d \in Words, XorHigh(c, b) = XorHigh(d, b)
        PROVE  c = d
    <2>1. c % 256 = d % 256 /\ \A k \in Places : High(c)[k] = High(d)[k]
      BY <1>2, <1>4, <1>5, <1>6
    <2>2. High(c) = High(d)
      BY <2>1 DEF High
    <2>. QED
      BY <2>1, <2>2, BitFacts, Zenon
  <1>7. ASSUME NEW e \in Bytes, XorHigh(c, b) = XorHigh(c, e)
        PROVE  b = e
    <2>1. \A k \in Places : Low(b)[k] = Low(e)[k]
      BY <1>2, <1>4, <1>5, <1>7
    <2>2. Low(b) = Low(e)
      BY <2>1 DEF Low
    <2>3. 256 * b = 256 * e
      BY <2>2, BitFacts, Zenon
    <2>. QED
      BY <1>1, <2>3
  <1>. QED
    BY <1>3, <1>6, <1>7

(* A number and a byte, after each of the eight shifts. *)
AreShifted(f, x) == f = [k \in 0..8 |-> IF k = 0 THEN x ELSE Shift(f[k-1])]

(* The shifts, one after another. *)
LEMMA ShiftedFacts ==
  ASSUME NEW c \in Words, NEW b \in Bytes
  PROVE  \E f : /\ f[0] = XorHigh(c, b) /\ ShiftByteIn(c, b) = f[8]
                /\ \A k \in 0..8 : f[k] \in Words
                /\ \A k \in 1..8 : f[k] = Shift(f[k - 1])
  <1>1. PICK x \in Words : x = XorHigh(c, b)
    BY XorFacts
  <1>2. /\ 0 \in 0..8 /\ 8 \in Nat
        /\ \A k \in 1..8 : k \in 0..8 /\ k # 0 /\ k - 1 \in 0..8
        /\ \A k \in 0..8 : k # 0 => k \in 1..8
    OBVIOUS
  <1>3. \E f : AreShifted(f, x)
    <2>1. PICK step : step = [k \in 1..8 |-> [d \in Words |-> Shift(d)]]
      OBVIOUS
    <2>2. PICK f : AreChain(f, x, step, 8)
      BY <1>2, ChainExists
    <2>3. f = [k \in 0..8 |-> IF k = 0 THEN x ELSE step[k][f[k-1]]]
      BY <2>2 DEF AreChain
    <2>4. f[0] = x /\ \A k \in 1..8 : f[k] = step[k][f[k - 1]]
      BY <1>2, <2>3
    <2>5. \A k \in 1..8 : \A d \in Words : step[k][d] = Shift(d) /\ step[k][d] \in Words
      BY <2>1, ShiftFacts
    <2>6. \A k \in 0..8 : f[k] \in Words
      <3>1. f[0] \in Words /\ \A k \in 1..8 : f[k - 1] \in Words => f[k] \in Words
        BY <2>4, <2>5, Zenon
      <3>. QED
        BY <1>2, <3>1, ChainStays, Zenon
    <2>7. \A k \in 0..8 : (IF k = 0 THEN x ELSE step[k][f[k-1]])
                            = (IF k = 0 THEN x ELSE Shift(f[k-1]))
      BY <1>2, <2>5, <2>6, Zenon
    <2>. QED
      BY <2>3, <2>7 DEF AreShifted
  <1>4. PICK f : f = CHOOSE g : AreShifted(g, x)
    OBVIOUS
  <1>5. f = [k \in 0..8 |-> IF k = 0 THEN x ELSE Shift(f[k-1])]
    <2>1. AreShifted(f, x)
      BY <1>3, <1>4
    <2>. QED
      BY <2>1 DEF AreShifted
  <1>6. ShiftByteIn(c, b) = f[8]
    BY <1>1, <1>4, Zenon DEF ShiftByteIn, AreShifted
  <1>7. f[0] = x /\ \A k \in 1..8 : f[k] = Shift(f[k - 1])
    BY <1>2, <1>5
  <1>8. \A k \in 0..8 : f[k] \in Words
    <2>1. f[0] \in Words /\ \A k \in 1..8 : f[k - 1] \in Words => f[k] \in Words
      BY <1>7, ShiftFacts
    <2>. QED
      BY <1>2, <2>1, ChainStays, Zenon
  <1>. QED
    BY <1>1, <1>6, <1>7, <1>8

(* A byte more tells apart the checksums so far, and the bytes. *)
LEMMA ByteInFacts ==
  ASSUME NEW c \in Words, NEW b \in Bytes
  PROVE  /\ ShiftByteIn(c, b) \in Words
         /\ \A d \in Words : c # d => ShiftByteIn(c, b) # ShiftByteIn(d, b)
         /\ \A e \in Bytes : b # e => ShiftByteIn(c, b) # ShiftByteIn(c, e)
  <1>1. ASSUME NEW d \in Words, NEW e \in Bytes, XorHigh(c, b) # XorHigh(d, e)
        PROVE  ShiftByteIn(c, b) # ShiftByteIn(d, e)
    <2>1. PICK f : /\ f[0] = XorHigh(c, b) /\ ShiftByteIn(c, b) = f[8]
                   /\ \A k \in 0..8 : f[k] \in Words
                   /\ \A k \in 1..8 : f[k] = Shift(f[k - 1])
      BY ShiftedFacts
    <2>2. PICK g : /\ g[0] = XorHigh(d, e) /\ ShiftByteIn(d, e) = g[8]
                   /\ \A k \in 0..8 : g[k] \in Words
                   /\ \A k \in 1..8 : g[k] = Shift(g[k - 1])
      BY ShiftedFacts
    <2>3. /\ 0 \in 0..8 /\ 8 \in Nat
          /\ \A k \in (0 + 1)..8 : k \in 1..8 /\ k - 1 \in 0..8
      OBVIOUS
    <2>4. \A x, y \in Words : x # y => Shift(x) # Shift(y)
      BY ShiftFacts
    <2>5. ASSUME NEW k \in (0 + 1)..8, f[k - 1] # g[k - 1]
          PROVE  f[k] # g[k]
      <3>1. k \in 1..8 /\ f[k - 1] \in Words /\ g[k - 1] \in Words
        BY <2>1, <2>2, <2>3
      <3>2. f[k] = Shift(f[k - 1]) /\ g[k] = Shift(g[k - 1])
        BY <2>1, <2>2, <3>1
      <3>. QED
        BY <2>4, <2>5, <3>1, <3>2
    <2>6. f[0] # g[0]
      BY <1>1, <2>1, <2>2
    <2>7. f[8] # g[8]
      BY <2>3, <2>5, <2>6, ChainsDiffer, Zenon
    <2>. QED
      BY <2>1, <2>2, <2>7
  <1>2. ShiftByteIn(c, b) \in Words
    <2>1. 8 \in 0..8
      OBVIOUS
    <2>. QED
      BY <2>1, ShiftedFacts
  <1>3. /\ \A d \in Words : c # d => XorHigh(c, b) # XorHigh(d, b)
        /\ \A e \in Bytes : b # e => XorHigh(c, b) # XorHigh(c, e)
    BY XorFacts
  <1>. QED
    BY <1>1, <1>2, <1>3, Zenon

(* The checksum after each byte. *)
AreSums(f, bytes, n) == f = [k \in 0..n |-> IF k = 0 THEN 65535 ELSE ShiftByteIn(f[k-1], bytes[k])]

(* There is one after each byte. *)
LEMMA SumsExist ==
  ASSUME NEW n \in Nat, NEW bytes, \A k \in 1..n : bytes[k] \in Bytes
  PROVE  \E f : AreSums(f, bytes, n)
  <1>1. /\ 0 \in 0..n
        /\ \A k \in 1..n : k \in 0..n /\ k # 0 /\ k - 1 \in 0..n
        /\ \A k \in 0..n : k # 0 => k \in 1..n
    OBVIOUS
  <1>2. 65535 \in Words
    BY SMT DEF Words
  <1>3. PICK step : step = [k \in 1..n |-> [d \in Words |-> ShiftByteIn(d, bytes[k])]]
    OBVIOUS
  <1>4. PICK f : AreChain(f, 65535, step, n)
    BY ChainExists
  <1>5. f = [k \in 0..n |-> IF k = 0 THEN 65535 ELSE step[k][f[k-1]]]
    BY <1>4 DEF AreChain
  <1>6. f[0] = 65535 /\ \A k \in 1..n : f[k] = step[k][f[k - 1]]
    BY <1>1, <1>5
  <1>7. \A k \in 1..n : \A d \in Words : /\ step[k][d] = ShiftByteIn(d, bytes[k])
                                         /\ step[k][d] \in Words
    BY <1>3, ByteInFacts
  <1>8. \A k \in 0..n : f[k] \in Words
    <2>1. f[0] \in Words /\ \A k \in 1..n : f[k - 1] \in Words => f[k] \in Words
      BY <1>2, <1>6, <1>7
    <2>. QED
      BY <2>1, ChainStays, Zenon
  <1>9. \A k \in 0..n : (IF k = 0 THEN 65535 ELSE step[k][f[k-1]])
                          = (IF k = 0 THEN 65535 ELSE ShiftByteIn(f[k-1], bytes[k]))
    BY <1>1, <1>7, <1>8
  <1>. QED
    BY <1>5, <1>9 DEF AreSums

(* An odd number of bytes gets a zero byte. *)
Padded(bytes) == IF Len(bytes) % 2 = 1 THEN Append(bytes, 0) ELSE bytes

(* What it is appended to. *)
LEMMA PaddedFacts ==
  ASSUME NEW s \in Seq(Bytes)
  PROVE  /\ Padded(s) \in Seq(Bytes) /\ Len(s) \in Nat
         /\ Len(Padded(s)) = Len(s) + (Len(s) % 2)
         /\ \A k \in 1..Len(s) : Padded(s)[k] = s[k]
         /\ \A k \in 1..Len(Padded(s)) : k \notin 1..Len(s) => Padded(s)[k] = 0
  <1>1. 0 \in Bytes
    BY SMT DEF Bytes
  <1>2. Len(s) % 2 \in {0, 1}
    OBVIOUS
  <1>3. CASE Len(s) % 2 = 1
    <2>1. Padded(s) = Append(s, 0)
      BY <1>3 DEF Padded
    <2>. QED
      BY <1>1, <1>3, <2>1
  <1>4. CASE Len(s) % 2 # 1
    <2>1. Padded(s) = s
      BY <1>4 DEF Padded
    <2>. QED
      BY <1>2, <1>4, <2>1
  <1>. QED
    BY <1>3, <1>4

(* The sums, one after another. *)
LEMMA SumFactsOf ==
  ASSUME NEW s \in Seq(Bytes), NEW p, p = Padded(s), NEW n, n = Len(p)
  PROVE  \E f : /\ f[0] = 65535 /\ Crc16(s) = f[n]
                /\ \A k \in 0..n : f[k] \in Words
                /\ \A k \in 1..n : f[k] = ShiftByteIn(f[k - 1], p[k])
  <1>1. p \in Seq(Bytes)
    BY PaddedFacts
  <1>2. n \in Nat
    BY <1>1
  <1>3. \A k \in 1..n : p[k] \in Bytes
    BY <1>1, <1>2
  <1>4. /\ 0 \in 0..n
        /\ \A k \in 1..n : k \in 0..n /\ k # 0
    OBVIOUS
  <1>5. PICK f : f = CHOOSE g : AreSums(g, p, n)
    OBVIOUS
  <1>6. f = [k \in 0..n |-> IF k = 0 THEN 65535 ELSE ShiftByteIn(f[k-1], p[k])]
    <2>1. AreSums(f, p, n)
      BY <1>3, <1>5, SumsExist
    <2>. QED
      BY <2>1 DEF AreSums
  <1>7. Crc16(s) = f[n]
    <2>1. Crc16(s) = (CHOOSE g : AreSums(g, Padded(s), Len(Padded(s))))[Len(Padded(s))]
      BY DEF Crc16, AreSums, Padded
    <2>. QED
      BY <1>5, <2>1
  <1>8. f[0] = 65535 /\ \A k \in 1..n : f[k] = ShiftByteIn(f[k - 1], p[k])
    BY <1>4, <1>6
  <1>9. \A k \in 0..n : f[k] \in Words
    <2>1. 65535 \in Words
      BY SMT DEF Words
    <2>2. f[0] \in Words /\ \A k \in 1..n : f[k - 1] \in Words => f[k] \in Words
      BY <1>3, <1>8, <2>1, ByteInFacts
    <2>. QED
      BY <1>2, <2>2, ChainStays, Zenon
  <1>. QED
    BY <1>7, <1>8, <1>9

(* The checksum is a word. *)
LEMMA CrcWord ==
  ASSUME NEW s \in Seq(Bytes)
  PROVE  Crc16(s) \in Words
  <1>1. Padded(s) \in Seq(Bytes)
    BY PaddedFacts
  <1>2. Len(Padded(s)) \in 0..Len(Padded(s))
    BY <1>1
  <1>. QED
    BY <1>2, SumFactsOf

(* One byte that is different makes a different checksum. *)
LEMMA CrcDetects ==
  ASSUME NEW s \in Seq(Bytes), NEW t \in Seq(Bytes), Len(s) = Len(t), NEW i \in 1..Len(s),
         s[i] # t[i], \A k \in 1..Len(s) : k # i => s[k] = t[k]
  PROVE  Crc16(s) # Crc16(t)
  <1>1. PICK p, q : p = Padded(s) /\ q = Padded(t)
    OBVIOUS
  <1>2. /\ p \in Seq(Bytes) /\ q \in Seq(Bytes) /\ Len(p) = Len(q)
        /\ i \in 1..Len(p) /\ p[i] # q[i] /\ \A k \in 1..Len(p) : k # i => p[k] = q[k]
    <2>1. /\ Padded(s) \in Seq(Bytes) /\ Len(s) \in Nat
          /\ Len(Padded(s)) = Len(s) + (Len(s) % 2)
          /\ \A k \in 1..Len(s) : Padded(s)[k] = s[k]
          /\ \A k \in 1..Len(Padded(s)) : k \notin 1..Len(s) => Padded(s)[k] = 0
      BY PaddedFacts
    <2>2. /\ Padded(t) \in Seq(Bytes)
          /\ Len(Padded(t)) = Len(t) + (Len(t) % 2)
          /\ \A k \in 1..Len(t) : Padded(t)[k] = t[k]
          /\ \A k \in 1..Len(Padded(t)) : k \notin 1..Len(t) => Padded(t)[k] = 0
      BY PaddedFacts
    <2>3. Len(p) = Len(q)
      BY <1>1, <2>1, <2>2
    <2>4. i \in 1..Len(p)
      BY <1>1, <2>1
    <2>5. p[i] # q[i]
      BY <1>1, <2>1, <2>2
    <2>6. ASSUME NEW k \in 1..Len(p), k # i
          PROVE  p[k] = q[k]
      <3>1. CASE k \in 1..Len(s)
        BY <1>1, <2>1, <2>2, <2>6, <3>1
      <3>2. CASE k \notin 1..Len(s)
        BY <1>1, <2>1, <2>2, <2>3, <3>2
      <3>. QED
        BY <3>1, <3>2
    <2>. QED
      BY <1>1, <2>1, <2>2, <2>3, <2>4, <2>5, <2>6
  <1>3. PICK n \in Nat : n = Len(p) /\ n = Len(q) /\ i \in 1..n
    BY <1>2
  <1>4. PICK f : /\ f[0] = 65535 /\ Crc16(s) = f[n]
                 /\ \A k \in 0..n : f[k] \in Words
                 /\ \A k \in 1..n : f[k] = ShiftByteIn(f[k - 1], p[k])
    <2>1. n = Len(p) /\ p = Padded(s)
      BY <1>1, <1>3
    <2>. QED
      BY <2>1, SumFactsOf, SMTT(60)
  <1>5. PICK g : /\ g[0] = 65535 /\ Crc16(t) = g[n]
                 /\ \A k \in 0..n : g[k] \in Words
                 /\ \A k \in 1..n : g[k] = ShiftByteIn(g[k - 1], q[k])
    <2>1. n = Len(q) /\ q = Padded(t)
      BY <1>1, <1>3
    <2>. QED
      BY <2>1, SumFactsOf, SMTT(120)
  <1>6. /\ i - 1 \in Nat /\ i \in 0..n /\ i - 1 \in 0..n
        /\ \A k \in 1..(i - 1) : k \in 1..n /\ k # i
        /\ \A k \in (i + 1)..n : k \in 1..n /\ k - 1 \in 0..n /\ k # i
    BY <1>3
  <1>7. f[i - 1] = g[i - 1]
    <2>1. ASSUME NEW k \in 1..(i - 1), f[k - 1] = g[k - 1]
          PROVE  f[k] = g[k]
      <3>1. k \in 1..n /\ k # i
        BY <1>6
      <3>2. p[k] = q[k]
        BY <1>2, <1>3, <3>1
      <3>. QED
        BY <1>4, <1>5, <2>1, <3>1, <3>2
    <2>2. f[0] = g[0]
      BY <1>4, <1>5
    <2>. QED
      BY <1>6, <2>1, <2>2, ChainsAgree, ZenonT(40)
  <1>8. f[i] # g[i]
    <2>1. f[i - 1] \in Words /\ p[i] \in Bytes /\ q[i] \in Bytes
      BY <1>2, <1>3, <1>4, <1>6
    <2>2. ShiftByteIn(f[i - 1], p[i]) # ShiftByteIn(f[i - 1], q[i])
      BY <1>2, <2>1, ByteInFacts
    <2>. QED
      BY <1>3, <1>4, <1>5, <1>7, <2>2
  <1>9. ASSUME NEW k \in (i + 1)..n, f[k - 1] # g[k - 1]
        PROVE  f[k] # g[k]
    <2>1. f[k - 1] \in Words /\ g[k - 1] \in Words /\ p[k] \in Bytes /\ p[k] = q[k]
      BY <1>2, <1>3, <1>4, <1>5, <1>6
    <2>2. ShiftByteIn(f[k - 1], p[k]) # ShiftByteIn(g[k - 1], p[k])
      BY <1>9, <2>1, ByteInFacts
    <2>. QED
      BY <1>4, <1>5, <1>6, <2>1, <2>2
  <1>10. f[n] # g[n]
    BY <1>6, <1>8, <1>9, ChainsDiffer, Zenon
  <1>. QED
    BY <1>4, <1>5, <1>10

(* A word is told by its two bytes. *)
LEMMA BigEndianFacts ==
  ASSUME NEW x \in Words
  PROVE  /\ BigEndian(x) \in Seq(Bytes) /\ Len(BigEndian(x)) = 2
         /\ \A y \in Words : BigEndian(x) = BigEndian(y) => x = y
  <1>1. ASSUME NEW y \in Words
        PROVE  /\ (y \div 256) % 256 \in Bytes /\ y % 256 \in Bytes
               /\ y = 256 * ((y \div 256) % 256) + (y % 256)
    BY SMT DEF Words, Bytes
  <1>2. \A y : /\ BigEndian(y) = <<(y \div 256) % 256, y % 256>>
               /\ BigEndian(y)[1] = (y \div 256) % 256 /\ BigEndian(y)[2] = y % 256
    BY DEF BigEndian
  <1>3. BigEndian(x) \in Seq(Bytes) /\ Len(BigEndian(x)) = 2
    <2>1. PICK a \in Bytes, b \in Bytes : a = (x \div 256) % 256 /\ b = x % 256
      BY <1>1
    <2>2. BigEndian(x) = <<a, b>>
      BY <1>2, <2>1, Zenon
    <2>. QED
      BY <2>2
  <1>4. ASSUME NEW y \in Words, BigEndian(x) = BigEndian(y)
        PROVE  x = y
    <2>1. (x \div 256) % 256 = (y \div 256) % 256 /\ x % 256 = y % 256
      BY <1>2, <1>4
    <2>. QED
      BY <1>1, <2>1
  <1>. QED
    BY <1>3, <1>4

-----------------------------------------------------------------------------
(* Feed: the bytes of a read, one after another.                           *)

(* The states of the loop, from s on. *)
AreStates(f, s, bytes, n) ==
  f = [k \in 0..n |-> IF k = 0 THEN s ELSE FeedByte(f[k-1], bytes[k])]

(* The loop has a state after every byte. *)
LEMMA StatesExist ==
  ASSUME NEW s, NEW bytes, NEW n \in Nat
  PROVE  \E f : AreStates(f, s, bytes, n)
  <1>. DEFINE T == {j \in Nat : \E f : AreStates(f, s, bytes, j)}
  <1>1. 0 \in T
    <2>1. PICK f : f = [k \in 0..0 |-> s]
      OBVIOUS
    <2>2. \A k \in 0..0 : k = 0
      OBVIOUS
    <2>3. f = [k \in 0..0 |-> IF k = 0 THEN s ELSE FeedByte(f[k-1], bytes[k])]
      BY <2>1, <2>2
    <2>. QED
      BY <2>3 DEF AreStates
  <1>2. ASSUME NEW j \in T
        PROVE  j + 1 \in T
    <2>1. PICK f : AreStates(f, s, bytes, j)
      OBVIOUS
    <2>2. PICK g : g = [k \in 0..(j + 1) |-> IF k = j + 1 THEN FeedByte(f[j], bytes[j + 1])
                                             ELSE f[k]]
      OBVIOUS
    <2>3. /\ \A k \in 0..(j + 1) : k # j + 1 => k \in 0..j
          /\ \A k \in 0..(j + 1) : k # 0 => k - 1 \in 0..(j + 1) /\ k - 1 # j + 1
          /\ (j + 1) - 1 = j /\ j + 1 # 0 /\ j \in 0..j /\ j # j + 1 /\ j \in 0..(j + 1)
      OBVIOUS
    <2>4. ASSUME NEW k \in 0..(j + 1)
          PROVE  g[k] = IF k = 0 THEN s ELSE FeedByte(g[k-1], bytes[k])
      <3>1. CASE k = j + 1
        BY <2>2, <2>3, <3>1
      <3>2. CASE k # j + 1
        <4>1. g[k] = f[k] /\ k \in 0..j
          BY <2>2, <2>3, <3>2
        <4>2. f[k] = IF k = 0 THEN s ELSE FeedByte(f[k-1], bytes[k])
          BY <2>1, <4>1 DEF AreStates
        <4>3. k # 0 => g[k - 1] = f[k - 1]
          BY <2>2, <2>3
        <4>. QED
          BY <4>1, <4>2, <4>3
      <3>. QED
        BY <3>1, <3>2
    <2>5. AreStates(g, s, bytes, j + 1)
      BY <2>2, <2>4 DEF AreStates
    <2>. QED
      BY <2>5
  <1>3. T = Nat
    <2>. HIDE DEF T
    <2>1. T \in SUBSET Nat
      BY DEF T
    <2>. QED
      BY <1>1, <1>2, <2>1, InductionSet
  <1>. QED
    BY <1>3

(* Each one comes from the one before. *)
AreFed(f, s, bytes, n) == f[0] = s /\ \A k \in 1..n : f[k] = FeedByte(f[k - 1], bytes[k])

(* The state after each byte, and in the end. *)
LEMMA FeedFacts ==
  ASSUME NEW s, NEW bytes, Len(bytes) \in Nat
  PROVE  \E f : AreFed(f, s, bytes, Len(bytes)) /\ Feed(s, bytes) = f[Len(bytes)]
  <1>1. PICK n \in Nat : n = Len(bytes)
    OBVIOUS
  <1>2. PICK f : f = CHOOSE g : AreStates(g, s, bytes, n)
    OBVIOUS
  <1>3. f = [k \in 0..n |-> IF k = 0 THEN s ELSE FeedByte(f[k-1], bytes[k])]
    <2>1. AreStates(f, s, bytes, n)
      BY <1>2, StatesExist
    <2>. QED
      BY <2>1 DEF AreStates
  <1>4. /\ 0 \in 0..n
        /\ \A k \in 1..n : k \in 0..n /\ k # 0
    OBVIOUS
  <1>5. Feed(s, bytes) = f[n]
    BY <1>1, <1>2 DEF Feed, AreStates
  <1>6. f[0] = s /\ \A k \in 1..n : f[k] = FeedByte(f[k - 1], bytes[k])
    BY <1>3, <1>4
  <1>. QED
    BY <1>1, <1>5, <1>6 DEF AreFed

-----------------------------------------------------------------------------
(* Escape: where the bytes of a frame lie on the wire.                     *)

Piece(b) == IF b \in {START_TOKEN, ESCAPE_TOKEN} THEN <<ESCAPE_TOKEN, b>> ELSE <<b>>

(* The bytes escaped so far, after each of them. *)
AreEscaped(f, bytes, n) ==
  f = [k \in 0..n |-> IF k = 0 THEN << >> ELSE f[k-1] \o Piece(bytes[k])]

(* There is such a sequence after each byte. *)
LEMMA EscapedExist ==
  ASSUME NEW bytes, NEW n \in Nat
  PROVE  \E f : AreEscaped(f, bytes, n)
  <1>. DEFINE T == {j \in Nat : \E f : AreEscaped(f, bytes, j)}
  <1>1. 0 \in T
    <2>1. PICK f : f = [k \in 0..0 |-> << >>]
      OBVIOUS
    <2>2. \A k \in 0..0 : k = 0
      OBVIOUS
    <2>3. f = [k \in 0..0 |-> IF k = 0 THEN << >> ELSE f[k-1] \o Piece(bytes[k])]
      BY <2>1, <2>2
    <2>. QED
      BY <2>3 DEF AreEscaped
  <1>2. ASSUME NEW j \in T
        PROVE  j + 1 \in T
    <2>1. PICK f : AreEscaped(f, bytes, j)
      OBVIOUS
    <2>2. PICK g : g = [k \in 0..(j + 1) |-> IF k = j + 1 THEN f[j] \o Piece(bytes[j + 1])
                                             ELSE f[k]]
      OBVIOUS
    <2>3. /\ \A k \in 0..(j + 1) : k # j + 1 => k \in 0..j
          /\ \A k \in 0..(j + 1) : k # 0 => k - 1 \in 0..(j + 1) /\ k - 1 # j + 1
          /\ (j + 1) - 1 = j /\ j + 1 # 0 /\ j \in 0..j /\ j # j + 1 /\ j \in 0..(j + 1)
      OBVIOUS
    <2>4. ASSUME NEW k \in 0..(j + 1)
          PROVE  g[k] = IF k = 0 THEN << >> ELSE g[k-1] \o Piece(bytes[k])
      <3>1. CASE k = j + 1
        BY <2>2, <2>3, <3>1
      <3>2. CASE k # j + 1
        <4>1. g[k] = f[k] /\ k \in 0..j
          BY <2>2, <2>3, <3>2
        <4>2. f[k] = IF k = 0 THEN << >> ELSE f[k-1] \o Piece(bytes[k])
          BY <2>1, <4>1 DEF AreEscaped
        <4>3. k # 0 => g[k - 1] = f[k - 1]
          BY <2>2, <2>3
        <4>. QED
          BY <4>1, <4>2, <4>3
      <3>. QED
        BY <3>1, <3>2
    <2>5. AreEscaped(g, bytes, j + 1)
      BY <2>2, <2>4 DEF AreEscaped
    <2>. QED
      BY <2>5
  <1>3. T = Nat
    <2>. HIDE DEF T
    <2>1. T \in SUBSET Nat
      BY DEF T
    <2>. QED
      BY <1>1, <1>2, <2>1, InductionSet
  <1>. QED
    BY <1>3

(* at[k] wire bytes stand for the first k bytes. *)
IsLayout(at, escaped, bytes) ==
  /\ at[0] = 0 /\ at[Len(bytes)] = Len(escaped)
  /\ \A k \in 0..Len(bytes) : at[k] \in Nat /\ at[k] <= Len(escaped)
  /\ \A k \in 1..Len(bytes) :
       IF bytes[k] \in {START_TOKEN, ESCAPE_TOKEN}
       THEN /\ at[k] = at[k - 1] + 2
            /\ escaped[at[k - 1] + 1] = ESCAPE_TOKEN /\ escaped[at[k - 1] + 2] = bytes[k]
       ELSE at[k] = at[k - 1] + 1 /\ escaped[at[k - 1] + 1] = bytes[k]

(* A sequence is the beginning of another one. *)
Begins(s, t) == Len(s) <= Len(t) /\ \A i \in 1..Len(s) : t[i] = s[i]

(* Every byte stands for itself behind those before it, with an escape      *)
(* token in front if it is a token.                                         *)
LEMMA EscapeFacts ==
  ASSUME NEW S, ESCAPE_TOKEN \in S, NEW bytes \in Seq(S)
  PROVE  Escape(bytes) \in Seq(S) /\ \E at : IsLayout(at, Escape(bytes), bytes)
  <1>1. PICK n \in Nat : n = Len(bytes)
    OBVIOUS
  <1>2. PICK f : f = CHOOSE g : AreEscaped(g, bytes, n)
    OBVIOUS
  <1>3. f = [k \in 0..n |-> IF k = 0 THEN << >> ELSE f[k-1] \o Piece(bytes[k])]
    <2>1. AreEscaped(f, bytes, n)
      BY <1>2, EscapedExist
    <2>. QED
      BY <2>1 DEF AreEscaped
  <1>4. Escape(bytes) = f[n]
    BY <1>1, <1>2 DEF Escape, AreEscaped, Piece
  <1>5. f[0] = << >> /\ \A k \in 1..n : f[k] = f[k - 1] \o Piece(bytes[k])
    <2>1. 0 \in 0..n /\ \A k \in 1..n : k \in 0..n /\ k # 0
      OBVIOUS
    <2>. QED
      BY <1>3, <2>1
  <1>6. ASSUME NEW b \in S
        PROVE  /\ Piece(b) \in Seq(S)
               /\ IF b \in {START_TOKEN, ESCAPE_TOKEN}
                  THEN Len(Piece(b)) = 2 /\ Piece(b)[1] = ESCAPE_TOKEN /\ Piece(b)[2] = b
                  ELSE Len(Piece(b)) = 1 /\ Piece(b)[1] = b
    BY DEF Piece
  <1>7. \A k \in 1..n : bytes[k] \in S
    BY <1>1
  <1>8. ASSUME NEW k \in 1..n, f[k - 1] \in Seq(S)
        PROVE  f[k] \in Seq(S) /\ Begins(f[k - 1], f[k])
    <2>1. PICK s \in Seq(S), p \in Seq(S) : s = f[k - 1] /\ p = Piece(bytes[k])
      BY <1>6, <1>7, <1>8
    <2>2. s \o p \in Seq(S) /\ Begins(s, s \o p)
      BY DEF Begins
    <2>3. f[k] = s \o p
      BY <1>5, <2>1, Zenon
    <2>. QED
      BY <2>1, <2>2, <2>3, Zenon
  <1>9. ASSUME NEW r, NEW s, NEW t, r \in Seq(S), s \in Seq(S), t \in Seq(S),
               Begins(r, s), Begins(s, t)
        PROVE  Begins(r, t)
    BY <1>9 DEF Begins
  <1>. DEFINE T == {j \in Nat : j <= n => \A k \in 0..j : f[k] \in Seq(S) /\ Begins(f[k], f[j])}
  <1>10. T = Nat
    <2>1. 0 \in T
      <3>1. << >> \in Seq(S) /\ Begins(<< >>, << >>)
        BY DEF Begins
      <3>2. \A k \in 0..0 : k = 0
        OBVIOUS
      <3>. QED
        BY <1>5, <3>1, <3>2
    <2>2. ASSUME NEW j \in T
          PROVE  j + 1 \in T
      <3>. SUFFICES ASSUME j + 1 <= n, NEW k \in 0..(j + 1)
                    PROVE  f[k] \in Seq(S) /\ Begins(f[k], f[j + 1])
        OBVIOUS
      <3>1. /\ j <= n /\ j \in 0..j /\ j + 1 \in 1..n /\ (j + 1) - 1 = j
            /\ k = j + 1 \/ k \in 0..j
        BY <1>1
      <3>2. f[j] \in Seq(S)
        BY <2>2, <3>1
      <3>3. f[j + 1] \in Seq(S) /\ Begins(f[j], f[j + 1])
        BY <1>8, <3>1, <3>2
      <3>4. Begins(f[j + 1], f[j + 1])
        BY <3>3 DEF Begins
      <3>5. CASE k \in 0..j
        <4>1. f[k] \in Seq(S) /\ Begins(f[k], f[j])
          BY <2>2, <3>1, <3>5
        <4>. QED
          BY <1>9, <3>2, <3>3, <4>1
      <3>. QED
        BY <3>1, <3>3, <3>4, <3>5
    <2>. HIDE DEF T
    <2>3. T \in SUBSET Nat
      BY DEF T
    <2>. QED
      BY <2>1, <2>2, <2>3, InductionSet
  <1>11. \A k \in 0..n : f[k] \in Seq(S) /\ Begins(f[k], f[n])
    BY <1>10
  <1>12. PICK at : at = [k \in 0..n |-> Len(f[k])]
    OBVIOUS
  <1>13. \A k \in 0..n : at[k] = Len(f[k])
    BY <1>12
  <1>14. PICK e \in Seq(S) : e = f[n]
    <2>1. n \in 0..n
      OBVIOUS
    <2>. QED
      BY <1>11, <2>1
  <1>15. ASSUME NEW k \in 1..n
         PROVE  IF bytes[k] \in {START_TOKEN, ESCAPE_TOKEN}
                THEN /\ at[k] = at[k - 1] + 2
                     /\ e[at[k - 1] + 1] = ESCAPE_TOKEN /\ e[at[k - 1] + 2] = bytes[k]
                ELSE at[k] = at[k - 1] + 1 /\ e[at[k - 1] + 1] = bytes[k]
    <2>1. k \in 0..n /\ k - 1 \in 0..n
      OBVIOUS
    <2>2. PICK s \in Seq(S), p \in Seq(S) : s = f[k - 1] /\ p = Piece(bytes[k])
      BY <1>6, <1>7, <1>11, <2>1
    <2>3. PICK t \in Seq(S) : t = s \o p /\ t = f[k]
      <3>1. s \o p \in Seq(S)
        OBVIOUS
      <3>2. f[k] = s \o p
        BY <1>5, <2>2, Zenon
      <3>. QED
        BY <3>1, <3>2, Zenon
    <2>8. /\ Len(t) = Len(s) + Len(p) /\ Len(s) \in Nat
          /\ \A i \in 1..Len(p) : t[Len(s) + i] = p[i]
      <3>1. Len(s) \in Nat
        OBVIOUS
      <3>2. /\ Len(s \o p) = Len(s) + Len(p)
            /\ \A i \in 1..Len(p) : (s \o p)[Len(s) + i] = p[i]
        BY ConcatFacts
      <3>. QED
        BY <2>3, <3>1, <3>2, Zenon
    <2>4. at[k] = Len(t) /\ at[k - 1] = Len(s)
      BY <1>13, <2>1, <2>2, <2>3
    <2>5. \A i \in 1..Len(t) : e[i] = t[i]
      BY <1>11, <1>14, <2>1, <2>3 DEF Begins
    <2>6. CASE bytes[k] \in {START_TOKEN, ESCAPE_TOKEN}
      <3>1. Len(p) = 2 /\ p[1] = ESCAPE_TOKEN /\ p[2] = bytes[k]
        BY <1>6, <1>7, <2>2, <2>6
      <3>2. Len(t) = Len(s) + 2 /\ t[Len(s) + 1] = p[1] /\ t[Len(s) + 2] = p[2]
        BY <2>8, <3>1
      <3>3. Len(s) + 1 \in 1..Len(t) /\ Len(s) + 2 \in 1..Len(t)
        BY <3>2
      <3>. QED
        BY <2>4, <2>5, <2>6, <3>1, <3>2, <3>3
    <2>7. CASE bytes[k] \notin {START_TOKEN, ESCAPE_TOKEN}
      <3>1. Len(p) = 1 /\ p[1] = bytes[k]
        BY <1>6, <1>7, <2>2, <2>7
      <3>2. Len(t) = Len(s) + 1 /\ t[Len(s) + 1] = p[1]
        BY <2>8, <3>1
      <3>3. Len(s) + 1 \in 1..Len(t)
        BY <3>2
      <3>. QED
        BY <2>4, <2>5, <2>7, <3>1, <3>2, <3>3
    <2>. QED
      BY <2>6, <2>7
  <1>16. at[0] = 0 /\ at[n] = Len(e) /\ \A k \in 0..n : at[k] \in Nat /\ at[k] <= Len(e)
    <2>1. 0 \in 0..n /\ n \in 0..n /\ Len(<< >>) = 0
      OBVIOUS
    <2>2. ASSUME NEW k \in 0..n
          PROVE  Len(f[k]) \in Nat /\ Len(f[k]) <= Len(e)
      <3>1. PICK s \in Seq(S) : s = f[k]
        BY <1>11
      <3>2. Len(s) \in Nat
        OBVIOUS
      <3>. QED
        BY <1>11, <1>14, <3>1, <3>2 DEF Begins
    <2>. QED
      BY <1>5, <1>13, <1>14, <2>1, <2>2
  <1>. QED
    BY <1>1, <1>4, <1>14, <1>15, <1>16 DEF IsLayout

-----------------------------------------------------------------------------
(* Prefixes of a sequence.                                                 *)

(* Sequences of the same elements are the same. *)
LEMMA SameSeq ==
  ASSUME NEW S, NEW s \in Seq(S), NEW t \in Seq(S), Len(s) = Len(t),
         \A i \in 1..Len(s) : s[i] = t[i]
  PROVE  s = t
  OBVIOUS

(* A prefix grows by one element. *)
LEMMA PrefixGrows ==
  ASSUME NEW S, NEW s \in Seq(S), NEW j \in Nat, j < Len(s)
  PROVE  /\ Append(SubSeq(s, 1, j), s[j + 1]) = SubSeq(s, 1, j + 1)
         /\ Len(SubSeq(s, 1, j)) = j
  OBVIOUS

(* What lies in a prefix. *)
LEMMA PrefixFacts ==
  ASSUME NEW S, NEW s \in Seq(S), NEW j \in Nat, j <= Len(s)
  PROVE  /\ SubSeq(s, 1, j) \in Seq(S) /\ Len(SubSeq(s, 1, j)) = j
         /\ \A i \in 1..j : SubSeq(s, 1, j)[i] = s[i]
         /\ \A a \in 1..j, b \in 1..j : SubSeq(SubSeq(s, 1, j), a, b) = SubSeq(s, a, b)
  <1>1. SubSeq(s, 1, j) \in Seq(S) /\ Len(SubSeq(s, 1, j)) = j
    OBVIOUS
  <1>2. \A i \in 1..j : SubSeq(s, 1, j)[i] = s[i]
    OBVIOUS
  <1>3. ASSUME NEW a \in 1..j, NEW b \in 1..j
        PROVE  SubSeq(SubSeq(s, 1, j), a, b) = SubSeq(s, a, b)
    <2>1. PICK t \in Seq(S) : t = SubSeq(s, 1, j)
      BY <1>1
    <2>2. \A i \in 1..j : t[i] = s[i]
      BY <1>2, <2>1
    <2>3. SubSeq(t, a, b) = [i \in 1..(b - a + 1) |-> t[a + i - 1]]
      BY <2>1
    <2>4. SubSeq(s, a, b) = [i \in 1..(b - a + 1) |-> s[a + i - 1]]
      OBVIOUS
    <2>5. \A i \in 1..(b - a + 1) : a + i - 1 \in 1..j
      OBVIOUS
    <2>. QED
      BY <2>1, <2>2, <2>3, <2>4, <2>5
  <1>. QED
    BY <1>1, <1>2, <1>3

(* A sequence of a elements in front of one of b elements. *)
Joined(u, s, t, a, b) ==
  /\ u = s \o t /\ Len(u) = a + b
  /\ \A i \in 1..a : u[i] = s[i]
  /\ \A i \in 1..b : u[a + i] = t[i]

(* The concatenation of two sequences. *)
LEMMA JoinedFacts ==
  ASSUME NEW S, NEW s \in Seq(S), NEW t \in Seq(S),
         NEW a \in Nat, NEW b \in Nat, Len(s) = a, Len(t) = b
  PROVE  \E u \in Seq(S) : Joined(u, s, t, a, b)
  <1>1. s \o t \in Seq(S) /\ Len(s \o t) = Len(s) + Len(t)
    OBVIOUS
  <1>2. Joined(s \o t, s, t, a, b)
    BY <1>1, ConcatFacts DEF Joined
  <1>. QED
    BY <1>1, <1>2

(* A part that is found element by element. *)
LEMMA SliceFacts ==
  ASSUME NEW S, NEW e \in Seq(S), NEW s \in Seq(S), NEW a \in Nat, NEW b \in Nat,
         Len(s) = b, a + b <= Len(e), \A i \in 1..b : e[a + i] = s[i]
  PROVE  SubSeq(e, a + 1, a + b) = s
  <1>1. SubSeq(e, a + 1, a + b) = [i \in 1..b |-> e[(a + 1) + i - 1]]
    OBVIOUS
  <1>2. s = [i \in 1..b |-> s[i]]
    OBVIOUS
  <1>3. \A i \in 1..b : (a + 1) + i - 1 = a + i
    OBVIOUS
  <1>. QED
    BY <1>1, <1>2, <1>3

-----------------------------------------------------------------------------
(* The frame of a message.                                                 *)

Length(m) == Len(m.payload)
Header(m) == IF IsLong(m.cmd) THEN 8 ELSE 7

(* Its bytes before they are escaped. *)
Body(m)  == <<m.cmd>> \o LengthField(m) \o m.id \o m.payload
Check(m) == BigEndian(Crc16(Body(m)))
Frame(m) == <<START_TOKEN>> \o (Body(m) \o Check(m))
Size(m)  == Header(m) + Length(m) + 2

(* The checksum may be any two values. *)
Alphabet(m) == Bytes \cup {Check(m)[1], Check(m)[2]}

(* Commands that are parsed. *)
LEMMA CommandFacts ==
  ASSUME NEW cmd \in KnownCommands, cmd # Extension
  PROVE  /\ cmd \in Bytes /\ cmd \in Nat /\ cmd # NoCommand
         /\ FromByte(cmd) = cmd /\ ~IsPlantByte(cmd)
  <1>1. cmd \in {1, 2, 3, 5, 6, 8}
    BY SMT DEF KnownCommands, Read, Write, LongWrite, Response, LongResponse, ReadPeriodically
  <1>2. cmd \in Bytes /\ cmd \in Nat /\ cmd # NoCommand
    BY <1>1, SMT DEF Bytes, NoCommand
  <1>3. (cmd \div 64) % 2 # 1
    BY <1>1, SMT
  <1>4. ~IsPlantByte(cmd)
    BY <1>3 DEF IsPlantByte, PLANT_BIT
  <1>. QED
    BY <1>2, <1>4 DEF FromByte

(* The length field says how many bytes the payload has. *)
LEMMA LengthFacts ==
  ASSUME NEW m, WellFormed(m)
  PROVE  /\ Length(m) \in Nat
         /\ LengthField(m) \in Seq(Bytes) /\ Len(LengthField(m)) = Header(m) - 6
         /\ IF IsLong(m.cmd) THEN 256 * LengthField(m)[1] + LengthField(m)[2] = 4 + Length(m)
                             ELSE LengthField(m)[1] = 4 + Length(m)
  <1>1. PICK n \in Nat : n = Length(m)
    BY DEF WellFormed, Length
  <1>2. PICK z \in Nat : z = m.type + Len(m.payload) /\ z = 4 + n
    BY <1>1 DEF WellFormed, Standard, Length
  <1>3. CASE IsLong(m.cmd)
    <2>1. LengthField(m) = BigEndian(z)
      BY <1>2, <1>3 DEF LengthField
    <2>2. z < 65536
      BY <1>2, <1>3 DEF WellFormed, Standard
    <2>3. (z \div 256) % 256 \in Bytes /\ z % 256 \in Bytes
          /\ 256 * ((z \div 256) % 256) + (z % 256) = z
      BY <2>2, SMT DEF Bytes
    <2>10. PICK a \in Bytes : a = (z \div 256) % 256
      BY <2>3, Zenon
    <2>11. PICK b \in Bytes : b = z % 256
      BY <2>3, Zenon
    <2>4. a = (z \div 256) % 256 /\ b = z % 256 /\ 256 * a + b = z
      BY <2>3, <2>10, <2>11, Zenon
    <2>5. LengthField(m) = <<a, b>>
      BY <2>1, <2>4, Zenon DEF BigEndian
    <2>6. <<a, b>> \in Seq(Bytes) /\ Len(<<a, b>>) = 2 /\ <<a, b>>[1] = a /\ <<a, b>>[2] = b
      OBVIOUS
    <2>7. Header(m) - 6 = 2
      BY <1>3 DEF Header
    <2>8. LengthField(m)[1] = a /\ LengthField(m)[2] = b
      BY <2>5, <2>6, Zenon
    <2>9. 256 * LengthField(m)[1] + LengthField(m)[2] = 4 + Length(m)
      BY <1>1, <1>2, <2>4, <2>8
    <2>. QED
      BY <1>1, <1>3, <2>5, <2>6, <2>7, <2>9
  <1>4. CASE ~IsLong(m.cmd)
    <2>1. LengthField(m) = <<z % 256>>
      BY <1>2, <1>4 DEF LengthField
    <2>2. z < 256
      BY <1>2, <1>4 DEF WellFormed, Standard
    <2>3. z % 256 = z /\ z \in Bytes
      BY <2>2, SMT DEF Bytes
    <2>4. <<z>> \in Seq(Bytes) /\ Len(<<z>>) = 1 /\ <<z>>[1] = z
      BY <2>3
    <2>5. Header(m) - 6 = 1
      BY <1>4 DEF Header
    <2>. QED
      BY <1>1, <1>2, <1>4, <2>1, <2>3, <2>4, <2>5, Zenon
  <1>. QED
    BY <1>3, <1>4

(* Where the parts of the frame lie in it. *)
LEMMA FrameFacts ==
  ASSUME NEW m \in Messages, WellFormed(m)
  PROVE  /\ Frame(m) \in Seq(Alphabet(m)) /\ Len(Frame(m)) = Size(m)
         /\ Frame(m)[1] = START_TOKEN /\ Frame(m)[2] = m.cmd
         /\ IF IsLong(m.cmd) THEN 256 * Frame(m)[3] + Frame(m)[4] = 4 + Length(m)
                             ELSE Frame(m)[3] = 4 + Length(m)
         /\ SubSeq(Frame(m), Header(m) - 3, Header(m)) = m.id
         /\ SubSeq(Frame(m), Header(m) + 1, Size(m) - 2) = m.payload
         /\ SubSeq(Frame(m), 2, Size(m) - 2) = Body(m)
         /\ SubSeq(Frame(m), Size(m) - 1, Size(m)) = Check(m)
  <1>1. /\ m.cmd \in Bytes /\ m.id \in Seq(Bytes) /\ Len(m.id) = 4 /\ m.payload \in Seq(Bytes)
        /\ Len(m.payload) = Length(m) /\ Length(m) \in Nat
    BY CommandFacts, StreamAssumption, LengthFacts DEF WellFormed, Length
  <1>2. PICK S : S = Alphabet(m)
    OBVIOUS
  <1>3. Bytes \subseteq S /\ \A s \in Seq(Bytes) : s \in Seq(S)
    BY <1>2 DEF Alphabet
  <1>4. PICK f \in Seq(S), id \in Seq(S), p \in Seq(S), c \in S, h \in {7, 8}, n \in Nat :
          /\ f = LengthField(m) /\ id = m.id /\ p = m.payload /\ c = m.cmd
          /\ h = Header(m) /\ n = Length(m)
          /\ Len(f) = h - 6 /\ Len(id) = 4 /\ Len(p) = n
    BY <1>1, <1>3, LengthFacts DEF Header
  <1>5. PICK k \in Seq(S) : k = Check(m) /\ Len(k) = 2
    <2>1. PICK x, y : Check(m) = <<x, y>>
      BY DEF Check, BigEndian
    <2>2. x \in S /\ y \in S
      BY <1>2, <2>1 DEF Alphabet
    <2>3. <<x, y>> \in Seq(S) /\ Len(<<x, y>>) = 2
      BY <2>2
    <2>. QED
      BY <2>1, <2>3, Zenon
  <1>6. PICK t \in S : t = START_TOKEN
    BY <1>3 DEF START_TOKEN, Bytes
  <1>7. \A x \in S : <<x>> \in Seq(S) /\ Len(<<x>>) = 1 /\ <<x>>[1] = x
    OBVIOUS
  <1>8. PICK l \in Nat : l = h - 6
    BY <1>4
  <1>9. 1 \in Nat /\ 2 \in Nat /\ 4 \in Nat /\ \A i, j \in Nat : i + j \in Nat
    OBVIOUS
  <1>16. \A u, v, w, i, j : Joined(u, v, w, i, j) => u = v \o w /\ Len(u) = i + j
    BY DEF Joined
  <1>10. PICK f1 \in Seq(S) : Joined(f1, <<c>>, f, 1, l)
    BY <1>4, <1>7, <1>8, <1>9, JoinedFacts, Zenon
  <1>11. PICK f2 \in Seq(S) : Joined(f2, f1, id, 1 + l, 4)
    <2>1. Len(f1) = 1 + l
      BY <1>10 DEF Joined
    <2>3. Len(id) = 4
      BY <1>4
    <2>2. \E u \in Seq(S) : Joined(u, f1, id, 1 + l, 4)
      BY <1>4, <1>8, <1>9, <2>1, <2>3, JoinedFacts, Zenon
    <2>. QED
      BY <2>2
  <1>12. PICK b \in Seq(S) : Joined(b, f2, p, (1 + l) + 4, n)
    <2>1. Len(f2) = (1 + l) + 4
      BY <1>11 DEF Joined
    <2>3. Len(p) = n
      BY <1>4
    <2>2. \E u \in Seq(S) : Joined(u, f2, p, (1 + l) + 4, n)
      BY <1>4, <1>8, <1>9, <2>1, <2>3, JoinedFacts, Zenon
    <2>. QED
      BY <2>2
  <1>13. PICK r \in Seq(S) : Joined(r, b, k, ((1 + l) + 4) + n, 2)
    <2>1. Len(b) = ((1 + l) + 4) + n
      BY <1>12 DEF Joined
    <2>3. Len(k) = 2
      BY <1>5
    <2>2. \E u \in Seq(S) : Joined(u, b, k, ((1 + l) + 4) + n, 2)
      BY <1>4, <1>8, <1>9, <2>1, <2>3, JoinedFacts, Zenon
    <2>. QED
      BY <2>2
  <1>14. PICK e \in Seq(S) : Joined(e, <<t>>, r, 1, (((1 + l) + 4) + n) + 2)
    <2>1. Len(r) = (((1 + l) + 4) + n) + 2
      BY <1>13 DEF Joined
    <2>3. Len(<<t>>) = 1
      BY <1>6, <1>7
    <2>2. \E u \in Seq(S) : Joined(u, <<t>>, r, 1, (((1 + l) + 4) + n) + 2)
      BY <1>6, <1>7, <1>8, <1>9, <2>1, <2>3, JoinedFacts, Zenon
    <2>. QED
      BY <2>2
  <1>15. e = Frame(m) /\ b = Body(m)
    <2>1. f1 = <<c>> \o f /\ f2 = f1 \o id /\ b = f2 \o p /\ r = b \o k /\ e = <<t>> \o r
      BY <1>10, <1>11, <1>12, <1>13, <1>14 DEF Joined
    <2>2. b = Body(m)
      BY <1>4, <2>1, Zenon DEF Body
    <2>. QED
      BY <1>5, <1>6, <2>1, <2>2, Zenon DEF Frame
  <1>17. /\ Len(e) = h + n + 2 /\ e[1] = t /\ e[2] = c
         /\ \A i \in 1..l : e[2 + i] = f[i]
         /\ \A i \in 1..4 : e[(h - 4) + i] = id[i]
         /\ \A i \in 1..n : e[h + i] = p[i]
         /\ \A i \in 1..2 : e[(h + n) + i] = k[i]
         /\ \A i \in 1..(h + n - 1) : e[1 + i] = b[i]
    <2>1. \A i \in 1..((((1 + l) + 4) + n) + 2) : e[1 + i] = r[i]
      BY <1>14 DEF Joined
    <2>2. /\ \A i \in 1..(((1 + l) + 4) + n) : r[i] = b[i]
          /\ \A i \in 1..2 : r[(((1 + l) + 4) + n) + i] = k[i]
      BY <1>13 DEF Joined
    <2>3. /\ \A i \in 1..((1 + l) + 4) : b[i] = f2[i]
          /\ \A i \in 1..n : b[((1 + l) + 4) + i] = p[i]
      BY <1>12 DEF Joined
    <2>4. /\ \A i \in 1..(1 + l) : f2[i] = f1[i]
          /\ \A i \in 1..4 : f2[(1 + l) + i] = id[i]
      BY <1>11 DEF Joined
    <2>5. f1[1] = c /\ \A i \in 1..l : f1[1 + i] = f[i]
      BY <1>7, <1>10 DEF Joined
    <2>6. e[1] = t
      BY <1>7, <1>14 DEF Joined
    <2>7. \A i \in 1..l : e[2 + i] = f[i]
      BY <2>1, <2>2, <2>3, <2>4, <2>5
    <2>8. ASSUME NEW i \in 1..4
          PROVE  e[(h - 4) + i] = id[i]
      <3>1. PICK j \in Nat : /\ j = (1 + l) + i /\ (h - 4) + i = 1 + j
                             /\ j \in 1..((((1 + l) + 4) + n) + 2)
                             /\ j \in 1..(((1 + l) + 4) + n) /\ j \in 1..((1 + l) + 4)
        BY <1>8
      <3>2. e[1 + j] = r[j] /\ r[j] = b[j] /\ b[j] = f2[j]
        BY <2>1, <2>2, <2>3, <3>1
      <3>. QED
        BY <2>4, <3>1, <3>2, Zenon
    <2>9. ASSUME NEW i \in 1..n
          PROVE  e[h + i] = p[i]
      <3>1. PICK j \in Nat : /\ j = ((1 + l) + 4) + i /\ h + i = 1 + j
                             /\ j \in 1..((((1 + l) + 4) + n) + 2)
                             /\ j \in 1..(((1 + l) + 4) + n)
        BY <1>8
      <3>2. e[1 + j] = r[j] /\ r[j] = b[j]
        BY <2>1, <2>2, <3>1
      <3>. QED
        BY <2>3, <3>1, <3>2, Zenon
    <2>10. ASSUME NEW i \in 1..2
           PROVE  e[(h + n) + i] = k[i]
      <3>1. PICK j \in Nat : /\ j = (((1 + l) + 4) + n) + i /\ (h + n) + i = 1 + j
                             /\ j \in 1..((((1 + l) + 4) + n) + 2)
        BY <1>8
      <3>. QED
        BY <2>1, <2>2, <3>1, Zenon
    <2>11. ASSUME NEW i \in 1..(h + n - 1)
           PROVE  e[1 + i] = b[i]
      <3>1. i \in 1..((((1 + l) + 4) + n) + 2) /\ i \in 1..(((1 + l) + 4) + n)
        BY <1>8
      <3>. QED
        BY <2>1, <2>2, <3>1, Zenon
    <2>12. Len(e) = h + n + 2
      BY <1>8, <1>14 DEF Joined
    <2>13. e[2] = c
      <3>1. /\ 2 = 1 + 1 /\ 1 \in 1..((((1 + l) + 4) + n) + 2)
            /\ 1 \in 1..(((1 + l) + 4) + n) /\ 1 \in 1..((1 + l) + 4) /\ 1 \in 1..(1 + l)
        OBVIOUS
      <3>2. e[1 + 1] = r[1] /\ r[1] = b[1] /\ b[1] = f2[1] /\ f2[1] = f1[1]
        BY <2>1, <2>2, <2>3, <2>4, <3>1
      <3>. QED
        BY <2>5, <3>1, <3>2
    <2>. QED
      BY <2>6, <2>7, <2>8, <2>9, <2>10, <2>11, <2>12, <2>13
  <1>18. /\ SubSeq(e, h - 3, h) = id /\ SubSeq(e, h + 1, h + n) = p
         /\ SubSeq(e, h + n + 1, h + n + 2) = k /\ SubSeq(e, 2, h + n) = b
    <2>6. /\ 4 \in Nat /\ 2 \in Nat /\ 1 \in Nat /\ h \in Nat
          /\ h - 4 \in Nat /\ h + n \in Nat /\ h + n - 1 \in Nat
          /\ (h - 4) + 4 <= h + n + 2 /\ h + n <= h + n + 2 /\ (h + n) + 2 <= h + n + 2
          /\ 1 + (h + n - 1) <= h + n + 2
      OBVIOUS
    <2>1. SubSeq(e, (h - 4) + 1, (h - 4) + 4) = id
      <3>1. Len(id) = 4 /\ (h - 4) + 4 <= Len(e) /\ \A i \in 1..4 : e[(h - 4) + i] = id[i]
        BY <1>4, <1>17, <2>6
      <3>. QED
        BY <2>6, <3>1, SliceFacts, Zenon
    <2>2. SubSeq(e, h + 1, h + n) = p
      <3>1. Len(p) = n /\ h + n <= Len(e) /\ \A i \in 1..n : e[h + i] = p[i]
        BY <1>4, <1>17, <2>6
      <3>. QED
        BY <2>6, <3>1, SliceFacts, Zenon
    <2>3. SubSeq(e, (h + n) + 1, (h + n) + 2) = k
      <3>1. Len(k) = 2 /\ (h + n) + 2 <= Len(e) /\ \A i \in 1..2 : e[(h + n) + i] = k[i]
        BY <1>5, <1>17, <2>6
      <3>. QED
        BY <2>6, <3>1, SliceFacts, Zenon
    <2>4. SubSeq(e, 1 + 1, 1 + (h + n - 1)) = b
      <3>1. Len(b) = h + n - 1
        <4>1. Len(b) = ((1 + l) + 4) + n
          BY <1>12, Zenon DEF Joined
        <4>2. l = h - 6 /\ l \in Nat
          BY <1>8
        <4>. QED
          BY <4>1, <4>2
      <3>2. 1 + (h + n - 1) <= Len(e) /\ \A i \in 1..(h + n - 1) : e[1 + i] = b[i]
        BY <1>17, <2>6
      <3>. QED
        BY <2>6, <3>1, <3>2, SliceFacts, Zenon
    <2>5. /\ (h - 4) + 1 = h - 3 /\ (h - 4) + 4 = h /\ (h + n) + 1 = h + n + 1
          /\ 1 + 1 = 2 /\ 1 + (h + n - 1) = h + n
      OBVIOUS
    <2>. QED
      BY <2>1, <2>2, <2>3, <2>4, <2>5
  <1>19. /\ Size(m) = h + n + 2 /\ Size(m) - 1 = h + n + 1 /\ Size(m) - 2 = h + n
    <2>1. h = Header(m) /\ n = Length(m)
      BY <1>4, Zenon
    <2>2. Size(m) = h + n + 2
      BY <2>1, Zenon DEF Size
    <2>. QED
      BY <2>2
  <1>20. IF IsLong(m.cmd) THEN 256 * e[3] + e[4] = 4 + n ELSE e[3] = 4 + n
    <2>1. CASE IsLong(m.cmd)
      <3>1. l = 2
        BY <1>4, <1>8, <2>1 DEF Header
      <3>2. e[3] = f[1] /\ e[4] = f[2]
        BY <1>17, <3>1
      <3>. QED
        BY <1>4, <2>1, <3>2, LengthFacts
    <2>2. CASE ~IsLong(m.cmd)
      <3>1. l = 1
        BY <1>4, <1>8, <2>2 DEF Header
      <3>2. e[3] = f[1]
        BY <1>17, <3>1
      <3>. QED
        BY <1>4, <2>2, <3>2, LengthFacts
    <2>. QED
      BY <2>1, <2>2
  <1>. QED
    BY <1>2, <1>4, <1>5, <1>6, <1>15, <1>17, <1>18, <1>19, <1>20, Zenon

-----------------------------------------------------------------------------
(* The frame of a message on the wire.                                     *)

(* make_frame escapes all of the frame but its first byte. *)
LEMMA MakeFrameFacts ==
  ASSUME NEW m \in Messages, WellFormed(m)
  PROVE  MakeFrame(m) = <<START_TOKEN>> \o Escape(Body(m) \o Check(m))
  <1>1. PICK s \in Seq(Bytes) : s = <<m.cmd>> \o LengthField(m)
    <2>1. <<m.cmd>> \in Seq(Bytes) /\ LengthField(m) \in Seq(Bytes)
      BY CommandFacts, StreamAssumption, LengthFacts DEF WellFormed
    <2>2. <<m.cmd>> \o LengthField(m) \in Seq(Bytes)
      BY <2>1, ConcatFacts
    <2>. QED
      BY <2>2
  <1>2. s \o << >> = s
    BY ConcatEmpty
  <1>3. m.type # Plant
    BY DEF WellFormed, Standard, Plant
  <1>4. (IF m.cmd = Read THEN << >> ELSE m.payload) = m.payload
    BY DEF WellFormed
  <1>5. s \o (IF m.type = Plant THEN m.address ELSE << >>) = s
    BY <1>2, <1>3
  <1>. QED
    BY <1>1, <1>4, <1>5, Zenon DEF MakeFrame, Body, Check

(* pos[j] wire bytes stand for the first j bytes of the frame. *)
IsPlaced(pos, m) ==
  /\ pos[1] = 1 /\ pos[Size(m)] = Len(MakeFrame(m))
  /\ \A j \in 1..Size(m) : pos[j] \in Nat /\ pos[j] <= Len(MakeFrame(m))
  /\ \A j \in 1..(Size(m) - 1) :
       IF Frame(m)[j + 1] \in {START_TOKEN, ESCAPE_TOKEN}
       THEN /\ pos[j + 1] = pos[j] + 2
            /\ MakeFrame(m)[pos[j] + 1] = ESCAPE_TOKEN
            /\ MakeFrame(m)[pos[j] + 2] = Frame(m)[j + 1]
       ELSE /\ pos[j + 1] = pos[j] + 1
            /\ MakeFrame(m)[pos[j] + 1] = Frame(m)[j + 1]

Pos(m) == CHOOSE pos : IsPlaced(pos, m)

(* A frame is at least as long as its header and checksum. *)
LEMMA SizeFacts ==
  ASSUME NEW m, WellFormed(m)
  PROVE  /\ Size(m) \in Nat /\ Header(m) \in {7, 8} /\ Header(m) + 2 <= Size(m)
         /\ Length(m) \in Nat /\ Size(m) = Header(m) + Length(m) + 2
  BY LengthFacts, SMTT(40) DEF Size, Header

(* The bytes of the frame lie on the wire one after another. *)
LEMMA WireFacts ==
  ASSUME NEW m \in Messages, WellFormed(m)
  PROVE  /\ MakeFrame(m) \in Seq(Alphabet(m)) /\ Len(MakeFrame(m)) \in Nat \ {0}
         /\ MakeFrame(m)[1] = START_TOKEN
         /\ IsPlaced(Pos(m), m)
  <1>1. PICK S : S = Alphabet(m) /\ START_TOKEN \in S /\ ESCAPE_TOKEN \in S
    <2>1. START_TOKEN \in Bytes /\ ESCAPE_TOKEN \in Bytes
      BY SMT DEF Bytes, START_TOKEN, ESCAPE_TOKEN
    <2>. QED
      BY <2>1 DEF Alphabet
  <1>2. PICK u \in Seq(S) : u = Body(m) \o Check(m) /\ Frame(m) = <<START_TOKEN>> \o u
                            /\ Len(u) = Size(m) - 1
    <2>1. Frame(m) \in Seq(S) /\ Len(Frame(m)) = Size(m)
      BY <1>1, FrameFacts
    <2>2. Body(m) \in Seq(S)
      <3>1. Body(m) \in Seq(Bytes)
        <4>1. /\ <<m.cmd>> \in Seq(Bytes) /\ LengthField(m) \in Seq(Bytes)
              /\ m.id \in Seq(Bytes) /\ m.payload \in Seq(Bytes)
          BY CommandFacts, StreamAssumption, LengthFacts DEF WellFormed
        <4>2. \A s, t \in Seq(Bytes) : s \o t \in Seq(Bytes)
          OBVIOUS
        <4>. QED
          BY <4>1, <4>2, Zenon DEF Body
      <3>2. Bytes \subseteq S
        BY <1>1 DEF Alphabet
      <3>. QED
        BY <3>1, <3>2
    <2>3. Check(m) \in Seq(S)
      <3>1. PICK x, y : Check(m) = <<x, y>>
        BY DEF Check, BigEndian
      <3>2. x \in S /\ y \in S
        BY <1>1, <3>1 DEF Alphabet
      <3>3. <<x, y>> \in Seq(S)
        BY <3>2
      <3>. QED
        BY <3>1, <3>3, Zenon
    <2>4. PICK u \in Seq(S) : u = Body(m) \o Check(m)
      <3>1. \A s, t \in Seq(S) : s \o t \in Seq(S)
        OBVIOUS
      <3>. QED
        BY <2>2, <2>3, <3>1, Zenon
    <2>5. Frame(m) = <<START_TOKEN>> \o u
      BY <2>4, Zenon DEF Frame
    <2>6. <<START_TOKEN>> \in Seq(S) /\ Len(<<START_TOKEN>>) = 1
      BY <1>1
    <2>7. Len(<<START_TOKEN>> \o u) = 1 + Len(u) /\ Len(u) \in Nat
      BY <2>6
    <2>8. Len(u) = Size(m) - 1
      BY <2>1, <2>5, <2>7, SizeFacts
    <2>. QED
      BY <2>4, <2>5, <2>8, Zenon
  <1>3. PICK at : IsLayout(at, Escape(u), u)
    BY <1>1, EscapeFacts
  <1>15. PICK e \in Seq(S) : e = Escape(u) /\ IsLayout(at, e, u) /\ Len(e) \in Nat
    <2>1. Escape(u) \in Seq(S)
      BY <1>1, EscapeFacts
    <2>2. Len(Escape(u)) \in Nat
      BY <2>1
    <2>. QED
      BY <1>3, <2>1, <2>2
  <1>4. PICK w \in Seq(S) : /\ w = MakeFrame(m) /\ Len(w) = 1 + Len(e) /\ w[1] = START_TOKEN
                            /\ \A i \in 1..Len(e) : w[1 + i] = e[i]
    <2>1. MakeFrame(m) = <<START_TOKEN>> \o e
      BY <1>2, <1>15, MakeFrameFacts, Zenon
    <2>2. /\ <<START_TOKEN>> \o e \in Seq(S) /\ Len(<<START_TOKEN>> \o e) = 1 + Len(e)
          /\ (<<START_TOKEN>> \o e)[1] = START_TOKEN
          /\ \A i \in 1..Len(e) : (<<START_TOKEN>> \o e)[1 + i] = e[i]
      BY <1>1
    <2>. QED
      BY <2>1, <2>2, Zenon
  <1>5. PICK f \in Seq(S) : f = Frame(m) /\ \A i \in 1..Len(u) : f[i + 1] = u[i]
    <2>1. /\ <<START_TOKEN>> \o u \in Seq(S)
          /\ \A i \in 1..Len(u) : (<<START_TOKEN>> \o u)[i + 1] = u[i]
      BY <1>1
    <2>. QED
      BY <1>2, <2>1, Zenon
  <1>6. PICK z \in Nat : z = Size(m) /\ z = Len(u) + 1 /\ z >= 9
    <2>1. PICK z \in Nat, h \in {7, 8} : z = Size(m) /\ h = Header(m) /\ h + 2 <= z
      BY SizeFacts
    <2>2. Len(u) = z - 1
      BY <1>2, <2>1
    <2>3. z = Len(u) + 1 /\ z >= 9
      BY <2>1, <2>2
    <2>. QED
      BY <2>1, <2>3
  <1>7. PICK pos : pos = [j \in 1..z |-> 1 + at[j - 1]]
    OBVIOUS
  <1>8. \A j \in 1..z : pos[j] = 1 + at[j - 1]
    BY <1>7
  <1>9. at[0] = 0 /\ at[z - 1] = Len(e) /\ \A k \in 0..(z - 1) : at[k] \in Nat /\ at[k] <= Len(e)
    BY <1>15, <1>6 DEF IsLayout
  <1>10. pos[1] = 1 /\ pos[z] = Len(w) /\ \A j \in 1..z : pos[j] \in Nat /\ pos[j] <= Len(w)
    <2>1. /\ 1 \in 1..z /\ z \in 1..z /\ 1 - 1 = 0 /\ 1 + 0 = 1
          /\ \A j \in 1..z : j - 1 \in 0..(z - 1)
      BY <1>6
    <2>2. \A a \in Nat : a <= Len(e) => 1 + a \in Nat /\ 1 + a <= 1 + Len(e)
      BY <1>15
    <2>3. pos[1] = 1 /\ pos[z] = 1 + Len(e)
      BY <1>8, <1>9, <2>1
    <2>. QED
      BY <1>4, <1>8, <1>9, <2>1, <2>2, <2>3, Zenon
  <1>11. ASSUME NEW j \in 1..(z - 1)
         PROVE  IF f[j + 1] \in {START_TOKEN, ESCAPE_TOKEN}
                THEN /\ pos[j + 1] = pos[j] + 2
                     /\ w[pos[j] + 1] = ESCAPE_TOKEN /\ w[pos[j] + 2] = f[j + 1]
                ELSE pos[j + 1] = pos[j] + 1 /\ w[pos[j] + 1] = f[j + 1]
    <2>1. j \in 1..Len(u) /\ j - 1 \in 0..(z - 1) /\ j \in 0..(z - 1) /\ j \in 1..z
          /\ j + 1 \in 1..z /\ (j + 1) - 1 = j
      BY <1>6
    <2>2. f[j + 1] = u[j]
      BY <1>5, <2>1
    <2>3. PICK a \in Nat, b \in Nat : a = at[j - 1] /\ b = at[j] /\ b <= Len(e)
      BY <1>9, <2>1
    <2>4. pos[j] = 1 + a /\ pos[j + 1] = 1 + b
      BY <1>8, <2>1, <2>3, Zenon
    <2>5. CASE u[j] \in {START_TOKEN, ESCAPE_TOKEN}
      <3>1. b = a + 2 /\ e[a + 1] = ESCAPE_TOKEN /\ e[a + 2] = u[j]
        BY <1>15, <2>1, <2>3, <2>5 DEF IsLayout
      <3>4. a + 1 \in 1..Len(e) /\ a + 2 \in 1..Len(e)
        <4>1. Len(e) \in Nat /\ b <= Len(e) /\ b = a + 2
          BY <1>15, <2>3, <3>1, Zenon
        <4>. QED
          BY <4>1
      <3>2. w[1 + (a + 1)] = e[a + 1] /\ w[1 + (a + 2)] = e[a + 2]
        BY <1>4, <3>4, Zenon
      <3>3. 1 + (a + 1) = (1 + a) + 1 /\ 1 + (a + 2) = (1 + a) + 2 /\ 1 + (a + 2) = 1 + b
            /\ 1 + b = (1 + a) + 2
        BY <3>1
      <3>. QED
        BY <2>2, <2>4, <2>5, <3>1, <3>2, <3>3
    <2>6. CASE u[j] \notin {START_TOKEN, ESCAPE_TOKEN}
      <3>1. b = a + 1 /\ e[a + 1] = u[j]
        BY <1>15, <2>1, <2>3, <2>6 DEF IsLayout
      <3>4. a + 1 \in 1..Len(e)
        BY <1>15, <2>3, <3>1
      <3>2. w[1 + (a + 1)] = e[a + 1]
        BY <1>4, <3>4, Zenon
      <3>3. 1 + (a + 1) = (1 + a) + 1 /\ 1 + b = (1 + a) + 1
        BY <3>1
      <3>. QED
        BY <2>2, <2>4, <2>6, <3>1, <3>2, <3>3
    <2>. QED
      BY <2>5, <2>6
  <1>12. IsPlaced(pos, m)
    BY <1>4, <1>5, <1>6, <1>10, <1>11, Zenon DEF IsPlaced
  <1>13. IsPlaced(Pos(m), m)
    BY <1>12, Zenon DEF Pos
  <1>14. Len(w) \in Nat \ {0}
    BY <1>4
  <1>. QED
    BY <1>1, <1>4, <1>13, <1>14

-----------------------------------------------------------------------------
(* consume: one byte of a frame.                                           *)

Fields == {"complete", "escaping", "frameLength", "command", "buffer", "raw",
           "headerLength", "id", "address", "data"}

(* The parser has j bytes of the frame, which were q bytes on the wire, and *)
(* knows what they say.                                                     *)
At(r, m, j, escaping, q) ==
  /\ DOMAIN r = Fields
  /\ r.complete = FALSE /\ r.escaping = escaping
  /\ r.buffer = SubSeq(Frame(m), 1, j) /\ r.raw = SubSeq(MakeFrame(m), 1, q)
  /\ r.command = (IF j = 1 THEN NoCommand ELSE m.cmd)
  /\ r.headerLength = (IF j = 1 THEN 7 ELSE Header(m))
  /\ r.frameLength = (IF j < Header(m) THEN 0 ELSE Size(m))
  /\ r.id = (IF j < Header(m) THEN << >> ELSE m.id)
  /\ r.address = << >>

(* The second byte says which command it is, and how long the header is. *)
LEMMA CommandByte ==
  ASSUME NEW m \in Messages, WellFormed(m), NEW g, DOMAIN g = Fields, g.headerLength = 7
  PROVE  /\ OnCommandByte(g, m.cmd).outcome = "more"
         /\ OnCommandByte(g, m.cmd).rx = [g EXCEPT !.command = m.cmd, !.headerLength = Header(m)]
  <1>1. /\ FromByte(m.cmd) = m.cmd /\ m.cmd # NoCommand /\ m.cmd # Extension
        /\ ~IsPlantByte(m.cmd)
    BY CommandFacts, StreamAssumption DEF WellFormed
  <1>2. (7 + 0) + (IF IsLong(m.cmd) THEN 1 ELSE 0) = Header(m)
    BY DEF Header
  <1>3. PICK h : h = Header(m) /\ h = (7 + 0) + (IF IsLong(m.cmd) THEN 1 ELSE 0)
    BY <1>2
  <1>4. [g EXCEPT !.command = m.cmd,
                  !.headerLength = @ + (IF IsPlantByte(m.cmd) THEN 4 ELSE 0)
                                     + (IF IsLong(m.cmd) THEN 1 ELSE 0)]
          = [g EXCEPT !.command = m.cmd, !.headerLength = h]
    BY <1>1, <1>3, Zenon DEF Fields
  <1>. QED
    BY <1>1, <1>3, <1>4, Zenon DEF OnCommandByte

(* The last byte of the header says how long the frame is. *)
LEMMA HeaderBytes ==
  ASSUME NEW m \in Messages, WellFormed(m), NEW g, DOMAIN g = Fields,
         g.command = m.cmd, g.headerLength = Header(m),
         g.buffer = SubSeq(Frame(m), 1, Header(m))
  PROVE  /\ OnHeader(g).outcome = "more"
         /\ OnHeader(g).rx = [g EXCEPT !.frameLength = Size(m), !.address = << >>, !.id = m.id]
  <1>1. ~IsPlantByte(m.cmd)
    BY CommandFacts, StreamAssumption DEF WellFormed
  <1>2. PICK f \in Seq(Alphabet(m)) : f = Frame(m) /\ Len(f) = Size(m)
    BY FrameFacts
  <1>3. PICK h \in {7, 8}, n \in Nat, z \in Nat :
          /\ h = Header(m) /\ n = Length(m) /\ z = Size(m)
          /\ z = h + n + 2 /\ h + 2 <= z
    BY SizeFacts
  <1>4. PICK b : b = SubSeq(f, 1, h)
    OBVIOUS
  <1>5. b[3] = f[3] /\ b[4] = f[4] /\ SubSeq(b, h - 3, h) = SubSeq(f, h - 3, h)
    <2>1. /\ h \in Nat /\ h <= Len(f) /\ 3 \in 1..h /\ 4 \in 1..h /\ h - 3 \in 1..h /\ h \in 1..h
      <3>1. Len(f) = z /\ h + 2 <= z
        BY <1>2, <1>3, Zenon
      <3>. QED
        BY <3>1
    <2>. QED
      BY <1>4, <2>1, PrefixFacts
  <1>6. g.buffer = b /\ g.command = m.cmd /\ g.headerLength = h
    BY <1>2, <1>3, <1>4
  <1>7. (h - 4) + (IF IsLong(m.cmd) THEN 256 * b[3] + b[4] ELSE b[3]) + 2 = z
    <2>1. (IF IsLong(m.cmd) THEN 256 * b[3] + b[4] ELSE b[3]) = 4 + n
      BY <1>2, <1>3, <1>5, FrameFacts, Zenon
    <2>2. (h - 4) + (4 + n) + 2 = z
      BY <1>3
    <2>. QED
      BY <2>1, <2>2, Zenon
  <1>8. \A oid : oid = (IF IsLong(m.cmd) THEN 5 ELSE 4) => SubSeq(b, oid, oid + 3) = m.id
    <2>1. ASSUME NEW oid, oid = (IF IsLong(m.cmd) THEN 5 ELSE 4)
          PROVE  oid = h - 3 /\ oid + 3 = h
      BY <1>3, <2>1 DEF Header
    <2>. QED
      BY <1>2, <1>3, <1>5, <2>1, FrameFacts, Zenon
  <1>9. /\ (g.headerLength - (IF IsPlantByte(g.command) THEN 8 ELSE 4))
             + (IF IsLong(g.command) THEN 256 * g.buffer[3] + g.buffer[4] ELSE g.buffer[3]) + 2 = z
        /\ \A a : (IF IsPlantByte(g.command) THEN a ELSE << >>) = << >>
        /\ \A first : first = (IF IsLong(g.command) THEN 5 ELSE 4) =>
             \A oid : oid = (IF IsPlantByte(g.command) THEN first + 4 ELSE first) =>
               SubSeq(g.buffer, oid, oid + 3) = m.id
    BY <1>1, <1>6, <1>7, <1>8, Zenon
  <1>10. PICK first : first = IF IsLong(g.command) THEN 5 ELSE 4
    OBVIOUS
  <1>11. PICK oid : oid = IF IsPlantByte(g.command) THEN first + 4 ELSE first
    OBVIOUS
  <1>12. PICK length : length = IF IsLong(g.command) THEN 256 * g.buffer[3] + g.buffer[4]
                                                   ELSE g.buffer[3]
    OBVIOUS
  <1>13. PICK l : /\ l = (g.headerLength - (IF IsPlantByte(g.command) THEN 8 ELSE 4)) + length + 2
                  /\ l = z
    <2>1. (g.headerLength - (IF IsPlantByte(g.command) THEN 8 ELSE 4)) + length + 2 = z
      BY <1>9, <1>12, Zenon
    <2>. QED
      BY <2>1, Zenon
  <1>14. PICK a : /\ a = IF IsPlantByte(g.command) THEN SubSeq(g.buffer, first, first + 3)
                                                  ELSE << >>
                  /\ a = << >>
    BY <1>9, Zenon
  <1>15. PICK i : i = SubSeq(g.buffer, oid, oid + 3) /\ i = m.id
    BY <1>9, <1>10, <1>11, Zenon
  <1>16. PICK e : e = [g EXCEPT !.frameLength = l, !.address = a, !.id = i]
    OBVIOUS
  <1>17. OnHeader(g) = [rx |-> e, outcome |-> "more"]
    <2>1. OnHeader(g) =
            [rx |-> [g EXCEPT
               !.frameLength =
                 (g.headerLength - (IF IsPlantByte(g.command) THEN 8 ELSE 4))
                   + (IF IsLong(g.command) THEN 256 * g.buffer[3] + g.buffer[4] ELSE g.buffer[3])
                   + 2,
               !.address =
                 IF IsPlantByte(g.command)
                 THEN SubSeq(g.buffer, IF IsLong(g.command) THEN 5 ELSE 4,
                             (IF IsLong(g.command) THEN 5 ELSE 4) + 3)
                 ELSE << >>,
               !.id =
                 SubSeq(g.buffer,
                        IF IsPlantByte(g.command) THEN (IF IsLong(g.command) THEN 5 ELSE 4) + 4
                        ELSE IF IsLong(g.command) THEN 5 ELSE 4,
                        (IF IsPlantByte(g.command) THEN (IF IsLong(g.command) THEN 5 ELSE 4) + 4
                         ELSE IF IsLong(g.command) THEN 5 ELSE 4) + 3)],
             outcome |-> "more"]
      BY Zenon DEF OnHeader
    <2>2. OnHeader(g) = [rx |-> [g EXCEPT !.frameLength = l, !.address = a, !.id = i],
                         outcome |-> "more"]
      BY <2>1, <1>10, <1>11, <1>12, <1>13, <1>14, <1>15, ZenonT(30)
    <2>. QED
      BY <1>16, <2>2, Zenon
  <1>18. OnHeader(g).outcome = "more" /\ OnHeader(g).rx = e
    BY <1>17
  <1>. QED
    BY <1>3, <1>13, <1>14, <1>15, <1>16, <1>18, Zenon

(* The last byte of the frame completes it: the checksum is that of the     *)
(* bytes it was made from.                                                  *)
LEMMA LastByte ==
  ASSUME NEW m \in Messages, WellFormed(m), NEW g, DOMAIN g = Fields,
         g.headerLength = Header(m), g.buffer = Frame(m)
  PROVE  /\ OnLastByte(g).outcome = "complete"
         /\ OnLastByte(g).rx = [g EXCEPT !.complete = TRUE, !.data = m.payload]
  <1>0. PICK z \in Nat, h \in {7, 8} : z = Size(m) /\ h = Header(m) /\ h + 2 <= z
    BY SizeFacts
  <1>1. PICK f : f = Frame(m) /\ Len(f) = z
    BY <1>0, FrameFacts
  <1>2. ~(z - 2 < h)
    BY <1>0
  <1>3. /\ SubSeq(f, z - 1, z) = Check(m) /\ SubSeq(f, 2, z - 2) = Body(m)
        /\ SubSeq(f, h + 1, z - 2) = m.payload
    BY <1>0, <1>1, FrameFacts
  <1>4. BigEndian(Crc16(SubSeq(f, 2, z - 2))) = SubSeq(f, z - 1, z)
    BY <1>3 DEF Check
  <1>5. PICK e : e = [g EXCEPT !.complete = TRUE, !.data = SubSeq(f, h + 1, z - 2)]
    OBVIOUS
  <1>6. OnLastByte(g) = [rx |-> e, outcome |-> "complete"]
    BY <1>0, <1>1, <1>2, <1>4, <1>5, Zenon DEF OnLastByte
  <1>7. OnLastByte(g).outcome = "complete" /\ OnLastByte(g).rx = e
    BY <1>6
  <1>. QED
    BY <1>3, <1>5, <1>7, Zenon

(* The parser takes a byte of the frame, its escape token already taken     *)
(* off: it knows more than before, or hands the frame on.                   *)
LEMMA FrameByte ==
  ASSUME NEW m \in Messages, WellFormed(m), NEW j \in Nat, 1 <= j, j < Size(m),
         NEW q, NEW r, At(r, m, j, FALSE, q),
         NEW s, s = OnFrameByte(r, Frame(m)[j + 1])
  PROVE  /\ j + 1 < Size(m) => s.outcome = "more" /\ At(s.rx, m, j + 1, FALSE, q)
         /\ j + 1 = Size(m) =>
              /\ s.outcome = "complete"
              /\ s.rx.command = m.cmd /\ s.rx.id = m.id /\ s.rx.address = << >>
              /\ s.rx.data = m.payload /\ s.rx.raw = SubSeq(MakeFrame(m), 1, q)
  <1>1. PICK h \in {7, 8}, z \in Nat : h = Header(m) /\ z = Size(m) /\ h + 2 <= z
    BY SizeFacts
  <1>2. PICK b : b = Frame(m)[j + 1]
    OBVIOUS
  <1>3. PICK t : t = SubSeq(Frame(m), 1, j + 1) /\ Append(SubSeq(Frame(m), 1, j), b) = t
                 /\ Len(t) = j + 1
    <2>1. /\ j + 1 \in Nat /\ j + 1 <= Size(m) /\ j < Size(m) /\ Len(Frame(m)) = Size(m)
          /\ Frame(m) \in Seq(Alphabet(m))
      BY <1>1, FrameFacts
    <2>2. Append(SubSeq(Frame(m), 1, j), b) = SubSeq(Frame(m), 1, j + 1)
      BY <1>2, <2>1, PrefixGrows
    <2>3. Len(SubSeq(Frame(m), 1, j + 1)) = j + 1
      BY <2>1, PrefixFacts
    <2>. QED
      BY <2>2, <2>3, Zenon
  <1>4. PICK g : g = [r EXCEPT !.buffer = Append(@, b)]
    OBVIOUS
  <1>5. /\ DOMAIN g = Fields /\ g.buffer = t
        /\ g.complete = FALSE /\ g.escaping = FALSE /\ g.raw = SubSeq(MakeFrame(m), 1, q)
        /\ g.command = r.command /\ g.headerLength = r.headerLength
        /\ g.frameLength = r.frameLength /\ g.id = r.id /\ g.address = << >>
    <2>1. DOMAIN r = Fields /\ r.buffer = SubSeq(Frame(m), 1, j)
      BY DEF At
    <2>2. DOMAIN g = Fields /\ g.buffer = t
      BY <1>3, <1>4, <2>1, Zenon DEF Fields
    <2>. QED
      BY <1>4, <2>1, <2>2, Zenon DEF At, Fields
  <1>6. s = (IF j + 1 = 2 THEN OnCommandByte(g, b)
             ELSE IF j + 1 = r.headerLength /\ r.frameLength = 0 THEN OnHeader(g)
             ELSE IF r.frameLength > 0 /\ j + 1 = r.frameLength THEN OnLastByte(g)
             ELSE [rx |-> g, outcome |-> IF r.frameLength > 0 /\ j + 1 > r.frameLength
                                         THEN "FrameLengthExceeded" ELSE "more"])
    BY <1>2, <1>3, <1>4, <1>5, Zenon DEF OnFrameByte
  <1>7. CASE j = 1
    <2>1. s = OnCommandByte(g, m.cmd) /\ g.headerLength = 7 /\ g.frameLength = 0 /\ g.id = << >>
      <3>1. b = m.cmd
        BY <1>2, <1>7, FrameFacts
      <3>2. r.headerLength = 7 /\ r.frameLength = 0 /\ r.id = << >>
        BY <1>1, <1>7 DEF At
      <3>3. j + 1 = 2
        BY <1>7
      <3>. QED
        BY <1>5, <1>6, <3>1, <3>2, <3>3, Zenon
    <2>2. s.outcome = "more" /\ s.rx = [g EXCEPT !.command = m.cmd, !.headerLength = Header(m)]
      <3>1. DOMAIN g = Fields /\ g.headerLength = 7
        BY <1>5, <2>1, Zenon
      <3>2. PICK c : c = OnCommandByte(g, m.cmd) /\ s = c
        BY <2>1, Zenon
      <3>3. c.outcome = "more" /\ c.rx = [g EXCEPT !.command = m.cmd, !.headerLength = Header(m)]
        BY <3>1, <3>2, CommandByte, Zenon
      <3>. QED
        BY <3>2, <3>3, Zenon
    <2>3. /\ DOMAIN s.rx = Fields /\ s.rx.command = m.cmd /\ s.rx.headerLength = Header(m)
          /\ s.rx.complete = FALSE /\ s.rx.escaping = FALSE /\ s.rx.buffer = t
          /\ s.rx.raw = SubSeq(MakeFrame(m), 1, q) /\ s.rx.frameLength = 0
          /\ s.rx.id = << >> /\ s.rx.address = << >>
      BY <1>5, <2>1, <2>2, Zenon DEF Fields
    <2>4. j + 1 # 1 /\ j + 1 < Header(m) /\ j + 1 # Size(m)
      BY <1>1, <1>7
    <2>. QED
      BY <1>3, <2>2, <2>3, <2>4, Zenon DEF At
  <1>8. CASE j # 1 /\ j + 1 = h
    <2>1. r.headerLength = h /\ r.frameLength = 0 /\ r.command = m.cmd
      <3>1. j < h
        BY <1>8
      <3>. QED
        BY <1>1, <1>8, <3>1, Zenon DEF At
    <2>2. s = OnHeader(g)
      <3>1. j + 1 # 2
        BY <1>8
      <3>. QED
        BY <1>6, <1>8, <2>1, <3>1, Zenon
    <2>3. s.outcome = "more"
          /\ s.rx = [g EXCEPT !.frameLength = Size(m), !.address = << >>, !.id = m.id]
      <3>1. DOMAIN g = Fields /\ g.command = m.cmd
        BY <1>5, <2>1, Zenon
      <3>2. g.headerLength = Header(m)
        BY <1>1, <1>5, <2>1, Zenon
      <3>3. g.buffer = SubSeq(Frame(m), 1, Header(m))
        BY <1>1, <1>3, <1>5, <1>8, Zenon
      <3>4. /\ OnHeader(g).outcome = "more"
            /\ OnHeader(g).rx = [g EXCEPT !.frameLength = Size(m), !.address = << >>, !.id = m.id]
        BY <3>1, <3>2, <3>3, HeaderBytes, Zenon
      <3>. QED
        BY <2>2, <3>4, Zenon
    <2>4. /\ DOMAIN s.rx = Fields /\ s.rx.command = m.cmd /\ s.rx.headerLength = h
          /\ s.rx.complete = FALSE /\ s.rx.escaping = FALSE /\ s.rx.buffer = t
          /\ s.rx.raw = SubSeq(MakeFrame(m), 1, q) /\ s.rx.frameLength = Size(m)
          /\ s.rx.id = m.id /\ s.rx.address = << >>
      BY <1>5, <2>1, <2>3, Zenon DEF Fields
    <2>5. j + 1 # 1 /\ ~(j + 1 < Header(m)) /\ j + 1 # Size(m)
      BY <1>1, <1>8
    <2>. QED
      BY <1>1, <1>3, <2>3, <2>4, <2>5, Zenon DEF At
  <1>9. CASE j # 1 /\ j + 1 < h
    <2>1. /\ r.headerLength = h /\ r.frameLength = 0 /\ r.command = m.cmd /\ r.id = << >>
      <3>1. j < h
        BY <1>9
      <3>. QED
        BY <1>1, <1>9, <3>1, Zenon DEF At
    <2>2. j + 1 # 2 /\ j + 1 # h /\ ~(0 > 0) /\ j + 1 # 1 /\ j + 1 # Size(m)
      BY <1>1, <1>9
    <2>3. s = [rx |-> g, outcome |-> "more"]
      BY <1>6, <2>1, <2>2, Zenon
    <2>4. s.outcome = "more" /\ s.rx = g
      BY <2>3
    <2>. QED
      BY <1>1, <1>3, <1>5, <1>9, <2>1, <2>2, <2>4, Zenon DEF At
  <1>10. CASE h < j + 1
    <2>1. j # 1 /\ ~(j < h) /\ j + 1 # 2 /\ j + 1 # h /\ z > 0 /\ ~(j + 1 > z) /\ j + 1 # 1
          /\ ~(j + 1 < h)
      BY <1>1, <1>10
    <2>2. r.headerLength = h /\ r.frameLength = z /\ r.command = m.cmd /\ r.id = m.id
      BY <1>1, <2>1, Zenon DEF At
    <2>3. CASE j + 1 = z
      <3>1. s = OnLastByte(g)
        BY <1>6, <2>1, <2>2, <2>3, Zenon
      <3>2. t = Frame(m)
        BY <1>1, <1>3, <2>3, FrameFacts
      <3>3. s.outcome = "complete" /\ s.rx = [g EXCEPT !.complete = TRUE, !.data = m.payload]
        <4>1. DOMAIN g = Fields /\ g.headerLength = Header(m)
          BY <1>1, <1>5, <2>2, Zenon
        <4>2. g.buffer = Frame(m)
          BY <1>5, <3>2, Zenon
        <4>3. /\ OnLastByte(g).outcome = "complete"
              /\ OnLastByte(g).rx = [g EXCEPT !.complete = TRUE, !.data = m.payload]
          BY <4>1, <4>2, LastByte, Zenon
        <4>. QED
          BY <3>1, <4>3, Zenon
      <3>4. /\ s.rx.command = m.cmd /\ s.rx.id = m.id /\ s.rx.address = << >>
            /\ s.rx.data = m.payload /\ s.rx.raw = SubSeq(MakeFrame(m), 1, q)
        BY <1>5, <2>2, <3>3, Zenon DEF Fields
      <3>5. ~(j + 1 < Size(m))
        BY <1>1, <2>3
      <3>. QED
        BY <3>3, <3>4, <3>5, Zenon
    <2>4. CASE j + 1 # z
      <3>1. s = [rx |-> g, outcome |-> "more"]
        BY <1>6, <2>1, <2>2, <2>4, Zenon
      <3>2. s.outcome = "more" /\ s.rx = g
        BY <3>1
      <3>. QED
        BY <1>1, <1>3, <1>5, <2>1, <2>2, <2>4, <3>2, Zenon DEF At
    <2>. QED
      BY <2>3, <2>4
  <1>11. j = 1 \/ (j # 1 /\ j + 1 = h) \/ (j # 1 /\ j + 1 < h) \/ h < j + 1
    BY <1>1
  <1>. QED
    BY <1>7, <1>8, <1>9, <1>10, <1>11, Zenon

(* The first element is a prefix. *)
LEMMA FirstOnly ==
  ASSUME NEW S, NEW s \in Seq(S), Len(s) >= 1
  PROVE  SubSeq(s, 1, 1) = <<s[1]>>
  <1>1. Append(SubSeq(s, 1, 0), s[0 + 1]) = SubSeq(s, 1, 0 + 1)
    BY PrefixGrows
  <1>2. SubSeq(s, 1, 0) = << >>
    OBVIOUS
  <1>3. Append(<< >>, s[1]) = <<s[1]>>
    OBVIOUS
  <1>4. 0 + 1 = 1
    OBVIOUS
  <1>. QED
    BY <1>1, <1>2, <1>3, <1>4, Zenon

(* All elements are a prefix. *)
LEMMA WholePrefix ==
  ASSUME NEW S, NEW s \in Seq(S)
  PROVE  SubSeq(s, 1, Len(s)) = s
  OBVIOUS

(* Where the bytes of the frame lie: each one behind the one before it, and *)
(* only the last one at the end.                                            *)
LEMMA PosFacts ==
  ASSUME NEW m \in Messages, WellFormed(m), NEW j \in Nat, 1 <= j, j < Size(m)
  PROVE  /\ Pos(m)[j] \in Nat /\ Pos(m)[j + 1] \in Nat
         /\ Pos(m)[j] < Pos(m)[j + 1] /\ Pos(m)[j + 1] <= Len(MakeFrame(m))
         /\ j + 1 = Size(m) => Pos(m)[j + 1] = Len(MakeFrame(m))
         /\ j + 1 < Size(m) => Pos(m)[j + 1] < Len(MakeFrame(m))
         /\ IF Frame(m)[j + 1] \in {START_TOKEN, ESCAPE_TOKEN}
            THEN /\ Pos(m)[j + 1] = Pos(m)[j] + 2
                 /\ MakeFrame(m)[Pos(m)[j] + 1] = ESCAPE_TOKEN
                 /\ MakeFrame(m)[Pos(m)[j] + 2] = Frame(m)[j + 1]
            ELSE /\ Pos(m)[j + 1] = Pos(m)[j] + 1
                 /\ MakeFrame(m)[Pos(m)[j] + 1] = Frame(m)[j + 1]
  <1>0. PICK pos, f, w : w = MakeFrame(m) /\ pos = Pos(m) /\ f = Frame(m)
    OBVIOUS
  <1>1. PICK z \in Nat, l \in Nat : z = Size(m) /\ l = Len(w)
    BY <1>0, SizeFacts, WireFacts
  <1>2. /\ pos[z] = l /\ \A i \in 1..z : pos[i] \in Nat /\ pos[i] <= l
        /\ \A i \in 1..(z - 1) :
             IF f[i + 1] \in {START_TOKEN, ESCAPE_TOKEN}
             THEN /\ pos[i + 1] = pos[i] + 2
                  /\ w[pos[i] + 1] = ESCAPE_TOKEN /\ w[pos[i] + 2] = f[i + 1]
             ELSE pos[i + 1] = pos[i] + 1 /\ w[pos[i] + 1] = f[i + 1]
    BY <1>0, <1>1, WireFacts, Zenon DEF IsPlaced
  <1>3. j \in 1..z /\ j + 1 \in 1..z /\ j \in 1..(z - 1)
    BY <1>1
  <1>4. ASSUME NEW i \in 1..(z - 1), pos[i] \in Nat
        PROVE  pos[i] < pos[i + 1]
    BY <1>2, <1>4
  <1>5. j + 1 < z => pos[j + 1] < l
    <2>. SUFFICES ASSUME j + 1 < z
                  PROVE  pos[j + 1] < l
      OBVIOUS
    <2>1. j + 1 \in 1..(z - 1) /\ (j + 1) + 1 \in 1..z
      BY <1>1
    <2>2. pos[j + 1] \in Nat /\ pos[(j + 1) + 1] \in Nat /\ pos[(j + 1) + 1] <= l
      BY <1>2, <1>3, <2>1, Zenon
    <2>3. pos[j + 1] < pos[(j + 1) + 1]
      BY <1>4, <2>1, <2>2, Zenon
    <2>. QED
      BY <2>2, <2>3
  <1>6. pos[j] < pos[j + 1]
    BY <1>2, <1>3, <1>4
  <1>. QED
    BY <1>0, <1>1, <1>2, <1>3, <1>5, <1>6, Zenon

(* The wire byte is kept, whether it is an escape token or not. *)
LEMMA KeptByte ==
  ASSUME NEW m \in Messages, WellFormed(m), NEW j \in Nat, NEW r, NEW escaping, NEW e,
         NEW q \in Nat, q < Len(MakeFrame(m)), At(r, m, j, escaping, q)
  PROVE  At([[r EXCEPT !.raw = Append(@, MakeFrame(m)[q + 1])] EXCEPT !.escaping = e],
            m, j, e, q + 1)
  <1>1. Append(SubSeq(MakeFrame(m), 1, q), MakeFrame(m)[q + 1]) = SubSeq(MakeFrame(m), 1, q + 1)
    BY WireFacts, PrefixGrows
  <1>2. PICK b : b = MakeFrame(m)[q + 1]
    OBVIOUS
  <1>3. PICK g : g = [[r EXCEPT !.raw = Append(@, b)] EXCEPT !.escaping = e]
    OBVIOUS
  <1>4. DOMAIN r = Fields /\ r.raw = SubSeq(MakeFrame(m), 1, q)
    BY DEF At
  <1>5. /\ DOMAIN g = Fields /\ g.escaping = e /\ g.raw = SubSeq(MakeFrame(m), 1, q + 1)
        /\ g.complete = r.complete /\ g.buffer = r.buffer /\ g.command = r.command
        /\ g.headerLength = r.headerLength /\ g.frameLength = r.frameLength
        /\ g.id = r.id /\ g.address = r.address
    BY <1>1, <1>2, <1>3, <1>4, Zenon DEF Fields
  <1>6. At(g, m, j, e, q + 1)
    BY <1>5, Zenon DEF At
  <1>. QED
    BY <1>2, <1>3, <1>6, Zenon

(* The parser is new, or in the middle of the frame, maybe behind an escape *)
(* token, when q bytes of it have come.                                     *)
Parsing(r, m, q) ==
  \/ q = 0 /\ r = NewReceiveFrame
  \/ \E j \in 1..(Size(m) - 1) : At(r, m, j, FALSE, q) /\ q = Pos(m)[j]
  \/ \E j \in 1..(Size(m) - 1) : /\ At(r, m, j, TRUE, q) /\ q = Pos(m)[j] + 1
                                 /\ Frame(m)[j + 1] \in {START_TOKEN, ESCAPE_TOKEN}

(* The parser reads a byte of the wire: it wants the rest of the frame, or  *)
(* after the last byte hands on the message and the bytes it came as.       *)
LEMMA ParseStep ==
  ASSUME NEW m \in Messages, WellFormed(m), NEW q \in Nat, q < Len(MakeFrame(m)),
         NEW r, Parsing(r, m, q), NEW s, s = ConsumeByte(r, MakeFrame(m)[q + 1])
  PROVE  /\ q + 1 < Len(MakeFrame(m)) => s.outcome = "more" /\ Parsing(s.rx, m, q + 1)
         /\ q + 1 = Len(MakeFrame(m)) =>
              /\ s.outcome = "complete"
              /\ s.rx.command = m.cmd /\ s.rx.id = m.id /\ s.rx.address = << >>
              /\ s.rx.data = m.payload /\ s.rx.raw = MakeFrame(m)
  <1>0. PICK w, b : w = MakeFrame(m) /\ b = w[q + 1]
    OBVIOUS
  <1>1. PICK z \in Nat, l \in Nat :
          /\ z = Size(m) /\ z >= 9 /\ w = MakeFrame(m) /\ l = Len(w) /\ b = w[q + 1]
    <2>1. Size(m) \in Nat /\ Size(m) >= 9
      BY SizeFacts
    <2>2. Len(w) \in Nat
      BY <1>0, WireFacts
    <2>. QED
      BY <1>0, <2>1, <2>2, Zenon
  <1>2. PICK kept : kept = [r EXCEPT !.raw = Append(@, b)]
    OBVIOUS
  <1>3. s = IF r.buffer = << >>
            THEN [rx |-> IF b = START_TOKEN
                         THEN [r EXCEPT !.raw = <<b>>, !.buffer = <<b>>] ELSE r,
                  outcome |-> "more"]
            ELSE IF r.escaping THEN OnFrameByte([kept EXCEPT !.escaping = FALSE], b)
            ELSE IF b = ESCAPE_TOKEN
            THEN [rx |-> [kept EXCEPT !.escaping = TRUE], outcome |-> "more"]
            ELSE OnFrameByte(kept, b)
    BY <1>1, <1>2, Zenon DEF ConsumeByte
  <1>4. CASE q = 0 /\ r = NewReceiveFrame
    <2>1. b = START_TOKEN
      BY <1>1, <1>4, WireFacts
    <2>2. PICK g : g = [r EXCEPT !.raw = <<START_TOKEN>>, !.buffer = <<START_TOKEN>>]
      OBVIOUS
    <2>3. r.buffer = << >> /\ DOMAIN r = Fields
      BY <1>4, Zenon DEF NewReceiveFrame, Fields
    <2>4. s = [rx |-> g, outcome |-> "more"]
      BY <1>3, <2>1, <2>2, <2>3, Zenon
    <2>5. /\ DOMAIN g = Fields /\ g.complete = FALSE /\ g.escaping = FALSE
          /\ g.buffer = <<START_TOKEN>> /\ g.raw = <<START_TOKEN>> /\ g.command = NoCommand
          /\ g.headerLength = 7 /\ g.frameLength = 0 /\ g.id = << >> /\ g.address = << >>
      BY <1>4, <2>2, <2>3, Zenon DEF NewReceiveFrame, Fields
    <2>6. SubSeq(Frame(m), 1, 1) = <<START_TOKEN>> /\ SubSeq(MakeFrame(m), 1, 1) = <<START_TOKEN>>
      <3>1. /\ Frame(m) \in Seq(Alphabet(m)) /\ Len(Frame(m)) >= 1 /\ Frame(m)[1] = START_TOKEN
            /\ MakeFrame(m) \in Seq(Alphabet(m)) /\ Len(MakeFrame(m)) >= 1
            /\ MakeFrame(m)[1] = START_TOKEN
        <4>1. /\ Len(Frame(m)) = z /\ Len(MakeFrame(m)) = l /\ l # 0
              /\ Frame(m) \in Seq(Alphabet(m)) /\ Frame(m)[1] = START_TOKEN
              /\ MakeFrame(m) \in Seq(Alphabet(m)) /\ MakeFrame(m)[1] = START_TOKEN
          BY <1>1, FrameFacts, WireFacts
        <4>2. z >= 1 /\ l >= 1
          BY <1>1, <4>1
        <4>. QED
          BY <4>1, <4>2, Zenon
      <3>. QED
        BY <3>1, FirstOnly, Zenon
    <2>7. 1 < Header(m) /\ 1 \in 1..(Size(m) - 1) /\ q + 1 = 1
      BY <1>1, <1>4, SizeFacts
    <2>8. At(g, m, 1, FALSE, 1)
      BY <2>5, <2>6, <2>7, Zenon DEF At
    <2>9. Pos(m)[1] = 1
      BY WireFacts DEF IsPlaced
    <2>10. Parsing(g, m, q + 1)
      BY <2>7, <2>8, <2>9 DEF Parsing
    <2>11. q + 1 # Len(MakeFrame(m))
      <3>1. 1 \in Nat /\ 1 <= 1 /\ 1 < Size(m)
        BY <1>1
      <3>2. PICK p \in Nat : p = Pos(m)[1] /\ p < Pos(m)[1 + 1] /\ Pos(m)[1 + 1] \in Nat
                             /\ Pos(m)[1 + 1] <= Len(MakeFrame(m))
        BY <3>1, PosFacts
      <3>. QED
        BY <1>1, <2>7, <2>9, <3>2
    <2>12. s.outcome = "more" /\ s.rx = g
      BY <2>4
    <2>. QED
      BY <2>10, <2>11, <2>12, Zenon
  <1>5. ASSUME NEW j \in 1..(z - 1), NEW e \in BOOLEAN, At(r, m, j, e, q)
        PROVE  /\ j \in Nat /\ 1 <= j /\ j < Size(m) /\ r.buffer # << >> /\ r.escaping = e
               /\ DOMAIN kept = Fields
               /\ \A d \in BOOLEAN : At([kept EXCEPT !.escaping = d], m, j, d, q + 1)
    <2>1. j \in Nat /\ 1 <= j /\ j < Size(m) /\ j <= Len(Frame(m)) /\ Frame(m) \in Seq(Alphabet(m))
      <3>1. Frame(m) \in Seq(Alphabet(m)) /\ Len(Frame(m)) = z
        BY <1>1, FrameFacts
      <3>2. j \in Nat /\ 1 <= j /\ j < z /\ j <= z
        BY <1>1
      <3>. QED
        BY <1>1, <3>1, <3>2, Zenon
    <2>2. r.buffer = SubSeq(Frame(m), 1, j) /\ r.escaping = e /\ DOMAIN r = Fields
      BY <1>5 DEF At
    <2>3. r.buffer # << >>
      BY <2>1, <2>2
    <2>4. ASSUME NEW d \in BOOLEAN
          PROVE  At([kept EXCEPT !.escaping = d], m, j, d, q + 1)
      BY <1>1, <1>2, <1>5, <2>1, KeptByte, Zenon
    <2>5. DOMAIN kept = Fields
      BY <1>2, <2>2, Zenon
    <2>. QED
      BY <2>1, <2>2, <2>3, <2>4, <2>5
  <1>6. ASSUME NEW j \in 1..(z - 1), NEW g, At(g, m, j, FALSE, q + 1), s = OnFrameByte(g, b),
               b = Frame(m)[j + 1], q + 1 = Pos(m)[j + 1]
        PROVE  /\ q + 1 < Len(MakeFrame(m)) => s.outcome = "more" /\ Parsing(s.rx, m, q + 1)
               /\ q + 1 = Len(MakeFrame(m)) =>
                    /\ s.outcome = "complete"
                    /\ s.rx.command = m.cmd /\ s.rx.id = m.id /\ s.rx.address = << >>
                    /\ s.rx.data = m.payload /\ s.rx.raw = MakeFrame(m)
    <2>1. j \in Nat /\ 1 <= j /\ j < Size(m)
      BY <1>1
    <2>2. /\ j + 1 < Size(m) => s.outcome = "more" /\ At(s.rx, m, j + 1, FALSE, q + 1)
          /\ j + 1 = Size(m) =>
               /\ s.outcome = "complete"
               /\ s.rx.command = m.cmd /\ s.rx.id = m.id /\ s.rx.address = << >>
               /\ s.rx.data = m.payload /\ s.rx.raw = SubSeq(MakeFrame(m), 1, q + 1)
      <3>1. s = OnFrameByte(g, Frame(m)[j + 1]) /\ At(g, m, j, FALSE, q + 1)
        BY <1>6, Zenon
      <3>. QED
        BY <2>1, <3>1, FrameByte, Zenon
    <2>3. CASE j + 1 < Size(m)
      <3>1. j + 1 \in 1..(Size(m) - 1)
        BY <1>1, <2>3
      <3>2. q + 1 # Len(MakeFrame(m))
        <4>1. Pos(m)[j + 1] < Len(MakeFrame(m)) /\ Pos(m)[j + 1] \in Nat
          BY <2>1, <2>3, PosFacts
        <4>. QED
          BY <1>1, <1>6, <4>1
      <3>3. Parsing(s.rx, m, q + 1)
        BY <1>6, <2>2, <2>3, <3>1, Zenon DEF Parsing
      <3>. QED
        BY <2>2, <2>3, <3>2, <3>3, Zenon
    <2>4. CASE j + 1 = Size(m)
      <3>1. q + 1 = Len(MakeFrame(m)) /\ ~(q + 1 < Len(MakeFrame(m)))
        <4>1. Pos(m)[j + 1] = Len(MakeFrame(m))
          BY <2>1, <2>4, PosFacts
        <4>2. q + 1 = l /\ l = Len(MakeFrame(m))
          BY <1>1, <1>6, <4>1, Zenon
        <4>3. ~(q + 1 < l)
          BY <4>2
        <4>. QED
          BY <4>2, <4>3, Zenon
      <3>2. SubSeq(MakeFrame(m), 1, q + 1) = MakeFrame(m)
        <4>1. SubSeq(MakeFrame(m), 1, Len(MakeFrame(m))) = MakeFrame(m)
          BY WireFacts, WholePrefix, Zenon
        <4>. QED
          BY <3>1, <4>1, Zenon
      <3>. QED
        BY <2>2, <2>4, <3>1, <3>2, Zenon
    <2>5. j + 1 < Size(m) \/ j + 1 = Size(m)
      BY <1>1
    <2>. QED
      BY <2>3, <2>4, <2>5, Zenon
  <1>7. ASSUME NEW j \in 1..(Size(m) - 1), At(r, m, j, FALSE, q), q = Pos(m)[j]
        PROVE  /\ q + 1 < Len(MakeFrame(m)) => s.outcome = "more" /\ Parsing(s.rx, m, q + 1)
               /\ q + 1 = Len(MakeFrame(m)) =>
                    /\ s.outcome = "complete"
                    /\ s.rx.command = m.cmd /\ s.rx.id = m.id /\ s.rx.address = << >>
                    /\ s.rx.data = m.payload /\ s.rx.raw = MakeFrame(m)
    <2>1. j \in 1..(z - 1)
      BY <1>1
    <2>2. /\ j \in Nat /\ 1 <= j /\ j < Size(m) /\ r.buffer # << >> /\ r.escaping = FALSE
          /\ DOMAIN kept = Fields
          /\ \A d \in BOOLEAN : At([kept EXCEPT !.escaping = d], m, j, d, q + 1)
      <3>1. FALSE \in BOOLEAN
        OBVIOUS
      <3>. QED
        BY <1>5, <1>7, <2>1, <3>1, Zenon
    <2>3. CASE Frame(m)[j + 1] \in {START_TOKEN, ESCAPE_TOKEN}
      <3>1. b = ESCAPE_TOKEN
        BY <1>1, <1>7, <2>2, <2>3, PosFacts, Zenon
      <3>2. s.outcome = "more" /\ s.rx = [kept EXCEPT !.escaping = TRUE]
        <4>1. s = [rx |-> [kept EXCEPT !.escaping = TRUE], outcome |-> "more"]
          BY <1>3, <2>2, <3>1, Zenon
        <4>. QED
          BY <4>1
      <3>3. At(s.rx, m, j, TRUE, q + 1)
        BY <2>2, <3>2, Zenon
      <3>4. Parsing(s.rx, m, q + 1)
        BY <1>7, <2>3, <3>3, Zenon DEF Parsing
      <3>5. q + 1 # Len(MakeFrame(m))
        <4>1. PICK p \in Nat : p = Pos(m)[j + 1] /\ p = Pos(m)[j] + 2 /\ p <= Len(MakeFrame(m))
          BY <2>2, <2>3, PosFacts, Zenon
        <4>. QED
          BY <1>1, <1>7, <4>1
      <3>. QED
        BY <3>2, <3>4, <3>5, Zenon
    <2>4. CASE Frame(m)[j + 1] \notin {START_TOKEN, ESCAPE_TOKEN}
      <3>1. b = Frame(m)[j + 1] /\ q + 1 = Pos(m)[j + 1]
        BY <1>1, <1>7, <2>2, <2>4, PosFacts, Zenon
      <3>2. b # ESCAPE_TOKEN
        BY <2>4, <3>1
      <3>3. s = OnFrameByte(kept, b)
        BY <1>3, <2>2, <3>2, Zenon
      <3>4. At(kept, m, j, FALSE, q + 1)
        <4>1. PICK g : g = [kept EXCEPT !.escaping = FALSE]
          OBVIOUS
        <4>2. At(g, m, j, FALSE, q + 1)
          <5>1. FALSE \in BOOLEAN
            OBVIOUS
          <5>. QED
            BY <2>2, <4>1, <5>1, Zenon
        <4>3. DOMAIN r = Fields
          BY <1>7 DEF At
        <4>4. kept.escaping = FALSE
          BY <1>2, <2>2, <4>3, Zenon DEF Fields
        <4>5. /\ kept.complete = g.complete /\ kept.buffer = g.buffer /\ kept.raw = g.raw
              /\ kept.command = g.command /\ kept.headerLength = g.headerLength
              /\ kept.frameLength = g.frameLength /\ kept.id = g.id
              /\ kept.address = g.address
          BY <2>2, <4>1, Zenon DEF Fields
        <4>. QED
          BY <2>2, <4>2, <4>4, <4>5, Zenon DEF At
      <3>. QED
        BY <1>6, <2>1, <3>1, <3>3, <3>4, Zenon
    <2>. QED
      BY <2>3, <2>4, Zenon
  <1>8. ASSUME NEW j \in 1..(Size(m) - 1), At(r, m, j, TRUE, q), q = Pos(m)[j] + 1,
               Frame(m)[j + 1] \in {START_TOKEN, ESCAPE_TOKEN}
        PROVE  /\ q + 1 < Len(MakeFrame(m)) => s.outcome = "more" /\ Parsing(s.rx, m, q + 1)
               /\ q + 1 = Len(MakeFrame(m)) =>
                    /\ s.outcome = "complete"
                    /\ s.rx.command = m.cmd /\ s.rx.id = m.id /\ s.rx.address = << >>
                    /\ s.rx.data = m.payload /\ s.rx.raw = MakeFrame(m)
    <2>1. j \in 1..(z - 1)
      BY <1>1
    <2>2. /\ j \in Nat /\ 1 <= j /\ j < Size(m) /\ r.buffer # << >> /\ r.escaping = TRUE
          /\ \A d \in BOOLEAN : At([kept EXCEPT !.escaping = d], m, j, d, q + 1)
      <3>1. TRUE \in BOOLEAN
        OBVIOUS
      <3>. QED
        BY <1>5, <1>8, <2>1, <3>1, Zenon
    <2>3. b = Frame(m)[j + 1] /\ q + 1 = Pos(m)[j + 1]
      <3>1. PICK p \in Nat : /\ p = Pos(m)[j] /\ Pos(m)[j + 1] = p + 2
                             /\ MakeFrame(m)[p + 2] = Frame(m)[j + 1]
        BY <1>8, <2>2, PosFacts, ZenonT(30)
      <3>2. q + 1 = p + 2
        BY <1>8, <3>1
      <3>. QED
        BY <1>1, <3>1, <3>2, Zenon
    <2>4. s = OnFrameByte([kept EXCEPT !.escaping = FALSE], b)
      BY <1>3, <2>2, Zenon
    <2>5. At([kept EXCEPT !.escaping = FALSE], m, j, FALSE, q + 1)
      <3>1. FALSE \in BOOLEAN
        OBVIOUS
      <3>. QED
        BY <2>2, <3>1, Zenon
    <2>. QED
      BY <1>6, <2>1, <2>3, <2>4, <2>5, Zenon
  <1>. QED
    BY <1>4, <1>7, <1>8, Zenon DEF Parsing

-----------------------------------------------------------------------------
(* A frame with one byte that is not the one that was written.             *)

(* All of a frame is bytes. *)
LEMMA FrameBytes ==
  ASSUME NEW m \in Messages, WellFormed(m)
  PROVE  Frame(m) \in Seq(Bytes) /\ Check(m) \in Seq(Bytes) /\ Len(Check(m)) = 2
  <1>1. Body(m) \in Seq(Bytes)
    <2>1. /\ <<m.cmd>> \in Seq(Bytes) /\ LengthField(m) \in Seq(Bytes)
          /\ m.id \in Seq(Bytes) /\ m.payload \in Seq(Bytes)
      BY CommandFacts, StreamAssumption, LengthFacts DEF WellFormed
    <2>2. \A s, t \in Seq(Bytes) : s \o t \in Seq(Bytes)
      OBVIOUS
    <2>. QED
      BY <2>1, <2>2, Zenon DEF Body
  <1>2. Check(m) \in Seq(Bytes) /\ Len(Check(m)) = 2
    <2>1. Crc16(Body(m)) \in Words
      BY <1>1, CrcWord
    <2>. QED
      BY <2>1, BigEndianFacts, Zenon DEF Check
  <1>3. Alphabet(m) = Bytes
    <2>1. Check(m)[1] \in Bytes /\ Check(m)[2] \in Bytes
      BY <1>2
    <2>. QED
      BY <2>1 DEF Alphabet
  <1>. QED
    BY <1>2, <1>3, FrameFacts, Zenon

(* The i-th byte is wrong, behind the length field. *)
IsHurt(F, m, i) ==
  /\ i \in Nat /\ Header(m) - 4 < i /\ i <= Size(m)
  /\ \E x \in Bytes : x # Frame(m)[i] /\ F = [Frame(m) EXCEPT ![i] = x]

(* Parts of two sequences that have the same elements are the same. *)
LEMMA SamePart ==
  ASSUME NEW S, NEW s \in Seq(S), NEW t \in Seq(S), NEW a \in Nat, NEW b \in Nat,
         1 <= a, b <= Len(s), b <= Len(t), \A k \in a..b : s[k] = t[k]
  PROVE  SubSeq(s, a, b) = SubSeq(t, a, b)
  <1>1. /\ SubSeq(s, a, b) = [k \in 1..(b - a + 1) |-> s[a + k - 1]]
        /\ SubSeq(t, a, b) = [k \in 1..(b - a + 1) |-> t[a + k - 1]]
    OBVIOUS
  <1>2. \A k \in 1..(b - a + 1) : a + k - 1 \in a..b
    OBVIOUS
  <1>. QED
    BY <1>1, <1>2

(* The part of a frame that the checksum is about, and the checksum. *)
LEMMA SumParts ==
  ASSUME NEW S, NEW s \in Seq(S), NEW z \in Nat, z >= 9, Len(s) = z
  PROVE  /\ SubSeq(s, 2, z - 2) \in Seq(S) /\ Len(SubSeq(s, 2, z - 2)) = z - 3
         /\ \A k \in 1..(z - 3) : SubSeq(s, 2, z - 2)[k] = s[k + 1]
         /\ SubSeq(s, z - 1, z)[1] = s[z - 1] /\ SubSeq(s, z - 1, z)[2] = s[z]
  <1>1. \A k \in 2..(z - 2) : s[k] \in S
    OBVIOUS
  <1>2. SubSeq(s, 2, z - 2) \in Seq(S) /\ Len(SubSeq(s, 2, z - 2)) = z - 3
    BY <1>1
  <1>3. \A k \in 1..(z - 3) : SubSeq(s, 2, z - 2)[k] = s[k + 1]
    OBVIOUS
  <1>4. SubSeq(s, z - 1, z)[1] = s[z - 1] /\ SubSeq(s, z - 1, z)[2] = s[z]
    OBVIOUS
  <1>. QED
    BY <1>2, <1>3, <1>4

(* The wrong byte is in the frame, the others are as they were. *)
LEMMA HurtFacts ==
  ASSUME NEW m \in Messages, WellFormed(m), NEW F, NEW i, IsHurt(F, m, i)
  PROVE  /\ F \in Seq(Bytes) /\ Len(F) = Size(m) /\ i \in 1..Size(m)
         /\ F[i] # Frame(m)[i] /\ \A k \in 1..Size(m) : k # i => F[k] = Frame(m)[k]
  <1>1. PICK z \in Nat, f \in Seq(Bytes) : z = Size(m) /\ f = Frame(m) /\ Len(f) = z
    BY SizeFacts, FrameBytes, FrameFacts
  <1>2. i \in 1..z
    <2>1. Header(m) \in {7, 8}
      BY SizeFacts
    <2>. QED
      BY <1>1, <2>1 DEF IsHurt
  <1>3. PICK x \in Bytes : x # f[i] /\ F = [f EXCEPT ![i] = x]
    BY <1>1 DEF IsHurt
  <1>4. F \in Seq(Bytes) /\ Len(F) = z /\ F[i] = x /\ \A k \in 1..z : k # i => F[k] = f[k]
    BY <1>1, <1>2, <1>3
  <1>. QED
    BY <1>1, <1>2, <1>3, <1>4

(* The checksum does not match: one wrong byte gives another checksum, and  *)
(* a wrong checksum is not that of the bytes in front of it.                *)
LEMMA HurtSum ==
  ASSUME NEW m \in Messages, WellFormed(m), NEW F, NEW i, IsHurt(F, m, i)
  PROVE  SubSeq(F, Size(m) - 1, Size(m)) # BigEndian(Crc16(SubSeq(F, 2, Size(m) - 2)))
  <1>0. PICK z \in Nat : z = Size(m) /\ z >= 9
    BY SizeFacts
  <1>1. PICK f \in Seq(Bytes) :
          /\ f = Frame(m) /\ Len(f) = z
          /\ SubSeq(f, 2, z - 2) = Body(m) /\ SubSeq(f, z - 1, z) = Check(m)
    BY <1>0, FrameBytes, FrameFacts
  <1>2. /\ F \in Seq(Bytes) /\ Len(F) = z /\ F[i] # f[i]
        /\ \A k \in 1..z : k # i => F[k] = f[k]
    <2>1. /\ F \in Seq(Bytes) /\ Len(F) = Size(m) /\ F[i] # Frame(m)[i]
          /\ \A k \in 1..Size(m) : k # i => F[k] = Frame(m)[k]
      BY HurtFacts
    <2>. QED
      BY <1>0, <1>1, <2>1, Zenon
  <1>3. i \in 1..z /\ i >= 4
    <2>1. PICK h \in {7, 8} : h = Header(m) /\ i \in Nat /\ h - 4 < i /\ i <= z
      BY <1>0, SizeFacts DEF IsHurt
    <2>. QED
      BY <2>1
  <1>4. /\ 2 \in Nat /\ z - 2 \in Nat /\ 1 <= 2 /\ 2 <= z - 2 /\ z - 2 <= z
        /\ (z - 2) - 2 + 1 = z - 3 /\ z - 1 \in Nat /\ 1 <= z - 1 /\ z - 1 <= z /\ z <= z
        /\ z - (z - 1) + 1 = 2 /\ \A k \in 1..(z - 3) : 2 + k - 1 = k + 1 /\ k + 1 \in 1..z
    BY <1>0
  <1>5. PICK u \in Seq(Bytes) : /\ u = SubSeq(F, 2, z - 2) /\ Len(u) = z - 3
                                /\ \A k \in 1..(z - 3) : u[k] = F[k + 1]
    <2>1. /\ SubSeq(F, 2, z - 2) \in Seq(Bytes) /\ Len(SubSeq(F, 2, z - 2)) = z - 3
          /\ \A k \in 1..(z - 3) : SubSeq(F, 2, z - 2)[k] = F[k + 1]
      BY <1>0, <1>2, SumParts, Zenon
    <2>. QED
      BY <2>1
  <1>6. PICK v \in Seq(Bytes) : /\ v = SubSeq(f, 2, z - 2) /\ Len(v) = z - 3
                                /\ \A k \in 1..(z - 3) : v[k] = f[k + 1]
    <2>1. /\ SubSeq(f, 2, z - 2) \in Seq(Bytes) /\ Len(SubSeq(f, 2, z - 2)) = z - 3
          /\ \A k \in 1..(z - 3) : SubSeq(f, 2, z - 2)[k] = f[k + 1]
      BY <1>0, <1>1, SumParts, Zenon
    <2>. QED
      BY <2>1
  <1>7. SubSeq(f, z - 1, z) = BigEndian(Crc16(v))
    BY <1>1, <1>6, Zenon DEF Check
  <1>8. CASE i <= z - 2
    <2>1. i - 1 \in 1..(z - 3) /\ (i - 1) + 1 = i
      BY <1>0, <1>3, <1>8
    <2>2. \A k \in 1..(z - 3) : k # i - 1 => k + 1 # i
      BY <1>0, <1>3
    <2>3. u[i - 1] # v[i - 1]
      BY <1>2, <1>5, <1>6, <2>1, Zenon
    <2>4. \A k \in 1..(z - 3) : k # i - 1 => u[k] = v[k]
      BY <1>2, <1>4, <1>5, <1>6, <2>2, Zenon
    <2>5. Crc16(u) # Crc16(v)
      <3>1. Len(u) = Len(v) /\ i - 1 \in 1..Len(u)
            /\ \A k \in 1..Len(u) : k # i - 1 => u[k] = v[k]
        BY <1>5, <1>6, <2>1, <2>4, Zenon
      <3>. QED
        BY <2>3, <3>1, CrcDetects, Zenon
    <2>6. Crc16(u) \in Words /\ Crc16(v) \in Words
      BY CrcWord
    <2>7. BigEndian(Crc16(u)) # BigEndian(Crc16(v))
      BY <2>5, <2>6, BigEndianFacts, Zenon
    <2>8. SubSeq(F, z - 1, z) = SubSeq(f, z - 1, z)
      <3>1. \A k \in (z - 1)..z : k \in 1..z /\ k # i
        BY <1>0, <1>8
      <3>2. \A k \in (z - 1)..z : F[k] = f[k]
        BY <1>2, <3>1
      <3>3. z <= Len(F) /\ z <= Len(f)
        BY <1>1, <1>2, <1>4, Zenon
      <3>4. F \in Seq(Bytes)
        BY <1>2
      <3>. QED
        BY <1>4, <3>2, <3>3, <3>4, SamePart, ZenonT(40)
    <2>. QED
      BY <1>0, <1>5, <1>7, <2>7, <2>8, Zenon
  <1>9. CASE ~(i <= z - 2)
    <2>1. u = v
      <3>1. \A k \in 1..(z - 3) : k + 1 # i
        BY <1>0, <1>3, <1>9
      <3>2. \A k \in 1..(z - 3) : u[k] = v[k]
        BY <1>2, <1>4, <1>5, <1>6, <3>1, Zenon
      <3>3. Len(u) = Len(v) /\ \A k \in 1..Len(u) : u[k] = v[k]
        BY <1>5, <1>6, <3>2, Zenon
      <3>. QED
        BY <3>3, SameSeq, Zenon
    <2>2. i = z - 1 \/ i = z
      BY <1>0, <1>3, <1>9
    <2>3. /\ SubSeq(F, z - 1, z)[1] = F[z - 1] /\ SubSeq(F, z - 1, z)[2] = F[z]
          /\ SubSeq(f, z - 1, z)[1] = f[z - 1] /\ SubSeq(f, z - 1, z)[2] = f[z]
      BY <1>0, <1>1, <1>2, SumParts, ZenonT(40)
    <2>4. SubSeq(F, z - 1, z) # SubSeq(f, z - 1, z)
      BY <1>2, <2>2, <2>3, Zenon
    <2>. QED
      BY <1>0, <1>5, <1>7, <2>1, <2>4, Zenon
  <1>. QED
    BY <1>8, <1>9, Zenon

(* The parser has j bytes of the damaged frame, and the length of the frame *)
(* as it was written.                                                       *)
Hurt(r, m, F, j, escaping) ==
  /\ DOMAIN r = Fields /\ r.escaping = escaping
  /\ r.buffer = SubSeq(F, 1, j)
  /\ r.command = m.cmd /\ r.headerLength = Header(m)
  /\ r.frameLength = (IF j < Header(m) THEN 0 ELSE Size(m))

(* The header of the damaged frame says the same length. *)
LEMMA HurtHeader ==
  ASSUME NEW m \in Messages, WellFormed(m), NEW F, NEW i, IsHurt(F, m, i),
         NEW g, DOMAIN g = Fields, g.command = m.cmd, g.headerLength = Header(m),
         g.escaping = FALSE, g.buffer = SubSeq(F, 1, Header(m))
  PROVE  OnHeader(g).outcome = "more" /\ Hurt(OnHeader(g).rx, m, F, Header(m), FALSE)
  <1>1. ~IsPlantByte(m.cmd)
    BY CommandFacts, StreamAssumption DEF WellFormed
  <1>2. PICK h \in {7, 8}, n \in Nat, z \in Nat :
          /\ h = Header(m) /\ n = Length(m) /\ z = Size(m)
          /\ z = h + n + 2 /\ h + 2 <= z
    BY SizeFacts
  <1>3. F \in Seq(Bytes) /\ Len(F) = z /\ \A k \in 1..z : k # i => F[k] = Frame(m)[k]
    <2>1. /\ F \in Seq(Bytes) /\ Len(F) = Size(m)
          /\ \A k \in 1..Size(m) : k # i => F[k] = Frame(m)[k]
      BY HurtFacts
    <2>. QED
      BY <1>2, <2>1, Zenon
  <1>4. i \in Nat /\ h - 4 < i
    BY <1>2 DEF IsHurt
  <1>5. PICK b : b = SubSeq(F, 1, h) /\ b = g.buffer
    BY <1>2
  <1>6. b[3] = F[3] /\ b[4] = F[4]
    <2>1. h \in Nat /\ h <= Len(F) /\ 3 \in 1..h /\ 4 \in 1..h
      BY <1>2, <1>3, SMTT(40)
    <2>. QED
      BY <1>3, <1>5, <2>1, PrefixFacts
  <1>7. (IF IsLong(m.cmd) THEN 256 * b[3] + b[4] ELSE b[3]) = 4 + n
    <2>1. 3 \in 1..z /\ 4 \in 1..z /\ 3 # i /\ (IsLong(m.cmd) => 4 # i)
      BY <1>2, <1>4 DEF Header
    <2>2. F[3] = Frame(m)[3] /\ (IsLong(m.cmd) => F[4] = Frame(m)[4])
      BY <1>3, <2>1
    <2>3. IF IsLong(m.cmd) THEN 256 * Frame(m)[3] + Frame(m)[4] = 4 + n ELSE Frame(m)[3] = 4 + n
      BY <1>2, FrameFacts, Zenon
    <2>. QED
      BY <1>6, <2>2, <2>3, Zenon
  <1>8. PICK first : first = IF IsLong(g.command) THEN 5 ELSE 4
    OBVIOUS
  <1>9. PICK oid : oid = IF IsPlantByte(g.command) THEN first + 4 ELSE first
    OBVIOUS
  <1>10. PICK length : /\ length = IF IsLong(g.command) THEN 256 * g.buffer[3] + g.buffer[4]
                                                       ELSE g.buffer[3]
                       /\ length = 4 + n
    BY <1>5, <1>7, Zenon
  <1>11. PICK l : /\ l = (g.headerLength - (IF IsPlantByte(g.command) THEN 8 ELSE 4)) + length + 2
                  /\ l = z
    <2>1. (h - 4) + (4 + n) + 2 = z
      BY <1>2
    <2>2. (g.headerLength - (IF IsPlantByte(g.command) THEN 8 ELSE 4)) + length + 2
            = (h - 4) + (4 + n) + 2
      BY <1>1, <1>2, <1>10, Zenon
    <2>. QED
      BY <2>1, <2>2, Zenon
  <1>12. PICK a : a = IF IsPlantByte(g.command) THEN SubSeq(g.buffer, first, first + 3) ELSE << >>
    OBVIOUS
  <1>13. PICK d : d = SubSeq(g.buffer, oid, oid + 3)
    OBVIOUS
  <1>14. PICK e : e = [g EXCEPT !.frameLength = l, !.address = a, !.id = d]
    OBVIOUS
  <1>15. OnHeader(g) = [rx |-> e, outcome |-> "more"]
    <2>1. OnHeader(g) =
            [rx |-> [g EXCEPT
               !.frameLength =
                 (g.headerLength - (IF IsPlantByte(g.command) THEN 8 ELSE 4))
                   + (IF IsLong(g.command) THEN 256 * g.buffer[3] + g.buffer[4] ELSE g.buffer[3])
                   + 2,
               !.address =
                 IF IsPlantByte(g.command)
                 THEN SubSeq(g.buffer, IF IsLong(g.command) THEN 5 ELSE 4,
                             (IF IsLong(g.command) THEN 5 ELSE 4) + 3)
                 ELSE << >>,
               !.id =
                 SubSeq(g.buffer,
                        IF IsPlantByte(g.command) THEN (IF IsLong(g.command) THEN 5 ELSE 4) + 4
                        ELSE IF IsLong(g.command) THEN 5 ELSE 4,
                        (IF IsPlantByte(g.command) THEN (IF IsLong(g.command) THEN 5 ELSE 4) + 4
                         ELSE IF IsLong(g.command) THEN 5 ELSE 4) + 3)],
             outcome |-> "more"]
      BY Zenon DEF OnHeader
    <2>2. OnHeader(g) = [rx |-> [g EXCEPT !.frameLength = l, !.address = a, !.id = d],
                         outcome |-> "more"]
      BY <1>8, <1>9, <1>10, <1>11, <1>12, <1>13, <2>1, ZenonT(60)
    <2>. QED
      BY <1>14, <2>2, Zenon
  <1>16. OnHeader(g).outcome = "more" /\ OnHeader(g).rx = e
    BY <1>15
  <1>17. /\ DOMAIN e = Fields /\ e.frameLength = z /\ e.escaping = FALSE /\ e.buffer = b
         /\ e.command = m.cmd /\ e.headerLength = Header(m)
    BY <1>5, <1>11, <1>14, Zenon DEF Fields
  <1>18. ~(h < h)
    BY <1>2
  <1>. QED
    BY <1>2, <1>5, <1>16, <1>17, <1>18, Zenon DEF Hurt

(* The last byte of the damaged frame does not complete it. *)
LEMMA HurtLast ==
  ASSUME NEW m \in Messages, WellFormed(m), NEW F, NEW i, IsHurt(F, m, i),
         NEW g, g.headerLength = Header(m), g.buffer = F
  PROVE  OnLastByte(g).outcome = "FrameCrcMismatch"
  <1>1. PICK z \in Nat, h \in {7, 8} : z = Size(m) /\ h = Header(m) /\ h + 2 <= z
    BY SizeFacts
  <1>2. Len(F) = z
    BY <1>1, HurtFacts
  <1>3. ~(z - 2 < h)
    BY <1>1
  <1>4. SubSeq(F, z - 1, z) # BigEndian(Crc16(SubSeq(F, 2, z - 2)))
    BY <1>1, HurtSum, Zenon
  <1>5. PICK e : OnLastByte(g) = [rx |-> e, outcome |-> "FrameCrcMismatch"]
    BY <1>1, <1>2, <1>3, <1>4, Zenon DEF OnLastByte
  <1>. QED
    BY <1>5

(* The parser takes a byte of the damaged frame, its escape token already   *)
(* taken off: it wants the rest, and refuses the frame after the last one.  *)
LEMMA HurtByte ==
  ASSUME NEW m \in Messages, WellFormed(m), NEW F, NEW i, IsHurt(F, m, i),
         NEW j \in Nat, i <= j + 1, j < Size(m), NEW r, Hurt(r, m, F, j, FALSE),
         NEW s, s = OnFrameByte(r, F[j + 1])
  PROVE  /\ j + 1 < Size(m) => s.outcome = "more" /\ Hurt(s.rx, m, F, j + 1, FALSE)
         /\ j + 1 = Size(m) => s.outcome = "FrameCrcMismatch"
  <1>1. PICK h \in {7, 8}, z \in Nat : h = Header(m) /\ z = Size(m) /\ h + 2 <= z
    BY SizeFacts
  <1>2. j >= 3
    <2>1. i \in Nat /\ h - 4 < i
      BY <1>1 DEF IsHurt
    <2>. QED
      BY <1>1, <2>1
  <1>3. PICK b : b = F[j + 1]
    OBVIOUS
  <1>4. PICK t : t = SubSeq(F, 1, j + 1) /\ Append(SubSeq(F, 1, j), b) = t /\ Len(t) = j + 1
    <2>1. j + 1 \in Nat /\ j + 1 <= Len(F) /\ j < Len(F) /\ F \in Seq(Bytes)
      BY <1>1, HurtFacts
    <2>2. Append(SubSeq(F, 1, j), b) = SubSeq(F, 1, j + 1)
      BY <1>3, <2>1, PrefixGrows
    <2>3. Len(SubSeq(F, 1, j + 1)) = j + 1
      BY <2>1, PrefixFacts
    <2>. QED
      BY <2>2, <2>3, Zenon
  <1>5. PICK g : g = [r EXCEPT !.buffer = Append(@, b)]
    OBVIOUS
  <1>6. /\ DOMAIN g = Fields /\ g.buffer = t /\ g.escaping = FALSE
        /\ g.command = m.cmd /\ g.headerLength = h /\ g.frameLength = r.frameLength
        /\ r.headerLength = h
    <2>1. DOMAIN r = Fields /\ r.buffer = SubSeq(F, 1, j)
      BY DEF Hurt
    <2>2. DOMAIN g = Fields /\ g.buffer = t
      BY <1>4, <1>5, <2>1, Zenon DEF Fields
    <2>. QED
      BY <1>1, <1>5, <2>1, <2>2, Zenon DEF Hurt, Fields
  <1>7. j + 1 # 2
    BY <1>2
  <1>8. s = (IF j + 1 = h /\ r.frameLength = 0 THEN OnHeader(g)
             ELSE IF r.frameLength > 0 /\ j + 1 = r.frameLength THEN OnLastByte(g)
             ELSE [rx |-> g, outcome |-> IF r.frameLength > 0 /\ j + 1 > r.frameLength
                                         THEN "FrameLengthExceeded" ELSE "more"])
    BY <1>3, <1>4, <1>5, <1>6, <1>7, Zenon DEF OnFrameByte
  <1>9. CASE j + 1 = h
    <2>1. j < h /\ j + 1 # z
      BY <1>1, <1>9
    <2>2. r.frameLength = 0
      BY <1>1, <2>1, Zenon DEF Hurt
    <2>3. s = OnHeader(g)
      BY <1>8, <1>9, <2>2, Zenon
    <2>4. OnHeader(g).outcome = "more" /\ Hurt(OnHeader(g).rx, m, F, Header(m), FALSE)
      BY <1>1, <1>4, <1>6, <1>9, HurtHeader, Zenon
    <2>. QED
      BY <1>1, <1>9, <2>1, <2>3, <2>4, Zenon
  <1>10. CASE j + 1 < h
    <2>1. j < h /\ j + 1 # z /\ j + 1 # h /\ ~(0 > 0)
      BY <1>1, <1>10
    <2>2. r.frameLength = 0
      BY <1>1, <2>1, Zenon DEF Hurt
    <2>3. s = [rx |-> g, outcome |-> "more"]
      BY <1>8, <2>1, <2>2, Zenon
    <2>4. s.outcome = "more" /\ s.rx = g
      BY <2>3
    <2>. QED
      BY <1>1, <1>4, <1>6, <1>10, <2>1, <2>2, <2>4, Zenon DEF Hurt
  <1>11. CASE h < j + 1
    <2>1. ~(j < h) /\ ~(j + 1 < h) /\ j + 1 # h /\ z > 0 /\ ~(j + 1 > z)
      BY <1>1, <1>11
    <2>2. r.frameLength = z
      BY <1>1, <2>1, Zenon DEF Hurt
    <2>3. CASE j + 1 = z
      <3>1. s = OnLastByte(g)
        BY <1>8, <2>1, <2>2, <2>3, Zenon
      <3>2. t = F
        BY <1>1, <1>4, <2>3, HurtFacts, WholePrefix, ZenonT(40)
      <3>3. OnLastByte(g).outcome = "FrameCrcMismatch"
        BY <1>1, <1>6, <3>2, HurtLast, Zenon
      <3>4. ~(j + 1 < Size(m))
        BY <1>1, <2>3
      <3>. QED
        BY <3>1, <3>3, <3>4, Zenon
    <2>4. CASE j + 1 # z
      <3>1. s = [rx |-> g, outcome |-> "more"]
        BY <1>8, <2>1, <2>2, <2>4, Zenon
      <3>2. s.outcome = "more" /\ s.rx = g
        BY <3>1
      <3>. QED
        BY <1>1, <1>4, <1>6, <2>1, <2>2, <2>4, <3>2, Zenon DEF Hurt
    <2>. QED
      BY <2>3, <2>4
  <1>12. j + 1 = h \/ j + 1 < h \/ h < j + 1
    BY <1>1
  <1>. QED
    BY <1>9, <1>10, <1>11, <1>12, Zenon

(* The parser is behind the wrong byte of the frame, maybe behind an escape *)
(* token, when q bytes of the frame have come.                              *)
Hurting(r, m, F, i, q) ==
  \/ \E j \in 1..(Size(m) - 1) : i <= j /\ Hurt(r, m, F, j, FALSE) /\ q = Pos(m)[j]
  \/ \E j \in 1..(Size(m) - 1) : /\ i <= j /\ Hurt(r, m, F, j, TRUE) /\ q = Pos(m)[j] + 1
                                 /\ Frame(m)[j + 1] \in {START_TOKEN, ESCAPE_TOKEN}

(* The parser has read q bytes of the damaged frame: it wants more, or       *)
(* refuses the frame when these are all.                                    *)
Goes(c, m, F, i, q) ==
  /\ q < Len(MakeFrame(m)) => c.outcome = "more" /\ Hurting(c.rx, m, F, i, q)
  /\ q = Len(MakeFrame(m)) => c.outcome = "FrameCrcMismatch"

(* A frame byte has been taken that ends at wire byte q. *)
LEMMA HurtTaken ==
  ASSUME NEW m \in Messages, WellFormed(m), NEW F, NEW i, IsHurt(F, m, i),
         NEW j \in Nat, 1 <= j, i <= j + 1, j < Size(m), NEW r, Hurt(r, m, F, j, FALSE),
         NEW s, s = OnFrameByte(r, F[j + 1]), NEW q \in Nat, q = Pos(m)[j + 1]
  PROVE  Goes(s, m, F, i, q)
  <1>1. /\ j + 1 < Size(m) => s.outcome = "more" /\ Hurt(s.rx, m, F, j + 1, FALSE)
        /\ j + 1 = Size(m) => s.outcome = "FrameCrcMismatch"
    BY HurtByte, Zenon
  <1>2. /\ j + 1 = Size(m) => q = Len(MakeFrame(m))
        /\ j + 1 < Size(m) => q < Len(MakeFrame(m))
    BY PosFacts, Zenon
  <1>3. Len(MakeFrame(m)) \in Nat
    BY WireFacts
  <1>4. CASE j + 1 < Size(m)
    <2>1. j + 1 \in 1..(Size(m) - 1)
      BY <1>4, SizeFacts
    <2>2. Hurting(s.rx, m, F, i, q)
      BY <1>1, <1>4, <2>1, Zenon DEF Hurting
    <2>3. q # Len(MakeFrame(m))
      BY <1>2, <1>3, <1>4
    <2>. QED
      BY <1>1, <1>4, <2>2, <2>3, Zenon DEF Goes
  <1>5. CASE j + 1 = Size(m)
    <2>1. ~(q < Len(MakeFrame(m)))
      BY <1>2, <1>3, <1>5
    <2>. QED
      BY <1>1, <1>5, <2>1, Zenon DEF Goes
  <1>6. j + 1 < Size(m) \/ j + 1 = Size(m)
    BY SizeFacts
  <1>. QED
    BY <1>4, <1>5, <1>6, Zenon

(* The parser reads a byte behind the wrong one. *)
LEMMA HurtStep ==
  ASSUME NEW m \in Messages, WellFormed(m), NEW F, NEW i, IsHurt(F, m, i),
         NEW q \in Nat, q < Len(MakeFrame(m)), NEW r, Hurting(r, m, F, i, q),
         NEW s, s = ConsumeByte(r, MakeFrame(m)[q + 1])
  PROVE  Goes(s, m, F, i, q + 1)
  <1>1. PICK b : b = MakeFrame(m)[q + 1]
    OBVIOUS
  <1>0. PICK x : x = Append(r.raw, b)
    OBVIOUS
  <1>2. PICK kept : kept = [r EXCEPT !.raw = x]
    OBVIOUS
  <1>3. s = IF r.buffer = << >>
            THEN [rx |-> IF b = START_TOKEN
                         THEN [r EXCEPT !.raw = <<b>>, !.buffer = <<b>>] ELSE r,
                  outcome |-> "more"]
            ELSE IF r.escaping THEN OnFrameByte([kept EXCEPT !.escaping = FALSE], b)
            ELSE IF b = ESCAPE_TOKEN
            THEN [rx |-> [kept EXCEPT !.escaping = TRUE], outcome |-> "more"]
            ELSE OnFrameByte(kept, b)
    BY <1>0, <1>1, <1>2, Zenon DEF ConsumeByte
  <1>4. Len(MakeFrame(m)) \in Nat
    BY WireFacts
  <1>5. ASSUME NEW j \in 1..(Size(m) - 1), i <= j
        PROVE  /\ j \in Nat /\ 1 <= j /\ j < Size(m) /\ i <= j + 1
               /\ F[j + 1] = Frame(m)[j + 1]
    <2>1. i \in Nat /\ Size(m) \in Nat
      BY SizeFacts DEF IsHurt
    <2>2. j \in Nat /\ 1 <= j /\ j < Size(m) /\ i <= j + 1 /\ j + 1 \in 1..Size(m) /\ j + 1 # i
      BY <1>5, <2>1
    <2>. QED
      BY <2>2, HurtFacts, ZenonT(40)
  <1>8. ASSUME NEW j \in 1..(Size(m) - 1), i <= j, NEW e \in BOOLEAN, Hurt(r, m, F, j, e)
        PROVE  /\ r.buffer # << >> /\ r.escaping = e /\ Hurt(kept, m, F, j, e)
               /\ \A d \in BOOLEAN : Hurt([kept EXCEPT !.escaping = d], m, F, j, d)
    <2>1. j \in Nat /\ 1 <= j /\ j < Size(m)
      BY <1>5, <1>8, Zenon
    <2>2. DOMAIN r = Fields /\ r.buffer = SubSeq(F, 1, j) /\ r.escaping = e
      BY <1>8 DEF Hurt
    <2>3. r.buffer # << >>
      <3>1. F \in Seq(Bytes) /\ Len(F) = Size(m)
        BY HurtFacts
      <3>2. j <= Len(F)
        BY <2>1, <3>1, SizeFacts
      <3>3. Len(SubSeq(F, 1, j)) = j
        BY <2>1, <3>1, <3>2, PrefixFacts
      <3>4. Len(<< >>) = 0 /\ j # 0
        BY <2>1
      <3>. QED
        BY <2>2, <3>3, <3>4
    <2>4. /\ DOMAIN kept = Fields /\ kept.escaping = r.escaping /\ kept.buffer = r.buffer
          /\ kept.command = r.command /\ kept.headerLength = r.headerLength
          /\ kept.frameLength = r.frameLength
      BY <1>2, <2>2, Zenon DEF Fields
    <2>5. ASSUME NEW d \in BOOLEAN
          PROVE  Hurt([kept EXCEPT !.escaping = d], m, F, j, d)
      <3>1. PICK g : g = [kept EXCEPT !.escaping = d]
        OBVIOUS
      <3>2. /\ DOMAIN g = Fields /\ g.escaping = d /\ g.buffer = r.buffer
            /\ g.command = r.command /\ g.headerLength = r.headerLength
            /\ g.frameLength = r.frameLength
        BY <2>4, <3>1, Zenon DEF Fields
      <3>3. Hurt(g, m, F, j, d)
        BY <1>8, <3>2, Zenon DEF Hurt
      <3>. QED
        BY <3>1, <3>3, Zenon
    <2>6. Hurt(kept, m, F, j, e)
      BY <1>8, <2>4, Zenon DEF Hurt
    <2>. QED
      BY <2>2, <2>3, <2>5, <2>6, Zenon
  <1>6. ASSUME NEW j \in 1..(Size(m) - 1), i <= j, Hurt(r, m, F, j, FALSE), q = Pos(m)[j]
        PROVE  Goes(s, m, F, i, q + 1)
    <2>1. /\ j \in Nat /\ 1 <= j /\ j < Size(m) /\ i <= j + 1 /\ F[j + 1] = Frame(m)[j + 1]
      BY <1>5, <1>6, Zenon
    <2>2. /\ r.buffer # << >> /\ r.escaping = FALSE /\ Hurt(kept, m, F, j, FALSE)
          /\ \A d \in BOOLEAN : Hurt([kept EXCEPT !.escaping = d], m, F, j, d)
      <3>1. FALSE \in BOOLEAN
        OBVIOUS
      <3>. QED
        BY <1>6, <1>8, <3>1, Zenon
    <2>3. CASE Frame(m)[j + 1] \in {START_TOKEN, ESCAPE_TOKEN}
      <3>1. b = ESCAPE_TOKEN
        BY <1>1, <1>6, <2>1, <2>3, PosFacts, Zenon
      <3>2. s.outcome = "more" /\ s.rx = [kept EXCEPT !.escaping = TRUE]
        <4>1. s = [rx |-> [kept EXCEPT !.escaping = TRUE], outcome |-> "more"]
          BY <1>3, <2>2, <3>1, Zenon
        <4>. QED
          BY <4>1
      <3>3. Hurt(s.rx, m, F, j, TRUE)
        <4>1. TRUE \in BOOLEAN
          OBVIOUS
        <4>. QED
          BY <2>2, <3>2, <4>1, Zenon
      <3>4. Hurting(s.rx, m, F, i, q + 1)
        BY <1>6, <2>3, <3>3, Zenon DEF Hurting
      <3>5. q + 1 # Len(MakeFrame(m))
        <4>1. PICK p \in Nat : p = Pos(m)[j + 1] /\ p = Pos(m)[j] + 2 /\ p <= Len(MakeFrame(m))
          BY <2>1, <2>3, PosFacts, Zenon
        <4>. QED
          BY <1>4, <1>6, <4>1
      <3>. QED
        BY <3>2, <3>4, <3>5, Zenon DEF Goes
    <2>4. CASE Frame(m)[j + 1] \notin {START_TOKEN, ESCAPE_TOKEN}
      <3>1. b = F[j + 1] /\ q + 1 = Pos(m)[j + 1]
        BY <1>1, <1>6, <2>1, <2>4, PosFacts, Zenon
      <3>2. b # ESCAPE_TOKEN
        BY <2>1, <2>4, <3>1
      <3>3. s = OnFrameByte(kept, F[j + 1])
        BY <1>3, <2>2, <3>1, <3>2, Zenon
      <3>4. q + 1 \in Nat
        OBVIOUS
      <3>. QED
        BY <2>1, <2>2, <3>1, <3>3, <3>4, HurtTaken, Zenon
    <2>. QED
      BY <2>3, <2>4, Zenon
  <1>7. ASSUME NEW j \in 1..(Size(m) - 1), i <= j, Hurt(r, m, F, j, TRUE), q = Pos(m)[j] + 1,
               Frame(m)[j + 1] \in {START_TOKEN, ESCAPE_TOKEN}
        PROVE  Goes(s, m, F, i, q + 1)
    <2>1. /\ j \in Nat /\ 1 <= j /\ j < Size(m) /\ i <= j + 1 /\ F[j + 1] = Frame(m)[j + 1]
      BY <1>5, <1>7, Zenon
    <2>2. /\ r.buffer # << >> /\ r.escaping = TRUE
          /\ \A d \in BOOLEAN : Hurt([kept EXCEPT !.escaping = d], m, F, j, d)
      <3>1. TRUE \in BOOLEAN
        OBVIOUS
      <3>. QED
        BY <1>7, <1>8, <3>1, Zenon
    <2>3. b = F[j + 1] /\ q + 1 = Pos(m)[j + 1]
      <3>1. PICK p \in Nat : /\ p = Pos(m)[j] /\ Pos(m)[j + 1] = p + 2
                             /\ MakeFrame(m)[p + 2] = Frame(m)[j + 1]
        BY <1>7, <2>1, PosFacts, ZenonT(30)
      <3>2. q + 1 = p + 2
        BY <1>7, <3>1
      <3>. QED
        BY <1>1, <2>1, <3>1, <3>2, Zenon
    <2>4. s = OnFrameByte([kept EXCEPT !.escaping = FALSE], F[j + 1])
      BY <1>3, <2>2, <2>3, Zenon
    <2>5. Hurt([kept EXCEPT !.escaping = FALSE], m, F, j, FALSE)
      <3>1. FALSE \in BOOLEAN
        OBVIOUS
      <3>. QED
        BY <2>2, <3>1, Zenon
    <2>6. q + 1 \in Nat
      OBVIOUS
    <2>. QED
      BY <2>1, <2>3, <2>4, <2>5, <2>6, HurtTaken, Zenon
  <1>. QED
    BY <1>6, <1>7, Zenon DEF Hurting

(* Where the length field ends on the wire. *)
LEMMA LengthEnds ==
  ASSUME NEW m \in Messages, WellFormed(m)
  PROVE  Pos(m)[Header(m) - 4] = 2 + Len(Escape(LengthField(m)))
  <1>1. PICK h \in {7, 8}, z \in Nat : h = Header(m) /\ z = Size(m) /\ h + 2 <= z
    BY SizeFacts
  <1>2. PICK v \in Seq(Bytes) : v = LengthField(m) /\ Len(v) = h - 6
    BY <1>1, LengthFacts
  <1>3. PICK f \in Seq(Bytes) : f = Frame(m) /\ Len(f) = z
    BY <1>1, FrameBytes, FrameFacts
  <1>4. f[3] = v[1] /\ (h = 8 => f[4] = v[2])
    <2>1. f[3] \in Bytes /\ f[4] \in Bytes /\ v[1] \in Bytes /\ (h = 8 => v[2] \in Bytes)
      <3>1. 3 \in 1..Len(f) /\ 4 \in 1..Len(f) /\ 1 \in 1..Len(v) /\ (h = 8 => 2 \in 1..Len(v))
        BY <1>1, <1>2, <1>3
      <3>. QED
        BY <3>1
    <2>2. IF IsLong(m.cmd) THEN 256 * f[3] + f[4] = 4 + Length(m) ELSE f[3] = 4 + Length(m)
      BY <1>3, FrameFacts, Zenon
    <2>3. IF IsLong(m.cmd) THEN 256 * v[1] + v[2] = 4 + Length(m) ELSE v[1] = 4 + Length(m)
      BY <1>2, LengthFacts, Zenon
    <2>4. CASE IsLong(m.cmd)
      <3>1. h = 8
        BY <1>1, <2>4, Zenon DEF Header
      <3>2. PICK a \in Bytes, b \in Bytes, c \in Bytes, d \in Bytes :
              a = f[3] /\ b = f[4] /\ c = v[1] /\ d = v[2]
        BY <2>1, <3>1
      <3>3. 256 * a + b = 256 * c + d
        BY <2>2, <2>3, <2>4, <3>2, Zenon
      <3>4. a = c /\ b = d
        BY <3>3, SMT DEF Bytes
      <3>. QED
        BY <3>2, <3>4
    <2>5. CASE ~IsLong(m.cmd)
      <3>1. h = 7
        BY <1>1, <2>5, Zenon DEF Header
      <3>. QED
        BY <2>2, <2>3, <2>5, <3>1
    <2>. QED
      BY <2>4, <2>5
  <1>5. f[2] \notin {START_TOKEN, ESCAPE_TOKEN}
    <2>1. f[2] = m.cmd /\ m.cmd \in KnownCommands /\ m.cmd # Extension
      <3>1. f[2] = m.cmd
        BY <1>3, FrameFacts, Zenon
      <3>2. m.cmd \in KnownCommands
        BY StreamAssumption, Zenon
      <3>3. m.cmd # Extension
        BY DEF WellFormed
      <3>. QED
        BY <3>1, <3>2, <3>3, Zenon
    <2>2. m.cmd \in {1, 2, 3, 5, 6, 8}
      BY <2>1, SMT DEF KnownCommands, Read, Write, LongWrite, Response, LongResponse,
                       ReadPeriodically, Extension
    <2>. QED
      BY <2>1, <2>2, SMT DEF START_TOKEN, ESCAPE_TOKEN
  <1>6. PICK e, at : e = Escape(v) /\ IsLayout(at, e, v)
    <2>1. ESCAPE_TOKEN \in Bytes
      BY SMT DEF ESCAPE_TOKEN, Bytes
    <2>. QED
      BY <2>1, EscapeFacts
  <1>7. PICK pos : pos = Pos(m)
    OBVIOUS
  <1>8. /\ pos[1] = 1
        /\ \A j \in 1..(z - 1) : pos[j + 1] = pos[j] + (IF f[j + 1] \in {START_TOKEN, ESCAPE_TOKEN}
                                                        THEN 2 ELSE 1)
    BY <1>1, <1>3, <1>7, WireFacts DEF IsPlaced
  <1>9. pos[2] = 2 /\ pos[3] = 2 + (IF v[1] \in {START_TOKEN, ESCAPE_TOKEN} THEN 2 ELSE 1)
    <2>1. 1 \in 1..(z - 1) /\ 2 \in 1..(z - 1)
      BY <1>1
    <2>2. pos[1 + 1] = 1 + 1
      BY <1>5, <1>8, <2>1
    <2>3. pos[2 + 1] = pos[2] + (IF f[2 + 1] \in {START_TOKEN, ESCAPE_TOKEN} THEN 2 ELSE 1)
      BY <1>8, <2>1
    <2>. QED
      BY <1>4, <2>2, <2>3
  <1>10. at[0] = 0 /\ at[1] = (IF v[1] \in {START_TOKEN, ESCAPE_TOKEN} THEN 2 ELSE 1)
         /\ at[h - 6] = Len(e)
    <2>1. 1 \in 1..Len(v) /\ 1 - 1 = 0
      BY <1>1, <1>2
    <2>. QED
      BY <1>2, <1>6, <2>1 DEF IsLayout
  <1>11. CASE h = 7
    BY <1>1, <1>2, <1>6, <1>7, <1>9, <1>10, <1>11
  <1>12. CASE h = 8
    <2>1. pos[3 + 1] = pos[3] + (IF f[3 + 1] \in {START_TOKEN, ESCAPE_TOKEN} THEN 2 ELSE 1)
      <3>1. 3 \in 1..(z - 1)
        BY <1>1
      <3>. QED
        BY <1>8, <3>1
    <2>2. at[2] = at[1] + (IF v[2] \in {START_TOKEN, ESCAPE_TOKEN} THEN 2 ELSE 1)
      <3>1. 2 \in 1..Len(v) /\ 2 - 1 = 1
        BY <1>2, <1>12
      <3>. QED
        BY <1>6, <3>1 DEF IsLayout
    <2>3. pos[4] = 2 + at[2]
      BY <1>4, <1>9, <1>10, <1>12, <2>1, <2>2
    <2>. QED
      BY <1>1, <1>2, <1>6, <1>7, <1>10, <1>12, <2>3
  <1>. QED
    BY <1>1, <1>11, <1>12

(* A byte that lies behind the length field on the wire does so in the      *)
(* frame.                                                                   *)
LEMMA BehindLength ==
  ASSUME NEW m \in Messages, WellFormed(m), NEW j \in Nat, 1 <= j, j < Size(m),
         NEW q \in Nat, q = Pos(m)[j + 1], q > 2 + Len(Escape(LengthField(m)))
  PROVE  Header(m) - 4 < j + 1
  <1>1. PICK h \in {7, 8}, z \in Nat : h = Header(m) /\ z = Size(m) /\ h + 2 <= z
    BY SizeFacts
  <1>2. PICK pos : pos = Pos(m)
    OBVIOUS
  <1>3. \A k \in 1..(z - 1) : pos[k] \in Nat /\ pos[k + 1] \in Nat /\ pos[k] < pos[k + 1]
    <2>1. \A k \in 1..(z - 1) : k \in Nat /\ 1 <= k /\ k < z
      OBVIOUS
    <2>. QED
      BY <1>1, <1>2, <2>1, PosFacts, Zenon
  <1>4. q = pos[j + 1] /\ q > pos[h - 4]
    BY <1>1, <1>2, LengthEnds
  <1>5. 1 \in 1..(z - 1) /\ 2 \in 1..(z - 1) /\ 3 \in 1..(z - 1)
    BY <1>1
  <1>6. /\ pos[1] \in Nat /\ pos[2] \in Nat /\ pos[3] \in Nat /\ pos[4] \in Nat
        /\ pos[1] < pos[2] /\ pos[2] < pos[3] /\ pos[3] < pos[4]
    <2>1. /\ pos[1] \in Nat /\ pos[1 + 1] \in Nat /\ pos[1] < pos[1 + 1]
          /\ pos[2 + 1] \in Nat /\ pos[2] < pos[2 + 1]
          /\ pos[3 + 1] \in Nat /\ pos[3] < pos[3 + 1]
      BY <1>3, <1>5
    <2>. QED
      BY <2>1
  <1>7. SUFFICES ASSUME j + 1 <= h - 4
                 PROVE  FALSE
    BY <1>1
  <1>8. j + 1 = 2 \/ j + 1 = 3 \/ j + 1 = 4
    BY <1>1, <1>7
  <1>9. h - 4 = 3 \/ h - 4 = 4
    BY <1>1
  <1>10. CASE h - 4 = 3
    <2>1. q > pos[3]
      BY <1>4, <1>10
    <2>2. j + 1 = 2 \/ j + 1 = 3
      BY <1>7, <1>10
    <2>3. q = pos[2] \/ q = pos[3]
      BY <1>4, <2>2
    <2>. QED
      BY <1>6, <2>1, <2>3
  <1>11. CASE h - 4 = 4
    <2>1. q > pos[4]
      BY <1>4, <1>11
    <2>2. q = pos[2] \/ q = pos[3] \/ q = pos[4]
      BY <1>4, <1>8
    <2>. QED
      BY <1>6, <2>1, <2>2
  <1>. QED
    BY <1>9, <1>10, <1>11

(* A read of a byte that is not the one that was written: both are no       *)
(* tokens, and it lies behind the length field.                             *)
Wrong(x, m, q) ==
  /\ q + 1 > 2 + Len(Escape(LengthField(m)))
  /\ x \in Bytes /\ x # MakeFrame(m)[q + 1]
  /\ {x, MakeFrame(m)[q + 1]} \cap {START_TOKEN, ESCAPE_TOKEN} = {}

(* The parser reads the wrong byte. *)
LEMMA HurtStart ==
  ASSUME NEW m \in Messages, WellFormed(m), NEW q \in Nat, q < Len(MakeFrame(m)),
         NEW r, Parsing(r, m, q), NEW x, Wrong(x, m, q), NEW s, s = ConsumeByte(r, x)
  PROVE  \E F, i : IsHurt(F, m, i) /\ Goes(s, m, F, i, q + 1)
  <1>1. x # ESCAPE_TOKEN /\ MakeFrame(m)[q + 1] \notin {START_TOKEN, ESCAPE_TOKEN}
    BY DEF Wrong
  <1>2. PICK l \in Nat : l = Len(Escape(LengthField(m)))
    <2>1. Escape(LengthField(m)) \in Seq(Bytes)
      <3>1. ESCAPE_TOKEN \in Bytes
        BY SMT DEF ESCAPE_TOKEN, Bytes
      <3>. QED
        BY <3>1, EscapeFacts, LengthFacts
    <2>. QED
      BY <2>1
  <1>3. q # 0
    BY <1>2 DEF Wrong
  <1>4. PICK j \in 1..(Size(m) - 1) :
          \/ At(r, m, j, FALSE, q) /\ q = Pos(m)[j]
          \/ At(r, m, j, TRUE, q) /\ q = Pos(m)[j] + 1
             /\ Frame(m)[j + 1] \in {START_TOKEN, ESCAPE_TOKEN}
    BY <1>3 DEF Parsing
  <1>5. j \in Nat /\ 1 <= j /\ j < Size(m)
    BY <1>4, SizeFacts
  <1>6. At(r, m, j, FALSE, q) /\ q = Pos(m)[j]
    <2>. SUFFICES ASSUME q = Pos(m)[j] + 1, Frame(m)[j + 1] \in {START_TOKEN, ESCAPE_TOKEN}
                  PROVE  FALSE
      BY <1>4, Zenon
    <2>1. PICK p \in Nat : p = Pos(m)[j] /\ MakeFrame(m)[p + 2] = Frame(m)[j + 1]
      BY <1>5, PosFacts, Zenon
    <2>2. p + 2 = q + 1
      BY <2>1
    <2>. QED
      BY <1>1, <2>1, <2>2, Zenon
  <1>7. Frame(m)[j + 1] \notin {START_TOKEN, ESCAPE_TOKEN}
    BY <1>1, <1>5, <1>6, PosFacts, Zenon
  <1>8. q + 1 = Pos(m)[j + 1] /\ MakeFrame(m)[q + 1] = Frame(m)[j + 1]
    BY <1>5, <1>6, <1>7, PosFacts, Zenon
  <1>9. PICK F : F = [Frame(m) EXCEPT ![j + 1] = x]
    OBVIOUS
  <1>10. q + 1 \in Nat /\ j + 1 \in Nat /\ j + 1 <= Size(m) /\ j + 1 <= j + 1
    BY <1>5, SizeFacts
  <1>11. IsHurt(F, m, j + 1)
    <2>1. q + 1 > 2 + Len(Escape(LengthField(m))) /\ x \in Bytes /\ x # MakeFrame(m)[q + 1]
      BY DEF Wrong
    <2>2. Header(m) - 4 < j + 1
      BY <1>5, <1>8, <1>10, <2>1, BehindLength, Zenon
    <2>. QED
      BY <1>8, <1>9, <1>10, <2>1, <2>2, Zenon DEF IsHurt
  <1>12. PICK h \in {7, 8}, z \in Nat : h = Header(m) /\ z = Size(m) /\ h - 4 < j + 1 /\ j < z
    BY <1>5, <1>11, SizeFacts DEF IsHurt
  <1>13. F \in Seq(Bytes) /\ Len(F) = z /\ \A k \in 1..z : k # j + 1 => F[k] = Frame(m)[k]
    <2>1. PICK n : n = j + 1
      OBVIOUS
    <2>2. IsHurt(F, m, n)
      BY <1>11, <2>1, Zenon
    <2>3. /\ F \in Seq(Bytes) /\ Len(F) = Size(m)
          /\ \A k \in 1..Size(m) : k # n => F[k] = Frame(m)[k]
      BY <2>2, HurtFacts
    <2>. QED
      BY <1>12, <2>1, <2>3, Zenon
  <1>14. SubSeq(Frame(m), 1, j) = SubSeq(F, 1, j)
    <2>1. PICK f \in Seq(Bytes) : f = Frame(m) /\ Len(f) = z
      BY <1>12, FrameBytes, FrameFacts
    <2>2. /\ 1 \in Nat /\ 1 <= 1 /\ j <= Len(f) /\ j <= Len(F)
          /\ \A k \in 1..j : k \in 1..z /\ k # j + 1
      BY <1>5, <1>12, <1>13, <2>1
    <2>3. \A k \in 1..j : f[k] = F[k]
      BY <1>13, <2>1, <2>2, Zenon
    <2>4. SubSeq(f, 1, j) = SubSeq(F, 1, j)
      BY <1>5, <1>13, <2>2, <2>3, SamePart
    <2>. QED
      BY <2>1, <2>4
  <1>15. /\ DOMAIN r = Fields /\ r.escaping = FALSE /\ r.buffer = SubSeq(F, 1, j)
         /\ r.command = m.cmd /\ r.headerLength = Header(m)
         /\ r.frameLength = (IF j < Header(m) THEN 0 ELSE Size(m))
    <2>1. j # 1
      BY <1>12
    <2>. QED
      BY <1>6, <1>14, <2>1, Zenon DEF At
  <1>16. r.buffer # << >>
    <2>1. Len(SubSeq(F, 1, j)) = j
      <3>1. j <= Len(F)
        BY <1>12, <1>13
      <3>. QED
        BY <1>5, <1>13, <3>1, PrefixFacts
    <2>2. Len(<< >>) = 0 /\ j # 0
      BY <1>5
    <2>. QED
      BY <1>15, <2>1, <2>2
  <1>17. PICK y : y = Append(r.raw, x)
    OBVIOUS
  <1>18. PICK kept : kept = [r EXCEPT !.raw = y]
    OBVIOUS
  <1>19. Hurt(kept, m, F, j, FALSE)
    <2>1. /\ DOMAIN kept = Fields /\ kept.escaping = r.escaping /\ kept.buffer = r.buffer
          /\ kept.command = r.command /\ kept.headerLength = r.headerLength
          /\ kept.frameLength = r.frameLength
      BY <1>15, <1>18, Zenon DEF Fields
    <2>. QED
      BY <1>15, <2>1, Zenon DEF Hurt
  <1>20. s = OnFrameByte(kept, x)
    BY <1>1, <1>15, <1>16, <1>17, <1>18, Zenon DEF ConsumeByte
  <1>21. F[j + 1] = x
    <2>1. PICK f \in Seq(Bytes) : f = Frame(m) /\ Len(f) = z
      BY <1>12, FrameBytes, FrameFacts
    <2>2. j + 1 \in 1..Len(f)
      BY <1>5, <1>12, <2>1
    <2>. QED
      BY <1>9, <2>1, <2>2
  <1>22. s = OnFrameByte(kept, F[j + 1])
    BY <1>20, <1>21, Zenon
  <1>23. Goes(s, m, F, j + 1, q + 1)
    <2>1. PICK n \in Nat : n = q + 1
      BY <1>10
    <2>2. PICK i : i = j + 1
      OBVIOUS
    <2>3. IsHurt(F, m, i) /\ i <= j + 1 /\ n = Pos(m)[j + 1]
      BY <1>8, <1>10, <1>11, <2>1, <2>2, Zenon
    <2>4. Goes(s, m, F, i, n)
      BY <1>5, <1>19, <1>22, <2>3, HurtTaken, Zenon
    <2>. QED
      BY <2>1, <2>2, <2>4, Zenon
  <1>. QED
    BY <1>11, <1>23, Zenon

-----------------------------------------------------------------------------
(* The stream.                                                             *)

(* The offsets after each frame. *)
AreEnds(f, msgs, n) ==
  f = [k \in 0..n |-> IF k = 0 THEN 0 ELSE f[k-1] + Len(Wire[msgs[k]])]

(* There is such a sequence after each frame. *)
LEMMA EndsExist ==
  ASSUME NEW msgs, NEW n \in Nat
  PROVE  \E f : AreEnds(f, msgs, n)
  <1>. DEFINE T == {j \in Nat : \E f : AreEnds(f, msgs, j)}
  <1>1. 0 \in T
    <2>1. PICK f : f = [k \in 0..0 |-> 0]
      OBVIOUS
    <2>2. \A k \in 0..0 : k = 0
      OBVIOUS
    <2>3. f = [k \in 0..0 |-> IF k = 0 THEN 0 ELSE f[k-1] + Len(Wire[msgs[k]])]
      BY <2>1, <2>2
    <2>. QED
      BY <2>3 DEF AreEnds
  <1>2. ASSUME NEW j \in T
        PROVE  j + 1 \in T
    <2>1. PICK f : AreEnds(f, msgs, j)
      OBVIOUS
    <2>2. PICK g : g = [k \in 0..(j + 1) |-> IF k = j + 1 THEN f[j] + Len(Wire[msgs[j + 1]])
                                             ELSE f[k]]
      OBVIOUS
    <2>3. /\ \A k \in 0..(j + 1) : k # j + 1 => k \in 0..j
          /\ \A k \in 0..(j + 1) : k # 0 => k - 1 \in 0..(j + 1) /\ k - 1 # j + 1
          /\ (j + 1) - 1 = j /\ j + 1 # 0 /\ j \in 0..j /\ j # j + 1 /\ j \in 0..(j + 1)
      OBVIOUS
    <2>4. ASSUME NEW k \in 0..(j + 1)
          PROVE  g[k] = IF k = 0 THEN 0 ELSE g[k-1] + Len(Wire[msgs[k]])
      <3>1. CASE k = j + 1
        BY <2>2, <2>3, <3>1
      <3>2. CASE k # j + 1
        <4>1. g[k] = f[k] /\ k \in 0..j
          BY <2>2, <2>3, <3>2
        <4>2. f[k] = IF k = 0 THEN 0 ELSE f[k-1] + Len(Wire[msgs[k]])
          BY <2>1, <4>1 DEF AreEnds
        <4>3. k # 0 => g[k - 1] = f[k - 1]
          BY <2>2, <2>3
        <4>. QED
          BY <4>1, <4>2, <4>3
      <3>. QED
        BY <3>1, <3>2
    <2>5. AreEnds(g, msgs, j + 1)
      BY <2>2, <2>4 DEF AreEnds
    <2>. QED
      BY <2>5
  <1>3. T = Nat
    <2>. HIDE DEF T
    <2>1. T \in SUBSET Nat
      BY DEF T
    <2>. QED
      BY <1>1, <1>2, <2>1, InductionSet
  <1>. QED
    BY <1>3

(* The bytes after each frame. *)
AreBytes(f, msgs, n) ==
  f = [k \in 0..n |-> IF k = 0 THEN << >> ELSE f[k-1] \o Wire[msgs[k]]]

(* There is such a sequence after each frame. *)
LEMMA BytesExist ==
  ASSUME NEW msgs, NEW n \in Nat
  PROVE  \E f : AreBytes(f, msgs, n)
  <1>. DEFINE T == {j \in Nat : \E f : AreBytes(f, msgs, j)}
  <1>1. 0 \in T
    <2>1. PICK f : f = [k \in 0..0 |-> << >>]
      OBVIOUS
    <2>2. \A k \in 0..0 : k = 0
      OBVIOUS
    <2>3. f = [k \in 0..0 |-> IF k = 0 THEN << >> ELSE f[k-1] \o Wire[msgs[k]]]
      BY <2>1, <2>2
    <2>. QED
      BY <2>3 DEF AreBytes
  <1>2. ASSUME NEW j \in T
        PROVE  j + 1 \in T
    <2>1. PICK f : AreBytes(f, msgs, j)
      OBVIOUS
    <2>2. PICK g : g = [k \in 0..(j + 1) |-> IF k = j + 1 THEN f[j] \o Wire[msgs[j + 1]]
                                             ELSE f[k]]
      OBVIOUS
    <2>3. /\ \A k \in 0..(j + 1) : k # j + 1 => k \in 0..j
          /\ \A k \in 0..(j + 1) : k # 0 => k - 1 \in 0..(j + 1) /\ k - 1 # j + 1
          /\ (j + 1) - 1 = j /\ j + 1 # 0 /\ j \in 0..j /\ j # j + 1 /\ j \in 0..(j + 1)
      OBVIOUS
    <2>4. ASSUME NEW k \in 0..(j + 1)
          PROVE  g[k] = IF k = 0 THEN << >> ELSE g[k-1] \o Wire[msgs[k]]
      <3>1. CASE k = j + 1
        BY <2>2, <2>3, <3>1
      <3>2. CASE k # j + 1
        <4>1. g[k] = f[k] /\ k \in 0..j
          BY <2>2, <2>3, <3>2
        <4>2. f[k] = IF k = 0 THEN << >> ELSE f[k-1] \o Wire[msgs[k]]
          BY <2>1, <4>1 DEF AreBytes
        <4>3. k # 0 => g[k - 1] = f[k - 1]
          BY <2>2, <2>3
        <4>. QED
          BY <4>1, <4>2, <4>3
      <3>. QED
        BY <3>1, <3>2
    <2>5. AreBytes(g, msgs, j + 1)
      BY <2>2, <2>4 DEF AreBytes
    <2>. QED
      BY <2>5
  <1>3. T = Nat
    <2>. HIDE DEF T
    <2>1. T \in SUBSET Nat
      BY DEF T
    <2>. QED
      BY <1>1, <1>2, <2>1, InductionSet
  <1>. QED
    BY <1>3

Letters == UNION {Alphabet(m) : m \in Messages}

(* The frames lie in the stream one after another. *)
IsStream(ends, bytes, msgs) ==
  /\ bytes \in Seq(Letters)
  /\ ends[0] = 0 /\ ends[FrameCount] = Len(bytes)
  /\ \A k \in 0..FrameCount : ends[k] \in Nat
  /\ \A i, k \in 0..FrameCount : i <= k => ends[i] <= ends[k]
  /\ \A k \in 1..FrameCount :
       /\ ends[k] = ends[k - 1] + Len(Wire[msgs[k]])
       /\ \A i \in 1..Len(Wire[msgs[k]]) : bytes[ends[k - 1] + i] = Wire[msgs[k]][i]

(* The frame of a message is a sequence that is not empty. *)
LEMMA WireSeq ==
  ASSUME \A m \in Messages : WellFormed(m), NEW m \in Messages
  PROVE  /\ Wire[m] = MakeFrame(m) /\ Wire[m] \in Seq(Letters)
         /\ Len(Wire[m]) \in Nat \ {0}
  <1>1. Wire[m] = MakeFrame(m)
    BY DEF Wire
  <1>2. Alphabet(m) \subseteq Letters
    BY DEF Letters
  <1>3. MakeFrame(m) \in Seq(Alphabet(m)) /\ Len(MakeFrame(m)) \in Nat \ {0}
    BY WireFacts
  <1>4. MakeFrame(m) \in Seq(Letters)
    BY <1>2, <1>3
  <1>. QED
    BY <1>1, <1>3, <1>4, Zenon

(* The stream is made of the frames, in their order. *)
LEMMA StreamFacts ==
  ASSUME \A m \in Messages : WellFormed(m), NEW msgs \in Streams
  PROVE  IsStream(Ends[msgs], BytesOf[msgs], msgs)
  <1>1. PICK n \in Nat \ {0} : n = FrameCount
    BY StreamAssumption
  <1>2. PICK f : f = CHOOSE g : AreBytes(g, msgs, n)
    OBVIOUS
  <1>3. PICK e : e = CHOOSE g : AreEnds(g, msgs, n)
    OBVIOUS
  <1>4. f = [k \in 0..n |-> IF k = 0 THEN << >> ELSE f[k-1] \o Wire[msgs[k]]]
    <2>1. AreBytes(f, msgs, n)
      BY <1>2, BytesExist
    <2>. QED
      BY <2>1 DEF AreBytes
  <1>5. e = [k \in 0..n |-> IF k = 0 THEN 0 ELSE e[k-1] + Len(Wire[msgs[k]])]
    <2>1. AreEnds(e, msgs, n)
      BY <1>3, EndsExist
    <2>. QED
      BY <2>1 DEF AreEnds
  <1>6. BytesOf[msgs] = f[n]
    BY <1>1, <1>2 DEF BytesOf, AreBytes
  <1>7. Ends[msgs] = [k \in 0..n |-> e[k]]
    BY <1>1, <1>3 DEF Ends, AreEnds
  <1>8. /\ f[0] = << >> /\ \A k \in 1..n : f[k] = f[k - 1] \o Wire[msgs[k]]
        /\ e[0] = 0 /\ \A k \in 1..n : e[k] = e[k - 1] + Len(Wire[msgs[k]])
    <2>1. 0 \in 0..n /\ \A k \in 1..n : k \in 0..n /\ k # 0
      OBVIOUS
    <2>. QED
      BY <1>4, <1>5, <2>1
  <1>9. \A k \in 1..n : Wire[msgs[k]] \in Seq(Letters) /\ Len(Wire[msgs[k]]) \in Nat
    <2>1. \A k \in 1..n : msgs[k] \in Messages
      BY <1>1 DEF Streams
    <2>. QED
      BY <2>1, WireSeq
  <1>10. ASSUME NEW k \in 1..n, f[k - 1] \in Seq(Letters)
         PROVE  f[k] \in Seq(Letters) /\ Begins(f[k - 1], f[k])
    <2>1. PICK s \in Seq(Letters), p \in Seq(Letters) : s = f[k - 1] /\ p = Wire[msgs[k]]
      BY <1>9, <1>10
    <2>2. s \o p \in Seq(Letters) /\ Begins(s, s \o p)
      BY DEF Begins
    <2>3. f[k] = s \o p
      BY <1>8, <2>1, Zenon
    <2>. QED
      BY <2>1, <2>2, <2>3, Zenon
  <1>11. ASSUME NEW r, NEW s, NEW t, r \in Seq(Letters), s \in Seq(Letters),
                t \in Seq(Letters), Begins(r, s), Begins(s, t)
         PROVE  Begins(r, t)
    BY <1>11 DEF Begins
  <1>. DEFINE T == {j \in Nat : j <= n => /\ e[j] = Len(f[j])
                                          /\ \A k \in 0..j : /\ f[k] \in Seq(Letters)
                                                             /\ Begins(f[k], f[j])}
  <1>12. T = Nat
    <2>1. 0 \in T
      <3>1. << >> \in Seq(Letters) /\ Begins(<< >>, << >>) /\ Len(<< >>) = 0
        BY DEF Begins
      <3>2. \A k \in 0..0 : k = 0
        OBVIOUS
      <3>. QED
        BY <1>8, <3>1, <3>2
    <2>2. ASSUME NEW j \in T
          PROVE  j + 1 \in T
      <3>1. SUFFICES ASSUME j + 1 <= n
                     PROVE  /\ e[j + 1] = Len(f[j + 1])
                            /\ \A k \in 0..(j + 1) : /\ f[k] \in Seq(Letters)
                                                     /\ Begins(f[k], f[j + 1])
        OBVIOUS
      <3>2. /\ j \in Nat /\ j <= n /\ j \in 0..j /\ j + 1 \in 1..n /\ (j + 1) - 1 = j
            /\ \A k \in 0..(j + 1) : k = j + 1 \/ k \in 0..j
        BY <1>1, <3>1
      <3>3. f[j] \in Seq(Letters) /\ e[j] = Len(f[j])
        BY <2>2, <3>2
      <3>4. f[j + 1] \in Seq(Letters) /\ Begins(f[j], f[j + 1])
        BY <1>10, <3>2, <3>3
      <3>5. Begins(f[j + 1], f[j + 1])
        BY <3>4 DEF Begins
      <3>6. \A k \in 0..j : f[k] \in Seq(Letters) /\ Begins(f[k], f[j])
        BY <2>2, <3>2
      <3>7. \A k \in 0..(j + 1) : f[k] \in Seq(Letters) /\ Begins(f[k], f[j + 1])
        BY <1>11, <3>2, <3>3, <3>4, <3>5, <3>6
      <3>8. e[j + 1] = Len(f[j + 1])
        <4>1. f[j + 1] = f[j] \o Wire[msgs[j + 1]] /\ e[j + 1] = e[j] + Len(Wire[msgs[j + 1]])
          BY <1>8, <3>2
        <4>2. Len(f[j] \o Wire[msgs[j + 1]]) = Len(f[j]) + Len(Wire[msgs[j + 1]])
          BY <1>9, <3>2, <3>3, ConcatFacts
        <4>. QED
          BY <3>3, <4>1, <4>2
      <3>. QED
        BY <3>7, <3>8
    <2>. HIDE DEF T
    <2>3. T \in SUBSET Nat
      BY DEF T
    <2>. QED
      BY <2>1, <2>2, <2>3, InductionSet
  <1>13. \A j \in 0..n : /\ e[j] = Len(f[j]) /\ f[j] \in Seq(Letters)
                         /\ \A k \in 0..j : Begins(f[k], f[j])
    <2>1. \A j \in 0..n : j \in Nat /\ j <= n /\ j \in 0..j
      OBVIOUS
    <2>. QED
      BY <1>12, <2>1
  <1>14. PICK b \in Seq(Letters) : b = f[n]
    <2>1. n \in 0..n
      OBVIOUS
    <2>. QED
      BY <1>13, <2>1
  <1>15. PICK ends : ends = Ends[msgs] /\ \A k \in 0..n : ends[k] = Len(f[k])
    BY <1>7, <1>13
  <1>16. ends[0] = 0 /\ ends[n] = Len(b)
    <2>1. 0 \in 0..n /\ n \in 0..n /\ Len(<< >>) = 0
      OBVIOUS
    <2>. QED
      BY <1>8, <1>14, <1>15, <2>1
  <1>17. \A k \in 0..n : ends[k] \in Nat
    <2>1. \A s \in Seq(Letters) : Len(s) \in Nat
      OBVIOUS
    <2>. QED
      BY <1>13, <1>15, <2>1
  <1>18. \A i, k \in 0..n : i <= k => ends[i] <= ends[k]
    <2>1. \A i, k \in 0..n : i <= k => i \in 0..k
      OBVIOUS
    <2>. QED
      BY <1>13, <1>15, <2>1 DEF Begins
  <1>19. ASSUME NEW k \in 1..n
         PROVE  /\ ends[k] = ends[k - 1] + Len(Wire[msgs[k]])
                /\ \A i \in 1..Len(Wire[msgs[k]]) : b[ends[k - 1] + i] = Wire[msgs[k]][i]
    <2>1. k \in 0..n /\ k - 1 \in 0..n /\ n \in 0..n /\ k \in 0..n
      OBVIOUS
    <2>2. PICK s \in Seq(Letters), p \in Seq(Letters) : s = f[k - 1] /\ p = Wire[msgs[k]]
      BY <1>9, <1>13, <2>1
    <2>3. PICK t \in Seq(Letters) : t = s \o p /\ t = f[k]
      <3>1. s \o p \in Seq(Letters)
        OBVIOUS
      <3>2. f[k] = s \o p
        BY <1>8, <2>2, Zenon
      <3>. QED
        BY <3>1, <3>2, Zenon
    <2>4. /\ Len(t) = Len(s) + Len(p) /\ Len(s) \in Nat /\ Len(p) \in Nat
          /\ \A i \in 1..Len(p) : t[Len(s) + i] = p[i]
      <3>1. Len(s) \in Nat /\ Len(p) \in Nat
        OBVIOUS
      <3>2. /\ Len(s \o p) = Len(s) + Len(p)
            /\ \A i \in 1..Len(p) : (s \o p)[Len(s) + i] = p[i]
        BY ConcatFacts
      <3>. QED
        BY <2>3, <3>1, <3>2, Zenon
    <2>5. \A i \in 1..Len(t) : b[i] = t[i]
      BY <1>13, <1>14, <2>1, <2>3 DEF Begins
    <2>6. ends[k] = Len(t) /\ ends[k - 1] = Len(s)
      BY <1>15, <2>1, <2>2, <2>3
    <2>7. ASSUME NEW i \in 1..Len(p)
          PROVE  b[Len(s) + i] = p[i]
      <3>1. Len(s) + i \in 1..Len(t)
        BY <2>4
      <3>. QED
        BY <2>4, <2>5, <3>1
    <2>. QED
      BY <2>2, <2>4, <2>6, <2>7
  <1>. QED
    BY <1>1, <1>6, <1>14, <1>15, <1>16, <1>17, <1>18, <1>19, ZenonT(40) DEF IsStream

-----------------------------------------------------------------------------
(* The damage.                                                             *)

Longer(f) == CASE f.kind = "drop" -> -1
               [] f.kind = "duplicate" -> 1
               [] OTHER -> 0

(* In front of a both have the same elements. *)
SameBefore(d, b, a) == \A i \in 1..Len(b) : i < a => d[i] = b[i]

(* A sequence without one of its elements. *)
LEMMA DropFacts ==
  ASSUME NEW S, NEW b \in Seq(S), NEW a \in 1..Len(b),
         NEW d, d = SubSeq(b, 1, a - 1) \o SubSeq(b, a + 1, Len(b))
  PROVE  /\ d \in Seq(S) /\ Len(d) = Len(b) - 1
         /\ SameBefore(d, b, a)
  <1>1. \A j \in 1..(Len(b) - 1) : j < a => d[j] = b[j]
    BY CutFacts
  <1>2. d \in Seq(S) /\ Len(d) = Len(b) - 1
    BY CutFacts
  <1>3. \A i \in 1..Len(b) : i < a => i \in 1..(Len(b) - 1)
    OBVIOUS
  <1>. QED
    BY <1>1, <1>2, <1>3 DEF SameBefore

(* A sequence with one of its elements twice. *)
LEMMA DuplicateFacts ==
  ASSUME NEW S, NEW b \in Seq(S), NEW a \in 1..Len(b),
         NEW d, d = SubSeq(b, 1, a) \o SubSeq(b, a, Len(b))
  PROVE  /\ d \in Seq(S) /\ Len(d) = Len(b) + 1
         /\ SameBefore(d, b, a)
  <1>1. PICK s \in Seq(S) : /\ s = SubSeq(b, 1, a) /\ Len(s) = a
                            /\ \A i \in 1..a : s[i] = b[i]
    <2>1. a \in Nat /\ a <= Len(b)
      OBVIOUS
    <2>2. /\ SubSeq(b, 1, a) \in Seq(S) /\ Len(SubSeq(b, 1, a)) = a
          /\ \A i \in 1..a : SubSeq(b, 1, a)[i] = b[i]
      BY <2>1, PrefixFacts, Zenon
    <2>. QED
      BY <2>2, Zenon
  <1>2. PICK t \in Seq(S) : t = SubSeq(b, a, Len(b)) /\ Len(t) = Len(b) - a + 1
    <2>1. PICK n \in Nat : n = Len(b)
      OBVIOUS
    <2>2. \A i \in a..n : b[i] \in S
      BY <2>1
    <2>3. SubSeq(b, a, n) \in Seq(S) /\ Len(SubSeq(b, a, n)) = n - a + 1
      BY <2>1, <2>2
    <2>. QED
      BY <2>1, <2>3
  <1>3. /\ s \o t \in Seq(S) /\ Len(s \o t) = Len(s) + Len(t)
        /\ \A i \in 1..Len(s) : (s \o t)[i] = s[i]
    BY ConcatFacts
  <1>4. d = s \o t
    BY <1>1, <1>2
  <1>5. Len(d) = Len(b) + 1
    BY <1>1, <1>2, <1>3, <1>4
  <1>6. \A i \in 1..Len(b) : i < a => i \in 1..a
    OBVIOUS
  <1>. QED
    BY <1>1, <1>3, <1>4, <1>5, <1>6 DEF SameBefore

(* The bytes in front of the damage are those that were written. *)
LEMMA DamagedFacts ==
  ASSUME NEW S, FlipBytes \subseteq S, NEW b \in Seq(S), NEW f \in FaultsOf(Len(b))
  PROVE  /\ Damaged(b, f) \in Seq(S) /\ Len(Damaged(b, f)) = Len(b) + Longer(f)
         /\ f.kind # "none" => f.at \in 1..Len(b)
         /\ \A i \in 1..Len(b) : f.kind = "none" \/ i < f.at => Damaged(b, f)[i] = b[i]
         /\ f.kind = "none" => Longer(f) = 0
  <1>1. \/ f.kind = "none"
        \/ f.kind = "flip" /\ f.at \in 1..Len(b) /\ f.byte \in FlipBytes
        \/ f.kind = "drop" /\ f.at \in 1..Len(b)
        \/ f.kind = "duplicate" /\ f.at \in 1..Len(b)
    BY DEF FaultsOf
  <1>2. CASE f.kind = "none"
    <2>1. Damaged(b, f) = b /\ Longer(f) = 0
      BY <1>2, Zenon DEF Damaged, Longer
    <2>2. Len(b) + 0 = Len(b)
      OBVIOUS
    <2>. QED
      BY <1>2, <2>1, <2>2, Zenon
  <1>3. CASE f.kind = "flip" /\ f.at \in 1..Len(b) /\ f.byte \in FlipBytes
    <2>1. PICK a \in 1..Len(b), x \in S : a = f.at /\ x = f.byte
      BY <1>3
    <2>2. f.kind # "none" /\ f.kind # "drop" /\ f.kind # "duplicate"
      BY <1>3
    <2>3. Damaged(b, f) = [b EXCEPT ![a] = x] /\ Longer(f) = 0
      BY <1>3, <2>1, <2>2, Zenon DEF Damaged, Longer
    <2>4. PICK d : d = [b EXCEPT ![a] = x]
      OBVIOUS
    <2>5. d \in Seq(S) /\ Len(d) = Len(b) + 0 /\ SameBefore(d, b, a)
      BY <2>4 DEF SameBefore
    <2>. QED
      BY <2>1, <2>2, <2>3, <2>4, <2>5, Zenon DEF SameBefore
  <1>4. CASE f.kind = "drop" /\ f.at \in 1..Len(b)
    <2>1. PICK a \in 1..Len(b) : a = f.at
      BY <1>4
    <2>2. f.kind # "none" /\ f.kind # "flip" /\ f.kind # "duplicate"
      BY <1>4
    <2>3. PICK d : d = SubSeq(b, 1, a - 1) \o SubSeq(b, a + 1, Len(b))
      OBVIOUS
    <2>4. Damaged(b, f) = d /\ Longer(f) = -1
      BY <1>4, <2>1, <2>2, <2>3, Zenon DEF Damaged, Longer
    <2>5. d \in Seq(S) /\ Len(d) = Len(b) - 1 /\ SameBefore(d, b, a)
      BY <2>3, DropFacts
    <2>6. Len(b) - 1 = Len(b) + (-1)
      OBVIOUS
    <2>. QED
      BY <2>1, <2>2, <2>4, <2>5, <2>6, Zenon DEF SameBefore
  <1>5. CASE f.kind = "duplicate" /\ f.at \in 1..Len(b)
    <2>1. PICK a \in 1..Len(b) : a = f.at
      BY <1>5
    <2>2. f.kind # "none" /\ f.kind # "flip" /\ f.kind # "drop"
      BY <1>5
    <2>3. PICK d : d = SubSeq(b, 1, a) \o SubSeq(b, a, Len(b))
      OBVIOUS
    <2>4. Damaged(b, f) = d /\ Longer(f) = 1
      BY <1>5, <2>1, <2>2, <2>3, Zenon DEF Damaged, Longer
    <2>5. d \in Seq(S) /\ Len(d) = Len(b) + 1 /\ SameBefore(d, b, a)
      BY <2>3, DuplicateFacts
    <2>. QED
      BY <2>1, <2>2, <2>4, <2>5, Zenon DEF SameBefore
  <1>. QED
    BY <1>1, <1>2, <1>3, <1>4, <1>5

-----------------------------------------------------------------------------
(* The session, byte by byte.                                              *)

Loop == {"rx", "out", "alive"}

IsList(s) == \E S : s \in Seq(S)

IsAlive(s) == s.alive = TRUE

(* The loop goes from s to t with the parser r left by the byte: nothing is *)
(* handed on, or the frame is.                                              *)
Kept(s, t, r)   == IsAlive(t) /\ t.rx = r /\ t.out = s.out
Handed(s, t, r) == IsAlive(t) /\ t.rx = NewReceiveFrame /\ t.out = Append(s.out, Delivered(r))

(* A list of frames keeps its frames when one is added. *)
LEMMA ListFacts ==
  ASSUME NEW s, IsList(s), NEW x
  PROVE  /\ IsList(Append(s, x)) /\ Len(s) \in Nat /\ Len(Append(s, x)) = Len(s) + 1
         /\ \A i \in 1..Len(s) : Append(s, x)[i] = s[i]
         /\ Append(s, x)[Len(s) + 1] = x
  <1>1. PICK S : s \in Seq(S)
    BY DEF IsList
  <1>2. PICK T : T = S \cup {x}
    OBVIOUS
  <1>3. s \in Seq(T) /\ x \in T
    BY <1>1, <1>2
  <1>4. /\ Append(s, x) \in Seq(T) /\ Len(Append(s, x)) = Len(s) + 1
        /\ \A i \in 1..Len(s) : Append(s, x)[i] = s[i]
        /\ Append(s, x)[Len(s) + 1] = x
    BY <1>3, AppendFacts
  <1>5. Len(s) \in Nat
    BY <1>1
  <1>. QED
    BY <1>4, <1>5 DEF IsList

(* A byte has one of the outcomes the loop knows. *)
LEMMA OutcomeFacts ==
  ASSUME NEW r, NEW b
  PROVE  ConsumeByte(r, b).outcome \in Outcomes
  <1>1. ASSUME NEW x, NEW o \in Outcomes, NEW y, y = [rx |-> x, outcome |-> o]
        PROVE  y.outcome \in Outcomes
    BY <1>1
  <1>2. /\ "more" \in Outcomes /\ "complete" \in Outcomes /\ "panic" \in Outcomes
        /\ "InvalidCommand" \in Outcomes /\ "FrameCrcMismatch" \in Outcomes
        /\ "FrameLengthExceeded" \in Outcomes
    BY DEF Outcomes, FrameErrors
  <1>3. ASSUME NEW g, NEW c
        PROVE  OnCommandByte(g, c).outcome \in Outcomes
    BY <1>1, <1>2, Zenon DEF OnCommandByte
  <1>4. ASSUME NEW g
        PROVE  OnHeader(g).outcome \in Outcomes
    BY <1>1, <1>2, Zenon DEF OnHeader
  <1>5. ASSUME NEW g
        PROVE  OnLastByte(g).outcome \in Outcomes
    BY <1>1, <1>2, Zenon DEF OnLastByte
  <1>6. ASSUME NEW g, NEW c
        PROVE  OnFrameByte(g, c).outcome \in Outcomes
    BY <1>1, <1>2, <1>3, <1>4, <1>5, Zenon DEF OnFrameByte
  <1>. QED
    BY <1>1, <1>2, <1>6, Zenon DEF ConsumeByte

(* The loop only ever adds to the frames it handed on. *)
LEMMA LoopFacts ==
  ASSUME NEW s, DOMAIN s = Loop, IsList(s.out), NEW b, NEW t, t = FeedByte(s, b)
  PROVE  DOMAIN t = Loop /\ IsList(t.out) /\ Begins(s.out, t.out)
  <1>. DEFINE c == ConsumeByte(s.rx, b)
  <1>1. c.outcome \in Outcomes
    BY OutcomeFacts
  <1>2. Len(s.out) \in Nat
    BY ListFacts
  <1>3. ASSUME t.out = s.out
        PROVE  IsList(t.out) /\ Begins(s.out, t.out)
    BY <1>2, <1>3 DEF Begins
  <1>4. ASSUME NEW x, t.out = Append(s.out, x)
        PROVE  IsList(t.out) /\ Begins(s.out, t.out)
    <2>1. /\ IsList(Append(s.out, x)) /\ Len(Append(s.out, x)) = Len(s.out) + 1
          /\ \A i \in 1..Len(s.out) : Append(s.out, x)[i] = s.out[i]
      BY ListFacts
    <2>2. Len(s.out) <= Len(s.out) + 1
      BY <1>2
    <2>. QED
      BY <1>4, <2>1, <2>2 DEF Begins
  <1>5. CASE ~s.alive
    <2>1. t = s
      BY <1>5, Zenon DEF FeedByte
    <2>. QED
      BY <1>3, <2>1
  <1>6. CASE s.alive /\ c.outcome = "more"
    <2>1. c.outcome # "complete" /\ c.outcome # "panic" /\ c.outcome \notin FrameErrors
      BY <1>6 DEF FrameErrors
    <2>2. t = [s EXCEPT !.rx = c.rx]
      BY <1>6, <2>1, Zenon DEF FeedByte
    <2>3. DOMAIN t = Loop /\ t.out = s.out
      BY <2>2, Zenon DEF Loop
    <2>. QED
      BY <1>3, <2>3
  <1>7. CASE s.alive /\ c.outcome = "complete"
    <2>1. c.outcome # "more" /\ c.outcome # "panic" /\ c.outcome \notin FrameErrors
      BY <1>7 DEF FrameErrors
    <2>2. t = [s EXCEPT !.rx = NewReceiveFrame, !.out = Append(@, Delivered(c.rx))]
      BY <1>7, <2>1, Zenon DEF FeedByte
    <2>3. DOMAIN t = Loop /\ t.out = Append(s.out, Delivered(c.rx))
      BY <2>2, Zenon DEF Loop
    <2>. QED
      BY <1>4, <2>3
  <1>8. CASE s.alive /\ c.outcome \in FrameErrors
    <2>1. c.outcome # "more" /\ c.outcome # "complete" /\ c.outcome # "panic"
      BY <1>8 DEF FrameErrors
    <2>2. t = [s EXCEPT !.rx = NewReceiveFrame]
      BY <1>8, <2>1, Zenon DEF FeedByte
    <2>3. DOMAIN t = Loop /\ t.out = s.out
      BY <2>2, Zenon DEF Loop
    <2>. QED
      BY <1>3, <2>3
  <1>9. CASE s.alive /\ c.outcome = "panic"
    <2>1. c.outcome # "more" /\ c.outcome # "complete" /\ c.outcome \notin FrameErrors
      BY <1>9 DEF FrameErrors
    <2>2. t = [s EXCEPT !.alive = FALSE]
      BY <1>9, <2>1, Zenon DEF FeedByte
    <2>3. DOMAIN t = Loop /\ t.out = s.out
      BY <2>2, Zenon DEF Loop
    <2>. QED
      BY <1>3, <2>3
  <1>. QED
    BY <1>1, <1>5, <1>6, <1>7, <1>8, <1>9 DEF Outcomes

(* A byte that leaves the parser wanting more hands nothing on. *)
LEMMA LoopMore ==
  ASSUME NEW s, DOMAIN s = Loop, IsAlive(s), NEW b, NEW t, t = FeedByte(s, b),
         NEW c, c = ConsumeByte(s.rx, b), c.outcome = "more"
  PROVE  Kept(s, t, c.rx)
  <1>1. c.outcome # "complete" /\ c.outcome # "panic" /\ c.outcome \notin FrameErrors
    BY DEF FrameErrors
  <1>2. s.alive = TRUE
    BY DEF IsAlive
  <1>3. t = [s EXCEPT !.rx = c.rx]
    BY <1>1, <1>2, Zenon DEF FeedByte
  <1>4. t.out = s.out /\ t.rx = c.rx /\ t.alive = s.alive
    BY <1>3, Zenon DEF Loop
  <1>. QED
    BY <1>2, <1>4 DEF IsAlive, Kept

(* A byte that completes a frame hands it on, and a new parser takes over.  *)
LEMMA LoopComplete ==
  ASSUME NEW s, DOMAIN s = Loop, IsAlive(s), NEW b, NEW t, t = FeedByte(s, b),
         NEW c, c = ConsumeByte(s.rx, b), c.outcome = "complete"
  PROVE  Handed(s, t, c.rx)
  <1>1. c.outcome # "more" /\ c.outcome # "panic" /\ c.outcome \notin FrameErrors
    BY DEF FrameErrors
  <1>2. s.alive = TRUE
    BY DEF IsAlive
  <1>3. t = [s EXCEPT !.rx = NewReceiveFrame, !.out = Append(@, Delivered(c.rx))]
    BY <1>1, <1>2, Zenon DEF FeedByte
  <1>4. /\ t.out = Append(s.out, Delivered(c.rx)) /\ t.rx = NewReceiveFrame
        /\ t.alive = s.alive
    BY <1>3, Zenon DEF Loop
  <1>. QED
    BY <1>2, <1>4 DEF IsAlive, Handed

(* A byte that makes the parser fail hands nothing on, and a new parser     *)
(* takes over.                                                              *)
LEMMA LoopError ==
  ASSUME NEW s, DOMAIN s = Loop, IsAlive(s), NEW b, NEW t, t = FeedByte(s, b),
         NEW c, c = ConsumeByte(s.rx, b), c.outcome \in FrameErrors
  PROVE  Kept(s, t, NewReceiveFrame)
  <1>1. c.outcome # "more" /\ c.outcome # "complete" /\ c.outcome # "panic"
    BY DEF FrameErrors
  <1>2. s.alive = TRUE
    BY DEF IsAlive
  <1>3. t = [s EXCEPT !.rx = NewReceiveFrame]
    BY <1>1, <1>2, Zenon DEF FeedByte
  <1>4. t.out = s.out /\ t.rx = NewReceiveFrame /\ t.alive = s.alive
    BY <1>3, Zenon DEF Loop
  <1>. QED
    BY <1>2, <1>4 DEF IsAlive, Kept

(* s and z become t and y, and the same was handed on. *)
Alike(s, t, z, y) ==
  /\ IsAlive(t) /\ t.rx = y.rx
  /\ \/ t.out = s.out /\ y.out = z.out
     \/ \E x : t.out = Append(s.out, x) /\ y.out = Append(z.out, x)

(* What the loop does with a byte depends on the parser alone, not on what  *)
(* was handed on before.                                                    *)
LEMMA LoopTwins ==
  ASSUME NEW s, DOMAIN s = Loop, IsAlive(s), NEW z, DOMAIN z = Loop, IsAlive(z),
         s.rx = z.rx, NEW b, NEW t, t = FeedByte(s, b), NEW y, y = FeedByte(z, b), IsAlive(y)
  PROVE  Alike(s, t, z, y)
  <1>1. PICK c : c = ConsumeByte(s.rx, b) /\ c = ConsumeByte(z.rx, b) /\ c.outcome \in Outcomes
    BY OutcomeFacts
  <1>2. CASE c.outcome = "more"
    <2>1. Kept(s, t, c.rx)
      BY <1>1, <1>2, LoopMore, Zenon
    <2>2. Kept(z, y, c.rx)
      BY <1>1, <1>2, LoopMore, Zenon
    <2>. QED
      BY <2>1, <2>2, Zenon DEF Kept, Alike
  <1>3. CASE c.outcome = "complete"
    <2>1. Handed(s, t, c.rx)
      BY <1>1, <1>3, LoopComplete, Zenon
    <2>2. Handed(z, y, c.rx)
      BY <1>1, <1>3, LoopComplete, Zenon
    <2>. QED
      BY <2>1, <2>2, Zenon DEF Handed, Alike
  <1>4. CASE c.outcome \in FrameErrors
    <2>1. Kept(s, t, NewReceiveFrame)
      BY <1>1, <1>4, LoopError, Zenon
    <2>2. Kept(z, y, NewReceiveFrame)
      BY <1>1, <1>4, LoopError, Zenon
    <2>. QED
      BY <2>1, <2>2, Zenon DEF Kept, Alike
  <1>5. CASE c.outcome = "panic"
    <2>1. c.outcome # "more" /\ c.outcome # "complete" /\ c.outcome \notin FrameErrors
      BY <1>5 DEF FrameErrors
    <2>2. z.alive = TRUE /\ y.alive = TRUE
      BY DEF IsAlive
    <2>3. y = [z EXCEPT !.alive = FALSE]
      BY <1>1, <1>5, <2>1, <2>2, Zenon DEF FeedByte
    <2>4. y.alive = FALSE
      BY <2>3, Zenon DEF Loop
    <2>. QED
      BY <2>2, <2>4
  <1>. QED
    BY <1>1, <1>2, <1>3, <1>4, <1>5 DEF Outcomes

(* o is g without its k-th element. *)
Without(o, g, k) ==
  /\ k \in 1..Len(g) /\ Len(g) = Len(o) + 1
  /\ \A i \in 1..Len(o) : o[i] = g[IF i < k THEN i ELSE i + 1]

(* It stays so when both get the same element. *)
LEMMA WithoutFacts ==
  ASSUME NEW o, IsList(o), NEW g, IsList(g), NEW k, NEW x
  PROVE  /\ Without(o, g, k) => Without(Append(o, x), Append(g, x), k)
         /\ k = Len(o) + 1 => Without(o, Append(o, x), k)
  <1>1. PICK n \in Nat : /\ n = Len(o) /\ Len(Append(o, x)) = n + 1
                         /\ \A i \in 1..n : Append(o, x)[i] = o[i]
                         /\ Append(o, x)[n + 1] = x
    BY ListFacts
  <1>2. PICK l \in Nat : /\ l = Len(g) /\ Len(Append(g, x)) = l + 1
                         /\ \A i \in 1..l : Append(g, x)[i] = g[i]
                         /\ Append(g, x)[l + 1] = x
    BY ListFacts
  <1>3. ASSUME Without(o, g, k)
        PROVE  Without(Append(o, x), Append(g, x), k)
    <2>1. k \in 1..l /\ l = n + 1 /\ \A i \in 1..n : o[i] = g[IF i < k THEN i ELSE i + 1]
      BY <1>1, <1>2, <1>3 DEF Without
    <2>2. ASSUME NEW i \in 1..(n + 1)
          PROVE  Append(o, x)[i] = Append(g, x)[IF i < k THEN i ELSE i + 1]
      <3>1. CASE i = n + 1
        <4>1. ~(i < k) /\ i + 1 = l + 1
          BY <2>1, <3>1
        <4>. QED
          BY <1>1, <1>2, <3>1, <4>1, Zenon
      <3>2. CASE i # n + 1
        <4>1. i \in 1..n /\ (IF i < k THEN i ELSE i + 1) \in 1..l
          BY <2>1, <3>2
        <4>2. Append(o, x)[i] = o[i] /\ o[i] = g[IF i < k THEN i ELSE i + 1]
          BY <1>1, <2>1, <4>1, Zenon
        <4>. QED
          BY <1>2, <4>1, <4>2, Zenon
      <3>. QED
        BY <3>1, <3>2
    <2>3. k \in 1..(l + 1) /\ l + 1 = (n + 1) + 1
      BY <2>1
    <2>. QED
      BY <1>1, <1>2, <2>2, <2>3, Zenon DEF Without
  <1>4. ASSUME k = Len(o) + 1
        PROVE  Without(o, Append(o, x), k)
    <2>1. k \in 1..(n + 1) /\ \A i \in 1..n : i < k
      BY <1>1, <1>4
    <2>. QED
      BY <1>1, <2>1, Zenon DEF Without
  <1>. QED
    BY <1>3, <1>4

-----------------------------------------------------------------------------
(* What the session has read, after p bytes of a stream with damage f.     *)

(* The k-th frame was handed on as it was written. *)
Good(o, k, msgs) == Len(o) >= k /\ Says(o[k], msgs[k]) /\ o[k].raw = Wire[msgs[k]]

(* Frames are handed on and the parser is in the middle of the next one. *)
Reading(s, p, msgs) ==
  /\ IsAlive(s)
  /\ \E j \in 0..FrameCount :
       /\ Len(s.out) = j /\ Ends[msgs][j] <= p
       /\ \A i \in 1..j : Good(s.out, i, msgs)
       /\ j = FrameCount => p = Ends[msgs][j] /\ s.rx = NewReceiveFrame
       /\ j < FrameCount =>
            p < Ends[msgs][j + 1] /\ Parsing(s.rx, msgs[j + 1], p - Ends[msgs][j])

Clean(f, p)       == f.kind = "none" \/ p < f.at
Whole(f, k, msgs) == f.kind = "none" \/ Ends[msgs][k] < f.at

(* A frame that was delivered says what its message says. *)
LEMMA SaysFacts ==
  ASSUME NEW m, WellFormed(m), NEW r, r.command = m.cmd, r.id = m.id, r.address = << >>,
         r.data = m.payload
  PROVE  Says(Delivered(r), m) /\ Delivered(r).raw = r.raw
  <1>1. m.type # Plant
    BY DEF WellFormed, Standard, Plant
  <1>2. (IF m.type = Plant THEN m.address ELSE << >>) = << >>
    BY <1>1
  <1>3. (IF m.cmd = Read THEN << >> ELSE m.payload) = m.payload
    BY DEF WellFormed
  <1>4. Content(m) = [command |-> m.cmd, id |-> m.id, address |-> << >>, data |-> m.payload]
    BY <1>2, <1>3, Zenon DEF Content
  <1>5. PICK c : c = Content(m) /\ DOMAIN c = {"command", "id", "address", "data"}
                 /\ c.command = m.cmd /\ c.id = m.id /\ c.address = << >> /\ c.data = m.payload
    BY <1>4
  <1>6. PICK d : /\ d = Delivered(r) /\ d.command = r.command /\ d.id = r.id
                 /\ d.address = r.address /\ d.data = r.data /\ d.raw = r.raw
    <2>1. PICK d : d = Delivered(r)
      OBVIOUS
    <2>2. d = [command |-> r.command, id |-> r.id, address |-> r.address,
               data |-> r.data, raw |-> r.raw]
      BY <2>1 DEF Delivered
    <2>3. /\ d.command = r.command /\ d.id = r.id
          /\ d.address = r.address /\ d.data = r.data /\ d.raw = r.raw
      BY <2>2
    <2>. QED
      BY <2>1, <2>3, Zenon
  <1>7. \A field \in DOMAIN c : d[field] = c[field]
    BY <1>5, <1>6
  <1>. QED
    BY <1>5, <1>6, <1>7, Zenon DEF Says

(* A frame that was handed on stays. *)
LEMMA GoodKept ==
  ASSUME NEW msgs, NEW o, NEW u, Len(o) \in Nat, Len(u) \in Nat, Begins(o, u),
         NEW k \in Nat, k # 0, Good(o, k, msgs)
  PROVE  Good(u, k, msgs)
  <1>1. Len(o) >= k
    BY DEF Good
  <1>2. k \in 1..Len(o) /\ Len(u) >= k
    BY <1>1 DEF Begins
  <1>3. u[k] = o[k]
    BY <1>2 DEF Begins
  <1>. QED
    BY <1>2, <1>3, Zenon DEF Good

(* The loop goes from s to t with the next byte of the frame of m.          *)
Wanting(s, t, m, q) == IsAlive(t) /\ t.out = s.out /\ Parsing(t.rx, m, q)
Writing(s, t, m) ==
  /\ IsAlive(t) /\ t.rx = NewReceiveFrame
  /\ \E x : t.out = Append(s.out, x) /\ Says(x, m) /\ x.raw = MakeFrame(m)

(* The next byte of a frame: nothing is handed on before the last one, and  *)
(* then the message with the bytes it came as.                              *)
LEMMA ByteStep ==
  ASSUME NEW m \in Messages, WellFormed(m), NEW q \in Nat, q < Len(MakeFrame(m)),
         NEW s, DOMAIN s = Loop, IsList(s.out), IsAlive(s), Parsing(s.rx, m, q),
         NEW t, t = FeedByte(s, MakeFrame(m)[q + 1])
  PROVE  /\ IsList(t.out) /\ Begins(s.out, t.out)
         /\ q + 1 < Len(MakeFrame(m)) => Wanting(s, t, m, q + 1)
         /\ q + 1 = Len(MakeFrame(m)) => Writing(s, t, m)
  <1>1. PICK c : c = ConsumeByte(s.rx, MakeFrame(m)[q + 1])
    OBVIOUS
  <1>2. /\ q + 1 < Len(MakeFrame(m)) => c.outcome = "more" /\ Parsing(c.rx, m, q + 1)
        /\ q + 1 = Len(MakeFrame(m)) =>
             /\ c.outcome = "complete"
             /\ c.rx.command = m.cmd /\ c.rx.id = m.id /\ c.rx.address = << >>
             /\ c.rx.data = m.payload /\ c.rx.raw = MakeFrame(m)
    BY <1>1, ParseStep, Zenon
  <1>3. IsList(t.out) /\ Begins(s.out, t.out)
    BY LoopFacts, Zenon
  <1>4. Len(MakeFrame(m)) \in Nat
    BY WireFacts
  <1>5. CASE q + 1 < Len(MakeFrame(m))
    <2>1. q + 1 # Len(MakeFrame(m))
      BY <1>4, <1>5
    <2>2. c.outcome = "more" /\ Parsing(c.rx, m, q + 1)
      BY <1>2, <1>5, Zenon
    <2>3. Kept(s, t, c.rx)
      BY <1>1, <2>2, LoopMore, Zenon
    <2>4. Wanting(s, t, m, q + 1)
      BY <2>2, <2>3, Zenon DEF Kept, Wanting
    <2>. QED
      BY <1>3, <2>1, <2>4, Zenon
  <1>6. CASE q + 1 = Len(MakeFrame(m))
    <2>1. ~(q + 1 < Len(MakeFrame(m)))
      BY <1>4, <1>6
    <2>2. /\ c.outcome = "complete"
          /\ c.rx.command = m.cmd /\ c.rx.id = m.id /\ c.rx.address = << >>
          /\ c.rx.data = m.payload /\ c.rx.raw = MakeFrame(m)
      BY <1>2, <1>6, Zenon
    <2>3. Handed(s, t, c.rx)
      BY <1>1, <2>2, LoopComplete, Zenon
    <2>4. Says(Delivered(c.rx), m) /\ Delivered(c.rx).raw = MakeFrame(m)
      <3>1. Says(Delivered(c.rx), m) /\ Delivered(c.rx).raw = c.rx.raw
        BY <2>2, SaysFacts, Zenon
      <3>. QED
        BY <2>2, <3>1, Zenon
    <2>5. Writing(s, t, m)
      BY <2>3, <2>4, Zenon DEF Handed, Writing
    <2>. QED
      BY <1>3, <2>1, <2>5, Zenon
  <1>7. q + 1 < Len(MakeFrame(m)) \/ q + 1 = Len(MakeFrame(m))
    BY <1>4
  <1>. QED
    BY <1>5, <1>6, <1>7, Zenon

(* The next byte of the stream, as it was written. *)
LEMMA ReadingStep ==
  ASSUME \A m \in Messages : WellFormed(m), NEW msgs \in Streams,
         NEW s, DOMAIN s = Loop, IsList(s.out), NEW p \in Nat, p < Len(BytesOf[msgs]),
         Reading(s, p, msgs)
  PROVE  Reading(FeedByte(s, BytesOf[msgs][p + 1]), p + 1, msgs)
  <1>1. PICK n \in Nat \ {0} : n = FrameCount
    BY StreamAssumption
  <1>2. PICK e, b : e = Ends[msgs] /\ b = BytesOf[msgs]
    OBVIOUS
  <1>3. /\ e[0] = 0 /\ e[n] = Len(b) /\ \A k \in 0..n : e[k] \in Nat
        /\ \A k \in 1..n :
             /\ e[k] = e[k - 1] + Len(Wire[msgs[k]])
             /\ \A i \in 1..Len(Wire[msgs[k]]) : b[e[k - 1] + i] = Wire[msgs[k]][i]
    BY <1>1, <1>2, StreamFacts, Zenon DEF IsStream
  <1>4. PICK j \in 0..n :
          /\ Len(s.out) = j /\ e[j] <= p
          /\ \A i \in 1..j : Good(s.out, i, msgs)
          /\ j = n => p = e[j] /\ s.rx = NewReceiveFrame
          /\ j < n => p < e[j + 1] /\ Parsing(s.rx, msgs[j + 1], p - e[j])
    BY <1>1, <1>2, Zenon DEF Reading
  <1>5. j < n /\ j + 1 \in 1..n /\ (j + 1) - 1 = j
    <2>1. e[n] = Len(b) /\ p < Len(b) /\ e[n] \in Nat
      <3>1. n \in 0..n
        OBVIOUS
      <3>. QED
        BY <1>2, <1>3, <3>1, Zenon
    <2>2. j # n
      BY <1>4, <2>1
    <2>. QED
      BY <2>2
  <1>6. PICK m \in Messages : m = msgs[j + 1] /\ WellFormed(m)
    BY <1>1, <1>5 DEF Streams
  <1>7. PICK w \in Seq(Letters), l \in Nat \ {0} : w = MakeFrame(m) /\ w = Wire[m] /\ l = Len(w)
    BY <1>6, WireSeq
  <1>8. PICK start \in Nat, end \in Nat : start = e[j] /\ end = e[j + 1] /\ end = start + l
    <2>1. j \in 0..n /\ j + 1 \in 0..n
      BY <1>5
    <2>2. e[j + 1] = e[j] + l
      BY <1>3, <1>5, <1>6, <1>7, Zenon
    <2>. QED
      BY <1>3, <2>1, <2>2
  <1>9. PICK q \in Nat : q = p - start /\ q < l /\ start + (q + 1) = p + 1
                         /\ q + 1 \in 1..l
    <2>1. start <= p /\ p < end
      BY <1>4, <1>5, <1>8, Zenon
    <2>. QED
      BY <1>8, <2>1
  <1>10. BytesOf[msgs][p + 1] = w[q + 1]
    <2>1. \A i \in 1..l : b[start + i] = w[i]
      <3>1. \A i \in 1..Len(Wire[msgs[j + 1]]) :
              b[e[(j + 1) - 1] + i] = Wire[msgs[j + 1]][i]
        BY <1>3, <1>5, Zenon
      <3>. QED
        BY <1>5, <1>6, <1>7, <1>8, <3>1, Zenon
    <2>. QED
      BY <1>2, <1>9, <2>1, Zenon
  <1>11. PICK t : t = FeedByte(s, w[q + 1])
    OBVIOUS
  <1>12. Parsing(s.rx, m, q)
    BY <1>4, <1>5, <1>6, <1>8, <1>9, Zenon
  <1>13. IsAlive(s)
    BY DEF Reading
  <1>14. q < Len(MakeFrame(m)) /\ t = FeedByte(s, MakeFrame(m)[q + 1])
    BY <1>7, <1>9, <1>11, Zenon
  <1>15. /\ IsList(t.out) /\ Begins(s.out, t.out)
         /\ q + 1 < Len(MakeFrame(m)) => Wanting(s, t, m, q + 1)
         /\ q + 1 = Len(MakeFrame(m)) => Writing(s, t, m)
    BY <1>6, <1>12, <1>13, <1>14, ByteStep, Zenon
  <1>16. CASE q + 1 < l
    <2>1. IsAlive(t) /\ t.out = s.out /\ Parsing(t.rx, m, q + 1)
      BY <1>7, <1>15, <1>16, Zenon DEF Wanting
    <2>2. e[j] <= p + 1 /\ p + 1 < e[j + 1] /\ (p + 1) - e[j] = q + 1
      <3>1. start <= p + 1 /\ p + 1 < end /\ (p + 1) - start = q + 1
        <4>1. start \in Nat /\ end = start + l /\ l \in Nat
          BY <1>7, <1>8, Zenon
        <4>2. q \in Nat /\ start + (q + 1) = p + 1
          BY <1>9, Zenon
        <4>. QED
          BY <1>16, <4>1, <4>2
      <3>. QED
        BY <1>8, <3>1, Zenon
    <2>3. /\ Len(t.out) = j /\ \A i \in 1..j : Good(t.out, i, msgs)
          /\ Parsing(t.rx, msgs[j + 1], (p + 1) - e[j])
      BY <1>4, <1>6, <2>1, <2>2, Zenon
    <2>4. j # n
      BY <1>5
    <2>5. /\ Len(t.out) = j /\ Ends[msgs][j] <= p + 1
          /\ \A i \in 1..j : Good(t.out, i, msgs)
          /\ j = FrameCount => p + 1 = Ends[msgs][j] /\ t.rx = NewReceiveFrame
          /\ j < FrameCount =>
               p + 1 < Ends[msgs][j + 1] /\ Parsing(t.rx, msgs[j + 1], (p + 1) - Ends[msgs][j])
      BY <1>1, <1>2, <2>2, <2>3, <2>4, Zenon
    <2>6. Reading(t, p + 1, msgs)
      BY <1>1, <2>1, <2>5, Zenon DEF Reading
    <2>. QED
      BY <1>10, <1>11, <2>6, Zenon
  <1>17. CASE q + 1 = l
    <2>1. PICK x : /\ IsAlive(t) /\ t.rx = NewReceiveFrame
                   /\ t.out = Append(s.out, x) /\ Says(x, m) /\ x.raw = w
      BY <1>7, <1>15, <1>17, Zenon DEF Writing
    <2>2. /\ Len(t.out) = j + 1 /\ t.out[j + 1] = x
          /\ Len(s.out) = j /\ Len(s.out) \in Nat /\ Len(t.out) \in Nat
      <3>1. Len(t.out) = j + 1 /\ t.out[j + 1] = x
        <4>1. /\ Len(Append(s.out, x)) = Len(s.out) + 1
              /\ Append(s.out, x)[Len(s.out) + 1] = x
          BY ListFacts, Zenon
        <4>. QED
          BY <1>4, <2>1, <4>1, Zenon
      <3>. QED
        BY <1>4, <3>1
    <2>3. Good(t.out, j + 1, msgs)
      <3>2. j + 1 >= j + 1
        OBVIOUS
      <3>. QED
        BY <1>6, <1>7, <2>1, <2>2, <3>2, Zenon DEF Good
    <2>4. \A i \in 1..(j + 1) : Good(t.out, i, msgs)
      <3>. SUFFICES ASSUME NEW i \in 1..(j + 1), i # j + 1
                    PROVE  Good(t.out, i, msgs)
        BY <2>3, Zenon
      <3>1. i \in 1..j /\ i \in Nat /\ i # 0
        OBVIOUS
      <3>2. Good(s.out, i, msgs)
        BY <1>4, <3>1
      <3>. QED
        BY <1>15, <2>2, <3>1, <3>2, GoodKept, Zenon
    <2>5. e[j + 1] <= p + 1 /\ p + 1 = e[j + 1] /\ (p + 1) - e[j + 1] = 0 /\ j + 1 \in 0..n
      <3>1. end <= p + 1 /\ p + 1 = end /\ (p + 1) - end = 0 /\ j + 1 \in 0..n
        <4>1. start \in Nat /\ end = start + l /\ l \in Nat
          BY <1>7, <1>8, Zenon
        <4>2. q \in Nat /\ start + (q + 1) = p + 1
          BY <1>9, Zenon
        <4>. QED
          BY <1>5, <1>17, <4>1, <4>2
      <3>. QED
        BY <1>8, <3>1, Zenon
    <2>6. ASSUME j + 1 < n
          PROVE  /\ p + 1 < e[(j + 1) + 1]
                 /\ Parsing(t.rx, msgs[(j + 1) + 1], (p + 1) - e[j + 1])
      <3>1. (j + 1) + 1 \in 1..n /\ (j + 1) + 1 \in 0..n /\ ((j + 1) + 1) - 1 = j + 1
        BY <2>6
      <3>2. PICK m2 \in Messages : m2 = msgs[(j + 1) + 1]
        BY <1>1, <3>1 DEF Streams
      <3>3. PICK k \in Nat \ {0} : k = Len(Wire[m2])
        BY <3>2, WireSeq
      <3>4. e[(j + 1) + 1] = e[j + 1] + k
        BY <1>3, <3>1, <3>2, <3>3, Zenon
      <3>5. p + 1 < e[(j + 1) + 1]
        BY <2>5, <3>3, <3>4
      <3>6. Parsing(t.rx, msgs[(j + 1) + 1], 0)
        BY <2>1, Zenon DEF Parsing
      <3>. QED
        BY <2>5, <3>5, <3>6, Zenon
    <2>7. PICK i \in 0..FrameCount : i = j + 1
      BY <1>1, <2>5
    <2>8. /\ Len(t.out) = i /\ Ends[msgs][i] <= p + 1
          /\ \A k \in 1..i : Good(t.out, k, msgs)
      BY <1>2, <2>2, <2>4, <2>5, <2>7, Zenon
    <2>9. /\ p + 1 = Ends[msgs][i] /\ t.rx = NewReceiveFrame
          /\ i < FrameCount =>
               p + 1 < Ends[msgs][i + 1] /\ Parsing(t.rx, msgs[i + 1], (p + 1) - Ends[msgs][i])
      BY <1>1, <1>2, <2>1, <2>5, <2>6, <2>7, Zenon
    <2>10. Reading(t, p + 1, msgs)
      BY <2>1, <2>8, <2>9, Zenon DEF Reading
    <2>. QED
      BY <1>10, <1>11, <2>10, Zenon
  <1>. QED
    <2>1. q + 1 < l \/ q + 1 = l
      BY <1>9
    <2>. QED
      BY <1>16, <1>17, <2>1, Zenon

(* Where the byte behind the first p lies when they end in the k-th frame. *)
Within(p, k, msgs) ==
  k \in 1..FrameCount /\ Ends[msgs][k - 1] <= p /\ p < Ends[msgs][k]

(* It is a byte of that frame. *)
LEMMA WithinFacts ==
  ASSUME \A m \in Messages : WellFormed(m), NEW msgs \in Streams, NEW p \in Nat,
         NEW k \in 1..FrameCount
  PROVE  /\ msgs[k] \in Messages /\ WellFormed(msgs[k])
         /\ Ends[msgs][k - 1] \in Nat /\ Len(MakeFrame(msgs[k])) \in Nat \ {0}
         /\ Ends[msgs][k] = Ends[msgs][k - 1] + Len(MakeFrame(msgs[k]))
         /\ Within(p, k, msgs) =>
              /\ p - Ends[msgs][k - 1] \in Nat
              /\ p - Ends[msgs][k - 1] < Len(MakeFrame(msgs[k]))
              /\ BytesOf[msgs][p + 1] = MakeFrame(msgs[k])[(p - Ends[msgs][k - 1]) + 1]
  <1>1. k - 1 \in 0..FrameCount
    BY StreamAssumption
  <1>2. PICK m \in Messages : m = msgs[k] /\ WellFormed(m)
    BY DEF Streams
  <1>3. PICK l \in Nat \ {0} : l = Len(MakeFrame(m)) /\ Wire[m] = MakeFrame(m)
    BY <1>2, WireSeq
  <1>4. IsStream(Ends[msgs], BytesOf[msgs], msgs)
    BY StreamFacts
  <1>5. PICK start \in Nat : start = Ends[msgs][k - 1]
    BY <1>1, <1>4 DEF IsStream
  <1>6. /\ Ends[msgs][k] = start + l
        /\ \A i \in 1..l : BytesOf[msgs][start + i] = MakeFrame(m)[i]
    BY <1>2, <1>3, <1>4, <1>5, Zenon DEF IsStream
  <1>7. ASSUME Within(p, k, msgs)
        PROVE  /\ p - start \in Nat /\ p - start < l
               /\ BytesOf[msgs][p + 1] = MakeFrame(m)[(p - start) + 1]
    <2>1. start <= p /\ p < start + l
      BY <1>5, <1>6, <1>7, Zenon DEF Within
    <2>2. p - start \in Nat /\ p - start < l /\ (p - start) + 1 \in 1..l
          /\ start + ((p - start) + 1) = p + 1
      BY <2>1
    <2>3. BytesOf[msgs][start + ((p - start) + 1)] = MakeFrame(m)[(p - start) + 1]
      BY <1>6, <2>2, Zenon
    <2>. QED
      BY <2>2, <2>3, Zenon
  <1>. QED
    BY <1>2, <1>3, <1>5, <1>6, <1>7, Zenon

(* A session that is where the stream is has the frames in front of the one *)
(* it is in, and some of that one.                                          *)
LEMMA ReadingWithin ==
  ASSUME \A m \in Messages : WellFormed(m), NEW msgs \in Streams, NEW p \in Nat,
         NEW k \in 1..FrameCount, Within(p, k, msgs), NEW s, Reading(s, p, msgs)
  PROVE  Len(s.out) = k - 1 /\ Parsing(s.rx, msgs[k], p - Ends[msgs][k - 1])
  <1>1. PICK n \in Nat \ {0} : n = FrameCount
    BY StreamAssumption
  <1>2. PICK e : e = Ends[msgs]
    OBVIOUS
  <1>3. /\ \A i \in 0..n : e[i] \in Nat
        /\ \A i, j \in 0..n : i <= j => e[i] <= e[j]
    BY <1>1, <1>2, StreamFacts, Zenon DEF IsStream
  <1>4. PICK j \in 0..n :
          /\ Len(s.out) = j /\ e[j] <= p
          /\ j < n => p < e[j + 1] /\ Parsing(s.rx, msgs[j + 1], p - e[j])
    BY <1>1, <1>2, Zenon DEF Reading
  <1>5. e[k - 1] <= p /\ p < e[k]
    BY <1>2, Zenon DEF Within
  <1>6. j < k
    <2>. SUFFICES ASSUME k <= j
                  PROVE  FALSE
      BY <1>1
    <2>1. k \in 0..n
      BY <1>1
    <2>2. e[k] <= e[j] /\ e[k] \in Nat /\ e[j] \in Nat
      BY <1>3, <2>1
    <2>. QED
      BY <1>4, <1>5, <2>2
  <1>7. k - 1 <= j
    <2>. SUFFICES ASSUME j + 1 <= k - 1
                  PROVE  FALSE
      BY <1>1
    <2>1. j + 1 \in 0..n /\ k - 1 \in 0..n /\ j < n
      BY <1>1
    <2>2. e[j + 1] <= e[k - 1] /\ e[j + 1] \in Nat /\ e[k - 1] \in Nat
      BY <1>3, <2>1
    <2>. QED
      BY <1>4, <1>5, <2>1, <2>2
  <1>8. j = k - 1 /\ j < n /\ j + 1 = k
    BY <1>1, <1>6, <1>7
  <1>. QED
    BY <1>2, <1>4, <1>8, Zenon

(* The session s has lost or is losing the k-th frame.  z is the session    *)
(* that reads the stream as it was written: s has handed on what z has, but *)
(* not that frame, and behind it their parsers are the same.                *)
Behind(s, p, msgs, k) ==
  /\ IsAlive(s)
  /\ \E z : /\ DOMAIN z = Loop /\ IsList(z.out) /\ Reading(z, p, msgs)
            /\ \/ /\ Within(p, k, msgs) /\ s.out = z.out
                  /\ \E F, i : /\ IsHurt(F, msgs[k], i)
                               /\ Hurting(s.rx, msgs[k], F, i, p - Ends[msgs][k - 1])
               \/ /\ ~Within(p, k, msgs) /\ s.rx = z.rx
                  /\ Without(s.out, z.out, k)

(* In the damaged frame the parser wants more, or refuses the frame.        *)
LEMMA BehindByte ==
  ASSUME \A m \in Messages : WellFormed(m), NEW msgs \in Streams, NEW p \in Nat,
         p < Len(BytesOf[msgs]), NEW k \in 1..FrameCount, Within(p, k, msgs),
         NEW z, DOMAIN z = Loop, IsList(z.out), Reading(z, p, msgs),
         NEW s, DOMAIN s = Loop, IsAlive(s), s.out = z.out,
         NEW b, NEW c, c = ConsumeByte(s.rx, b), NEW t, t = FeedByte(s, b),
         NEW q \in Nat, q = p - Ends[msgs][k - 1], NEW F, NEW i, IsHurt(F, msgs[k], i),
         Goes(c, msgs[k], F, i, q + 1)
  PROVE  Behind(t, p + 1, msgs, k)
  <1>1. PICK m \in Messages, start \in Nat, l \in Nat \ {0} :
          /\ m = msgs[k] /\ WellFormed(m) /\ start = Ends[msgs][k - 1]
          /\ l = Len(MakeFrame(m)) /\ Ends[msgs][k] = start + l
          /\ q = p - start /\ q < l /\ BytesOf[msgs][p + 1] = MakeFrame(m)[q + 1]
    <2>1. /\ msgs[k] \in Messages /\ WellFormed(msgs[k])
          /\ Ends[msgs][k - 1] \in Nat /\ Len(MakeFrame(msgs[k])) \in Nat \ {0}
          /\ Ends[msgs][k] = Ends[msgs][k - 1] + Len(MakeFrame(msgs[k]))
          /\ q < Len(MakeFrame(msgs[k]))
          /\ BytesOf[msgs][p + 1] = MakeFrame(msgs[k])[q + 1]
      BY WithinFacts, ZenonT(40)
    <2>. QED
      BY <2>1, Zenon
  <1>0. q = p - start /\ q < l /\ start \in Nat /\ l \in Nat
    BY <1>1
  <1>2. PICK y : y = FeedByte(z, BytesOf[msgs][p + 1])
    OBVIOUS
  <1>3. Reading(y, p + 1, msgs)
    BY <1>2, ReadingStep, Zenon
  <1>4. DOMAIN y = Loop /\ IsList(y.out)
    BY <1>2, LoopFacts, Zenon
  <1>5. Len(z.out) = k - 1 /\ Parsing(z.rx, m, q)
    <2>1. Len(z.out) = k - 1 /\ Parsing(z.rx, msgs[k], p - Ends[msgs][k - 1])
      BY ReadingWithin, Zenon
    <2>. QED
      BY <1>1, <2>1, Zenon
  <1>6. /\ q + 1 < l => Wanting(z, y, m, q + 1)
        /\ q + 1 = l => Writing(z, y, m)
    <2>1. IsAlive(z) /\ y = FeedByte(z, MakeFrame(m)[q + 1]) /\ q < Len(MakeFrame(m))
      BY <1>1, <1>2, Zenon DEF Reading
    <2>. QED
      BY <1>1, <1>5, <2>1, ByteStep, Zenon
  <1>7. CASE q + 1 < l
    <2>1. c.outcome = "more" /\ Hurting(c.rx, m, F, i, q + 1)
      BY <1>1, <1>7, Zenon DEF Goes
    <2>2. IsAlive(t) /\ t.rx = c.rx /\ t.out = s.out
      <3>1. Kept(s, t, c.rx)
        BY <2>1, LoopMore, Zenon
      <3>. QED
        BY <3>1 DEF Kept
    <2>3. y.out = z.out
      BY <1>6, <1>7, Zenon DEF Wanting
    <2>4. start <= p + 1 /\ p + 1 < start + l /\ (p + 1) - start = q + 1
      BY <1>0, <1>7
    <2>5. Within(p + 1, k, msgs)
      BY <1>1, <2>4, Zenon DEF Within
    <2>6. Hurting(t.rx, msgs[k], F, i, (p + 1) - Ends[msgs][k - 1])
      BY <1>1, <2>1, <2>2, <2>4, Zenon
    <2>7. t.out = y.out
      BY <2>2, <2>3
    <2>. QED
      BY <1>3, <1>4, <2>2, <2>5, <2>6, <2>7, Zenon DEF Behind
  <1>8. CASE q + 1 = l
    <2>1. c.outcome \in FrameErrors
      <3>1. c.outcome = "FrameCrcMismatch"
        BY <1>1, <1>8, Zenon DEF Goes
      <3>. QED
        BY <3>1 DEF FrameErrors
    <2>2. IsAlive(t) /\ t.rx = NewReceiveFrame /\ t.out = s.out
      BY <2>1, LoopError, Zenon DEF Kept
    <2>3. PICK x : y.rx = NewReceiveFrame /\ y.out = Append(z.out, x)
      BY <1>6, <1>8, Zenon DEF Writing
    <2>4. ~Within(p + 1, k, msgs)
      <3>1. ~(p + 1 < start + l)
        BY <1>0, <1>8
      <3>. QED
        BY <1>1, <3>1, Zenon DEF Within
    <2>5. k = Len(z.out) + 1
      BY <1>5, StreamAssumption
    <2>6. Without(t.out, y.out, k)
      BY <2>2, <2>3, <2>5, WithoutFacts, Zenon
    <2>. QED
      BY <1>3, <1>4, <2>2, <2>3, <2>4, <2>6, Zenon DEF Behind
  <1>9. q + 1 < l \/ q + 1 = l
    BY <1>0
  <1>. QED
    BY <1>7, <1>8, <1>9, Zenon

(* The next byte of the stream as it was written, behind the wrong one.     *)
LEMMA BehindStep ==
  ASSUME \A m \in Messages : WellFormed(m), NEW msgs \in Streams, NEW p \in Nat,
         p < Len(BytesOf[msgs]), NEW k \in 1..FrameCount,
         NEW s, DOMAIN s = Loop, IsList(s.out), Behind(s, p, msgs, k),
         ~Within(p, k, msgs) => ~Within(p + 1, k, msgs),
         NEW t, t = FeedByte(s, BytesOf[msgs][p + 1])
  PROVE  Behind(t, p + 1, msgs, k)
  <1>1. IsAlive(s)
    BY DEF Behind
  <1>2. PICK z :
          /\ DOMAIN z = Loop /\ IsList(z.out) /\ Reading(z, p, msgs)
          /\ \/ /\ Within(p, k, msgs) /\ s.out = z.out
                /\ \E F, i : /\ IsHurt(F, msgs[k], i)
                             /\ Hurting(s.rx, msgs[k], F, i, p - Ends[msgs][k - 1])
             \/ /\ ~Within(p, k, msgs) /\ s.rx = z.rx
                /\ Without(s.out, z.out, k)
    BY DEF Behind
  <1>3. CASE Within(p, k, msgs)
    <2>1. s.out = z.out
      BY <1>2, <1>3
    <2>2. PICK F, i : /\ IsHurt(F, msgs[k], i)
                      /\ Hurting(s.rx, msgs[k], F, i, p - Ends[msgs][k - 1])
      BY <1>2, <1>3
    <2>3. PICK m \in Messages, q \in Nat :
            /\ m = msgs[k] /\ WellFormed(m) /\ q = p - Ends[msgs][k - 1]
            /\ q < Len(MakeFrame(m)) /\ BytesOf[msgs][p + 1] = MakeFrame(m)[q + 1]
      <3>1. /\ msgs[k] \in Messages /\ WellFormed(msgs[k])
            /\ p - Ends[msgs][k - 1] \in Nat
            /\ p - Ends[msgs][k - 1] < Len(MakeFrame(msgs[k]))
            /\ BytesOf[msgs][p + 1] = MakeFrame(msgs[k])[(p - Ends[msgs][k - 1]) + 1]
        BY <1>3, WithinFacts, Zenon
      <3>. QED
        BY <3>1, Zenon
    <2>4. PICK b, c : b = BytesOf[msgs][p + 1] /\ c = ConsumeByte(s.rx, b)
      OBVIOUS
    <2>5. IsHurt(F, m, i) /\ Hurting(s.rx, m, F, i, q) /\ c = ConsumeByte(s.rx, MakeFrame(m)[q + 1])
      BY <2>2, <2>3, <2>4, Zenon
    <2>6. Goes(c, m, F, i, q + 1)
      BY <2>3, <2>5, HurtStep, Zenon
    <2>7. Goes(c, msgs[k], F, i, q + 1)
      BY <2>3, <2>6, Zenon
    <2>8. t = FeedByte(s, b)
      BY <2>4
    <2>. QED
      BY <1>1, <1>2, <1>3, <2>1, <2>2, <2>3, <2>4, <2>7, <2>8, BehindByte, Zenon
  <1>4. CASE ~Within(p, k, msgs)
    <2>1. s.rx = z.rx /\ Without(s.out, z.out, k)
      BY <1>2, <1>4
    <2>2. PICK y : y = FeedByte(z, BytesOf[msgs][p + 1])
      OBVIOUS
    <2>3. Reading(y, p + 1, msgs)
      BY <1>2, <2>2, ReadingStep, Zenon
    <2>4. DOMAIN y = Loop /\ IsList(y.out)
      BY <1>2, <2>2, LoopFacts, Zenon
    <2>5. IsAlive(z) /\ IsAlive(y)
      BY <1>2, <2>3 DEF Reading
    <2>6. Alike(s, t, z, y)
      BY <1>1, <1>2, <2>1, <2>2, <2>5, LoopTwins, Zenon
    <2>7. Without(t.out, y.out, k)
      <3>1. CASE t.out = s.out /\ y.out = z.out
        BY <2>1, <3>1
      <3>2. CASE \E x : t.out = Append(s.out, x) /\ y.out = Append(z.out, x)
        <4>1. PICK x : t.out = Append(s.out, x) /\ y.out = Append(z.out, x)
          BY <3>2
        <4>. QED
          BY <1>2, <2>1, <4>1, WithoutFacts, Zenon
      <3>. QED
        BY <2>6, <3>1, <3>2, Zenon DEF Alike
    <2>8. IsAlive(t) /\ t.rx = y.rx
      BY <2>6 DEF Alike
    <2>. QED
      BY <1>4, <2>3, <2>4, <2>7, <2>8, Zenon DEF Behind
  <1>. QED
    BY <1>3, <1>4, Zenon

(* The wrong byte itself. *)
LEMMA BehindStart ==
  ASSUME \A m \in Messages : WellFormed(m), NEW msgs \in Streams, NEW p \in Nat,
         p < Len(BytesOf[msgs]), NEW k \in 1..FrameCount, Within(p, k, msgs),
         NEW s, DOMAIN s = Loop, IsList(s.out), Reading(s, p, msgs),
         NEW b, Wrong(b, msgs[k], p - Ends[msgs][k - 1]), NEW t, t = FeedByte(s, b)
  PROVE  Behind(t, p + 1, msgs, k)
  <1>1. PICK m \in Messages, q \in Nat :
          /\ m = msgs[k] /\ WellFormed(m) /\ q = p - Ends[msgs][k - 1]
          /\ q < Len(MakeFrame(m)) /\ BytesOf[msgs][p + 1] = MakeFrame(m)[q + 1]
    <2>1. /\ msgs[k] \in Messages /\ WellFormed(msgs[k])
          /\ p - Ends[msgs][k - 1] \in Nat
          /\ p - Ends[msgs][k - 1] < Len(MakeFrame(msgs[k]))
          /\ BytesOf[msgs][p + 1] = MakeFrame(msgs[k])[(p - Ends[msgs][k - 1]) + 1]
      BY WithinFacts, Zenon
    <2>. QED
      BY <2>1, Zenon
  <1>2. Parsing(s.rx, m, q) /\ Wrong(b, m, q)
    BY <1>1, ReadingWithin, Zenon
  <1>3. PICK c : c = ConsumeByte(s.rx, b)
    OBVIOUS
  <1>4. \E F, i : IsHurt(F, m, i) /\ Goes(c, m, F, i, q + 1)
    BY <1>1, <1>2, <1>3, HurtStart, Zenon
  <1>5. PICK F, i : IsHurt(F, msgs[k], i) /\ Goes(c, msgs[k], F, i, q + 1)
    BY <1>1, <1>4, Zenon
  <1>6. IsAlive(s) /\ s.out = s.out
    BY DEF Reading
  <1>. QED
    BY <1>1, <1>3, <1>5, <1>6, BehindByte, Zenon

(* The byte f flips lies in the k-th frame behind its length field, and     *)
(* neither was nor becomes a token.                                         *)
Local(f, k, msgs) ==
  /\ f.kind = "flip" /\ f.byte # BytesOf[msgs][f.at]
  /\ {f.byte, BytesOf[msgs][f.at]} \cap Tokens = {}
  /\ f.at > Ends[msgs][k - 1] + 2 + Len(Escape(LengthField(msgs[k])))
  /\ f.at <= Ends[msgs][k]

(* Every frame that lies in front of the damage and has been read was       *)
(* handed on, so far without damage the parser is where the stream is, and  *)
(* behind a byte that was flipped in place only its frame is lost.          *)
Session(s, p, msgs, f) ==
  /\ DOMAIN s = Loop /\ IsList(s.out)
  /\ \A k \in 1..FrameCount :
       Whole(f, k, msgs) /\ Ends[msgs][k] <= p => Good(s.out, k, msgs)
  /\ Clean(f, p) => Reading(s, p, msgs)
  /\ \A k \in 1..FrameCount :
       Local(f, k, msgs) /\ f.at <= p => Behind(s, p, msgs, k)

Octets == Letters \cup FlipBytes

(* In front of the damage f, the bytes b of the stream come as d. *)
Faithful(d, b, f) == \A i \in 1..Len(b) : f.kind = "none" \/ i < f.at => d[i] = b[i]

(* What is known of a stream that may be damaged. *)
LEMMA ReceivedFacts ==
  ASSUME \A m \in Messages : WellFormed(m), NEW msgs \in Streams,
         NEW f \in FaultsOf(Len(BytesOf[msgs])), NEW d, d = Damaged(BytesOf[msgs], f)
  PROVE  /\ d \in Seq(Octets) /\ Len(d) = Ends[msgs][FrameCount] + Longer(f)
         /\ Len(BytesOf[msgs]) \in Nat /\ Ends[msgs][FrameCount] = Len(BytesOf[msgs])
         /\ f.kind # "none" => f.at \in 1..Len(BytesOf[msgs])
         /\ Faithful(d, BytesOf[msgs], f)
         /\ f.kind = "none" => Longer(f) = 0
  <1>1. BytesOf[msgs] \in Seq(Letters) /\ Ends[msgs][FrameCount] = Len(BytesOf[msgs])
    BY StreamFacts DEF IsStream
  <1>2. BytesOf[msgs] \in Seq(Octets) /\ FlipBytes \subseteq Octets
    BY <1>1 DEF Octets
  <1>3. Len(BytesOf[msgs]) \in Nat
    BY <1>1
  <1>4. /\ Damaged(BytesOf[msgs], f) \in Seq(Octets)
        /\ Len(Damaged(BytesOf[msgs], f)) = Len(BytesOf[msgs]) + Longer(f)
        /\ f.kind # "none" => f.at \in 1..Len(BytesOf[msgs])
        /\ Faithful(Damaged(BytesOf[msgs], f), BytesOf[msgs], f)
        /\ f.kind = "none" => Longer(f) = 0
    BY <1>2, DamagedFacts, Zenon DEF Faithful
  <1>. QED
    BY <1>1, <1>3, <1>4, Zenon

(* The byte that is flipped is one of the stream, and becomes another. *)
LEMMA FlipAt ==
  ASSUME \A m \in Messages : WellFormed(m), NEW msgs \in Streams,
         NEW f \in FaultsOf(Len(BytesOf[msgs])), f.kind = "flip"
  PROVE  f.at \in 1..Len(BytesOf[msgs]) /\ f.byte \in Bytes /\ f.byte \in FlipBytes
  <1>1. f.at \in 1..Len(BytesOf[msgs]) /\ f.byte \in FlipBytes
    BY DEF FaultsOf
  <1>. QED
    BY <1>1, StreamAssumption

(* The bytes b come as d: the one that f flips is the only one that is not  *)
(* as it was written.                                                       *)
OneFlipped(d, b, f) ==
  /\ d[f.at] = f.byte /\ Len(d) = Len(b)
  /\ \A i \in 1..Len(b) : i # f.at => d[i] = b[i]

(* That is what a flip does. *)
LEMMA FlipDamage ==
  ASSUME \A m \in Messages : WellFormed(m), NEW msgs \in Streams,
         NEW f \in FaultsOf(Len(BytesOf[msgs])), f.kind = "flip",
         NEW d, d = Damaged(BytesOf[msgs], f)
  PROVE  OneFlipped(d, BytesOf[msgs], f) /\ Len(BytesOf[msgs]) \in Nat
  <1>1. BytesOf[msgs] \in Seq(Letters)
    BY StreamFacts DEF IsStream
  <1>2. PICK b \in Seq(Letters) : b = BytesOf[msgs]
    BY <1>1
  <1>3. f.at \in 1..Len(b) /\ f.byte \in FlipBytes
    BY <1>2, FlipAt
  <1>4. d = [b EXCEPT ![f.at] = f.byte]
    <2>1. f.kind # "none" /\ f.kind # "drop" /\ f.kind # "duplicate"
      OBVIOUS
    <2>. QED
      BY <1>2, <2>1, Zenon DEF Damaged
  <1>5. PICK a, x : a = f.at /\ x = f.byte /\ a \in 1..Len(b)
    BY <1>3
  <1>6. PICK e : e = [b EXCEPT ![a] = x]
    OBVIOUS
  <1>7. /\ Len(e) = Len(b) /\ Len(b) \in Nat /\ e[a] = x
        /\ \A i \in 1..Len(b) : i # a => e[i] = b[i]
    BY <1>5, <1>6
  <1>. QED
    <2>1. d = e
      BY <1>4, <1>5, <1>6, Zenon
    <2>2. OneFlipped(e, b, f)
      BY <1>5, <1>7, Zenon DEF OneFlipped
    <2>. QED
      BY <1>2, <1>7, <2>1, <2>2, Zenon

(* A byte flipped in place is a wrong byte of its frame. *)
LEMMA LocalFacts ==
  ASSUME \A m \in Messages : WellFormed(m), NEW msgs \in Streams,
         NEW f \in FaultsOf(Len(BytesOf[msgs])), NEW k \in 1..FrameCount, Local(f, k, msgs),
         NEW p \in Nat
  PROVE  /\ f.at = p + 1 => /\ Within(p, k, msgs)
                            /\ Wrong(f.byte, msgs[k], p - Ends[msgs][k - 1])
         /\ f.at <= p /\ ~Within(p, k, msgs) => ~Within(p + 1, k, msgs)
  <1>1. PICK start \in Nat, end \in Nat : start = Ends[msgs][k - 1] /\ end = Ends[msgs][k]
    <2>1. Ends[msgs][k - 1] \in Nat /\ Len(MakeFrame(msgs[k])) \in Nat
          /\ Ends[msgs][k] = Ends[msgs][k - 1] + Len(MakeFrame(msgs[k]))
      BY WithinFacts
    <2>. QED
      BY <2>1
  <1>2. PICK l \in Nat : l = Len(Escape(LengthField(msgs[k])))
    <2>1. msgs[k] \in Messages /\ WellFormed(msgs[k])
      BY WithinFacts, Zenon
    <2>2. Escape(LengthField(msgs[k])) \in Seq(Bytes)
      <3>1. ESCAPE_TOKEN \in Bytes
        BY SMT DEF ESCAPE_TOKEN, Bytes
      <3>. QED
        BY <2>1, <3>1, EscapeFacts, LengthFacts
    <2>. QED
      BY <2>2
  <1>3. PICK a \in Nat : a = f.at /\ a > start + 2 + l /\ a <= end
    <2>1. f.at \in 1..Len(BytesOf[msgs])
      BY FlipAt DEF Local
    <2>2. /\ f.at > Ends[msgs][k - 1] + 2 + Len(Escape(LengthField(msgs[k])))
          /\ f.at <= Ends[msgs][k]
      BY DEF Local
    <2>3. f.at > start + 2 + l /\ f.at <= end
      BY <1>1, <1>2, <2>2, Zenon
    <2>4. f.at \in Nat
      BY <2>1
    <2>. QED
      BY <2>3, <2>4, Zenon
  <1>4. ASSUME f.at = p + 1
        PROVE  Within(p, k, msgs) /\ Wrong(f.byte, msgs[k], p - Ends[msgs][k - 1])
    <2>1. start <= p /\ p < end /\ (p - start) + 1 > 2 + l
      BY <1>3, <1>4
    <2>2. Within(p, k, msgs)
      BY <1>1, <2>1, Zenon DEF Within
    <2>3. BytesOf[msgs][p + 1] = MakeFrame(msgs[k])[(p - start) + 1]
      <3>1. BytesOf[msgs][p + 1] = MakeFrame(msgs[k])[(p - Ends[msgs][k - 1]) + 1]
        BY <2>2, WithinFacts, ZenonT(40)
      <3>. QED
        BY <1>1, <3>1, Zenon
    <2>4. f.byte \in Bytes
      BY FlipAt DEF Local
    <2>5. /\ f.byte # BytesOf[msgs][p + 1]
          /\ {f.byte, BytesOf[msgs][p + 1]} \cap {START_TOKEN, ESCAPE_TOKEN} = {}
      BY <1>4, Zenon DEF Local, Tokens
    <2>6. Wrong(f.byte, msgs[k], p - start)
      BY <1>2, <2>1, <2>3, <2>4, <2>5, Zenon DEF Wrong
    <2>. QED
      BY <1>1, <2>2, <2>6, Zenon
  <1>5. ASSUME f.at <= p, ~Within(p, k, msgs)
        PROVE  ~Within(p + 1, k, msgs)
    <2>1. start <= p
      BY <1>3, <1>5
    <2>2. ~(p < end)
      BY <1>1, <1>5, <2>1, Zenon DEF Within
    <2>3. ~(p + 1 < end)
      BY <2>2
    <2>. QED
      BY <1>1, <2>3, Zenon DEF Within
  <1>. QED
    BY <1>4, <1>5, Zenon

(* Every frame that has come whole was handed on by a session that is where *)
(* the stream is.                                                           *)
LEMMA ReadingHands ==
  ASSUME \A m \in Messages : WellFormed(m), NEW msgs \in Streams, NEW s, NEW p \in Nat,
         Reading(s, p, msgs), NEW k \in 1..FrameCount, Ends[msgs][k] <= p
  PROVE  Good(s.out, k, msgs)
  <1>1. PICK n \in Nat \ {0} : n = FrameCount
    BY StreamAssumption
  <1>2. PICK e : e = Ends[msgs]
    OBVIOUS
  <1>3. /\ \A i \in 0..n : e[i] \in Nat
        /\ \A i, j \in 0..n : i <= j => e[i] <= e[j]
    BY <1>1, <1>2, StreamFacts, Zenon DEF IsStream
  <1>4. PICK j \in 0..n : /\ \A i \in 1..j : Good(s.out, i, msgs)
                          /\ j < n => p < e[j + 1]
    BY <1>1, <1>2, Zenon DEF Reading
  <1>5. k <= j
    <2>. SUFFICES ASSUME j < k
                  PROVE  FALSE
      BY <1>1
    <2>1. j < n /\ j + 1 <= k /\ j + 1 \in 0..n /\ k \in 0..n
      BY <1>1
    <2>2. e[j + 1] <= e[k] /\ e[j + 1] \in Nat /\ e[k] \in Nat /\ p < e[j + 1] /\ e[k] <= p
      BY <1>2, <1>3, <1>4, <2>1, Zenon
    <2>. QED
      BY <2>2
  <1>6. k \in 1..j
    BY <1>1, <1>5
  <1>. QED
    BY <1>4, <1>6

(* The session reads a byte of the stream. *)
LEMMA SessionStep ==
  ASSUME \A m \in Messages : WellFormed(m), NEW msgs \in Streams,
         NEW f \in FaultsOf(Len(BytesOf[msgs])), NEW d, d = Damaged(BytesOf[msgs], f),
         NEW p \in Nat, p < Len(d), NEW s, Session(s, p, msgs, f)
  PROVE  Session(FeedByte(s, d[p + 1]), p + 1, msgs, f)
  <1>1. PICK t : t = FeedByte(s, d[p + 1])
    OBVIOUS
  <1>2. DOMAIN s = Loop /\ IsList(s.out)
    BY DEF Session
  <1>3. DOMAIN t = Loop /\ IsList(t.out) /\ Begins(s.out, t.out)
    BY <1>1, <1>2, LoopFacts, Zenon
  <1>4. ASSUME Clean(f, p + 1)
        PROVE  Reading(t, p + 1, msgs)
    <2>1. /\ Len(d) = Len(BytesOf[msgs]) + Longer(f) /\ Len(BytesOf[msgs]) \in Nat
          /\ f.kind # "none" => f.at \in 1..Len(BytesOf[msgs])
          /\ f.kind = "none" => Longer(f) = 0
          /\ Faithful(d, BytesOf[msgs], f)
      BY ReceivedFacts, Zenon
    <2>2. PICK l \in Nat : l = Len(BytesOf[msgs])
      BY <2>1
    <2>3. p < l /\ Clean(f, p)
      <3>1. CASE f.kind = "none"
        <4>1. Len(d) = l + 0
          BY <2>1, <2>2, <3>1, Zenon
        <4>2. p < l
          BY <4>1
        <4>. QED
          BY <3>1, <4>2, Zenon DEF Clean
      <3>2. CASE f.kind # "none"
        <4>1. PICK a \in 1..l : a = f.at
          BY <2>1, <2>2, <3>2, Zenon
        <4>2. p + 1 < a
          BY <1>4, <3>2, <4>1, Zenon DEF Clean
        <4>3. p < l /\ p < a
          BY <4>2
        <4>. QED
          BY <4>1, <4>3, Zenon DEF Clean
      <3>. QED
        BY <3>1, <3>2
    <2>4. p + 1 \in 1..l
      BY <2>3
    <2>5. d[p + 1] = BytesOf[msgs][p + 1]
      BY <1>4, <2>1, <2>2, <2>4, Zenon DEF Clean, Faithful
    <2>6. Reading(s, p, msgs)
      BY <2>3 DEF Session
    <2>7. p < Len(BytesOf[msgs])
      BY <2>2, <2>3, Zenon
    <2>8. Reading(FeedByte(s, BytesOf[msgs][p + 1]), p + 1, msgs)
      BY <1>2, <2>6, <2>7, ReadingStep, Zenon
    <2>. QED
      BY <1>1, <2>5, <2>8, Zenon
  <1>5. ASSUME NEW k \in 1..FrameCount, Whole(f, k, msgs), Ends[msgs][k] <= p + 1
        PROVE  Good(t.out, k, msgs)
    <2>0. PICK e \in Nat : e = Ends[msgs][k]
      <3>1. k \in 0..FrameCount
        BY StreamAssumption
      <3>2. \A i \in 0..FrameCount : Ends[msgs][i] \in Nat
        BY StreamFacts DEF IsStream
      <3>. QED
        BY <3>1, <3>2, Zenon
    <2>1. CASE e <= p
      <3>1. Good(s.out, k, msgs)
        BY <1>5, <2>0, <2>1, Zenon DEF Session
      <3>2. Len(s.out) \in Nat /\ Len(t.out) \in Nat /\ k \in Nat /\ k # 0
        BY <1>2, <1>3, ListFacts, StreamAssumption
      <3>. QED
        BY <1>3, <3>1, <3>2, GoodKept, Zenon
    <2>2. CASE ~(e <= p)
      <3>1. e = p + 1
        <4>1. e <= p + 1
          BY <1>5, <2>0, Zenon
        <4>. QED
          BY <2>2, <4>1
      <3>2. Clean(f, p + 1)
        BY <1>5, <2>0, <3>1, Zenon DEF Clean, Whole
      <3>3. p + 1 \in Nat /\ Ends[msgs][k] <= p + 1
        BY <1>5
      <3>. QED
        BY <1>4, <3>2, <3>3, ReadingHands, Zenon
    <2>. QED
      BY <2>1, <2>2
  <1>6. ASSUME NEW k \in 1..FrameCount, Local(f, k, msgs), f.at <= p + 1
        PROVE  Behind(t, p + 1, msgs, k)
    <2>1. PICK l \in Nat, a \in Nat :
            /\ l = Len(BytesOf[msgs]) /\ a \in 1..l /\ a = f.at /\ p < l /\ d[a] = f.byte
            /\ \A i \in 1..l : i # a => d[i] = BytesOf[msgs][i]
      <3>0. f.kind = "flip"
        BY <1>6 DEF Local
      <3>4. OneFlipped(d, BytesOf[msgs], f) /\ Len(BytesOf[msgs]) \in Nat
        BY <3>0, FlipDamage, Zenon
      <3>5. f.at \in 1..Len(BytesOf[msgs])
        BY <3>0, FlipAt, Zenon
      <3>1. /\ f.at \in 1..Len(BytesOf[msgs]) /\ d[f.at] = f.byte
            /\ Len(d) = Len(BytesOf[msgs]) /\ Len(BytesOf[msgs]) \in Nat
            /\ \A i \in 1..Len(BytesOf[msgs]) : i # f.at => d[i] = BytesOf[msgs][i]
        BY <3>4, <3>5, Zenon DEF OneFlipped
      <3>2. p < Len(BytesOf[msgs])
        BY <3>1
      <3>3. f.at \in Nat
        BY <3>1
      <3>. QED
        BY <3>1, <3>2, <3>3, Zenon
    <2>2. CASE a = p + 1
      <3>1. Clean(f, p)
        <4>1. p < a
          BY <2>2
        <4>. QED
          BY <2>1, <4>1, Zenon DEF Clean
      <3>2. Reading(s, p, msgs)
        BY <3>1 DEF Session
      <3>3. /\ Within(p, k, msgs) /\ Wrong(f.byte, msgs[k], p - Ends[msgs][k - 1])
        BY <1>6, <2>1, <2>2, LocalFacts, Zenon
      <3>4. t = FeedByte(s, f.byte) /\ p < Len(BytesOf[msgs])
        BY <1>1, <2>1, <2>2, Zenon
      <3>. QED
        BY <1>2, <3>2, <3>3, <3>4, BehindStart, Zenon
    <2>3. CASE a # p + 1
      <3>1. a <= p /\ p + 1 \in 1..l
        <4>1. a <= p + 1
          BY <1>6, <2>1, Zenon
        <4>2. p \in Nat /\ p < l
          BY <2>1
        <4>. QED
          BY <2>3, <4>1, <4>2
      <3>2. Behind(s, p, msgs, k)
        BY <1>6, <2>1, <3>1, Zenon DEF Session
      <3>3. ~Within(p, k, msgs) => ~Within(p + 1, k, msgs)
        BY <1>6, <2>1, <3>1, LocalFacts, Zenon
      <3>4. t = FeedByte(s, BytesOf[msgs][p + 1]) /\ p < Len(BytesOf[msgs])
        BY <1>1, <2>1, <2>3, <3>1, Zenon
      <3>. QED
        BY <1>2, <3>2, <3>3, <3>4, BehindStep, Zenon
    <2>. QED
      BY <2>2, <2>3
  <1>. QED
    BY <1>1, <1>3, <1>4, <1>5, <1>6, Zenon DEF Session

(* The session starts in front of the stream. *)
LEMMA SessionStarts ==
  ASSUME \A m \in Messages : WellFormed(m), NEW msgs \in Streams,
         NEW f \in FaultsOf(Len(BytesOf[msgs]))
  PROVE  Session([rx |-> NewReceiveFrame, out |-> << >>, alive |-> TRUE], 0, msgs, f)
  <1>1. PICK s : s = [rx |-> NewReceiveFrame, out |-> << >>, alive |-> TRUE]
    OBVIOUS
  <1>2. DOMAIN s = Loop /\ s.rx = NewReceiveFrame /\ s.out = << >> /\ IsAlive(s)
    BY <1>1, Zenon DEF Loop, IsAlive
  <1>3. << >> \in Seq({}) /\ Len(<< >>) = 0
    OBVIOUS
  <1>4. PICK n \in Nat \ {0} : n = FrameCount
    BY StreamAssumption
  <1>5. PICK e : e = Ends[msgs]
    OBVIOUS
  <1>6. /\ e[0] = 0 /\ \A i \in 0..n : e[i] \in Nat
        /\ \A i, j \in 0..n : i <= j => e[i] <= e[j]
        /\ \A k \in 1..n : e[k] = e[k - 1] + Len(Wire[msgs[k]])
    BY <1>4, <1>5, StreamFacts, Zenon DEF IsStream
  <1>7. e[1] \in Nat /\ 0 < e[1]
    <2>1. PICK m \in Messages : m = msgs[1]
      BY <1>4 DEF Streams
    <2>2. Len(Wire[m]) \in Nat \ {0}
      BY <2>1, WireSeq
    <2>3. 1 \in 1..n /\ 1 \in 0..n /\ 1 - 1 = 0
      OBVIOUS
    <2>4. e[1] = 0 + Len(Wire[m]) /\ e[1] \in Nat
      BY <1>6, <2>1, <2>3, Zenon
    <2>. QED
      BY <2>2, <2>4
  <1>8. ASSUME NEW k \in 1..n, e[k] <= 0
        PROVE  FALSE
    <2>1. 1 \in 0..n /\ k \in 0..n /\ 1 <= k
      OBVIOUS
    <2>2. e[1] <= e[k] /\ e[k] \in Nat
      BY <1>6, <2>1
    <2>. QED
      BY <1>7, <1>8, <2>2
  <1>9. Reading(s, 0, msgs)
    <2>1. 0 \in 0..FrameCount /\ 0 # FrameCount /\ 0 + 1 = 1 /\ 0 - 0 = 0 /\ 0 <= 0
          /\ \A i \in 1..0 : FALSE
      BY <1>4
    <2>2. Parsing(s.rx, msgs[0 + 1], 0)
      BY <1>2, Zenon DEF Parsing
    <2>3. /\ Len(s.out) = 0 /\ Ends[msgs][0] <= 0
          /\ \A i \in 1..0 : Good(s.out, i, msgs)
          /\ 0 = FrameCount => 0 = Ends[msgs][0] /\ s.rx = NewReceiveFrame
          /\ 0 < FrameCount =>
               0 < Ends[msgs][0 + 1] /\ Parsing(s.rx, msgs[0 + 1], 0 - Ends[msgs][0])
      BY <1>2, <1>3, <1>5, <1>6, <1>7, <2>1, <2>2, Zenon
    <2>. QED
      BY <1>2, <2>1, <2>3, Zenon DEF Reading
  <1>10. \A k \in 1..FrameCount :
           Whole(f, k, msgs) /\ Ends[msgs][k] <= 0 => Good(s.out, k, msgs)
    BY <1>4, <1>5, <1>8, Zenon
  <1>11. IsList(s.out)
    BY <1>2, <1>3 DEF IsList
  <1>12. \A k \in 1..FrameCount : ~(Local(f, k, msgs) /\ f.at <= 0)
    <2>. SUFFICES ASSUME NEW k \in 1..FrameCount, Local(f, k, msgs), f.at <= 0
                  PROVE  FALSE
      OBVIOUS
    <2>1. f.at \in 1..Len(BytesOf[msgs])
      BY FlipAt DEF Local
    <2>. QED
      BY <2>1
  <1>. QED
    BY <1>1, <1>2, <1>9, <1>10, <1>11, <1>12, Zenon DEF Session

-----------------------------------------------------------------------------
(* The reads.                                                              *)

(* What is left of a stream after p bytes, byte by byte. *)
LEMMA RestFacts ==
  ASSUME NEW S, NEW d \in Seq(S), NEW p \in 0..Len(d)
  PROVE  /\ SubSeq(d, p + 1, Len(d)) \in Seq(S)
         /\ Len(SubSeq(d, p + 1, Len(d))) = Len(d) - p
         /\ \A i \in 1..(Len(d) - p) : SubSeq(d, p + 1, Len(d))[i] = d[p + i]
  <1>1. PICK n \in Nat : n = Len(d)
    OBVIOUS
  <1>2. p + 1 \in 1..(n + 1) /\ \A i \in (p + 1)..n : d[i] \in S
    BY <1>1
  <1>3. SubSeq(d, p + 1, n) \in Seq(S) /\ Len(SubSeq(d, p + 1, n)) = n - p
    BY <1>1, <1>2
  <1>4. \A i \in 1..(n - p) : SubSeq(d, p + 1, n)[i] = d[p + i]
    BY <1>1, <1>2
  <1>. QED
    BY <1>1, <1>3, <1>4

(* These are the n bytes behind the first p. *)
IsRead(bytes, d, p, n) == Len(bytes) = n /\ \A i \in 1..n : bytes[i] = d[p + i]

(* A read takes a number of bytes off the rest. *)
LEMMA ReadFacts ==
  ASSUME NEW S, NEW d \in Seq(S), NEW p \in 0..Len(d), NEW size \in 0..(Len(d) - p),
         NEW w, w = SubSeq(d, p + 1, Len(d))
  PROVE  /\ IsRead(SubSeq(w, 1, size), d, p, size)
         /\ SubSeq(w, size + 1, Len(w)) = SubSeq(d, (p + size) + 1, Len(d))
  <1>1. PICK n \in Nat : n = Len(d)
    OBVIOUS
  <1>2. w \in Seq(S) /\ Len(w) = n - p /\ \A i \in 1..(n - p) : w[i] = d[p + i]
    BY <1>1, RestFacts
  <1>3. /\ Len(SubSeq(w, 1, size)) = size
        /\ \A i \in 1..size : SubSeq(w, 1, size)[i] = w[i]
    <2>1. size \in Nat /\ size <= Len(w)
      BY <1>1, <1>2
    <2>. QED
      BY <1>2, <2>1, PrefixFacts
  <1>4. \A i \in 1..size : SubSeq(w, 1, size)[i] = d[p + i]
    <2>1. \A i \in 1..size : i \in 1..(n - p)
      BY <1>1
    <2>. QED
      BY <1>2, <1>3, <2>1
  <1>5. PICK u \in Seq(S) : /\ u = SubSeq(w, size + 1, Len(w)) /\ Len(u) = (n - p) - size
                            /\ \A i \in 1..((n - p) - size) : u[i] = w[size + i]
    <2>1. size \in 0..Len(w)
      BY <1>1, <1>2
    <2>2. /\ SubSeq(w, size + 1, Len(w)) \in Seq(S)
          /\ Len(SubSeq(w, size + 1, Len(w))) = Len(w) - size
          /\ \A i \in 1..(Len(w) - size) : SubSeq(w, size + 1, Len(w))[i] = w[size + i]
      BY <1>2, <2>1, RestFacts, Zenon
    <2>. QED
      BY <1>2, <2>2
  <1>6. PICK v \in Seq(S) : /\ v = SubSeq(d, (p + size) + 1, Len(d)) /\ Len(v) = n - (p + size)
                            /\ \A i \in 1..(n - (p + size)) : v[i] = d[(p + size) + i]
    <2>1. p + size \in 0..Len(d)
      BY <1>1
    <2>2. /\ SubSeq(d, (p + size) + 1, Len(d)) \in Seq(S)
          /\ Len(SubSeq(d, (p + size) + 1, Len(d))) = Len(d) - (p + size)
          /\ \A i \in 1..(Len(d) - (p + size)) :
               SubSeq(d, (p + size) + 1, Len(d))[i] = d[(p + size) + i]
      BY <2>1, RestFacts, Zenon
    <2>. QED
      BY <1>1, <2>2
  <1>7. Len(u) = Len(v) /\ \A i \in 1..Len(u) : u[i] = v[i]
    <2>1. Len(u) = Len(v)
      BY <1>1, <1>5, <1>6
    <2>2. ASSUME NEW i \in 1..((n - p) - size)
          PROVE  u[i] = v[i]
      <3>1. size + i \in 1..(n - p) /\ p + (size + i) = (p + size) + i /\ i \in 1..(n - (p + size))
        BY <1>1
      <3>2. u[i] = w[size + i] /\ w[size + i] = d[p + (size + i)]
        BY <1>2, <1>5, <3>1
      <3>3. v[i] = d[(p + size) + i]
        BY <1>6, <3>1
      <3>. QED
        BY <3>1, <3>2, <3>3
    <2>. QED
      BY <1>5, <2>1, <2>2
  <1>8. u = v
    BY <1>7, SameSeq
  <1>. QED
    BY <1>3, <1>4, <1>5, <1>6, <1>8 DEF IsRead

(* The session reads some of the bytes that are left. *)
LEMMA SessionReads ==
  ASSUME \A m \in Messages : WellFormed(m), NEW msgs \in Streams,
         NEW f \in FaultsOf(Len(BytesOf[msgs])), NEW d, d = Damaged(BytesOf[msgs], f),
         NEW p \in 0..Len(d), NEW size \in 0..(Len(d) - p),
         NEW bytes, IsRead(bytes, d, p, size),
         NEW s, Session(s, p, msgs, f)
  PROVE  Session(Feed(s, bytes), p + size, msgs, f)
  <1>1. Len(d) \in Nat
    <2>1. d \in Seq(Octets)
      BY ReceivedFacts, Zenon
    <2>. QED
      BY <2>1
  <1>2. PICK n \in Nat : n = size
    BY <1>1
  <1>3. PICK g : /\ g[0] = s /\ Feed(s, bytes) = g[n]
                 /\ \A k \in 1..n : g[k] = FeedByte(g[k - 1], bytes[k])
    <2>1. Len(bytes) \in Nat /\ Len(bytes) = n
      BY <1>2 DEF IsRead
    <2>2. PICK g : AreFed(g, s, bytes, Len(bytes)) /\ Feed(s, bytes) = g[Len(bytes)]
      BY <2>1, FeedFacts
    <2>. QED
      BY <2>1, <2>2 DEF AreFed
  <1>. DEFINE T == {k \in Nat : k <= n => Session(g[k], p + k, msgs, f)}
  <1>4. 0 \in T
    <2>1. p + 0 = p /\ 0 \in Nat
      BY <1>1
    <2>. QED
      BY <1>3, <2>1
  <1>5. ASSUME NEW k \in T
        PROVE  k + 1 \in T
    <2>. SUFFICES ASSUME k + 1 <= n
                  PROVE  Session(g[k + 1], p + (k + 1), msgs, f)
      OBVIOUS
    <2>1. /\ k \in Nat /\ k <= n /\ k + 1 \in 1..n /\ (k + 1) - 1 = k /\ k + 1 \in 1..size
          /\ p + k \in Nat /\ p + k < Len(d) /\ (p + k) + 1 = p + (k + 1)
      BY <1>1, <1>2
    <2>2. Session(g[k], p + k, msgs, f)
      BY <1>5, <2>1
    <2>3. g[k + 1] = FeedByte(g[k], d[(p + k) + 1])
      BY <1>2, <1>3, <2>1 DEF IsRead
    <2>. HIDE DEF T
    <2>4. Session(FeedByte(g[k], d[(p + k) + 1]), (p + k) + 1, msgs, f)
      BY <2>1, <2>2, SessionStep, Zenon
    <2>. QED
      BY <2>1, <2>3, <2>4, Zenon
  <1>6. T = Nat
    <2>. HIDE DEF T
    <2>1. T \in SUBSET Nat
      BY DEF T
    <2>. QED
      BY <1>4, <1>5, <2>1, InductionSet
  <1>7. Session(g[n], p + n, msgs, f)
    <2>1. n \in T /\ n <= n
      BY <1>6
    <2>. QED
      BY <2>1
  <1>. QED
    BY <1>2, <1>3, <1>7

(* Only the three fields of the loop matter. *)
LEMMA SessionSame ==
  ASSUME NEW s, NEW t, DOMAIN t = Loop, t.rx = s.rx, t.out = s.out, t.alive = s.alive,
         NEW p, NEW msgs, NEW f, Session(s, p, msgs, f)
  PROVE  Session(t, p, msgs, f)
  <1>1. IsAlive(s) => IsAlive(t)
    BY DEF IsAlive
  <1>2. Reading(s, p, msgs) => Reading(t, p, msgs)
    BY <1>1, Zenon DEF Reading
  <1>3. ASSUME NEW k, Behind(s, p, msgs, k)
        PROVE  Behind(t, p, msgs, k)
    BY <1>1, <1>3, Zenon DEF Behind
  <1>. QED
    BY <1>2, <1>3, Zenon DEF Session

-----------------------------------------------------------------------------
(* The invariant: p bytes of the stream as it came have been read.         *)

State(r, o, a) == [rx |-> r, out |-> o, alive |-> a]

ReadSoFar ==
  /\ sent \in Streams /\ fault \in FaultsOf(Len(BytesOf[sent]))
  /\ fault.kind = "flip" => fault.byte # BytesOf[sent][fault.at]
  /\ \E p \in 0..Len(Damaged(BytesOf[sent], fault)) :
       /\ wire = SubSeq(Damaged(BytesOf[sent], fault), p + 1,
                        Len(Damaged(BytesOf[sent], fault)))
       /\ Session(State(rx, out, alive), p, sent, fault)

(* Nothing has been read. *)
LEMMA ReadSoFarInit ==
  ASSUME \A m \in Messages : WellFormed(m)
  PROVE  Init => ReadSoFar
  <1>. SUFFICES ASSUME Init
                PROVE  ReadSoFar
    OBVIOUS
  <1>1. sent \in Streams /\ fault \in FaultsOf(Len(BytesOf[sent]))
    BY DEF Init
  <1>2. PICK d \in Seq(Octets) : d = Damaged(BytesOf[sent], fault)
    BY <1>1, ReceivedFacts
  <1>3. wire = SubSeq(d, 0 + 1, Len(d)) /\ 0 \in 0..Len(d)
    <2>1. wire = d
      BY <1>2 DEF Init
    <2>2. SubSeq(d, 1, Len(d)) = d
      BY WholePrefix
    <2>3. 0 + 1 = 1 /\ 0 \in 0..Len(d)
      OBVIOUS
    <2>. QED
      BY <2>1, <2>2, <2>3, Zenon
  <1>4. Session(State(rx, out, alive), 0, sent, fault)
    <2>1. State(rx, out, alive) = [rx |-> NewReceiveFrame, out |-> << >>, alive |-> TRUE]
      BY DEF Init, State
    <2>. QED
      BY <1>1, <2>1, SessionStarts, Zenon
  <1>5. fault.kind = "flip" => fault.byte # BytesOf[sent][fault.at]
    BY DEF Init
  <1>. QED
    BY <1>1, <1>2, <1>3, <1>4, <1>5, Zenon DEF ReadSoFar

(* A read of any size keeps it. *)
LEMMA ReadSoFarNext ==
  ASSUME \A m \in Messages : WellFormed(m)
  PROVE  ReadSoFar /\ [Next]_vars => ReadSoFar'
  <1>1. ASSUME ReadSoFar, UNCHANGED vars
        PROVE  ReadSoFar'
    BY <1>1 DEF ReadSoFar, vars, State
  <1>2. ASSUME ReadSoFar, ReadChunk
        PROVE  ReadSoFar'
    <2>1. /\ sent \in Streams /\ fault \in FaultsOf(Len(BytesOf[sent]))
          /\ fault.kind = "flip" => fault.byte # BytesOf[sent][fault.at]
      BY <1>2 DEF ReadSoFar
    <2>2. PICK d \in Seq(Octets) : d = Damaged(BytesOf[sent], fault)
      BY <2>1, ReceivedFacts
    <2>3. PICK p \in 0..Len(d) : /\ wire = SubSeq(d, p + 1, Len(d))
                                 /\ Session(State(rx, out, alive), p, sent, fault)
      BY <1>2, <2>2, Zenon DEF ReadSoFar
    <2>4. PICK n, size, after :
            /\ n \in ReadSizes
            /\ size = IF n < Len(wire) THEN n ELSE Len(wire)
            /\ after = Feed(State(rx, out, alive), SubSeq(wire, 1, size))
            /\ wire' = SubSeq(wire, size + 1, Len(wire))
            /\ rx' = after.rx /\ out' = after.out /\ alive' = after.alive
            /\ sent' = sent /\ fault' = fault
      BY <1>2 DEF ReadChunk, State
    <2>5. size \in 0..(Len(d) - p)
      <3>1. Len(wire) = Len(d) - p
        BY <2>3, RestFacts, Zenon
      <3>2. n \in Nat
        BY <2>4, StreamAssumption
      <3>. QED
        BY <2>4, <3>1, <3>2
    <2>6. /\ IsRead(SubSeq(wire, 1, size), d, p, size)
          /\ SubSeq(wire, size + 1, Len(wire)) = SubSeq(d, (p + size) + 1, Len(d))
      BY <2>3, <2>5, ReadFacts, Zenon
    <2>7. Session(after, p + size, sent, fault)
      BY <2>1, <2>2, <2>3, <2>4, <2>5, <2>6, SessionReads, Zenon
    <2>8. Session(State(rx', out', alive'), p + size, sent, fault)
      <3>1. PICK t : t = State(rx', out', alive')
        OBVIOUS
      <3>2. DOMAIN t = Loop /\ t.rx = after.rx /\ t.out = after.out /\ t.alive = after.alive
        BY <2>4, <3>1, Zenon DEF State, Loop
      <3>. QED
        BY <2>7, <3>1, <3>2, SessionSame, Zenon
    <2>9. p + size \in 0..Len(d)
      BY <2>5
    <2>10. wire' = SubSeq(d, (p + size) + 1, Len(d))
      BY <2>4, <2>6
    <2>11. sent' = sent /\ fault' = fault
      BY <2>4
    <2>. QED
      BY <2>1, <2>2, <2>8, <2>9, <2>10, <2>11 DEF ReadSoFar, State
  <1>. QED
    BY <1>1, <1>2 DEF Next

(* It is an invariant. *)
LEMMA ReadSoFarInvariant ==
  ASSUME \A m \in Messages : WellFormed(m)
  PROVE  Spec => []ReadSoFar
  BY ReadSoFarInit, ReadSoFarNext, PTL DEF Spec

(* How far the stream has been read decides which frames have arrived. *)
LEMMA PromptlyFromInvariant ==
  ASSUME \A m \in Messages : WellFormed(m), ReadSoFar
  PROVE  PromptDelivery
  <1>1. sent \in Streams /\ fault \in FaultsOf(Len(BytesOf[sent]))
    BY DEF ReadSoFar
  <1>2. PICK d \in Seq(Octets) : d = Damaged(BytesOf[sent], fault)
    BY <1>1, ReceivedFacts
  <1>3. PICK p \in 0..Len(d) : /\ wire = SubSeq(d, p + 1, Len(d))
                               /\ Session(State(rx, out, alive), p, sent, fault)
    BY <1>2, Zenon DEF ReadSoFar
  <1>4. PICK c : c = Ends[sent][FrameCount] + Longer(fault)
    OBVIOUS
  <1>5. Len(d) = c /\ Len(wire) = Len(d) - p
    BY <1>1, <1>2, <1>3, <1>4, ReceivedFacts, RestFacts, Zenon
  <1>6. ASSUME NEW k \in 1..FrameCount, BeforeDamage(k), Arrived(k)
        PROVE  Good(out, k, sent)
    <2>1. PICK e \in Nat : e = Ends[sent][k]
      <3>1. k \in 0..FrameCount
        BY StreamAssumption
      <3>2. \A i \in 0..FrameCount : Ends[sent][i] \in Nat
        BY <1>1, StreamFacts DEF IsStream
      <3>. QED
        BY <3>1, <3>2, Zenon
    <2>2. c - Len(wire) >= e
      <3>1. Ends[sent][FrameCount] + Longer(fault) - Len(wire) >= Ends[sent][k]
        BY <1>6, Zenon DEF Arrived, Longer
      <3>2. PICK last \in Int, more \in Int : last = Ends[sent][FrameCount] /\ more = Longer(fault)
        <4>1. FrameCount \in 0..FrameCount
          BY StreamAssumption
        <4>2. Ends[sent][FrameCount] \in Nat
          BY <1>1, <4>1, StreamFacts, Zenon DEF IsStream
        <4>3. Longer(fault) \in Int
          BY DEF Longer
        <4>. QED
          BY <4>2, <4>3
      <3>3. last + more - Len(wire) >= e /\ c = last + more
        BY <1>4, <2>1, <3>1, <3>2, Zenon
      <3>4. Len(wire) \in Int
        BY <1>5
      <3>. QED
        BY <3>2, <3>3, <3>4
    <2>3. e <= p
      BY <1>5, <2>2
    <2>4. Whole(fault, k, sent)
      BY <1>6, Zenon DEF BeforeDamage, Whole
    <2>5. State(rx, out, alive).out = out
      BY DEF State
    <2>. QED
      BY <1>3, <2>1, <2>3, <2>4, <2>5, Zenon DEF Session
  <1>. QED
    BY <1>6, Zenon DEF PromptDelivery, Good

(* A frame that ends in front of the damage is handed on as soon as its     *)
(* last byte has been read, as it was written, for streams of any number of *)
(* standard frames that say their own length, any reads and any damage.     *)
THEOREM PromptlyDelivered ==
  ASSUME \A m \in Messages : WellFormed(m)
  PROVE  Spec => []PromptDelivery
  <1>1. ReadSoFar => PromptDelivery
    BY PromptlyFromInvariant
  <1>. QED
    BY <1>1, ReadSoFarInvariant, PTL

(* A session behind a frame it lost has handed on the frames around it.     *)
LEMMA BehindHands ==
  ASSUME \A m \in Messages : WellFormed(m), NEW msgs \in Streams, NEW s, IsList(s.out),
         NEW p \in Nat, NEW k \in 1..FrameCount, Behind(s, p, msgs, k)
  PROVE  /\ IsAlive(s)
         /\ \E g : /\ Len(g) \in 0..FrameCount
                   /\ \A i \in 1..Len(g) : Says(g[i], msgs[i])
                   /\ \/ s.out = g /\ Len(g) < k
                      \/ Without(s.out, g, k)
                   /\ p = Len(BytesOf[msgs]) => Len(g) = FrameCount
  <1>1. PICK n \in Nat \ {0} : n = FrameCount
    BY StreamAssumption
  <1>2. PICK e : e = Ends[msgs]
    OBVIOUS
  <1>3. /\ e[n] = Len(BytesOf[msgs]) /\ \A i \in 0..n : e[i] \in Nat
        /\ \A i, j \in 0..n : i <= j => e[i] <= e[j]
    BY <1>1, <1>2, StreamFacts, Zenon DEF IsStream
  <1>4. PICK z : /\ Reading(z, p, msgs)
                 /\ \/ Within(p, k, msgs) /\ s.out = z.out
                    \/ Without(s.out, z.out, k)
    BY DEF Behind
  <1>5. PICK j \in 0..n : /\ Len(z.out) = j /\ \A i \in 1..j : Good(z.out, i, msgs)
                          /\ j < n => p < e[j + 1]
    BY <1>1, <1>2, <1>4, Zenon DEF Reading
  <1>6. PICK g : g = z.out
    OBVIOUS
  <1>7. Len(g) \in 0..FrameCount /\ \A i \in 1..Len(g) : Says(g[i], msgs[i])
    BY <1>1, <1>5, <1>6 DEF Good
  <1>8. \/ s.out = g /\ Len(g) < k
        \/ Without(s.out, g, k)
    <2>1. CASE Within(p, k, msgs) /\ s.out = z.out
      <3>1. Len(z.out) = k - 1
        BY <1>4, <2>1, ReadingWithin, Zenon
      <3>2. k - 1 < k
        BY <1>1
      <3>. QED
        BY <1>6, <2>1, <3>1, <3>2, Zenon
    <2>. QED
      BY <1>4, <1>6, <2>1, Zenon
  <1>9. ASSUME p = Len(BytesOf[msgs])
        PROVE  Len(g) = FrameCount
    <2>. SUFFICES ASSUME j < n
                  PROVE  FALSE
      BY <1>1, <1>5, <1>6
    <2>1. j + 1 \in 0..n /\ n \in 0..n /\ j + 1 <= n
      OBVIOUS
    <2>2. e[j + 1] <= e[n] /\ e[j + 1] \in Nat /\ e[n] \in Nat
      BY <1>3, <2>1
    <2>. QED
      BY <1>3, <1>5, <1>9, <2>2
  <1>10. IsAlive(s)
    BY DEF Behind
  <1>. QED
    BY <1>7, <1>8, <1>9, <1>10, Zenon

(* Where the session is, and that it is one. *)
LEMMA SoFarFacts ==
  ASSUME \A m \in Messages : WellFormed(m), ReadSoFar
  PROVE  \E p, s :
           /\ p \in Nat /\ Session(s, p, sent, fault) /\ s.out = out /\ s.alive = alive
           /\ fault.kind = "flip" /\ wire = << >> => p = Len(BytesOf[sent])
           /\ \A k \in 1..FrameCount :
                LengthKept(k) => Local(fault, k, sent) /\ fault.at \in 1..Len(BytesOf[sent])
  <1>1. /\ sent \in Streams /\ fault \in FaultsOf(Len(BytesOf[sent]))
        /\ fault.kind = "flip" => fault.byte # BytesOf[sent][fault.at]
    BY DEF ReadSoFar
  <1>2. PICK d \in Seq(Octets) : d = Damaged(BytesOf[sent], fault)
    BY <1>1, ReceivedFacts
  <1>3. PICK p \in 0..Len(d) : /\ wire = SubSeq(d, p + 1, Len(d))
                               /\ Session(State(rx, out, alive), p, sent, fault)
    BY <1>1, <1>2, Zenon DEF ReadSoFar
  <1>4. PICK s : s = State(rx, out, alive) /\ s.out = out /\ s.alive = alive
    <2>1. State(rx, out, alive).out = out /\ State(rx, out, alive).alive = alive
      BY DEF State
    <2>. QED
      BY <2>1, Zenon
  <1>5. ASSUME fault.kind = "flip", wire = << >>
        PROVE  p = Len(BytesOf[sent])
    <2>1. Len(d) = Len(BytesOf[sent])
      BY <1>1, <1>2, <1>5, FlipDamage, Zenon DEF OneFlipped
    <2>2. Len(wire) = Len(d) - p
      BY <1>3, RestFacts, Zenon
    <2>3. Len(<< >>) = 0
      OBVIOUS
    <2>. QED
      BY <1>5, <2>1, <2>2, <2>3
  <1>6. ASSUME NEW k \in 1..FrameCount, LengthKept(k)
        PROVE  Local(fault, k, sent) /\ fault.at \in 1..Len(BytesOf[sent])
    <2>1. Local(fault, k, sent)
      BY <1>1, <1>6, Zenon DEF LengthKept, Local
    <2>2. fault.at \in 1..Len(BytesOf[sent])
      BY <1>1, <2>1, FlipAt DEF Local
    <2>. QED
      BY <2>1, <2>2
  <1>7. p \in Nat
    <2>1. Len(d) \in Nat
      OBVIOUS
    <2>. QED
      BY <2>1
  <1>8. Session(s, p, sent, fault)
    BY <1>3, <1>4
  <1>. QED
    BY <1>4, <1>5, <1>6, <1>7, <1>8, Zenon

(* When all has been read, a session that lost one frame has handed on the  *)
(* others.                                                                  *)
LEMMA FlipFromInvariant ==
  ASSUME \A m \in Messages : WellFormed(m), ReadSoFar
  PROVE  FlipCostsOneFrame
  <1>. SUFFICES ASSUME wire = << >>, NEW k \in 1..FrameCount, LengthKept(k)
                PROVE  /\ Len(out) = FrameCount - 1
                       /\ \A i \in 1..Len(out) :
                            Says(out[i], sent[IF i < k THEN i ELSE i + 1])
    BY DEF FlipCostsOneFrame
  <1>1. PICK p, s :
          /\ p \in Nat /\ Session(s, p, sent, fault) /\ s.out = out
          /\ fault.kind = "flip" /\ wire = << >> => p = Len(BytesOf[sent])
          /\ Local(fault, k, sent) /\ fault.at \in 1..Len(BytesOf[sent])
    BY SoFarFacts, Zenon
  <1>2. p = Len(BytesOf[sent]) /\ fault.at <= p
    <2>1. p = Len(BytesOf[sent])
      BY <1>1, Zenon DEF Local
    <2>. QED
      BY <1>1, <2>1
  <1>3. IsList(s.out) /\ Behind(s, p, sent, k)
    BY <1>1, <1>2, Zenon DEF Session
  <1>4. sent \in Streams
    BY DEF ReadSoFar
  <1>5. PICK g : /\ Len(g) = FrameCount
                 /\ \A i \in 1..Len(g) : Says(g[i], sent[i])
                 /\ \/ out = g /\ Len(g) < k
                    \/ Without(out, g, k)
    BY <1>1, <1>2, <1>3, <1>4, BehindHands, Zenon
  <1>6. PICK n \in Nat : n = Len(out)
    BY <1>1, <1>3, ListFacts
  <1>7. k \in 1..FrameCount /\ ~(Len(g) < k) /\ FrameCount = n + 1
        /\ \A i \in 1..n : out[i] = g[IF i < k THEN i ELSE i + 1]
    <2>1. ~(FrameCount < k)
      BY StreamAssumption
    <2>2. Without(out, g, k)
      BY <1>5, <2>1, Zenon
    <2>. QED
      BY <1>5, <1>6, <2>1, <2>2, Zenon DEF Without
  <1>8. \A i \in 1..n : (IF i < k THEN i ELSE i + 1) \in 1..FrameCount
    BY <1>7
  <1>9. \A i \in 1..n : Says(out[i], sent[IF i < k THEN i ELSE i + 1])
    BY <1>5, <1>7, <1>8, Zenon
  <1>10. n = FrameCount - 1
    BY <1>7
  <1>. QED
    BY <1>6, <1>9, <1>10, Zenon

(* A byte that is flipped in place, whichever it is and whatever it         *)
(* becomes, costs the frame it lies in and no other: the checksum refuses   *)
(* that frame, and the parser that takes over starts at the next one.       *)
THEOREM FlipCosts ==
  ASSUME \A m \in Messages : WellFormed(m)
  PROVE  Spec => []FlipCostsOneFrame
  <1>1. ReadSoFar => FlipCostsOneFrame
    BY FlipFromInvariant
  <1>. QED
    BY <1>1, ReadSoFarInvariant, PTL

(* Nothing is damaged, or only a byte in place. *)
LocalDamage == fault.kind = "none" \/ \E k \in 1..FrameCount : LengthKept(k)

(* What is handed on is then what was written, without one frame at most.   *)
LEMMA OnlySentFromInvariant ==
  ASSUME \A m \in Messages : WellFormed(m), ReadSoFar, LocalDamage
  PROVE  OnlySentFrames /\ ParserNeverPanics
  <1>1. PICK p, s :
          /\ p \in Nat /\ Session(s, p, sent, fault) /\ s.out = out /\ s.alive = alive
          /\ \A k \in 1..FrameCount :
               LengthKept(k) => Local(fault, k, sent) /\ fault.at \in 1..Len(BytesOf[sent])
    BY SoFarFacts, Zenon
  <1>2. sent \in Streams /\ IsList(out)
    BY <1>1 DEF ReadSoFar, Session
  <1>3. PICK n \in Nat \ {0} : n = FrameCount
    BY StreamAssumption
  <1>4. ASSUME NEW g, Len(g) \in 0..n, \A i \in 1..Len(g) : Says(g[i], sent[i]),
               out = g \/ \E k \in 1..n : Without(out, g, k)
        PROVE  OnlySentFrames
    <2>1. CASE out = g
      <3>1. PICK j \in 0..n : j = Len(out)
        BY <1>4, <2>1
      <3>2. PICK from : from = [i \in 1..j |-> i]
        OBVIOUS
      <3>3. /\ from \in [1..j -> 1..n] /\ j <= n
            /\ \A i \in 1..j : from[i] = i
            /\ \A i, k \in 1..j : i < k => from[i] < from[k]
        BY <3>2
      <3>4. \A i \in 1..j : Says(out[i], sent[from[i]])
        BY <1>4, <2>1, <3>1, <3>3, Zenon
      <3>. QED
        BY <1>3, <3>1, <3>3, <3>4, Zenon DEF OnlySentFrames
    <2>2. CASE \E k \in 1..n : Without(out, g, k)
      <3>1. PICK k \in 1..n : Without(out, g, k)
        BY <2>2
      <3>2. PICK j \in Nat : j = Len(out)
        BY <1>2, ListFacts
      <3>3. PICK l \in 0..n : l = Len(g)
        BY <1>4
      <3>4. l = j + 1 /\ k \in 1..l /\ \A i \in 1..j : out[i] = g[IF i < k THEN i ELSE i + 1]
        BY <3>1, <3>2, <3>3, Zenon DEF Without
      <3>5. PICK from : from = [i \in 1..j |-> IF i < k THEN i ELSE i + 1]
        OBVIOUS
      <3>6. /\ from \in [1..j -> 1..n] /\ j <= n
            /\ \A i, h \in 1..j : i < h => from[i] < from[h]
        BY <3>3, <3>4, <3>5
      <3>7. \A i \in 1..j : out[i] = g[from[i]] /\ from[i] \in 1..l
        BY <3>4, <3>5
      <3>8. \A i \in 1..j : Says(out[i], sent[from[i]])
        BY <1>4, <3>3, <3>7, Zenon
      <3>. QED
        BY <1>3, <3>2, <3>6, <3>8, Zenon DEF OnlySentFrames
    <2>. QED
      BY <1>4, <2>1, <2>2
  <1>5. CASE Clean(fault, p)
    <2>1. Reading(s, p, sent)
      BY <1>1, <1>5, Zenon DEF Session
    <2>2. PICK j \in 0..n : Len(out) = j /\ \A i \in 1..j : Good(out, i, sent)
      BY <1>1, <1>3, <2>1, Zenon DEF Reading
    <2>3. OnlySentFrames
      BY <1>4, <2>2, Zenon DEF Good
    <2>4. ParserNeverPanics
      BY <1>1, <2>1, Zenon DEF Reading, IsAlive, ParserNeverPanics
    <2>. QED
      BY <2>3, <2>4
  <1>6. CASE ~Clean(fault, p)
    <2>1. PICK k \in 1..n : Local(fault, k, sent) /\ fault.at \in 1..Len(BytesOf[sent])
      BY <1>1, <1>3, <1>6, Zenon DEF LocalDamage, Clean
    <2>2. fault.at <= p
      <3>1. ~(p < fault.at)
        BY <1>6 DEF Clean
      <3>2. p \in Nat
        BY <1>1
      <3>. QED
        BY <2>1, <3>1, <3>2
    <2>3. Behind(s, p, sent, k)
      BY <1>1, <1>3, <2>1, <2>2, Zenon DEF Session
    <2>4. /\ IsAlive(s)
          /\ \E g : /\ Len(g) \in 0..n
                    /\ \A i \in 1..Len(g) : Says(g[i], sent[i])
                    /\ out = g \/ Without(out, g, k)
      BY <1>1, <1>2, <1>3, <2>3, BehindHands, Zenon
    <2>5. OnlySentFrames
      BY <1>4, <2>4, Zenon
    <2>6. ParserNeverPanics
      BY <1>1, <2>4, Zenon DEF IsAlive, ParserNeverPanics
    <2>. QED
      BY <2>5, <2>6
  <1>. QED
    BY <1>5, <1>6

(* Without damage, or when a byte is flipped in place, the session hands on *)
(* only frames that were written, in their order and none twice, and does   *)
(* not panic.                                                               *)
THEOREM CleanStream ==
  ASSUME \A m \in Messages : WellFormed(m)
  PROVE  Spec => [](LocalDamage => OnlySentFrames /\ ParserNeverPanics)
  <1>1. ReadSoFar => (LocalDamage => OnlySentFrames /\ ParserNeverPanics)
    BY OnlySentFromInvariant
  <1>. QED
    BY <1>1, ReadSoFarInvariant, PTL

-----------------------------------------------------------------------------
(* The types.                                                              *)

(* A parser whose bytes are bytes and that has not finished. *)
IsReceiver(r) ==
  /\ DOMAIN r = Fields
  /\ r.buffer \in Seq(Bytes) /\ r.raw \in Seq(Bytes)
  /\ r.command \in KnownCommands \cup {NoCommand}
  /\ r.complete = FALSE

(* A byte of a frame leaves it one as long as it wants more. *)
LEMMA FrameByteTyped ==
  ASSUME NEW r, IsReceiver(r), NEW b \in Bytes, NEW c, c = OnFrameByte(r, b),
         c.outcome = "more"
  PROVE  IsReceiver(c.rx)
  <1>1. PICK g : g = [r EXCEPT !.buffer = Append(@, b)]
    OBVIOUS
  <1>2. IsReceiver(g)
    <2>1. PICK u \in Seq(Bytes) : u = Append(r.buffer, b)
      <3>1. PICK w \in Seq(Bytes) : w = r.buffer
        BY DEF IsReceiver
      <3>2. Append(w, b) \in Seq(Bytes)
        OBVIOUS
      <3>. QED
        BY <3>1, <3>2, Zenon
    <2>2. g = [r EXCEPT !.buffer = u]
      BY <1>1, <2>1, Zenon
    <2>. QED
      BY <2>2, Zenon DEF IsReceiver, Fields
  <1>3. PICK n : n = Len(g.buffer)
    OBVIOUS
  <1>4. c = (IF n = 2 THEN OnCommandByte(g, b)
             ELSE IF n = r.headerLength /\ r.frameLength = 0 THEN OnHeader(g)
             ELSE IF r.frameLength > 0 /\ n = r.frameLength THEN OnLastByte(g)
             ELSE [rx |-> g, outcome |-> IF r.frameLength > 0 /\ n > r.frameLength
                                         THEN "FrameLengthExceeded" ELSE "more"])
    BY <1>1, <1>3, Zenon DEF OnFrameByte
  <1>5. CASE c = OnCommandByte(g, b)
    <2>1. PICK cmd : cmd = FromByte(b) /\ cmd \in KnownCommands \cup {NoCommand}
      BY DEF FromByte
    <2>2. PICK h : h = g.headerLength + (IF IsPlantByte(b) THEN 4 ELSE 0)
                                      + (IF IsLong(cmd) THEN 1 ELSE 0)
      OBVIOUS
    <2>3. c = IF cmd \in {NoCommand, Extension}
              THEN [rx |-> g, outcome |-> "InvalidCommand"]
              ELSE [rx |-> [g EXCEPT !.command = cmd, !.headerLength = h], outcome |-> "more"]
      BY <1>5, <2>1, <2>2, Zenon DEF OnCommandByte
    <2>4. CASE c = [rx |-> g, outcome |-> "InvalidCommand"]
      BY <2>4
    <2>5. CASE c = [rx |-> [g EXCEPT !.command = cmd, !.headerLength = h], outcome |-> "more"]
      <3>1. PICK e : e = [g EXCEPT !.command = cmd, !.headerLength = h]
        OBVIOUS
      <3>2. IsReceiver(e)
        BY <1>2, <2>1, <3>1, Zenon DEF IsReceiver, Fields
      <3>3. c.rx = e
        BY <2>5, <3>1
      <3>. QED
        BY <3>2, <3>3
    <2>. QED
      BY <2>3, <2>4, <2>5, Zenon
  <1>6. CASE c = OnHeader(g)
    <2>1. ASSUME NEW l, NEW a, NEW d
          PROVE  IsReceiver([rx |-> [g EXCEPT !.frameLength = l, !.address = a, !.id = d],
                             outcome |-> "more"].rx)
      <3>1. PICK e : e = [g EXCEPT !.frameLength = l, !.address = a, !.id = d]
        OBVIOUS
      <3>2. IsReceiver(e)
        BY <1>2, <3>1, Zenon DEF IsReceiver, Fields
      <3>. QED
        BY <3>1, <3>2
    <2>2. PICK l :
            l = g.headerLength - (IF IsPlantByte(g.command) THEN 8 ELSE 4)
                  + (IF IsLong(g.command) THEN 256 * g.buffer[3] + g.buffer[4] ELSE g.buffer[3])
                  + 2
      OBVIOUS
    <2>3. PICK first : first = IF IsLong(g.command) THEN 5 ELSE 4
      OBVIOUS
    <2>4. PICK a : a = IF IsPlantByte(g.command) THEN SubSeq(g.buffer, first, first + 3) ELSE << >>
      OBVIOUS
    <2>5. PICK oid : oid = IF IsPlantByte(g.command) THEN first + 4 ELSE first
      OBVIOUS
    <2>6. PICK d : d = SubSeq(g.buffer, oid, oid + 3)
      OBVIOUS
    <2>7. c = [rx |-> [g EXCEPT !.frameLength = l, !.address = a, !.id = d], outcome |-> "more"]
      BY <1>6, <2>2, <2>3, <2>4, <2>5, <2>6, ZenonT(60) DEF OnHeader
    <2>. QED
      BY <2>1, <2>7, Zenon
  <1>7. CASE c = OnLastByte(g)
    <2>1. /\ \A x : [rx |-> x, outcome |-> "panic"].outcome # "more"
          /\ \A x : [rx |-> x, outcome |-> "complete"].outcome # "more"
          /\ \A x : [rx |-> x, outcome |-> "FrameCrcMismatch"].outcome # "more"
      OBVIOUS
    <2>. QED
      BY <1>7, <2>1, Zenon DEF OnLastByte
  <1>8. CASE \E o : c = [rx |-> g, outcome |-> o]
    <2>1. c.rx = g
      BY <1>8
    <2>. QED
      BY <1>2, <2>1
  <1>. QED
    BY <1>4, <1>5, <1>6, <1>7, <1>8, Zenon

(* So does any byte. *)
LEMMA ConsumeTyped ==
  ASSUME NEW r, IsReceiver(r), NEW b \in Bytes, NEW c, c = ConsumeByte(r, b),
         c.outcome = "more"
  PROVE  IsReceiver(c.rx)
  <1>1. PICK y \in Seq(Bytes), u \in Seq(Bytes) : y = Append(r.raw, b) /\ u = <<b>>
    <2>1. PICK w \in Seq(Bytes) : w = r.raw
      BY DEF IsReceiver
    <2>2. Append(w, b) \in Seq(Bytes) /\ <<b>> \in Seq(Bytes)
      OBVIOUS
    <2>. QED
      BY <2>1, <2>2, Zenon
  <1>2. PICK kept : kept = [r EXCEPT !.raw = y]
    OBVIOUS
  <1>3. IsReceiver(kept)
    BY <1>1, <1>2, Zenon DEF IsReceiver, Fields
  <1>4. ASSUME NEW e \in BOOLEAN
        PROVE  IsReceiver([kept EXCEPT !.escaping = e])
    <2>1. PICK g : g = [kept EXCEPT !.escaping = e]
      OBVIOUS
    <2>2. IsReceiver(g)
      BY <1>3, <2>1, Zenon DEF IsReceiver, Fields
    <2>. QED
      BY <2>1, <2>2
  <1>5. IsReceiver([r EXCEPT !.raw = u, !.buffer = u])
    <2>1. PICK g : g = [r EXCEPT !.raw = u, !.buffer = u]
      OBVIOUS
    <2>2. IsReceiver(g)
      BY <1>1, <2>1, Zenon DEF IsReceiver, Fields
    <2>. QED
      BY <2>1, <2>2
  <1>6. c = (IF r.buffer = << >>
             THEN [rx |-> IF b = START_TOKEN THEN [r EXCEPT !.raw = u, !.buffer = u] ELSE r,
                   outcome |-> "more"]
             ELSE IF r.escaping THEN OnFrameByte([kept EXCEPT !.escaping = FALSE], b)
             ELSE IF b = ESCAPE_TOKEN
             THEN [rx |-> [kept EXCEPT !.escaping = TRUE], outcome |-> "more"]
             ELSE OnFrameByte(kept, b))
    BY <1>1, <1>2, Zenon DEF ConsumeByte
  <1>7. \A g : c = [rx |-> g, outcome |-> "more"] => c.rx = g
    OBVIOUS
  <1>8. TRUE \in BOOLEAN /\ FALSE \in BOOLEAN
    OBVIOUS
  <1>9. \A g : IsReceiver(g) /\ c = OnFrameByte(g, b) => IsReceiver(c.rx)
    BY FrameByteTyped, Zenon
  <1>10. CASE r.buffer = << >>
    <2>1. PICK g : g = IF b = START_TOKEN THEN [r EXCEPT !.raw = u, !.buffer = u] ELSE r
      OBVIOUS
    <2>2. IsReceiver(g)
      BY <1>5, <2>1, Zenon
    <2>3. c = [rx |-> g, outcome |-> "more"]
      BY <1>6, <1>10, <2>1, Zenon
    <2>. QED
      BY <1>7, <2>2, <2>3, Zenon
  <1>11. CASE r.buffer # << >> /\ r.escaping
    BY <1>4, <1>6, <1>8, <1>9, <1>11, Zenon
  <1>12. CASE r.buffer # << >> /\ ~r.escaping /\ b = ESCAPE_TOKEN
    BY <1>4, <1>6, <1>7, <1>8, <1>12, Zenon
  <1>13. CASE r.buffer # << >> /\ ~r.escaping /\ b # ESCAPE_TOKEN
    BY <1>3, <1>6, <1>9, <1>13, Zenon
  <1>. QED
    BY <1>10, <1>11, <1>12, <1>13, Zenon

(* The loop has its types. *)
Typed(s) == DOMAIN s = Loop /\ IsReceiver(s.rx) /\ s.alive \in BOOLEAN

(* A new parser has them. *)
LEMMA NewTyped == IsReceiver(NewReceiveFrame)
  <1>1. << >> \in Seq(Bytes)
    OBVIOUS
  <1>. QED
    BY <1>1, Zenon DEF NewReceiveFrame, IsReceiver, Fields

(* Every byte keeps them. *)
LEMMA LoopTyped ==
  ASSUME NEW s, Typed(s), NEW b \in Bytes, NEW t, t = FeedByte(s, b)
  PROVE  Typed(t)
  <1>1. PICK c : c = ConsumeByte(s.rx, b) /\ c.outcome \in Outcomes
    BY OutcomeFacts
  <1>2. DOMAIN s = Loop /\ IsReceiver(s.rx) /\ s.alive \in BOOLEAN
    BY DEF Typed
  <1>3. CASE s.alive = FALSE
    <2>1. t = s
      BY <1>3, Zenon DEF FeedByte
    <2>. QED
      BY <2>1
  <1>4. CASE s.alive = TRUE /\ c.outcome = "more"
    <2>1. Kept(s, t, c.rx)
      BY <1>1, <1>2, <1>4, LoopMore, Zenon DEF IsAlive
    <2>2. IsReceiver(c.rx)
      BY <1>1, <1>2, <1>4, ConsumeTyped, Zenon
    <2>3. c.outcome # "complete" /\ c.outcome # "panic" /\ c.outcome \notin FrameErrors
      BY <1>4 DEF FrameErrors
    <2>4. t = [s EXCEPT !.rx = c.rx]
      BY <1>1, <1>4, <2>3, Zenon DEF FeedByte
    <2>. QED
      BY <1>2, <2>2, <2>4, Zenon DEF Typed, Loop
  <1>5. CASE s.alive = TRUE /\ c.outcome = "complete"
    <2>1. c.outcome # "more" /\ c.outcome # "panic" /\ c.outcome \notin FrameErrors
      BY <1>5 DEF FrameErrors
    <2>2. PICK o : t = [s EXCEPT !.rx = NewReceiveFrame, !.out = o]
      BY <1>1, <1>5, <2>1, Zenon DEF FeedByte
    <2>. QED
      BY <1>2, <2>2, NewTyped, Zenon DEF Typed, Loop
  <1>6. CASE s.alive = TRUE /\ c.outcome \in FrameErrors
    <2>1. c.outcome # "more" /\ c.outcome # "complete" /\ c.outcome # "panic"
      BY <1>6 DEF FrameErrors
    <2>2. t = [s EXCEPT !.rx = NewReceiveFrame]
      BY <1>1, <1>6, <2>1, Zenon DEF FeedByte
    <2>. QED
      BY <1>2, <2>2, NewTyped, Zenon DEF Typed, Loop
  <1>7. CASE s.alive = TRUE /\ c.outcome = "panic"
    <2>1. c.outcome # "more" /\ c.outcome # "complete" /\ c.outcome \notin FrameErrors
      BY <1>7 DEF FrameErrors
    <2>2. t = [s EXCEPT !.alive = FALSE]
      BY <1>1, <1>7, <2>1, Zenon DEF FeedByte
    <2>3. DOMAIN t = Loop /\ t.rx = s.rx /\ t.alive = FALSE
      BY <1>2, <2>2, Zenon DEF Loop
    <2>. QED
      BY <1>2, <2>3 DEF Typed
  <1>. QED
    BY <1>1, <1>2, <1>3, <1>4, <1>5, <1>6, <1>7 DEF Outcomes

(* So does a read of any number of bytes. *)
LEMMA FeedTyped ==
  ASSUME NEW s, Typed(s), NEW bytes \in Seq(Bytes)
  PROVE  Typed(Feed(s, bytes))
  <1>1. PICK n \in Nat : n = Len(bytes)
    OBVIOUS
  <1>2. PICK f : AreFed(f, s, bytes, n) /\ Feed(s, bytes) = f[n]
    BY <1>1, FeedFacts
  <1>. DEFINE T == {k \in Nat : k <= n => Typed(f[k])}
  <1>3. 0 \in T
    BY <1>2 DEF AreFed
  <1>4. ASSUME NEW k \in T
        PROVE  k + 1 \in T
    <2>. SUFFICES ASSUME k + 1 <= n
                  PROVE  Typed(f[k + 1])
      OBVIOUS
    <2>1. k \in Nat /\ k <= n /\ k + 1 \in 1..n /\ (k + 1) - 1 = k
      OBVIOUS
    <2>2. Typed(f[k])
      BY <2>1
    <2>3. PICK b \in Bytes : b = bytes[k + 1]
      BY <1>1, <2>1
    <2>. HIDE DEF T
    <2>4. f[k + 1] = FeedByte(f[k], b)
      BY <1>2, <2>1, <2>3, Zenon DEF AreFed
    <2>. QED
      BY <2>2, <2>4, LoopTyped, Zenon
  <1>5. T = Nat
    <2>. HIDE DEF T
    <2>1. T \in SUBSET Nat
      BY DEF T
    <2>. QED
      BY <1>3, <1>4, <2>1, InductionSet
  <1>6. Typed(f[n])
    <2>1. n \in T /\ n <= n
      BY <1>5
    <2>. QED
      BY <2>1
  <1>. QED
    BY <1>2, <1>6

(* The letters of the frames are bytes. *)
LEMMA LettersBytes ==
  ASSUME \A m \in Messages : WellFormed(m)
  PROVE  Letters \subseteq Bytes
  <1>1. ASSUME NEW m \in Messages
        PROVE  Alphabet(m) \subseteq Bytes
    <2>1. Check(m) \in Seq(Bytes) /\ Len(Check(m)) = 2
      BY <1>1, FrameBytes
    <2>2. Check(m)[1] \in Bytes /\ Check(m)[2] \in Bytes
      BY <2>1, SMTT(40)
    <2>. QED
      BY <2>2 DEF Alphabet
  <1>. QED
    BY <1>1 DEF Letters

TypeInvariant == sent \in Streams /\ wire \in Seq(Bytes) /\ Typed(State(rx, out, alive))

(* What has been read and what has not is bytes, of any stream with any     *)
(* damage, the parser knows its command and is never kept when it has       *)
(* completed a frame.                                                       *)
THEOREM TypeCorrect ==
  ASSUME \A m \in Messages : WellFormed(m)
  PROVE  Spec => []TypeOK
  <1>1. ASSUME Init
        PROVE  TypeInvariant
    <2>1. sent \in Streams /\ fault \in FaultsOf(Len(BytesOf[sent]))
          /\ wire = Damaged(BytesOf[sent], fault)
      BY <1>1 DEF Init
    <2>2. BytesOf[sent] \in Seq(Letters)
      BY <2>1, StreamFacts DEF IsStream
    <2>3. PICK b \in Seq(Bytes) : b = BytesOf[sent]
      BY <2>2, LettersBytes
    <2>4. Damaged(b, fault) \in Seq(Bytes)
      BY <2>1, <2>3, StreamAssumption, DamagedFacts
    <2>5. Typed(State(rx, out, alive))
      <3>1. State(rx, out, alive) = [rx |-> NewReceiveFrame, out |-> << >>, alive |-> TRUE]
        BY <1>1 DEF Init, State
      <3>2. PICK s : s = [rx |-> NewReceiveFrame, out |-> << >>, alive |-> TRUE]
        OBVIOUS
      <3>3. DOMAIN s = Loop /\ s.rx = NewReceiveFrame /\ s.alive = TRUE
        BY <3>2, Zenon DEF Loop
      <3>. QED
        BY <3>1, <3>2, <3>3, NewTyped DEF Typed
    <2>. QED
      BY <2>1, <2>3, <2>4, <2>5 DEF TypeInvariant
  <1>2. ASSUME TypeInvariant, [Next]_vars
        PROVE  TypeInvariant'
    <2>1. CASE UNCHANGED vars
      BY <1>2, <2>1 DEF TypeInvariant, vars, State
    <2>2. CASE ReadChunk
      <3>1. PICK n, size, after :
              /\ n \in ReadSizes
              /\ size = IF n < Len(wire) THEN n ELSE Len(wire)
              /\ after = Feed(State(rx, out, alive), SubSeq(wire, 1, size))
              /\ wire' = SubSeq(wire, size + 1, Len(wire))
              /\ rx' = after.rx /\ out' = after.out /\ alive' = after.alive
              /\ sent' = sent
        BY <2>2 DEF ReadChunk, State
      <3>2. wire \in Seq(Bytes) /\ sent \in Streams /\ Typed(State(rx, out, alive))
        BY <1>2 DEF TypeInvariant
      <3>3. size \in Nat /\ size <= Len(wire)
        BY <3>1, <3>2, StreamAssumption
      <3>4. SubSeq(wire, 1, size) \in Seq(Bytes)
        BY <3>2, <3>3, PrefixFacts
      <3>5. wire' \in Seq(Bytes)
        <4>1. size \in 0..Len(wire)
          BY <3>2, <3>3
        <4>. QED
          BY <3>1, <3>2, <4>1, RestFacts
      <3>6. Typed(after)
        BY <3>1, <3>2, <3>4, FeedTyped, Zenon
      <3>7. Typed(State(rx', out', alive'))
        <4>1. PICK t : t = State(rx', out', alive')
          OBVIOUS
        <4>2. DOMAIN t = Loop /\ t.rx = after.rx /\ t.alive = after.alive
          BY <3>1, <4>1, Zenon DEF State, Loop
        <4>. QED
          BY <3>6, <4>1, <4>2 DEF Typed
      <3>. QED
        BY <3>1, <3>2, <3>5, <3>7 DEF TypeInvariant, State
    <2>. QED
      BY <1>2, <2>1, <2>2 DEF Next
  <1>3. TypeInvariant => TypeOK
    <2>. SUFFICES ASSUME TypeInvariant
                  PROVE  TypeOK
      OBVIOUS
    <2>1. State(rx, out, alive).rx = rx /\ State(rx, out, alive).alive = alive
      BY DEF State
    <2>2. IsReceiver(rx) /\ alive \in BOOLEAN
      BY <2>1, Zenon DEF TypeInvariant, Typed
    <2>. QED
      BY <2>2 DEF TypeInvariant, TypeOK, IsReceiver
  <1>. QED
    BY <1>1, <1>2, <1>3, PTL DEF Spec
=============================================================================
