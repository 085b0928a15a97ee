------------------------------- MODULE QueueFacts -------------------------------
(***************************************************************************)
(* Facts about sequences used as queues, for the proofs about the modules  *)
(* whose connections, buffers and wait queues are sequences.               *)
(***************************************************************************)
EXTENDS Naturals, Sequences, TLAPS

(* A queue is empty when it has no elements. *)
LEMMA EmptyFacts ==
  ASSUME NEW S, NEW s \in Seq(S)
  PROVE  Len(s) \in Nat /\ (s = << >> <=> Len(s) = 0)
  OBVIOUS

(* Taking the first element off a queue shifts the others by one. *)
LEMMA TailFacts ==
  ASSUME NEW S, NEW s \in Seq(S), s # << >>
  PROVE  /\ Head(s) \in S /\ Tail(s) \in Seq(S)
         /\ Head(s) = s[1] /\ 1 \in 1..Len(s)
         /\ Len(s) \in Nat \ {0} /\ Len(Tail(s)) = Len(s) - 1
         /\ \A i \in 1..Len(Tail(s)) : Tail(s)[i] = s[i + 1]
  OBVIOUS

(* Adding an element at the end leaves the others in place. *)
LEMMA AppendFacts ==
  ASSUME NEW S, NEW s \in Seq(S), NEW e \in S
  PROVE  /\ Append(s, e) \in Seq(S)
         /\ Append(s, e) # << >>
         /\ Len(Append(s, e)) = Len(s) + 1
         /\ \A i \in 1..Len(s) : Append(s, e)[i] = s[i]
         /\ Append(s, e)[Len(s) + 1] = e
         /\ s # << >> => Head(Append(s, e)) = Head(s)
         /\ s = << >> => Head(Append(s, e)) = e
  OBVIOUS

(* A read takes a prefix of n elements: what it takes and what it leaves. *)
LEMMA SplitFacts ==
  ASSUME NEW S, NEW s \in Seq(S), NEW n \in 1..Len(s)
  PROVE  /\ SubSeq(s, 1, n) \in Seq(S)
         /\ SubSeq(s, 1, n) # << >>
         /\ SubSeq(s, n + 1, Len(s)) \in Seq(S)
         /\ Len(SubSeq(s, n + 1, Len(s))) = Len(s) - n
         /\ \A i \in 1..(Len(s) - n) : SubSeq(s, n + 1, Len(s))[i] = s[i + n]
  OBVIOUS

(* What a read takes and what it leaves are the whole. *)
LEMMA SplitWhole ==
  ASSUME NEW S, NEW s \in Seq(S), NEW n \in 1..Len(s)
  PROVE  SubSeq(s, 1, n) \o SubSeq(s, n + 1, Len(s)) = s
  OBVIOUS

(* Concatenation. *)
LEMMA ConcatFacts ==
  ASSUME NEW S, NEW s \in Seq(S), NEW t \in Seq(S)
  PROVE  /\ s \o t \in Seq(S)
         /\ Len(s \o t) = Len(s) + Len(t)
         /\ \A i \in 1..Len(s) : (s \o t)[i] = s[i]
         /\ \A i \in 1..Len(t) : (s \o t)[Len(s) + i] = t[i]
  OBVIOUS

(* The first element of a concatenation is the first of its first part. *)
LEMMA ConcatHead ==
  ASSUME NEW S, NEW s \in Seq(S), NEW t \in Seq(S), s # << >>
  PROVE  /\ s \o t # << >>
         /\ Head(s \o t) = Head(s)
         /\ Tail(s \o t) = Tail(s) \o t
  OBVIOUS

(* An element added to the second part is added to the whole. *)
LEMMA ConcatAppend ==
  ASSUME NEW S, NEW s \in Seq(S), NEW t \in Seq(S), NEW e \in S
  PROVE  s \o Append(t, e) = Append(s \o t, e)
  OBVIOUS

(* The empty sequence adds nothing. *)
LEMMA ConcatEmpty ==
  ASSUME NEW S, NEW s \in Seq(S)
  PROVE  /\ << >> \o s = s
         /\ s \o << >> = s
  OBVIOUS

(* Adding a sequence of one element. *)
LEMMA LastFacts ==
  ASSUME NEW S, NEW s \in Seq(S), NEW t \in Seq(S)
  PROVE  Len(t) = 1 =>
         \A i \in 1..Len(s \o t) :
           \/ i \in 1..Len(s) /\ (s \o t)[i] = s[i]
           \/ (s \o t)[i] = t[1]
  <1>1. /\ Len(s \o t) = Len(s) + Len(t)
        /\ \A i \in 1..Len(s) : (s \o t)[i] = s[i]
        /\ \A i \in 1..Len(t) : (s \o t)[Len(s) + i] = t[i]
    OBVIOUS
  <1>. HAVE Len(t) = 1
  <1>2. Len(s) \in Nat /\ 1 \in 1..Len(t)
    OBVIOUS
  <1>3. (s \o t)[Len(s) + 1] = t[1]
    BY <1>1, <1>2, Zenon
  <1>4. Len(s \o t) = Len(s) + 1
    BY <1>1
  <1>5. ASSUME NEW i \in 1..Len(s \o t)
        PROVE  i \in 1..Len(s) \/ i = Len(s) + 1
    BY <1>2, <1>4
  <1>. QED
    BY <1>1, <1>3, <1>5, Zenon

(* The element at i is cut out of a queue. *)
LEMMA CutFacts ==
  ASSUME NEW S, NEW q \in Seq(S), NEW i \in 1..Len(q)
  PROVE  LET r == SubSeq(q, 1, i - 1) \o SubSeq(q, i + 1, Len(q))
         IN  /\ r \in Seq(S)
             /\ Len(r) = Len(q) - 1
             /\ \A j \in 1..(Len(q) - 1) : r[j] = IF j < i THEN q[j] ELSE q[j + 1]
  <1>1. PICK a, b : a = SubSeq(q, 1, i - 1) /\ b = SubSeq(q, i + 1, Len(q))
    OBVIOUS
  <1>2. Len(q) \in Nat /\ i \in 1..Len(q)
    OBVIOUS
  <1>3. /\ a \in Seq(S) /\ Len(a) = i - 1
        /\ \A j \in 1..(i - 1) : a[j] = q[j]
    BY <1>1
  <1>4. /\ b \in Seq(S) /\ Len(b) = Len(q) - i
        /\ \A j \in 1..(Len(q) - i) : b[j] = q[j + i]
    BY <1>1
  <1>5. /\ a \o b \in Seq(S)
        /\ Len(a \o b) = Len(a) + Len(b)
        /\ \A j \in 1..Len(a) : (a \o b)[j] = a[j]
        /\ \A j \in 1..Len(b) : (a \o b)[Len(a) + j] = b[j]
    <2>1. a \in Seq(S) /\ b \in Seq(S)
      BY <1>3, <1>4
    <2>2. \A x, y \in Seq(S) :
            /\ x \o y \in Seq(S)
            /\ Len(x \o y) = Len(x) + Len(y)
            /\ \A j \in 1..Len(x) : (x \o y)[j] = x[j]
            /\ \A j \in 1..Len(y) : (x \o y)[Len(x) + j] = y[j]
      BY ConcatFacts
    <2>. QED
      BY <2>1, <2>2, Zenon
  <1>6. Len(a \o b) = Len(q) - 1
    BY <1>2, <1>3, <1>4, <1>5
  <1>7. ASSUME NEW j \in 1..(Len(q) - 1)
        PROVE  (a \o b)[j] = IF j < i THEN q[j] ELSE q[j + 1]
    <2>1. CASE j < i
      <3>1. j \in 1..(i - 1)
        BY <1>2, <2>1
      <3>. QED
        BY <1>3, <1>5, <2>1, <3>1
    <2>2. CASE ~(j < i)
      <3>1. j - (i - 1) \in 1..(Len(q) - i) /\ (i - 1) + (j - (i - 1)) = j
            /\ (j - (i - 1)) + i = j + 1
        BY <1>2, <2>2
      <3>2. (a \o b)[(i - 1) + (j - (i - 1))] = b[j - (i - 1)]
        BY <1>3, <1>4, <1>5, <3>1
      <3>3. b[j - (i - 1)] = q[(j - (i - 1)) + i]
        BY <1>4, <3>1
      <3>. QED
        BY <2>2, <3>1, <3>2, <3>3
    <2>. QED
      BY <2>1, <2>2
  <1>. QED
    BY <1>1, <1>5, <1>6, <1>7
=============================================================================
