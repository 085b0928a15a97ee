------------------------------- MODULE RetryFacts -------------------------------
(***************************************************************************)
(* Facts about the retry loops of Retry, for the proofs about the clients  *)
(* that use them, whatever the number of retries.                          *)
(***************************************************************************)
EXTENDS Retry, TLAPS

-----------------------------------------------------------------------------
(* Facts about the retry loops.                                            *)

(* There is at least one try.                                              *)
LEMMA TriesPositive == Tries \in Nat \ {0}
  BY RetryAssumption DEF Tries

(* A call starts with its first exchange.                                  *)
LEMMA StartType ==
  ASSUME NEW op
  PROVE  Start(op) \in Steps /\ Start("read").phase = "exchange"
  BY TriesPositive DEF Start, Steps, Phases

(* What Again returns. *)
LEMMA AgainFacts ==
  ASSUME NEW p \in Phases, NEW a \in 1..Tries, NEW r \in 0..Tries
  PROVE  /\ Again(p, a, r).step \in Steps
         /\ Again(p, a, r).result = NoResult
  BY DEF Again, Steps

(* What Done returns.                                                      *)
LEMMA DoneFacts ==
  ASSUME NEW kind, NEW value
  PROVE  /\ Done(kind, value).step \in Steps
         /\ Done(kind, value).result.kind = kind
         /\ Done(kind, value).result.value = value
  BY StartType DEF Done

(* A failed exchange leads to another, or to an error. *)
LEMMA AfterErrorFacts ==
  ASSUME NEW s \in Steps, NEW e, e # "Ok"
  PROVE  /\ AfterError(s, e).step \in Steps
         /\ AfterError(s, e).result.kind # "Ok"
  <1>1. s.phase \in Phases /\ s.attempt \in 1..Tries /\ s.round \in 0..Tries
    BY DEF Steps
  <1>2. NoResult.kind # "Ok"
    BY DEF NoResult
  <1>3. /\ NextRound(s).step \in Steps
        /\ NextRound(s).result.kind # "Ok"
    <2>1. CASE s.round < Tries
      <3>1. s.round + 1 \in 0..Tries /\ 1 \in 1..Tries /\ "rewrite" \in Phases
        BY <1>1, <2>1, TriesPositive DEF Phases
      <3>. QED
        BY <2>1, <3>1, <1>2, AgainFacts DEF NextRound
    <2>2. CASE ~(s.round < Tries)
      BY <2>2, DoneFacts DEF NextRound
    <2>. QED
      BY <2>1, <2>2
  <1>4. CASE s.phase \in {"exchange", "readback"} /\ s.attempt < Tries
    <2>1. s.attempt + 1 \in 1..Tries
      BY <1>1, <1>4, TriesPositive
    <2>2. AfterError(s, e) = Again(s.phase, s.attempt + 1, s.round)
      BY <1>1, <1>4, TriesPositive DEF AfterError
    <2>. QED
      BY <1>1, <1>2, <2>1, <2>2, AgainFacts
  <1>5. CASE s.phase = "exchange" /\ ~(s.attempt < Tries)
    <2>1. AfterError(s, e) = Done(e, NoValue)
      BY <1>1, <1>5, TriesPositive DEF AfterError
    <2>. QED
      BY <2>1, DoneFacts
  <1>6. CASE s.phase = "readback" /\ ~(s.attempt < Tries)
    <2>1. AfterError(s, e) = NextRound(s)
      BY <1>1, <1>6, TriesPositive DEF AfterError
    <2>. QED
      BY <2>1, <1>3
  <1>7. CASE s.phase = "first"
    <2>1. AfterError(s, e) \in {Again("readback", 1, 1), Done(e, NoValue)}
      BY <1>7 DEF AfterError
    <2>2. 1 \in 1..Tries /\ 1 \in 0..Tries /\ "readback" \in Phases
      BY TriesPositive DEF Phases
    <2>. QED
      BY <2>1, <2>2, <1>2, AgainFacts, DoneFacts
  <1>8. CASE s.phase = "rewrite"
    <2>1. AfterError(s, e) = Again("readback", 1, s.round)
      BY <1>8 DEF AfterError
    <2>2. 1 \in 1..Tries /\ "readback" \in Phases
      BY TriesPositive DEF Phases
    <2>. QED
      BY <1>1, <2>1, <2>2, <1>2, AgainFacts
  <1>. QED
    BY <1>1, <1>4, <1>5, <1>6, <1>7, <1>8 DEF Phases

(* A value read leads to another exchange, to an error, or is returned. *)
LEMMA AfterValueFacts ==
  ASSUME NEW s \in Steps, NEW v, NEW wanted
  PROVE  /\ AfterValue(s, v, wanted).step \in Steps
         /\ AfterValue(s, v, wanted).result.kind = "Ok" =>
              AfterValue(s, v, wanted).result.value = v
  <1>1. s.phase \in Phases /\ s.attempt \in 1..Tries /\ s.round \in 0..Tries
    BY DEF Steps
  <1>2. NoResult.kind # "Ok"
    BY DEF NoResult
  <1>3. /\ NextRound(s).step \in Steps
        /\ NextRound(s).result.kind # "Ok"
    <2>1. CASE s.round < Tries
      <3>1. s.round + 1 \in 0..Tries /\ 1 \in 1..Tries /\ "rewrite" \in Phases
        BY <1>1, <2>1, TriesPositive DEF Phases
      <3>. QED
        BY <2>1, <3>1, <1>2, AgainFacts DEF NextRound
    <2>2. CASE ~(s.round < Tries)
      BY <2>2, DoneFacts DEF NextRound
    <2>. QED
      BY <2>1, <2>2
  <1>4. CASE s.phase \in {"exchange", "first"} \/ (s.phase = "readback" /\ v = wanted)
    <2>1. AfterValue(s, v, wanted) = Done("Ok", v)
      BY <1>4 DEF AfterValue
    <2>. QED
      BY <2>1, DoneFacts
  <1>5. CASE s.phase = "rewrite"
    <2>1. AfterValue(s, v, wanted) = Again("readback", 1, s.round)
      BY <1>5 DEF AfterValue
    <2>2. 1 \in 1..Tries /\ "readback" \in Phases
      BY TriesPositive DEF Phases
    <2>. QED
      BY <1>1, <1>2, <2>1, <2>2, AgainFacts
  <1>6. CASE s.phase = "readback" /\ v # wanted
    <2>1. AfterValue(s, v, wanted) = NextRound(s)
      BY <1>6 DEF AfterValue
    <2>. QED
      BY <2>1, <1>3
  <1>. QED
    BY <1>1, <1>4, <1>5, <1>6 DEF Phases

-----------------------------------------------------------------------------
(* What a call writes on the way.                                          *)

(* What the exchanges before step s have written, at most: in               *)
(* write_and_verify the first write, a rewrite in every round but the       *)
(* first, and the tries of every round's read-back.                         *)
Spent(s) ==
  CASE s.phase = "exchange" -> s.attempt - 1
    [] s.phase = "first" -> 0
    [] s.phase = "rewrite" -> (s.round - 1) + (s.round - 1) * Tries
    [] s.phase = "readback" -> s.round + (s.round - 1) * Tries + (s.attempt - 1)

(* The steps that a call of operation op can be at. *)
Fits(op, s) ==
  /\ s \in Steps
  /\ (op = "verify") <=> (s.phase # "exchange")
  /\ s.phase = "readback" => s.round >= 1
  /\ s.phase = "rewrite" => s.round >= 2

(* Multiplication by the number of tries. *)
LEMMA RoundFacts ==
  ASSUME NEW t \in Nat, NEW r \in 1..t
  PROVE  /\ (r - 1) * t \in Nat
         /\ r * t = (r - 1) * t + t
         /\ r * t <= t * t
  <1>1. (r - 1) * t \in Nat /\ r * t = (r - 1) * t + t
    OBVIOUS
  <1>2. (t - r) * t \in Nat /\ t * t = r * t + (t - r) * t
    OBVIOUS
  <1>. QED
    BY <1>1, <1>2

(* No step is beyond the budget, and the next one counts the exchange made. *)
LEMMA WithinBudget ==
  ASSUME NEW op, NEW s, Fits(op, s)
  PROVE  /\ Spent(s) \in Nat /\ Budget(op) \in Nat
         /\ Spent(s) + 1 <= Budget(op)
  <1>0. /\ s.phase \in Phases /\ s.attempt \in 1..Tries /\ s.round \in 0..Tries
        /\ Tries \in Nat \ {0} /\ Tries * Tries \in Nat
    BY TriesPositive DEF Fits, Steps
  <1>1. CASE s.phase = "exchange"
    <2>1. Spent(s) = s.attempt - 1 /\ Budget(op) = Tries
      BY <1>1 DEF Spent, Fits, Budget
    <2>. QED
      BY <1>0, <2>1
  <1>2. CASE s.phase = "first"
    <2>1. Spent(s) = 0 /\ Budget(op) = 1 + (Tries - 1) + Tries * Tries
      BY <1>2 DEF Spent, Fits, Budget
    <2>. QED
      BY <1>0, <2>1
  <1>3. CASE s.phase \in {"rewrite", "readback"}
    <2>1. s.round \in 1..Tries /\ Budget(op) = 1 + (Tries - 1) + Tries * Tries
      BY <1>0, <1>3 DEF Fits, Budget
    <2>2. Spent(s) \in {(s.round - 1) + (s.round - 1) * Tries,
                        s.round + (s.round - 1) * Tries + (s.attempt - 1)}
      BY <1>3 DEF Spent
    <2>. QED
      BY <1>0, <2>1, <2>2, RoundFacts
  <1>. QED
    BY <1>0, <1>1, <1>2, <1>3 DEF Phases

(* One more round counts the exchange that ended the last one.             *)
LEMMA NextRoundCounts ==
  ASSUME NEW op, NEW s, Fits(op, s), s.phase = "readback",
         NextRound(s).result = NoResult
  PROVE  Fits(op, NextRound(s).step) /\ Spent(s) + 1 <= Spent(NextRound(s).step)
  <1>0. /\ s.attempt \in 1..Tries /\ s.round \in 1..Tries /\ op = "verify"
        /\ Tries \in Nat \ {0}
    BY TriesPositive DEF Fits, Steps
  <1>1. s.round < Tries
    <2>1. Done("Timeout", NoValue).result # NoResult
      BY DEF Done, NoResult
    <2>. QED
      BY <2>1 DEF NextRound
  <1>2. NextRound(s).step = [phase |-> "rewrite", attempt |-> 1, round |-> s.round + 1]
    BY <1>1 DEF NextRound, Again
  <1>3. Fits(op, NextRound(s).step)
    BY <1>0, <1>1, <1>2 DEF Fits, Steps, Phases
  <1>4. /\ Spent(NextRound(s).step) = s.round + s.round * Tries
        /\ Spent(s) = s.round + (s.round - 1) * Tries + (s.attempt - 1)
    <2>1. (s.round + 1) - 1 = s.round
      BY <1>0
    <2>. QED
      BY <1>2, <2>1 DEF Spent
  <1>. QED
    BY <1>0, <1>3, <1>4, RoundFacts

(* The other way on: an exchange of the same round. *)
LEMMA AgainCounts ==
  ASSUME NEW op, NEW s, Fits(op, s), NEW next,
         \/ /\ s.phase \in {"exchange", "readback"} /\ s.attempt < Tries
            /\ next = Again(s.phase, s.attempt + 1, s.round)
         \/ s.phase = "first" /\ next = Again("readback", 1, 1)
         \/ s.phase = "rewrite" /\ next = Again("readback", 1, s.round)
  PROVE  Fits(op, next.step) /\ Spent(s) + 1 <= Spent(next.step)
  <1>0. /\ s.phase \in Phases /\ s.attempt \in 1..Tries /\ s.round \in 0..Tries
        /\ Tries \in Nat \ {0}
    BY TriesPositive DEF Fits, Steps
  <1>1. CASE s.phase = "exchange"
    <2>1. next.step = [phase |-> "exchange", attempt |-> s.attempt + 1, round |-> s.round]
      BY <1>1 DEF Again
    <2>2. Fits(op, next.step)
      BY <1>0, <1>1, <2>1 DEF Fits, Steps
    <2>3. Spent(next.step) = (s.attempt + 1) - 1 /\ Spent(s) = s.attempt - 1
      BY <1>1, <2>1 DEF Spent
    <2>. QED
      BY <1>0, <2>2, <2>3
  <1>2. CASE s.phase = "readback"
    <2>1. next.step = [phase |-> "readback", attempt |-> s.attempt + 1, round |-> s.round]
      BY <1>2 DEF Again
    <2>2. Fits(op, next.step)
      BY <1>0, <1>2, <2>1 DEF Fits, Steps
    <2>3. /\ Spent(next.step) = s.round + (s.round - 1) * Tries + ((s.attempt + 1) - 1)
          /\ Spent(s) = s.round + (s.round - 1) * Tries + (s.attempt - 1)
      BY <1>2, <2>1 DEF Spent
    <2>4. s.round \in 1..Tries
      BY <1>0, <1>2 DEF Fits
    <2>. QED
      BY <1>0, <2>2, <2>3, <2>4, RoundFacts
  <1>3. CASE s.phase = "first"
    <2>1. next.step = [phase |-> "readback", attempt |-> 1, round |-> 1]
      BY <1>3 DEF Again
    <2>2. Fits(op, next.step)
      BY <1>0, <1>3, <2>1 DEF Fits, Steps, Phases
    <2>3. Spent(next.step) = 1 + (1 - 1) * Tries + (1 - 1) /\ Spent(s) = 0
      BY <1>3, <2>1 DEF Spent
    <2>4. 1 \in 1..Tries
      BY <1>0
    <2>. QED
      BY <1>0, <2>2, <2>3, <2>4, RoundFacts
  <1>4. CASE s.phase = "rewrite"
    <2>1. next.step = [phase |-> "readback", attempt |-> 1, round |-> s.round]
      BY <1>4 DEF Again
    <2>2. Fits(op, next.step)
      BY <1>0, <1>4, <2>1 DEF Fits, Steps, Phases
    <2>3. /\ Spent(next.step) = s.round + (s.round - 1) * Tries + (1 - 1)
          /\ Spent(s) = (s.round - 1) + (s.round - 1) * Tries
      BY <1>4, <2>1 DEF Spent
    <2>4. s.round \in 1..Tries
      BY <1>0, <1>4 DEF Fits
    <2>. QED
      BY <1>0, <2>2, <2>3, <2>4, RoundFacts
  <1>. QED
    BY <1>0, <1>1, <1>2, <1>3, <1>4 DEF Phases

(* The step after an error counts the exchange that failed.                *)
LEMMA AfterErrorCounts ==
  ASSUME NEW op, NEW s, Fits(op, s), NEW e, e # "none",
         AfterError(s, e).result = NoResult
  PROVE  /\ Fits(op, AfterError(s, e).step)
         /\ Spent(s) + 1 <= Spent(AfterError(s, e).step)
  <1> DEFINE next == AfterError(s, e)
  <1>0. /\ s.phase \in Phases /\ s.attempt \in 1..Tries /\ s.round \in 0..Tries
        /\ Tries \in Nat \ {0}
    BY TriesPositive DEF Fits, Steps
  <1>1. next # Done(e, NoValue)
    BY DEF Done, NoResult
  <1>2. CASE s.phase \in {"exchange", "readback"} /\ s.attempt < Tries
    <2>1. next = Again(s.phase, s.attempt + 1, s.round)
      BY <1>0, <1>2 DEF AfterError
    <2>. QED
      BY <1>2, <2>1, AgainCounts
  <1>3. CASE s.phase = "exchange" /\ ~(s.attempt < Tries)
    <2>1. next = Done(e, NoValue)
      BY <1>0, <1>3 DEF AfterError
    <2>. QED
      BY <1>1, <2>1
  <1>4. CASE s.phase = "readback" /\ ~(s.attempt < Tries)
    <2>1. next = NextRound(s)
      BY <1>0, <1>4 DEF AfterError
    <2>. QED
      BY <1>4, <2>1, NextRoundCounts
  <1>5. CASE s.phase = "first"
    <2>1. next \in {Again("readback", 1, 1), Done(e, NoValue)}
      BY <1>5 DEF AfterError
    <2>. QED
      BY <1>1, <1>5, <2>1, AgainCounts
  <1>6. CASE s.phase = "rewrite"
    <2>1. next = Again("readback", 1, s.round)
      BY <1>6 DEF AfterError
    <2>. QED
      BY <1>6, <2>1, AgainCounts
  <1>. QED
    BY <1>0, <1>2, <1>3, <1>4, <1>5, <1>6 DEF Phases

(* The step after a value counts the exchange that returned it.            *)
LEMMA AfterValueCounts ==
  ASSUME NEW op, NEW s, Fits(op, s), NEW v, NEW wanted,
         AfterValue(s, v, wanted).result = NoResult
  PROVE  /\ Fits(op, AfterValue(s, v, wanted).step)
         /\ Spent(s) + 1 <= Spent(AfterValue(s, v, wanted).step)
  <1> DEFINE next == AfterValue(s, v, wanted)
  <1>0. s.phase \in Phases
    BY DEF Fits, Steps
  <1>1. next # Done("Ok", v)
    BY DEF Done, NoResult
  <1>2. CASE s.phase \in {"exchange", "first"} \/ (s.phase = "readback" /\ v = wanted)
    <2>1. next = Done("Ok", v)
      BY <1>2 DEF AfterValue
    <2>. QED
      BY <1>1, <2>1
  <1>3. CASE s.phase = "rewrite"
    <2>1. next = Again("readback", 1, s.round)
      BY <1>3 DEF AfterValue
    <2>. QED
      BY <1>3, <2>1, AgainCounts
  <1>4. CASE s.phase = "readback" /\ v # wanted
    <2>1. next = NextRound(s)
      BY <1>4 DEF AfterValue
    <2>. QED
      BY <1>4, <2>1, NextRoundCounts
  <1>. QED
    BY <1>0, <1>2, <1>3, <1>4 DEF Phases

-----------------------------------------------------------------------------
(* What a call writes before its first read-back.                          *)

(* A call that reads back never goes back to its first write: after an      *)
(* error only a read or write starts over.                                  *)
LEMMA AfterErrorPhase ==
  ASSUME NEW s \in Steps, NEW e,
         AfterError(s, e).result = NoResult,
         AfterError(s, e).step.phase \in {"exchange", "first"}
  PROVE  s.phase \in {"exchange", "first"}
  <1>1. s.phase \in Phases /\ s.attempt \in 1..Tries /\ Tries \in Nat \ {0}
    BY TriesPositive DEF Steps
  <1>2. Done("Timeout", NoValue).result # NoResult
    BY DEF Done, NoResult
  <1>3. ~(NextRound(s).result = NoResult /\ NextRound(s).step.phase \in {"exchange", "first"})
    BY <1>2 DEF NextRound, Again
  <1>4. CASE s.phase = "readback" /\ s.attempt < Tries
    <2>1. AfterError(s, e) = Again(s.phase, s.attempt + 1, s.round)
      BY <1>1, <1>4 DEF AfterError
    <2>. QED
      BY <1>4, <2>1 DEF Again
  <1>5. CASE s.phase = "readback" /\ ~(s.attempt < Tries)
    <2>1. AfterError(s, e) = NextRound(s)
      BY <1>1, <1>5 DEF AfterError
    <2>. QED
      BY <1>3, <2>1
  <1>6. CASE s.phase = "rewrite"
    <2>1. AfterError(s, e) = Again("readback", 1, s.round)
      BY <1>6 DEF AfterError
    <2>. QED
      BY <2>1 DEF Again
  <1>. QED
    BY <1>1, <1>4, <1>5, <1>6 DEF Phases

(* After a value a call goes on with a rewrite or a read-back; it returns   *)
(* the value unchecked only if it has not read back yet.                    *)
LEMMA AfterValuePhase ==
  ASSUME NEW s \in Steps, NEW v, NEW wanted
  PROVE  /\ AfterValue(s, v, wanted).result = NoResult =>
              AfterValue(s, v, wanted).step.phase \notin {"exchange", "first"}
         /\ AfterValue(s, v, wanted).result.kind = "Ok" =>
              s.phase \in {"exchange", "first"} \/ v = wanted
  <1>1. s.phase \in Phases
    BY DEF Steps
  <1>2. /\ Done("Timeout", NoValue).result # NoResult
        /\ Done("Ok", v).result # NoResult
        /\ NoResult.kind # "Ok" /\ Done("Timeout", NoValue).result.kind # "Ok"
    BY DEF Done, NoResult
  <1>3. CASE s.phase \in {"exchange", "first"} \/ (s.phase = "readback" /\ v = wanted)
    <2>1. AfterValue(s, v, wanted) = Done("Ok", v)
      BY <1>3 DEF AfterValue
    <2>. QED
      BY <1>2, <1>3, <2>1
  <1>4. CASE s.phase = "rewrite"
    <2>1. AfterValue(s, v, wanted) = Again("readback", 1, s.round)
      BY <1>4 DEF AfterValue
    <2>. QED
      BY <1>2, <2>1 DEF Again
  <1>5. CASE s.phase = "readback" /\ v # wanted
    <2>1. AfterValue(s, v, wanted) = NextRound(s)
      BY <1>5 DEF AfterValue
    <2>2. /\ NextRound(s).result = NoResult =>
               NextRound(s).step.phase \notin {"exchange", "first"}
          /\ NextRound(s).result.kind # "Ok"
      BY <1>2 DEF NextRound, Again
    <2>. QED
      BY <2>1, <2>2
  <1>. QED
    BY <1>1, <1>3, <1>4, <1>5 DEF Phases
=============================================================================
