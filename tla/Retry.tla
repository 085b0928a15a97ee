-------------------------------- MODULE Retry --------------------------------
(***************************************************************************)
(* The loops around try_exchange that read, write and write_and_verify     *)
(* have in both clients (src/src/client.rs, src/src/async_client.rs).      *)
(***************************************************************************)
EXTENDS Naturals

CONSTANTS
  Retries,      \* ClientConfig.retries
  NoValue       \* not a value of an object

ASSUME RetryAssumption == Retries \in Nat

Tries == IF Retries > 1 THEN Retries ELSE 1      \* retries.max(1)

(* Where a call stands.  phase: "exchange" is the loop of exchange() called *)
(* by read and write; "first", "rewrite" and "readback" are the exchanges   *)
(* of write_and_verify.  attempt: turns of the loop of exchange() begun.    *)
(* round: turns of the loop of write_and_verify begun.                      *)
Phases == {"exchange", "first", "rewrite", "readback"}
Steps  == [phase : Phases, attempt : 1..Tries, round : 0..Tries]

Start(op) ==
  [phase |-> IF op = "verify" THEN "first" ELSE "exchange", attempt |-> 1, round |-> 0]

NoResult == [kind |-> "none", value |-> NoValue]

(* The call goes on with another exchange, or returns and forgets its step. *)
Again(p, a, r) ==
  [step |-> [phase |-> p, attempt |-> a, round |-> r], result |-> NoResult]

Done(kind, value) ==
  [step |-> Start("read"), result |-> [kind |-> kind, value |-> value]]

(* Mutants: one round too many; rounds are not counted. *)
NextRoundOnceMore(s) ==
  IF s.round <= Tries THEN Again("rewrite", 1, s.round + 1)
                      ELSE Done("Timeout", NoValue)

NextRoundUncounted(s) ==
  IF s.round < Tries THEN Again("rewrite", 1, s.round)
                     ELSE Done("Timeout", NoValue)

(* One more turn of the loop of write_and_verify, which rewrites and reads  *)
(* back; after the last one the call times out.                             *)
NextRound(s) ==
  IF s.round < Tries THEN Again("rewrite", 1, s.round + 1)
                     ELSE Done("Timeout", NoValue)

(* What follows an exchange that failed with error e. *)
AfterError(s, e) ==
  CASE s.phase \in {"exchange", "readback"} /\ s.attempt < Tries ->
         Again(s.phase, s.attempt + 1, s.round)
    [] s.phase = "exchange" /\ s.attempt = Tries -> Done(e, NoValue)
    [] s.phase = "readback" /\ s.attempt = Tries -> NextRound(s)
    [] s.phase = "first" /\ e \in {"Timeout", "EmptyPayload"} -> Again("readback", 1, 1)
    [] s.phase = "first" /\ e \notin {"Timeout", "EmptyPayload"} -> Done(e, NoValue)
    [] s.phase = "rewrite" -> Again("readback", 1, s.round)

(* Mutant: a value read back is not compared. *)
AfterValueUnchecked(s, v, wanted) ==
  IF s.phase = "rewrite" THEN Again("readback", 1, s.round) ELSE Done("Ok", v)

(* What follows an exchange that returned value v, when `wanted` is the     *)
(* value the call writes.                                                   *)
AfterValue(s, v, wanted) ==
  CASE s.phase \in {"exchange", "first"} -> Done("Ok", v)
    [] s.phase = "rewrite" -> Again("readback", 1, s.round)
    [] s.phase = "readback" /\ v = wanted -> Done("Ok", v)
    [] s.phase = "readback" /\ v # wanted -> NextRound(s)

(* Mutant: the read-back writes again. *)
RequestRewrite(k, s) ==
  [command |-> IF k.op = "read" THEN "read" ELSE "write",
   object |-> k.object, value |-> k.value]

(* The frame that call k sends at step s. *)
Request(k, s) ==
  [command |-> IF s.phase = "readback" \/ k.op = "read" THEN "read" ELSE "write",
   object |-> k.object, value |-> k.value]

(* At most: an attempt for every try of a read or write; for                *)
(* write_and_verify the first write, a rewrite in every round but the first *)
(* and a read with its own tries in every round.                            *)
Budget(op) == IF op = "verify" THEN 1 + (Tries - 1) + Tries * Tries ELSE Tries
=============================================================================
