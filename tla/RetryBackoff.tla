---------------------------- MODULE RetryBackoff ----------------------------
(***************************************************************************)
(* lib/retry-backoff.ts: the delays both webhook queues can draw, as the   *)
(* set of values the jitter may produce.                                   *)
(***************************************************************************)
EXTENDS Integers

(* Equal jitter: round(half + random * half) of a window that doubles with *)
(* every attempt up to maxMs, that is, the upper half of the window.       *)
computeBackoffMs(attempt, baseMs, maxMs) ==
  LET exponent == IF attempt >= 1 THEN attempt - 1 ELSE 0
      window   == IF baseMs * 2 ^ exponent <= maxMs
                    THEN baseMs * 2 ^ exponent ELSE maxMs
  IN  {delay \in 0 .. maxMs : delay <= window /\ 2 * delay >= window}
============================================================================
