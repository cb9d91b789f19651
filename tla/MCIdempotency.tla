--------------------------- MODULE MCIdempotency ---------------------------
(* Small instances of the idempotency middleware for TLC.                  *)
EXTENDS Idempotency, TLC

\* Requests and keys are interchangeable.
MCSymmetry == Permutations(Requests) \cup Permutations(Keys)
=============================================================================
