---------------------------- MODULE MCIdempotency ---------------------------
(* Small instances of Idempotency for TLC.                                 *)
EXTENDS Idempotency, TLC

CONSTANTS r1, r2, r3, r4, fp1, fp2

(* Two tries each of two requests under one key, the second of an action   *)
(* that is not replayed.                                                   *)
Retried == r1 :> fp1 @@ r2 :> fp1 @@ r3 :> fp2 @@ r4 :> fp2
=============================================================================
