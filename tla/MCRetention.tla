----------------------------- MODULE MCRetention ----------------------------
(* Small instances of Retention for TLC.                                   *)
EXTENDS Retention, TLC

CONSTANTS n1, n2, d1, d2

(* One delivery of each of two notices.                                    *)
OneEach == d1 :> n1 @@ d2 :> n2
=============================================================================
