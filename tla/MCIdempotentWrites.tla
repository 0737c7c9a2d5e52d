-------------------------- MODULE MCIdempotentWrites --------------------------
(***************************************************************************)
(* Two requests that overlap under one key and repeat, three commits with  *)
(* one loss of the key, and one report that is asked for meanwhile.        *)
(***************************************************************************)
EXTENDS IdempotentWrites

CONSTANTS w1, w2, r1

=============================================================================
