--------------------------- MODULE MCRefreshTokens ---------------------------
(***************************************************************************)
(* RefreshTokens with a request that may die and one that does not.        *)
(***************************************************************************)
EXTENDS RefreshTokens

CONSTANTS r1, r2
=============================================================================
