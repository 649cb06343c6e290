----------------------------- MODULE MCRateLimit -----------------------------
(* An instance of RateLimit for TLC.                                       *)
EXTENDS RateLimit

CONSTANTS x, y, r1, r2
=============================================================================
