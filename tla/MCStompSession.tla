--------------------------- MODULE MCStompSession ---------------------------
(* An instance of StompSession for TLC.                                    *)
EXTENDS StompSession

CONSTANTS s1, s2
=============================================================================
