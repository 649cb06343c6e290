--------------------------- MODULE MCCredentials ---------------------------
(* An instance of Credentials for TLC.                                     *)
EXTENDS Credentials

CONSTANTS f1, f2, c1, c2
=============================================================================
