----------------------------- MODULE MCReconcile -----------------------------
(* Instances of Reconcile for TLC.                                         *)
EXTENDS Reconcile

CONSTANTS u1, u2, u3, g1, g2, g3, g4
=============================================================================
