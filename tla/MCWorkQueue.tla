----------------------------- MODULE MCWorkQueue -----------------------------
(* Instances of WorkQueue for TLC. *)
EXTENDS WorkQueue

CONSTANTS s1, w1, w2, k1, k2, k3
=============================================================================
