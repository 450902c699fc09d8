----------------------------- MODULE MCWorkQueue -----------------------------
(* Small instances of WorkQueue. *)
EXTENDS WorkQueue, TLC

CONSTANTS k1, k2, k3

=============================================================================
