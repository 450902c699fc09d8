---------------------------- MODULE MCJetStream ----------------------------
(* Small instances of JetStreamConsumer. *)
EXTENDS JetStreamConsumer, TLC

CONSTANTS w1, w2, m1, m2, m3

Symmetry == Permutations(Workers) \cup Permutations(Msgs)
=============================================================================
