--------------------------- MODULE MCAlertBroker ---------------------------
(* Small instances of AlertBroker. *)
EXTENDS AlertBroker

CONSTANTS p1, p2, s1, s2, e1, e2, e3
=============================================================================
