-------------------------- MODULE MCDatasetStatus --------------------------
(* Small instances of DatasetStatus. *)
EXTENDS DatasetStatus, TLC

CONSTANTS w1, w2, d1

(* Registered as imd_nwp is: without a cadence and unavailable.  A poll before *)
(* the seed creates the row with the default cadence instead.                  *)
Cadences == [d \in Datasets |-> 0]
Registered == [d \in Datasets |-> "contract_unavailable"]
=============================================================================
