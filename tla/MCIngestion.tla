----------------------------- MODULE MCIngestion -----------------------------
(* Small instances of Ingestion.  Two snapshots of one feed: their bytes      *)
(* differ, their records overlap in opposite order, one repeats a record.     *)
EXTENDS Ingestion, TLC

CONSTANTS w1, w2, p1, p2, r1, r2, r3, r4, r5, r6

TwoSnapshots == p1 :> <<r1, r2, r1, r5, r3>> @@ p2 :> <<r3, r6, r2, r4, r1>>

Kinds == r1 :> "alert" @@ r2 :> "pfz" @@ r3 :> "station" @@ r4 :> "zone"
           @@ r5 :> "observation" @@ r6 :> "forecast"

OneSnapshot == p1 :> <<r1, r2>> @@ p2 :> <<>>

=============================================================================
