------------------------------ MODULE Ingestion ------------------------------
(***************************************************************************)
(* IngestionService.ingest (services/ingestion.py) called by worker        *)
(* handlers (worker/runtime.py), each call in one session_scope            *)
(* transaction (db/session.py) on PostgreSQL at READ COMMITTED.            *)
(*                                                                         *)
(* A payload is the raw bytes of one fetch with the records parsed from    *)
(* them; it is identified with its checksum, the idempotency key of its    *)
(* job.  Deliveries are at least once, so several workers may ingest one   *)
(* payload at the same time and again later.                               *)
(*                                                                         *)
(* A record is inserted once (alert, PFZ, observation, forecast: skipped   *)
(* when its idempotency key exists) or upserted (station, marine zone).    *)
(* The existence check and the INSERT are separate statements: session.add *)
(* only queues the row, autoflush sends it with the next query.  A row     *)
(* written by an open transaction blocks a second writer until that        *)
(* transaction ends; a duplicate key then raises IntegrityError.           *)
(*                                                                         *)
(* The dataset row that the same transaction updates is DatasetStatus.     *)
(***************************************************************************)
EXTENDS Integers, Sequences, FiniteSets

CONSTANTS Workers, Payloads, Records,
          RecordsOf,   \* payload -> the sequence of records parsed from it
          KindOf,      \* record -> its kind; cyclones and tsunamis are alerts
          Rejected,    \* the records QC rejects
          MaxAttempts, \* deliveries per payload
          MaxFaults,   \* bound on crashes and on exceptions raised by the code
          Nobody

ASSUME IngestionAssumption ==
    /\ RecordsOf \in [Payloads -> Seq(Records)]
    /\ KindOf \in [Records -> {"alert", "pfz", "observation", "forecast", "station", "zone"}]
    /\ Rejected \subseteq Records
    /\ MaxAttempts \in Nat
    /\ MaxFaults \in Nat
    /\ Nobody \notin Payloads

VARIABLES
    \* committed, shared
    raw,       \* payloads in the raw object store
    jobs,      \* payloads with an ingestion job, asset, processing job and run
    rowBy,     \* record -> the payload whose ingest wrote its row, or Nobody
    quality,   \* record -> number of DataQualityRecord rows
    \* one worker's open transaction
    phase,     \* the statement it is about to run
    payload,   \* the payload it ingests
    idx,       \* position in the record loops
    newJob,    \* it inserts the job rows (they did not exist)
    pend,      \* what autoflush will send: the row of record idx
    held,      \* rows it has written and not committed
    audits,    \* DataQualityRecord rows it has added
    \* the event queue, which is not transactional
    events,    \* records whose lifecycle event was published
    \* bounds and bookkeeping
    attempts, faults,
    failed     \* payloads whose processing raised

sharedVars == <<raw, jobs, rowBy, quality>>
txVars == <<phase, payload, idx, newJob, pend, held, audits>>
vars == <<sharedVars, txVars, events, attempts, faults, failed>>

Phases == {"idle", "raw", "lineage", "job", "check", "flush", "commit", "rollback"}

(* Stations and marine zones are updated in place; the others are inserted    *)
(* once.  Alerts, PFZ and observations that QC does not reject have an event. *)
Upserts == {r \in Records : KindOf[r] \in {"station", "zone"}}

HasEvent(r) == KindOf[r] \in {"alert", "pfz", "observation"} /\ r \notin Rejected

NoAudits == [r \in Records |-> 0]

TypeOK ==
    /\ raw \in SUBSET Payloads
    /\ jobs \in SUBSET Payloads
    /\ rowBy \in [Records -> Payloads \cup {Nobody}]
    /\ quality \in [Records -> Nat]
    /\ phase \in [Workers -> Phases]
    /\ payload \in [Workers -> Payloads \cup {Nobody}]
    /\ \A w \in Workers : (payload[w] = Nobody) <=> (phase[w] = "idle")
    /\ \A w \in Workers : (phase[w] = "idle") => (held[w] = {})
    /\ idx \in [Workers -> Nat]
    /\ newJob \in [Workers -> BOOLEAN]
    /\ pend \in [Workers -> {"none", "insert", "update"}]
    /\ held \in [Workers -> SUBSET Records]
    /\ audits \in [Workers -> [Records -> Nat]]
    /\ events \in SUBSET Records
    /\ attempts \in [Payloads -> 0 .. MaxAttempts]
    /\ faults \in 0 .. MaxFaults
    /\ failed \in SUBSET Payloads

Init ==
    /\ raw = {}
    /\ jobs = {}
    /\ rowBy = [r \in Records |-> Nobody]
    /\ quality = NoAudits
    /\ phase = [w \in Workers |-> "idle"]
    /\ payload = [w \in Workers |-> Nobody]
    /\ idx = [w \in Workers |-> 0]
    /\ newJob = [w \in Workers |-> FALSE]
    /\ pend = [w \in Workers |-> "none"]
    /\ held = [w \in Workers |-> {}]
    /\ audits = [w \in Workers |-> NoAudits]
    /\ events = {}
    /\ attempts = [p \in Payloads |-> 0]
    /\ faults = 0
    /\ failed = {}
-----------------------------------------------------------------------------
Goto(w, label) == phase' = [phase EXCEPT ![w] = label]

Rec(w) == RecordsOf[payload[w]][idx[w]]

(* The rows that the ingest of p must leave in the database: a rejected record *)
(* is stored too, except a station or a zone.                                  *)
Stored(p) == {RecordsOf[p][i] : i \in 1 .. Len(RecordsOf[p])} \ (Upserts \cap Rejected)

(* Mutation: the failed session is not closed and keeps its row locks. *)
MutantDiscard(w) ==
    /\ Goto(w, "idle")
    /\ payload' = [payload EXCEPT ![w] = Nobody]
    /\ idx' = [idx EXCEPT ![w] = 0]
    /\ newJob' = [newJob EXCEPT ![w] = FALSE]
    /\ pend' = [pend EXCEPT ![w] = "none"]
    /\ UNCHANGED held
    /\ audits' = [audits EXCEPT ![w] = NoAudits]

(* The session is discarded: rolled back, or lost with the process. *)
Discard(w) ==
    /\ Goto(w, "idle")
    /\ payload' = [payload EXCEPT ![w] = Nobody]
    /\ idx' = [idx EXCEPT ![w] = 0]
    /\ newJob' = [newJob EXCEPT ![w] = FALSE]
    /\ pend' = [pend EXCEPT ![w] = "none"]
    /\ held' = [held EXCEPT ![w] = {}]
    /\ audits' = [audits EXCEPT ![w] = NoAudits]

(* A delivery of p reaches a handler, whose fetch succeeds. *)
Begin(w, p) ==
    /\ phase[w] = "idle"
    /\ attempts[p] < MaxAttempts
    /\ attempts' = [attempts EXCEPT ![p] = @ + 1]
    /\ payload' = [payload EXCEPT ![w] = p]
    /\ Goto(w, "raw")
    /\ UNCHANGED <<sharedVars, idx, newJob, pend, held, audits, events, faults, failed>>

(* raw_store.put: outside the transaction, and before any row. *)
PutRaw(w) ==
    /\ phase[w] = "raw"
    /\ raw' = raw \cup {payload[w]}
    /\ Goto(w, "lineage")
    /\ UNCHANGED <<jobs, rowBy, quality, payload, idx, newJob, pend, held, audits, events, attempts,
                   faults, failed>>

(* The record loops go on, or are over. *)
NextRecord(w) ==
    /\ idx' = [idx EXCEPT ![w] = @ + 1]
    /\ Goto(w, IF idx[w] < Len(RecordsOf[payload[w]]) THEN "check" ELSE "commit")

(* SELECT the job by checksum: reuse its rows, or create them. *)
SelectJob(w) ==
    /\ phase[w] = "lineage"
    /\ \/ /\ payload[w] \in jobs
          /\ NextRecord(w)
          /\ UNCHANGED newJob
       \/ /\ payload[w] \notin jobs
          /\ newJob' = [newJob EXCEPT ![w] = TRUE]
          /\ Goto(w, "job")
          /\ UNCHANGED idx
    /\ UNCHANGED <<sharedVars, payload, pend, held, audits, events, attempts, faults, failed>>

(* Another open transaction has inserted the job rows of the same payload. *)
JobLockedBy(w, v) ==
    /\ v # w
    /\ phase[w] = "job"
    /\ newJob[v] /\ payload[v] = payload[w] /\ phase[v] \notin {"lineage", "job"}

(* INSERT the job: unique on the checksum. *)
InsertJob(w) ==
    /\ phase[w] = "job"
    /\ \A v \in Workers : ~JobLockedBy(w, v)
    /\ \/ /\ payload[w] \notin jobs
          /\ NextRecord(w)
          /\ UNCHANGED newJob
       \/ /\ payload[w] \in jobs
          /\ Goto(w, "rollback")
          /\ UNCHANGED <<idx, newJob>>
    /\ UNCHANGED <<sharedVars, payload, pend, held, audits, events, attempts, faults, failed>>

(* Mutation: the existence check also finds rows of open transactions. *)
MutantVisible(w, r) == rowBy[r] # Nobody \/ \E v \in Workers : r \in held[v]

(* _exists: what a SELECT in w's transaction sees. *)
Visible(w, r) == rowBy[r] # Nobody \/ r \in held[w]

(* _record_quality *)
Audit(w, r) == audits' = [audits EXCEPT ![w][r] = @ + 1]

(* Mutation: the event is published only for records that existed. *)
MutantInsertOnceMute(w) ==
    /\ \/ /\ Visible(w, Rec(w))
          /\ events' = events \cup {r \in {Rec(w)} : HasEvent(r)}
          /\ NextRecord(w)
          /\ UNCHANGED <<pend, audits>>
       \/ /\ ~Visible(w, Rec(w))
          /\ pend' = [pend EXCEPT ![w] = "insert"]
          /\ Audit(w, Rec(w))
          /\ Goto(w, "flush")
          /\ UNCHANGED <<idx, events>>
    /\ UNCHANGED <<sharedVars, payload, newJob, held, attempts, faults, failed>>

(* The common shape of the records inserted once: an existing key is skipped; *)
(* a new row is added with its audit row whatever QC says, and its event is   *)
(* published on the spot.                                                     *)
InsertOnce(w) ==
    /\ \/ /\ Visible(w, Rec(w))
          /\ NextRecord(w)
          /\ UNCHANGED <<pend, audits, events>>
       \/ /\ ~Visible(w, Rec(w))
          /\ pend' = [pend EXCEPT ![w] = "insert"]
          /\ Audit(w, Rec(w))
          /\ events' = events \cup {r \in {Rec(w)} : HasEvent(r)}
          /\ Goto(w, "flush")
          /\ UNCHANGED idx
    /\ UNCHANGED <<sharedVars, payload, newJob, held, attempts, faults, failed>>

AtRecord(w, kind) == phase[w] = "check" /\ KindOf[Rec(w)] = kind

IngestAlert(w) == AtRecord(w, "alert") /\ InsertOnce(w)
IngestPfz(w) == AtRecord(w, "pfz") /\ InsertOnce(w)
IngestObservation(w) == AtRecord(w, "observation") /\ InsertOnce(w)
IngestForecast(w) == AtRecord(w, "forecast") /\ InsertOnce(w)

(* The common shape of stations and zones: audited always, stored unless QC   *)
(* rejects it; an existing row is updated in place.                           *)
Upsert(w) ==
    /\ Audit(w, Rec(w))
    /\ \/ /\ Rec(w) \in Rejected
          /\ NextRecord(w)
          /\ UNCHANGED pend
       \/ /\ Rec(w) \notin Rejected
          /\ pend' = [pend EXCEPT ![w] = IF Visible(w, Rec(w)) THEN "update" ELSE "insert"]
          /\ Goto(w, "flush")
          /\ UNCHANGED idx
    /\ UNCHANGED <<sharedVars, payload, newJob, held, events, attempts, faults, failed>>

IngestStation(w) == AtRecord(w, "station") /\ Upsert(w)
IngestMarineZone(w) == AtRecord(w, "zone") /\ Upsert(w)

RowLockedBy(w, v) == v # w /\ phase[w] = "flush" /\ Rec(w) \in held[v]

(* Mutation: the table has no unique constraint on the key. *)
MutantFlush(w) ==
    /\ phase[w] = "flush"
    /\ pend' = [pend EXCEPT ![w] = "none"]
    /\ held' = [held EXCEPT ![w] = @ \cup {Rec(w)}]
    /\ NextRecord(w)
    /\ UNCHANGED <<sharedVars, payload, newJob, audits, events, attempts, faults, failed>>

(* Mutation: every flush is committed on its own. *)
MutantFlushAutocommits(w) ==
    /\ phase[w] = "flush"
    /\ rowBy' = [rowBy EXCEPT ![Rec(w)] = payload[w]]
    /\ pend' = [pend EXCEPT ![w] = "none"]
    /\ NextRecord(w)
    /\ UNCHANGED <<raw, jobs, quality, payload, newJob, held, audits, events, attempts, faults, failed>>

(* autoflush sends the pending row: unique on the idempotency key or the uid. *)
Flush(w) ==
    /\ phase[w] = "flush"
    /\ \A v \in Workers : ~RowLockedBy(w, v)
    /\ \/ /\ pend[w] = "insert" => rowBy[Rec(w)] = Nobody
          /\ pend' = [pend EXCEPT ![w] = "none"]
          /\ held' = [held EXCEPT ![w] = @ \cup {Rec(w)}]
          /\ NextRecord(w)
       \/ /\ pend[w] = "insert" /\ rowBy[Rec(w)] # Nobody
          /\ Goto(w, "rollback")
          /\ UNCHANGED <<idx, pend, held>>
    /\ UNCHANGED <<sharedVars, payload, newJob, audits, events, attempts, faults, failed>>

(* The end of ingest: lineage marked succeeded, and session_scope commits. *)
Commit(w) ==
    /\ phase[w] = "commit"
    /\ jobs' = jobs \cup {payload[w]}
    /\ rowBy' = [r \in Records |-> IF r \in held[w] THEN payload[w] ELSE rowBy[r]]
    /\ quality' = [r \in Records |-> quality[r] + audits[w][r]]
    /\ Discard(w)
    /\ UNCHANGED <<raw, events, attempts, faults, failed>>

(* session_scope rolls back and the handler raises.  The except clause of     *)
(* ingest has set the job, the run and the dataset to failed in the same      *)
(* session, so that is undone too.                                            *)
Rollback(w) ==
    /\ phase[w] = "rollback"
    /\ Discard(w)
    /\ UNCHANGED <<sharedVars, events, attempts, faults, failed>>

(* QC or a mapping raises in the record loops. *)
ProcessingRaises(w) ==
    /\ phase[w] = "check"
    /\ faults < MaxFaults
    /\ faults' = faults + 1
    /\ failed' = failed \cup {payload[w]}
    /\ Goto(w, "rollback")
    /\ UNCHANGED <<sharedVars, payload, idx, newJob, pend, held, audits, events, attempts>>

(* The process dies, or the object store or the database raises. *)
Crash(w) ==
    /\ phase[w] # "idle"
    /\ faults < MaxFaults
    /\ faults' = faults + 1
    /\ Discard(w)
    /\ UNCHANGED <<sharedVars, events, attempts, failed>>

(* PostgreSQL's deadlock detector aborts one of a set of transactions that    *)
(* wait for each other.                                                       *)
DeadlockVictim(w) ==
    /\ phase[w] = "flush"
    /\ \E C \in SUBSET Workers :
          w \in C /\ \A u \in C : \E v \in C : RowLockedBy(u, v)
    /\ Goto(w, "rollback")
    /\ UNCHANGED <<sharedVars, payload, idx, newJob, pend, held, audits, events, attempts, faults, failed>>

Step(w) ==
    \/ PutRaw(w) \/ SelectJob(w) \/ InsertJob(w)
    \/ IngestAlert(w) \/ IngestPfz(w) \/ IngestObservation(w) \/ IngestForecast(w)
    \/ IngestStation(w) \/ IngestMarineZone(w)
    \/ Flush(w) \/ Commit(w) \/ Rollback(w) \/ DeadlockVictim(w)

Next ==
    \E w \in Workers :
        \/ \E p \in Payloads : Begin(w, p)
        \/ Step(w)
        \/ ProcessingRaises(w)
        \/ Crash(w)

Spec == Init /\ [][Next]_vars

(* Statements end, PostgreSQL resolves deadlocks, and a payload that is not   *)
(* ingested yet is delivered again.                                           *)
Fairness ==
    /\ \A w \in Workers : WF_vars(Step(w))
    /\ \A p \in Payloads : WF_vars(p \notin jobs /\ \E w \in Workers : Begin(w, p))

FairSpec == Spec /\ Fairness
-----------------------------------------------------------------------------
(* A payload is ingested entirely or not at all: once its job is committed,   *)
(* its bytes are in the raw store and every record that belongs in the        *)
(* database is there, although records may have been skipped because another  *)
(* transaction was believed to have stored them.                              *)
AllOrNothing == \A p \in jobs : p \in raw /\ \A r \in Stored(p) : rowBy[r] # Nobody

(* Every row can be traced to a committed job of a payload that contains it,  *)
(* and a record that is inserted once has exactly one audit row, in whatever  *)
(* order duplicate deliveries commit or fail.                                 *)
RowsHaveLineage ==
    /\ \A r \in Records : rowBy[r] # Nobody => rowBy[r] \in jobs /\ r \in Stored(rowBy[r])
    /\ \A r \in Records \ Upserts : quality[r] = (IF rowBy[r] = Nobody THEN 0 ELSE 1)

(* No alert, PFZ or observation becomes visible without its lifecycle event.  *)
(* (The converse does not hold: an event is published before its transaction  *)
(* commits, and stays published when that is rolled back.)                    *)
RowsAreAnnounced == \A r \in Records : (rowBy[r] # Nobody /\ HasEvent(r)) => r \in events

(* Rows are never deleted, and a row inserted once keeps the provenance of    *)
(* the first ingest: a duplicate never replaces it.                           *)
FirstWriterWins ==
    [][\A r \in Records :
         rowBy[r] # Nobody => /\ rowBy'[r] # Nobody
                              /\ r \notin Upserts => rowBy'[r] = rowBy[r]]_vars

(* Ingestion does not get stuck: every attempt ends, even when transactions   *)
(* wait for one another's rows.                                               *)
AttemptsEnd == \A w \in Workers : phase[w] # "idle" ~> phase[w] = "idle"

(* ingest's except clause: "Mark lineage failed ... so callers still observe  *)
(* the error".  After processing raised and nothing later succeeded, the      *)
(* lineage rows exist to say so.                                              *)
FailureIsRecorded ==
    \A p \in failed : (\A w \in Workers : payload[w] # p) => p \in jobs
=============================================================================
