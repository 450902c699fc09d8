--------------------------- MODULE DatasetStatus ---------------------------
(***************************************************************************)
(* The row of table dataset (db/models.py) and the four transactions that  *)
(* write it: a successful ingest and a recorded fetch failure              *)
(* (services/ingestion.py), the freshness sweep (services/freshness.py)    *)
(* and the registry seed (services/registry.py).                           *)
(*                                                                         *)
(* A transaction loads the row into an ORM object, assigns attributes and  *)
(* flushes.  The UPDATE names only the columns whose value differs from    *)
(* the loaded one, and nothing checks that the row is still the one that   *)
(* was loaded: two transactions that overlap mix their columns.  The row   *)
(* lock taken by the flush is held to the commit that follows it at once,  *)
(* so flush and commit are one step here.                                  *)
(***************************************************************************)
EXTENDS Integers, FiniteSets

CONSTANTS Workers, Datasets,
          GoodStates,      \* result states of a successful fetch
          ErrorStates,     \* result states carried by fetch errors
          SeedInterval,    \* dataset -> its registered cadence, 0 for none
          SeedState,       \* dataset -> its registered initial result state
          DefaultInterval, \* cadence of a dataset _ensure_dataset inserts
          Multiplier,      \* stale_multiplier
          MaxClock,        \* bound on the clock
          MaxPolls,        \* bound on polls
          MaxSeeds,        \* bound on runs of the registry seed
          MaxFaults        \* bound on rolled back transactions

Never == -1

BlockedStates == {"disabled", "contract_unavailable", "license_gated"}

ASSUME StatusAssumption ==
    /\ GoodStates \subseteq {"success", "empty", "degraded"}
    /\ ErrorStates \subseteq BlockedStates \cup
         {"auth_blocked", "contract_error", "source_unavailable"}
    /\ SeedInterval \in [Datasets -> Nat]
    /\ SeedState \in [Datasets -> BlockedStates \cup {"not_run"}]
    /\ DefaultInterval \in Nat
    /\ Multiplier \in Nat
    /\ MaxClock \in Nat
    /\ MaxPolls \in Nat
    /\ MaxSeeds \in Nat
    /\ MaxFaults \in Nat

VARIABLES
    clock,
    row,    \* dataset -> its committed row
    score,  \* dataset -> is_stale of its dataset_freshness row, "none" without one
    tx,     \* worker -> its open transaction
    polls, seeds, faults,
    \* history: what happened to the dataset, whatever its row says
    last,   \* dataset -> result state of the last poll that was committed
    fails,  \* dataset -> counted failures committed since the last success
    raced   \* datasets written by a transaction whose copy of the row was stale,
            \* and not ingested afresh since

vars == <<clock, row, score, tx, polls, seeds, faults, last, fails, raced>>

Statuses == {"healthy", "stale", "degraded", "failed", "disabled"}

Row == [status : Statuses \cup {"absent"},
        lastSuccess : Nat \cup {Never},
        failures : Nat,
        state : GoodStates \cup ErrorStates \cup BlockedStates \cup {"not_run"},
        checked : BOOLEAN,       \* last_checked_at is not NULL
        interval : Nat]          \* expected_update_interval_s, 0 for NULL

Absent == [status |-> "absent", lastSuccess |-> Never, failures |-> 0,
           state |-> "not_run", checked |-> FALSE, interval |-> 0]

Idle == [op |-> "none", phase |-> "idle", ds |-> {}, at |-> 0,
         result |-> "not_run", snap |-> [d \in Datasets |-> Absent], scored |-> {}]

TypeOK ==
    /\ clock \in 0 .. MaxClock
    /\ row \in [Datasets -> Row]
    /\ score \in [Datasets -> {"none", "fresh", "stale"}]
    /\ tx \in [Workers ->
         [op : {"none", "ingest", "error", "sweep", "seed"},
          phase : {"idle", "select", "insert", "inserted", "loaded"},
          ds : SUBSET Datasets, at : 0 .. MaxClock,
          result : GoodStates \cup ErrorStates \cup {"not_run"},
          snap : [Datasets -> Row], scored : SUBSET Datasets]]
    /\ polls \in 0 .. MaxPolls
    /\ seeds \in 0 .. MaxSeeds
    /\ faults \in 0 .. MaxFaults
    /\ last \in [Datasets -> GoodStates \cup ErrorStates \cup {"not_run"}]
    /\ fails \in [Datasets -> Nat]
    /\ raced \in SUBSET Datasets
    \* the row of an open INSERT is nobody else's
    /\ \A v, w \in Workers : v # w /\ tx[v].phase = "inserted" /\ tx[w].phase = "inserted"
                               => tx[v].ds \cap tx[w].ds = {}

Init ==
    /\ clock = 0
    /\ row = [d \in Datasets |-> Absent]
    /\ score = [d \in Datasets |-> "none"]
    /\ tx = [w \in Workers |-> Idle]
    /\ polls = 0
    /\ seeds = 0
    /\ faults = 0
    /\ last = [d \in Datasets |-> "not_run"]
    /\ fails = [d \in Datasets |-> 0]
    /\ raced = {}
-----------------------------------------------------------------------------
(* compute_freshness: is a dataset last successful at `ref` stale at `now`?  *)
(* Without a reference it is; without a cadence it is not.                   *)
IsStale(ref, interval, now) ==
    \/ ref = Never
    \/ interval > 0 /\ now - ref > interval * Multiplier

Tick == clock < MaxClock /\ clock' = clock + 1
        /\ UNCHANGED <<row, score, tx, polls, seeds, faults, last, fails, raced>>

(* A worker takes a poll of dataset d: it has fetched bytes (retrieved_at is  *)
(* the clock now) or the adapter raised; the row is not read yet.             *)
Poll(w, d, op, result) ==
    /\ tx[w] = Idle
    /\ polls < MaxPolls
    /\ polls' = polls + 1
    /\ tx' = [tx EXCEPT ![w] = [Idle EXCEPT !.op = op, !.phase = "select",
                                  !.ds = {d}, !.at = clock, !.result = result]]
    /\ UNCHANGED <<clock, row, score, seeds, faults, last, fails, raced>>

FetchSucceeds(w, d) == \E s \in GoodStates : Poll(w, d, "ingest", s)
FetchFails(w, d) == \E s \in ErrorStates : Poll(w, d, "error", s)

(* seed_registry, for one dataset. *)
BeginSeed(w, d) ==
    /\ tx[w] = Idle
    /\ seeds < MaxSeeds
    /\ seeds' = seeds + 1
    /\ tx' = [tx EXCEPT ![w] = [Idle EXCEPT !.op = "seed", !.phase = "select", !.ds = {d}]]
    /\ UNCHANGED <<clock, row, score, polls, faults, last, fails, raced>>

(* SELECT ... WHERE key = d (_ensure_dataset, _upsert_dataset).               *)
SelectDataset(w) ==
    /\ tx[w].phase = "select"
    /\ tx' = [tx EXCEPT ![w].snap = row,
                        ![w].phase = IF \E d \in tx[w].ds : row[d] = Absent
                                     THEN "insert" ELSE "loaded"]
    /\ UNCHANGED <<clock, row, score, polls, seeds, faults, last, fails, raced>>

(* The row each of the two inserts: _ensure_dataset, or the registry seed.    *)
NewRow(op, d) ==
    [Absent EXCEPT !.status = "disabled",
                   !.state = IF op = "seed" THEN SeedState[d] ELSE "not_run",
                   !.interval = IF op = "seed" THEN SeedInterval[d] ELSE DefaultInterval]

(* INSERT of the missing row.  A second INSERT of the key waits for the first *)
(* transaction to end, and fails when it has committed.                       *)
InsertDataset(w) ==
    /\ tx[w].phase = "insert"
    /\ \A v \in Workers \ {w} : ~(tx[v].phase = "inserted" /\ tx[v].ds = tx[w].ds)
    /\ tx' = IF \E d \in tx[w].ds : row[d] # Absent
             THEN [tx EXCEPT ![w] = Idle]
             ELSE [tx EXCEPT ![w].phase = "inserted",
                             ![w].snap = [d \in Datasets |->
                                 IF d \in tx[w].ds THEN NewRow(tx[w].op, d) ELSE @[d]]]
    /\ UNCHANGED <<clock, row, score, polls, seeds, faults, last, fails, raced>>

Ready(w, op) == tx[w].op = op /\ tx[w].phase \in {"inserted", "loaded"}

(* Mutation: the flush writes every column of the loaded object. *)
MutantWritten(cur, snap, new) == new

(* The UPDATE of a flush: only the columns that differ from the loaded ones.  *)
Written(cur, snap, new) ==
    [c \in DOMAIN new |-> IF new[c] = snap[c] THEN cur[c] ELSE new[c]]

(* The rows of its transaction that another has changed since w read them.    *)
Stale(w) == {d \in tx[w].ds : tx[w].phase = "loaded" /\ row[d] # tx[w].snap[d]}

(* Flush and commit: `new` is what the objects hold by then.                  *)
Commit(w, new) ==
    /\ row' = [d \in Datasets |->
         IF d \notin tx[w].ds THEN row[d]
         ELSE LET s == tx[w].snap[d]
              IN Written(IF tx[w].phase = "inserted" THEN s ELSE row[d], s, new[d])]
    /\ tx' = [tx EXCEPT ![w] = Idle]
    /\ raced' = Stale(w) \cup IF tx[w].op = "ingest" THEN raced \ tx[w].ds ELSE raced

(* ingest, after the records: the poll succeeded. *)
CommitIngest(w) ==
    /\ Ready(w, "ingest")
    /\ Commit(w, [d \in Datasets |->
         [tx[w].snap[d] EXCEPT
                   !.lastSuccess = tx[w].at, !.checked = TRUE, !.failures = 0,
                   !.state = tx[w].result,
                   !.status = IF tx[w].result = "degraded" THEN "degraded" ELSE "healthy"]])
    /\ last' = [d \in Datasets |-> IF d \in tx[w].ds THEN tx[w].result ELSE last[d]]
    /\ fails' = [d \in Datasets |-> IF d \in tx[w].ds THEN 0 ELSE fails[d]]
    /\ UNCHANGED <<clock, score, polls, seeds, faults>>

(* Mutation: a block is counted as a failure. *)
MutantCounted(result) == TRUE

(* Only transport and contract failures count; a known block does not.        *)
Counted(result) == result \notin BlockedStates \cup {"auth_blocked"}

StatusOfError(result) ==
    CASE result \in BlockedStates -> "disabled"
      [] result \in {"auth_blocked", "contract_error"} -> "degraded"
      [] OTHER -> "failed"

(* record_source_error.  The history counts by itself, not through Counted.   *)
CommitSourceError(w) ==
    LET counts == tx[w].result \notin BlockedStates \cup {"auth_blocked"}
    IN /\ Ready(w, "error")
       /\ Commit(w, [d \in Datasets |->
            [tx[w].snap[d] EXCEPT
                      !.checked = TRUE, !.state = tx[w].result,
                      !.status = StatusOfError(tx[w].result),
                      !.failures = IF Counted(tx[w].result) THEN @ + 1 ELSE @]])
       /\ last' = [d \in Datasets |-> IF d \in tx[w].ds THEN tx[w].result ELSE last[d]]
       /\ fails' = [d \in Datasets |->
            IF d \in tx[w].ds /\ counts THEN fails[d] + 1 ELSE fails[d]]
       /\ UNCHANGED <<clock, score, polls, seeds, faults>>

(* A row is reset to its registered state only before its first poll.         *)
Reseeds(r) == ~r.checked /\ r.state = "not_run"

(* _upsert_dataset; an inserted row already has these values.                 *)
CommitSeed(w) ==
    /\ Ready(w, "seed")
    /\ Commit(w, [d \in Datasets |->
         LET r == tx[w].snap[d]
         IN IF Reseeds(r)
            THEN [r EXCEPT !.interval = SeedInterval[d], !.status = "disabled",
                           !.state = SeedState[d]]
            ELSE [r EXCEPT !.interval = SeedInterval[d]]])
    /\ UNCHANGED <<clock, score, polls, seeds, faults, last, fails>>

(* evaluate_dataset_freshness: one clock, one SELECT of every dataset.        *)
BeginSweep(w) ==
    /\ tx[w] = Idle
    /\ tx' = [tx EXCEPT ![w] =
         [Idle EXCEPT !.op = "sweep", !.phase = "loaded", !.at = clock, !.snap = row,
                      !.ds = {d \in Datasets : row[d] # Absent},
                      !.scored = {d \in Datasets : score[d] # "none"}]]
    /\ UNCHANGED <<clock, row, score, polls, seeds, faults, last, fails, raced>>

(* Mutation: the age decides the status whatever the status was. *)
MutantAgedStatus(status, stale) == IF stale THEN "stale" ELSE "healthy"

(* Mutation: a stale dataset never recovers. *)
MutantAgedStatusOneWay(status, stale) ==
    IF status = "healthy" /\ stale THEN "stale" ELSE status

AgedStatus(status, stale) ==
    CASE status = "healthy" /\ stale -> "stale"
      [] status = "stale" /\ ~stale -> "healthy"
      [] OTHER -> status

(* The sweep inserts a missing dataset_freshness row; when another sweep did  *)
(* so since, the unique dataset_key makes it fail and roll back.              *)
CommitSweep(w) ==
    LET stale(d) == IsStale(tx[w].snap[d].lastSuccess, tx[w].snap[d].interval, tx[w].at)
    IN /\ Ready(w, "sweep")
       /\ IF \E d \in tx[w].ds \ tx[w].scored : score[d] # "none"
          THEN /\ tx' = [tx EXCEPT ![w] = Idle]
               /\ UNCHANGED <<row, score, raced>>
          ELSE /\ Commit(w, [d \in Datasets |->
                    [tx[w].snap[d] EXCEPT !.status = AgedStatus(@, stale(d))]])
               /\ score' = [d \in Datasets |->
                    IF d \notin tx[w].ds THEN score[d]
                    ELSE IF stale(d) THEN "stale" ELSE "fresh"]
       /\ UNCHANGED <<clock, polls, seeds, faults, last, fails>>

(* An exception or a crash: session_scope rolls everything back.              *)
Rollback(w) ==
    /\ tx[w] # Idle
    /\ faults < MaxFaults
    /\ faults' = faults + 1
    /\ tx' = [tx EXCEPT ![w] = Idle]
    /\ UNCHANGED <<clock, row, score, polls, seeds, last, fails, raced>>

Work(w) == SelectDataset(w) \/ InsertDataset(w) \/ CommitIngest(w)
             \/ CommitSourceError(w) \/ CommitSeed(w) \/ CommitSweep(w)

Next ==
    \/ Tick
    \/ \E w \in Workers :
         \/ \E d \in Datasets : FetchSucceeds(w, d) \/ FetchFails(w, d) \/ BeginSeed(w, d)
         \/ BeginSweep(w)
         \/ Work(w)
         \/ Rollback(w)

Spec == Init /\ [][Next]_vars

(* Airflow triggers a sweep every five minutes and the process worker runs    *)
(* it; an open transaction is finished.  Nothing obliges a poll to happen.    *)
FairSpec ==
    /\ Spec
    /\ WF_vars(\E w \in Workers : BeginSweep(w))
    /\ \A w \in Workers : WF_vars(Work(w))
-----------------------------------------------------------------------------
(* A dataset is called healthy or stale only when some ingest of it has been  *)
(* committed: no sequence of polls, seeds and sweeps, overlapping or not,     *)
(* manufactures health (evaluate_dataset_freshness never lifts a dataset out  *)
(* of disabled, degraded or failed).                                          *)
HealthNeedsData ==
    \A d \in Datasets : row[d].status \in {"healthy", "stale"} => row[d].lastSuccess # Never

(* Seeding the registry again never changes the status of a dataset that has  *)
(* been polled, also when the poll commits between the seed's SELECT and its  *)
(* UPDATE (_upsert_dataset).                                                  *)
SeedKeepsOutcome ==
    [][\A w \in Workers, d \in Datasets :
         tx[w].op = "seed" /\ tx'[w] = Idle /\ row[d].checked
           => row'[d].status = row[d].status /\ row'[d].state = row[d].state]_vars

StatusesShowing(result) ==
    CASE result = "not_run" -> {"absent", "disabled"}
      [] result \in {"success", "empty"} -> {"healthy", "stale"}
      [] result \in {"degraded", "auth_blocked", "contract_error"} -> {"degraded"}
      [] result \in BlockedStates -> {"disabled"}
      [] OTHER -> {"failed"}

(* The status shows the last outcome of the source: sweeps and seeds move it  *)
(* only between healthy and stale.  An update lost between two overlapping    *)
(* transactions falsifies it at most until the next ingest that nothing       *)
(* overlaps.                                                                  *)
StatusShowsLastPoll ==
    \A d \in Datasets \ raced : row[d].status \in StatusesShowing(last[d])

(* "Transport and contract failures increment the failure counter; known      *)
(* blocks do not" (record_source_error): the counter is the number of such    *)
(* failures since the last success, but for updates lost as above.            *)
FailuresAreCounted == \A d \in Datasets \ raced : row[d].failures = fails[d]

(* Once the polls stop, the sweeps bring every healthy or stale dataset to    *)
(* the status its age calls for, and its freshness row too, whatever the      *)
(* overlapping transactions left behind.                                      *)
SweepsConverge ==
    <>[](\A d \in Datasets :
           row[d] # Absent =>
             LET stale == IsStale(row[d].lastSuccess, row[d].interval, clock)
             IN /\ score[d] = IF stale THEN "stale" ELSE "fresh"
                /\ row[d].status \in {"healthy", "stale"} => (row[d].status = "stale") = stale)
=============================================================================
