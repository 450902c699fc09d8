--------------------------- MODULE SourceContract ---------------------------
(* The contract between a source adapter and the ingest handler that runs    *)
(* it (sources/base.py, worker/runtime.py): a poll of one dataset sends its  *)
(* requests, and ends either in a FetchResult whose result_state is          *)
(* "success", "empty" or "degraded", or in an exception that carries the     *)
(* state to record and whether the job is worth retrying.  The adapter       *)
(* modules extend this one; SourcePolls puts them together.                  *)
(*                                                                           *)
(* A poll in flight is a record with the fields below and whatever else its  *)
(* adapter keeps in local variables; requests are answered one at a time,    *)
(* in the order the adapter sends them or, where it uses a thread pool, in   *)
(* any order.                                                                *)
EXTENDS Naturals, FiniteSets, Sequences, SequencesExt, FiniteSetsExt

VARIABLES poll,      \* the fetch in progress, or Idle
          outcome    \* what the handler made of the last poll, or NoOutcome

pollVars == <<poll, outcome>>

Idle == [stage |-> "idle"]
NoOutcome == [state |-> "none"]

\* Every exception an adapter of this program can end a poll with: the classes
\* of base.py, and "error" for the RuntimeErrors and raw timeouts that are not
\* of a class of base.py and are recorded as plain failures.
MutantNonRetryable ==    \* SourceContractError marked not retryable
    {"disabled", "auth_blocked", "contract_unavailable", "license_gated", "contract_error"}
NonRetryable == {"disabled", "auth_blocked", "contract_unavailable", "license_gated"}
Errors == NonRetryable \union {"contract_error", "source_unavailable", "error"}

\* The handler takes a job and builds the adapter from settings and payload
\* (config); stage "gate" is the fetch before its first request.
Begin(ds, config) ==
    /\ poll = Idle
    /\ outcome' = NoOutcome
    /\ poll' = [stage |-> "gate", ds |-> ds, config |-> config, left |-> {},
                errors |-> {}, lost |-> {}, records |-> {}]

\* The adapter's fetch goes on with some fields set, new ones or old.
With(fields) ==
    [f \in DOMAIN fields \union DOMAIN poll |->
        IF f \in DOMAIN fields THEN fields[f] ELSE poll[f]]
Continue(fields) == poll' = With(fields) /\ UNCHANGED outcome

\* The exception path of the handler: the source error is recorded, and the
\* job acknowledged only where the class says a retry cannot help.
Raise(kind) ==
    /\ outcome' = [ds |-> poll.ds, state |-> kind, asked |-> poll.stage # "gate",
                   lost |-> poll.lost, records |-> {},
                   settled |-> IF kind \in NonRetryable THEN "acked" ELSE "retry"]
    /\ poll' = Idle

\* The result path: the FetchResult is ingested and the job acknowledged.
Deliver(state, records, lost) ==
    /\ outcome' = [ds |-> poll.ds, state |-> state, asked |-> poll.stage # "gate",
                   lost |-> lost, records |-> records, settled |-> "acked"]
    /\ poll' = Idle

\* A request whose failure ends the poll: the server is unreachable or refuses
\* (URLError, HTTPError, a status other than 200), or it answers and then
\* stalls, which urllib reports as a bare TimeoutError.
Unanswered == Raise("source_unavailable") \/ Raise("error")

MutantResultState(errors, records) ==    \* asks for records before errors
    IF records = {} THEN "empty" ELSE IF errors # {} THEN "degraded" ELSE "success"

\* The rule most adapters share: anything reported as a diagnostic degrades
\* the poll, and a complete poll without records is empty.
ResultState(errors, records) ==
    IF errors # {} THEN "degraded"
    ELSE IF records = {} THEN "empty" ELSE "success"
=============================================================================
