------------------------------ MODULE WorkQueue ------------------------------
(***************************************************************************)
(* The in-process work queue (InMemoryQueue in messaging/queue.py) drained  *)
(* by one Worker (worker/runtime.py).                                       *)
(*                                                                         *)
(* One message exists per idempotency key, because publish drops a key it  *)
(* has seen, so a message is identified with its key.  The list _pending   *)
(* is a set of keys: next_ready re-sorts it on every call, so only the sort*)
(* key (priority rank, not_before, enqueued_at) decides what is returned.  *)
(* enqueued_at is the publication number, which orders two messages of the *)
(* same clock tick as the microsecond clock of the code does.              *)
(*                                                                         *)
(* run_once is two steps, Begin and Succeed / Fail: the clock moves and     *)
(* messages are published while the handler runs, and nack uses the time   *)
(* that was read before the handler started.  drain is run_once repeated.  *)
(* Log lines and the Prometheus gauges are left out.                       *)
(***************************************************************************)
EXTENDS Integers

CONSTANTS Keys,          \* idempotency keys producers use
          Ranks,         \* PRIORITY_RANK values, 0 is the most urgent
          AttemptLimits, \* values passed as max_attempts
          BackoffBase,   \* backoff_base, in clock ticks
          BackoffMax,    \* backoff_max, in clock ticks
          FreeTime,      \* bound: the clock moves freely up to this tick
          NoKey          \* no message is being handled

ASSUME WorkQueueAssumption ==
    /\ Ranks \subseteq Nat
    /\ AttemptLimits \subseteq Nat \ {0}
    /\ BackoffBase \in Nat
    /\ BackoffMax \in Nat
    /\ FreeTime \in Nat
    /\ NoKey \notin Keys

VARIABLES
    now,        \* the clock that datetime.now reads
    seen,       \* _seen_keys
    pending,    \* _pending, as the set of its keys
    dlq,        \* _dlq: how many copies of each message it holds
    published,  \* number of messages created so far
    msg,        \* fields of each published Message
    running,    \* the message run_once is dispatching, or NoKey
    startedAt,  \* run_once's local `now`, 0 outside it
    stopping,   \* the flag the signal handler sets
    runs,       \* JOB_TOTAL: times a message's dispatch has ended
    succeeded   \* messages counted by JOB_TOTAL as succeeded

vars == <<now, seen, pending, dlq, published, msg, running, startedAt, stopping, runs,
          succeeded>>

Message == [rank : Ranks, known : BOOLEAN, attempts : Nat, maxAttempts : AttemptLimits,
            notBefore : Nat, enqueued : Nat]

TypeOK ==
    /\ now \in Nat
    /\ seen \in SUBSET Keys
    /\ pending \in SUBSET seen
    /\ dlq \in [Keys -> Nat]
    /\ published \in Nat
    /\ msg \in [seen -> Message]
    /\ running \in pending \cup {NoKey}
    /\ startedAt \in Nat
    /\ stopping \in BOOLEAN
    /\ runs \in [Keys -> Nat]
    /\ succeeded \in SUBSET seen

Init ==
    /\ now = 0
    /\ seen = {}
    /\ pending = {}
    /\ dlq = [k \in Keys |-> 0]
    /\ published = 0
    /\ msg = [k \in {} |-> 0]
    /\ running = NoKey
    /\ startedAt = 0
    /\ stopping = FALSE
    /\ runs = [k \in Keys |-> 0]
    /\ succeeded = {}
-----------------------------------------------------------------------------

(* Mutation: publish looks the key up in _pending only. *)
MutantPublishSeen(k, r, h, n) ==
    /\ k \notin pending
    /\ seen' = seen \cup {k}
    /\ pending' = pending \cup {k}
    /\ published' = published + 1
    /\ msg' = [j \in seen \cup {k} |->
                 IF j = k
                 THEN [rank |-> r, known |-> h, attempts |-> 0, maxAttempts |-> n,
                       notBefore |-> now, enqueued |-> published]
                 ELSE msg[j]]
    /\ UNCHANGED <<now, dlq, running, startedAt, stopping, runs, succeeded>>

(* publish: a key already seen returns None and changes nothing. *)
Publish(k, r, h, n) ==
    /\ k \notin seen
    /\ seen' = seen \cup {k}
    /\ pending' = pending \cup {k}
    /\ published' = published + 1
    /\ msg' = [j \in seen \cup {k} |->
                 IF j = k
                 THEN [rank |-> r, known |-> h, attempts |-> 0, maxAttempts |-> n,
                       notBefore |-> now, enqueued |-> published]
                 ELSE msg[j]]
    /\ UNCHANGED <<now, dlq, running, startedAt, stopping, runs, succeeded>>

(* Mutations: a sort key without the priority, and one that breaks ties the *)
(* wrong way round.                                                         *)
MutantPrecedesNoRank(a, b) ==
    \/ a.notBefore < b.notBefore
    \/ a.notBefore = b.notBefore /\ a.enqueued < b.enqueued

MutantPrecedesLifo(a, b) ==
    \/ a.rank < b.rank
    \/ a.rank = b.rank /\ a.notBefore < b.notBefore
    \/ a.rank = b.rank /\ a.notBefore = b.notBefore /\ a.enqueued > b.enqueued

(* The lexicographic sort key of _sort. *)
Precedes(a, b) ==
    \/ a.rank < b.rank
    \/ a.rank = b.rank /\ a.notBefore < b.notBefore
    \/ a.rank = b.rank /\ a.notBefore = b.notBefore /\ a.enqueued < b.enqueued

Ready(t) == {k \in pending : msg[k].notBefore <= t}

(* next_ready returns k at time t: the first message of the sorted list that *)
(* is due.                                                                   *)
NextReady(k, t) ==
    /\ k \in Ready(t)
    /\ \A j \in Ready(t) \ {k} : ~Precedes(msg[j], msg[k])

(* run_once up to the handler call.  When nothing is due it returns False and *)
(* the main loop sleeps, which is the clock moving.                           *)
Begin(k) ==
    /\ ~stopping
    /\ running = NoKey
    /\ NextReady(k, now)
    /\ running' = k
    /\ startedAt' = now
    /\ UNCHANGED <<now, seen, pending, dlq, published, msg, stopping, runs, succeeded>>

(* The handler returns: ack, and JOB_TOTAL counts a success. *)
Succeed(k) ==
    /\ running = k
    /\ msg[k].known
    /\ pending' = pending \ {k}
    /\ running' = NoKey
    /\ startedAt' = 0
    /\ runs' = [runs EXCEPT ![k] = @ + 1]
    /\ succeeded' = succeeded \cup {k}
    /\ UNCHANGED <<now, seen, dlq, published, msg, stopping>>

(* backoff_delay_seconds: full jitter below a capped exponential. *)
BackoffCap(attempt) ==
    LET raw == BackoffBase * 2^(IF attempt - 1 > 0 THEN attempt - 1 ELSE 0)
    IN  IF raw < BackoffMax THEN raw ELSE BackoffMax

(* Mutations: the dead-lettered message stays in _pending; one attempt too    *)
(* many before the DLQ.                                                       *)
MutantNackKeeps(k, t) ==
    LET a == msg[k].attempts + 1
    IN  \/ /\ a >= msg[k].maxAttempts
           /\ msg' = [msg EXCEPT ![k].attempts = a]
           /\ dlq' = [dlq EXCEPT ![k] = @ + 1]
           /\ UNCHANGED pending
        \/ /\ a < msg[k].maxAttempts
           /\ \E d \in 0 .. BackoffCap(a) :
                msg' = [msg EXCEPT ![k] = [@ EXCEPT !.attempts = a, !.notBefore = t + d]]
           /\ UNCHANGED <<pending, dlq>>

MutantNackLate(k, t) ==
    LET a == msg[k].attempts + 1
    IN  \/ /\ a > msg[k].maxAttempts
           /\ msg' = [msg EXCEPT ![k].attempts = a]
           /\ pending' = pending \ {k}
           /\ dlq' = [dlq EXCEPT ![k] = @ + 1]
        \/ /\ a <= msg[k].maxAttempts
           /\ \E d \in 0 .. BackoffCap(a) :
                msg' = [msg EXCEPT ![k] = [@ EXCEPT !.attempts = a, !.notBefore = t + d]]
           /\ UNCHANGED <<pending, dlq>>

(* nack: count the attempt; dead-letter on the last one, else back off from  *)
(* the time t run_once started.                                              *)
Nack(k, t) ==
    LET a == msg[k].attempts + 1
    IN  \/ /\ a >= msg[k].maxAttempts
           /\ msg' = [msg EXCEPT ![k].attempts = a]
           /\ pending' = pending \ {k}
           /\ dlq' = [dlq EXCEPT ![k] = @ + 1]
        \/ /\ a < msg[k].maxAttempts
           /\ \E d \in 0 .. BackoffCap(a) :
                msg' = [msg EXCEPT ![k] = [@ EXCEPT !.attempts = a, !.notBefore = t + d]]
           /\ UNCHANGED <<pending, dlq>>

(* Mutation: run_once swallows the exception without a nack. *)
MutantFailSwallows(k) ==
    /\ running = k
    /\ running' = NoKey
    /\ startedAt' = 0
    /\ UNCHANGED <<now, seen, pending, dlq, published, msg, stopping, runs, succeeded>>

(* The handler raises, or _dispatch raises KeyError because no handler is    *)
(* registered for the payload type.                                          *)
Fail(k) ==
    /\ running = k
    /\ Nack(k, startedAt)
    /\ running' = NoKey
    /\ startedAt' = 0
    /\ runs' = [runs EXCEPT ![k] = @ + 1]
    /\ UNCHANGED <<now, seen, published, stopping, succeeded>>

(* SIGTERM or SIGINT: the current run_once finishes, the loop then ends. *)
Stop ==
    /\ ~stopping
    /\ stopping' = TRUE
    /\ UNCHANGED <<now, seen, pending, dlq, published, msg, running, startedAt, runs,
                   succeeded>>

(* Real time.  Bound: beyond FreeTime the clock moves only while a backoff   *)
(* has yet to expire, so every backoff does expire.                          *)
Tick ==
    /\ now < FreeTime \/ \E k \in pending : msg[k].notBefore > now
    /\ now' = now + 1
    /\ UNCHANGED <<seen, pending, dlq, published, msg, running, startedAt, stopping, runs,
                   succeeded>>

Next ==
    \/ \E k \in Keys, r \in Ranks, h \in BOOLEAN, n \in AttemptLimits : Publish(k, r, h, n)
    \/ \E k \in Keys : Begin(k)
    \/ \E k \in Keys : Succeed(k)
    \/ \E k \in Keys : Fail(k)
    \/ Stop
    \/ Tick

(* The worker loop never stops calling run_once, handlers end (the adapters  *)
(* use request timeouts), and time passes.                                   *)
Fairness ==
    /\ WF_vars(\E k \in Keys : Begin(k))
    /\ WF_vars(\E k \in Keys : Succeed(k) \/ Fail(k))
    /\ WF_vars(Tick)

Spec == Init /\ [][Next]_vars

FairSpec == Spec /\ Fairness
-----------------------------------------------------------------------------
(* A published message is in exactly one place: still queued, succeeded, or   *)
(* dead-lettered once.  No failure path of nack loses or copies a message,    *)
(* and a message does not disappear while it is being handled.                *)
ExactlyOnePlace ==
    /\ pending \cap succeeded = {}
    /\ \A k \in Keys : /\ dlq[k] <= 1
                       /\ dlq[k] = 1 <=> k \in seen \ (pending \cup succeeded)

(* The retry budget: a message that can still run has attempts left, one in   *)
(* the DLQ has used exactly max_attempts, and JOB_TOTAL counts every dispatch *)
(* once (a success after earlier failures included).                          *)
RetryBudget ==
    \A k \in seen :
        /\ k \in pending \cup succeeded => msg[k].attempts < msg[k].maxAttempts
        /\ dlq[k] = 1 => msg[k].attempts = msg[k].maxAttempts
        /\ runs[k] = msg[k].attempts + (IF k \in succeeded THEN 1 ELSE 0)

(* Strict priority isolation (the promise of _sort and subjects.py): when a   *)
(* dispatch starts, no due message of a more urgent class is left waiting,    *)
(* however often either has been retried.                                     *)
PriorityIsolation ==
    [][\A k \in Keys :
         (running # k /\ running' = k) =>
            \A j \in pending : msg[j].rank < msg[k].rank => msg[j].notBefore > now]_vars

(* Within a class, messages that have never failed start in publication order. *)
FifoWithinClass ==
    [][\A k \in Keys :
         (running # k /\ running' = k /\ msg[k].attempts = 0) =>
            \A j \in pending :
               (msg[j].rank = msg[k].rank /\ msg[j].attempts = 0) =>
                  msg[j].enqueued >= msg[k].enqueued]_vars

(* A message that left the queue (acknowledged or dead-lettered) never comes  *)
(* back, and its key can never be queued again.                               *)
NoResurrection ==
    [][\A k \in seen : k \notin pending => (k \in seen' /\ k \notin pending')]_vars

(* Every queued message is eventually settled unless the worker is told to    *)
(* stop: backoff and priorities delay it but never starve it.                 *)
EventuallySettled ==
    \A k \in Keys : k \in pending ~> (k \notin pending \/ stopping)

(* The jobs of AtLeastOnce are the keys: a try is a dispatch, a job is closed *)
(* when its message has left _pending, and none is ever given up.             *)
jobLimit == [k \in Keys |-> IF k \in seen THEN msg[k].maxAttempts ELSE 0]
jobTries == [k \in Keys |-> IF running = k THEN runs[k] + 1 ELSE runs[k]]
jobsBuried == {k \in Keys : dlq[k] > 0}

Promise == INSTANCE AtLeastOnce WITH
    Jobs <- Keys, Limits <- AttemptLimits, limit <- jobLimit, tries <- jobTries,
    worked <- succeeded, buried <- jobsBuried, waived <- {}, closed <- seen \ pending

(* The in-process backend keeps the promise of a work queue: at least one try *)
(* per job and at most max_attempts, none once the job is closed; closed only *)
(* by a success or by the one dead letter after the last try.                 *)
ImplementsAtLeastOnce == Promise!Spec
=============================================================================
