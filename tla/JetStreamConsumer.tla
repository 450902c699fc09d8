-------------------------- MODULE JetStreamConsumer --------------------------
(***************************************************************************)
(* The durable work queue: JetStreamQueue.consume_loop and _dispatch_one   *)
(* (messaging/queue.py) run by worker processes (worker/runtime.py),       *)
(* against a JetStream server with one durable pull consumer per class.    *)
(*                                                                         *)
(* The server is external.  It hands a stored message to a fetch, counts   *)
(* the delivery, and makes the message available again when a nak's delay  *)
(* or the ack wait is over, unless max_deliver deliveries were made: then  *)
(* it is never delivered again.  An ack settles a message whichever        *)
(* delivery it answers.                                                    *)
(*                                                                         *)
(* A worker's program counter is the await it is suspended at.  Signals    *)
(* are callbacks of the event loop, so none runs while a handler (a        *)
(* synchronous call) does.  The order inside a fetched batch is left open. *)
(***************************************************************************)
EXTENDS Integers, FiniteSets

CONSTANTS Workers,     \* worker processes sharing the durable consumers
          Msgs,        \* messages producers may publish
          NumClasses,  \* length of _priorities; class 1 is polled first
          MaxDeliver,  \* max_deliver
          BatchSize,   \* fetch(batch=...)
          MaxFaults,   \* bound on crashes and failed broker calls
          MaxSignals   \* bound on stop signals

ASSUME JetStreamAssumption ==
    /\ NumClasses \in Nat \ {0}
    /\ MaxDeliver \in Nat \ {0}
    /\ BatchSize \in Nat \ {0}
    /\ MaxFaults \in Nat
    /\ MaxSignals \in Nat

(* What decoding a message and looking its handler up meets: a known type, an *)
(* unregistered type, bytes that are not JSON, JSON that is not an object.    *)
Kinds == {"known", "unknown", "undecodable", "misshapen"}

VARIABLES
    class,      \* the stream each message is published on
    kind,       \* what each message holds
    status,     \* server: where each message is
    delivered,  \* server: num_delivered
    dlq,        \* server: copies on the .dlq subject
    dlqErrors,  \* messages whose "DLQ publish failed" was logged
    handled,    \* times each message's handler was called
    done,       \* times each message's handler returned normally
    pc,         \* the await a worker is suspended at
    pos,        \* index of the for loop over _priorities
    batch,      \* rest of the fetched batch, as <<message, num_delivered>>
    cur,        \* the delivery being dispatched, as a set of at most one
    running,    \* _running
    faults, signals

serverVars == <<status, delivered, dlq>>
workerVars == <<pc, pos, batch, cur, running>>
historyVars == <<dlqErrors, handled, done>>
vars == <<class, kind, serverVars, workerVars, historyVars, faults, signals>>

Delivery == Msgs \X (1 .. MaxDeliver)

LoopStates == {"top", "fetch", "dispatch", "handler", "ack", "except", "final"}

TypeOK ==
    /\ class \in [Msgs -> 1 .. NumClasses]
    /\ kind \in [Msgs -> Kinds]
    /\ status \in [Msgs -> {"unsent", "stored", "pending", "delayed", "acked", "exhausted"}]
    /\ delivered \in [Msgs -> 0 .. MaxDeliver]
    /\ dlq \in [Msgs -> Nat]
    /\ dlqErrors \in SUBSET Msgs
    /\ handled \in [Msgs -> Nat]
    /\ done \in [Msgs -> Nat]
    /\ pc \in [Workers -> LoopStates \cup {"down", "subscribe", "stopped"}]
    /\ pos \in [Workers -> 1 .. NumClasses]
    /\ batch \in [Workers -> SUBSET Delivery]
    /\ cur \in [Workers -> SUBSET Delivery]
    /\ running \in [Workers -> BOOLEAN]
    /\ faults \in 0 .. MaxFaults
    /\ signals \in 0 .. MaxSignals

Init ==
    /\ class \in [Msgs -> 1 .. NumClasses]
    /\ kind \in [Msgs -> Kinds]
    /\ status = [m \in Msgs |-> "unsent"]
    /\ delivered = [m \in Msgs |-> 0]
    /\ dlq = [m \in Msgs |-> 0]
    /\ dlqErrors = {}
    /\ handled = [m \in Msgs |-> 0]
    /\ done = [m \in Msgs |-> 0]
    /\ pc = [w \in Workers |-> "down"]
    /\ pos = [w \in Workers |-> 1]
    /\ batch = [w \in Workers |-> {}]
    /\ cur = [w \in Workers |-> {}]
    /\ running = [w \in Workers |-> FALSE]
    /\ faults = 0
    /\ signals = 0
-----------------------------------------------------------------------------
(* The server and the producers. *)

Publish(m) ==
    /\ status[m] = "unsent"
    /\ status' = [status EXCEPT ![m] = "stored"]
    /\ UNCHANGED <<class, kind, delivered, dlq, workerVars, historyVars, faults, signals>>

Redelivered(m) == IF delivered[m] < MaxDeliver THEN "stored" ELSE "exhausted"

(* ack_wait is over, or the delay a nak asked for is. *)
Redeliver(m) ==
    /\ status[m] \in {"pending", "delayed"}
    /\ status' = [status EXCEPT ![m] = Redelivered(m)]
    /\ UNCHANGED <<class, kind, delivered, dlq, workerVars, historyVars, faults, signals>>

(* What the server does with an ack and with a nak of message m. *)
Acked(m) == status' = [status EXCEPT ![m] = "acked"]
Naked(m) == status' = [status EXCEPT ![m] = IF @ = "pending" THEN "delayed" ELSE @]

Fault == faults < MaxFaults /\ faults' = faults + 1
NoFault == UNCHANGED faults
-----------------------------------------------------------------------------
(* The worker process. *)

Goto(w, label) == pc' = [pc EXCEPT ![w] = label]

(* The session ends: close drops the subscriptions; the rest of the batch is *)
(* only in this process.                                                     *)
Leave(w, label) ==
    /\ Goto(w, label)
    /\ batch' = [batch EXCEPT ![w] = {}]
    /\ cur' = [cur EXCEPT ![w] = {}]
    /\ running' = [running EXCEPT ![w] = FALSE]
    /\ UNCHANGED pos

(* asyncio.run, signal handlers installed, connect. *)
Connect(w) ==
    /\ pc[w] = "down"
    /\ Goto(w, "subscribe")
    /\ UNCHANGED <<class, kind, serverVars, pos, batch, cur, running, historyVars, faults,
                   signals>>

(* consume_loop subscribes to each class and sets _running. *)
Subscribe(w) ==
    /\ pc[w] = "subscribe"
    /\ running' = [running EXCEPT ![w] = TRUE]
    /\ Goto(w, "top")
    /\ UNCHANGED <<class, kind, serverVars, pos, batch, cur, historyVars, faults, signals>>

(* SIGTERM or SIGINT: _shutdown calls stop. *)
Signal(w) ==
    /\ signals < MaxSignals
    /\ signals' = signals + 1
    /\ pc[w] \in LoopStates \cup {"subscribe"} /\ pc[w] # "handler"
    /\ running' = [running EXCEPT ![w] = FALSE]
    /\ UNCHANGED <<class, kind, serverVars, pc, pos, batch, cur, historyVars, faults>>

(* Mutations: the loop condition is not re-read; the poll resumes at the class *)
(* it stopped at instead of at the most urgent one.                           *)
MutantTopResumes(w) ==
    /\ pc[w] = "top"
    /\ running[w]
    /\ Goto(w, "fetch")
    /\ UNCHANGED <<pos, batch, cur, running>>
    /\ UNCHANGED <<class, kind, serverVars, historyVars, faults, signals>>

MutantTop(w) ==
    /\ pc[w] = "top"
    /\ Goto(w, "fetch")
    /\ pos' = [pos EXCEPT ![w] = 1]
    /\ UNCHANGED <<batch, cur, running>>
    /\ UNCHANGED <<class, kind, serverVars, historyVars, faults, signals>>

(* The head of `while self._running`. *)
Top(w) ==
    /\ pc[w] = "top"
    /\ \/ /\ running[w]
          /\ Goto(w, "fetch")
          /\ pos' = [pos EXCEPT ![w] = 1]
          /\ UNCHANGED <<batch, cur, running>>
       \/ /\ ~running[w]
          /\ Leave(w, "stopped")
    /\ UNCHANGED <<class, kind, serverVars, historyVars, faults, signals>>

Available(c) == {m \in Msgs : status[m] = "stored" /\ class[m] = c}

(* The sets of messages the server may answer a fetch on class c with. *)
Batches(c) ==
    {S \in SUBSET Available(c) :
        /\ S # {}
        /\ Cardinality(S) <= BatchSize
        /\ S = Available(c) \/ Cardinality(S) = BatchSize}

Deliver(S) ==
    /\ status' = [m \in Msgs |-> IF m \in S THEN "pending" ELSE status[m]]
    /\ delivered' = [m \in Msgs |-> IF m \in S THEN delivered[m] + 1 ELSE delivered[m]]
    /\ UNCHANGED dlq

Fetch(w) ==
    /\ pc[w] = "fetch"
    /\ \E S \in Batches(pos[w]) :
          /\ Deliver(S)
          /\ batch' = [batch EXCEPT ![w] = {<<m, delivered[m] + 1>> : m \in S}]
    /\ Goto(w, "dispatch")
    /\ UNCHANGED <<class, kind, pos, cur, running, historyVars, faults, signals>>

(* No message came: try the next class, after the last one sleep. *)
NextClass(w) ==
    /\ IF pos[w] < NumClasses
       THEN pos' = [pos EXCEPT ![w] = @ + 1] /\ UNCHANGED pc
       ELSE Goto(w, "top") /\ UNCHANGED pos
    /\ UNCHANGED <<batch, cur, running>>

FetchNothing(w) ==
    /\ pc[w] = "fetch"
    /\ Available(pos[w]) = {}
    /\ NextClass(w)
    /\ UNCHANGED <<class, kind, serverVars, historyVars, faults, signals>>

(* `except Exception: msgs = []`: the call failed, before or after the server *)
(* had sent its messages.                                                     *)
FetchFails(w) ==
    /\ pc[w] = "fetch"
    /\ Fault
    /\ \/ UNCHANGED serverVars
       \/ \E S \in Batches(pos[w]) : Deliver(S)
    /\ NextClass(w)
    /\ UNCHANGED <<class, kind, historyVars, signals>>

(* The delivery is settled: on to the next one of the batch. *)
NextOfBatch(w) ==
    /\ cur' = [cur EXCEPT ![w] = {}]
    /\ Goto(w, IF batch[w] = {} THEN "top" ELSE "dispatch")
    /\ UNCHANGED <<pos, batch, running>>

(* _dispatch_one up to the handler call. *)
Dispatch(w, m, n) ==
    /\ pc[w] = "dispatch"
    /\ <<m, n>> \in batch[w]
    /\ batch' = [batch EXCEPT ![w] = @ \ {<<m, n>>}]
    /\ cur' = [cur EXCEPT ![w] = {<<m, n>>}]
    /\ \/ /\ kind[m] = "known"
          /\ handled' = [handled EXCEPT ![m] = @ + 1]
          /\ Goto(w, "handler")
       \/ /\ kind[m] = "unknown"
          /\ Goto(w, "ack")
          /\ UNCHANGED handled
       \/ /\ kind[m] \in {"undecodable", "misshapen"}
          /\ Goto(w, "except")
          /\ UNCHANGED handled
    /\ UNCHANGED <<class, kind, serverVars, pos, running, dlqErrors, done, faults, signals>>

HandlerReturns(w) ==
    /\ pc[w] = "handler"
    /\ \E d \in cur[w] : done' = [done EXCEPT ![d[1]] = @ + 1]
    /\ Goto(w, "ack")
    /\ UNCHANGED <<class, kind, serverVars, pos, batch, cur, running, dlqErrors, handled, faults,
                   signals>>

HandlerRaises(w) ==
    /\ pc[w] = "handler"
    /\ Goto(w, "except")
    /\ UNCHANGED <<class, kind, serverVars, pos, batch, cur, running, historyVars, faults, signals>>

(* await msg.ack() after the handler, or for an unknown type. *)
Ack(w) ==
    /\ pc[w] = "ack"
    /\ \E d \in cur[w] : Acked(d[1])
    /\ NextOfBatch(w)
    /\ UNCHANGED <<class, kind, delivered, dlq, historyVars, faults, signals>>

(* The ack is inside the try: when it raises, a handled message is treated as *)
(* a failed one.                                                              *)
AckRaises(w) ==
    /\ pc[w] = "ack"
    /\ Fault
    /\ Goto(w, "except")
    /\ UNCHANGED <<class, kind, serverVars, pos, batch, cur, running, historyVars, signals>>

(* The handler of _dispatch_one's except clause while deliveries are left. *)
Nak(w) ==
    /\ pc[w] = "except"
    /\ \E d \in cur[w] : d[2] < MaxDeliver /\ Naked(d[1])
    /\ NextOfBatch(w)
    /\ UNCHANGED <<class, kind, delivered, dlq, historyVars, faults, signals>>

(* Mutations: the last delivery goes to the DLQ one delivery early; the DLQ   *)
(* publication is skipped.                                                    *)
MutantDeadLetterEarly(w) ==
    /\ pc[w] = "except"
    /\ \E d \in cur[w] :
          /\ d[2] >= MaxDeliver - 1
          /\ kind[d[1]] # "undecodable"
          /\ dlq' = [dlq EXCEPT ![d[1]] = @ + 1]
    /\ Goto(w, "final")
    /\ UNCHANGED <<class, kind, status, delivered, pos, batch, cur, running, historyVars, faults,
                   signals>>

MutantDeadLetterSkips(w) ==
    /\ pc[w] = "except"
    /\ \E d \in cur[w] : d[2] >= MaxDeliver /\ kind[d[1]] # "undecodable"
    /\ Goto(w, "final")
    /\ UNCHANGED <<class, kind, serverVars, pos, batch, cur, running, historyVars, faults, signals>>

(* The last delivery failed: publish to the .dlq subject.  The payload needs  *)
(* the decoded envelope.                                                      *)
DeadLetter(w) ==
    /\ pc[w] = "except"
    /\ \E d \in cur[w] :
          /\ d[2] >= MaxDeliver
          /\ kind[d[1]] # "undecodable"
          /\ dlq' = [dlq EXCEPT ![d[1]] = @ + 1]
    /\ Goto(w, "final")
    /\ UNCHANGED <<class, kind, status, delivered, pos, batch, cur, running, historyVars, faults,
                   signals>>

(* ... which is logged when it fails: the broker refused it, or `envelope` is *)
(* unbound because the bytes did not decode.                                  *)
DeadLetterFails(w) ==
    /\ pc[w] = "except"
    /\ \E d \in cur[w] :
          /\ d[2] >= MaxDeliver
          /\ IF kind[d[1]] = "undecodable" THEN NoFault ELSE Fault
          /\ dlqErrors' = dlqErrors \cup {d[1]}
    /\ Goto(w, "final")
    /\ UNCHANGED <<class, kind, serverVars, pos, batch, cur, running, handled, done, signals>>

(* The ack after dead-lettering.  The log line that follows names event_type, *)
(* which is unbound when decoding failed: the exception ends the process.     *)
FinalAck(w) ==
    /\ pc[w] = "final"
    /\ \E d \in cur[w] :
          /\ Acked(d[1])
          /\ \/ kind[d[1]] \in {"known", "unknown"} /\ NextOfBatch(w)
             \/ kind[d[1]] \in {"undecodable", "misshapen"} /\ Leave(w, "down")
    /\ UNCHANGED <<class, kind, delivered, dlq, historyVars, faults, signals>>

(* The process dies: killed, out of memory, or a broker call outside any try  *)
(* raised (connect, subscribe, the nak, the ack after dead-lettering).  The   *)
(* container is started again.                                                *)
Crash(w) ==
    /\ pc[w] \notin {"down", "stopped"}
    /\ Fault
    /\ Leave(w, "down")
    /\ UNCHANGED <<class, kind, serverVars, historyVars, signals>>

WorkerStep(w) ==
    \/ Connect(w) \/ Subscribe(w) \/ Top(w) \/ FetchNothing(w)
    \/ \E m \in Msgs, n \in 1 .. MaxDeliver : Dispatch(w, m, n)
    \/ HandlerReturns(w) \/ HandlerRaises(w) \/ Ack(w) \/ Nak(w)
    \/ DeadLetter(w) \/ FinalAck(w)

Next ==
    \/ \E m \in Msgs : Publish(m)
    \/ \E m \in Msgs : Redeliver(m)
    \/ \E w \in Workers :
          \/ WorkerStep(w) \/ Fetch(w)
          \/ Signal(w) \/ FetchFails(w) \/ AckRaises(w) \/ DeadLetterFails(w) \/ Crash(w)

Spec == Init /\ [][Next]_vars

(* The event loop runs, containers restart, the server's timers expire, and a *)
(* poll that keeps finding messages is served in the end.                     *)
Fairness ==
    /\ \A w \in Workers : WF_vars(WorkerStep(w) \/ DeadLetterFails(w)) /\ SF_vars(Fetch(w))
    /\ \A m \in Msgs : WF_vars(Redeliver(m))

FairSpec == Spec /\ Fairness
-----------------------------------------------------------------------------
(* A message the consumer settled was handled, has no handler, is on the DLQ, *)
(* or its failed DLQ publication is in the log: no combination of duplicate   *)
(* deliveries, late acks and crashes settles it silently.                     *)
SettledIsAccounted ==
    \A m \in Msgs :
        status[m] = "acked" =>
            done[m] > 0 \/ kind[m] = "unknown" \/ dlq[m] > 0 \/ m \in dlqErrors

(* A message is dead-lettered at most once and only by its last delivery.     *)
DeadLetteredOnce == \A m \in Msgs : dlq[m] <= 1 /\ (dlq[m] = 1 => delivered[m] = MaxDeliver)

(* Every published message is settled in the end: acknowledged, or delivered  *)
(* max_deliver times, unless every worker obeyed a stop request.  Crashes and *)
(* failed calls only delay it.                                                *)
EventuallySettled ==
    \A m \in Msgs :
        status[m] = "stored" ~> \/ status[m] \in {"acked", "exhausted"}
                               \/ \A w \in Workers : pc[w] = "stopped"

(* A stop request that reaches consume_loop ends it.                          *)
StopEndsLoop ==
    \A w \in Workers : (pc[w] \in LoopStates /\ ~running[w]) ~> pc[w] \in {"down", "stopped"}

(* The jobs of AtLeastOnce are the messages: a try is a delivery, also one    *)
(* that no worker ever sees; the server closes a job when it has its ack.     *)
(* Messages of an unregistered type are dropped, and a dead letter that       *)
(* failed is given up, both with a log line.                                  *)
jobLimit == [m \in Msgs |-> IF status[m] = "unsent" THEN 0 ELSE MaxDeliver]
jobsDone == {m \in Msgs : done[m] > 0}
jobsBuried == {m \in Msgs : dlq[m] > 0}
jobsWaived == {m \in Msgs : kind[m] = "unknown"} \cup dlqErrors
jobsClosed == {m \in Msgs : status[m] = "acked"}

Promise == INSTANCE AtLeastOnce WITH
    Jobs <- Msgs, Limits <- {MaxDeliver}, limit <- jobLimit, tries <- delivered,
    worked <- jobsDone, buried <- jobsBuried, waived <- jobsWaived, closed <- jobsClosed

(* The JetStream backend keeps the promise of a work queue, with any number   *)
(* of workers, lost fetches, crashes and late acks: at most max_deliver       *)
(* tries, none after the ack; acked only after a handler returned, after the  *)
(* one dead letter of the last try, or with its loss on record.               *)
ImplementsAtLeastOnce == Promise!Spec
=============================================================================
