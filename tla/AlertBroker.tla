---------------------------- MODULE AlertBroker ----------------------------
(***************************************************************************)
(* The alert stream of the API: AlertBroker (api/broker.py), one in every  *)
(* uvicorn worker process, the producers that publish on it and the        *)
(* WebSocket handler stream_alerts (api/app.py).                           *)
(*                                                                         *)
(* A process is one event loop: code runs without interruption up to an    *)
(* await that suspends.  No await is made while the broker's lock is held, *)
(* so it is never contended, and publish, subscribe and unsubscribe each   *)
(* run in one piece.                                                       *)
(*                                                                         *)
(* A session is one WebSocket connection; a client that reconnects has a   *)
(* new one.                                                                *)
(***************************************************************************)
EXTENDS Integers, Sequences

CONSTANTS Procs, Sessions, Events, Nobody,
          Replay,       \* length of the replay buffer
          MaxRestarts   \* bound on restarts of processes

ASSUME BrokerAssumption ==
    /\ Replay \in Nat
    /\ MaxRestarts \in Nat
    /\ Nobody \notin Procs

VARIABLES
    recent,   \* process -> _recent
    subs,     \* process -> _subscribers, by session
    tasks,    \* process -> publishes scheduled by publish_alert_sync
    pc,       \* session -> the await its handler is suspended at
    host,     \* session -> the process it is connected to
    queue,    \* session -> its asyncio.Queue
    cur,      \* session -> the event it is sending, as a sequence of at most one
    alive,    \* session -> the connection is up
    posted,   \* events the producers have handed over
    restarts,
    \* history, for the refinement
    log, base, joined, start, sent

brokerVars == <<recent, subs, tasks>>
sessionVars == <<pc, host, queue, cur, alive>>
historyVars == <<log, base, joined, start, sent>>
vars == <<brokerVars, sessionVars, posted, restarts, historyVars>>

TypeOK ==
    /\ recent \in [Procs -> Seq(Events)]
    /\ subs \in [Procs -> SUBSET Sessions]
    /\ tasks \in [Procs -> Seq(Events)]
    /\ pc \in [Sessions -> {"new", "accept", "get", "send", "gone"}]
    /\ host \in [Sessions -> Procs \cup {Nobody}]
    /\ queue \in [Sessions -> Seq(Events)]
    /\ cur \in [Sessions -> Seq(Events)]
    /\ alive \in [Sessions -> BOOLEAN]
    /\ posted \in SUBSET Events
    /\ restarts \in 0 .. MaxRestarts
    /\ \A p \in Procs : Len(recent[p]) <= Replay

Init ==
    /\ recent = [p \in Procs |-> <<>>]
    /\ subs = [p \in Procs |-> {}]
    /\ tasks = [p \in Procs |-> <<>>]
    /\ pc = [s \in Sessions |-> "new"]
    /\ host = [s \in Sessions |-> Nobody]
    /\ queue = [s \in Sessions |-> <<>>]
    /\ cur = [s \in Sessions |-> <<>>]
    /\ alive = [s \in Sessions |-> FALSE]
    /\ posted = {}
    /\ restarts = 0
    /\ log = [p \in Procs |-> <<>>]
    /\ base = [p \in Procs |-> 0]
    /\ joined = [s \in Sessions |-> FALSE]
    /\ start = [s \in Sessions |-> 0]
    /\ sent = [s \in Sessions |-> <<>>]
-----------------------------------------------------------------------------
(* deque(maxlen=replay).append *)
Remember(p, e) ==
    recent' = [recent EXCEPT ![p] =
                 IF Len(@) < Replay THEN Append(@, e)
                 ELSE IF Replay = 0 THEN <<>> ELSE Append(Tail(@), e)]

FanOut(p, e) ==
    queue' = [s \in Sessions |-> IF s \in subs[p] THEN Append(queue[s], e) ELSE queue[s]]

(* AlertBroker.publish *)
Publish(p, e) ==
    /\ Remember(p, e)
    /\ FanOut(p, e)
    /\ log' = [log EXCEPT ![p] = Append(@, e)]
    /\ UNCHANGED <<subs, pc, host, cur, alive, restarts, base, joined, start, sent>>

(* POST /v1/internal/ingest-trigger, or publish_ingest_alerts: the request    *)
(* reaches one of the processes.                                              *)
IngestTrigger(p, e) ==
    /\ e \notin posted
    /\ posted' = posted \cup {e}
    /\ Publish(p, e)
    /\ UNCHANGED tasks

(* publish_alert_sync: schedules a task on the running loop; without one the  *)
(* event is dropped.                                                          *)
PublishAlertSync(p, e) ==
    /\ e \notin posted
    /\ posted' = posted \cup {e}
    /\ tasks' = [tasks EXCEPT ![p] = Append(@, e)] \/ UNCHANGED tasks
    /\ UNCHANGED <<recent, subs, sessionVars, restarts, historyVars>>

RunTask(p) ==
    /\ tasks[p] # <<>>
    /\ tasks' = [tasks EXCEPT ![p] = Tail(@)]
    /\ Publish(p, Head(tasks[p]))
    /\ UNCHANGED posted
-----------------------------------------------------------------------------
(* stream_alerts. *)

Goto(s, label) == pc' = [pc EXCEPT ![s] = label]

Connect(s, p) ==
    /\ pc[s] = "new"
    /\ Goto(s, "accept")
    /\ host' = [host EXCEPT ![s] = p]
    /\ alive' = [alive EXCEPT ![s] = TRUE]
    /\ UNCHANGED <<brokerVars, queue, cur, posted, restarts, historyVars>>

(* Mutation: the replay is forgotten. *)
MutantSubscribe(s) ==
    /\ pc[s] = "accept" /\ alive[s]
    /\ Goto(s, "get")
    /\ subs' = [subs EXCEPT ![host[s]] = @ \cup {s}]
    /\ joined' = [joined EXCEPT ![s] = TRUE]
    /\ start' = [start EXCEPT ![s] = Len(log[host[s]]) - Len(recent[host[s]])]
    /\ UNCHANGED <<recent, tasks, host, queue, cur, alive, posted, restarts, log, base, sent>>

(* accept returned; subscribe replays the buffer and registers the queue.     *)
Subscribe(s) ==
    /\ pc[s] = "accept" /\ alive[s]
    /\ Goto(s, "get")
    /\ queue' = [queue EXCEPT ![s] = recent[host[s]]]
    /\ subs' = [subs EXCEPT ![host[s]] = @ \cup {s}]
    /\ joined' = [joined EXCEPT ![s] = TRUE]
    /\ start' = [start EXCEPT ![s] = Len(log[host[s]]) - Len(recent[host[s]])]
    /\ UNCHANGED <<recent, tasks, host, cur, alive, posted, restarts, log, base, sent>>

(* accept raises: nothing is registered yet. *)
AcceptFails(s) ==
    /\ pc[s] = "accept" /\ ~alive[s]
    /\ Goto(s, "gone")
    /\ UNCHANGED <<brokerVars, host, queue, cur, alive, posted, restarts, historyVars>>

GetEvent(s) ==
    /\ pc[s] = "get" /\ queue[s] # <<>>
    /\ Goto(s, "send")
    /\ cur' = [cur EXCEPT ![s] = <<Head(queue[s])>>]
    /\ queue' = [queue EXCEPT ![s] = Tail(@)]
    /\ UNCHANGED <<brokerVars, host, alive, posted, restarts, historyVars>>

Send(s) ==
    /\ pc[s] = "send" /\ alive[s]
    /\ Goto(s, "get")
    /\ sent' = [sent EXCEPT ![s] = @ \o cur[s]]
    /\ cur' = [cur EXCEPT ![s] = <<>>]
    /\ UNCHANGED <<brokerVars, host, queue, alive, posted, restarts, log, base, joined, start>>

(* Mutation: only a clean disconnect unsubscribes. *)
MutantSendFails(s) ==
    /\ pc[s] = "send" /\ ~alive[s]
    /\ Goto(s, "gone")
    /\ cur' = [cur EXCEPT ![s] = <<>>]
    /\ UNCHANGED <<brokerVars, host, queue, alive, posted, restarts, historyVars>>

(* Mutation: the exception is caught inside the loop. *)
MutantSendFailsGoesOn(s) ==
    /\ pc[s] = "send" /\ ~alive[s]
    /\ Goto(s, "get")
    /\ cur' = [cur EXCEPT ![s] = <<>>]
    /\ UNCHANGED <<brokerVars, host, queue, alive, posted, restarts, historyVars>>

(* send_json raises; the finally clause unsubscribes and the queue is garbage. *)
SendFails(s) ==
    /\ pc[s] = "send" /\ ~alive[s]
    /\ Goto(s, "gone")
    /\ subs' = [subs EXCEPT ![host[s]] = @ \ {s}]
    /\ queue' = [queue EXCEPT ![s] = <<>>]
    /\ cur' = [cur EXCEPT ![s] = <<>>]
    /\ UNCHANGED <<recent, tasks, host, alive, posted, restarts, historyVars>>

(* The client or the network drops the connection.  The handler, which never  *)
(* receives, notices when it next sends.                                      *)
Disconnect(s) ==
    /\ alive[s]
    /\ alive' = [alive EXCEPT ![s] = FALSE]
    /\ UNCHANGED <<brokerVars, pc, host, queue, cur, posted, restarts, historyVars>>

(* A process dies and uvicorn starts another: get_broker makes a new broker.  *)
RestartProc(p) ==
    LET on == {s \in Sessions : host[s] = p}
    IN /\ restarts < MaxRestarts
       /\ restarts' = restarts + 1
       /\ recent' = [recent EXCEPT ![p] = <<>>]
       /\ subs' = [subs EXCEPT ![p] = {}]
       /\ tasks' = [tasks EXCEPT ![p] = <<>>]
       /\ pc' = [s \in Sessions |-> IF s \in on THEN "gone" ELSE pc[s]]
       /\ queue' = [s \in Sessions |-> IF s \in on THEN <<>> ELSE queue[s]]
       /\ cur' = [s \in Sessions |-> IF s \in on THEN <<>> ELSE cur[s]]
       /\ alive' = [s \in Sessions |-> IF s \in on THEN FALSE ELSE alive[s]]
       /\ base' = [base EXCEPT ![p] = Len(log[p])]
       /\ UNCHANGED <<host, posted, log, joined, start, sent>>

Handler(s) == Subscribe(s) \/ AcceptFails(s) \/ GetEvent(s) \/ Send(s) \/ SendFails(s)

Next ==
    \/ \E p \in Procs, e \in Events : IngestTrigger(p, e) \/ PublishAlertSync(p, e)
    \/ \E p \in Procs : RunTask(p) \/ RestartProc(p)
    \/ \E s \in Sessions, p \in Procs : Connect(s, p)
    \/ \E s \in Sessions : Handler(s) \/ Disconnect(s)

Spec == Init /\ [][Next]_vars

(* The event loop runs every ready task; the server's keepalive ends a send   *)
(* to a connection that is down.                                              *)
FairSpec == Spec /\ \A s \in Sessions : WF_vars(Handler(s))
-----------------------------------------------------------------------------
(* The refinement mapping: a session as a client of the feed sees it. *)
feedStatus == [s \in Sessions |-> CASE pc[s] \in {"new", "accept"} -> "new"
                                    [] pc[s] \in {"get", "send"} -> "open"
                                    [] OTHER -> "closed"]
feedJoined == [s \in Sessions |-> IF joined[s] THEN host[s] ELSE Nobody]

Feed == INSTANCE AlertFeed WITH Feeds <- Procs, status <- feedStatus, feed <- feedJoined,
                                got <- sent

(* Each process implements AlertFeed: replay and live events join without a   *)
(* gap or a duplicate whenever a session subscribes, every event reaches the  *)
(* sessions of its process in publication order, and a session that is behind *)
(* makes progress or ends (publish, subscribe and stream_alerts).             *)
ImplementsFeed == Feed!FairSpec

(* No queue grows unread: a registered queue has a running handler, whatever  *)
(* way connections end (the finally clause of stream_alerts).                 *)
NoGhostSubscriber ==
    \A p \in Procs, s \in Sessions : s \in subs[p] <=> host[s] = p /\ pc[s] \in {"get", "send"}

(* The next event after a connection went down ends its session: a dead       *)
(* subscriber costs one event, not a leak.                                    *)
DeadSubscriberLeaves ==
    \A s \in Sessions : (~alive[s] /\ queue[s] # <<>>) ~> pc[s] = "gone"

(* internal_ingest_trigger: "fan them out to WebSocket subscribers via the    *)
(* AlertBroker": every open stream is given the event.                        *)
FansOutToSubscribers ==
    [][\A p \in Procs, e \in Events :
         IngestTrigger(p, e) =>
           \A s \in Sessions : pc[s] \in {"get", "send"} => \E i \in DOMAIN queue'[s] : queue'[s][i] = e]_vars
=============================================================================
