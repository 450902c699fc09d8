-------------------------- MODULE AlertBrokerProofs --------------------------
(***************************************************************************)
(* Proofs about AlertBroker for every set of processes, sessions and       *)
(* events and every length of the replay buffer: no queue is left behind,  *)
(* and each process implements the safety part of AlertFeed.               *)
(*                                                                         *)
(* The refinement needs to know what the buffers hold: the replay buffer   *)
(* is the end of the log of its process (RecentInv), and what a session    *)
(* has sent, is sending and has queued is the log from where it started    *)
(* (StreamInv).  Publish appends to the queues of the registered sessions  *)
(* only, so StreamInv in turn needs NoGhostSubscriber.                     *)
(***************************************************************************)
EXTENDS AlertBroker, SequenceTheorems, TLAPS

(* The types of the history variables, which TypeOK leaves out. *)
HistoryOK ==
    /\ log \in [Procs -> Seq(Events)]
    /\ base \in [Procs -> Nat]
    /\ joined \in [Sessions -> BOOLEAN]
    /\ start \in [Sessions -> Nat]
    /\ sent \in [Sessions -> Seq(Events)]

(* A session has a process from its connection on, and a place in the log     *)
(* from its subscription on.                                                  *)
SessionInv ==
    \A s \in Sessions :
        /\ pc[s] = "new" => host[s] = Nobody
        /\ pc[s] \in {"accept", "get", "send"} => host[s] \in Procs
        /\ pc[s] \in {"new", "accept"} => ~joined[s] /\ cur[s] = <<>> /\ sent[s] = <<>>
        /\ pc[s] \in {"get", "send"} => joined[s]

(* q is the end of l. *)
IsEnd(q, l) ==
    /\ Len(q) <= Len(l)
    /\ \A i \in 1 .. Len(q) : q[i] = l[Len(l) - Len(q) + i]

(* _recent is the end of the log, as long as the deque and the history of the *)
(* process allow.                                                             *)
RecentInv ==
    \A p \in Procs :
        /\ IsEnd(recent[p], log[p])
        /\ base[p] <= Len(log[p])
        /\ Len(recent[p]) = IF Len(log[p]) - base[p] > Replay THEN Replay
                            ELSE Len(log[p]) - base[p]

(* What an open session has sent, is sending and has queued is the log of its *)
(* process from start[s] on.                                                  *)
StreamInv ==
    \A s \in Sessions :
        pc[s] \in {"get", "send"} =>
            /\ IsEnd(queue[s], log[host[s]])
            /\ Len(log[host[s]]) = start[s] + Len(sent[s]) + Len(cur[s]) + Len(queue[s])
            /\ cur[s] = IF pc[s] = "send" THEN <<log[host[s]][start[s] + Len(sent[s]) + 1]>>
                        ELSE <<>>

IInv == TypeOK /\ HistoryOK /\ SessionInv /\ NoGhostSubscriber /\ RecentInv /\ StreamInv

(* The initial state satisfies the inductive invariant. *)
LEMMA InitIInv == Init => IInv
  <1> SUFFICES ASSUME Init PROVE IInv
    OBVIOUS
  <1> USE BrokerAssumption
  <1>1. TypeOK
    BY DEF Init, TypeOK
  <1>2. HistoryOK
    BY DEF Init, HistoryOK
  <1>3. SessionInv /\ NoGhostSubscriber /\ StreamInv
    BY DEF Init, SessionInv, NoGhostSubscriber, StreamInv
  <1>4. RecentInv
    <2> SUFFICES ASSUME NEW p \in Procs
                 PROVE  /\ IsEnd(recent[p], log[p])
                        /\ base[p] <= Len(log[p])
                        /\ Len(recent[p]) = IF Len(log[p]) - base[p] > Replay THEN Replay
                                            ELSE Len(log[p]) - base[p]
      BY DEF RecentInv
    <2>1. Len(recent[p]) = 0 /\ Len(log[p]) = 0 /\ base[p] = 0
      BY DEF Init
    <2>2. QED
      BY <2>1 DEF IsEnd
  <1>5. QED
    BY <1>1, <1>2, <1>3, <1>4 DEF IInv
-----------------------------------------------------------------------------
(* Facts about sequences. *)

(* An event appended to both keeps one the end of the other. *)
LEMMA EndAppend ==
  ASSUME NEW S, NEW q \in Seq(S), NEW l \in Seq(S), NEW e \in S, IsEnd(q, l)
  PROVE  IsEnd(Append(q, e), Append(l, e))
  <1> DEFINE m == Len(q)
             n == Len(l)
             qq == Append(q, e)
             ll == Append(l, e)
  <1>1. /\ m \in Nat /\ n \in Nat /\ m <= n
        /\ Len(qq) = m + 1 /\ Len(ll) = n + 1
        /\ qq[m + 1] = e /\ ll[n + 1] = e
    BY AppendProperties DEF IsEnd
  <1>2. /\ \A i \in 1 .. m : qq[i] = q[i] /\ q[i] = l[n - m + i]
        /\ \A i \in 1 .. n : ll[i] = l[i]
    BY AppendProperties DEF IsEnd
  <1> HIDE DEF m, n, qq, ll
  <1>3. ASSUME NEW i \in 1 .. m + 1 PROVE qq[i] = ll[(n + 1) - (m + 1) + i]
    <2>1. (n + 1) - (m + 1) + i = n - m + i
      BY <1>1
    <2>2. CASE i = m + 1
      BY <1>1, <2>1, <2>2
    <2>3. CASE i # m + 1
      <3>1. i \in 1 .. m /\ n - m + i \in 1 .. n
        BY <1>1, <2>3
      <3>2. QED
        BY <1>2, <2>1, <3>1
    <2>4. QED
      BY <2>2, <2>3
  <1>4. Len(qq) <= Len(ll) /\ \A i \in 1 .. Len(qq) : qq[i] = ll[Len(ll) - Len(qq) + i]
    BY <1>1, <1>3
  <1>5. QED
    BY <1>4 DEF IsEnd, qq, ll

(* The end of a sequence begins where it should, and its tail is an end too. *)
LEMMA EndTail ==
  ASSUME NEW S, NEW q \in Seq(S), NEW l \in Seq(S), q # <<>>, IsEnd(q, l)
  PROVE  /\ Tail(q) \in Seq(S) /\ Len(Tail(q)) = Len(q) - 1 /\ Len(q) \in Nat \ {0}
         /\ Head(q) \in S /\ Head(q) = l[Len(l) - Len(q) + 1]
         /\ IsEnd(Tail(q), l)
  <1>1. /\ Tail(q) \in Seq(S) /\ Len(Tail(q)) = Len(q) - 1
        /\ Len(q) \in Nat \ {0} /\ Len(l) \in Nat
        /\ \A i \in 1 .. Len(q) - 1 : Tail(q)[i] = q[i + 1]
    OBVIOUS
  <1>2. Head(q) = q[1] /\ q[1] \in S /\ 1 \in 1 .. Len(q)
    BY <1>1
  <1>3. Head(q) = l[Len(l) - Len(q) + 1]
    BY <1>2 DEF IsEnd
  <1>4. ASSUME NEW i \in 1 .. Len(Tail(q))
        PROVE  Tail(q)[i] = l[Len(l) - Len(Tail(q)) + i]
    <2>1. i \in 1 .. Len(q) - 1 /\ i + 1 \in 1 .. Len(q)
      BY <1>1
    <2>2. Tail(q)[i] = l[Len(l) - Len(q) + (i + 1)]
      BY <1>1, <2>1 DEF IsEnd
    <2>3. Len(l) - Len(q) + (i + 1) = Len(l) - Len(Tail(q)) + i
      BY <1>1
    <2>4. QED
      BY <2>2, <2>3
  <1>5. Len(Tail(q)) <= Len(l)
    BY <1>1 DEF IsEnd
  <1>6. QED
    BY <1>1, <1>2, <1>3, <1>4, <1>5 DEF IsEnd

(* The empty sequence is an end. *)
LEMMA EndEmpty ==
  ASSUME NEW S, NEW l \in Seq(S)
  PROVE  IsEnd(<<>>, l)
  <1>1. Len(<<>>) = 0 /\ Len(l) \in Nat
    OBVIOUS
  <1>2. QED
    BY <1>1 DEF IsEnd
-----------------------------------------------------------------------------
(* AlertBroker.publish: the buffer is shifted, and every session of the       *)
(* process and no other has the event appended.                               *)
LEMMA PublishStep ==
  ASSUME IInv, NEW p \in Procs, NEW e \in Events, Publish(p, e),
         tasks' \in [Procs -> Seq(Events)], posted' \in SUBSET Events
  PROVE  IInv'
  <1> USE BrokerAssumption
  <1>1. TypeOK /\ HistoryOK /\ SessionInv /\ NoGhostSubscriber /\ RecentInv /\ StreamInv
    BY DEF IInv
  <1>2. /\ UNCHANGED <<subs, pc, host, cur, alive, restarts, base, joined, start, sent>>
        /\ log' = [log EXCEPT ![p] = Append(@, e)]
    BY DEF Publish
  <1>3. /\ log[p] \in Seq(Events) /\ recent[p] \in Seq(Events)
        /\ log'[p] = Append(log[p], e)
        /\ \A q \in Procs \ {p} : log'[q] = log[q]
    BY <1>1, <1>2 DEF TypeOK, HistoryOK
  <1>4. HistoryOK'
    BY <1>1, <1>2, <1>3 DEF HistoryOK
  <1>5. SessionInv' /\ NoGhostSubscriber'
    BY <1>1, <1>2 DEF SessionInv, NoGhostSubscriber
  <1>6. /\ recent' \in [Procs -> Seq(Events)]
        /\ \A q \in Procs \ {p} : recent'[q] = recent[q]
        /\ recent'[p] = IF Len(recent[p]) < Replay THEN Append(recent[p], e)
                        ELSE IF Replay = 0 THEN <<>> ELSE Append(Tail(recent[p]), e)
    BY <1>1, <1>3 DEF Publish, Remember, TypeOK
  <1>7. /\ queue' \in [Sessions -> Seq(Events)]
        /\ \A s \in Sessions : queue'[s] = IF s \in subs[p] THEN Append(queue[s], e) ELSE queue[s]
    BY <1>1 DEF Publish, FanOut, TypeOK
  <1> DEFINE n == Len(log[p])
             m == Len(recent[p])
  <1>8. /\ n \in Nat /\ m \in Nat /\ n' = n + 1
        /\ base[p] \in Nat /\ base[p] <= n /\ m <= Replay
        /\ m = IF n - base[p] > Replay THEN Replay ELSE n - base[p]
        /\ IsEnd(recent[p], log[p])
    BY <1>1, <1>3, AppendProperties DEF TypeOK, HistoryOK, RecentInv
  <1>9. /\ IsEnd(recent'[p], log'[p])
        /\ m' = IF m < Replay THEN m + 1 ELSE Replay
    <2>1. CASE m < Replay
      <3>1. recent'[p] = Append(recent[p], e)
        BY <1>6, <2>1
      <3>2. IsEnd(recent'[p], log'[p])
        BY <1>3, <1>8, <3>1, EndAppend
      <3>3. m' = m + 1
        BY <1>3, <3>1, AppendProperties
      <3>4. QED
        BY <2>1, <3>2, <3>3
    <2>2. CASE Replay = 0
      <3>1. recent'[p] = <<>> /\ m' = 0
        BY <1>6, <1>8, <2>2
      <3>2. log'[p] \in Seq(Events)
        BY <1>3, AppendProperties
      <3>3. IsEnd(recent'[p], log'[p])
        BY <3>1, <3>2, EndEmpty
      <3> HIDE DEF m
      <3>4. QED
        BY <1>8, <2>2, <3>1, <3>3
    <2>3. CASE m = Replay /\ Replay # 0
      <3>1. recent[p] # <<>> /\ recent'[p] = Append(Tail(recent[p]), e)
        BY <1>6, <2>3
      <3>2. /\ Tail(recent[p]) \in Seq(Events) /\ Len(Tail(recent[p])) = m - 1
            /\ IsEnd(Tail(recent[p]), log[p])
        <4>1. IsEnd(recent[p], log[p])
          BY <1>8
        <4>2. QED
          BY <1>3, <3>1, <4>1, EndTail
      <3>3. IsEnd(recent'[p], log'[p])
        <4>1. log[p] \in Seq(Events) /\ Tail(recent[p]) \in Seq(Events)
              /\ IsEnd(Tail(recent[p]), log[p])
          BY <1>3, <3>2
        <4>2. IsEnd(Append(Tail(recent[p]), e), Append(log[p], e))
          BY <4>1, EndAppend
        <4>3. QED
          BY <1>3, <3>1, <4>2
      <3>4. m' = Len(Tail(recent[p])) + 1
        BY <3>1, <3>2, AppendProperties
      <3> HIDE DEF m
      <3>5. QED
        BY <1>8, <2>3, <3>2, <3>3, <3>4
    <2>4. QED
      BY <1>8, <2>1, <2>2, <2>3
  <1>10. RecentInv'
    <2>1. base'[p] = base[p]
      BY <1>2
    <2> HIDE DEF n, m
    <2>2. m' = IF n' - base'[p] > Replay THEN Replay ELSE n' - base'[p]
      BY <1>8, <1>9, <2>1
    <2>3. base'[p] <= n'
      BY <1>8, <2>1
    <2>4. QED
      BY <1>1, <1>2, <1>3, <1>6, <1>9, <2>2, <2>3 DEF RecentInv, n, m
  <1>11. StreamInv'
    <2> SUFFICES ASSUME NEW s \in Sessions, pc[s] \in {"get", "send"}
                 PROVE  /\ IsEnd(queue'[s], log'[host[s]])
                        /\ Len(log'[host[s]]) = start[s] + Len(sent[s]) + Len(cur[s]) + Len(queue'[s])
                        /\ cur[s] = IF pc[s] = "send"
                                    THEN <<log'[host[s]][start[s] + Len(sent[s]) + 1]>> ELSE <<>>
      BY <1>2 DEF StreamInv
    <2>1. /\ host[s] \in Procs
          /\ start[s] \in Nat /\ sent[s] \in Seq(Events) /\ cur[s] \in Seq(Events)
          /\ queue[s] \in Seq(Events) /\ log[host[s]] \in Seq(Events)
      BY <1>1 DEF SessionInv, TypeOK, HistoryOK
    <2>2. /\ IsEnd(queue[s], log[host[s]])
          /\ Len(log[host[s]]) = start[s] + Len(sent[s]) + Len(cur[s]) + Len(queue[s])
          /\ cur[s] = IF pc[s] = "send" THEN <<log[host[s]][start[s] + Len(sent[s]) + 1]>>
                      ELSE <<>>
      BY <1>1 DEF StreamInv
    <2>3. CASE host[s] = p
      <3>1. queue'[s] = Append(queue[s], e) /\ log'[host[s]] = Append(log[host[s]], e)
        BY <1>1, <1>3, <1>7, <2>3 DEF NoGhostSubscriber
      <3>2. IsEnd(queue'[s], log'[host[s]])
        BY <2>1, <2>2, <3>1, EndAppend
      <3>3. /\ Len(queue'[s]) = Len(queue[s]) + 1 /\ Len(queue[s]) \in Nat
            /\ Len(log'[host[s]]) = Len(log[host[s]]) + 1 /\ Len(log[host[s]]) \in Nat
            /\ \A i \in 1 .. Len(log[host[s]]) : log'[host[s]][i] = log[host[s]][i]
        BY <2>1, <3>1, AppendProperties
      <3> DEFINE a == start[s] + Len(sent[s])
                 c == Len(cur[s])
                 k == Len(queue[s])
                 l == Len(log[host[s]])
                 kk == Len(queue'[s])
                 ll == Len(log'[host[s]])
      <3>4. a \in Nat /\ c \in Nat
        BY <2>1
      <3>5. ll = a + c + kk
        <4>1. l = a + c + k /\ kk = k + 1 /\ ll = l + 1 /\ k \in Nat
          BY <2>2, <3>3
        <4> HIDE DEF a, c, k, l, kk, ll
        <4>2. QED
          BY <3>4, <4>1
      <3>6. CASE pc[s] = "send"
        <4>1. c = 1
          BY <2>2, <3>6
        <4>2. a + 1 \in 1 .. l
          <5>1. l = a + c + k /\ k \in Nat
            BY <2>2, <3>3
          <5> HIDE DEF a, c, k, l
          <5>2. QED
            BY <3>4, <4>1, <5>1
        <4>3. QED
          BY <2>2, <3>2, <3>3, <3>5, <4>2
      <3>7. QED
        BY <2>2, <3>2, <3>5, <3>6
    <2>4. CASE host[s] # p
      <3>1. queue'[s] = queue[s] /\ log'[host[s]] = log[host[s]]
        BY <1>1, <1>3, <1>7, <2>1, <2>4 DEF NoGhostSubscriber
      <3>2. QED
        BY <2>2, <3>1
    <2>5. QED
      BY <2>3, <2>4
  <1>12. TypeOK'
    <2>1. m' <= Replay
      BY <1>8, <1>9
    <2>2. QED
      BY <1>1, <1>2, <1>6, <1>7, <2>1 DEF TypeOK
  <1>13. QED
    BY <1>4, <1>5, <1>10, <1>11, <1>12 DEF IInv

(* A process restarts: its sessions are gone, its buffer and its registry are *)
(* empty, and its history in the log begins anew.                             *)
LEMMA RestartStep ==
  ASSUME IInv, NEW p \in Procs, RestartProc(p)
  PROVE  IInv'
  <1> USE BrokerAssumption
  <1>1. TypeOK /\ HistoryOK /\ SessionInv /\ NoGhostSubscriber /\ RecentInv /\ StreamInv
    BY DEF IInv
  <1>2. UNCHANGED <<host, posted, log, joined, start, sent>>
    BY DEF RestartProc
  <1>3. /\ recent' = [recent EXCEPT ![p] = <<>>]
        /\ subs' = [subs EXCEPT ![p] = {}]
        /\ base' = [base EXCEPT ![p] = Len(log[p])]
    BY DEF RestartProc
  <1>4. \A s \in Sessions :
           IF host[s] = p
           THEN pc'[s] = "gone" /\ queue'[s] = <<>> /\ cur'[s] = <<>>
           ELSE pc'[s] = pc[s] /\ queue'[s] = queue[s] /\ cur'[s] = cur[s]
    BY DEF RestartProc
  <1>5. /\ pc' \in [Sessions -> {"new", "accept", "get", "send", "gone"}]
        /\ queue' \in [Sessions -> Seq(Events)]
        /\ cur' \in [Sessions -> Seq(Events)]
    BY <1>1 DEF RestartProc, TypeOK
  <1>6. alive' \in [Sessions -> BOOLEAN]
    BY <1>1 DEF RestartProc, TypeOK
  <1>7. TypeOK'
    <2>1. restarts' \in 0 .. MaxRestarts /\ tasks' \in [Procs -> Seq(Events)]
      BY <1>1 DEF RestartProc, TypeOK
    <2>2. recent' \in [Procs -> Seq(Events)] /\ subs' \in [Procs -> SUBSET Sessions]
      BY <1>1, <1>3 DEF TypeOK
    <2>3. \A q \in Procs : Len(recent'[q]) <= Replay
      <3>1. Len(<<>>) <= Replay
        OBVIOUS
      <3>2. QED
        BY <1>1, <1>3, <3>1 DEF TypeOK
    <2>4. QED
      BY <1>1, <1>2, <1>5, <1>6, <2>1, <2>2, <2>3 DEF TypeOK
  <1>8. HistoryOK'
    BY <1>1, <1>2, <1>3 DEF HistoryOK
  <1>9. SessionInv'
    BY <1>1, <1>2, <1>4 DEF SessionInv
  <1>10. NoGhostSubscriber'
    BY <1>1, <1>2, <1>3, <1>4 DEF NoGhostSubscriber, TypeOK
  <1>11. RecentInv'
    <2>1. log[p] \in Seq(Events) /\ Len(log[p]) \in Nat
      BY <1>1 DEF HistoryOK
    <2>2. recent'[p] = <<>> /\ base'[p] = Len(log[p]) /\ Len(recent'[p]) = 0
      BY <1>1, <1>3 DEF TypeOK, HistoryOK
    <2>3. IsEnd(recent'[p], log[p])
      BY <2>1, <2>2, EndEmpty
    <2>4. Len(recent'[p]) = IF Len(log[p]) - base'[p] > Replay THEN Replay
                            ELSE Len(log[p]) - base'[p]
      BY <2>1, <2>2
    <2>5. \A q \in Procs \ {p} : recent'[q] = recent[q] /\ base'[q] = base[q]
      BY <1>1, <1>3 DEF TypeOK, HistoryOK
    <2>6. QED
      BY <1>1, <1>2, <2>1, <2>2, <2>3, <2>4, <2>5 DEF RecentInv
  <1>12. StreamInv'
    BY <1>1, <1>2, <1>4 DEF StreamInv
  <1>13. QED
    BY <1>7, <1>8, <1>9, <1>10, <1>11, <1>12 DEF IInv

(* subscribe: the queue starts as the replay buffer, which ends where the log *)
(* does.                                                                      *)
LEMMA SubscribeStep ==
  ASSUME IInv, NEW s \in Sessions, Subscribe(s)
  PROVE  IInv'
  <1> USE BrokerAssumption
  <1> DEFINE p == host[s]
             from == Len(log[p]) - Len(recent[p])
  <1>1. TypeOK /\ HistoryOK /\ SessionInv /\ NoGhostSubscriber /\ RecentInv /\ StreamInv
    BY DEF IInv
  <1>2. p \in Procs /\ pc[s] = "accept" /\ ~joined[s]
    BY <1>1 DEF SessionInv, Subscribe
  <1>3. /\ recent[p] \in Seq(Events) /\ log[p] \in Seq(Events) /\ IsEnd(recent[p], log[p])
        /\ from \in Nat
    BY <1>1, <1>2 DEF TypeOK, HistoryOK, RecentInv, IsEnd
  <1>4. UNCHANGED <<recent, tasks, host, cur, alive, posted, restarts, log, base, sent>>
    BY DEF Subscribe
  <1>5. /\ pc' = [pc EXCEPT ![s] = "get"]
        /\ queue' = [queue EXCEPT ![s] = recent[p]]
        /\ subs' = [subs EXCEPT ![p] = @ \cup {s}]
        /\ joined' = [joined EXCEPT ![s] = TRUE]
        /\ start' = [start EXCEPT ![s] = from]
    BY DEF Subscribe, Goto
  <1>6. TypeOK'
    BY <1>1, <1>2, <1>3, <1>4, <1>5 DEF TypeOK
  <1>7. HistoryOK'
    <2>1. joined' \in [Sessions -> BOOLEAN]
      BY <1>1, <1>5 DEF HistoryOK
    <2>2. QED
      BY <1>1, <1>3, <1>4, <1>5, <2>1 DEF HistoryOK
  <1>8. SessionInv'
    BY <1>1, <1>2, <1>4, <1>5 DEF SessionInv, TypeOK, HistoryOK
  <1>9. NoGhostSubscriber'
    BY <1>1, <1>2, <1>4, <1>5 DEF NoGhostSubscriber, TypeOK
  <1>10. RecentInv'
    BY <1>1, <1>4 DEF RecentInv
  <1>11. StreamInv'
    <2>1. /\ queue'[s] = recent[p] /\ pc'[s] = "get" /\ start'[s] = from
          /\ \A t \in Sessions \ {s} :
                queue'[t] = queue[t] /\ pc'[t] = pc[t] /\ start'[t] = start[t]
      BY <1>1, <1>5 DEF TypeOK, HistoryOK
    <2>2. cur[s] = <<>> /\ sent[s] = <<>>
      BY <1>1, <1>2 DEF SessionInv
    <2>3. Len(log[p]) = from + Len(sent[s]) + Len(cur[s]) + Len(recent[p])
      <3> DEFINE a == Len(log[p])
                 b == Len(recent[p])
      <3>1. a \in Nat /\ b \in Nat /\ from = a - b /\ Len(<<>>) = 0
        BY <1>3
      <3> HIDE DEF a, b, from
      <3>2. QED
        BY <2>2, <3>1 DEF a, b
    <2>4. QED
      BY <1>1, <1>3, <1>4, <2>1, <2>2, <2>3 DEF StreamInv
  <1>12. QED
    BY <1>6, <1>7, <1>8, <1>9, <1>10, <1>11 DEF IInv

(* The sending loop: an event moves from the queue to the socket. *)
LEMMA GetEventStep ==
  ASSUME IInv, NEW s \in Sessions, GetEvent(s)
  PROVE  IInv'
  <1> USE BrokerAssumption
  <1> DEFINE l == log[host[s]]
             q == queue[s]
  <1>1. TypeOK /\ HistoryOK /\ SessionInv /\ NoGhostSubscriber /\ RecentInv /\ StreamInv
    BY DEF IInv
  <1>2. /\ pc[s] = "get" /\ q # <<>> /\ pc' = [pc EXCEPT ![s] = "send"]
        /\ cur' = [cur EXCEPT ![s] = <<Head(q)>>]
        /\ queue' = [queue EXCEPT ![s] = Tail(q)]
        /\ UNCHANGED <<recent, subs, tasks, host, alive, posted, restarts,
                       log, base, joined, start, sent>>
    BY DEF GetEvent, Goto, brokerVars, historyVars
  <1>3. /\ l \in Seq(Events) /\ q \in Seq(Events) /\ IsEnd(q, l) /\ cur[s] = <<>>
        /\ start[s] \in Nat /\ Len(sent[s]) \in Nat
        /\ Len(l) = start[s] + Len(sent[s]) + Len(cur[s]) + Len(q)
    BY <1>1, <1>2 DEF TypeOK, HistoryOK, SessionInv, StreamInv
  <1>4. /\ Tail(q) \in Seq(Events) /\ Len(Tail(q)) = Len(q) - 1 /\ Len(q) \in Nat \ {0}
        /\ Head(q) \in Events /\ Head(q) = l[Len(l) - Len(q) + 1]
        /\ IsEnd(Tail(q), l)
    BY <1>2, <1>3, EndTail
  <1>5. Len(<<Head(q)>>) = 1 /\ <<Head(q)>> \in Seq(Events) /\ Len(cur[s]) = 0
    BY <1>3, <1>4
  <1>6. TypeOK'
    BY <1>1, <1>2, <1>4, <1>5 DEF TypeOK
  <1>7. HistoryOK' /\ RecentInv'
    BY <1>1, <1>2 DEF HistoryOK, RecentInv
  <1>8. SessionInv' /\ NoGhostSubscriber'
    BY <1>1, <1>2 DEF SessionInv, NoGhostSubscriber, TypeOK
  <1>9. StreamInv'
    <2>1. /\ cur'[s] = <<Head(q)>> /\ queue'[s] = Tail(q) /\ pc'[s] = "send"
          /\ \A t \in Sessions \ {s} : cur'[t] = cur[t] /\ queue'[t] = queue[t] /\ pc'[t] = pc[t]
      BY <1>1, <1>2 DEF TypeOK
    <2>2. Len(l) - Len(q) + 1 = start[s] + Len(sent[s]) + 1
      <3> DEFINE a == Len(l)
                 b == Len(q)
                 c == Len(sent[s])
      <3>1. a = start[s] + c + 0 + b /\ b \in Nat /\ c \in Nat /\ start[s] \in Nat
        BY <1>3, <1>4, <1>5
      <3> HIDE DEF a, b, c
      <3>2. a - b + 1 = start[s] + c + 1
        BY <3>1
      <3>3. QED
        BY <3>2 DEF a, b, c
    <2>3. Len(l) = start[s] + Len(sent[s]) + Len(<<Head(q)>>) + Len(Tail(q))
      <3> DEFINE a == Len(l)
                 b == Len(q)
                 c == Len(sent[s])
                 d == Len(Tail(q))
                 f == Len(<<Head(q)>>)
      <3>1. /\ a = start[s] + c + 0 + b /\ b \in Nat /\ c \in Nat /\ start[s] \in Nat
            /\ d = b - 1 /\ f = 1
        BY <1>3, <1>4, <1>5
      <3> HIDE DEF a, b, c, d, f
      <3>2. a = start[s] + c + f + d
        BY <3>1
      <3>3. QED
        BY <3>2 DEF a, c, d, f
    <2>4. QED
      BY <1>1, <1>2, <1>4, <2>1, <2>2, <2>3 DEF StreamInv
  <1>10. QED
    BY <1>6, <1>7, <1>8, <1>9 DEF IInv

(* The event was sent: it is the next of the log. *)
LEMMA SendStep ==
  ASSUME IInv, NEW s \in Sessions, Send(s)
  PROVE  /\ IInv'
         /\ Len(sent[s]) \in Nat /\ start[s] \in Nat /\ Len(log[host[s]]) \in Nat
         /\ start[s] + Len(sent[s]) < Len(log[host[s]])
         /\ sent' = [sent EXCEPT ![s] = Append(@, log[host[s]][start[s] + Len(@) + 1])]
  <1> USE BrokerAssumption
  <1> DEFINE l == log[host[s]]
             next == l[start[s] + Len(sent[s]) + 1]
  <1>1. TypeOK /\ HistoryOK /\ SessionInv /\ NoGhostSubscriber /\ RecentInv /\ StreamInv
    BY DEF IInv
  <1>2. /\ pc[s] = "send" /\ pc' = [pc EXCEPT ![s] = "get"]
        /\ sent' = [sent EXCEPT ![s] = @ \o cur[s]]
        /\ cur' = [cur EXCEPT ![s] = <<>>]
        /\ UNCHANGED <<recent, subs, tasks, host, queue, alive, posted, restarts,
                       log, base, joined, start>>
    BY DEF Send, Goto, brokerVars
  <1>3. /\ l \in Seq(Events) /\ cur[s] \in Seq(Events) /\ cur[s] = <<next>>
        /\ start[s] \in Nat /\ sent[s] \in Seq(Events)
        /\ queue[s] \in Seq(Events) /\ IsEnd(queue[s], l)
        /\ Len(l) = start[s] + Len(sent[s]) + Len(cur[s]) + Len(queue[s])
    BY <1>1, <1>2 DEF TypeOK, HistoryOK, SessionInv, StreamInv
  <1> DEFINE a == Len(l)
             b == Len(queue[s])
             c == Len(sent[s])
  <1>4. a = start[s] + c + 1 + b /\ a \in Nat /\ b \in Nat /\ c \in Nat /\ start[s] \in Nat
    <2>1. Len(cur[s]) = 1
      BY <1>3
    <2>2. QED
      BY <1>3, <2>1
  <1>5. start[s] + c < a /\ start[s] + c + 1 \in 1 .. a
    <2> HIDE DEF a, b, c
    <2>1. QED
      BY <1>4
  <1>6. next \in Events
    BY <1>3, <1>5
  <1>7. sent[s] \o <<next>> = Append(sent[s], next)
    BY <1>3, <1>6, AppendIsConcat
  <1>8. sent' = [sent EXCEPT ![s] = Append(@, log[host[s]][start[s] + Len(@) + 1])]
    BY <1>1, <1>2, <1>3, <1>7 DEF HistoryOK
  <1>9. /\ sent'[s] = Append(sent[s], next) /\ Len(sent'[s]) = c + 1 /\ cur'[s] = <<>>
        /\ pc'[s] = "get" /\ sent'[s] \in Seq(Events)
        /\ \A t \in Sessions \ {s} : sent'[t] = sent[t] /\ cur'[t] = cur[t] /\ pc'[t] = pc[t]
    BY <1>1, <1>2, <1>3, <1>6, <1>8, AppendProperties DEF TypeOK, HistoryOK
  <1>10. TypeOK' /\ RecentInv'
    BY <1>1, <1>2 DEF TypeOK, RecentInv
  <1>11. HistoryOK'
    BY <1>1, <1>2, <1>8, <1>9 DEF HistoryOK
  <1>12. SessionInv' /\ NoGhostSubscriber'
    BY <1>1, <1>2, <1>9 DEF SessionInv, NoGhostSubscriber, TypeOK
  <1>13. StreamInv'
    <2> DEFINE d == Len(sent'[s])
               f == Len(cur'[s])
    <2>1. d = c + 1 /\ f = 0
      BY <1>9
    <2>2. a = start[s] + d + f + b
      <3> HIDE DEF a, b, c, d, f
      <3>1. QED
        BY <1>4, <2>1
    <2>3. Len(l) = start[s] + Len(sent'[s]) + Len(cur'[s]) + Len(queue[s])
      BY <2>2
    <2>4. QED
      BY <1>1, <1>2, <1>3, <1>9, <2>3 DEF StreamInv
  <1>14. QED
    BY <1>3, <1>4, <1>5, <1>8, <1>10, <1>11, <1>12, <1>13 DEF IInv

(* Every step preserves the inductive invariant. *)
LEMMA NextIInv == IInv /\ [Next]_vars => IInv'
  <1> SUFFICES ASSUME IInv, [Next]_vars PROVE IInv'
    OBVIOUS
  <1> USE BrokerAssumption
  <1>0. TypeOK /\ HistoryOK /\ SessionInv /\ NoGhostSubscriber /\ RecentInv /\ StreamInv
    BY DEF IInv
  <1>1. ASSUME NEW p \in Procs, NEW e \in Events, IngestTrigger(p, e) PROVE IInv'
    <2>1. Publish(p, e) /\ tasks' \in [Procs -> Seq(Events)] /\ posted' \in SUBSET Events
      BY <1>0, <1>1 DEF IngestTrigger, TypeOK
    <2>2. QED
      BY <2>1, PublishStep
  <1>2. ASSUME NEW p \in Procs, NEW e \in Events, PublishAlertSync(p, e) PROVE IInv'
    <2>1. TypeOK'
      <3>1. tasks' \in [Procs -> Seq(Events)] /\ posted' \in SUBSET Events
        <4>1. tasks[p] \in Seq(Events) /\ Append(tasks[p], e) \in Seq(Events)
          BY <1>0, AppendProperties DEF TypeOK
        <4>2. tasks' = [tasks EXCEPT ![p] = Append(tasks[p], e)] \/ tasks' = tasks
          BY <1>2 DEF PublishAlertSync
        <4>3. tasks' \in [Procs -> Seq(Events)]
          BY <1>0, <4>1, <4>2 DEF TypeOK
        <4>4. QED
          BY <1>0, <1>2, <4>3 DEF PublishAlertSync, TypeOK
      <3>2. QED
        BY <1>0, <1>2, <3>1 DEF PublishAlertSync, TypeOK, sessionVars
    <2>2. QED
      BY <1>0, <1>2, <2>1 DEF PublishAlertSync, sessionVars, historyVars, IInv, HistoryOK, SessionInv,
                              NoGhostSubscriber, RecentInv, StreamInv
  <1>3. ASSUME NEW p \in Procs, RunTask(p) PROVE IInv'
    <2>1. /\ Publish(p, Head(tasks[p])) /\ Head(tasks[p]) \in Events
          /\ tasks' \in [Procs -> Seq(Events)] /\ posted' \in SUBSET Events
      BY <1>0, <1>3 DEF RunTask, TypeOK
    <2>2. QED
      BY <2>1, PublishStep
  <1>4. ASSUME NEW p \in Procs, RestartProc(p) PROVE IInv'
    BY <1>4, RestartStep
  <1>5. ASSUME NEW s \in Sessions, NEW p \in Procs, Connect(s, p) PROVE IInv'
    <2>1. alive' \in [Sessions -> BOOLEAN]
      BY <1>0, <1>5 DEF Connect, TypeOK
    <2>2. TypeOK' /\ SessionInv' /\ NoGhostSubscriber'
      BY <1>0, <1>5, <2>1 DEF Connect, Goto, brokerVars, historyVars, TypeOK, SessionInv,
                              NoGhostSubscriber
    <2>3. HistoryOK' /\ RecentInv' /\ StreamInv'
      BY <1>0, <1>5 DEF Connect, Goto, brokerVars, historyVars, TypeOK, HistoryOK, RecentInv, StreamInv
    <2>4. QED
      BY <2>2, <2>3 DEF IInv
  <1>6. ASSUME NEW s \in Sessions, Subscribe(s) PROVE IInv'
    BY <1>6, SubscribeStep
  <1>7. ASSUME NEW s \in Sessions, AcceptFails(s) PROVE IInv'
    <2>1. TypeOK' /\ SessionInv' /\ NoGhostSubscriber'
      BY <1>0, <1>7 DEF AcceptFails, Goto, brokerVars, historyVars, TypeOK, SessionInv,
                        NoGhostSubscriber
    <2>2. HistoryOK' /\ RecentInv' /\ StreamInv'
      BY <1>0, <1>7 DEF AcceptFails, Goto, brokerVars, historyVars, TypeOK, HistoryOK, RecentInv,
                        StreamInv
    <2>3. QED
      BY <2>1, <2>2 DEF IInv
  <1>8. ASSUME NEW s \in Sessions, GetEvent(s) PROVE IInv'
    BY <1>8, GetEventStep
  <1>9. ASSUME NEW s \in Sessions, Send(s) PROVE IInv'
    BY <1>9, SendStep
  <1>10. ASSUME NEW s \in Sessions, SendFails(s) PROVE IInv'
    <2>1. TypeOK' /\ SessionInv'
      BY <1>0, <1>10 DEF SendFails, Goto, historyVars, TypeOK, SessionInv
    <2>2. NoGhostSubscriber'
      BY <1>0, <1>10 DEF SendFails, Goto, TypeOK, NoGhostSubscriber, SessionInv
    <2>3. HistoryOK' /\ RecentInv' /\ StreamInv'
      BY <1>0, <1>10 DEF SendFails, Goto, historyVars, TypeOK, HistoryOK, RecentInv, StreamInv
    <2>4. QED
      BY <2>1, <2>2, <2>3 DEF IInv
  <1>11. ASSUME NEW s \in Sessions, Disconnect(s) PROVE IInv'
    <2>1. alive' \in [Sessions -> BOOLEAN]
      BY <1>0, <1>11 DEF Disconnect, TypeOK
    <2>2. QED
      BY <1>0, <1>11, <2>1 DEF Disconnect, brokerVars, historyVars, IInv, TypeOK, HistoryOK,
                          SessionInv, NoGhostSubscriber, RecentInv, StreamInv
  <1>12. CASE UNCHANGED vars
    BY <1>0, <1>12 DEF vars, brokerVars, sessionVars, historyVars, IInv, TypeOK, HistoryOK,
                  SessionInv, NoGhostSubscriber, RecentInv, StreamInv
  <1>13. QED
    BY <1>1, <1>2, <1>3, <1>4, <1>5, <1>6, <1>7, <1>8, <1>9, <1>10, <1>11, <1>12
       DEF Next, Handler

(* The inductive invariant holds in every reachable state. *)
LEMMA InvariantHolds == Spec => []IInv
  BY InitIInv, NextIInv, PTL DEF Spec
-----------------------------------------------------------------------------
(* The broker's variables keep their types, and the replay buffer its bound. *)
THEOREM TypeCorrect == Spec => []TypeOK
  <1>1. IInv => TypeOK
    BY DEF IInv
  <1>2. QED
    BY InvariantHolds, <1>1, PTL

(* Exactly the sessions whose handler is in its loop are registered with the  *)
(* broker of their process: no queue grows unread, whatever way connections   *)
(* and processes end.                                                         *)
THEOREM NoGhosts == Spec => []NoGhostSubscriber
  <1>1. IInv => NoGhostSubscriber
    BY DEF IInv
  <1>2. QED
    BY InvariantHolds, <1>1, PTL
-----------------------------------------------------------------------------
(* The refinement *)

(* Before anything is published or joined, both are empty. *)
LEMMA FeedInit == Init => Feed!Init
  BY DEF Init, Feed!Init, feedStatus, feedJoined

(* publish is a publication on the feed of its process. *)
LEMMA FeedPublish ==
  ASSUME NEW p \in Procs, NEW e \in Events, Publish(p, e)
  PROVE  Feed!Next
  <1>1. Feed!Publish(p, e)
    BY DEF Publish, Feed!Publish, feedStatus, feedJoined
  <1>2. QED
    BY <1>1 DEF Feed!Next

(* Every step of the broker is a step of the feed or changes nothing a client *)
(* of the feed can see.                                                       *)
LEMMA FeedStep == IInv /\ [Next]_vars => [Feed!Next]_(Feed!feedVars)
  <1> SUFFICES ASSUME IInv, [Next]_vars
               PROVE  Feed!Next \/ UNCHANGED Feed!feedVars
    OBVIOUS
  <1> USE BrokerAssumption
  <1>0. TypeOK /\ HistoryOK /\ SessionInv /\ NoGhostSubscriber /\ RecentInv /\ StreamInv
    BY DEF IInv
  <1>1. ASSUME NEW p \in Procs, NEW e \in Events, IngestTrigger(p, e) PROVE Feed!Next
    BY <1>1, FeedPublish DEF IngestTrigger
  <1>2. ASSUME NEW p \in Procs, NEW e \in Events, PublishAlertSync(p, e)
        PROVE UNCHANGED Feed!feedVars
    BY <1>2 DEF PublishAlertSync, sessionVars, historyVars, Feed!feedVars, feedStatus, feedJoined
  <1>3. ASSUME NEW p \in Procs, RunTask(p) PROVE Feed!Next
    <2>1. Publish(p, Head(tasks[p])) /\ Head(tasks[p]) \in Events
      BY <1>0, <1>3 DEF RunTask, TypeOK
    <2>2. QED
      BY <2>1, FeedPublish
  <1>4. ASSUME NEW p \in Procs, RestartProc(p) PROVE Feed!Next
    <2> DEFINE on == {s \in Sessions : host[s] = p}
    <2>1. /\ base' = [base EXCEPT ![p] = Len(log[p])]
          /\ UNCHANGED <<host, log, joined, start, sent>>
          /\ pc' = [s \in Sessions |-> IF s \in on THEN "gone" ELSE pc[s]]
      BY <1>4 DEF RestartProc
    <2>2. {s \in Sessions : feedStatus[s] = "open" /\ feedJoined[s] = p} \subseteq on
      BY <1>0 DEF feedStatus, feedJoined, SessionInv
    <2>3. feedStatus' = [s \in Sessions |-> IF s \in on THEN "closed" ELSE feedStatus[s]]
      BY <2>1 DEF feedStatus
    <2>4. feedJoined' = feedJoined
      BY <2>1 DEF feedJoined
    <2>5. Feed!Restart(p)
      BY <2>1, <2>2, <2>3, <2>4 DEF Feed!Restart
    <2>6. QED
      BY <2>5 DEF Feed!Next
  <1>5. ASSUME NEW s \in Sessions, NEW p \in Procs, Connect(s, p) PROVE UNCHANGED Feed!feedVars
    <2>1. /\ UNCHANGED <<log, base, joined, start, sent>>
          /\ pc[s] = "new" /\ ~joined[s]
          /\ pc' = [pc EXCEPT ![s] = "accept"] /\ host' = [host EXCEPT ![s] = p]
      BY <1>0, <1>5 DEF Connect, Goto, historyVars, SessionInv
    <2>2. feedStatus' = feedStatus
      BY <1>0, <2>1 DEF feedStatus, TypeOK
    <2>3. feedJoined' = feedJoined
      BY <1>0, <2>1 DEF feedJoined, TypeOK
    <2>4. QED
      BY <2>1, <2>2, <2>3 DEF Feed!feedVars
  <1>6. ASSUME NEW s \in Sessions, Subscribe(s) PROVE Feed!Next
    <2> DEFINE p == host[s]
    <2>1. /\ UNCHANGED <<host, log, base, sent>>
          /\ pc[s] = "accept" /\ ~joined[s] /\ p \in Procs
          /\ pc' = [pc EXCEPT ![s] = "get"]
          /\ joined' = [joined EXCEPT ![s] = TRUE]
          /\ start' = [start EXCEPT ![s] = Len(log[p]) - Len(recent[p])]
      BY <1>0, <1>6 DEF Subscribe, Goto, SessionInv
    <2>2. feedStatus[s] = "new" /\ feedStatus' = [feedStatus EXCEPT ![s] = "open"]
      BY <1>0, <2>1 DEF feedStatus, TypeOK
    <2>3. feedJoined' = [feedJoined EXCEPT ![s] = p]
      BY <1>0, <2>1 DEF feedJoined, HistoryOK
    <2>4. Len(log[p]) - Len(recent[p]) = Feed!ReplayFrom(p)
      <3> DEFINE n == Len(log[p])
                 m == Len(recent[p])
      <3>1. /\ n \in Nat /\ m \in Nat /\ base[p] \in Nat
            /\ m = IF n - base[p] > Replay THEN Replay ELSE n - base[p]
        BY <1>0, <2>1 DEF TypeOK, HistoryOK, RecentInv
      <3> HIDE DEF n, m
      <3>2. n - m = IF n - base[p] > Replay THEN n - Replay ELSE base[p]
        BY <3>1
      <3>3. QED
        BY <3>2 DEF Feed!ReplayFrom, n, m
    <2>5. Feed!Join(s, p)
      BY <2>1, <2>2, <2>3, <2>4 DEF Feed!Join
    <2>6. QED
      BY <2>1, <2>5 DEF Feed!Next
  <1>7. ASSUME NEW s \in Sessions, AcceptFails(s) \/ SendFails(s) PROVE Feed!Next
    <2>1. /\ UNCHANGED <<host, log, base, joined, start, sent>>
          /\ pc[s] \in {"accept", "send"} /\ pc' = [pc EXCEPT ![s] = "gone"]
      BY <1>7 DEF AcceptFails, SendFails, Goto, historyVars
    <2>2. feedStatus[s] # "closed" /\ feedStatus' = [feedStatus EXCEPT ![s] = "closed"]
      BY <1>0, <2>1 DEF feedStatus, TypeOK
    <2>3. feedJoined' = feedJoined
      BY <2>1 DEF feedJoined
    <2>4. Feed!Leave(s)
      BY <2>1, <2>2, <2>3 DEF Feed!Leave
    <2>5. QED
      BY <2>4 DEF Feed!Next
  <1>8. ASSUME NEW s \in Sessions, GetEvent(s) PROVE UNCHANGED Feed!feedVars
    <2>1. /\ UNCHANGED <<host, log, base, joined, start, sent>>
          /\ pc[s] = "get" /\ pc' = [pc EXCEPT ![s] = "send"]
      BY <1>8 DEF GetEvent, Goto, historyVars
    <2>2. feedStatus' = feedStatus /\ feedJoined' = feedJoined
      BY <1>0, <2>1 DEF feedStatus, feedJoined, TypeOK
    <2>3. QED
      BY <2>1, <2>2 DEF Feed!feedVars
  <1>9. ASSUME NEW s \in Sessions, Send(s) PROVE Feed!Next
    <2>1. /\ UNCHANGED <<host, log, base, joined, start>>
          /\ pc[s] = "send" /\ pc' = [pc EXCEPT ![s] = "get"]
      BY <1>9 DEF Send, Goto
    <2>2. feedStatus' = feedStatus /\ feedStatus[s] = "open" /\ feedJoined' = feedJoined
      BY <1>0, <2>1 DEF feedStatus, feedJoined, TypeOK
    <2>3. feedJoined[s] = host[s]
      BY <1>0, <2>1 DEF feedJoined, SessionInv
    <2>4. Feed!Behind(s)
      BY <1>9, <2>2, <2>3, SendStep DEF Feed!Behind
    <2>5. Feed!Deliver(s)
      BY <1>9, <2>1, <2>2, <2>3, <2>4, SendStep DEF Feed!Deliver
    <2>6. QED
      BY <2>5 DEF Feed!Next
  <1>10. ASSUME NEW s \in Sessions, Disconnect(s) PROVE UNCHANGED Feed!feedVars
    BY <1>10 DEF Disconnect, historyVars, Feed!feedVars, feedStatus, feedJoined
  <1>11. CASE UNCHANGED vars
    BY <1>11 DEF vars, sessionVars, historyVars, Feed!feedVars, feedStatus, feedJoined
  <1>12. QED
    BY <1>1, <1>2, <1>3, <1>4, <1>5, <1>6, <1>7, <1>8, <1>9, <1>10, <1>11 DEF Next, Handler

(* Each process implements the safety part of AlertFeed (ImplementsFeed       *)
(* without its fairness): a session receives the last Replay events and every *)
(* later one in order, none twice and none skipped, until it leaves.          *)
THEOREM RefinesFeed == Spec => Feed!Spec
  BY InvariantHolds, FeedInit, FeedStep, PTL DEF Spec, Feed!Spec
=============================================================================
