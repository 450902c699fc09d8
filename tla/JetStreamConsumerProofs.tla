---------------------- MODULE JetStreamConsumerProofs ----------------------
(***************************************************************************)
(* Proofs about JetStreamConsumer for every number of workers, messages,   *)
(* classes, deliveries, crashes, failed broker calls and stop signals.     *)
(*                                                                         *)
(* A delivery is the pair <<message, num_delivered>>.  The server never    *)
(* repeats a pair, so at most one worker holds it; the last one,           *)
(* num_delivered = max_deliver, is therefore dead-lettered by one worker,  *)
(* which goes straight on to the final ack and never comes back to it.     *)
(* RefinesAtLeastOnce matches every action with one of AtLeastOnce or with *)
(* a stutter.                                                              *)
(***************************************************************************)
EXTENDS JetStreamConsumer, TLAPS

(* The deliveries worker w has not finished with. *)
Has(w) == batch[w] \cup cur[w]

(* A message that the server may still hand out has a delivery left. *)
StoreInv == \A m \in Msgs : status[m] \in {"unsent", "stored"} => delivered[m] < MaxDeliver

(* A delivery is counted by the server and is in one place. *)
HeldInv ==
    /\ \A w \in Workers : \A d \in Has(w) : d[2] <= delivered[d[1]]
    /\ \A v, w \in Workers : v # w => Has(v) \cap Has(w) = {}
    /\ \A w \in Workers : batch[w] \cap cur[w] = {}
    /\ \A w \in Workers : \A d, e \in cur[w] : d = e

(* Once m is dead-lettered, its last delivery can only be at the final ack. *)
DlqInv ==
    /\ DeadLetteredOnce
    /\ \A w \in Workers : \A d \in Has(w) :
         (d[2] = MaxDeliver /\ dlq[d[1]] # 0) => d \in cur[w] /\ pc[w] = "final"

(* What a worker that is about to ack knows of the message. *)
AckInv ==
    \A w \in Workers : \A d \in cur[w] :
        /\ pc[w] = "ack" => done[d[1]] > 0 \/ kind[d[1]] = "unknown"
        /\ pc[w] = "final" => dlq[d[1]] > 0 \/ d[1] \in dlqErrors

IInv == TypeOK /\ StoreInv /\ HeldInv /\ DlqInv /\ AckInv /\ SettledIsAccounted

(* The initial state satisfies the inductive invariant. *)
LEMMA InitIInv == Init => IInv
  <1> SUFFICES ASSUME Init PROVE IInv
    OBVIOUS
  <1> USE JetStreamAssumption
  <1>1. TypeOK
    BY DEF Init, TypeOK
  <1>2. StoreInv /\ HeldInv /\ AckInv
    BY DEF Init, StoreInv, HeldInv, AckInv, Has
  <1>3. DlqInv /\ SettledIsAccounted
    BY DEF Init, DlqInv, DeadLetteredOnce, Has, SettledIsAccounted
  <1>4. QED
    BY <1>1, <1>2, <1>3 DEF IInv

(* The parts of a delivery, and that they determine it. *)
LEMMA DeliveryParts ==
  /\ \A d \in Delivery : d[1] \in Msgs /\ d[2] \in 1 .. MaxDeliver
  /\ \A d, e \in Delivery : d[1] = e[1] /\ d[2] = e[2] => d = e
  BY DEF Delivery

(* The types of what a worker holds. *)
LEMMA HeldTypes ==
  ASSUME TypeOK, NEW w \in Workers
  PROVE  /\ batch[w] \subseteq Delivery /\ cur[w] \subseteq Delivery
         /\ \A d \in Has(w) : /\ d[1] \in Msgs /\ d[2] \in 1 .. MaxDeliver
                              /\ delivered[d[1]] \in 0 .. MaxDeliver
                              /\ dlq[d[1]] \in Nat /\ done[d[1]] \in Nat
  <1>1. batch[w] \subseteq Delivery /\ cur[w] \subseteq Delivery
    BY DEF TypeOK
  <1>2. QED
    BY <1>1, DeliveryParts DEF TypeOK, Has

(* Every step but a fetch only passes deliveries on: w's batch loses some,    *)
(* its current one is kept, dropped or taken from the batch.                  *)
PassesOn(w) ==
    /\ \A v \in Workers \ {w} : batch'[v] = batch[v] /\ cur'[v] = cur[v]
    /\ batch'[w] \subseteq batch[w]
    /\ \/ cur'[w] \subseteq cur[w]
       \/ \E d \in batch[w] \ batch'[w] : cur'[w] = {d}

(* Such a step leaves every delivery in at most one place. *)
LEMMA HeldStep ==
  ASSUME IInv, NEW w \in Workers, PassesOn(w), UNCHANGED delivered
  PROVE  HeldInv' /\ \A v \in Workers : Has(v)' \subseteq Has(v)
  <1>1. HeldInv
    BY DEF IInv
  <1>2. \A v \in Workers : Has(v)' \subseteq Has(v)
    BY DEF PassesOn, Has
  <1>3. \A v \in Workers : \A d \in Has(v)' : d[2] <= delivered'[d[1]]
    BY <1>1, <1>2 DEF HeldInv
  <1>4. \A u, v \in Workers : u # v => Has(u)' \cap Has(v)' = {}
    BY <1>1, <1>2 DEF HeldInv
  <1>5. \A v \in Workers : batch'[v] \cap cur'[v] = {}
    BY <1>1 DEF HeldInv, PassesOn
  <1>6. \A v \in Workers : \A d, e \in cur'[v] : d = e
    BY <1>1 DEF HeldInv, PassesOn
  <1>7. QED
    BY <1>2, <1>3, <1>4, <1>5, <1>6 DEF HeldInv

(* Whether the settling of message m is explained. *)
Accounted(m) == done[m] > 0 \/ kind[m] = "unknown" \/ dlq[m] > 0 \/ m \in dlqErrors

(* A step of worker w that dead-letters nothing and fetches nothing. *)
LEMMA WorkerKeeps ==
  ASSUME IInv, TypeOK', NEW w \in Workers, PassesOn(w), StoreInv',
         UNCHANGED <<class, kind, delivered, dlq>>,
         \A m \in Msgs : done[m] > 0 => done'[m] > 0,
         dlqErrors \subseteq dlqErrors',
         \A m \in Msgs : status'[m] = "acked" => status[m] = "acked" \/ Accounted(m),
         \A v \in Workers \ {w} : pc'[v] = pc[v],
         pc[w] = "final" => cur'[w] = {} \/ pc'[w] = "final",
         pc'[w] = "ack" => \A d \in cur'[w] : done'[d[1]] > 0 \/ kind[d[1]] = "unknown",
         pc'[w] = "final" => \A d \in cur'[w] : dlq[d[1]] > 0 \/ d[1] \in dlqErrors'
  PROVE  IInv'
  <1>1. TypeOK /\ HeldInv /\ DlqInv /\ AckInv /\ SettledIsAccounted
    BY DEF IInv
  <1>2. HeldInv' /\ \A v \in Workers : Has(v)' \subseteq Has(v)
    BY HeldStep
  <1>3. DeadLetteredOnce'
    BY <1>1 DEF DlqInv, DeadLetteredOnce
  <1>4. ASSUME NEW v \in Workers, NEW d \in Has(v)', d[2] = MaxDeliver, dlq'[d[1]] # 0
        PROVE  d \in cur'[v] /\ pc'[v] = "final"
    <2>1. d \in cur[v] /\ pc[v] = "final" /\ d \in Has(v)
      BY <1>1, <1>2, <1>4 DEF DlqInv
    <2>2. CASE v # w
      BY <2>1, <2>2 DEF PassesOn
    <2>3. CASE v = w
      <3>1. d \notin batch[v]
        BY <1>1, <2>1 DEF HeldInv
      <3>2. d \notin batch'[w]
        BY <2>3, <3>1 DEF PassesOn
      <3>3. d \in cur'[w]
        BY <1>4, <2>3, <3>2 DEF Has
      <3>4. QED
        BY <2>1, <2>3, <3>3
    <2>4. QED
      BY <2>2, <2>3
  <1>5. DlqInv'
    BY <1>3, <1>4 DEF DlqInv
  <1>6. AckInv'
    <2> SUFFICES ASSUME NEW v \in Workers, NEW d \in cur'[v]
                 PROVE  /\ pc'[v] = "ack" => done'[d[1]] > 0 \/ kind[d[1]] = "unknown"
                        /\ pc'[v] = "final" => dlq[d[1]] > 0 \/ d[1] \in dlqErrors'
      BY DEF AckInv
    <2>1. CASE v = w
      BY <2>1
    <2>2. CASE v # w
      <3>1. d \in cur[v] /\ pc'[v] = pc[v] /\ d \in Has(v)
        BY <2>2 DEF PassesOn, Has
      <3>2. d[1] \in Msgs
        BY <1>1, <3>1, HeldTypes
      <3>3. QED
        BY <1>1, <3>1, <3>2 DEF AckInv
    <2>3. QED
      BY <2>1, <2>2
  <1>7. SettledIsAccounted'
    BY <1>1 DEF SettledIsAccounted, Accounted
  <1>8. QED
    BY <1>2, <1>5, <1>6, <1>7 DEF IInv

(* The server and the producers move messages that no worker settles. *)
LEMMA ServerStep == ASSUME IInv, NEW m \in Msgs, Publish(m) \/ Redeliver(m) PROVE IInv'
  <1> USE JetStreamAssumption
  <1>1. TypeOK /\ StoreInv /\ HeldInv /\ DlqInv /\ AckInv /\ SettledIsAccounted
    BY DEF IInv
  <1>2. /\ UNCHANGED <<class, kind, delivered, dlq, workerVars, historyVars, faults, signals>>
        /\ \E s \in {"stored", "exhausted"} : /\ status' = [status EXCEPT ![m] = s]
                                              /\ s = "stored" => delivered[m] < MaxDeliver
    BY <1>1 DEF Publish, Redeliver, Redelivered, StoreInv
  <1>3. PICK s \in {"stored", "exhausted"} : /\ status' = [status EXCEPT ![m] = s]
                                             /\ s = "stored" => delivered[m] < MaxDeliver
    BY <1>2
  <1>4. TypeOK'
    BY <1>1, <1>2, <1>3 DEF TypeOK, workerVars, historyVars
  <1>5. StoreInv'
    BY <1>1, <1>2, <1>3 DEF StoreInv, TypeOK
  <1>6. HeldInv' /\ DlqInv' /\ AckInv'
    BY <1>1, <1>2 DEF HeldInv, DlqInv, DeadLetteredOnce, AckInv, Has, workerVars, historyVars
  <1>7. SettledIsAccounted'
    BY <1>1, <1>2, <1>3 DEF SettledIsAccounted, TypeOK, historyVars
  <1>8. QED
    BY <1>4, <1>5, <1>6, <1>7 DEF IInv

(* Steps that touch neither the server nor the history: they keep what the    *)
(* worker holds, or drop all of it.                                           *)
LEMMA ControlStep ==
  ASSUME IInv, NEW w \in Workers,
         \/ Connect(w) \/ Subscribe(w) \/ Signal(w) \/ Top(w) \/ FetchNothing(w)
         \/ HandlerRaises(w) \/ AckRaises(w) \/ Crash(w)
  PROVE  IInv'
  <1> USE JetStreamAssumption
  <1>1. TypeOK /\ StoreInv
    BY DEF IInv
  <1>2. UNCHANGED <<class, kind, serverVars, historyVars>>
    BY DEF Connect, Subscribe, Signal, Top, FetchNothing, HandlerRaises, AckRaises, Crash
  <1>3. /\ UNCHANGED <<batch, cur>> \/ (/\ batch' = [batch EXCEPT ![w] = {}]
                                       /\ cur' = [cur EXCEPT ![w] = {}])
        /\ \E l \in LoopStates \cup {"down", "subscribe", "stopped"} :
             /\ pc' = [pc EXCEPT ![w] = l]
             /\ l \in {"ack", "final"} => l = pc[w]
             /\ pc[w] = "final" => l = "final" \/ cur' = [cur EXCEPT ![w] = {}]
    <2>1. CASE Connect(w) \/ Subscribe(w) \/ HandlerRaises(w)
      BY <2>1 DEF Connect, Subscribe, HandlerRaises, Goto, LoopStates
    <2>2. CASE Signal(w)
      <3>1. pc' = [pc EXCEPT ![w] = pc[w]] /\ pc[w] \in LoopStates \cup {"subscribe"}
        BY <1>1, <2>2 DEF Signal, TypeOK
      <3>2. QED
        BY <2>2, <3>1 DEF Signal
    <2>3. CASE Top(w) \/ Crash(w)
      BY <2>3 DEF Top, Crash, Leave, Goto, LoopStates
    <2>4. CASE FetchNothing(w)
      <3>1. pc' = [pc EXCEPT ![w] = "fetch"] \/ pc' = [pc EXCEPT ![w] = "top"]
        BY <1>1, <2>4 DEF FetchNothing, NextClass, Goto, TypeOK
      <3>2. QED
        BY <2>4, <3>1 DEF FetchNothing, NextClass, LoopStates
    <2>5. CASE AckRaises(w)
      BY <2>5 DEF AckRaises, Goto, LoopStates
    <2>6. QED
      BY <2>1, <2>2, <2>3, <2>4, <2>5
  <1>4. /\ pos' \in [Workers -> 1 .. NumClasses] /\ running' \in [Workers -> BOOLEAN]
        /\ faults' \in 0 .. MaxFaults /\ signals' \in 0 .. MaxSignals
    <2>1. /\ pos \in [Workers -> 1 .. NumClasses] /\ running \in [Workers -> BOOLEAN]
          /\ faults \in 0 .. MaxFaults /\ signals \in 0 .. MaxSignals
      BY <1>1 DEF TypeOK
    <2>2. pos' \in [Workers -> 1 .. NumClasses]
      BY <2>1 DEF Connect, Subscribe, Signal, Top, FetchNothing, NextClass, HandlerRaises,
                  AckRaises, Crash, Leave
    <2>3. running' \in [Workers -> BOOLEAN]
      BY <2>1 DEF Connect, Subscribe, Signal, Top, FetchNothing, NextClass, HandlerRaises,
                  AckRaises, Crash, Leave
    <2>4. faults' \in 0 .. MaxFaults /\ signals' \in 0 .. MaxSignals
      BY <2>1 DEF Connect, Subscribe, Signal, Top, FetchNothing, HandlerRaises, AckRaises,
                  Crash, Fault
    <2>5. QED
      BY <2>2, <2>3, <2>4
  <1>5. TypeOK'
    BY <1>1, <1>2, <1>3, <1>4 DEF TypeOK, serverVars, historyVars
  <1>6. PassesOn(w)
    BY <1>1, <1>3 DEF PassesOn, TypeOK
  <1>7. StoreInv'
    BY <1>1, <1>2 DEF StoreInv, serverVars
  <1>8. /\ \A v \in Workers \ {w} : pc'[v] = pc[v]
        /\ pc[w] = "final" => cur'[w] = {} \/ pc'[w] = "final"
        /\ pc'[w] \in {"ack", "final"} => pc'[w] = pc[w]
        /\ cur'[w] \subseteq cur[w]
    BY <1>1, <1>3 DEF TypeOK
  <1>9. /\ pc'[w] = "ack" => \A d \in cur'[w] : done'[d[1]] > 0 \/ kind[d[1]] = "unknown"
        /\ pc'[w] = "final" => \A d \in cur'[w] : dlq[d[1]] > 0 \/ d[1] \in dlqErrors'
    BY <1>2, <1>8 DEF IInv, AckInv, historyVars
  <1>10. QED
    BY <1>2, <1>5, <1>6, <1>7, <1>8, <1>9, WorkerKeeps DEF serverVars, historyVars

(* _dispatch_one up to the handler. *)
LEMMA DispatchStep ==
  ASSUME IInv, NEW w \in Workers, NEW m \in Msgs, NEW n \in 1 .. MaxDeliver, Dispatch(w, m, n)
  PROVE  IInv'
  <1>1. TypeOK /\ StoreInv
    BY DEF IInv
  <1>2. /\ UNCHANGED <<class, kind, status, delivered, dlq, pos, running, dlqErrors, done, faults,
                       signals>>
        /\ pc[w] = "dispatch" /\ <<m, n>> \in batch[w]
        /\ batch' = [batch EXCEPT ![w] = @ \ {<<m, n>>}]
        /\ cur' = [cur EXCEPT ![w] = {<<m, n>>}]
        /\ \E l \in {"handler", "ack", "except"} :
             pc' = [pc EXCEPT ![w] = l] /\ (l = "ack" => kind[m] = "unknown")
        /\ handled' = handled \/ handled' = [handled EXCEPT ![m] = @ + 1]
    BY DEF Dispatch, serverVars, Goto
  <1>3. TypeOK'
    <2>1. cur' \in [Workers -> SUBSET Delivery] /\ batch' \in [Workers -> SUBSET Delivery]
      BY <1>1, <1>2 DEF TypeOK, Delivery
    <2>2. handled' \in [Msgs -> Nat]
      BY <1>1, <1>2 DEF TypeOK
    <2>3. pc' \in [Workers -> LoopStates \cup {"down", "subscribe", "stopped"}]
      BY <1>1, <1>2 DEF TypeOK, LoopStates
    <2>4. QED
      BY <1>1, <1>2, <2>1, <2>2, <2>3 DEF TypeOK
  <1>4. PassesOn(w)
    BY <1>1, <1>2 DEF PassesOn, TypeOK
  <1>5. StoreInv'
    BY <1>1, <1>2 DEF StoreInv
  <1>6. /\ \A v \in Workers \ {w} : pc'[v] = pc[v]
        /\ pc[w] # "final" /\ pc'[w] # "final"
        /\ pc'[w] = "ack" => \A d \in cur'[w] : done'[d[1]] > 0 \/ kind[d[1]] = "unknown"
    BY <1>1, <1>2 DEF TypeOK
  <1>7. QED
    BY <1>2, <1>3, <1>4, <1>5, <1>6, WorkerKeeps

(* The current delivery is one, and its message is known. *)
LEMMA CurrentOne ==
  ASSUME IInv, NEW w \in Workers, NEW d \in cur[w]
  PROVE  d[1] \in Msgs /\ d[2] \in 1 .. MaxDeliver /\ cur[w] = {d} /\ d \in Has(w)
  <1>1. TypeOK /\ HeldInv /\ d \in Has(w)
    BY DEF IInv, Has
  <1>2. QED
    BY <1>1, HeldTypes DEF HeldInv

(* The handler returns, or its failure cannot be dead-lettered. *)
LEMMA OutcomeStep ==
  ASSUME IInv, NEW w \in Workers, HandlerReturns(w) \/ DeadLetterFails(w) PROVE IInv'
  <1> USE JetStreamAssumption
  <1>1. TypeOK /\ StoreInv
    BY DEF IInv
  <1>2. PICK d \in cur[w] :
          \/ /\ HandlerReturns(w)
             /\ done' = [done EXCEPT ![d[1]] = @ + 1]
          \/ /\ DeadLetterFails(w)
             /\ dlqErrors' = dlqErrors \cup {d[1]}
    BY DEF HandlerReturns, DeadLetterFails
  <1>3. d[1] \in Msgs /\ cur[w] = {d}
    BY CurrentOne
  <1>4. /\ UNCHANGED <<class, kind, status, delivered, dlq, pos, batch, cur, running, handled,
                       signals>>
        /\ faults' = faults \/ (faults < MaxFaults /\ faults' = faults + 1)
        /\ \/ pc' = [pc EXCEPT ![w] = "ack"] /\ dlqErrors' = dlqErrors
           \/ pc' = [pc EXCEPT ![w] = "final"] /\ done' = done
        /\ pc[w] # "final"
    BY DEF HandlerReturns, DeadLetterFails, serverVars, Goto, Fault, NoFault
  <1>5. TypeOK'
    <2>1. done' \in [Msgs -> Nat] /\ dlqErrors' \in SUBSET Msgs
      BY <1>1, <1>2, <1>3 DEF TypeOK, HandlerReturns, DeadLetterFails
    <2>2. pc' \in [Workers -> LoopStates \cup {"down", "subscribe", "stopped"}]
      BY <1>1, <1>4 DEF TypeOK, LoopStates
    <2>3. faults' \in 0 .. MaxFaults
      BY <1>1, <1>4 DEF TypeOK
    <2>4. QED
      BY <1>1, <1>4, <2>1, <2>2, <2>3 DEF TypeOK
  <1>6. PassesOn(w) /\ StoreInv'
    BY <1>1, <1>4 DEF PassesOn, StoreInv
  <1>7. /\ \A m \in Msgs : done[m] > 0 => done'[m] > 0
        /\ dlqErrors \subseteq dlqErrors'
    BY <1>1, <1>2, <1>3 DEF TypeOK, HandlerReturns, DeadLetterFails
  <1>8. \A v \in Workers \ {w} : pc'[v] = pc[v]
    BY <1>1, <1>4 DEF TypeOK
  <1>9. pc'[w] = "ack" => \A e \in cur'[w] : done'[e[1]] > 0 \/ kind[e[1]] = "unknown"
    <2> SUFFICES ASSUME pc'[w] = "ack" PROVE done'[d[1]] > 0
      BY <1>3, <1>4
    <2>1. done' = [done EXCEPT ![d[1]] = @ + 1] /\ done \in [Msgs -> Nat]
      BY <1>1, <1>2, <1>4 DEF TypeOK, DeadLetterFails, Goto
    <2>2. QED
      BY <1>3, <2>1
  <1>10. pc'[w] = "final" => \A e \in cur'[w] : dlq[e[1]] > 0 \/ e[1] \in dlqErrors'
    BY <1>1, <1>2, <1>3, <1>4 DEF TypeOK, HandlerReturns, DeadLetterFails, Goto
  <1>11. QED
    BY <1>4, <1>5, <1>6, <1>7, <1>8, <1>9, <1>10, WorkerKeeps

(* The delivery is settled with the server: ack, nak, or the final ack. *)
LEMMA SettleStep ==
  ASSUME IInv, NEW w \in Workers, Ack(w) \/ Nak(w) \/ FinalAck(w) PROVE IInv'
  <1> USE JetStreamAssumption
  <1>1. TypeOK /\ StoreInv /\ AckInv
    BY DEF IInv
  <1>2. PICK d \in cur[w] : (Acked(d[1]) /\ pc[w] \in {"ack", "final"}) \/ Naked(d[1])
    <2>1. CASE Ack(w) \/ FinalAck(w)
      BY <2>1 DEF Ack, FinalAck
    <2>2. CASE Nak(w)
      BY <2>2 DEF Nak
    <2>3. QED
      BY <2>1, <2>2
  <1>3. d[1] \in Msgs /\ d \in Has(w) /\ cur[w] = {d}
    BY CurrentOne
  <1>4. /\ UNCHANGED <<class, kind, delivered, dlq, dlqErrors, handled, done, pos, faults, signals>>
        /\ cur' = [cur EXCEPT ![w] = {}]
        /\ batch' = batch \/ batch' = [batch EXCEPT ![w] = {}]
        /\ running' = running \/ running' = [running EXCEPT ![w] = FALSE]
        /\ \E l \in {"top", "dispatch", "down"} : pc' = [pc EXCEPT ![w] = l]
    BY DEF Ack, Nak, FinalAck, NextOfBatch, Leave, Goto, historyVars
  <1>5. \E s \in {"acked", "delayed", status[d[1]]} :
          /\ status' = [status EXCEPT ![d[1]] = s]
          /\ s = "acked" => status[d[1]] = "acked" \/ Accounted(d[1])
    BY <1>1, <1>2, <1>3 DEF Acked, Naked, AckInv, Accounted, TypeOK
  <1>6. TypeOK'
    <2>1. status' \in [Msgs -> {"unsent", "stored", "pending", "delayed", "acked", "exhausted"}]
      BY <1>1, <1>3, <1>5 DEF TypeOK
    <2>2. pc' \in [Workers -> LoopStates \cup {"down", "subscribe", "stopped"}]
      BY <1>1, <1>4 DEF TypeOK, LoopStates
    <2>3. running' \in [Workers -> BOOLEAN]
      BY <1>1, <1>4 DEF TypeOK
    <2>4. QED
      BY <1>1, <1>4, <2>1, <2>2, <2>3 DEF TypeOK
  <1>7. PassesOn(w)
    BY <1>1, <1>4 DEF PassesOn, TypeOK
  <1>8. StoreInv'
    BY <1>1, <1>3, <1>4, <1>5 DEF StoreInv, TypeOK
  <1>9. \A m \in Msgs : status'[m] = "acked" => status[m] = "acked" \/ Accounted(m)
    BY <1>1, <1>3, <1>5 DEF TypeOK
  <1>10. /\ \A v \in Workers \ {w} : pc'[v] = pc[v]
         /\ cur'[w] = {}
    BY <1>1, <1>4 DEF TypeOK
  <1>11. QED
    BY <1>4, <1>6, <1>7, <1>8, <1>9, <1>10, WorkerKeeps

(* The last delivery is dead-lettered: no worker holds it but w, and w has    *)
(* not done so before.                                                        *)
LEMMA DeadLetterStep == ASSUME IInv, NEW w \in Workers, DeadLetter(w) PROVE IInv'
  <1> USE JetStreamAssumption
  <1>1. TypeOK /\ StoreInv /\ HeldInv /\ DlqInv /\ AckInv /\ SettledIsAccounted
    BY DEF IInv
  <1>2. PICK d \in cur[w] : d[2] >= MaxDeliver /\ dlq' = [dlq EXCEPT ![d[1]] = @ + 1]
    BY DEF DeadLetter
  <1>3. /\ UNCHANGED <<class, kind, status, delivered, pos, batch, cur, running, dlqErrors, handled,
                       done, faults, signals>>
        /\ pc' = [pc EXCEPT ![w] = "final"] /\ pc[w] = "except"
    BY DEF DeadLetter, Goto, historyVars
  <1>4. /\ d[1] \in Msgs /\ cur[w] = {d} /\ d \in Has(w) /\ d[2] = MaxDeliver
        /\ dlq \in [Msgs -> Nat] /\ delivered[d[1]] = MaxDeliver
    <2>1. d[1] \in Msgs /\ d[2] \in 1 .. MaxDeliver /\ cur[w] = {d} /\ d \in Has(w)
      BY CurrentOne
    <2>2. dlq \in [Msgs -> Nat] /\ delivered[d[1]] \in 0 .. MaxDeliver
      BY <1>1, <2>1 DEF TypeOK
    <2>3. d[2] <= delivered[d[1]]
      BY <1>1, <2>1 DEF HeldInv
    <2>4. QED
      BY <1>2, <2>1, <2>2, <2>3
  <1>5. dlq[d[1]] = 0
    BY <1>1, <1>3, <1>4 DEF DlqInv
  <1>6. /\ dlq' \in [Msgs -> Nat] /\ dlq'[d[1]] = 1
        /\ \A m \in Msgs \ {d[1]} : dlq'[m] = dlq[m]
    BY <1>2, <1>4, <1>5
  <1>7. /\ pc' \in [Workers -> LoopStates \cup {"down", "subscribe", "stopped"}]
        /\ pc'[w] = "final" /\ \A v \in Workers \ {w} : pc'[v] = pc[v]
    BY <1>1, <1>3 DEF TypeOK, LoopStates
  <1>8. TypeOK'
    BY <1>1, <1>3, <1>6, <1>7 DEF TypeOK
  <1>9. StoreInv' /\ HeldInv'
    BY <1>1, <1>3 DEF StoreInv, HeldInv, Has
  <1>10. DeadLetteredOnce'
    BY <1>1, <1>3, <1>4, <1>6 DEF DlqInv, DeadLetteredOnce
  <1>11. ASSUME NEW v \in Workers, NEW e \in Has(v), e[2] = MaxDeliver, dlq'[e[1]] # 0
         PROVE  e \in cur[v] /\ pc'[v] = "final"
    <2>1. e \in Delivery /\ d \in Delivery /\ e[1] \in Msgs
      BY <1>1, <1>4, <1>11, HeldTypes DEF Has
    <2>2. CASE e[1] = d[1]
      <3>1. e = d
        BY <1>4, <1>11, <2>1, <2>2, DeliveryParts
      <3>2. v = w
        BY <1>1, <1>4, <1>11, <3>1 DEF HeldInv
      <3>3. QED
        BY <1>7, <3>1, <3>2
    <2>3. CASE e[1] # d[1]
      <3>1. e \in cur[v] /\ pc[v] = "final"
        BY <1>1, <1>6, <1>11, <2>1, <2>3 DEF DlqInv
      <3>2. QED
        BY <1>3, <1>7, <3>1
    <2>4. QED
      BY <2>2, <2>3
  <1>12. DlqInv'
    BY <1>3, <1>10, <1>11 DEF DlqInv, Has
  <1>13. AckInv'
    <2> SUFFICES ASSUME NEW v \in Workers, NEW e \in cur[v]
                 PROVE  /\ pc'[v] = "ack" => done[e[1]] > 0 \/ kind[e[1]] = "unknown"
                        /\ pc'[v] = "final" => dlq'[e[1]] > 0 \/ e[1] \in dlqErrors
      BY <1>3 DEF AckInv
    <2>1. CASE v = w
      BY <1>4, <1>6, <1>7, <2>1
    <2>2. CASE v # w
      <3>1. e[1] \in Msgs /\ pc'[v] = pc[v]
        BY <1>7, <2>2, CurrentOne
      <3>2. dlq[e[1]] > 0 => dlq'[e[1]] > 0
        BY <1>6, <3>1
      <3>3. QED
        BY <1>1, <3>1, <3>2 DEF AckInv
    <2>3. QED
      BY <2>1, <2>2
  <1>14. SettledIsAccounted'
    BY <1>1, <1>3, <1>4, <1>6 DEF SettledIsAccounted
  <1>15. QED
    BY <1>8, <1>9, <1>12, <1>13, <1>14 DEF IInv

(* The server hands out the messages in S: the deliveries are new. *)
LEMMA DeliverStep ==
  ASSUME IInv, NEW w \in Workers, NEW S \in SUBSET Msgs,
         \A m \in S : status[m] = "stored", Deliver(S),
         UNCHANGED <<class, kind, cur, running, historyVars, signals>>,
         \/ batch' = batch
         \/ batch' = [batch EXCEPT ![w] = {<<m, delivered[m] + 1>> : m \in S}],
         pc[w] = "fetch",
         NEW l \in {"fetch", "top", "dispatch"}, pc' = [pc EXCEPT ![w] = l],
         pos' \in [Workers -> 1 .. NumClasses], faults' \in 0 .. MaxFaults
  PROVE  IInv'
  <1> USE JetStreamAssumption
  <1> DEFINE new == {<<m, delivered[m] + 1>> : m \in S}
  <1>1. TypeOK /\ StoreInv /\ HeldInv /\ DlqInv /\ AckInv /\ SettledIsAccounted
    BY DEF IInv
  <1>2. \A m \in S : delivered[m] < MaxDeliver /\ delivered[m] \in 0 .. MaxDeliver
    BY <1>1 DEF StoreInv, TypeOK
  <1>3. /\ delivered' \in [Msgs -> 0 .. MaxDeliver]
        /\ \A m \in Msgs : delivered[m] <= delivered'[m]
        /\ \A m \in S : delivered'[m] = delivered[m] + 1
        /\ \A m \in Msgs \ S : delivered'[m] = delivered[m]
    BY <1>1, <1>2 DEF TypeOK, Deliver
  <1>4. \A d \in new : /\ d \in Delivery /\ d[1] \in S /\ d[2] = delivered[d[1]] + 1
    BY <1>2 DEF Delivery
  <1>5. /\ \A v \in Workers \ {w} : batch'[v] = batch[v] /\ pc'[v] = pc[v]
        /\ batch'[w] = batch[w] \/ batch'[w] = new
        /\ pc'[w] = l
    BY <1>1 DEF TypeOK
  <1> HIDE DEF new
  <1>6. ASSUME NEW v \in Workers, NEW d \in Has(v)
        PROVE  d \notin new /\ d[1] \in Msgs /\ d[2] <= delivered[d[1]]
               /\ delivered[d[1]] \in 0 .. MaxDeliver /\ d[2] \in 1 .. MaxDeliver
    <2>1. d[1] \in Msgs /\ delivered[d[1]] \in 0 .. MaxDeliver /\ d[2] \in 1 .. MaxDeliver
      BY <1>1, <1>6, HeldTypes
    <2>2. d[2] <= delivered[d[1]]
      BY <1>1, <1>6 DEF HeldInv
    <2>3. QED
      BY <1>4, <2>1, <2>2
  <1>7. TypeOK'
    <2>1. status' \in [Msgs -> {"unsent", "stored", "pending", "delayed", "acked", "exhausted"}]
      BY <1>1 DEF TypeOK, Deliver
    <2>2. batch' \in [Workers -> SUBSET Delivery]
      BY <1>1, <1>4 DEF TypeOK, new
    <2>3. pc' \in [Workers -> LoopStates \cup {"down", "subscribe", "stopped"}]
      BY <1>1 DEF TypeOK, LoopStates
    <2>4. QED
      BY <1>1, <1>3, <2>1, <2>2, <2>3 DEF TypeOK, Deliver, historyVars
  <1>8. StoreInv'
    <2> SUFFICES ASSUME NEW m \in Msgs, status'[m] \in {"unsent", "stored"}
                 PROVE  delivered'[m] < MaxDeliver
      BY DEF StoreInv
    <2>1. m \notin S /\ status'[m] = status[m]
      BY DEF Deliver
    <2>2. QED
      BY <1>1, <1>3, <2>1 DEF StoreInv
  <1>9. ASSUME NEW v \in Workers, NEW d \in Has(v)'
        PROVE  d \in Has(v) \/ (v = w /\ d \in new /\ d \in batch'[w])
    BY <1>5, <1>9 DEF Has
  <1>10. HeldInv'
    <2>1. \A v \in Workers : \A d \in Has(v)' : d[2] <= delivered'[d[1]]
      <3> SUFFICES ASSUME NEW v \in Workers, NEW d \in Has(v)' PROVE d[2] <= delivered'[d[1]]
        OBVIOUS
      <3>1. CASE d \in Has(v)
        BY <1>3, <1>6, <3>1
      <3>2. CASE d \in new
        BY <1>2, <1>3, <1>4, <3>2
      <3>3. QED
        BY <1>9, <3>1, <3>2
    <2>2. \A u, v \in Workers : u # v => Has(u)' \cap Has(v)' = {}
      BY <1>1, <1>6, <1>9 DEF HeldInv
    <2>3. \A v \in Workers : batch'[v] \cap cur'[v] = {}
      <3> SUFFICES ASSUME NEW v \in Workers, NEW d \in batch'[v], d \in cur[v] PROVE FALSE
        OBVIOUS
      <3>1. d \in Has(v)
        BY DEF Has
      <3>2. QED
        BY <1>1, <1>5, <1>6, <3>1 DEF HeldInv
    <2>4. \A v \in Workers : \A d, e \in cur'[v] : d = e
      BY <1>1 DEF HeldInv
    <2>5. QED
      BY <2>1, <2>2, <2>3, <2>4 DEF HeldInv
  <1>11. DeadLetteredOnce'
    <2>1. dlq' = dlq /\ DeadLetteredOnce
      BY <1>1 DEF Deliver, DlqInv
    <2>2. \A m \in Msgs : delivered[m] = MaxDeliver => m \notin S
      BY <1>2
    <2>3. QED
      BY <1>3, <2>1, <2>2 DEF DeadLetteredOnce
  <1>12. ASSUME NEW v \in Workers, NEW d \in Has(v)', d[2] = MaxDeliver, dlq'[d[1]] # 0
         PROVE  d \in cur'[v] /\ pc'[v] = "final"
    <2>1. dlq' = dlq
      BY DEF Deliver
    <2>2. CASE d \in Has(v)
      <3>1. d \in cur[v] /\ pc[v] = "final"
        BY <1>1, <1>12, <2>1, <2>2 DEF DlqInv
      <3>2. QED
        BY <1>5, <3>1
    <2>3. CASE d \in new
      <3>1. d[1] \in Msgs /\ delivered[d[1]] < MaxDeliver /\ dlq[d[1]] \in Nat
        BY <1>1, <1>2, <1>4, <2>3 DEF TypeOK
      <3>2. dlq[d[1]] = 0
        BY <1>1, <3>1 DEF DlqInv, DeadLetteredOnce
      <3>3. QED
        BY <1>12, <2>1, <3>2
    <2>4. QED
      BY <1>9, <1>12, <2>2, <2>3
  <1>13. DlqInv'
    BY <1>11, <1>12 DEF DlqInv
  <1>14. AckInv'
    BY <1>1, <1>5 DEF AckInv, Deliver, historyVars
  <1>15. SettledIsAccounted'
    BY <1>1 DEF SettledIsAccounted, Deliver, historyVars
  <1>16. QED
    BY <1>7, <1>8, <1>10, <1>13, <1>14, <1>15 DEF IInv

(* A fetch, also one whose answer is lost. *)
LEMMA FetchStep == ASSUME IInv, NEW w \in Workers, Fetch(w) \/ FetchFails(w) PROVE IInv'
  <1> USE JetStreamAssumption
  <1>1. TypeOK
    BY DEF IInv
  <1>2. \A c : \A S \in Batches(c) : S \in SUBSET Msgs /\ \A m \in S : status[m] = "stored"
    BY DEF Batches, Available
  <1>3. CASE Fetch(w)
    <2>1. PICK S \in Batches(pos[w]) :
            Deliver(S) /\ batch' = [batch EXCEPT ![w] = {<<m, delivered[m] + 1>> : m \in S}]
      BY <1>3 DEF Fetch
    <2>2. /\ pc[w] = "fetch" /\ pc' = [pc EXCEPT ![w] = "dispatch"]
          /\ UNCHANGED <<class, kind, pos, cur, running, historyVars, faults, signals>>
      BY <1>3 DEF Fetch, Goto
    <2>3. pos' \in [Workers -> 1 .. NumClasses] /\ faults' \in 0 .. MaxFaults
      BY <1>1, <2>2 DEF TypeOK
    <2>4. QED
      BY <1>2, <2>1, <2>2, <2>3, DeliverStep
  <1>4. CASE FetchFails(w)
    <2>1. PICK S \in SUBSET Msgs : Deliver(S) /\ \A m \in S : status[m] = "stored"
      <3>1. CASE UNCHANGED serverVars
        <4>1. Deliver({})
          BY <1>1, <3>1 DEF Deliver, serverVars, TypeOK
        <4>2. QED
          BY <4>1
      <3>2. CASE \E S \in Batches(pos[w]) : Deliver(S)
        BY <1>2, <3>2
      <3>3. QED
        BY <1>4, <3>1, <3>2 DEF FetchFails
    <2>2. /\ pc[w] = "fetch" /\ UNCHANGED <<class, kind, historyVars, signals, batch, cur, running>>
          /\ faults < MaxFaults /\ faults' = faults + 1
      BY <1>4 DEF FetchFails, NextClass, Fault
    <2>3. faults' \in 0 .. MaxFaults
      BY <1>1, <2>2 DEF TypeOK
    <2>4. pos' \in [Workers -> 1 .. NumClasses]
      BY <1>1, <1>4 DEF FetchFails, NextClass, TypeOK
    <2>5. \E l \in {"fetch", "top", "dispatch"} : pc' = [pc EXCEPT ![w] = l]
      <3>1. pc' = pc \/ pc' = [pc EXCEPT ![w] = "top"]
        BY <1>4 DEF FetchFails, NextClass, Goto
      <3>2. pc = [pc EXCEPT ![w] = "fetch"]
        BY <1>1, <2>2 DEF TypeOK
      <3>3. QED
        BY <3>1, <3>2
    <2>6. QED
      BY <2>1, <2>2, <2>3, <2>4, <2>5, DeliverStep
  <1>5. QED
    BY <1>3, <1>4

(* Every step keeps the inductive invariant. *)
LEMMA NextIInv == IInv /\ [Next]_vars => IInv'
  <1> SUFFICES ASSUME IInv, [Next]_vars PROVE IInv'
    OBVIOUS
  <1>1. CASE UNCHANGED vars
    BY <1>1 DEF vars, serverVars, workerVars, historyVars, IInv, TypeOK, StoreInv, HeldInv, DlqInv,
                AckInv, SettledIsAccounted, DeadLetteredOnce, Has
  <1>2. ASSUME NEW w \in Workers, WorkerStep(w) PROVE IInv'
    BY <1>2, ControlStep, DispatchStep, OutcomeStep, SettleStep, DeadLetterStep DEF WorkerStep
  <1>3. QED
    BY <1>1, <1>2, ServerStep, FetchStep, ControlStep, OutcomeStep DEF Next

(* The inductive invariant holds of every reachable state. *)
THEOREM InvariantHolds == Spec => []IInv
  BY InitIInv, NextIInv, PTL DEF Spec

(* The state of the server and of every worker keeps its type. *)
THEOREM TypeCorrect == Spec => []TypeOK
  BY InvariantHolds, PTL DEF IInv

(* consume_loop settles no message silently: what it acks was handled, has no *)
(* handler, is on the DLQ, or its failed DLQ publication is logged.           *)
THEOREM NothingIsLostSilently == Spec => []SettledIsAccounted
  BY InvariantHolds, PTL DEF IInv

(* A message is dead-lettered at most once, by its last delivery, whatever    *)
(* crashes, lost fetches and late acks come between.                          *)
THEOREM DeadLetterIsUnique == Spec => []DeadLetteredOnce
  BY InvariantHolds, PTL DEF IInv, DlqInv
-----------------------------------------------------------------------------
(* The refinement *)

(* Nothing is delivered of a message that was not published. *)
UnsentInv == \A m \in Msgs : status[m] = "unsent" => delivered[m] = 0

(* A fetch starts from messages the server has. *)
LEMMA DeliveredWereStored ==
  ASSUME NEW w \in Workers, NEW S \in Batches(pos[w])
  PROVE  S \in SUBSET Msgs /\ \A m \in S : status[m] = "stored"
  BY DEF Batches, Available

(* No step takes a message back, or delivers one it does not publish first.   *)
LEMMA UnsentStep ==
  ASSUME IInv, [Next]_vars, NEW m \in Msgs, status'[m] = "unsent"
  PROVE  status[m] = "unsent" /\ delivered'[m] = delivered[m]
  <1>1. TypeOK
    BY DEF IInv
  <1>2. ASSUME NEW j \in Msgs, Publish(j) \/ Redeliver(j)
        PROVE  status[m] = "unsent" /\ delivered'[m] = delivered[m]
    <2>1. delivered' = delivered /\ \E s \in {"stored", "exhausted"} : status' = [status EXCEPT ![j] = s]
      BY <1>2 DEF Publish, Redeliver, Redelivered
    <2>2. QED
      BY <1>1, <2>1 DEF TypeOK
  <1>3. ASSUME NEW w \in Workers, Ack(w) \/ Nak(w) \/ FinalAck(w)
        PROVE  status[m] = "unsent" /\ delivered'[m] = delivered[m]
    <2>1. PICK d \in cur[w] : Acked(d[1]) \/ Naked(d[1])
      BY <1>3 DEF Ack, Nak, FinalAck
    <2>2. d[1] \in Msgs /\ delivered' = delivered
      BY <1>3, CurrentOne DEF Ack, Nak, FinalAck
    <2>3. QED
      BY <1>1, <2>1, <2>2 DEF TypeOK, Acked, Naked
  <1>4. ASSUME NEW w \in Workers, NEW S \in Batches(pos[w]), Deliver(S)
        PROVE  status[m] = "unsent" /\ delivered'[m] = delivered[m]
    BY <1>4 DEF Deliver
  <1>5. CASE UNCHANGED serverVars
    BY <1>5 DEF serverVars
  <1>6. ASSUME NEW w \in Workers, WorkerStep(w)
        PROVE  status[m] = "unsent" /\ delivered'[m] = delivered[m]
    BY <1>3, <1>5, <1>6 DEF WorkerStep, Connect, Subscribe, Top, FetchNothing, Dispatch,
          HandlerReturns, HandlerRaises, DeadLetter, serverVars
  <1>7. ASSUME NEW w \in Workers,
               Fetch(w) \/ Signal(w) \/ FetchFails(w) \/ AckRaises(w) \/ DeadLetterFails(w) \/ Crash(w)
        PROVE  status[m] = "unsent" /\ delivered'[m] = delivered[m]
    BY <1>4, <1>5, <1>7 DEF Fetch, Signal, FetchFails, AckRaises, DeadLetterFails, Crash
  <1>8. CASE UNCHANGED vars
    BY <1>5, <1>8 DEF vars
  <1>9. QED
    BY <1>2, <1>6, <1>7, <1>8 DEF Next

(* The invariant the refinement needs. *)
PromiseInv == IInv /\ UnsentInv

(* It holds initially and is kept. *)
LEMMA PromiseInvHolds == Spec => []PromiseInv
  <1>1. Init => PromiseInv
    BY InitIInv DEF PromiseInv, Init, UnsentInv
  <1>2. PromiseInv /\ [Next]_vars => PromiseInv'
    BY NextIInv, UnsentStep DEF PromiseInv, UnsentInv
  <1>3. QED
    BY <1>1, <1>2, PTL DEF Spec

(* What a worker holds was submitted and tried. *)
LEMMA HeldIsTried ==
  ASSUME PromiseInv, NEW w \in Workers, NEW d \in cur[w]
  PROVE  /\ d[1] \in Msgs /\ cur[w] = {d} /\ d[2] \in 1 .. MaxDeliver
         /\ delivered[d[1]] \in 1 .. MaxDeliver /\ d[2] <= delivered[d[1]]
         /\ status[d[1]] # "unsent" /\ jobLimit[d[1]] = MaxDeliver
  <1> USE JetStreamAssumption
  <1>1. d[1] \in Msgs /\ cur[w] = {d} /\ d[2] \in 1 .. MaxDeliver /\ d \in Has(w)
    BY CurrentOne DEF PromiseInv
  <1>2. d[2] <= delivered[d[1]] /\ delivered[d[1]] \in 0 .. MaxDeliver
    BY <1>1 DEF PromiseInv, IInv, HeldInv, TypeOK
  <1>3. delivered[d[1]] \in 1 .. MaxDeliver
    BY <1>1, <1>2
  <1>4. status[d[1]] # "unsent"
    BY <1>1, <1>3 DEF PromiseInv, UnsentInv
  <1>5. QED
    BY <1>1, <1>2, <1>3, <1>4 DEF jobLimit

(* Before anything is published no job is submitted. *)
LEMMA PromiseInit == Init => Promise!Init
  BY DEF Init, Promise!Init, jobLimit, jobsDone, jobsBuried, jobsWaived, jobsClosed

(* A publication submits a job; the server making a message available again   *)
(* changes nothing that is promised.                                          *)
LEMMA ServerPromise ==
  ASSUME PromiseInv, NEW m \in Msgs, Publish(m) \/ Redeliver(m)
  PROVE  [Promise!Next]_(Promise!jobVars)
  <1>1. TypeOK
    BY DEF PromiseInv, IInv
  <1>2. PICK s \in {"stored", "exhausted"} : status' = [status EXCEPT ![m] = s]
    BY DEF Publish, Redeliver, Redelivered
  <1>3. UNCHANGED <<kind, delivered, dlq, dlqErrors, done>> /\ status[m] # "acked"
    BY DEF Publish, Redeliver, historyVars
  <1>4. jobsClosed' = jobsClosed
    BY <1>1, <1>2, <1>3 DEF jobsClosed, TypeOK
  <1>5. jobsDone' = jobsDone /\ jobsBuried' = jobsBuried /\ jobsWaived' = jobsWaived
    BY <1>3 DEF jobsDone, jobsBuried, jobsWaived
  <1>6. CASE Publish(m)
    <2>1. jobLimit[m] = 0
      BY <1>6 DEF Publish, jobLimit
    <2>2. jobLimit' = [jobLimit EXCEPT ![m] = MaxDeliver]
      BY <1>1, <1>2 DEF jobLimit, TypeOK
    <2>3. Promise!Submit(m, MaxDeliver)
      BY <1>3, <1>4, <1>5, <2>1, <2>2 DEF Promise!Submit
    <2>4. QED
      BY <2>3 DEF Promise!Next
  <1>7. CASE Redeliver(m)
    <2>1. status[m] # "unsent"
      BY <1>7 DEF Redeliver
    <2>2. jobLimit' = jobLimit
      BY <1>1, <1>2, <2>1 DEF jobLimit, TypeOK
    <2>3. QED
      BY <1>3, <1>4, <1>5, <2>2 DEF Promise!jobVars
  <1>8. QED
    BY <1>6, <1>7

(* The messages the server hands out are tried once more; none of them was    *)
(* settled, and each had a delivery left.                                     *)
LEMMA DeliverTries ==
  ASSUME PromiseInv, NEW w \in Workers, NEW S \in Batches(pos[w]), Deliver(S),
         UNCHANGED <<kind, historyVars>>
  PROVE  Promise!Try(S) /\ S \in SUBSET Msgs
  <1> USE JetStreamAssumption
  <1>1. S \in SUBSET Msgs /\ \A m \in S : status[m] = "stored"
    BY DeliveredWereStored
  <1>2. S \cap jobsClosed = {}
    BY <1>1 DEF jobsClosed
  <1>3. \A m \in S : delivered[m] < jobLimit[m]
    BY <1>1 DEF PromiseInv, IInv, StoreInv, jobLimit
  <1>4. delivered' = [m \in Msgs |-> IF m \in S THEN delivered[m] + 1 ELSE delivered[m]]
    BY DEF Deliver
  <1>5. jobLimit' = jobLimit /\ jobsClosed' = jobsClosed
    BY <1>1 DEF Deliver, jobLimit, jobsClosed
  <1>6. jobsDone' = jobsDone /\ jobsBuried' = jobsBuried /\ jobsWaived' = jobsWaived
    BY DEF Deliver, historyVars, jobsDone, jobsBuried, jobsWaived
  <1>7. QED
    BY <1>1, <1>2, <1>3, <1>4, <1>5, <1>6 DEF Promise!Try

(* A step that settles nothing and delivers nothing changes no promise. *)
LEMMA QuietStep ==
  ASSUME UNCHANGED <<kind, delivered, dlq, dlqErrors, done>>,
         \A m \in Msgs : /\ status'[m] = "unsent" <=> status[m] = "unsent"
                         /\ status'[m] = "acked" <=> status[m] = "acked"
  PROVE  UNCHANGED Promise!jobVars
  BY DEF Promise!jobVars, jobLimit, jobsDone, jobsBuried, jobsWaived, jobsClosed

(* A handler that returns is a try that worked. *)
LEMMA ReturnWorks ==
  ASSUME PromiseInv, NEW w \in Workers, HandlerReturns(w) PROVE Promise!Next
  <1>1. PICK d \in cur[w] : done' = [done EXCEPT ![d[1]] = @ + 1]
    BY DEF HandlerReturns
  <1>2. d[1] \in Msgs /\ delivered[d[1]] > 0 /\ done \in [Msgs -> Nat]
    BY HeldIsTried DEF PromiseInv, IInv, TypeOK
  <1>3. UNCHANGED <<kind, status, delivered, dlq, dlqErrors>>
    BY DEF HandlerReturns, serverVars
  <1>4. jobsDone' = jobsDone \cup {d[1]}
    BY <1>1, <1>2 DEF jobsDone
  <1>5. UNCHANGED <<jobLimit, jobsBuried, jobsWaived, jobsClosed>>
    BY <1>3 DEF jobLimit, jobsBuried, jobsWaived, jobsClosed
  <1>6. Promise!Works(d[1])
    BY <1>2, <1>3, <1>4, <1>5 DEF Promise!Works, Promise!MayClose
  <1>7. QED
    BY <1>2, <1>6 DEF Promise!Next

(* The last delivery is buried, once, or given up. *)
LEMMA LastBuries ==
  ASSUME PromiseInv, NEW w \in Workers, DeadLetter(w) \/ DeadLetterFails(w) PROVE Promise!Next
  <1> USE JetStreamAssumption
  <1>1. PICK d \in cur[w] :
          /\ d[2] >= MaxDeliver
          /\ \/ dlq' = [dlq EXCEPT ![d[1]] = @ + 1] /\ dlqErrors' = dlqErrors
             \/ dlq' = dlq /\ dlqErrors' = dlqErrors \cup {d[1]}
    BY DEF DeadLetter, DeadLetterFails, historyVars, serverVars
  <1>2. /\ d[1] \in Msgs /\ d \in Has(w) /\ d[2] = MaxDeliver
        /\ jobLimit[d[1]] > 0 /\ delivered[d[1]] = jobLimit[d[1]]
    <2>1. d \in Has(w)
      BY DEF Has
    <2>2. QED
      BY <1>1, <2>1, HeldIsTried
  <1>3. UNCHANGED <<kind, status, delivered, done>> /\ pc[w] = "except"
    BY DEF DeadLetter, DeadLetterFails, serverVars, historyVars
  <1>4. UNCHANGED <<jobLimit, jobsDone, jobsClosed>>
    BY <1>3 DEF jobLimit, jobsDone, jobsClosed
  <1>5. CASE dlq' = [dlq EXCEPT ![d[1]] = @ + 1] /\ dlqErrors' = dlqErrors
    <2>1. dlq[d[1]] = 0 /\ dlq \in [Msgs -> Nat]
      BY <1>2, <1>3 DEF PromiseInv, IInv, DlqInv, TypeOK
    <2>2. d[1] \notin jobsBuried /\ jobsBuried' = jobsBuried \cup {d[1]}
      BY <1>2, <1>5, <2>1 DEF jobsBuried
    <2>3. jobsWaived' = jobsWaived
      BY <1>3, <1>5 DEF jobsWaived
    <2>4. Promise!Bury(d[1])
      BY <1>2, <1>3, <1>4, <2>2, <2>3 DEF Promise!Bury, Promise!MayClose
    <2>5. QED
      BY <1>2, <2>4 DEF Promise!Next
  <1>6. CASE dlq' = dlq /\ dlqErrors' = dlqErrors \cup {d[1]}
    <2>1. jobsBuried' = jobsBuried
      BY <1>6 DEF jobsBuried
    <2>2. jobsWaived' = jobsWaived \cup {d[1]}
      BY <1>3, <1>6 DEF jobsWaived
    <2>3. Promise!GiveUp(d[1])
      BY <1>2, <1>3, <1>4, <2>1, <2>2 DEF Promise!GiveUp
    <2>4. QED
      BY <1>2, <2>3 DEF Promise!Next
  <1>7. QED
    BY <1>1, <1>5, <1>6

(* An ack closes a job that worked, was buried or was given up. *)
LEMMA AckCloses ==
  ASSUME PromiseInv, NEW w \in Workers, Ack(w) \/ FinalAck(w) PROVE Promise!Next
  <1>1. PICK d \in cur[w] : Acked(d[1]) /\ pc[w] \in {"ack", "final"}
    BY DEF Ack, FinalAck
  <1>2. d[1] \in Msgs /\ delivered[d[1]] > 0 /\ status[d[1]] # "unsent"
    BY HeldIsTried
  <1>3. UNCHANGED <<kind, delivered, dlq, dlqErrors, done>>
    BY DEF Ack, FinalAck, historyVars
  <1>4. status' = [status EXCEPT ![d[1]] = "acked"] /\ DOMAIN status = Msgs
    BY <1>1 DEF Acked, PromiseInv, IInv, TypeOK
  <1>5. d[1] \in jobsDone \cup jobsBuried \cup jobsWaived
    BY <1>1, <1>2 DEF PromiseInv, IInv, AckInv, jobsDone, jobsBuried, jobsWaived
  <1>6. jobLimit' = jobLimit /\ jobsClosed' = jobsClosed \cup {d[1]}
    BY <1>2, <1>4 DEF jobLimit, jobsClosed
  <1>7. jobsDone' = jobsDone /\ jobsBuried' = jobsBuried /\ jobsWaived' = jobsWaived
    BY <1>3 DEF jobsDone, jobsBuried, jobsWaived
  <1>8. Promise!Close(d[1])
    BY <1>2, <1>3, <1>5, <1>6, <1>7 DEF Promise!Close
  <1>9. QED
    BY <1>2, <1>8 DEF Promise!Next

(* A nak promises nothing: the server only delays the message. *)
LEMMA NakIsQuiet ==
  ASSUME PromiseInv, NEW w \in Workers, Nak(w) PROVE UNCHANGED Promise!jobVars
  <1>1. PICK d \in cur[w] : Naked(d[1])
    BY DEF Nak
  <1>2. d[1] \in Msgs /\ DOMAIN status = Msgs
    BY HeldIsTried DEF PromiseInv, IInv, TypeOK
  <1>3. UNCHANGED <<kind, delivered, dlq, dlqErrors, done>>
    BY DEF Nak, historyVars
  <1>4. \A m \in Msgs : status'[m] = status[m] \/ (status[m] = "pending" /\ status'[m] = "delayed")
    BY <1>1, <1>2 DEF Naked
  <1>5. QED
    BY <1>3, <1>4, QuietStep

(* Every step of the consumers and the server is a step of the promise or     *)
(* changes nothing of it.                                                     *)
LEMMA PromiseStep == PromiseInv /\ [Next]_vars => [Promise!Next]_(Promise!jobVars)
  <1> SUFFICES ASSUME PromiseInv, [Next]_vars PROVE Promise!Next \/ UNCHANGED Promise!jobVars
    OBVIOUS
  <1>1. CASE UNCHANGED <<kind, serverVars, dlqErrors, done>>
    BY <1>1, QuietStep DEF serverVars
  <1>2. ASSUME NEW w \in Workers, NEW S \in Batches(pos[w]), Deliver(S),
               UNCHANGED <<kind, historyVars>>
        PROVE  Promise!Next
    BY <1>2, DeliverTries DEF Promise!Next
  <1>3. ASSUME NEW w \in Workers, WorkerStep(w)
        PROVE  Promise!Next \/ UNCHANGED Promise!jobVars
    <2>1. CASE Connect(w) \/ Subscribe(w) \/ Top(w) \/ FetchNothing(w) \/ HandlerRaises(w)
               \/ \E m \in Msgs, n \in 1 .. MaxDeliver : Dispatch(w, m, n)
      BY <1>1, <2>1 DEF Connect, Subscribe, Top, FetchNothing, HandlerRaises, Dispatch, historyVars
    <2>2. QED
      BY <1>3, <2>1, ReturnWorks, LastBuries, AckCloses, NakIsQuiet DEF WorkerStep
  <1>4. ASSUME NEW w \in Workers,
               Fetch(w) \/ Signal(w) \/ FetchFails(w) \/ AckRaises(w) \/ DeadLetterFails(w) \/ Crash(w)
        PROVE  Promise!Next \/ UNCHANGED Promise!jobVars
    <2>1. CASE Signal(w) \/ AckRaises(w) \/ Crash(w)
      BY <1>1, <2>1 DEF Signal, AckRaises, Crash, historyVars
    <2>2. CASE Fetch(w)
      BY <1>2, <2>2 DEF Fetch
    <2>3. CASE FetchFails(w)
      BY <1>1, <1>2, <2>3 DEF FetchFails, historyVars
    <2>4. QED
      BY <1>4, <2>1, <2>2, <2>3, LastBuries
  <1>5. CASE UNCHANGED vars
    BY <1>1, <1>5 DEF vars, historyVars
  <1>6. QED
    BY <1>3, <1>4, <1>5, ServerPromise DEF Next

(* The durable backend implements the work queue abstraction of queue.py, for *)
(* any number of workers, crashes, lost fetches and late acks.                *)
THEOREM RefinesAtLeastOnce == Spec => ImplementsAtLeastOnce
  BY PromiseInvHolds, PromiseInit, PromiseStep, PTL DEF Spec, Promise!Spec, ImplementsAtLeastOnce
=============================================================================
