--------------------------- MODULE WorkQueueProofs ---------------------------
(***************************************************************************)
(* Proofs about WorkQueue for every set of keys, priorities and attempt    *)
(* limits, and every backoff.                                              *)
(*                                                                         *)
(* ExactlyOnePlace and RetryBudget are inductive only together: that a     *)
(* dead-lettered message used its whole budget needs the budget left while *)
(* it was pending, and that nack makes no second copy needs the message    *)
(* being handled to be still pending (in TypeOK).  RefinesAtLeastOnce then *)
(* matches every action with one of AtLeastOnce or with a stutter.         *)
(***************************************************************************)
EXTENDS WorkQueue, TLAPS

(* The inductive invariant for the two state invariants; a key that was never *)
(* published has no dispatch to its name.                                     *)
IInv ==
    /\ TypeOK
    /\ ExactlyOnePlace
    /\ RetryBudget
    /\ \A k \in Keys \ seen : runs[k] = 0

(* The initial state satisfies the inductive invariant. *)
LEMMA InitIInv == Init => IInv
  <1> SUFFICES ASSUME Init PROVE IInv
    OBVIOUS
  <1>1. TypeOK
    BY DEF Init, TypeOK
  <1>2. ExactlyOnePlace
    BY DEF Init, ExactlyOnePlace
  <1>3. RetryBudget
    BY DEF Init, RetryBudget
  <1>4. QED
    BY <1>1, <1>2, <1>3 DEF Init, IInv

(* What nack does to the message k of a dispatch, as facts about its fields;  *)
(* every later proof about Fail uses only these.                              *)
LEMMA NackEffect ==
  ASSUME TypeOK, NEW k \in pending, NEW t \in Nat, Nack(k, t)
  PROVE  /\ msg' \in [seen -> Message]
         /\ msg'[k].attempts = msg[k].attempts + 1
         /\ msg'[k].maxAttempts = msg[k].maxAttempts
         /\ msg'[k].enqueued = msg[k].enqueued
         /\ \A j \in seen \ {k} : msg'[j] = msg[j]
         /\ \/ /\ msg[k].attempts + 1 >= msg[k].maxAttempts
               /\ pending' = pending \ {k}
               /\ dlq' = [dlq EXCEPT ![k] = @ + 1]
            \/ /\ msg[k].attempts + 1 < msg[k].maxAttempts
               /\ pending' = pending
               /\ dlq' = dlq
  <1>1. k \in seen /\ msg[k] \in Message
    BY DEF TypeOK
  <1>2. msg[k].attempts \in Nat /\ msg[k].maxAttempts \in Nat
    BY <1>1, WorkQueueAssumption DEF Message
  <1>3. CASE /\ msg[k].attempts + 1 >= msg[k].maxAttempts
             /\ msg' = [msg EXCEPT ![k].attempts = msg[k].attempts + 1]
             /\ pending' = pending \ {k}
             /\ dlq' = [dlq EXCEPT ![k] = @ + 1]
    BY <1>1, <1>2, <1>3 DEF TypeOK, Message
  <1>4. ASSUME msg[k].attempts + 1 < msg[k].maxAttempts,
               NEW d \in 0 .. BackoffCap(msg[k].attempts + 1),
               msg' = [msg EXCEPT ![k] = [@ EXCEPT !.attempts = msg[k].attempts + 1,
                                                   !.notBefore = t + d]],
               pending' = pending, dlq' = dlq
        PROVE  /\ msg' \in [seen -> Message]
               /\ msg'[k].attempts = msg[k].attempts + 1
               /\ msg'[k].maxAttempts = msg[k].maxAttempts
               /\ msg'[k].enqueued = msg[k].enqueued
               /\ \A j \in seen \ {k} : msg'[j] = msg[j]
    <2> DEFINE counted == [msg[k] EXCEPT !.attempts = msg[k].attempts + 1]
               new     == [counted EXCEPT !.notBefore = t + d]
    <2>1. t + d \in Nat
      OBVIOUS
    <2>2. /\ counted \in Message
          /\ counted.attempts = msg[k].attempts + 1
          /\ counted.maxAttempts = msg[k].maxAttempts
          /\ counted.enqueued = msg[k].enqueued
      BY <1>1, <1>2 DEF Message
    <2>3. msg' = [msg EXCEPT ![k] = new]
      BY <1>4
    <2> HIDE DEF counted
    <2>4. /\ new \in Message
          /\ new.attempts = msg[k].attempts + 1
          /\ new.maxAttempts = msg[k].maxAttempts
          /\ new.enqueued = msg[k].enqueued
      BY <2>1, <2>2 DEF Message
    <2> HIDE DEF new
    <2>5. QED
      BY <1>1, <2>3, <2>4 DEF TypeOK
  <1>5. QED
    BY <1>3, <1>4 DEF Nack

(* Every step preserves the inductive invariant. *)
LEMMA NextIInv == IInv /\ [Next]_vars => IInv'
  <1> SUFFICES ASSUME IInv, [Next]_vars
               PROVE  IInv'
    OBVIOUS
  <1> USE WorkQueueAssumption
  <1>1. ASSUME NEW k \in Keys, NEW r \in Ranks, NEW h \in BOOLEAN, NEW n \in AttemptLimits,
               Publish(k, r, h, n)
        PROVE  IInv'
    <2>1. TypeOK'
      BY <1>1 DEF IInv, TypeOK, Publish, Message
    <2>2. ExactlyOnePlace'
      BY <1>1 DEF IInv, TypeOK, Publish, ExactlyOnePlace
    <2>3. runs[k] = 0
      BY <1>1 DEF IInv, Publish
    <2>4. /\ dlq[k] # 1 /\ k \notin succeeded
          /\ \A j \in seen : j # k
      BY <1>1 DEF IInv, TypeOK, Publish, ExactlyOnePlace
    <2>5. /\ msg'[k].attempts = 0 /\ msg'[k].maxAttempts = n
          /\ \A j \in seen : msg'[j] = msg[j]
      BY <1>1 DEF Publish
    <2>6. RetryBudget'
      <3> SUFFICES ASSUME NEW j \in seen \cup {k}
                   PROVE  /\ j \in pending' \cup succeeded => msg'[j].attempts < msg'[j].maxAttempts
                          /\ dlq[j] = 1 => msg'[j].attempts = msg'[j].maxAttempts
                          /\ runs[j] = msg'[j].attempts + (IF j \in succeeded THEN 1 ELSE 0)
        BY <1>1 DEF Publish, RetryBudget
      <3>1. CASE j = k
        BY <2>3, <2>4, <2>5, <3>1
      <3>2. CASE j \in seen
        BY <1>1, <2>4, <2>5, <3>2 DEF IInv, Publish, RetryBudget
      <3>3. QED
        BY <3>1, <3>2
    <2>7. QED
      BY <1>1, <2>1, <2>2, <2>6 DEF IInv, Publish
  <1>2. ASSUME NEW k \in Keys, Begin(k)
        PROVE  IInv'
    BY <1>2 DEF IInv, TypeOK, Begin, NextReady, Ready, ExactlyOnePlace, RetryBudget, Message
  <1>3. ASSUME NEW k \in Keys, Succeed(k)
        PROVE  IInv'
    BY <1>3 DEF IInv, TypeOK, Succeed, ExactlyOnePlace, RetryBudget, Message
  <1>4. ASSUME NEW k \in Keys, Fail(k)
        PROVE  IInv'
    <2>1. k \in pending /\ k \in seen /\ startedAt \in Nat /\ Nack(k, startedAt)
      BY <1>4 DEF IInv, TypeOK, Fail
    <2>2. TypeOK'
      BY <1>4, <2>1, NackEffect DEF IInv, TypeOK, Fail
    <2>3. ExactlyOnePlace'
      BY <1>4, <2>1, NackEffect DEF IInv, TypeOK, Fail, ExactlyOnePlace
    <2>4. RetryBudget'
      <3> SUFFICES ASSUME NEW j \in seen
                   PROVE  /\ j \in pending' \cup succeeded => msg'[j].attempts < msg'[j].maxAttempts
                          /\ dlq'[j] = 1 => msg'[j].attempts = msg'[j].maxAttempts
                          /\ runs'[j] = msg'[j].attempts + (IF j \in succeeded THEN 1 ELSE 0)
        BY <1>4 DEF Fail, RetryBudget
      <3>1. /\ msg[k].attempts \in Nat /\ msg[k].maxAttempts \in Nat
            /\ k \notin succeeded /\ dlq[k] # 1
        BY <2>1 DEF IInv, TypeOK, ExactlyOnePlace, Message
      <3>2. CASE j = k
        BY <1>4, <2>1, <3>1, <3>2, NackEffect DEF IInv, TypeOK, Fail, RetryBudget
      <3>3. CASE j # k
        BY <1>4, <2>1, <3>3, NackEffect DEF IInv, TypeOK, Fail, RetryBudget
      <3>4. QED
        BY <3>2, <3>3
    <2>5. QED
      BY <1>4, <2>1, <2>2, <2>3, <2>4 DEF IInv, TypeOK, Fail
  <1>5. CASE Stop
    BY <1>5 DEF IInv, TypeOK, Stop, ExactlyOnePlace, RetryBudget
  <1>6. CASE Tick
    BY <1>6 DEF IInv, TypeOK, Tick, ExactlyOnePlace, RetryBudget
  <1>7. CASE UNCHANGED vars
    BY <1>7 DEF IInv, TypeOK, vars, ExactlyOnePlace, RetryBudget
  <1>8. QED
    BY <1>1, <1>2, <1>3, <1>4, <1>5, <1>6, <1>7 DEF Next

(* The inductive invariant holds in every reachable state. *)
THEOREM IInvHolds == Spec => []IInv
  BY InitIInv, NextIInv, PTL DEF Spec

(* Every variable of the queue keeps its type: in particular the message     *)
(* being handled is always still in _pending.                                *)
THEOREM TypeCorrect == Spec => []TypeOK
  BY IInvHolds, PTL DEF IInv

(* No interleaving of producers, worker, clock and stop signal loses or      *)
(* copies a message.                                                         *)
THEOREM NothingLost == Spec => []ExactlyOnePlace
  BY IInvHolds, PTL DEF IInv

(* max_attempts is exact: never an attempt too few or too many.              *)
THEOREM BudgetExact == Spec => []RetryBudget
  BY IInvHolds, PTL DEF IInv
-----------------------------------------------------------------------------
(* When a dispatch starts, it is Begin that starts it, and the message is     *)
(* the one next_ready returned.                                               *)
LEMMA DispatchIsNextReady ==
  ASSUME IInv, [Next]_vars, NEW k \in Keys, running # k, running' = k
  PROVE  NextReady(k, now)
  <1> USE WorkQueueAssumption
  <1>1. ASSUME NEW i \in Keys, Begin(i) PROVE NextReady(k, now)
    BY <1>1 DEF Begin
  <1>2. ASSUME NEW i \in Keys, Succeed(i) \/ Fail(i) PROVE FALSE
    BY <1>2 DEF Succeed, Fail
  <1>3. ASSUME NEW i \in Keys, NEW r \in Ranks, NEW h \in BOOLEAN, NEW n \in AttemptLimits,
               Publish(i, r, h, n)
        PROVE  FALSE
    BY <1>3 DEF Publish
  <1>4. ~(Stop \/ Tick \/ UNCHANGED vars)
    BY DEF Stop, Tick, vars
  <1>5. QED
    BY <1>1, <1>2, <1>3, <1>4 DEF Next

(* A more urgent message that is due is never left waiting by a dispatch.     *)
THEOREM StrictPriority == Spec => PriorityIsolation
  <1>1. ASSUME IInv, [Next]_vars, NEW k \in Keys, running # k, running' = k,
               NEW j \in pending, msg[j].rank < msg[k].rank
        PROVE  msg[j].notBefore > now
    <2>1. NextReady(k, now)
      BY <1>1, DispatchIsNextReady
    <2>2. /\ k \in pending /\ msg[j] \in Message /\ msg[k] \in Message
          /\ now \in Nat
      BY <1>1, <2>1 DEF IInv, TypeOK, NextReady, Ready
    <2>3. j # k
      <3>1. msg[k].rank \in Nat
        BY <2>2, WorkQueueAssumption DEF Message
      <3>2. QED
        BY <1>1, <3>1
    <2>4. j \notin Ready(now)
      BY <1>1, <2>1, <2>3 DEF NextReady, Precedes
    <2>5. QED
      BY <1>1, <2>2, <2>4 DEF Ready, Message
  <1>2. IInv /\ [Next]_vars =>
          [\A k \in Keys :
             (running # k /\ running' = k) =>
                \A j \in pending : msg[j].rank < msg[k].rank => msg[j].notBefore > now]_vars
    BY <1>1
  <1>3. QED
    BY <1>2, IInvHolds, PTL DEF Spec, PriorityIsolation

(* A message that was acknowledged or dead-lettered never returns.            *)
THEOREM SettledForGood == Spec => NoResurrection
  <1>1. ASSUME IInv, [Next]_vars, NEW j \in seen, j \notin pending
        PROVE  j \in seen' /\ j \notin pending'
    <2>1. ASSUME NEW k \in Keys, NEW r \in Ranks, NEW h \in BOOLEAN, NEW n \in AttemptLimits,
                 Publish(k, r, h, n)
          PROVE  j \in seen' /\ j \notin pending'
      BY <1>1, <2>1 DEF Publish
    <2>2. ASSUME NEW k \in Keys, Begin(k) \/ Succeed(k)
          PROVE  j \in seen' /\ j \notin pending'
      BY <1>1, <2>2 DEF Begin, Succeed
    <2>3. ASSUME NEW k \in Keys, Fail(k)
          PROVE  j \in seen' /\ j \notin pending'
      BY <1>1, <2>3 DEF Fail, Nack
    <2>4. CASE Stop \/ Tick \/ UNCHANGED vars
      BY <1>1, <2>4 DEF Stop, Tick, vars
    <2>5. QED
      BY <1>1, <2>1, <2>2, <2>3, <2>4 DEF Next
  <1>2. IInv /\ [Next]_vars =>
          [\A k \in seen : k \notin pending => (k \in seen' /\ k \notin pending')]_vars
    BY <1>1
  <1>3. QED
    BY <1>2, IInvHolds, PTL DEF Spec, NoResurrection
-----------------------------------------------------------------------------
(* Messages that never failed are due, and are due in publication order.      *)
Fresh(k) == msg[k].attempts = 0

FreshInOrder ==
    /\ \A k \in seen : msg[k].enqueued < published
    /\ \A k \in seen : Fresh(k) => msg[k].notBefore <= now
    /\ \A j, k \in seen :
          (Fresh(j) /\ Fresh(k) /\ msg[j].enqueued < msg[k].enqueued)
             => msg[j].notBefore <= msg[k].notBefore

(* Every step keeps the messages that never failed in order.                  *)
LEMMA NextFreshInOrder == IInv /\ FreshInOrder /\ [Next]_vars => FreshInOrder'
  <1> SUFFICES ASSUME IInv, FreshInOrder, [Next]_vars
               PROVE  FreshInOrder'
    OBVIOUS
  <1> USE WorkQueueAssumption
  <1>0. /\ now \in Nat /\ published \in Nat
        /\ \A j \in seen : /\ msg[j].enqueued \in Nat /\ msg[j].notBefore \in Nat
                           /\ msg[j].attempts \in Nat
    BY DEF IInv, TypeOK, Message
  <1>1. ASSUME NEW k \in Keys, NEW r \in Ranks, NEW h \in BOOLEAN, NEW n \in AttemptLimits,
               Publish(k, r, h, n)
        PROVE  FreshInOrder'
    <2>1. /\ msg'[k].enqueued = published /\ msg'[k].notBefore = now
          /\ \A j \in seen : j # k /\ msg'[j] = msg[j]
          /\ seen' = seen \cup {k} /\ now' = now /\ published' = published + 1
      BY <1>1 DEF Publish
    <2>2. QED
      BY <1>0, <2>1 DEF FreshInOrder, Fresh
  <1>2. ASSUME NEW k \in Keys, Fail(k)
        PROVE  FreshInOrder'
    <2>1. k \in pending /\ k \in seen /\ startedAt \in Nat /\ Nack(k, startedAt)
      BY <1>2 DEF IInv, TypeOK, Fail
    <2>2. /\ msg'[k].attempts = msg[k].attempts + 1
          /\ msg'[k].enqueued = msg[k].enqueued
          /\ \A j \in seen \ {k} : msg'[j] = msg[j]
      BY <2>1, NackEffect DEF IInv
    <2>3. ~Fresh(k)' /\ \A j \in seen \ {k} : Fresh(j)' = Fresh(j)
      BY <1>0, <2>1, <2>2 DEF Fresh
    <2>4. seen' = seen /\ now' = now /\ published' = published
      BY <1>2 DEF Fail
    <2>5. QED
      BY <1>0, <2>1, <2>2, <2>3, <2>4 DEF FreshInOrder
  <1>3. ASSUME NEW k \in Keys, Begin(k) \/ Succeed(k)
        PROVE  FreshInOrder'
    BY <1>3 DEF Begin, Succeed, FreshInOrder, Fresh
  <1>4. CASE Stop \/ Tick \/ UNCHANGED vars
    BY <1>0, <1>4 DEF Stop, Tick, vars, FreshInOrder, Fresh
  <1>5. QED
    BY <1>1, <1>2, <1>3, <1>4 DEF Next

(* Within a priority class, messages that never failed are dispatched in the  *)
(* order they were published, although the sort key puts not_before first.    *)
THEOREM FifoOrder == Spec => FifoWithinClass
  <1>1. ASSUME IInv, FreshInOrder, [Next]_vars, NEW k \in Keys, running # k, running' = k,
               msg[k].attempts = 0,
               NEW j \in pending, msg[j].rank = msg[k].rank, msg[j].attempts = 0
        PROVE  msg[j].enqueued >= msg[k].enqueued
    <2>1. NextReady(k, now)
      BY <1>1, DispatchIsNextReady
    <2>2. /\ k \in seen /\ j \in seen /\ msg[j] \in Message /\ msg[k] \in Message
      BY <1>1, <2>1 DEF IInv, TypeOK, NextReady, Ready
    <2>3. j \in Ready(now)
      BY <1>1, <2>2 DEF FreshInOrder, Fresh, Ready
    <2>4. j = k \/ ~Precedes(msg[j], msg[k])
      BY <2>1, <2>3 DEF NextReady
    <2>5. QED
      BY <1>1, <2>2, <2>4 DEF FreshInOrder, Fresh, Precedes, Message
  <1>2. IInv /\ FreshInOrder /\ [Next]_vars =>
          [\A k \in Keys :
             (running # k /\ running' = k /\ msg[k].attempts = 0) =>
                \A j \in pending :
                   (msg[j].rank = msg[k].rank /\ msg[j].attempts = 0) =>
                      msg[j].enqueued >= msg[k].enqueued]_vars
    BY <1>1
  <1>3. Init => FreshInOrder
    BY DEF Init, FreshInOrder
  <1>4. Spec => []FreshInOrder
    BY <1>3, NextFreshInOrder, IInvHolds, PTL DEF Spec
  <1>5. QED
    BY <1>2, <1>4, IInvHolds, PTL DEF Spec, FifoWithinClass
-----------------------------------------------------------------------------
(* The refinement *)

(* Before anything is published no job is submitted. *)
LEMMA PromiseInit == Init => Promise!Init
  <1> SUFFICES ASSUME Init PROVE Promise!Init
    OBVIOUS
  <1>1. jobLimit = [k \in Keys |-> 0] /\ jobsBuried = {} /\ seen \ pending = {}
    BY DEF Init, jobLimit, jobsBuried
  <1>2. jobTries = [k \in Keys |-> 0]
    BY WorkQueueAssumption DEF Init, jobTries
  <1>3. QED
    BY <1>1, <1>2 DEF Init, Promise!Init

(* publish submits a job. *)
LEMMA PublishSubmits ==
  ASSUME IInv, NEW k \in Keys, NEW r \in Ranks, NEW h \in BOOLEAN, NEW n \in AttemptLimits,
         Publish(k, r, h, n)
  PROVE  Promise!Submit(k, n)
  <1>1. /\ seen' = seen \cup {k} /\ k \notin seen /\ pending' = pending \cup {k}
        /\ msg'[k].maxAttempts = n /\ \A j \in seen : msg'[j] = msg[j]
        /\ UNCHANGED <<dlq, running, runs, succeeded>>
    BY DEF Publish
  <1>2. jobLimit[k] = 0
    BY <1>1 DEF jobLimit
  <1>3. jobLimit' = [jobLimit EXCEPT ![k] = n]
    BY <1>1 DEF jobLimit
  <1>4. jobTries' = jobTries /\ jobsBuried' = jobsBuried
    BY <1>1 DEF jobTries, jobsBuried
  <1>5. (seen \ pending)' = seen \ pending
    BY <1>1 DEF IInv, TypeOK
  <1>6. QED
    BY <1>1, <1>2, <1>3, <1>4, <1>5 DEF Promise!Submit

(* A dispatch is a try of one job, which has one left. *)
LEMMA BeginTries ==
  ASSUME IInv, NEW k \in Keys, Begin(k)
  PROVE  Promise!Try({k})
  <1>1. /\ k \in pending /\ k \in seen /\ running = NoKey /\ running' = k
        /\ UNCHANGED <<seen, pending, dlq, msg, runs, succeeded>>
    BY DEF IInv, TypeOK, Begin, NextReady, Ready
  <1>2. k # NoKey /\ \A j \in Keys : j # NoKey
    BY WorkQueueAssumption
  <1>3. runs[k] < msg[k].maxAttempts
    <2>1. k \notin succeeded
      BY <1>1 DEF IInv, ExactlyOnePlace
    <2>2. msg[k].attempts < msg[k].maxAttempts /\ runs[k] = msg[k].attempts + 0
      BY <1>1, <2>1 DEF IInv, RetryBudget
    <2>3. msg[k].attempts \in Nat
      BY <1>1 DEF IInv, TypeOK, Message
    <2>4. QED
      BY <2>2, <2>3
  <1>4. jobTries[k] < jobLimit[k]
    BY <1>1, <1>2, <1>3 DEF jobTries, jobLimit
  <1>5. jobTries' = [j \in Keys |-> IF j \in {k} THEN jobTries[j] + 1 ELSE jobTries[j]]
    BY <1>1, <1>2 DEF jobTries
  <1>6. jobLimit' = jobLimit /\ jobsBuried' = jobsBuried
    BY <1>1 DEF jobLimit, jobsBuried
  <1>7. QED
    BY <1>1, <1>4, <1>5, <1>6 DEF Promise!Try

(* When a dispatch ends, its try is counted in runs. *)
LEMMA EndKeepsTries ==
  ASSUME IInv, NEW k \in Keys, running = k, running' = NoKey, runs' = [runs EXCEPT ![k] = @ + 1]
  PROVE  jobTries' = jobTries /\ jobTries[k] = runs[k] + 1 /\ runs[k] \in Nat
  BY WorkQueueAssumption DEF jobTries, IInv, TypeOK

(* An ack closes a job that worked. *)
LEMMA SucceedWorks ==
  ASSUME IInv, NEW k \in Keys, Succeed(k)
  PROVE  Promise!Works(k)
  <1>1. /\ pending' = pending \ {k} /\ succeeded' = succeeded \cup {k} /\ k \in seen
        /\ UNCHANGED <<seen, dlq, msg>>
    BY WorkQueueAssumption DEF Succeed, IInv, TypeOK
  <1>2. jobTries' = jobTries /\ jobTries[k] > 0
    <2>1. running = k /\ running' = NoKey /\ runs' = [runs EXCEPT ![k] = @ + 1]
      BY DEF Succeed
    <2>2. jobTries' = jobTries /\ jobTries[k] = runs[k] + 1 /\ runs[k] \in Nat
      BY <2>1, EndKeepsTries
    <2>3. QED
      BY <2>2
  <1>3. (seen \ pending)' = (seen \ pending) \cup {k}
    BY <1>1
  <1>4. jobLimit' = jobLimit /\ jobsBuried' = jobsBuried
    BY <1>1 DEF jobLimit, jobsBuried
  <1>5. QED
    BY <1>1, <1>2, <1>3, <1>4 DEF Promise!Works, Promise!MayClose

(* A nack changes nothing that is promised, or buries a job that has no try  *)
(* left.                                                                     *)
LEMMA FailBuries ==
  ASSUME IInv, NEW k \in Keys, Fail(k)
  PROVE  Promise!Bury(k) \/ UNCHANGED Promise!jobVars
  <1>1. /\ k \in pending /\ k \in seen /\ startedAt \in Nat /\ Nack(k, startedAt)
        /\ UNCHANGED <<seen, succeeded>>
    BY WorkQueueAssumption DEF IInv, TypeOK, Fail
  <1>2. /\ \A j \in seen : msg'[j].maxAttempts = msg[j].maxAttempts
        /\ \/ /\ msg[k].attempts + 1 >= msg[k].maxAttempts
              /\ pending' = pending \ {k} /\ dlq' = [dlq EXCEPT ![k] = @ + 1]
           \/ pending' = pending /\ dlq' = dlq
    BY <1>1, NackEffect DEF IInv
  <1>3. jobLimit' = jobLimit
    BY <1>1, <1>2 DEF jobLimit
  <1>4. jobTries' = jobTries /\ jobTries[k] = runs[k] + 1
    BY EndKeepsTries DEF Fail
  <1>5. CASE pending' = pending /\ dlq' = dlq
    <2>1. jobsBuried' = jobsBuried
      BY <1>5 DEF jobsBuried
    <2>2. QED
      BY <1>1, <1>3, <1>4, <1>5, <2>1 DEF Promise!jobVars
  <1>6. CASE /\ msg[k].attempts + 1 >= msg[k].maxAttempts
             /\ pending' = pending \ {k} /\ dlq' = [dlq EXCEPT ![k] = @ + 1]
    <2>1. k \notin succeeded /\ dlq[k] = 0
      BY <1>1 DEF IInv, TypeOK, ExactlyOnePlace
    <2>2. /\ msg[k].attempts < msg[k].maxAttempts /\ runs[k] = msg[k].attempts + 0
          /\ msg[k].attempts \in Nat /\ msg[k].maxAttempts \in Nat
      BY <1>1, <2>1, WorkQueueAssumption DEF IInv, TypeOK, RetryBudget, Message
    <2>3. jobTries[k] = jobLimit[k] /\ jobLimit[k] > 0
      BY <1>1, <1>4, <1>6, <2>2 DEF jobLimit
    <2>4. k \notin jobsBuried /\ jobsBuried' = jobsBuried \cup {k}
      BY <1>6, <2>1 DEF jobsBuried, IInv, TypeOK
    <2>5. (seen \ pending)' = (seen \ pending) \cup {k}
      BY <1>1, <1>6
    <2>6. QED
      BY <1>1, <1>3, <1>4, <2>3, <2>4, <2>5 DEF Promise!Bury, Promise!MayClose
  <1>7. QED
    BY <1>2, <1>5, <1>6

(* Every step of the queue is a step of the promise or changes nothing of it. *)
LEMMA PromiseStep == IInv /\ [Next]_vars => [Promise!Next]_(Promise!jobVars)
  <1> SUFFICES ASSUME IInv, [Next]_vars
               PROVE  Promise!Next \/ UNCHANGED Promise!jobVars
    OBVIOUS
  <1>1. ASSUME NEW k \in Keys, NEW r \in Ranks, NEW h \in BOOLEAN, NEW n \in AttemptLimits,
               Publish(k, r, h, n)
        PROVE  Promise!Next
    BY <1>1, PublishSubmits DEF Promise!Next
  <1>2. ASSUME NEW k \in Keys, Begin(k) PROVE Promise!Next
    BY <1>2, BeginTries DEF Promise!Next
  <1>3. ASSUME NEW k \in Keys, Succeed(k) PROVE Promise!Next
    BY <1>3, SucceedWorks DEF Promise!Next
  <1>4. ASSUME NEW k \in Keys, Fail(k) PROVE Promise!Next \/ UNCHANGED Promise!jobVars
    BY <1>4, FailBuries DEF Promise!Next
  <1>5. CASE Stop \/ Tick \/ UNCHANGED vars
    BY <1>5 DEF Stop, Tick, vars, Promise!jobVars, jobLimit, jobTries, jobsBuried
  <1>6. QED
    BY <1>1, <1>2, <1>3, <1>4, <1>5 DEF Next

(* The in-process backend implements the work queue abstraction of queue.py:  *)
(* what AtLeastOnce promises a producer holds for every interleaving.         *)
THEOREM RefinesAtLeastOnce == Spec => ImplementsAtLeastOnce
  BY IInvHolds, PromiseInit, PromiseStep, PTL DEF Spec, Promise!Spec, ImplementsAtLeastOnce
=============================================================================
