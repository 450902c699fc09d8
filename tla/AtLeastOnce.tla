---------------------------- MODULE AtLeastOnce ----------------------------
(***************************************************************************)
(* What a work queue promises whoever submits a job, whichever of the two  *)
(* backends of messaging/queue.py it is: the job is tried at most as often *)
(* as its limit says and never again once it is closed; it is closed only  *)
(* when a try worked, when it is buried in the dead-letter queue, or when  *)
(* the queue gave it up on record; and it is buried once at most, when no  *)
(* try is left.  A try that outlives its job may still work.               *)
(***************************************************************************)
EXTENDS Integers

CONSTANTS Jobs, Limits

VARIABLES
    limit,   \* job -> how often it may be tried, 0 before it is submitted
    tries,   \* job -> how often a try of it has begun
    worked,  \* jobs of which a try worked
    buried,  \* jobs in the dead-letter queue
    waived,  \* jobs the queue may give up, or gave up, leaving a log line
    closed   \* jobs the queue is done with

jobVars == <<limit, tries, worked, buried, waived, closed>>

Init ==
    /\ limit = [j \in Jobs |-> 0]
    /\ tries = [j \in Jobs |-> 0]
    /\ worked = {}
    /\ buried = {}
    /\ waived \in SUBSET Jobs
    /\ closed = {}

Submit(j, n) ==
    /\ limit[j] = 0
    /\ limit' = [limit EXCEPT ![j] = n]
    /\ UNCHANGED <<tries, worked, buried, waived, closed>>

(* A try of each of the jobs in batch begins. *)
Try(batch) ==
    /\ batch \cap closed = {}
    /\ \A j \in batch : tries[j] < limit[j]
    /\ tries' = [j \in Jobs |-> IF j \in batch THEN tries[j] + 1 ELSE tries[j]]
    /\ UNCHANGED <<limit, worked, buried, waived, closed>>

MayClose(j) == closed' = closed \/ closed' = closed \cup {j}

Works(j) ==
    /\ tries[j] > 0
    /\ worked' = worked \cup {j}
    /\ MayClose(j)
    /\ UNCHANGED <<limit, tries, buried, waived>>

Bury(j) ==
    /\ limit[j] > 0 /\ tries[j] = limit[j]
    /\ j \notin buried
    /\ buried' = buried \cup {j}
    /\ MayClose(j)
    /\ UNCHANGED <<limit, tries, worked, waived>>

(* The job could not be buried either. *)
GiveUp(j) ==
    /\ limit[j] > 0 /\ tries[j] = limit[j]
    /\ waived' = waived \cup {j}
    /\ UNCHANGED <<limit, tries, worked, buried, closed>>

Close(j) ==
    /\ tries[j] > 0
    /\ j \in worked \cup buried \cup waived
    /\ closed' = closed \cup {j}
    /\ UNCHANGED <<limit, tries, worked, buried, waived>>

Next ==
    \/ \E j \in Jobs, n \in Limits : Submit(j, n)
    \/ \E batch \in SUBSET Jobs : Try(batch)
    \/ \E j \in Jobs : Works(j) \/ Bury(j) \/ GiveUp(j) \/ Close(j)

Spec == Init /\ [][Next]_jobVars
=============================================================================
