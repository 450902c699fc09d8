--------------------------- MODULE BulletinCache ---------------------------
(***************************************************************************)
(* The Redis cache in front of the bulletin and WW3 adapters (cache.py):   *)
(* get_or_fetch by several processes, for one key.                         *)
(*                                                                         *)
(* A document is known by its age, the time since the loader that fetched  *)
(* it was started.  Lifetimes count down with the clock.  Every Redis      *)
(* command may fail (the socket times out after two seconds); a command    *)
(* that failed may have been executed all the same.                        *)
(***************************************************************************)
EXTENDS Integers, FiniteSets

CONSTANTS Callers,      \* processes that want the document
          Nobody,
          Ttl,          \* ttl_s
          LockTtl,      \* lock_ttl_s
          WaitTimeout,  \* wait_timeout_s
          MaxLoad,      \* bound on the time from the call of loader to the SET
          MaxFaults     \* bound on Redis errors and crashes

ASSUME CacheAssumption ==
    /\ Nobody \notin Callers
    /\ IsFiniteSet(Callers) /\ Callers # {}
    /\ Ttl \in Nat \ {0}
    /\ LockTtl \in Nat \ {0}
    /\ WaitTimeout \in Nat
    /\ MaxLoad \in Nat
    /\ MaxFaults \in Nat

VARIABLES
    valueLeft,  \* Redis: remaining lifetime of the value, 0 when there is none
    valueAge,   \* Redis: age of the cached document
    lockLeft,   \* Redis: remaining lifetime of the lock, 0 when it is free
    lockOwner,  \* history: whose SET NX created the lock (its value is just "1")
    pc,         \* caller -> the call it is in
    client,     \* caller -> it has a Redis client
    elected,    \* caller -> _acquire returned True
    age,        \* caller -> age of the document it is loading or has
    left,       \* caller -> time left to its deadline
    faults,
    lost        \* history: locks that expired under their owner

redisVars == <<valueLeft, valueAge, lockLeft, lockOwner>>
vars == <<redisVars, pc, client, elected, age, left, faults, lost>>

OldestAge == Ttl + MaxLoad + 1    \* ages are not told apart beyond this one
MaxLost == Cardinality(Callers) - 1   \* nor are more losses than this

Least(a, b) == IF a < b THEN a ELSE b

Loading == {"load", "set"}

TypeOK ==
    /\ valueLeft \in 0 .. Ttl
    /\ valueAge \in 0 .. OldestAge
    /\ lockLeft \in 0 .. LockTtl
    /\ lockOwner \in Callers \cup {Nobody}
    /\ (lockLeft = 0) <=> (lockOwner = Nobody)
    /\ pc \in [Callers -> Loading \cup {"idle", "get", "acquire", "release", "wait", "poll", "done"}]
    /\ client \in [Callers -> BOOLEAN]
    /\ elected \in [Callers -> BOOLEAN]
    /\ age \in [Callers -> 0 .. OldestAge]
    /\ left \in [Callers -> 0 .. WaitTimeout]
    /\ faults \in 0 .. MaxFaults
    /\ lost \in 0 .. MaxLost

Init ==
    /\ valueLeft = 0
    /\ valueAge = 0
    /\ lockLeft = 0
    /\ lockOwner = Nobody
    /\ pc = [c \in Callers |-> "idle"]
    /\ client = [c \in Callers |-> FALSE]
    /\ elected = [c \in Callers |-> FALSE]
    /\ age = [c \in Callers |-> 0]
    /\ left = [c \in Callers |-> 0]
    /\ faults = 0
    /\ lost = 0
-----------------------------------------------------------------------------
Goto(c, label) == pc' = [pc EXCEPT ![c] = label]
(* The call is over; its locals are gone. *)
Leave(c) ==
    /\ Goto(c, "idle")
    /\ client' = [client EXCEPT ![c] = FALSE]
    /\ elected' = [elected EXCEPT ![c] = FALSE]
    /\ age' = [age EXCEPT ![c] = 0]
    /\ left' = [left EXCEPT ![c] = 0]

Fault == faults < MaxFaults /\ faults' = faults + 1

(* c is between its election and its release. *)
InFlight(c) == client[c] /\ elected[c] /\ pc[c] \in Loading \cup {"release"}

(* Redis commands. *)
RedisSet(a) == valueLeft' = Ttl /\ valueAge' = a /\ UNCHANGED <<lockLeft, lockOwner>>

RedisSetNx(by) == lockLeft' = LockTtl /\ lockOwner' = by /\ UNCHANGED <<valueLeft, valueAge>>
RedisUnlock == lockLeft' = 0 /\ lockOwner' = Nobody /\ UNCHANGED <<valueLeft, valueAge>>

(* Time passes: keys expire, deadlines approach, documents grow older.        *)
Tick ==
    /\ \A c \in Callers : pc[c] \in Loading => age[c] < MaxLoad
    /\ valueLeft' = IF valueLeft > 0 THEN valueLeft - 1 ELSE 0
    /\ valueAge' = IF valueLeft > 1 THEN Least(valueAge + 1, OldestAge) ELSE 0
    /\ lockLeft' = IF lockLeft > 0 THEN lockLeft - 1 ELSE 0
    /\ lockOwner' = IF lockLeft > 1 THEN lockOwner ELSE Nobody
    /\ lost' = IF lockLeft = 1 /\ InFlight(lockOwner) THEN Least(lost + 1, MaxLost) ELSE lost
    /\ age' = [c \in Callers |-> IF pc[c] \in Loading THEN age[c] + 1 ELSE age[c]]
    /\ left' = [c \in Callers |-> IF left[c] > 0 THEN left[c] - 1 ELSE 0]
    /\ UNCHANGED <<pc, client, elected, faults>>
-----------------------------------------------------------------------------
(* build_redis_client and the call: without a URL, or when the ping fails,    *)
(* there is no client for this call.                                          *)
Call(c) ==
    /\ pc[c] = "idle"
    /\ Goto(c, "get")
    /\ \/ client' = [client EXCEPT ![c] = TRUE] /\ UNCHANGED faults
       \/ client' = [client EXCEPT ![c] = FALSE] /\ Fault
    /\ UNCHANGED <<redisVars, elected, age, left, lost>>

(* _get: a hit returns the cached document; without a value, a client or an   *)
(* answer, the caller goes on to `miss`.                                      *)
Get(c, miss) ==
    \/ /\ client[c] /\ valueLeft > 0
       /\ Goto(c, "done")
       /\ age' = [age EXCEPT ![c] = valueAge]
       /\ UNCHANGED faults
    \/ /\ ~client[c] \/ valueLeft = 0
       /\ Goto(c, miss)
       /\ UNCHANGED <<age, faults>>
    \/ /\ client[c] /\ Fault
       /\ Goto(c, miss)
       /\ UNCHANGED age

(* Mutation: a hit also extends the lifetime of the value. *)
MutantFirstGet(c) ==
    /\ pc[c] = "get"
    /\ Get(c, "acquire")
    /\ valueLeft' = IF valueLeft > 0 THEN Ttl ELSE 0
    /\ UNCHANGED <<valueAge, lockLeft, lockOwner, client, elected, left, lost>>

FirstGet(c) ==
    /\ pc[c] = "get"
    /\ Get(c, "acquire")
    /\ UNCHANGED <<redisVars, client, elected, left, lost>>

Elect(c) == elected' = [elected EXCEPT ![c] = TRUE]

(* The caller runs its loader. *)
StartLoad(c) == Goto(c, "load") /\ age' = [age EXCEPT ![c] = 0]

(* _acquire: SET NX; a caller that cannot coordinate elects itself.           *)
Acquire(c) ==
    /\ pc[c] = "acquire"
    /\ \/ /\ ~client[c]
          /\ Elect(c) /\ StartLoad(c)
          /\ UNCHANGED <<redisVars, left, faults>>
       \/ /\ client[c] /\ lockLeft = 0
          /\ RedisSetNx(c)
          /\ Elect(c) /\ StartLoad(c)
          /\ UNCHANGED <<left, faults>>
       \/ /\ client[c] /\ lockLeft > 0
          /\ Goto(c, "wait")
          /\ left' = [left EXCEPT ![c] = WaitTimeout]
          /\ UNCHANGED <<redisVars, elected, age, faults>>
       \/ /\ client[c] /\ Fault
          /\ Elect(c) /\ StartLoad(c)
          /\ \/ UNCHANGED redisVars
             \/ lockLeft = 0 /\ RedisSetNx(c)
          /\ UNCHANGED left
    /\ UNCHANGED <<client, lost>>

LoaderReturns(c) ==
    /\ pc[c] = "load"
    /\ Goto(c, "set")
    /\ UNCHANGED <<redisVars, client, elected, age, left, faults, lost>>

(* The loader raises: the finally clause of the elected caller releases the   *)
(* lock before the exception leaves get_or_fetch.                             *)
LoaderRaises(c) ==
    /\ pc[c] = "load"
    /\ IF elected[c] THEN /\ Goto(c, "release")
                          /\ age' = [age EXCEPT ![c] = 0]
                          /\ UNCHANGED <<client, elected, left>>
                     ELSE Leave(c)
    /\ UNCHANGED <<redisVars, faults, lost>>

(* Mutation: the caller that waited in vain releases the lock too. *)
MutantSet(c) ==
    /\ pc[c] = "set"
    /\ Goto(c, "release")
    /\ IF client[c] THEN RedisSet(age[c]) ELSE UNCHANGED redisVars
    /\ UNCHANGED <<client, elected, age, left, faults, lost>>

(* _set, with the caller's document. *)
Set(c) ==
    /\ pc[c] = "set"
    /\ Goto(c, IF elected[c] THEN "release" ELSE "done")
    /\ \/ /\ IF client[c] THEN RedisSet(age[c]) ELSE UNCHANGED redisVars
          /\ UNCHANGED faults
       \/ client[c] /\ Fault /\ (RedisSet(age[c]) \/ UNCHANGED redisVars)
    /\ UNCHANGED <<client, elected, age, left, lost>>

(* _release: DELETE of the lock key, whoever created it.                      *)
Release(c) ==
    /\ pc[c] = "release"
    /\ Goto(c, "done")
    /\ \/ /\ IF client[c] THEN RedisUnlock ELSE UNCHANGED redisVars
          /\ UNCHANGED faults
       \/ client[c] /\ Fault /\ (RedisUnlock \/ UNCHANGED redisVars)
    /\ UNCHANGED <<client, elected, age, left, lost>>

(* Mutation: the wait loop has no deadline. *)
MutantWait(c) ==
    /\ pc[c] = "wait"
    /\ Goto(c, "poll")
    /\ UNCHANGED <<redisVars, client, elected, age, left, faults, lost>>

(* The wait loop: sleep and poll until the deadline, then load directly.      *)
Wait(c) ==
    /\ pc[c] = "wait"
    /\ IF left[c] > 0 THEN Goto(c, "poll") /\ UNCHANGED age ELSE StartLoad(c)
    /\ UNCHANGED <<redisVars, client, elected, left, faults, lost>>

Poll(c) ==
    /\ pc[c] = "poll"
    /\ Get(c, "wait")
    /\ UNCHANGED <<redisVars, client, elected, left, lost>>

Return(c) ==
    /\ pc[c] = "done"
    /\ Leave(c)
    /\ UNCHANGED <<redisVars, faults, lost>>

(* invalidate, by any process: DELETE of the value key. *)
Invalidate ==
    /\ valueLeft > 0
    /\ valueLeft' = 0
    /\ valueAge' = 0
    /\ UNCHANGED <<lockLeft, lockOwner, pc, client, elected, age, left, faults, lost>>

(* The process dies; its lock, if it has one, stays until it expires.         *)
Crash(c) ==
    /\ pc[c] # "idle"
    /\ Fault
    /\ Leave(c)
    /\ UNCHANGED <<redisVars, lost>>

Step(c) == \/ FirstGet(c) \/ Acquire(c) \/ LoaderReturns(c) \/ LoaderRaises(c)
           \/ Set(c) \/ Release(c) \/ Wait(c) \/ Poll(c) \/ Return(c)

Next == \/ Tick
        \/ Invalidate
        \/ \E c \in Callers : Call(c) \/ Step(c) \/ Crash(c)

Spec == Init /\ [][Next]_vars

(* Time passes, and a call that can go on does: the loaders have socket       *)
(* timeouts.                                                                  *)
FairSpec == Spec /\ WF_vars(Tick) /\ \A c \in Callers : WF_vars(Step(c))
-----------------------------------------------------------------------------
(* Single flight (SET NX in _acquire) is exact as long as Redis answers, no   *)
(* process dies and no lock expires under its owner; each such event lets at  *)
(* most one more elected caller in, although _release deletes whatever lock   *)
(* it finds, the caller's own or not.  Until the first such event a lock is   *)
(* held by a caller that is loading, so waiters wait for somebody.            *)
SingleFlight ==
    /\ Cardinality({c \in Callers : InFlight(c)}) <= 1 + faults + lost
    /\ (lockLeft > 0 /\ faults + lost = 0) => InFlight(lockOwner)

(* "A stale cache entry can therefore only ever delay a fresh bulletin": by   *)
(* at most the lifetime of a value and the duration of a load, whichever      *)
(* loader's SET came last and whoever waited for it.                          *)
BoundedStaleness == \A c \in Callers : pc[c] = "done" => age[c] <= Ttl + MaxLoad

(* "The cache ... can never make it unavailable": every call ends, whatever   *)
(* happens to Redis and to the elected caller.                                *)
CallsEnd == \A c \in Callers : pc[c] # "idle" ~> pc[c] = "idle"
=============================================================================
