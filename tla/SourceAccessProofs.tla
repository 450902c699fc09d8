------------------------- MODULE SourceAccessProofs --------------------------
(***************************************************************************)
(* Proofs about the two ways the program reaches its sources: the cache in *)
(* front of the bulletin and wave model adapters (BulletinCache), for every *)
(* set of callers, every lifetime and every number of faults; and the      *)
(* polls of the adapters themselves (SourcePolls), for any grid, radius    *)
(* and sea, any documents, any page size and any jobs.  The two share no   *)
(* variable.                                                               *)
(*                                                                         *)
(* Single flight is not inductive: how many elected callers there are says *)
(* nothing about who owns the lock.  The argument counts the elected       *)
(* callers that do not own it (Unowned): a SET NX adds none, a failed call *)
(* or an expiry adds one and is counted, and a release that deletes        *)
(* another caller's lock takes one away, itself, and adds one, the owner.  *)
(*                                                                         *)
(* The invariants of the polls speak of the end of a poll, or of a point;  *)
(* what is inductive is what a poll in flight keeps true until then:       *)
(* whatever it has lost it has reported, every probe of the radius is      *)
(* left, lost or in the samples, and the pages read so far are the listing *)
(* up to start.  Nearly every step of every adapter falls into one of a    *)
(* few classes (it goes on, raises or delivers), and each class keeps the  *)
(* invariant.                                                              *)
(***************************************************************************)
EXTENDS BulletinCache, SourcePolls, FiniteSetTheorems, WellFoundedInduction, TLAPS

-----------------------------------------------------------------------------
(* The cache *)

(* Who may be elected: from _acquire until get_or_fetch returns, and only the *)
(* elected caller reaches _release.                                           *)
ElectedInv ==
    \A c \in Callers :
        /\ elected[c] => pc[c] \in Loading \cup {"release", "done"}
        /\ pc[c] = "release" => elected[c]

(* The age of a document and the lifetime its value has left add up.          *)
AgeInv ==
    /\ valueLeft > 0 => valueAge + valueLeft <= Ttl + MaxLoad
    /\ \A c \in Callers :
          /\ pc[c] \in Loading => age[c] <= MaxLoad
          /\ pc[c] \in {"release", "done"} => age[c] <= Ttl + MaxLoad

(* The elected callers whose lock, if they ever had it, is gone.              *)
Unowned == {c \in Callers : InFlight(c) /\ c # lockOwner}

(* Every one of them is paid for by a fault or a lost lock (the count of      *)
(* losses is exact below its cap).                                            *)
UnownedInv == lost = MaxLost \/ Cardinality(Unowned) <= faults + lost

(* Before the first fault and the first loss, a lock has a loading owner.     *)
OwnerInv == (lockLeft > 0 /\ faults + lost = 0) => InFlight(lockOwner)

IInv == TypeOK /\ ElectedInv /\ AgeInv /\ UnownedInv /\ OwnerInv

(* The cap on the losses is a number. *)
LEMMA MaxLostType == MaxLost \in Nat /\ Cardinality(Callers) = MaxLost + 1
  <1>1. Cardinality(Callers) \in Nat
    BY CacheAssumption, FS_CardinalityType
  <1>2. Cardinality(Callers) # 0
    BY CacheAssumption, FS_EmptySet
  <1>3. QED
    BY <1>1, <1>2 DEF MaxLost

(* The initial state satisfies the inductive invariant. *)
LEMMA InitIInv == Init => IInv
  <1> SUFFICES ASSUME Init PROVE IInv
    OBVIOUS
  <1> USE CacheAssumption, MaxLostType
  <1>1. TypeOK
    BY DEF Init, TypeOK, OldestAge, Loading
  <1>2. ElectedInv /\ AgeInv
    BY DEF Init, ElectedInv, AgeInv, Loading
  <1>3. Unowned = {}
    BY DEF Init, Unowned, InFlight, Loading
  <1>4. UnownedInv /\ OwnerInv
    BY <1>3, FS_EmptySet DEF Init, UnownedInv, OwnerInv
  <1>5. QED
    BY <1>1, <1>2, <1>4 DEF IInv

(* Types are preserved by every step: the bound on the duration of a load     *)
(* keeps the ages of loading callers in range.                                *)
LEMMA NextTypeOK == TypeOK /\ [Next]_vars => TypeOK'
  <1> SUFFICES ASSUME TypeOK, [Next]_vars PROVE TypeOK'
    OBVIOUS
  <1> USE CacheAssumption, MaxLostType DEF TypeOK, Loading, OldestAge
  <1>1. CASE Tick
    BY <1>1 DEF Tick, Least
  <1>2. CASE Invalidate
    BY <1>2 DEF Invalidate
  <1>3. ASSUME NEW c \in Callers, Call(c) PROVE TypeOK'
    <2>1. client' \in [Callers -> BOOLEAN]
      BY <1>3 DEF Call
    <2>2. faults' \in 0 .. MaxFaults
      BY <1>3 DEF Call, Fault
    <2>3. QED
      BY <1>3, <2>1, <2>2 DEF Call, Goto, redisVars
  <1>4. ASSUME NEW c \in Callers, FirstGet(c) PROVE TypeOK'
    BY <1>4 DEF FirstGet, Get, Goto, Fault, redisVars
  <1>5. ASSUME NEW c \in Callers, Acquire(c) PROVE TypeOK'
    <2>1. elected' \in [Callers -> BOOLEAN]
      BY <1>5 DEF Acquire, Elect
    <2>2. /\ faults' \in 0 .. MaxFaults
          /\ pc' = [pc EXCEPT ![c] = "load"] \/ pc' = [pc EXCEPT ![c] = "wait"]
          /\ age' = [age EXCEPT ![c] = 0] \/ age' = age
          /\ left' = [left EXCEPT ![c] = WaitTimeout] \/ left' = left
          /\ (lockLeft' = LockTtl /\ lockOwner' = c) \/ UNCHANGED <<lockLeft, lockOwner>>
          /\ UNCHANGED <<client, lost, valueLeft, valueAge>>
      BY <1>5 DEF Acquire, StartLoad, RedisSetNx, Goto, Fault, redisVars
    <2>3. QED
      BY <2>1, <2>2
  <1>6. ASSUME NEW c \in Callers, LoaderReturns(c) PROVE TypeOK'
    BY <1>6 DEF LoaderReturns, Goto, redisVars
  <1>7. ASSUME NEW c \in Callers, LoaderRaises(c) PROVE TypeOK'
    <2>1. client' \in [Callers -> BOOLEAN] /\ elected' \in [Callers -> BOOLEAN]
      BY <1>7 DEF LoaderRaises, Leave
    <2>2. QED
      BY <1>7, <2>1 DEF LoaderRaises, Leave, Goto, redisVars
  <1>8. ASSUME NEW c \in Callers, Set(c) PROVE TypeOK'
    BY <1>8 DEF Set, RedisSet, Goto, Fault, redisVars
  <1>9. ASSUME NEW c \in Callers, Release(c) PROVE TypeOK'
    BY <1>9 DEF Release, RedisUnlock, Goto, Fault, redisVars
  <1>10. ASSUME NEW c \in Callers, Wait(c) PROVE TypeOK'
    BY <1>10 DEF Wait, StartLoad, Goto, redisVars
  <1>11. ASSUME NEW c \in Callers, Poll(c) PROVE TypeOK'
    BY <1>11 DEF Poll, Get, Goto, Fault, redisVars
  <1>12. ASSUME NEW c \in Callers, Return(c) PROVE TypeOK'
    BY <1>12 DEF Return, Leave, Goto, redisVars
  <1>13. ASSUME NEW c \in Callers, Crash(c) PROVE TypeOK'
    BY <1>13 DEF Crash, Leave, Goto, Fault, redisVars
  <1>14. CASE UNCHANGED vars
    BY <1>14 DEF vars, redisVars
  <1>15. QED
    BY <1>1, <1>2, <1>3, <1>4, <1>5, <1>6, <1>7, <1>8, <1>9, <1>10, <1>11, <1>12, <1>13, <1>14
       DEF Next, Step

(* Only the elected caller releases, whichever way its call goes. *)
LEMMA NextElected == TypeOK /\ ElectedInv /\ [Next]_vars => ElectedInv'
  <1> SUFFICES ASSUME TypeOK, ElectedInv, [Next]_vars PROVE ElectedInv'
    OBVIOUS
  <1> USE DEF TypeOK, ElectedInv, Loading, Goto
  <1>1. CASE Tick \/ Invalidate \/ UNCHANGED vars
    BY <1>1 DEF Tick, Invalidate, vars
  <1>2. ASSUME NEW c \in Callers, Call(c) \/ FirstGet(c) \/ LoaderReturns(c) \/ Poll(c) \/ Wait(c)
        PROVE  ElectedInv'
    BY <1>2 DEF Call, FirstGet, LoaderReturns, Poll, Wait, Get, StartLoad
  <1>3. ASSUME NEW c \in Callers, Acquire(c) PROVE ElectedInv'
    BY <1>3 DEF Acquire, Elect, StartLoad
  <1>4. ASSUME NEW c \in Callers, Set(c) \/ Release(c) PROVE ElectedInv'
    BY <1>4 DEF Set, Release
  <1>5. ASSUME NEW c \in Callers, LoaderRaises(c) \/ Return(c) \/ Crash(c) PROVE ElectedInv'
    BY <1>5 DEF LoaderRaises, Return, Crash, Leave
  <1>6. QED
    BY <1>1, <1>2, <1>3, <1>4, <1>5 DEF Next, Step

(* Ages: a SET stores a document no older than a load lasts, with a full      *)
(* lifetime; a hit takes the age the value has reached.                       *)
LEMMA NextAge == TypeOK /\ AgeInv /\ [Next]_vars => AgeInv'
  <1> SUFFICES ASSUME TypeOK, AgeInv, [Next]_vars PROVE AgeInv'
    OBVIOUS
  <1> USE CacheAssumption DEF TypeOK, AgeInv, Loading, OldestAge, Goto
  <1>1. CASE Tick
    BY <1>1 DEF Tick, Least
  <1>2. CASE Invalidate \/ UNCHANGED vars
    BY <1>2 DEF Invalidate, vars, redisVars
  <1>3. ASSUME NEW c \in Callers, FirstGet(c) \/ Poll(c) PROVE AgeInv'
    BY <1>3 DEF FirstGet, Poll, Get, redisVars
  <1>4. ASSUME NEW c \in Callers, Call(c) \/ LoaderReturns(c) \/ Wait(c) PROVE AgeInv'
    BY <1>4 DEF Call, LoaderReturns, Wait, StartLoad, redisVars
  <1>5. ASSUME NEW c \in Callers, Acquire(c) PROVE AgeInv'
    BY <1>5 DEF Acquire, StartLoad, RedisSetNx, redisVars
  <1>6. ASSUME NEW c \in Callers, Set(c) PROVE AgeInv'
    BY <1>6 DEF Set, RedisSet, redisVars
  <1>7. ASSUME NEW c \in Callers, Release(c) PROVE AgeInv'
    BY <1>7 DEF Release, RedisUnlock, redisVars
  <1>8. ASSUME NEW c \in Callers, LoaderRaises(c) \/ Return(c) \/ Crash(c) PROVE AgeInv'
    BY <1>8 DEF LoaderRaises, Return, Crash, Leave, redisVars
  <1>9. QED
    BY <1>1, <1>2, <1>3, <1>4, <1>5, <1>6, <1>7, <1>8 DEF Next, Step

(* A lock has a loading owner until the first fault or loss: a release leaves *)
(* no lock, whoever's it was, and the owner stays elected until its release.  *)
LEMMA NextOwner == IInv /\ [Next]_vars => OwnerInv'
  <1> SUFFICES ASSUME IInv, [Next]_vars, lockLeft' > 0, faults' + lost' = 0
               PROVE  InFlight(lockOwner)'
    BY DEF OwnerInv
  <1> USE CacheAssumption, MaxLostType DEF TypeOK, Loading, Goto, InFlight
  <1>1. TypeOK /\ ElectedInv /\ OwnerInv
    BY DEF IInv
  <1>2. CASE Tick
    BY <1>1, <1>2 DEF Tick, OwnerInv, Least
  <1>3. CASE Invalidate \/ UNCHANGED vars
    BY <1>1, <1>3 DEF Invalidate, vars, redisVars, OwnerInv
  <1>4. ASSUME NEW c \in Callers, FirstGet(c) \/ Poll(c) \/ Call(c) \/ LoaderReturns(c) \/ Wait(c)
        PROVE  InFlight(lockOwner)'
    BY <1>1, <1>4 DEF FirstGet, Poll, Get, Call, LoaderReturns, Wait, StartLoad, Fault, redisVars,
                      OwnerInv, ElectedInv
  <1>5. ASSUME NEW c \in Callers, Acquire(c) PROVE InFlight(lockOwner)'
    BY <1>1, <1>5 DEF Acquire, Elect, StartLoad, RedisSetNx, Fault, redisVars, OwnerInv
  <1>6. ASSUME NEW c \in Callers, Set(c) PROVE InFlight(lockOwner)'
    BY <1>1, <1>6 DEF Set, RedisSet, Fault, redisVars, OwnerInv
  <1>7. ASSUME NEW c \in Callers, Release(c) PROVE InFlight(lockOwner)'
    BY <1>1, <1>7 DEF Release, RedisUnlock, Fault, redisVars, OwnerInv
  <1>8. ASSUME NEW c \in Callers, LoaderRaises(c) \/ Return(c) \/ Crash(c)
        PROVE InFlight(lockOwner)'
    BY <1>1, <1>8 DEF LoaderRaises, Return, Crash, Leave, Fault, redisVars, OwnerInv
  <1>9. QED
    BY <1>2, <1>3, <1>4, <1>5, <1>6, <1>7, <1>8 DEF Next, Step

(* The callers that may be counted are finitely many. *)
LEMMA UnownedFinite ==
    ASSUME NEW S \in SUBSET Callers
    PROVE  IsFiniteSet(S) /\ Cardinality(S) \in Nat /\ Cardinality(S) <= MaxLost + 1
  BY CacheAssumption, MaxLostType, FS_Subset, FS_CardinalityType

(* Fewer of them count less, *)
LEMMA NoMore ==
    ASSUME NEW S \in SUBSET Callers, NEW T \in SUBSET S
    PROVE  Cardinality(T) <= Cardinality(S)
  BY UnownedFinite, FS_Subset

(* another one counts at most one, *)
LEMMA OneMore ==
    ASSUME NEW S \in SUBSET Callers, NEW o \in Callers, NEW T \in SUBSET (S \cup {o})
    PROVE  Cardinality(T) <= Cardinality(S) + 1
  <1>1. IsFiniteSet(S) /\ Cardinality(S) \in Nat
    BY UnownedFinite
  <1>2. IsFiniteSet(S \cup {o}) /\ Cardinality(S \cup {o}) <= Cardinality(S) + 1
    BY <1>1, FS_AddElement
  <1>3. Cardinality(T) <= Cardinality(S \cup {o}) /\ Cardinality(T) \in Nat
    BY <1>2, FS_Subset, FS_CardinalityType
  <1>4. Cardinality(S \cup {o}) \in Nat
    BY <1>2, FS_CardinalityType
  <1>5. QED
    BY <1>1, <1>2, <1>3, <1>4

(* and one for another changes nothing. *)
LEMMA Swap ==
    ASSUME NEW S \in SUBSET Callers, NEW c \in S, NEW o \in Callers,
           NEW T \in SUBSET ((S \ {c}) \cup {o})
    PROVE  Cardinality(T) <= Cardinality(S)
  <1>1. IsFiniteSet(S) /\ Cardinality(S) \in Nat
    BY UnownedFinite
  <1>2. Cardinality(S \ {c}) = Cardinality(S) - 1
    BY <1>1, FS_RemoveElement
  <1>3. Cardinality(T) <= Cardinality(S \ {c}) + 1
    BY OneMore
  <1>4. Cardinality(T) \in Nat /\ Cardinality(S \ {c}) \in Nat
    BY UnownedFinite
  <1>5. QED
    BY <1>1, <1>2, <1>3, <1>4

(* How a step can change the number of elected callers without a lock. *)
LEMMA NextUnowned == IInv /\ [Next]_vars => UnownedInv'
  <1> SUFFICES ASSUME IInv, [Next]_vars, lost' # MaxLost
               PROVE  Cardinality(Unowned)' <= faults' + lost'
    BY DEF UnownedInv
  <1> DEFINE n == Cardinality(Unowned)
  <1>1. TypeOK /\ ElectedInv /\ UnownedInv /\ TypeOK'
    BY NextTypeOK DEF IInv
  <1>2. /\ Unowned \in SUBSET Callers /\ Unowned' \in SUBSET Callers
        /\ n \in Nat /\ n' \in Nat
        /\ faults \in Nat /\ lost \in Nat /\ faults' \in Nat /\ lost' \in Nat
    BY <1>1, UnownedFinite, CacheAssumption, MaxLostType DEF Unowned, TypeOK
  \* the count of losses never goes down, and stays at its cap
  <1>3. lost # MaxLost => n <= faults + lost
    BY <1>1 DEF UnownedInv
  <1> USE DEF Loading, Goto, InFlight
  <1>4. CASE Tick
    <2>1. faults' = faults /\ pc' = pc /\ client' = client /\ elected' = elected
      BY <1>4 DEF Tick
    <2>2. CASE lockLeft = 1 /\ InFlight(lockOwner)
      <3>1. lockOwner \in Callers
        BY <1>1, <2>2 DEF TypeOK
      <3>2. Unowned' \subseteq Unowned \cup {lockOwner}
        BY <2>1 DEF Unowned
      <3>3. n' <= n + 1
        BY <1>2, <3>1, <3>2, OneMore
      <3>4. lost' = Least(lost + 1, MaxLost)
        BY <1>4, <2>2 DEF Tick
      <3>5. lost # MaxLost /\ lost' = lost + 1
        BY <1>1, <1>2, <3>4, MaxLostType DEF TypeOK, Least
      <3>6. QED
        BY <1>2, <1>3, <2>1, <3>3, <3>5
    <2>3. CASE ~(lockLeft = 1 /\ InFlight(lockOwner))
      <3>1. lost' = lost
        BY <1>4, <2>3 DEF Tick
      <3>2. Unowned' \subseteq Unowned
        BY <1>1, <1>4, <2>1, <2>3, CacheAssumption DEF Tick, TypeOK, Unowned
      <3>3. n' <= n
        BY <1>2, <3>2, NoMore
      <3>4. QED
        BY <1>2, <1>3, <2>1, <3>1, <3>3
    <2>4. QED
      BY <2>2, <2>3
  \* every other step leaves the losses alone
  <1>5. ASSUME lost' = lost, faults' \in {faults, faults + 1}, Unowned' \subseteq Unowned
        PROVE  n' <= faults' + lost'
    <2>1. n' <= n
      BY <1>2, <1>5, NoMore
    <2>2. QED
      BY <1>2, <1>3, <1>5, <2>1
  <1>6. ASSUME lost' = lost, faults' = faults + 1, NEW c \in Callers,
               Unowned' \subseteq Unowned \cup {c}
        PROVE  n' <= faults' + lost'
    <2>1. n' <= n + 1
      BY <1>2, <1>6, OneMore
    <2>2. QED
      BY <1>2, <1>3, <1>6, <2>1
  <1>7. CASE Invalidate \/ UNCHANGED vars
    <2>1. lost' = lost /\ faults' = faults /\ Unowned' = Unowned
      BY <1>7 DEF Invalidate, vars, redisVars, Unowned
    <2>2. QED
      BY <1>5, <2>1
  <1>8. ASSUME NEW c \in Callers, FirstGet(c) \/ Poll(c) \/ Call(c) \/ LoaderReturns(c) \/ Wait(c)
        PROVE  n' <= faults' + lost'
    <2>1. lost' = lost /\ faults' \in {faults, faults + 1}
      BY <1>8 DEF FirstGet, Poll, Get, Call, LoaderReturns, Wait, Fault
    <2>2. Unowned' \subseteq Unowned
      BY <1>1, <1>8 DEF FirstGet, Poll, Get, Call, LoaderReturns, Wait, StartLoad, redisVars,
                        TypeOK, ElectedInv, Unowned
    <2>3. QED
      BY <1>5, <2>1, <2>2
  <1>9. ASSUME NEW c \in Callers, Acquire(c) PROVE n' <= faults' + lost'
    <2>1. /\ lost' = lost /\ client' = client
          /\ \A b \in Callers \ {c} : pc'[b] = pc[b] /\ elected'[b] = elected[b]
      BY <1>1, <1>9 DEF Acquire, Elect, StartLoad, TypeOK
    <2>2. lockOwner' = lockOwner \/ (lockOwner = Nobody /\ lockOwner' = c)
      <3>1. lockOwner' = lockOwner \/ (lockLeft = 0 /\ lockOwner' = c)
        BY <1>9 DEF Acquire, RedisSetNx, redisVars
      <3>2. QED
        BY <1>1, <3>1 DEF TypeOK
    <2>3. Unowned' \subseteq Unowned \cup {c}
      BY <2>1, <2>2, CacheAssumption DEF Unowned
    <2>4. CASE faults' = faults + 1
      BY <1>6, <2>1, <2>3, <2>4
    <2>5. CASE faults' # faults + 1
      <3>1. faults' = faults
        BY <1>9, <2>5 DEF Acquire, Fault
      <3>2. ~client[c] \/ lockOwner' = c \/ pc'[c] = "wait"
        BY <1>1, <1>9, <2>5 DEF Acquire, RedisSetNx, Fault, TypeOK
      <3>3. c \notin Unowned'
        BY <2>1, <3>2 DEF Unowned
      <3>4. QED
        BY <1>5, <2>1, <2>3, <3>1, <3>3
    <2>6. QED
      BY <2>4, <2>5
  <1>10. ASSUME NEW c \in Callers, Set(c) PROVE n' <= faults' + lost'
    <2>1. lost' = lost /\ faults' \in {faults, faults + 1}
      BY <1>10 DEF Set, Fault
    <2>2. Unowned' \subseteq Unowned
      BY <1>1, <1>10 DEF Set, RedisSet, redisVars, TypeOK, Unowned
    <2>3. QED
      BY <1>5, <2>1, <2>2
  <1>11. ASSUME NEW c \in Callers, Release(c) PROVE n' <= faults' + lost'
    <2>1. lost' = lost /\ faults' \in {faults, faults + 1}
      BY <1>11 DEF Release, Fault
    <2>2. CASE Unowned' \subseteq Unowned
      BY <1>5, <2>1, <2>2
    \* the lock deleted was another caller's: one leaves Unowned, one joins
    <2>3. CASE ~(Unowned' \subseteq Unowned)
      <3>1. /\ lockOwner \in Callers /\ lockOwner # c /\ client[c]
            /\ Unowned' \subseteq (Unowned \ {c}) \cup {lockOwner}
        BY <1>1, <1>11, <2>3 DEF Release, RedisUnlock, redisVars, TypeOK, Unowned
      <3>2. c \in Unowned
        BY <1>1, <1>11, <3>1 DEF Release, ElectedInv, Unowned
      <3>3. n' <= n
        BY <1>2, <3>1, <3>2, Swap
      <3>4. QED
        BY <1>2, <1>3, <2>1, <3>3
    <2>4. QED
      BY <2>2, <2>3
  <1>12. ASSUME NEW c \in Callers, LoaderRaises(c) \/ Return(c) \/ Crash(c)
         PROVE  n' <= faults' + lost'
    <2>1. lost' = lost /\ faults' \in {faults, faults + 1}
      BY <1>12 DEF LoaderRaises, Return, Crash, Fault
    <2>2. Unowned' \subseteq Unowned
      BY <1>1, <1>12 DEF LoaderRaises, Return, Crash, Leave, redisVars, TypeOK, Unowned
    <2>3. QED
      BY <1>5, <2>1, <2>2
  <1>13. QED
    BY <1>4, <1>7, <1>8, <1>9, <1>10, <1>11, <1>12 DEF Next, Step

(* The inductive invariant holds in every reachable state. *)
LEMMA InvariantHolds == Spec => []IInv
  <1>1. IInv /\ [Next]_vars => IInv'
    <2> SUFFICES ASSUME IInv, [Next]_vars PROVE IInv'
      OBVIOUS
    <2>1. TypeOK' /\ ElectedInv' /\ AgeInv'
      BY NextTypeOK, NextElected, NextAge DEF IInv
    <2>2. UnownedInv' /\ OwnerInv'
      BY NextUnowned, NextOwner
    <2>3. QED
      BY <2>1, <2>2 DEF IInv
  <1>2. QED
    BY InitIInv, <1>1, PTL DEF Spec
-----------------------------------------------------------------------------
(* Every variable of the cache and of its callers keeps its type, whatever    *)
(* the order of calls, expiries, errors and crashes.                          *)
THEOREM TypeCorrect == Spec => []TypeOK
  <1>1. IInv => TypeOK
    BY DEF IInv
  <1>2. QED
    BY InvariantHolds, <1>1, PTL

(* get_or_fetch elects at most one caller, plus one for every Redis error,    *)
(* crash or lock that expired under its owner.                                *)
THEOREM SingleFlightHolds == Spec => []SingleFlight
  <1>1. IInv => SingleFlight
    <2> SUFFICES ASSUME IInv PROVE SingleFlight
      OBVIOUS
    <2> DEFINE F == {c \in Callers : InFlight(c)}
    <2>1. F \in SUBSET Callers /\ Unowned \in SUBSET Callers
      BY DEF Unowned
    <2>2. Cardinality(F) \in Nat /\ Cardinality(Unowned) \in Nat /\ faults \in Nat /\ lost \in Nat
      BY <2>1, UnownedFinite, CacheAssumption, MaxLostType DEF IInv, TypeOK
    <2>3. Cardinality(F) <= Cardinality(Unowned) + 1
      <3>1. CASE lockOwner \in Callers
        <4>1. F \in SUBSET (Unowned \cup {lockOwner})
          BY DEF Unowned
        <4>2. QED
          BY <2>1, <3>1, <4>1, OneMore
      <3>2. CASE lockOwner \notin Callers
        <4>1. F \in SUBSET Unowned
          BY <3>2 DEF Unowned
        <4>2. QED
          BY <2>1, <2>2, <4>1, NoMore
      <3>3. QED
        BY <3>1, <3>2
    <2>4. Cardinality(F) <= MaxLost + 1
      BY <2>1, UnownedFinite
    <2>5. Cardinality(F) <= 1 + faults + lost
      BY <2>2, <2>3, <2>4, MaxLostType DEF IInv, UnownedInv
    <2>6. QED
      BY <2>5 DEF IInv, OwnerInv, SingleFlight
  <1>2. QED
    BY InvariantHolds, <1>1, PTL

(* No caller is ever given a document older than a lifetime and a load.       *)
THEOREM StalenessBounded == Spec => []BoundedStaleness
  <1>1. IInv => BoundedStaleness
    BY DEF IInv, AgeInv, BoundedStaleness
  <1>2. QED
    BY InvariantHolds, <1>1, PTL

-----------------------------------------------------------------------------
(* The polls: what is inductive *)

Fields == {"stage", "ds", "config", "left", "errors", "lost", "records"}

(* A poll in flight reports whatever it loses.                                *)
PartsInv ==
    poll # Idle => Fields \subseteq DOMAIN poll /\ poll.lost \subseteq poll.errors

(* Around a point: the samples are what the sea holds at wet nodes in the     *)
(* radius, and a probe is still to be sent, was lost, or gave its samples.    *)
Samples == {s \in [time : Times, node : Probes, values : Cells] :
               Wet(s.values) /\ NodeDist[s.node] <= SearchRadius}
ProbeInv ==
    poll.stage = "probe" =>
        /\ {"at", "point"} \subseteq DOMAIN poll
        /\ DOMAIN poll.point = {"left", "samples", "masked", "sea"}
        /\ poll.point.sea \in Seas
        /\ poll.point.left \subseteq InRadius
        /\ poll.point.samples \subseteq Samples
        /\ \A s \in poll.point.samples : s.values = poll.point.sea[s.node][s.time]
        /\ \A p \in InRadius : \/ p \in poll.point.left
                               \/ <<poll.at, p>> \in poll.lost
                               \/ WetSamples(p) \subseteq poll.point.samples

(* A search has gathered what the pages before this one hold.                 *)
PageInv ==
    poll.stage = "page" =>
        /\ {"listing", "announced", "start", "pages"} \subseteq DOMAIN poll
        /\ poll.listing \in SearchListings
        /\ poll.pages \in 0 .. MaxPages - 1
        /\ poll.start = poll.pages * PageSize
        /\ poll.records = {i \in DOMAIN poll.listing : i <= poll.start /\ poll.listing[i]}

(* Where a token is fetched, the request that needs it comes next.            *)
TokenInv ==
    poll.stage = "gettoken" =>
        "then" \in DOMAIN poll /\ poll.then \in {"check", "download"}

(* Before the first request there are no records.                             *)
GateInv == poll.stage = "gate" => poll.records = {}

OutcomeInv == HealthyMeansComplete /\ OnlyOperatorStatesAreDropped

PollInv == PartsInv /\ ProbeInv /\ PageInv /\ TokenInv /\ GateInv /\ OutcomeInv

(* The stages with an obligation of their own. *)
Special == {"probe", "page", "gettoken", "gate"}

-----------------------------------------------------------------------------
(* Classes of steps *)

(* A step that only moves the poll on, to a stage without obligations of its  *)
(* own, reporting whatever it loses.                                          *)
LEMMA ContinueKeeps ==
    ASSUME PollInv, poll # Idle, NEW fields, Continue(fields),
           With(fields).lost \subseteq With(fields).errors,
           With(fields).stage \notin Special
    PROVE  PollInv'
<1>1. poll' = With(fields) /\ outcome' = outcome
  BY DEF Continue
<1>2. DOMAIN poll \subseteq DOMAIN poll'
  BY <1>1 DEF With
<1>3. PartsInv'
  BY <1>1, <1>2 DEF PollInv, PartsInv
<1>4. ProbeInv' /\ PageInv' /\ TokenInv' /\ GateInv'
  BY <1>1 DEF ProbeInv, PageInv, TokenInv, GateInv, Special
<1>5. OutcomeInv'
  BY <1>1 DEF PollInv, OutcomeInv, HealthyMeansComplete, OnlyOperatorStatesAreDropped
<1> QED
  BY <1>3, <1>4, <1>5 DEF PollInv

(* An exception ends the poll; what is not worth a retry is known at the gate. *)
LEMMA RaiseKeeps ==
    ASSUME NEW kind \in Errors, Raise(kind), kind \in NonRetryable => poll.stage = "gate"
    PROVE  PollInv'
<1>1. poll' = Idle
  BY DEF Raise
<1>2. PartsInv' /\ ProbeInv' /\ PageInv' /\ TokenInv' /\ GateInv'
  BY <1>1 DEF PartsInv, ProbeInv, PageInv, TokenInv, GateInv, Idle
<1>3. /\ outcome'.state = kind
      /\ outcome'.asked <=> poll.stage # "gate"
      /\ outcome'.settled = IF kind \in NonRetryable THEN "acked" ELSE "retry"
  BY DEF Raise
<1>4. HealthyMeansComplete'
  BY <1>3 DEF HealthyMeansComplete, Errors, NonRetryable
<1>5. OnlyOperatorStatesAreDropped'
  BY <1>3 DEF OnlyOperatorStatesAreDropped
<1> QED
  BY <1>2, <1>4, <1>5 DEF PollInv, OutcomeInv

(* A result ends the poll; a healthy one has lost nothing.                    *)
LEMMA ReturnKeeps ==
    ASSUME NEW state \in {"success", "empty", "degraded"}, NEW records, NEW parts,
           Deliver(state, records, parts), state # "degraded" => parts = {}
    PROVE  PollInv'
<1>1. poll' = Idle
  BY DEF Deliver
<1>2. PartsInv' /\ ProbeInv' /\ PageInv' /\ TokenInv' /\ GateInv'
  BY <1>1 DEF PartsInv, ProbeInv, PageInv, TokenInv, GateInv, Idle
<1>3. outcome'.state = state /\ outcome'.lost = parts
  BY DEF Deliver
<1>4. HealthyMeansComplete' /\ OnlyOperatorStatesAreDropped'
  BY <1>3 DEF HealthyMeansComplete, OnlyOperatorStatesAreDropped, Errors, NonRetryable
<1> QED
  BY <1>2, <1>4 DEF PollInv, OutcomeInv

(* The shared rule calls a poll degraded as soon as one diagnostic is there.  *)
LEMMA ResultStateMeaning ==
    ASSUME NEW errors, NEW records, NEW parts, parts \subseteq errors
    PROVE  /\ ResultState(errors, records) \in {"success", "empty", "degraded"}
           /\ ResultState(errors, records) # "degraded" => parts = {}
  BY DEF ResultState

(* What may be retried can be raised anywhere; *)
LEMMA FailureKeeps ==
    ASSUME NEW kind \in {"source_unavailable", "contract_error", "error"}, Raise(kind)
    PROVE  PollInv'
  BY RaiseKeeps DEF Errors, NonRetryable

(* what an operator has to resolve only at the gate. *)
LEMMA RefusalKeeps ==
    ASSUME NEW kind \in Errors, Raise(kind), poll.stage = "gate"
    PROVE  PollInv'
  BY RaiseKeeps

(* A stage other than "idle" belongs to a poll in flight. *)
LEMMA PollRunning ==
    ASSUME PartsInv, poll.stage # "idle"
    PROVE  poll # Idle /\ Fields \subseteq DOMAIN poll /\ poll.lost \subseteq poll.errors
  BY DEF PartsInv, Idle

-----------------------------------------------------------------------------
(* The steps of the handler and of the adapters *)

(* A job starts a poll that has lost nothing. *)
LEMMA TakeJobKeeps == ASSUME PollInv, TakeJob PROVE PollInv'
<1>1. PICK job \in Jobs : Begin(job.ds, job.config)
  BY DEF TakeJob
<1>2. /\ DOMAIN poll' = Fields /\ poll'.stage = "gate" /\ poll'.lost = {}
      /\ poll'.errors = {} /\ poll'.records = {} /\ outcome' = NoOutcome
  BY <1>1 DEF Begin, Fields
<1>3. PartsInv' /\ ProbeInv' /\ PageInv' /\ TokenInv' /\ GateInv'
  BY <1>2 DEF PartsInv, ProbeInv, PageInv, TokenInv, GateInv
<1>4. OutcomeInv'
  BY <1>2 DEF OutcomeInv, HealthyMeansComplete, OnlyOperatorStatesAreDropped
<1> QED
  BY <1>3, <1>4 DEF PollInv

(* The station networks: every page and gauge that fails is both lost and a   *)
(* diagnostic.                                                                *)
LEMMA StationKeeps == ASSUME PollInv, StationNext PROVE PollInv'
<1> USE DEF Special
<1>0. PartsInv
  BY DEF PollInv
<1>1. CASE BuoyGate
  <2>1. /\ poll # Idle /\ Fields \subseteq DOMAIN poll /\ poll.lost \subseteq poll.errors
        /\ poll.stage = "gate"
    BY <1>0, <1>1, PollRunning DEF BuoyGate
  <2>2. CASE Continue([stage |-> "oon_catalog"])
    BY <2>1, <2>2, ContinueKeeps DEF With, Fields
  <2> QED
    BY <1>1, <2>1, <2>2, FailureKeeps, RefusalKeeps DEF BuoyGate, Errors, NonRetryable
<1>2. CASE ReadOonCatalog
  <2>1. poll # Idle /\ Fields \subseteq DOMAIN poll /\ poll.lost \subseteq poll.errors
    BY <1>0, <1>2, PollRunning DEF ReadOonCatalog
  <2>2. ASSUME NEW parts, Continue([stage |-> "charts", left |-> parts]) PROVE PollInv'
    BY <2>1, <2>2, ContinueKeeps DEF With, Fields
  <2> QED
    BY <1>2, <2>2, FailureKeeps DEF ReadOonCatalog
<1>3. CASE ReadChart
  <2>1. /\ poll # Idle /\ Fields \subseteq DOMAIN poll /\ poll.lost \subseteq poll.errors
        /\ poll.stage = "charts"
    BY <1>0, <1>3, PollRunning DEF ReadChart
  <2>2. ASSUME NEW rest, NEW broken,
               Continue([left |-> rest, errors |-> poll.errors \union broken,
                         lost |-> poll.lost \union broken])
        PROVE  PollInv'
    BY <2>1, <2>2, ContinueKeeps DEF With, Fields
  <2>3. ASSUME NEW rest, NEW broken, NEW recs,
               Continue([left |-> rest, errors |-> poll.errors \union broken,
                         lost |-> poll.lost \union broken, records |-> recs])
        PROVE  PollInv'
    BY <2>1, <2>3, ContinueKeeps DEF With, Fields
  <2> QED
    BY <1>3, <2>2, <2>3 DEF ReadChart
<1>4. CASE EndCharts \/ EndGauges
  <2>1. poll.lost \subseteq poll.errors
    BY <1>0, <1>4, PollRunning DEF EndCharts, EndGauges
  <2> QED
    BY <1>4, <2>1, ReturnKeeps, ResultStateMeaning DEF EndCharts, EndGauges
<1>5. CASE TideGate
  <2>1. /\ poll # Idle /\ Fields \subseteq DOMAIN poll /\ poll.lost \subseteq poll.errors
        /\ poll.stage = "gate"
    BY <1>0, <1>5, PollRunning DEF TideGate
  <2>2. CASE Continue([stage |-> "tide_catalog"])
    BY <2>1, <2>2, ContinueKeeps DEF With, Fields
  <2> QED
    BY <1>5, <2>1, <2>2, RefusalKeeps DEF TideGate, Errors, NonRetryable
<1>6. CASE ReadTideCatalog
  <2>1. poll # Idle /\ Fields \subseteq DOMAIN poll /\ poll.lost \subseteq poll.errors
    BY <1>0, <1>6, PollRunning DEF ReadTideCatalog
  <2>2. ASSUME NEW entries,
               Continue([stage |-> "gauges", left |-> Reporting(entries),
                         errors |-> GaugeDiagnostics(entries),
                         lost |-> {<<"station", i>> : i \in DOMAIN entries \ GaugesKept(entries)}])
        PROVE  PollInv'
    <3> DEFINE dropped == {<<"station", i>> : i \in DOMAIN entries \ GaugesKept(entries)}
               fields == [stage |-> "gauges", left |-> Reporting(entries),
                          errors |-> GaugeDiagnostics(entries), lost |-> dropped]
    <3>1. dropped \subseteq GaugeDiagnostics(entries)
      BY DEF GaugeDiagnostics
    <3>2. /\ With(fields).stage = "gauges" /\ With(fields).lost = dropped
          /\ With(fields).errors = GaugeDiagnostics(entries)
      BY <2>1 DEF With
    <3>3. Continue(fields)
      BY <2>2
    <3> HIDE DEF fields, dropped
    <3> QED
      BY <2>1, <3>1, <3>2, <3>3, ContinueKeeps
  <2> QED
    BY <1>6, <2>2, FailureKeeps DEF ReadTideCatalog
<1>7. CASE ReadGauge
  <2>1. /\ poll # Idle /\ Fields \subseteq DOMAIN poll /\ poll.lost \subseteq poll.errors
        /\ poll.stage = "gauges"
    BY <1>0, <1>7, PollRunning DEF ReadGauge
  <2>2. ASSUME NEW rest, NEW refused,
               Continue([left |-> rest, errors |-> poll.errors \union refused,
                         lost |-> poll.lost \union refused])
        PROVE  PollInv'
    BY <2>1, <2>2, ContinueKeeps DEF With, Fields
  <2>3. ASSUME NEW rest, NEW refused, NEW recs,
               Continue([left |-> rest, errors |-> poll.errors \union refused,
                         lost |-> poll.lost \union refused, records |-> recs])
        PROVE  PollInv'
    BY <2>1, <2>3, ContinueKeeps DEF With, Fields
  <2> QED
    BY <1>7, <2>2, <2>3 DEF ReadGauge
<1> QED
  BY <1>1, <1>2, <1>3, <1>4, <1>5, <1>6, <1>7 DEF StationNext

(* The alert sources: what a document leaves out is lost and a diagnostic.    *)
LEMMA AlertSourceKeeps == ASSUME PollInv, AlertSourceNext PROVE PollInv'
<1> USE DEF Special
<1>0. PartsInv
  BY DEF PollInv
<1>1. CASE AlertSourceDisabled \/ NwpRefuses \/ HazardLive
  BY <1>1, RefusalKeeps
     DEF AlertSourceDisabled, NwpRefuses, HazardLive, Enabled, Errors, NonRetryable
<1>2. ASSUME NEW stage \in {"rss", "hwa", "pfz", "eez"}, poll.stage = "gate",
             Continue([stage |-> stage])
      PROVE  PollInv'
  <2>1. poll # Idle /\ Fields \subseteq DOMAIN poll /\ poll.lost \subseteq poll.errors
    BY <1>0, <1>2, PollRunning
  <2> QED
    BY <1>2, <2>1, ContinueKeeps DEF With, Fields
<1>3. CASE CapGate \/ HighWaveGate \/ PfzGate
  BY <1>2, <1>3 DEF CapGate, HighWaveGate, PfzGate, Enabled
<1>4. CASE EezGate
  BY <1>2, <1>4, RefusalKeeps DEF EezGate, Enabled, Errors, NonRetryable
<1>5. CASE ReadRss
  <2>1. poll # Idle /\ Fields \subseteq DOMAIN poll /\ poll.lost \subseteq poll.errors
    BY <1>0, <1>5, PollRunning DEF ReadRss
  <2>2. ASSUME NEW link, Continue([stage |-> "cap", link |-> link]) PROVE PollInv'
    BY <2>1, <2>2, ContinueKeeps DEF With, Fields
  <2> QED
    BY <1>5, <2>2, FailureKeeps DEF ReadRss
<1>6. CASE ReadCapDocument
  BY <1>6, FailureKeeps, ReturnKeeps DEF ReadCapDocument
<1>7. CASE ReadHighWave
  <2>1. ASSUME NEW map \in DistrictMaps, NEW feed \in HighWaveFeeds, NEW alerts,
               Deliver(ResultState(HighWaveDiagnostics(map, feed), alerts), alerts,
                      {feed[i].key : i \in {j \in DOMAIN feed :
                           DistrictGeometry(map, feed[j].key) = {}}})
        PROVE  PollInv'
    <3> DEFINE bare == {j \in DOMAIN feed : DistrictGeometry(map, feed[j].key) = {}}
    <3>1. ResultState(HighWaveDiagnostics(map, feed), alerts) # "degraded"
             => HighWaveDiagnostics(map, feed) = {}
      BY DEF ResultState
    <3>2. HighWaveDiagnostics(map, feed) = {} => bare = {}
      BY DEF HighWaveDiagnostics
    <3>3. bare = {} => {feed[i].key : i \in bare} = {}
      OBVIOUS
    <3>4. ResultState(HighWaveDiagnostics(map, feed), alerts) \in {"success", "empty", "degraded"}
      BY DEF ResultState
    <3> QED
      BY <2>1, <3>1, <3>2, <3>3, <3>4, ReturnKeeps
  <2> QED
    BY <1>7, <2>1, FailureKeeps DEF ReadHighWave
<1>8. ASSUME NEW bad, NEW recs, NEW parts \in {{}, bad},
             Deliver(ResultState(bad, recs), recs, parts)
      PROVE  PollInv'
  BY <1>8, ReturnKeeps, ResultStateMeaning
<1>9. CASE ReadPfz
  BY <1>8, <1>9, FailureKeeps DEF ReadPfz
<1>10. CASE ReadEez
  BY <1>8, <1>10, FailureKeeps DEF ReadEez
<1> QED
  BY <1>1, <1>3, <1>4, <1>5, <1>6, <1>7, <1>9, <1>10 DEF AlertSourceNext

(* The bulletins: the failed ones are the diagnostics and what is lost.       *)
LEMMA BulletinKeeps == ASSUME PollInv, BulletinNext PROVE PollInv'
<1> USE DEF Special
<1>0. PartsInv
  BY DEF PollInv
<1>1. CASE BulletinGate
  <2>1. /\ poll # Idle /\ Fields \subseteq DOMAIN poll /\ poll.lost \subseteq poll.errors
        /\ poll.stage = "gate"
    BY <1>0, <1>1, PollRunning DEF BulletinGate
  <2>2. CASE Continue([stage |-> "bulletin", at |-> 1])
    BY <2>1, <2>2, ContinueKeeps DEF With, Fields
  <2> QED
    BY <1>1, <2>1, <2>2, RefusalKeeps, ReturnKeeps DEF BulletinGate, Errors, NonRetryable
<1>2. ASSUME poll.stage = "bulletin", NEW failed, NEW records, EndBulletin(failed, records)
      PROVE  PollInv'
  <2>1. poll # Idle /\ Fields \subseteq DOMAIN poll /\ poll.lost \subseteq poll.errors
    BY <1>0, <1>2, PollRunning
  <2>2. ASSUME NEW next, NEW errors, NEW all,
               Continue([at |-> next, errors |-> errors, records |-> all, lost |-> errors])
        PROVE  PollInv'
    BY <1>2, <2>1, <2>2, ContinueKeeps DEF With, Fields
  <2>3. ASSUME NEW errors, NEW all, Deliver(ResultState(errors, all), all, errors)
        PROVE  PollInv'
    BY <2>3, ReturnKeeps, ResultStateMeaning
  <2> QED
    BY <1>2, <2>2, <2>3, FailureKeeps DEF EndBulletin
<1>3. CASE BulletinFails
  BY <1>2, <1>3, FailureKeeps DEF BulletinFails
<1>4. CASE BulletinAnswers
  BY <1>2, <1>4 DEF BulletinAnswers
<1> QED
  BY <1>1, <1>3, <1>4 DEF BulletinNext

(* Steps of the catalogue adapters other than the pages of a search.          *)
LEMMA CatalogKeeps ==
    ASSUME PollInv, CatalogNext, ~ SearchGate, ~ ReadPage
    PROVE  PollInv'
<1> USE DEF Special
<1>0. PartsInv /\ TokenInv
  BY DEF PollInv
<1>1. CASE CatalogDisabled
  BY <1>1, RefusalKeeps DEF CatalogDisabled, Errors, NonRetryable
<1>2. CASE CatalogGate
  <2>1. poll # Idle /\ Fields \subseteq DOMAIN poll /\ poll.lost \subseteq poll.errors
    BY <1>0, <1>2, PollRunning DEF CatalogGate
  <2> QED
    BY <1>2, <2>1, ContinueKeeps DEF With, Fields, CatalogGate
<1>3. CASE ReadBody \/ Download
  BY <1>3, FailureKeeps, ReturnKeeps DEF ReadBody, Download
<1>4. CASE DownloadGate
  <2>1. /\ poll # Idle /\ Fields \subseteq DOMAIN poll /\ poll.lost \subseteq poll.errors
        /\ poll.stage = "gate"
    BY <1>0, <1>4, PollRunning DEF DownloadGate
  <2>2. CASE Raise("auth_blocked")
    BY <2>1, <2>2, RefusalKeeps DEF Errors, NonRetryable
  <2>3. ASSUME NEW then \in {"check", "download"}, Continue(Session("gettoken", then))
        PROVE  PollInv'
    <3>1. /\ poll' = With(Session("gettoken", then)) /\ outcome' = outcome
      BY <2>3 DEF Continue
    <3>2. /\ Fields \subseteq DOMAIN poll' /\ "then" \in DOMAIN poll'
          /\ poll'.lost = poll.lost /\ poll'.errors = poll.errors
          /\ poll'.stage = "gettoken" /\ poll'.then = then
      BY <2>1, <3>1 DEF With, Session, Fields
    <3>3. PartsInv' /\ ProbeInv' /\ PageInv' /\ TokenInv' /\ GateInv'
      BY <2>1, <3>2 DEF PartsInv, ProbeInv, PageInv, TokenInv, GateInv
    <3> QED
      BY <3>1, <3>3 DEF PollInv, OutcomeInv, HealthyMeansComplete, OnlyOperatorStatesAreDropped
  <2> QED
    BY <1>4, <2>2, <2>3 DEF DownloadGate
<1>5. CASE GetToken
  <2>1. /\ poll # Idle /\ Fields \subseteq DOMAIN poll /\ poll.lost \subseteq poll.errors
        /\ poll.then \in {"check", "download"}
    BY <1>0, <1>5, PollRunning DEF GetToken, TokenInv
  <2>2. ASSUME NEW refresh,
               Continue([stage |-> poll.then, access |-> TRUE, refresh |-> refresh])
        PROVE  PollInv'
    BY <2>1, <2>2, ContinueKeeps DEF With, Fields
  <2> QED
    BY <1>5, <2>2, FailureKeeps DEF GetToken
<1>6. CASE CheckReleased \/ RefreshToken
  <2>1. poll # Idle /\ Fields \subseteq DOMAIN poll /\ poll.lost \subseteq poll.errors
    BY <1>0, <1>6, PollRunning DEF CheckReleased, RefreshToken
  <2>2. CASE Continue([stage |-> "download"])
    BY <2>1, <2>2, ContinueKeeps DEF With, Fields
  <2> QED
    BY <1>6, <2>2, FailureKeeps DEF CheckReleased, RefreshToken
<1>7. CASE TokenRejected
  <2>1. poll # Idle /\ Fields \subseteq DOMAIN poll /\ poll.lost \subseteq poll.errors
    BY <1>0, <1>7, PollRunning DEF TokenRejected
  <2>2. ASSUME NEW stage \in {"refresh", "gettoken"},
               Continue([reauthed |-> TRUE, then |-> "download", stage |-> stage])
        PROVE  PollInv'
    <3>1. /\ poll' = With([reauthed |-> TRUE, then |-> "download", stage |-> stage])
          /\ outcome' = outcome
      BY <2>2 DEF Continue
    <3>2. /\ Fields \subseteq DOMAIN poll' /\ "then" \in DOMAIN poll'
          /\ poll'.lost = poll.lost /\ poll'.errors = poll.errors
          /\ poll'.stage = stage /\ poll'.then = "download"
      BY <2>1, <3>1 DEF With, Fields
    <3>3. PartsInv' /\ ProbeInv' /\ PageInv' /\ TokenInv' /\ GateInv'
      BY <2>1, <3>2 DEF PartsInv, ProbeInv, PageInv, TokenInv, GateInv
    <3> QED
      BY <3>1, <3>3 DEF PollInv, OutcomeInv, HealthyMeansComplete, OnlyOperatorStatesAreDropped
  <2> QED
    BY <1>7, <2>2, FailureKeeps DEF TokenRejected
<1>8. CASE MinuteLimited
  <2>1. poll # Idle /\ Fields \subseteq DOMAIN poll /\ poll.lost \subseteq poll.errors
    BY <1>0, <1>8, PollRunning DEF MinuteLimited
  <2>2. CASE Continue([retried |-> TRUE])
    BY <1>8, <2>1, <2>2, ContinueKeeps DEF With, Fields, MinuteLimited
  <2> QED
    BY <1>8, <2>2, FailureKeeps DEF MinuteLimited
<1> QED
  BY <1>1, <1>2, <1>3, <1>4, <1>5, <1>6, <1>7, <1>8 DEF CatalogNext

(* Pages are read in order, and each adds what it holds to the records.       *)
LEMMA SearchKeeps == ASSUME PollInv, SearchGate \/ ReadPage PROVE PollInv'
<1>0. PartsInv /\ PageInv /\ GateInv
  BY DEF PollInv
<1>1. CASE SearchGate
  <2>1. /\ poll # Idle /\ Fields \subseteq DOMAIN poll /\ poll.lost \subseteq poll.errors
        /\ poll.stage = "gate" /\ poll.records = {}
    BY <1>0, <1>1, PollRunning DEF SearchGate, GateInv
  <2>2. PICK listing \in SearchListings, announced \in BOOLEAN :
           Continue([stage |-> "page", listing |-> listing, announced |-> announced,
                     start |-> 0, pages |-> 0])
    BY <1>1 DEF SearchGate
  <2>3. /\ Fields \cup {"listing", "announced", "start", "pages"} \subseteq DOMAIN poll'
        /\ poll'.lost = poll.lost /\ poll'.errors = poll.errors /\ poll'.records = {}
        /\ poll'.stage = "page" /\ poll'.listing = listing
        /\ poll'.start = 0 /\ poll'.pages = 0
        /\ outcome' = outcome
    BY <2>1, <2>2 DEF Continue, With, Fields
  <2>4. {i \in DOMAIN listing : i <= 0 /\ listing[i]} = {}
    BY PageAssumption
  <2>5. PageInv'
    BY <2>3, <2>4, PageAssumption DEF PageInv
  <2>6. PartsInv' /\ ProbeInv' /\ TokenInv' /\ GateInv'
    BY <2>1, <2>3 DEF PartsInv, ProbeInv, TokenInv, GateInv
  <2> QED
    BY <2>3, <2>5, <2>6 DEF PollInv, OutcomeInv, HealthyMeansComplete, OnlyOperatorStatesAreDropped
<1>2. CASE ReadPage
  <2>1. /\ poll # Idle /\ Fields \subseteq DOMAIN poll /\ poll.lost \subseteq poll.errors
        /\ poll.stage = "page"
    BY <1>0, <1>2, PollRunning DEF ReadPage
  <2>2. CASE Raise("error")
    BY <2>2, FailureKeeps
  <2>3. ASSUME NEW found, Deliver("success", found, {}) PROVE PollInv'
    BY <2>3, ReturnKeeps
  <2>4. ASSUME ~ SearchEnds,
               Continue([records |-> poll.records \union ParsedPage,
                         start |-> poll.start + PageSize, pages |-> poll.pages + 1])
        PROVE  PollInv'
    <3>1. /\ Fields \cup {"listing", "announced", "start", "pages"} \subseteq DOMAIN poll'
          /\ poll'.lost = poll.lost /\ poll'.errors = poll.errors
          /\ poll'.records = poll.records \union ParsedPage
          /\ poll'.stage = "page" /\ poll'.listing = poll.listing
          /\ poll'.start = poll.start + PageSize /\ poll'.pages = poll.pages + 1
          /\ outcome' = outcome
      BY <1>0, <2>1, <2>4 DEF Continue, With, Fields, PageInv
    <3>2. poll'.pages \in 0 .. MaxPages - 1
      BY <1>0, <2>1, <2>4, <3>1, PageAssumption DEF PageInv, SearchEnds
    <3>3. poll'.start = poll'.pages * PageSize
      BY <1>0, <2>1, <3>1, PageAssumption DEF PageInv
    <3>4. poll'.records = {i \in DOMAIN poll'.listing : i <= poll'.start /\ poll'.listing[i]}
      <4>1. poll.start \in Nat /\ PageSize \in Nat /\ DOMAIN poll.listing \subseteq Nat
        BY <1>0, <2>1, PageAssumption DEF PageInv
      <4> QED
        BY <1>0, <2>1, <3>1, <4>1 DEF PageInv, ParsedPage, PageEntries
    <3>5. PageInv'
      BY <1>0, <2>1, <3>1, <3>2, <3>3, <3>4 DEF PageInv
    <3>6. PartsInv' /\ ProbeInv' /\ TokenInv' /\ GateInv'
      BY <2>1, <3>1 DEF PartsInv, ProbeInv, TokenInv, GateInv
    <3> QED
      BY <3>1, <3>5, <3>6
         DEF PollInv, OutcomeInv, HealthyMeansComplete, OnlyOperatorStatesAreDropped
  <2> QED
    BY <1>2, <2>2, <2>3, <2>4 DEF ReadPage
<1> QED
  BY <1>1, <1>2

(* A non-empty set of naturals has a smallest element, and it is the minimum. *)
LEMMA SmallestExists ==
    ASSUME NEW T \in SUBSET Nat, T # {}
    PROVE  Min(T) \in T /\ \A n \in T : Min(T) <= n
<1>1. IsWellFoundedOn(OpToRel(<, Nat), Nat)
  BY NatLessThanWellFounded
<1>2. PICK x \in T : \A y \in T : ~ (<<y, x>> \in OpToRel(<, Nat))
  BY <1>1, WFMin
<1>3. \A y \in T : x <= y
  <2>1. \A y \in T : ~ (y < x)
    BY <1>2 DEF OpToRel
  <2> QED
    BY <2>1
<1> QED
  BY <1>3 DEF Min

(* The state in which the probing of a point begins. *)
LEMMA PointStateMeaning ==
    ASSUME NEW sea \in Seas
    PROVE  /\ DOMAIN PointState(sea) = {"left", "samples", "masked", "sea"}
           /\ PointState(sea).left = InRadius /\ PointState(sea).samples = {}
           /\ PointState(sea).sea = sea
  BY DEF PointState

(* The wave model: a probe leaves the list only for the diagnostics or the    *)
(* samples.                                                                   *)
LEMMA WaveModelKeeps == ASSUME PollInv, WW3Next PROVE PollInv'
<1> USE DEF Special
<1> DEFINE p == NextProbe
<1>0. PartsInv /\ ProbeInv
  BY DEF PollInv
<1>1. CASE WW3Gate \/ ReadCatalog
  <2>1. /\ poll # Idle /\ Fields \subseteq DOMAIN poll /\ poll.lost \subseteq poll.errors
        /\ WW3Gate => poll.stage = "gate"
    BY <1>0, <1>1, PollRunning DEF WW3Gate, ReadCatalog
  <2>2. ASSUME NEW stage \in {"catalog", "description"}, Continue([stage |-> stage])
        PROVE  PollInv'
    BY <2>1, <2>2, ContinueKeeps DEF With, Fields
  <2> QED
    BY <1>1, <2>1, <2>2, FailureKeeps, RefusalKeeps
       DEF WW3Gate, ReadCatalog, Unanswered, Errors, NonRetryable
<1>2. CASE ReadDescription
  <2>1. poll # Idle /\ Fields \subseteq DOMAIN poll /\ poll.lost \subseteq poll.errors
    BY <1>0, <1>2, PollRunning DEF ReadDescription
  <2>2. ASSUME NEW sea \in Seas,
               Continue([stage |-> "probe", at |-> 1, point |-> PointState(sea)])
        PROVE  PollInv'
    <3>1. /\ Fields \cup {"at", "point"} \subseteq DOMAIN poll'
          /\ poll'.lost = poll.lost /\ poll'.errors = poll.errors
          /\ poll'.stage = "probe" /\ poll'.at = 1 /\ poll'.point = PointState(sea)
          /\ outcome' = outcome
      BY <2>1, <2>2 DEF Continue, With, Fields
    <3>2. ProbeInv'
      BY <3>1, PointStateMeaning DEF ProbeInv
    <3>3. PartsInv' /\ PageInv' /\ TokenInv' /\ GateInv'
      BY <2>1, <3>1 DEF PartsInv, PageInv, TokenInv, GateInv
    <3> QED
      BY <3>1, <3>2, <3>3
         DEF PollInv, OutcomeInv, HealthyMeansComplete, OnlyOperatorStatesAreDropped
  <2> QED
    BY <1>2, <2>2, FailureKeeps DEF ReadDescription, Unanswered
\* A probe that is sent is one that was left; what its answer or its loss
\* changes is only that probe.
<1>3. ASSUME poll.stage = "probe", poll.point.left # {}
      PROVE  /\ p \in poll.point.left /\ p \in InRadius
             /\ poll # Idle /\ Fields \cup {"at", "point"} \subseteq DOMAIN poll
             /\ poll.lost \subseteq poll.errors
             /\ DOMAIN poll.point = {"left", "samples", "masked", "sea"}
  <2>1. poll.point.left \in SUBSET Nat
    BY <1>0, <1>3, WaveAssumption DEF ProbeInv, InRadius
  <2>2. p \in poll.point.left
    BY <1>3, <2>1, SmallestExists DEF NextProbe
  <2> QED
    BY <1>0, <1>3, <2>2, PollRunning DEF ProbeInv
<1>4. ASSUME poll.stage = "probe", poll.point.left # {}, UNCHANGED outcome,
             DOMAIN poll' = DOMAIN poll, poll'.stage = poll.stage, poll'.at = poll.at,
             poll'.lost \subseteq poll'.errors, poll.lost \subseteq poll'.lost,
             DOMAIN poll'.point = {"left", "samples", "masked", "sea"},
             poll'.point.sea = poll.point.sea,
             poll'.point.left = poll.point.left \ {p},
             poll.point.samples \subseteq poll'.point.samples,
             poll'.point.samples \subseteq poll.point.samples \union WetSamples(p),
             \/ <<poll.at, p>> \in poll'.lost
             \/ WetSamples(p) \subseteq poll'.point.samples
      PROVE  PollInv'
  <2>1. WetSamples(p) \subseteq Samples
    BY <1>0, <1>3, <1>4 DEF WetSamples, Samples, ProbeInv, InRadius, Seas
  <2>2. \A s \in WetSamples(p) : s.values = poll.point.sea[s.node][s.time]
    BY DEF WetSamples
  <2>3. \A q : WetSamples(q)' = WetSamples(q)
    BY <1>4 DEF WetSamples
  <2> HIDE DEF p
  <2>4. \A q \in InRadius : \/ q \in poll'.point.left
                            \/ <<poll'.at, q>> \in poll'.lost
                            \/ WetSamples(q) \subseteq poll'.point.samples
    BY <1>0, <1>4 DEF ProbeInv
  <2>5. ProbeInv'
    BY <1>0, <1>3, <1>4, <2>1, <2>2, <2>3, <2>4 DEF ProbeInv
  <2>6. PartsInv' /\ PageInv' /\ TokenInv' /\ GateInv'
    BY <1>0, <1>3, <1>4 DEF PartsInv, PageInv, TokenInv, GateInv
  <2> QED
    BY <1>4, <2>5, <2>6
       DEF PollInv, OutcomeInv, HealthyMeansComplete, OnlyOperatorStatesAreDropped
<1>5. CASE ProbeFails
  <2>1. poll.stage = "probe" /\ poll.point.left # {}
    BY <1>5 DEF ProbeFails
  <2>2. ASSUME poll' = [poll EXCEPT !.point.left = @ \ {p},
                                    !.errors = @ \union {<<poll.at, p>>},
                                    !.lost = @ \union {<<poll.at, p>>}],
               UNCHANGED outcome
        PROVE  PollInv'
    <3> HIDE DEF p
    <3>1. /\ DOMAIN poll' = DOMAIN poll
          /\ poll'.stage = poll.stage /\ poll'.at = poll.at
          /\ poll'.errors = poll.errors \union {<<poll.at, p>>}
          /\ poll'.lost = poll.lost \union {<<poll.at, p>>}
          /\ poll'.point = [poll.point EXCEPT !.left = @ \ {p}]
      BY <1>3, <2>1, <2>2 DEF Fields
    <3>2. /\ DOMAIN poll'.point = {"left", "samples", "masked", "sea"}
          /\ poll'.point.sea = poll.point.sea /\ poll'.point.left = poll.point.left \ {p}
          /\ poll'.point.samples = poll.point.samples
      BY <1>3, <2>1, <3>1
    <3>3. /\ poll'.lost \subseteq poll'.errors /\ poll.lost \subseteq poll'.lost
          /\ <<poll.at, p>> \in poll'.lost
      BY <1>3, <2>1, <3>1
    <3> QED
      BY <1>4, <2>1, <2>2, <3>1, <3>2, <3>3
  <2> QED
    BY <1>5, <2>2, FailureKeeps DEF ProbeFails
<1>6. CASE ProbeAnswers
  <2>1. poll.stage = "probe" /\ poll.point.left # {}
    BY <1>6 DEF ProbeAnswers
  <2>2. PICK masked :
          poll' = [poll EXCEPT !.point.left = @ \ {p},
                               !.point.samples = @ \union WetSamples(p),
                               !.point.masked = masked]
    BY <1>6 DEF ProbeAnswers
  <2>3. UNCHANGED outcome
    BY <1>6 DEF ProbeAnswers
  <2> HIDE DEF p
  <2>4. /\ DOMAIN poll' = DOMAIN poll
        /\ poll'.stage = poll.stage /\ poll'.at = poll.at
        /\ poll'.errors = poll.errors /\ poll'.lost = poll.lost
        /\ poll'.point = [poll.point EXCEPT !.left = @ \ {p},
                                            !.samples = @ \union WetSamples(p),
                                            !.masked = masked]
    BY <1>3, <2>1, <2>2 DEF Fields
  <2>5. /\ DOMAIN poll'.point = {"left", "samples", "masked", "sea"}
        /\ poll'.point.sea = poll.point.sea /\ poll'.point.left = poll.point.left \ {p}
        /\ poll'.point.samples = poll.point.samples \union WetSamples(p)
    BY <1>3, <2>1, <2>4
  <2>6. /\ poll'.lost \subseteq poll'.errors /\ poll.lost \subseteq poll'.lost
        /\ poll.point.samples \subseteq poll'.point.samples
        /\ poll'.point.samples \subseteq poll.point.samples \union WetSamples(p)
        /\ WetSamples(p) \subseteq poll'.point.samples
    BY <1>3, <2>1, <2>4, <2>5
  <2> QED
    BY <1>4, <2>1, <2>3, <2>4, <2>5, <2>6
<1>7. CASE EndPoint
  <2>1. /\ poll # Idle /\ Fields \cup {"at", "point"} \subseteq DOMAIN poll
        /\ poll.lost \subseteq poll.errors
        /\ poll.stage = "probe"
    BY <1>0, <1>7, PollRunning DEF EndPoint, ProbeInv
  <2>2. ASSUME NEW sea \in Seas, NEW at, NEW records,
               poll' = [poll EXCEPT !.at = at, !.point = PointState(sea), !.records = records],
               UNCHANGED outcome
        PROVE  PollInv'
    <3>1. /\ DOMAIN poll' = DOMAIN poll
          /\ poll'.stage = poll.stage /\ poll'.errors = poll.errors /\ poll'.lost = poll.lost
          /\ poll'.point = PointState(sea)
      BY <2>1, <2>2 DEF Fields
    <3>2. ProbeInv'
      BY <2>1, <3>1, PointStateMeaning DEF ProbeInv
    <3>3. PartsInv' /\ PageInv' /\ TokenInv' /\ GateInv'
      BY <2>1, <3>1 DEF PartsInv, PageInv, TokenInv, GateInv
    <3> QED
      BY <2>2, <3>2, <3>3
         DEF PollInv, OutcomeInv, HealthyMeansComplete, OnlyOperatorStatesAreDropped
  <2>3. ASSUME NEW records, Deliver(ResultState(poll.errors, records), records, poll.lost)
        PROVE  PollInv'
    BY <2>1, <2>3, ReturnKeeps, ResultStateMeaning
  <2>4. CASE poll.at < Len(Points)
    <3> DEFINE records == poll.records \union
                   RecordsFromSamples(poll.point.samples, poll.point.masked = "land")
    <3>1. PICK sea \in Seas :
             poll' = [poll EXCEPT !.at = @ + 1, !.point = PointState(sea), !.records = records]
      BY <1>7, <2>4 DEF EndPoint
    <3>2. UNCHANGED outcome
      BY <1>7, <2>4 DEF EndPoint
    <3> HIDE DEF records
    <3> QED
      BY <2>2, <3>1, <3>2
  <2>5. CASE ~ (poll.at < Len(Points))
    BY <1>7, <2>3, <2>5 DEF EndPoint
  <2> QED
    BY <2>4, <2>5
<1> QED
  BY <1>1, <1>2, <1>5, <1>6, <1>7 DEF WW3Next

-----------------------------------------------------------------------------
(* What is reported of a point *)

(* A non-empty finite set of naturals has a greatest element: among the       *)
(* subsets without one a smallest would have one after all.                   *)
LEMMA GreatestExists ==
    ASSUME NEW T \in SUBSET Nat, IsFiniteSet(T), T # {}
    PROVE  \E m \in T : \A t \in T : t <= m
<1> DEFINE Bad == {S \in SUBSET T : S # {} /\ ~ (\E m \in S : \A t \in S : t <= m)}
           Sizes == {Cardinality(S) : S \in Bad}
<1> SUFFICES ASSUME Bad # {} PROVE FALSE
  OBVIOUS
<1>1. \A S \in SUBSET T : IsFiniteSet(S) /\ Cardinality(S) \in Nat
  BY FS_Subset, FS_CardinalityType
<1>2. Sizes \subseteq Nat /\ Sizes # {}
  BY <1>1
<1>3. Min(Sizes) \in Sizes /\ \A n \in Sizes : Min(Sizes) <= n
  <2> HIDE DEF Sizes
  <2> QED
    BY <1>2, SmallestExists
<1>4. PICK S \in Bad : \A U \in Bad : Cardinality(S) <= Cardinality(U)
  <2>1. PICK S \in Bad : Min(Sizes) = Cardinality(S)
    BY <1>3
  <2>2. \A U \in Bad : Cardinality(U) \in Sizes
    OBVIOUS
  <2> QED
    BY <1>3, <2>1, <2>2
<1>5. PICK x \in S : TRUE
  OBVIOUS
<1>6. /\ S \ {x} \in SUBSET T
      /\ Cardinality(S \ {x}) = Cardinality(S) - 1 /\ Cardinality(S) \in Nat
  BY <1>1, <1>5, FS_RemoveElement
<1>7. S \ {x} \notin Bad
  <2> HIDE DEF Bad
  <2>1. ASSUME S \ {x} \in Bad PROVE Cardinality(S) <= Cardinality(S) - 1
    BY <1>4, <1>6, <2>1
  <2> QED
    BY <1>6, <2>1
<1>8. CASE S \ {x} = {}
  <2>1. \A t \in S : t <= x
    BY <1>5, <1>8
  <2> QED
    BY <1>5, <2>1
<1>9. CASE S \ {x} # {}
  <2>1. PICK m \in S \ {x} : \A t \in S \ {x} : t <= m
    BY <1>6, <1>7, <1>9
  <2>2. m \in Nat /\ x \in Nat
    BY <1>5, <2>1
  <2>3. (\A t \in S : t <= m) \/ (\A t \in S : t <= x)
    BY <2>1, <2>2
  <2> QED
    BY <1>5, <2>1, <2>3
<1> QED
  BY <1>8, <1>9

(* At one instant, of what the sea holds there is a nearest sample and a      *)
(* roughest one, and the roughest is that.                                    *)
LEMMA SelectionMeaning ==
    ASSUME NEW sea \in Seas, NEW t \in Times,
           NEW c \in SUBSET Samples, c # {},
           \A s \in c : s.time = t /\ s.values = sea[s.node][t]
    PROVE  /\ Nearest(c) \in c
           /\ Roughest(c) \in c
           /\ \A o \in c : Roughest(c).values["HS"] >= o.values["HS"]
<1>0. \A s \in c : /\ s.node \in Probes /\ s.node \in Nat
                   /\ NodeDist[s.node] \in Nat
                   /\ "HS" \in DOMAIN s.values /\ s.values["HS"] \in Nat
  BY WaveAssumption DEF Samples, Wet
<1>1. \E s \in c : \A o \in c :
         \/ NodeDist[s.node] < NodeDist[o.node]
         \/ NodeDist[s.node] = NodeDist[o.node] /\ s.node <= o.node
  <2> DEFINE Dists == {NodeDist[s.node] : s \in c}
             near == {s \in c : NodeDist[s.node] = Min(Dists)}
             Nodes == {s.node : s \in near}
  <2>1. Dists \in SUBSET Nat /\ Dists # {}
    BY <1>0
  <2>2. Min(Dists) \in Dists /\ \A d \in Dists : Min(Dists) <= d
    <3> HIDE DEF Dists
    <3> QED
      BY <2>1, SmallestExists
  <2>3. near # {} /\ \A o \in c : Min(Dists) <= NodeDist[o.node]
    BY <2>2
  <2>4. Nodes \in SUBSET Nat /\ Nodes # {}
    BY <1>0, <2>3
  <2>5. Min(Nodes) \in Nodes /\ \A n \in Nodes : Min(Nodes) <= n
    <3> HIDE DEF Nodes
    <3> QED
      BY <2>4, SmallestExists
  <2>6. PICK s \in near : s.node = Min(Nodes)
    BY <2>5
  <2>7. \A o \in near : s.node <= o.node
    BY <2>5, <2>6
  <2>8. \A o \in c : Min(Dists) \in Nat /\ NodeDist[o.node] \in Nat
    BY <1>0, <2>1, <2>2
  <2>9. s \in c /\ NodeDist[s.node] = Min(Dists)
    BY <2>6
  <2>10. \A o \in c : NodeDist[o.node] = Min(Dists) => s.node <= o.node
    BY <2>7
  <2> HIDE DEF Dists, near, Nodes
  <2> QED
    BY <2>3, <2>8, <2>9, <2>10
<1>2. \E s \in c : \A o \in c :
         \/ s.values["HS"] > o.values["HS"]
         \/ s.values["HS"] = o.values["HS"] /\ s.node <= o.node
  <2> DEFINE N == {s.node : s \in c}
  <2>1. IsFiniteSet(N)
    BY <1>0, FS_Subset, WaveAssumption
  <2>2. \A n \in N : sea[n][t]["HS"] \in Nat
    BY <1>0
  <2>3. \E m \in N : \A n \in N : \/ sea[m][t]["HS"] > sea[n][t]["HS"]
                                  \/ sea[m][t]["HS"] = sea[n][t]["HS"] /\ m <= n
    <3> DEFINE high == {sea[n][t]["HS"] : n \in N}
    <3>1. high \in SUBSET Nat /\ high # {}
      BY <2>2
    <3>2. IsFiniteSet(high)
      <4> DEFINE f == [n \in N |-> sea[n][t]["HS"]]
      <4>1. f \in Surjection(N, high)
        BY DEF Surjection
      <4> HIDE DEF f
      <4> QED
        BY <2>1, <4>1, FS_Surjection
    <3>3. PICK h \in high : \A g \in high : g <= h
      <4> HIDE DEF high
      <4> QED
        BY <3>1, <3>2, GreatestExists
    <3> DEFINE top == {n \in N : sea[n][t]["HS"] = h}
    <3>4. top \in SUBSET Nat /\ top # {}
      BY <1>0
    <3>5. Min(top) \in top /\ \A n \in top : Min(top) <= n
      <4> HIDE DEF top
      <4> QED
        BY <3>4, SmallestExists
    <3>6. \A n \in N : sea[n][t]["HS"] <= h /\ sea[n][t]["HS"] \in Nat
      BY <2>2, <3>3
    <3>7. h \in Nat
      BY <3>1, <3>3
    <3>8. Min(top) \in N /\ sea[Min(top)][t]["HS"] = h
      BY <3>5
    <3>9. \A n \in N : sea[n][t]["HS"] = h => Min(top) <= n
      BY <3>5
    <3> HIDE DEF top, N, high
    <3> QED
      BY <3>6, <3>7, <3>8, <3>9
  <2>4. PICK s \in c : \A n \in N : \/ sea[s.node][t]["HS"] > sea[n][t]["HS"]
                                    \/ sea[s.node][t]["HS"] = sea[n][t]["HS"] /\ s.node <= n
    BY <2>3
  <2> QED
    BY <2>4
<1>3. Nearest(c) \in c
  BY <1>1 DEF Nearest
<1>4. /\ Roughest(c) \in c
      /\ \A o \in c : \/ Roughest(c).values["HS"] > o.values["HS"]
                      \/ /\ Roughest(c).values["HS"] = o.values["HS"]
                         /\ Roughest(c).node <= o.node
  BY <1>2 DEF Roughest
<1>5. \A o \in c : Roughest(c).values["HS"] >= o.values["HS"]
  BY <1>0, <1>4
<1> QED
  BY <1>3, <1>4, <1>5

(* The record of a node's wave height. *)
WaveRecord(s, selection, masked) ==
    [point |-> poll.at, time |-> s.time, node |-> s.node, parameter |-> "HS",
     value |-> s.values["HS"], selection |-> selection, masked |-> masked]

(* Whatever node is reported, its wave height is reported with it. *)
LEMMA WaveHeightIsEmitted ==
    ASSUME NEW s, NEW selection, NEW masked, "HS" \in DOMAIN s.values
    PROVE  WaveRecord(s, selection, masked) \in RecordsForNode(s, selection, masked)
  BY DEF WaveRecord, RecordsForNode

(* What records_from_samples reports of one instant. *)
LEMMA InstantIsReported ==
    ASSUME NEW samples, NEW masked, NEW t \in {s.time : s \in samples}
    PROVE  LET c == {s \in samples : s.time = t} IN
           /\ Nearest(c).node = Roughest(c).node =>
                RecordsForNode(Nearest(c), "nearest_wet_node+max_within_radius", masked)
                    \subseteq RecordsFromSamples(samples, masked)
           /\ Nearest(c).node # Roughest(c).node =>
                RecordsForNode(Roughest(c), "max_within_radius", masked)
                    \subseteq RecordsFromSamples(samples, masked)
<1> DEFINE c == {s \in samples : s.time = t}
           single == RecordsForNode(Nearest(c), "nearest_wet_node+max_within_radius", masked)
           both == RecordsForNode(Nearest(c), "nearest_wet_node", masked)
                       \union RecordsForNode(Roughest(c), "max_within_radius", masked)
           F(u) == LET d == {s \in samples : s.time = u}
                       n == Nearest(d)
                       r == Roughest(d)
                   IN IF n.node = r.node
                      THEN RecordsForNode(n, "nearest_wet_node+max_within_radius", masked)
                      ELSE RecordsForNode(n, "nearest_wet_node", masked)
                           \union RecordsForNode(r, "max_within_radius", masked)
<1>1. F(t) = IF Nearest(c).node = Roughest(c).node THEN single ELSE both
  OBVIOUS
<1>2. RecordsFromSamples(samples, masked) = UNION {F(u) : u \in {s.time : s \in samples}}
  BY DEF RecordsFromSamples
<1>3. F(t) \subseteq RecordsFromSamples(samples, masked)
  <2> HIDE DEF F
  <2> QED
    BY <1>2
<1>4. RecordsForNode(Roughest(c), "max_within_radius", masked) \subseteq both
  <2> HIDE DEF c
  <2> QED
    OBVIOUS
<1> HIDE DEF F, single, both
<1>5. /\ Nearest(c).node = Roughest(c).node => single \subseteq RecordsFromSamples(samples, masked)
      /\ Nearest(c).node # Roughest(c).node => both \subseteq RecordsFromSamples(samples, masked)
  BY <1>1, <1>3
<1> QED
  BY <1>4, <1>5 DEF single

(* Of one instant, the wave height of the roughest sample is reported, not as *)
(* that of the nearest node alone, and no sample of the instant is rougher.   *)
LEMMA RoughestIsEmitted ==
    ASSUME NEW sea \in Seas, NEW samples \in SUBSET Samples,
           \A s \in samples : s.values = sea[s.node][s.time],
           NEW s0 \in samples, NEW masked
    PROVE  \E r \in RecordsFromSamples(samples, masked) :
              /\ r.time = s0.time /\ r.parameter = "HS"
              /\ r.selection # "nearest_wet_node"
              /\ r.value >= s0.values["HS"]
<1> DEFINE t == s0.time
           c == {s \in samples : s.time = t}
           near == Nearest(c)
           rough == Roughest(c)
<1>1. t \in Times /\ s0 \in c /\ c \in SUBSET Samples /\ t \in {s.time : s \in samples}
  BY DEF Samples
<1>2. \A s \in c : s.time = t /\ s.values = sea[s.node][t] /\ "HS" \in DOMAIN s.values
  BY DEF Samples, Wet
<1>3. /\ near \in c /\ rough \in c
      /\ \A o \in c : rough.values["HS"] >= o.values["HS"]
  <2> HIDE DEF c
  <2> QED
    BY <1>1, <1>2, SelectionMeaning
<1>4. /\ near.node = rough.node =>
            RecordsForNode(near, "nearest_wet_node+max_within_radius", masked)
                \subseteq RecordsFromSamples(samples, masked)
      /\ near.node # rough.node =>
            RecordsForNode(rough, "max_within_radius", masked)
                \subseteq RecordsFromSamples(samples, masked)
  BY <1>1, InstantIsReported
<1> HIDE DEF c, near, rough, t
<1>5. /\ near.time = t /\ rough.time = t /\ rough.values["HS"] >= s0.values["HS"]
      /\ "HS" \in DOMAIN near.values /\ "HS" \in DOMAIN rough.values
      /\ near.node = rough.node => near.values = rough.values
  BY <1>1, <1>2, <1>3
<1>6. /\ WaveRecord(near, "nearest_wet_node+max_within_radius", masked)
            \in RecordsForNode(near, "nearest_wet_node+max_within_radius", masked)
      /\ WaveRecord(rough, "max_within_radius", masked)
            \in RecordsForNode(rough, "max_within_radius", masked)
  BY <1>5, WaveHeightIsEmitted
<1>7. CASE near.node = rough.node
  <2> DEFINE r == WaveRecord(near, "nearest_wet_node+max_within_radius", masked)
  <2>1. r \in RecordsFromSamples(samples, masked)
    BY <1>4, <1>6, <1>7
  <2>2. /\ r.time = near.time /\ r.parameter = "HS"
        /\ r.selection = "nearest_wet_node+max_within_radius"
        /\ r.value = near.values["HS"]
    BY DEF WaveRecord
  <2> HIDE DEF r
  <2> QED
    BY <1>7, <1>5, <2>1, <2>2 DEF t
<1>8. CASE near.node # rough.node
  <2> DEFINE r == WaveRecord(rough, "max_within_radius", masked)
  <2>1. r \in RecordsFromSamples(samples, masked)
    BY <1>4, <1>6, <1>8
  <2>2. /\ r.time = rough.time /\ r.parameter = "HS"
        /\ r.selection = "max_within_radius"
        /\ r.value = rough.values["HS"]
    BY DEF WaveRecord
  <2> HIDE DEF r
  <2> QED
    BY <1>5, <2>1, <2>2 DEF t
<1> QED
  BY <1>7, <1>8

-----------------------------------------------------------------------------
(* The theorems *)

(* Before the first poll nothing is in flight and nothing has been reported.  *)
LEMMA PollsBegin == PollInit => PollInv
<1> SUFFICES ASSUME PollInit PROVE PollInv
  OBVIOUS
<1>1. PartsInv /\ ProbeInv /\ PageInv /\ TokenInv /\ GateInv
  BY DEF PollInit, PartsInv, ProbeInv, PageInv, TokenInv, GateInv, Idle
<1>2. OutcomeInv
  BY DEF PollInit, OutcomeInv, HealthyMeansComplete, OnlyOperatorStatesAreDropped
<1> QED
  BY <1>1, <1>2 DEF PollInv

(* Every step of the handler and of every adapter keeps the invariant.        *)
LEMMA PollsGoOn == ASSUME PollInv, [PollNext]_pollVars PROVE PollInv'
<1>1. CASE UNCHANGED pollVars
  <2>1. poll' = poll /\ outcome' = outcome
    BY <1>1 DEF pollVars
  <2> QED
    BY <2>1 DEF PollInv, PartsInv, ProbeInv, PageInv, TokenInv, GateInv, OutcomeInv, WetSamples,
       HealthyMeansComplete, OnlyOperatorStatesAreDropped
<1> QED
  BY <1>1, TakeJobKeeps, WaveModelKeeps, BulletinKeeps, StationKeeps, AlertSourceKeeps,
     CatalogKeeps, SearchKeeps DEF PollNext, AdapterStep, CatalogNext

(* The inductive invariant holds in every reachable state. *)
LEMMA PollInvariant == PollSpec => []PollInv
<1>1. PollInv /\ [PollNext]_pollVars => PollInv'
  BY PollsGoOn
<1> QED
  BY PollsBegin, <1>1, PTL DEF PollSpec

(* Whatever the upstream servers answer, a poll recorded as healthy lost      *)
(* nothing it set out to read.                                                *)
THEOREM HealthIsComplete == PollSpec => []HealthyMeansComplete
<1>1. PollInv => HealthyMeansComplete
  BY DEF PollInv, OutcomeInv
<1> QED
  BY PollInvariant, <1>1, PTL

(* No job that reached its server is acknowledged with a failure.             *)
THEOREM FailuresAreRetried == PollSpec => []OnlyOperatorStatesAreDropped
<1>1. PollInv => OnlyOperatorStatesAreDropped
  BY DEF PollInv, OutcomeInv
<1> QED
  BY PollInvariant, <1>1, PTL

(* For any grid, radius and sea, when the probes of a point are all answered  *)
(* the roughest wet node in the radius is in what is reported.                *)
THEOREM RoughestSurvives == PollSpec => []RoughestIsReported
<1>1. PollInv => RoughestIsReported
  <2> SUFFICES ASSUME PollInv, poll.stage = "probe", poll.point.left = {},
                      \A part \in poll.lost : part[1] # poll.at,
                      NEW p \in InRadius, NEW t \in Times,
                      Wet(poll.point.sea[p][t]), NodeDist[p] <= SearchRadius
               PROVE  \E r \in RecordsFromSamples(poll.point.samples, FALSE) :
                         /\ r.time = t /\ r.parameter = "HS"
                         /\ r.selection # "nearest_wet_node"
                         /\ r.value >= poll.point.sea[p][t]["HS"]
    BY DEF RoughestIsReported
  <2> DEFINE samples == poll.point.samples
             sea == poll.point.sea
             s0 == [time |-> t, node |-> p, values |-> sea[p][t]]
  <2>1. /\ sea \in Seas /\ samples \in SUBSET Samples
        /\ \A s \in samples : s.values = sea[s.node][s.time]
        /\ \/ p \in poll.point.left
           \/ <<poll.at, p>> \in poll.lost
           \/ WetSamples(p) \subseteq samples
    BY DEF PollInv, ProbeInv
  <2>2. <<poll.at, p>> \notin poll.lost
    <3>1. <<poll.at, p>>[1] = poll.at
      OBVIOUS
    <3> QED
      BY <3>1
  <2>3. s0 \in WetSamples(p)
    BY DEF WetSamples
  <2>4. s0 \in samples
    BY <2>1, <2>2, <2>3
  <2>5. s0.time = t /\ s0.values["HS"] = sea[p][t]["HS"]
    OBVIOUS
  <2> HIDE DEF s0, samples, sea
  <2>6. \A masked :
           \E r \in RecordsFromSamples(samples, masked) :
              /\ r.time = t /\ r.parameter = "HS"
              /\ r.selection # "nearest_wet_node"
              /\ r.value >= sea[p][t]["HS"]
    BY <2>1, <2>4, <2>5, RoughestIsEmitted
  <2> QED
    BY <2>6, Zenon DEF samples, sea
<1> QED
  BY PollInvariant, <1>1, PTL

(* While a search is paging, the only step is to read the next page.          *)
LEMMA OnlyPagesAreRead == ASSUME poll.stage = "page", PollNext PROVE ReadPage
<1>1. ~ TakeJob
  BY DEF TakeJob, Begin, Idle
<1>2. ~ WW3Next
  BY DEF WW3Next, WW3Gate, ReadCatalog, ReadDescription, ProbeFails, ProbeAnswers, EndPoint
<1>3. ~ BulletinNext
  BY DEF BulletinNext, BulletinGate, BulletinFails, BulletinAnswers
<1>4. ~ StationNext
  BY DEF StationNext, BuoyGate, ReadOonCatalog, ReadChart, EndCharts,
         TideGate, ReadTideCatalog, ReadGauge, EndGauges
<1>5. ~ AlertSourceNext
  BY DEF AlertSourceNext, AlertSourceDisabled, CapGate, ReadRss, ReadCapDocument, HighWaveGate,
         ReadHighWave, PfzGate, ReadPfz, EezGate, ReadEez, NwpRefuses, HazardLive, Enabled
<1> QED
  BY <1>1, <1>2, <1>3, <1>4, <1>5
     DEF PollNext, AdapterStep, CatalogNext, CatalogDisabled, CatalogGate, ReadBody, SearchGate,
         DownloadGate, GetToken, CheckReleased, TokenRejected, RefreshToken, MinuteLimited, Download

(* Where a search ends without having been cut short, the page it ends with   *)
(* reaches the end of the listing.                                            *)
LEMMA LastPageReachesEnd ==
    ASSUME PageInv, poll.stage = "page", SearchEnds,
           \A i \in DOMAIN poll.listing : poll.listing[i],
           Len(poll.listing) <= PageSize * MaxPages
    PROVE  Len(poll.listing) <= poll.start + PageSize
<1> DEFINE n == Len(poll.listing)  full == poll.start + 1 .. poll.start + PageSize
<1>1. /\ n \in Nat /\ DOMAIN poll.listing = 1 .. n
      /\ poll.pages \in Nat /\ PageSize \in Nat \ {0} /\ MaxPages \in Nat
      /\ poll.start = poll.pages * PageSize
  BY PageAssumption DEF PageInv
<1>2. poll.start \in Nat
  BY <1>1
<1> SUFFICES ASSUME n > poll.start + PageSize PROVE FALSE
  BY <1>1, <1>2
<1>3. full \subseteq ParsedPage /\ ParsedPage \subseteq 1 .. n
  BY <1>1, <1>2 DEF ParsedPage, PageEntries
<1>4. IsFiniteSet(1 .. n) /\ Cardinality(full) = PageSize
  <2> HIDE DEF n
  <2>1. IsFiniteSet(1 .. n)
    BY <1>1, FS_Interval
  <2>2. poll.start \in Nat /\ PageSize \in Nat /\ PageSize >= 1
    BY <1>1, <1>2
  <2>3. /\ poll.start + 1 \in Int /\ poll.start + PageSize \in Int
        /\ ~ (poll.start + 1 > poll.start + PageSize)
        /\ (poll.start + PageSize) - (poll.start + 1) + 1 = PageSize
    BY <2>2
  <2> QED
    BY <2>1, <2>3, FS_Interval
<1>5. IsFiniteSet(ParsedPage) /\ Cardinality(full) <= Cardinality(ParsedPage)
  BY <1>3, <1>4, FS_Subset
<1>6. Cardinality(ParsedPage) \in Nat
  BY <1>5, FS_CardinalityType
<1>7. ParsedPage # {}
  <2>1. poll.start + 1 \in full
    BY <1>1, <1>2
  <2> QED
    BY <1>3, <2>1
<1>8. poll.pages + 1 # MaxPages
  <2>1. poll.pages + 1 = MaxPages => poll.start + PageSize = PageSize * MaxPages
    BY <1>1
  <2> QED
    BY <1>1, <1>2, <2>1
<1>9. /\ ~ (Cardinality(ParsedPage) < PageSize)
      /\ ~ (poll.start + PageSize >= n)
  BY <1>1, <1>2, <1>4, <1>5, <1>6
<1> QED
  BY <1>7, <1>8, <1>9 DEF SearchEnds

(* For any page size, any page limit and any listing that fits, search_all    *)
(* returns everything that is listed.                                         *)
THEOREM SearchIsComplete == PollSpec => SearchFindsAll
<1> DEFINE A == (/\ poll.stage = "page" /\ poll' = Idle /\ outcome'.state = "success"
                 /\ \A i \in DOMAIN poll.listing : poll.listing[i]
                 /\ Len(poll.listing) <= PageSize * MaxPages)
                => outcome'.records = DOMAIN poll.listing
<1>1. PollInv /\ [PollNext]_pollVars => [A]_pollVars
  <2> SUFFICES ASSUME PollInv, PollNext, poll.stage = "page", poll' = Idle,
                      outcome'.state = "success",
                      \A i \in DOMAIN poll.listing : poll.listing[i],
                      Len(poll.listing) <= PageSize * MaxPages
               PROVE  outcome'.records = DOMAIN poll.listing
    OBVIOUS
  <2>1. ReadPage
    BY OnlyPagesAreRead
  <2>2. ~ Raise("error")
    BY DEF Raise
  <2>3. ~ Continue([records |-> poll.records \union ParsedPage,
                    start |-> poll.start + PageSize, pages |-> poll.pages + 1])
    <3> SUFFICES ASSUME Continue([records |-> poll.records \union ParsedPage,
                    start |-> poll.start + PageSize, pages |-> poll.pages + 1]) PROVE FALSE
      OBVIOUS
    <3>1. "start" \in DOMAIN poll'
      BY DEF Continue, With
    <3> QED
      BY <3>1 DEF Idle
  <2>4. SearchEnds /\ outcome'.records = poll.records \union ParsedPage
    BY <2>1, <2>2, <2>3 DEF ReadPage, Deliver
  <2>5. PageInv
    BY DEF PollInv
  <2>6. Len(poll.listing) <= poll.start + PageSize
    BY <2>4, <2>5, LastPageReachesEnd
  <2>7. /\ Len(poll.listing) \in Nat /\ DOMAIN poll.listing = 1 .. Len(poll.listing)
        /\ poll.start \in Nat /\ PageSize \in Nat
        /\ poll.records = {i \in DOMAIN poll.listing : i <= poll.start /\ poll.listing[i]}
    BY <2>5, PageAssumption DEF PageInv
  <2>8. poll.records \union ParsedPage = DOMAIN poll.listing
    BY <2>6, <2>7 DEF ParsedPage, PageEntries
  <2> QED
    BY <2>4, <2>8
<1>2. SearchFindsAll <=> [][A]_pollVars
  BY DEF SearchFindsAll
<1> QED
  BY PollInvariant, <1>1, <1>2, PTL DEF PollSpec
=============================================================================
