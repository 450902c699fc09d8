------------------------ MODULE DatasetStatusProofs ------------------------
(***************************************************************************)
(* Proofs about DatasetStatus for every set of workers and datasets, every *)
(* registry and every number of polls, seeds, sweeps and rollbacks.        *)
(*                                                                         *)
(* Overlapping transactions mix their columns, so nothing follows from the *)
(* committed row alone: the inductive invariant says what every open       *)
(* transaction knows of the row it loaded (TxInv).  Two columns only grow, *)
(* last_success_at and last_checked_at, and that is what makes an old copy *)
(* safe to write from.                                                     *)
(***************************************************************************)
EXTENDS DatasetStatus, TLAPS

(* A row of dataset d that the four transactions can produce: health needs a  *)
(* success, and a row that was never polled is as the seed inserted it.       *)
Sound(d, r) ==
    /\ r.status = "absent" => r = Absent
    /\ r.status \in {"healthy", "stale"} => r.lastSuccess # Never
    /\ (~r.checked /\ r.status # "absent") => r.status = "disabled" /\ r.state = SeedState[d]

RowInv == \A d \in Datasets : Sound(d, row[d])

(* A poll leaves its mark in last_checked_at. *)
HistoryInv ==
    \A d \in Datasets : (last[d] # "not_run" \/ fails[d] # 0) => row[d].checked

(* What the copy snap[d] of a loaded row still says of the row. *)
Follows(d, snap, cur) ==
    /\ Sound(d, snap)
    /\ snap.status # "absent" /\ cur.status # "absent"
    /\ snap.lastSuccess # Never => cur.lastSuccess # Never
    /\ snap.checked => cur.checked

TxOK(t, rows) ==
    /\ t.op = "ingest" => t.result \in GoodStates
    /\ t.op = "error" => t.result \in ErrorStates
    /\ t.phase \in {"select", "insert", "inserted"} =>
         t.op \in {"ingest", "error", "seed"} /\ \E d \in Datasets : t.ds = {d}
    /\ t.phase = "inserted" =>
         \A d \in t.ds : rows[d] = Absent /\ t.snap[d] = NewRow(t.op, d)
    /\ t.phase = "loaded" => \A d \in t.ds : Follows(d, t.snap[d], rows[d])

TxInv == \A w \in Workers : TxOK(tx[w], row)

IInv == TypeOK /\ RowInv /\ HistoryInv /\ TxInv /\ StatusShowsLastPoll /\ FailuresAreCounted

(* The initial state satisfies the inductive invariant. *)
LEMMA InitIInv == Init => IInv
  <1> SUFFICES ASSUME Init PROVE IInv
    OBVIOUS
  <1> USE StatusAssumption
  <1>1. Absent \in Row
    BY DEF Absent, Row, Never
  <1>2. Idle.phase = "idle" /\ Idle.op = "none"
    BY DEF Idle
  <1>3. TypeOK
    BY <1>1 DEF Init, TypeOK, Idle
  <1>4. RowInv /\ HistoryInv
    <2>1. \A d \in Datasets : row[d] = Absent /\ last[d] = "not_run" /\ fails[d] = 0
      BY DEF Init
    <2>2. Absent.status = "absent"
      BY DEF Absent
    <2>3. RowInv
      BY <2>1, <2>2 DEF RowInv, Sound
    <2>4. HistoryInv
      BY <2>1 DEF HistoryInv
    <2>5. QED
      BY <2>3, <2>4
  <1>5. TxInv
    BY <1>2 DEF Init, TxInv, TxOK
  <1>6. StatusShowsLastPoll /\ FailuresAreCounted
    <2>1. \A d \in Datasets : row[d] = Absent /\ last[d] = "not_run" /\ fails[d] = 0
      BY DEF Init
    <2>2. Absent.status = "absent" /\ Absent.failures = 0
      BY DEF Absent
    <2>3. "absent" \in StatusesShowing("not_run")
      BY DEF StatusesShowing, BlockedStates
    <2>4. StatusShowsLastPoll
      BY <2>1, <2>2, <2>3 DEF StatusShowsLastPoll
    <2>5. FailuresAreCounted
      BY <2>1, <2>2 DEF FailuresAreCounted
    <2>6. QED
      BY <2>4, <2>5
  <1>7. QED
    BY <1>3, <1>4, <1>5, <1>6 DEF IInv

(* The UPDATE of a flush, column by column. *)
LEMMA WrittenColumns ==
  ASSUME NEW cur \in Row, NEW snap \in Row, NEW new \in Row
  PROVE  LET r == Written(cur, snap, new)
         IN /\ r \in Row
            /\ r.status = IF new.status = snap.status THEN cur.status ELSE new.status
            /\ r.lastSuccess = IF new.lastSuccess = snap.lastSuccess THEN cur.lastSuccess
                               ELSE new.lastSuccess
            /\ r.failures = IF new.failures = snap.failures THEN cur.failures ELSE new.failures
            /\ r.state = IF new.state = snap.state THEN cur.state ELSE new.state
            /\ r.checked = IF new.checked = snap.checked THEN cur.checked ELSE new.checked
  <1>1. DOMAIN new = {"status", "lastSuccess", "failures", "state", "checked", "interval"}
    BY DEF Row
  <1>2. QED
    BY <1>1 DEF Written, Row

(* A transaction may set a row to new when it loaded snap: it fabricates no   *)
(* health, forgets no success and no poll, and leaves an unpolled row as the  *)
(* seed made it.                                                              *)
MaySet(d, snap, new) ==
    /\ new \in Row
    /\ new.status # "absent"
    /\ new.lastSuccess # snap.lastSuccess => new.lastSuccess # Never
    /\ snap.checked => new.checked
    /\ new.status \in {"healthy", "stale"} => new.lastSuccess # Never
    /\ ~new.checked => new.status = "disabled" /\ new.state = SeedState[d]

(* Writing it column by column over a row that moved on is just as safe. *)
LEMMA WrittenIsSound ==
  ASSUME NEW d \in Datasets, NEW cur \in Row, NEW snap \in Row, NEW new \in Row,
         MaySet(d, snap, new),
         (Sound(d, cur) /\ Follows(d, snap, cur)) \/ cur = snap
  PROVE  LET r == Written(cur, snap, new)
         IN /\ r \in Row
            /\ Sound(d, r)
            /\ r.status # "absent"
            /\ cur.lastSuccess # Never => r.lastSuccess # Never
            /\ (cur.checked \/ new.checked) => r.checked
            /\ cur = snap => /\ r.status = new.status
                             /\ r.state = new.state
                             /\ r.failures = new.failures
  <1> DEFINE r == Written(cur, snap, new)
  <1>1. /\ r \in Row
        /\ r.status = IF new.status = snap.status THEN cur.status ELSE new.status
        /\ r.lastSuccess = IF new.lastSuccess = snap.lastSuccess THEN cur.lastSuccess
                           ELSE new.lastSuccess
        /\ r.failures = IF new.failures = snap.failures THEN cur.failures ELSE new.failures
        /\ r.state = IF new.state = snap.state THEN cur.state ELSE new.state
        /\ r.checked = IF new.checked = snap.checked THEN cur.checked ELSE new.checked
    BY WrittenColumns
  <1> HIDE DEF r
  <1>2. /\ snap.status # "absent" => cur.status # "absent" 
        /\ snap.lastSuccess # Never => cur.lastSuccess # Never
        /\ snap.checked => cur.checked
    BY DEF Follows
  <1>3. cur.checked \in BOOLEAN /\ snap.checked \in BOOLEAN /\ new.checked \in BOOLEAN
    BY DEF Row
  <1>4. r.status # "absent"
    BY <1>1, <1>2 DEF MaySet
  <1>5. cur.lastSuccess # Never => r.lastSuccess # Never
    BY <1>1 DEF MaySet
  <1>6. r.status \in {"healthy", "stale"} => r.lastSuccess # Never
    BY <1>1, <1>2 DEF MaySet, Sound
  <1>7. (cur.checked \/ new.checked) => r.checked
    BY <1>1, <1>2, <1>3 DEF MaySet
  <1>8. ~r.checked => r.status = "disabled" /\ r.state = SeedState[d]
    <2> SUFFICES ASSUME ~r.checked PROVE r.status = "disabled" /\ r.state = SeedState[d]
      OBVIOUS
    <2>1. ~cur.checked /\ ~new.checked /\ ~snap.checked
      BY <1>2, <1>7
    <2>2. new.status = "disabled" /\ new.state = SeedState[d]
      BY <2>1 DEF MaySet
    <2>3. CASE Follows(d, snap, cur)
      BY <1>1, <2>1, <2>2, <2>3 DEF Follows, Sound
    <2>4. CASE cur = snap
      BY <1>1, <2>2, <2>4
    <2>5. QED
      BY <2>3, <2>4
  <1>9. Sound(d, r)
    BY <1>4, <1>6, <1>8 DEF Sound
  <1>10. QED
    BY <1>1, <1>4, <1>5, <1>7, <1>9 DEF r

(* A commit by w of objects it may set: every row stays sound, and every open *)
(* transaction keeps what it knew.                                            *)
LEMMA CommitStep ==
  ASSUME IInv, NEW w \in Workers, tx[w].phase \in {"inserted", "loaded"},
         NEW new, \A d \in tx[w].ds : MaySet(d, tx[w].snap[d], new[d]),
         Commit(w, new)
  PROVE  /\ row' \in [Datasets -> Row] /\ RowInv' /\ TxInv'
         /\ tx'[w] = Idle /\ \A v \in Workers \ {w} : tx'[v] = tx[v]
         /\ \A d \in Datasets \ tx[w].ds : row'[d] = row[d]
         /\ \A d \in tx[w].ds : row[d].checked \/ new[d].checked => row'[d].checked
         /\ \A d \in tx[w].ds \ Stale(w) : /\ row'[d].status = new[d].status
                                           /\ row'[d].state = new[d].state
                                           /\ row'[d].failures = new[d].failures
  <1> USE StatusAssumption
  <1> DEFINE t == tx[w]
             cur(d) == IF t.phase = "inserted" THEN t.snap[d] ELSE row[d]
  <1>1. TypeOK /\ RowInv /\ TxInv
    BY DEF IInv
  <1>2. /\ t.ds \subseteq Datasets /\ t.snap \in [Datasets -> Row] /\ row \in [Datasets -> Row]
        /\ tx' = [tx EXCEPT ![w] = Idle]
        /\ Workers = DOMAIN tx
    BY <1>1 DEF TypeOK, Commit
  <1>3. \A d \in Datasets : row'[d] = IF d \notin t.ds THEN row[d]
                                      ELSE Written(cur(d), t.snap[d], new[d])
    BY DEF Commit
  <1>4. ASSUME NEW d \in t.ds
        PROVE  /\ cur(d) \in Row /\ t.snap[d] \in Row /\ new[d] \in Row
               /\ (Sound(d, cur(d)) /\ Follows(d, t.snap[d], cur(d))) \/ cur(d) = t.snap[d]
               /\ t.phase = "inserted" => row[d] = Absent
    <2>1. cur(d) \in Row /\ t.snap[d] \in Row /\ new[d] \in Row
      BY <1>2 DEF MaySet
    <2>2. CASE t.phase = "loaded"
      BY <1>1, <1>2, <2>1, <2>2 DEF TxInv, TxOK, RowInv
    <2>3. CASE t.phase = "inserted"
      BY <1>1, <2>1, <2>3 DEF TxInv, TxOK
    <2>4. QED
      BY <2>2, <2>3
  <1>5. ASSUME NEW d \in t.ds
        PROVE  /\ row'[d] \in Row /\ Sound(d, row'[d]) /\ row'[d].status # "absent"
               /\ row[d].lastSuccess # Never => row'[d].lastSuccess # Never
               /\ (row[d].checked \/ new[d].checked) => row'[d].checked
               /\ d \notin Stale(w) => /\ row'[d].status = new[d].status
                                       /\ row'[d].state = new[d].state
                                       /\ row'[d].failures = new[d].failures
    <2> DEFINE c == cur(d)
               s == t.snap[d]
               n == new[d]
               r == Written(c, s, n)
    <2>1. /\ c \in Row /\ s \in Row /\ n \in Row /\ d \in Datasets
          /\ MaySet(d, s, n)
          /\ (Sound(d, c) /\ Follows(d, s, c)) \/ c = s
      BY <1>2, <1>4
    <2>2. row'[d] = r
      BY <1>2, <1>3
    <2>3. /\ d \notin Stale(w) => c = s
          /\ (row[d].lastSuccess # Never \/ row[d].checked) => c = row[d]
      <3>1. CASE t.phase = "inserted"
        <4>1. row[d] = Absent /\ c = s
          BY <1>4, <3>1
        <4>2. Absent.lastSuccess = Never /\ Absent.checked = FALSE
          BY DEF Absent
        <4>3. QED
          BY <4>1, <4>2
      <3>2. CASE t.phase = "loaded"
        BY <3>2 DEF Stale
      <3>3. QED
        BY <3>1, <3>2
    <2> HIDE DEF c, s, n
    <2>4. /\ r \in Row /\ Sound(d, r) /\ r.status # "absent"
          /\ c.lastSuccess # Never => r.lastSuccess # Never
          /\ (c.checked \/ n.checked) => r.checked
          /\ c = s => r.status = n.status /\ r.state = n.state /\ r.failures = n.failures
      BY <2>1, WrittenIsSound
    <2> HIDE DEF r
    <2>5. QED
      BY <2>2, <2>3, <2>4 DEF n
  <1>6. row' \in [Datasets -> Row]
    <2>1. \A d \in Datasets : row'[d] \in Row
      BY <1>2, <1>3, <1>5
    <2>2. row' = [d \in Datasets |-> row'[d]]
      BY DEF Commit
    <2>3. QED
      BY <2>1, <2>2
  <1>7. RowInv'
    BY <1>1, <1>2, <1>3, <1>5 DEF RowInv
  <1>8. tx'[w] = Idle /\ \A v \in Workers \ {w} : tx'[v] = tx[v]
    BY <1>2
  <1>9. TxInv'
    <2> SUFFICES ASSUME NEW v \in Workers
                 PROVE  TxOK(tx'[v], row')
      BY DEF TxInv
    <2>1. CASE v = w
      BY <1>8, <2>1 DEF Idle, TxOK
    <2>2. CASE v # w
      <3> DEFINE u == tx[v]
      <3>1. /\ tx'[v] = u /\ u.ds \subseteq Datasets
            /\ u.op = "ingest" => u.result \in GoodStates
            /\ u.op = "error" => u.result \in ErrorStates
            /\ u.phase \in {"select", "insert", "inserted"} =>
                 u.op \in {"ingest", "error", "seed"} /\ \E d \in Datasets : u.ds = {d}
            /\ u.phase = "inserted" =>
                 \A d \in u.ds : row[d] = Absent /\ u.snap[d] = NewRow(u.op, d)
            /\ u.phase = "loaded" => \A d \in u.ds : Follows(d, u.snap[d], row[d])
        BY <1>1, <1>8, <2>2 DEF TxInv, TxOK, TypeOK
      <3>2. ASSUME u.phase = "inserted", NEW d \in u.ds PROVE d \notin t.ds
        <4>1. CASE t.phase = "inserted"
          BY <1>1, <2>2, <3>2, <4>1 DEF TypeOK
        <4>2. CASE t.phase = "loaded"
          <5>1. d \in t.ds => row[d].status # "absent"
            BY <1>1, <4>2 DEF TxInv, TxOK, Follows
          <5>2. row[d].status = "absent"
            BY <3>1, <3>2 DEF Absent
          <5>3. QED
            BY <5>1, <5>2
        <4>3. QED
          BY <4>1, <4>2
      <3>3. ASSUME u.phase = "loaded", NEW d \in u.ds PROVE Follows(d, u.snap[d], row'[d])
        <4>1. Follows(d, u.snap[d], row[d]) /\ d \in Datasets
          BY <3>1, <3>3
        <4>2. CASE d \in t.ds
          BY <1>5, <4>1, <4>2 DEF Follows
        <4>3. CASE d \notin t.ds
          BY <1>3, <4>1, <4>3
        <4>4. QED
          BY <4>2, <4>3
      <3>4. u.phase = "inserted" => \A d \in u.ds : row'[d] = row[d]
        BY <1>3, <3>1, <3>2
      <3> HIDE DEF u
      <3>5. QED
        BY <3>1, <3>3, <3>4 DEF TxOK
    <2>3. QED
      BY <2>1, <2>2
  <1>10. QED
    BY <1>2, <1>3, <1>5, <1>6, <1>7, <1>8, <1>9

(* The type of a transaction, and its use by TypeOK. *)
Transaction ==
    [op : {"none", "ingest", "error", "sweep", "seed"},
     phase : {"idle", "select", "insert", "inserted", "loaded"},
     ds : SUBSET Datasets, at : 0 .. MaxClock,
     result : GoodStates \cup ErrorStates \cup {"not_run"},
     snap : [Datasets -> Row], scored : SUBSET Datasets]

(* A step that only moves w's transaction on keeps the invariant. *)
LEMMA TransactionStep ==
  ASSUME IInv, NEW w \in Workers, NEW u \in Transaction, TxOK(u, row),
         tx' = [tx EXCEPT ![w] = u],
         u.phase = "inserted" =>
           \A v \in Workers \ {w} : tx[v].phase = "inserted" => tx[v].ds \cap u.ds = {},
         UNCHANGED <<clock, row, score, last, fails, raced>>,
         polls' \in 0 .. MaxPolls, seeds' \in 0 .. MaxSeeds, faults' \in 0 .. MaxFaults
  PROVE  IInv'
  <1>1. TypeOK /\ RowInv /\ HistoryInv /\ TxInv /\ StatusShowsLastPoll /\ FailuresAreCounted
    BY DEF IInv
  <1>2. tx \in [Workers -> Transaction]
    BY <1>1 DEF TypeOK, Transaction
  <1>3. tx'[w] = u /\ \A v \in Workers \ {w} : tx'[v] = tx[v]
    BY <1>2
  <1>4. tx' \in [Workers -> Transaction]
    BY <1>2
  <1>5. \A v, x \in Workers : v # x /\ tx'[v].phase = "inserted" /\ tx'[x].phase = "inserted"
                               => tx'[v].ds \cap tx'[x].ds = {}
    <2> SUFFICES ASSUME NEW v \in Workers, NEW x \in Workers, v # x,
                        tx'[v].phase = "inserted", tx'[x].phase = "inserted"
                 PROVE  tx'[v].ds \cap tx'[x].ds = {}
      OBVIOUS
    <2>1. CASE v = w
      BY <1>3, <2>1
    <2>2. CASE x = w
      BY <1>3, <2>2
    <2>3. CASE v # w /\ x # w
      BY <1>1, <1>3, <2>3 DEF TypeOK
    <2>4. QED
      BY <2>1, <2>2, <2>3
  <1>6. TypeOK'
    BY <1>1, <1>4, <1>5 DEF TypeOK, Transaction
  <1>7. TxInv'
    BY <1>1, <1>3 DEF TxInv
  <1>8. RowInv' /\ HistoryInv'
    BY <1>1 DEF RowInv, HistoryInv
  <1>9. StatusShowsLastPoll' /\ FailuresAreCounted'
    BY <1>1 DEF StatusShowsLastPoll, FailuresAreCounted
  <1>10. QED
    BY <1>6, <1>7, <1>8, <1>9 DEF IInv

(* Being idle is always safe: a rolled back transaction leaves no trace. *)
LEMMA IdleIsSafe == Idle \in Transaction /\ TxOK(Idle, row) /\ Idle.phase = "idle"
  <1> USE StatusAssumption
  <1>1. Absent \in Row
    BY DEF Absent, Row, Never
  <1>2. Idle \in Transaction
    BY <1>1 DEF Idle, Transaction
  <1>3. QED
    BY <1>2 DEF Idle, TxOK

(* The steps before the commit, and the ways a transaction ends without one. *)
LEMMA OpenStep ==
  ASSUME IInv, NEW w \in Workers,
         \/ \E d \in Datasets : FetchSucceeds(w, d) \/ FetchFails(w, d) \/ BeginSeed(w, d)
         \/ BeginSweep(w) \/ SelectDataset(w) \/ InsertDataset(w) \/ Rollback(w)
  PROVE  IInv'
  <1> USE StatusAssumption
  <1>1. TypeOK /\ RowInv /\ TxInv
    BY DEF IInv
  <1>2. tx \in [Workers -> Transaction] /\ row \in [Datasets -> Row]
    BY <1>1 DEF TypeOK, Transaction
  <1>3. /\ tx[w] \in Transaction /\ TxOK(tx[w], row)
        /\ clock \in 0 .. MaxClock /\ polls \in 0 .. MaxPolls
        /\ seeds \in 0 .. MaxSeeds /\ faults \in 0 .. MaxFaults
    BY <1>1, <1>2 DEF TypeOK, TxInv
  <1>4. Idle \in Transaction /\ TxOK(Idle, row) /\ Idle.phase = "idle"
    BY IdleIsSafe
  <1>5. ASSUME NEW d \in Datasets, NEW op \in {"ingest", "error"},
               NEW s \in GoodStates \cup ErrorStates, Poll(w, d, op, s),
               op = "ingest" => s \in GoodStates, op = "error" => s \in ErrorStates
        PROVE  IInv'
    <2> DEFINE u == [Idle EXCEPT !.op = op, !.phase = "select", !.ds = {d},
                                 !.at = clock, !.result = s]
    <2>1. u \in Transaction
      BY <1>3, <1>4 DEF Transaction
    <2>2. TxOK(u, row) /\ u.phase = "select"
      BY <1>5 DEF TxOK, Idle
    <2>3. tx' = [tx EXCEPT ![w] = u] /\ polls' \in 0 .. MaxPolls
          /\ UNCHANGED <<clock, row, score, seeds, faults, last, fails, raced>>
      BY <1>3, <1>5 DEF Poll
    <2> HIDE DEF u
    <2>4. QED
      BY <1>3, <2>1, <2>2, <2>3, TransactionStep
  <1>6. ASSUME NEW d \in Datasets, BeginSeed(w, d) PROVE IInv'
    <2> DEFINE u == [Idle EXCEPT !.op = "seed", !.phase = "select", !.ds = {d}]
    <2>1. u \in Transaction
      BY <1>4 DEF Transaction
    <2>2. TxOK(u, row) /\ u.phase = "select"
      BY DEF TxOK, Idle
    <2>3. tx' = [tx EXCEPT ![w] = u] /\ seeds < MaxSeeds /\ seeds' = seeds + 1
          /\ UNCHANGED <<clock, row, score, polls, faults, last, fails, raced>>
      BY <1>6 DEF BeginSeed
    <2> HIDE DEF u
    <2>4. seeds' \in 0 .. MaxSeeds
      BY <1>3, <2>3
    <2>5. QED
      BY <1>3, <2>1, <2>2, <2>3, <2>4, TransactionStep
  <1>7. ASSUME BeginSweep(w) PROVE IInv'
    <2> DEFINE ds == {d \in Datasets : row[d] # Absent}
               scored == {d \in Datasets : score[d] # "none"}
               u == [Idle EXCEPT !.op = "sweep", !.phase = "loaded", !.at = clock, !.snap = row,
                                 !.ds = ds, !.scored = scored]
    <2>1. u \in Transaction
      BY <1>2, <1>3, <1>4 DEF Transaction
    <2>2. ASSUME NEW d \in ds PROVE Follows(d, row[d], row[d])
      BY <1>1 DEF RowInv, Sound, Follows
    <2>3. u.op = "sweep" /\ u.phase = "loaded" /\ u.snap = row /\ u.ds = ds
      BY DEF Idle
    <2>4. tx' = [tx EXCEPT ![w] = u]
          /\ UNCHANGED <<clock, row, score, polls, seeds, faults, last, fails, raced>>
      BY <1>7 DEF BeginSweep
    <2> HIDE DEF u
    <2>5. TxOK(u, row)
      BY <1>3, <2>2, <2>3 DEF TxOK
    <2>6. QED
      BY <1>3, <2>1, <2>3, <2>4, <2>5, TransactionStep
  <1>8. ASSUME SelectDataset(w) PROVE IInv'
    <2> DEFINE ph == IF \E d \in tx[w].ds : row[d] = Absent THEN "insert" ELSE "loaded"
               u == [tx[w] EXCEPT !.snap = row, !.phase = ph]
    <2>1. u \in Transaction
      BY <1>2, <1>3 DEF Transaction
    <2>2. /\ u.op = tx[w].op /\ u.result = tx[w].result /\ u.ds = tx[w].ds
          /\ u.phase = ph /\ u.snap = row
      BY <1>3 DEF Transaction
    <2>3. tx' = [tx EXCEPT ![w] = u]
          /\ UNCHANGED <<clock, row, score, polls, seeds, faults, last, fails, raced>>
      BY <1>2, <1>3, <1>8 DEF SelectDataset, Transaction
    <2>4. ph = "loaded" => \A d \in tx[w].ds : Follows(d, row[d], row[d])
      BY <1>1, <1>3 DEF RowInv, Sound, Follows, Transaction
    <2>5. tx[w].phase = "select"
      BY <1>8 DEF SelectDataset
    <2> HIDE DEF u
    <2>6. TxOK(u, row)
      BY <1>3, <2>2, <2>4, <2>5 DEF TxOK
    <2>7. QED
      BY <1>3, <2>1, <2>2, <2>3, <2>6, TransactionStep
  <1>9. ASSUME tx' = [tx EXCEPT ![w] = Idle],
               UNCHANGED <<clock, row, score, polls, seeds, last, fails, raced>>,
               faults' \in 0 .. MaxFaults
        PROVE  IInv'
    BY <1>3, <1>4, <1>9, TransactionStep
  <1>10. ASSUME InsertDataset(w) PROVE IInv'
    <2>1. CASE \E d \in tx[w].ds : row[d] # Absent
      BY <1>3, <1>9, <1>10, <2>1 DEF InsertDataset
    <2>2. CASE ~ \E d \in tx[w].ds : row[d] # Absent
      <3> DEFINE snap == [d \in Datasets |->
                            IF d \in tx[w].ds THEN NewRow(tx[w].op, d) ELSE tx[w].snap[d]]
                 u == [tx[w] EXCEPT !.phase = "inserted", !.snap = snap]
      <3>1. \A op, d : d \in Datasets => NewRow(op, d) \in Row
        BY DEF NewRow, Row, Absent, Never, Statuses
      <3>2. snap \in [Datasets -> Row]
        BY <1>3, <3>1 DEF Transaction
      <3>3. u \in Transaction
        BY <1>3, <3>2 DEF Transaction
      <3>4. /\ u.op = tx[w].op /\ u.result = tx[w].result /\ u.ds = tx[w].ds
            /\ u.phase = "inserted" /\ u.snap = snap
        BY <1>3 DEF Transaction
      <3>5. tx' = [tx EXCEPT ![w] = u]
            /\ UNCHANGED <<clock, row, score, polls, seeds, faults, last, fails, raced>>
        BY <1>2, <1>3, <1>10, <2>2 DEF InsertDataset, Transaction
      <3>6. tx[w].phase = "insert" /\ tx[w].ds \subseteq Datasets
        BY <1>3, <1>10 DEF InsertDataset, Transaction
      <3>7. \A d \in tx[w].ds : row[d] = Absent /\ snap[d] = NewRow(tx[w].op, d)
        BY <2>2, <3>6
      <3>8. \A v \in Workers \ {w} : tx[v].phase = "inserted" => tx[v].ds \cap tx[w].ds = {}
        <4> SUFFICES ASSUME NEW v \in Workers \ {w}, tx[v].phase = "inserted"
                     PROVE  tx[v].ds \cap tx[w].ds = {}
          OBVIOUS
        <4>1. (\E d \in Datasets : tx[v].ds = {d}) /\ (\E d \in Datasets : tx[w].ds = {d})
          BY <1>1, <3>6 DEF TxInv, TxOK
        <4>2. tx[v].ds # tx[w].ds
          BY <1>10 DEF InsertDataset
        <4>3. QED
          BY <4>1, <4>2
      <3> HIDE DEF u, snap
      <3>9. TxOK(u, row)
        BY <1>3, <3>4, <3>6, <3>7 DEF TxOK
      <3>10. QED
        BY <1>3, <3>3, <3>4, <3>5, <3>8, <3>9, TransactionStep
    <2>3. QED
      BY <2>1, <2>2
  <1>11. ASSUME Rollback(w) PROVE IInv'
    BY <1>3, <1>9, <1>11 DEF Rollback
  <1>12. QED
    BY <1>5, <1>6, <1>7, <1>8, <1>10, <1>11 DEF FetchSucceeds, FetchFails

(* What a transaction that is ready to commit knows of the row it will write. *)
LEMMA ReadyKnows ==
  ASSUME IInv, NEW w \in Workers, tx[w].phase \in {"inserted", "loaded"}, NEW d \in tx[w].ds
  PROVE  LET s == tx[w].snap[d]
         IN /\ d \in Datasets /\ s \in Row /\ row[d] \in Row
            /\ s.status # "absent"
            /\ s.status \in {"healthy", "stale"} => s.lastSuccess # Never
            /\ (tx[w].op \in {"seed", "sweep"} /\ ~s.checked) =>
                 s.status = "disabled" /\ s.state = SeedState[d]
            /\ tx[w].phase = "inserted" =>
                 /\ row[d].status = "absent" /\ row[d].checked = FALSE
                 /\ s.failures = row[d].failures /\ tx[w].op # "sweep"
                 /\ tx[w].op = "seed" => s.checked = FALSE
            /\ (tx[w].phase = "loaded" /\ d \notin Stale(w)) => s = row[d]
  <1>1. TypeOK /\ TxInv /\ TxOK(tx[w], row)
    BY DEF IInv, TxInv
  <1>2. tx[w] \in Transaction /\ row \in [Datasets -> Row]
    BY <1>1 DEF TypeOK, Transaction
  <1>3. d \in Datasets /\ tx[w].snap[d] \in Row /\ row[d] \in Row
    BY <1>2 DEF Transaction
  <1>4. CASE tx[w].phase = "inserted"
    <2>1. row[d] = Absent /\ tx[w].snap[d] = NewRow(tx[w].op, d)
          /\ tx[w].op \in {"ingest", "error", "seed"}
      BY <1>1, <1>4 DEF TxOK
    <2>2. Absent.status = "absent" /\ Absent.checked = FALSE /\ Absent.failures = 0
      BY DEF Absent
    <2>3. LET n == NewRow(tx[w].op, d)
          IN /\ n.status = "disabled" /\ n.checked = FALSE /\ n.failures = 0
             /\ tx[w].op = "seed" => n.state = SeedState[d]
      BY DEF NewRow, Absent
    <2>4. QED
      BY <1>3, <1>4, <2>1, <2>2, <2>3
  <1>5. CASE tx[w].phase = "loaded"
    <2>1. Follows(d, tx[w].snap[d], row[d])
      BY <1>1, <1>5 DEF TxOK
    <2>2. d \notin Stale(w) => tx[w].snap[d] = row[d]
      BY <1>5 DEF Stale
    <2>3. QED
      BY <1>3, <1>5, <2>1, <2>2 DEF Follows, Sound
  <1>6. QED
    BY <1>4, <1>5

(* A commit keeps the invariant when what it writes agrees with the history,  *)
(* where no other transaction interfered.                                     *)
LEMMA CommitKeeps ==
  ASSUME IInv, NEW w \in Workers, tx[w].phase \in {"inserted", "loaded"},
         NEW new, \A d \in tx[w].ds : MaySet(d, tx[w].snap[d], new[d]),
         Commit(w, new),
         last' \in [Datasets -> GoodStates \cup ErrorStates \cup {"not_run"}],
         fails' \in [Datasets -> Nat],
         score' \in [Datasets -> {"none", "fresh", "stale"}],
         UNCHANGED <<clock, polls, seeds, faults>>,
         \A d \in Datasets \ tx[w].ds : last'[d] = last[d] /\ fails'[d] = fails[d],
         \A d \in tx[w].ds : \/ last'[d] = "not_run" /\ fails'[d] = 0
                             \/ row[d].checked
                             \/ new[d].checked,
         \A d \in tx[w].ds : (d \notin Stale(w) /\ (tx[w].op = "ingest" \/ d \notin raced)) =>
             new[d].status \in StatusesShowing(last'[d]) /\ new[d].failures = fails'[d]
  PROVE  IInv'
  <1>1. TypeOK /\ HistoryInv /\ StatusShowsLastPoll /\ FailuresAreCounted
    BY DEF IInv
  <1>2. /\ row' \in [Datasets -> Row] /\ RowInv' /\ TxInv'
        /\ tx'[w] = Idle /\ \A v \in Workers \ {w} : tx'[v] = tx[v]
        /\ \A d \in Datasets \ tx[w].ds : row'[d] = row[d]
        /\ \A d \in tx[w].ds : row[d].checked \/ new[d].checked => row'[d].checked
        /\ \A d \in tx[w].ds \ Stale(w) : /\ row'[d].status = new[d].status
                                          /\ row'[d].state = new[d].state
                                          /\ row'[d].failures = new[d].failures
    BY CommitStep
  <1>3. /\ tx \in [Workers -> Transaction] /\ tx' = [tx EXCEPT ![w] = Idle]
        /\ tx[w].ds \subseteq Datasets
    BY <1>1 DEF TypeOK, Commit, Transaction
  <1>4. raced' = Stale(w) \cup IF tx[w].op = "ingest" THEN raced \ tx[w].ds ELSE raced
    BY DEF Commit
  <1>5. tx' \in [Workers -> Transaction] /\ Idle.phase = "idle"
    BY <1>3, IdleIsSafe
  <1>6. \A v, x \in Workers : v # x /\ tx'[v].phase = "inserted" /\ tx'[x].phase = "inserted"
                               => tx'[v].ds \cap tx'[x].ds = {}
    BY <1>1, <1>2, <1>5 DEF TypeOK
  <1>7. raced' \in SUBSET Datasets
    BY <1>1, <1>3, <1>4 DEF TypeOK, Stale
  <1>8. TypeOK'
    <2>1. /\ clock' \in 0 .. MaxClock /\ polls' \in 0 .. MaxPolls
          /\ seeds' \in 0 .. MaxSeeds /\ faults' \in 0 .. MaxFaults
      BY <1>1 DEF TypeOK
    <2>2. QED
      BY <1>2, <1>5, <1>6, <1>7, <2>1 DEF TypeOK, Transaction
  <1>9. HistoryInv'
    <2> SUFFICES ASSUME NEW d \in Datasets, last'[d] # "not_run" \/ fails'[d] # 0
                 PROVE  row'[d].checked
      BY DEF HistoryInv
    <2>1. CASE d \in tx[w].ds
      BY <1>2, <2>1
    <2>2. CASE d \notin tx[w].ds
      BY <1>1, <1>2, <2>2 DEF HistoryInv
    <2>3. QED
      BY <2>1, <2>2
  <1>10. ASSUME NEW d \in Datasets \ raced'
         PROVE  row'[d].status \in StatusesShowing(last'[d]) /\ row'[d].failures = fails'[d]
    <2>1. d \notin Stale(w) /\ (d \in tx[w].ds => tx[w].op = "ingest" \/ d \notin raced)
          /\ (d \notin tx[w].ds => d \notin raced)
      BY <1>4
    <2>2. CASE d \in tx[w].ds
      BY <1>2, <2>1, <2>2
    <2>3. CASE d \notin tx[w].ds
      BY <1>1, <1>2, <2>1, <2>3 DEF StatusShowsLastPoll, FailuresAreCounted
    <2>4. QED
      BY <2>2, <2>3
  <1>11. StatusShowsLastPoll' /\ FailuresAreCounted'
    BY <1>10 DEF StatusShowsLastPoll, FailuresAreCounted
  <1>12. QED
    BY <1>2, <1>8, <1>9, <1>11 DEF IInv

(* A successful ingest. *)
LEMMA IngestStep == ASSUME IInv, NEW w \in Workers, CommitIngest(w) PROVE IInv'
  <1> USE StatusAssumption
  <1> DEFINE t == tx[w]
             st == IF t.result = "degraded" THEN "degraded" ELSE "healthy"
             new == [d \in Datasets |->
                       [t.snap[d] EXCEPT !.lastSuccess = t.at, !.checked = TRUE, !.failures = 0,
                                         !.state = t.result, !.status = st]]
  <1>1. /\ t.op = "ingest" /\ t.phase \in {"inserted", "loaded"} /\ Commit(w, new)
        /\ last' = [d \in Datasets |-> IF d \in t.ds THEN t.result ELSE last[d]]
        /\ fails' = [d \in Datasets |-> IF d \in t.ds THEN 0 ELSE fails[d]]
        /\ UNCHANGED <<clock, score, polls, seeds, faults>>
    BY DEF CommitIngest, Ready
  <1>2. TypeOK /\ TxOK(t, row)
    BY DEF IInv, TxInv
  <1>3. t.result \in GoodStates /\ t.at \in Nat /\ t.at # Never
    <2>1. t.result \in GoodStates
      BY <1>1, <1>2 DEF TxOK
    <2>2. t.at \in 0 .. MaxClock
      BY <1>2 DEF TypeOK
    <2>3. QED
      BY <2>1, <2>2 DEF Never
  <1>4. st \in StatusesShowing(t.result) /\ st \in Statuses
    BY <1>3 DEF StatusesShowing, BlockedStates, Statuses
  <1>5. ASSUME NEW d \in t.ds
        PROVE  /\ MaySet(d, t.snap[d], new[d])
               /\ new[d].checked /\ new[d].status = st /\ new[d].failures = 0
    <2>1. d \in Datasets /\ t.snap[d] \in Row
      BY <1>1, ReadyKnows
    <2>2. /\ new[d] \in Row /\ new[d].checked = TRUE /\ new[d].status = st
          /\ new[d].failures = 0 /\ new[d].lastSuccess = t.at
      BY <1>3, <1>4, <2>1 DEF Row
    <2> HIDE DEF new
    <2>3. QED
      BY <1>3, <1>4, <2>2 DEF MaySet, Statuses
  <1>6. /\ last' \in [Datasets -> GoodStates \cup ErrorStates \cup {"not_run"}]
        /\ fails' \in [Datasets -> Nat] /\ t.ds \subseteq Datasets
        /\ score' \in [Datasets -> {"none", "fresh", "stale"}]
    BY <1>1, <1>2, <1>3 DEF TypeOK
  <1>7. /\ \A d \in Datasets \ t.ds : last'[d] = last[d] /\ fails'[d] = fails[d]
        /\ \A d \in t.ds : last'[d] = t.result /\ fails'[d] = 0
    BY <1>1, <1>6
  <1> HIDE DEF new, st
  <1>8. QED
    BY <1>1, <1>4, <1>5, <1>6, <1>7, CommitKeeps

(* A recorded fetch failure. *)
LEMMA ErrorStep == ASSUME IInv, NEW w \in Workers, CommitSourceError(w) PROVE IInv'
  <1> USE StatusAssumption
  <1> DEFINE t == tx[w]
             st == StatusOfError(t.result)
             count(n) == IF Counted(t.result) THEN n + 1 ELSE n
             new == [d \in Datasets |->
                       [t.snap[d] EXCEPT !.checked = TRUE, !.state = t.result, !.status = st,
                                         !.failures = count(@)]]
  <1>1. /\ t.op = "error" /\ t.phase \in {"inserted", "loaded"} /\ Commit(w, new)
        /\ last' = [d \in Datasets |-> IF d \in t.ds THEN t.result ELSE last[d]]
        /\ fails' = [d \in Datasets |-> IF d \in t.ds THEN count(fails[d]) ELSE fails[d]]
        /\ UNCHANGED <<clock, score, polls, seeds, faults>>
    BY DEF CommitSourceError, Ready, Counted
  <1>2. TypeOK /\ TxOK(t, row) /\ FailuresAreCounted
    BY DEF IInv, TxInv
  <1>3. t.result \in ErrorStates
    BY <1>1, <1>2 DEF TxOK
  <1>4. /\ st \in StatusesShowing(t.result) /\ st \in Statuses
        /\ st \notin {"healthy", "stale", "absent"}
    BY <1>3 DEF StatusesShowing, StatusOfError, BlockedStates, Statuses
  <1>5. ASSUME NEW d \in t.ds
        PROVE  /\ MaySet(d, t.snap[d], new[d])
               /\ new[d].checked /\ new[d].status = st
               /\ new[d].failures = count(t.snap[d].failures)
    <2>1. d \in Datasets /\ t.snap[d] \in Row
      BY <1>1, ReadyKnows
    <2>2. /\ new[d] \in Row /\ new[d].checked = TRUE /\ new[d].status = st
          /\ new[d].failures = count(t.snap[d].failures)
          /\ new[d].lastSuccess = t.snap[d].lastSuccess
      <3>1. count(t.snap[d].failures) \in Nat
        BY <2>1 DEF Row
      <3> HIDE DEF count
      <3>2. QED
        BY <1>3, <1>4, <2>1, <3>1 DEF Row
    <2> HIDE DEF new, count
    <2>3. QED
      BY <1>4, <2>2 DEF MaySet
  <1>6. /\ last' \in [Datasets -> GoodStates \cup ErrorStates \cup {"not_run"}]
        /\ fails' \in [Datasets -> Nat] /\ t.ds \subseteq Datasets
        /\ score' \in [Datasets -> {"none", "fresh", "stale"}]
    <2>1. \A d \in Datasets : count(fails[d]) \in Nat /\ fails[d] \in Nat
      BY <1>2 DEF TypeOK
    <2> HIDE DEF count
    <2>2. QED
      BY <1>1, <1>2, <1>3, <2>1 DEF TypeOK
  <1>7. /\ \A d \in Datasets \ t.ds : last'[d] = last[d] /\ fails'[d] = fails[d]
        /\ \A d \in t.ds : /\ last'[d] = t.result
                           /\ fails'[d] = count(fails[d])
    BY <1>1, <1>6
  <1>8. ASSUME NEW d \in t.ds, d \notin Stale(w), d \notin raced
        PROVE  new[d].failures = fails'[d]
    <2>1. t.snap[d].failures = row[d].failures
      BY <1>1, <1>8, ReadyKnows
    <2>2. row[d].failures = fails[d]
      BY <1>2, <1>6, <1>8 DEF FailuresAreCounted
    <2>3. new[d].failures = count(t.snap[d].failures) /\ fails'[d] = count(fails[d])
      BY <1>5, <1>7, <1>8
    <2> HIDE DEF new
    <2>4. QED
      BY <2>1, <2>2, <2>3
  <1> HIDE DEF new, st, count
  <1>9. \A d \in t.ds : (d \notin Stale(w) /\ (t.op = "ingest" \/ d \notin raced)) =>
             new[d].status \in StatusesShowing(last'[d]) /\ new[d].failures = fails'[d]
    BY <1>1, <1>4, <1>5, <1>7, <1>8
  <1>10. QED
    BY <1>1, <1>5, <1>6, <1>7, <1>9, CommitKeeps

(* The registry seed: it writes no status that the copy it loaded did not     *)
(* have, so it undoes nothing that was committed since.                       *)
LEMMA SeedStep ==
  ASSUME IInv, NEW w \in Workers, CommitSeed(w)
  PROVE  /\ IInv'
         /\ \A d \in Datasets : row[d].checked =>
              row'[d].status = row[d].status /\ row'[d].state = row[d].state
  <1> USE StatusAssumption
  <1> DEFINE t == tx[w]
             seeded(d) == IF Reseeds(t.snap[d])
                          THEN [t.snap[d] EXCEPT !.interval = SeedInterval[d],
                                                 !.status = "disabled", !.state = SeedState[d]]
                          ELSE [t.snap[d] EXCEPT !.interval = SeedInterval[d]]
             new == [d \in Datasets |-> seeded(d)]
  <1>1. /\ t.op = "seed" /\ t.phase \in {"inserted", "loaded"} /\ Commit(w, new)
        /\ UNCHANGED <<clock, score, polls, seeds, faults, last, fails>>
    BY DEF CommitSeed, Ready
  <1>2. TypeOK /\ HistoryInv /\ StatusShowsLastPoll /\ FailuresAreCounted
    BY DEF IInv
  <1>3. ASSUME NEW d \in t.ds
        PROVE  /\ MaySet(d, t.snap[d], new[d])
               /\ new[d].checked = t.snap[d].checked
               /\ new[d].status = t.snap[d].status /\ new[d].state = t.snap[d].state
               /\ new[d].failures = t.snap[d].failures
    <2> DEFINE s == t.snap[d]
    <2>1. /\ d \in Datasets /\ s \in Row /\ s.status # "absent"
          /\ s.status \in {"healthy", "stale"} => s.lastSuccess # Never
          /\ ~s.checked => s.status = "disabled" /\ s.state = SeedState[d]
      BY <1>1, ReadyKnows
    <2>2. /\ new[d] \in Row /\ new[d].checked = s.checked /\ new[d].failures = s.failures
          /\ new[d].lastSuccess = s.lastSuccess
          /\ Reseeds(s) => new[d].status = "disabled" /\ new[d].state = SeedState[d]
          /\ ~Reseeds(s) => new[d].status = s.status /\ new[d].state = s.state
      BY <2>1 DEF Row, Statuses
    <2>3. new[d].status = s.status /\ new[d].state = s.state
      BY <2>1, <2>2 DEF Reseeds
    <2> HIDE DEF new, s
    <2>4. MaySet(d, s, new[d])
      BY <2>1, <2>2, <2>3 DEF MaySet
    <2>5. QED
      BY <2>2, <2>3, <2>4 DEF s
  <1>4. /\ last' \in [Datasets -> GoodStates \cup ErrorStates \cup {"not_run"}]
        /\ fails' \in [Datasets -> Nat] /\ t.ds \subseteq Datasets
        /\ score' \in [Datasets -> {"none", "fresh", "stale"}]
    BY <1>1, <1>2 DEF TypeOK
  <1>5. \A d \in t.ds : (last'[d] = "not_run" /\ fails'[d] = 0) \/ row[d].checked
    BY <1>1, <1>2, <1>4 DEF HistoryInv
  <1>6. ASSUME NEW d \in t.ds, d \notin Stale(w), d \notin raced
        PROVE  new[d].status \in StatusesShowing(last'[d]) /\ new[d].failures = fails'[d]
    <2>1. /\ row[d].status \in StatusesShowing(last[d]) /\ row[d].failures = fails[d]
          /\ last'[d] = last[d] /\ fails'[d] = fails[d]
      BY <1>1, <1>2, <1>4, <1>6 DEF StatusShowsLastPoll, FailuresAreCounted
    <2>2. CASE t.phase = "loaded"
      <3>1. t.snap[d] = row[d]
        BY <1>1, <1>6, <2>2, ReadyKnows
      <3> HIDE DEF new
      <3>2. QED
        BY <1>3, <2>1, <3>1
    <2>3. CASE t.phase = "inserted"
      <3>1. /\ row[d].checked = FALSE /\ t.snap[d].failures = row[d].failures
            /\ t.snap[d].status = "disabled"
        BY <1>1, <2>3, ReadyKnows
      <3>2. last[d] = "not_run"
        BY <1>2, <1>4, <3>1 DEF HistoryInv
      <3>3. "disabled" \in StatusesShowing("not_run")
        BY DEF StatusesShowing, BlockedStates
      <3>4. QED
        BY <1>3, <2>1, <3>1, <3>2, <3>3
    <2>4. QED
      BY <1>1, <2>2, <2>3
  <1>7. ASSUME NEW d \in Datasets, row[d].checked
        PROVE  row'[d].status = row[d].status /\ row'[d].state = row[d].state
    <2>1. CASE d \notin t.ds
      BY <1>1, <2>1 DEF Commit
    <2>2. CASE d \in t.ds
      <3>1. t.phase = "loaded" /\ row[d] \in Row /\ t.snap[d] \in Row /\ new[d] \in Row
        BY <1>1, <1>3, <1>7, <2>2, ReadyKnows DEF MaySet
      <3>2. row'[d] = Written(row[d], t.snap[d], new[d])
        BY <1>1, <2>2, <3>1 DEF Commit
      <3> HIDE DEF new
      <3>3. QED
        BY <1>3, <2>2, <3>1, <3>2, WrittenColumns
    <2>3. QED
      BY <2>1, <2>2
  <1> HIDE DEF new
  <1>8. IInv'
    BY <1>1, <1>3, <1>4, <1>5, <1>6, CommitKeeps
  <1>9. QED
    BY <1>7, <1>8

(* The sweep moves a status only between healthy and stale. *)
LEMMA AgedStatusOutcome ==
  ASSUME NEW status \in Statuses, NEW old \in BOOLEAN
  PROVE  /\ AgedStatus(status, old) \in Statuses
         /\ AgedStatus(status, old) \in {"healthy", "stale"} <=> status \in {"healthy", "stale"}
         /\ status \notin {"healthy", "stale"} => AgedStatus(status, old) = status
         /\ \A result : status \in StatusesShowing(result) =>
                AgedStatus(status, old) \in StatusesShowing(result)
  BY DEF AgedStatus, Statuses, StatusesShowing, BlockedStates

(* The freshness sweep. *)
LEMMA SweepStep == ASSUME IInv, NEW w \in Workers, CommitSweep(w) PROVE IInv'
  <1> USE StatusAssumption
  <1> DEFINE t == tx[w]
             stale(d) == IsStale(t.snap[d].lastSuccess, t.snap[d].interval, t.at)
             clash == \E d \in t.ds \ t.scored : score[d] # "none"
             new == [d \in Datasets |-> [t.snap[d] EXCEPT !.status = AgedStatus(@, stale(d))]]
  <1>1. /\ t.op = "sweep" /\ t.phase \in {"inserted", "loaded"}
        /\ UNCHANGED <<clock, polls, seeds, faults, last, fails>>
    BY DEF CommitSweep, Ready
  <1>2. TypeOK /\ TxOK(t, row) /\ HistoryInv /\ StatusShowsLastPoll /\ FailuresAreCounted
    BY DEF IInv, TxInv
  <1>3. t.phase = "loaded" /\ t.ds \subseteq Datasets
    BY <1>1, <1>2 DEF TxOK, TypeOK
  <1>4. CASE clash
    <2>1. tx' = [tx EXCEPT ![w] = Idle] /\ UNCHANGED <<row, score, raced>>
      BY <1>4 DEF CommitSweep
    <2>2. /\ polls' \in 0 .. MaxPolls /\ seeds' \in 0 .. MaxSeeds /\ faults' \in 0 .. MaxFaults
      BY <1>1, <1>2 DEF TypeOK
    <2>3. QED
      BY <1>1, <2>1, <2>2, IdleIsSafe, TransactionStep
  <1>5. CASE ~clash
    <2>1. /\ Commit(w, new)
          /\ score' = [d \in Datasets |-> IF d \notin t.ds THEN score[d]
                                          ELSE IF stale(d) THEN "stale" ELSE "fresh"]
      BY <1>5 DEF CommitSweep
    <2>2. ASSUME NEW d \in t.ds
          PROVE  /\ MaySet(d, t.snap[d], new[d])
                 /\ new[d].checked = t.snap[d].checked /\ new[d].failures = t.snap[d].failures
                 /\ \A result : t.snap[d].status \in StatusesShowing(result) =>
                        new[d].status \in StatusesShowing(result)
      <3> DEFINE s == t.snap[d]
      <3>1. /\ d \in Datasets /\ s \in Row /\ s.status # "absent"
            /\ s.status \in {"healthy", "stale"} => s.lastSuccess # Never
            /\ ~s.checked => s.status = "disabled" /\ s.state = SeedState[d]
        BY <1>1, ReadyKnows
      <3>2. s.status \in Statuses /\ stale(d) \in BOOLEAN
        BY <3>1 DEF Row, IsStale
      <3> HIDE DEF stale
      <3>3. /\ AgedStatus(s.status, stale(d)) \in Statuses
            /\ AgedStatus(s.status, stale(d)) \in {"healthy", "stale"}
                 <=> s.status \in {"healthy", "stale"}
            /\ s.status \notin {"healthy", "stale"} => AgedStatus(s.status, stale(d)) = s.status
            /\ \A result : s.status \in StatusesShowing(result) =>
                   AgedStatus(s.status, stale(d)) \in StatusesShowing(result)
        BY <3>2, AgedStatusOutcome
      <3>4. /\ new[d] \in Row /\ new[d].checked = s.checked /\ new[d].failures = s.failures
            /\ new[d].lastSuccess = s.lastSuccess /\ new[d].state = s.state
            /\ new[d].status = AgedStatus(s.status, stale(d))
        BY <3>1, <3>3 DEF Row
      <3> HIDE DEF new, s
      <3>5. MaySet(d, s, new[d])
        BY <3>1, <3>3, <3>4 DEF MaySet, Statuses
      <3>6. QED
        BY <3>3, <3>4, <3>5 DEF s
    <2>3. /\ last' \in [Datasets -> GoodStates \cup ErrorStates \cup {"not_run"}]
          /\ fails' \in [Datasets -> Nat]
          /\ score' \in [Datasets -> {"none", "fresh", "stale"}]
      <3> HIDE DEF stale
      <3>1. QED
        BY <1>1, <1>2, <2>1 DEF TypeOK
    <2>4. \A d \in t.ds : (last'[d] = "not_run" /\ fails'[d] = 0) \/ row[d].checked
      BY <1>1, <1>2, <1>3 DEF HistoryInv
    <2>5. ASSUME NEW d \in t.ds, d \notin Stale(w), d \notin raced
          PROVE  new[d].status \in StatusesShowing(last'[d]) /\ new[d].failures = fails'[d]
      <3>1. /\ row[d].status \in StatusesShowing(last[d]) /\ row[d].failures = fails[d]
            /\ last'[d] = last[d] /\ fails'[d] = fails[d]
        BY <1>1, <1>2, <1>3, <2>5 DEF StatusShowsLastPoll, FailuresAreCounted
      <3>2. t.snap[d] = row[d]
        BY <1>1, <1>3, <2>5, ReadyKnows
      <3> HIDE DEF new
      <3>3. QED
        BY <2>2, <3>1, <3>2
    <2> HIDE DEF new
    <2>6. QED
      BY <1>1, <2>1, <2>2, <2>3, <2>4, <2>5, CommitKeeps
  <1>6. QED
    BY <1>4, <1>5

(* Every step keeps the inductive invariant. *)
LEMMA NextIInv == IInv /\ [Next]_vars => IInv'
  <1> SUFFICES ASSUME IInv, [Next]_vars PROVE IInv'
    OBVIOUS
  <1>1. CASE Tick
    <2>1. clock' \in 0 .. MaxClock
      BY <1>1, StatusAssumption DEF IInv, TypeOK, Tick
    <2>2. UNCHANGED <<row, score, tx, polls, seeds, faults, last, fails, raced>>
      BY <1>1 DEF Tick
    <2>3. TypeOK'
      BY <2>1, <2>2 DEF IInv, TypeOK
    <2>4. RowInv' /\ HistoryInv' /\ TxInv' /\ StatusShowsLastPoll' /\ FailuresAreCounted'
      BY <2>2 DEF IInv, RowInv, HistoryInv, TxInv, StatusShowsLastPoll, FailuresAreCounted
    <2>5. QED
      BY <2>3, <2>4 DEF IInv
  <1>2. CASE UNCHANGED vars
    BY <1>2 DEF vars, IInv, TypeOK, RowInv, HistoryInv, TxInv, StatusShowsLastPoll,
                FailuresAreCounted
  <1>3. ASSUME NEW w \in Workers, Work(w) PROVE IInv'
    BY <1>3, OpenStep, IngestStep, ErrorStep, SeedStep, SweepStep DEF Work
  <1>4. QED
    BY <1>1, <1>2, <1>3, OpenStep DEF Next

(* The inductive invariant holds of every reachable state. *)
THEOREM InvariantHolds == Spec => []IInv
  BY InitIInv, NextIInv, PTL DEF Spec

(* Every row, copy and counter keeps its type, whatever overlaps. *)
THEOREM TypeCorrect == Spec => []TypeOK
  BY InvariantHolds, PTL DEF IInv

(* No sequence of ingests, errors, seeds and sweeps, overlapping or not,      *)
(* makes a dataset healthy or stale without a committed ingest.               *)
THEOREM HealthIsEarned == Spec => []HealthNeedsData
  <1>1. IInv => HealthNeedsData
    BY DEF IInv, RowInv, Sound, HealthNeedsData
  <1>2. QED
    BY <1>1, InvariantHolds, PTL

(* Where no lost update intervened, the status shows the last poll. *)
THEOREM StatusIsCurrent == Spec => []StatusShowsLastPoll
  BY InvariantHolds, PTL DEF IInv

(* Where no lost update intervened, the counter counts the failures. *)
THEOREM CounterIsExact == Spec => []FailuresAreCounted
  BY InvariantHolds, PTL DEF IInv

(* A seed that ends leaves the status and the result state of a polled        *)
(* dataset alone, however many polls were committed since its SELECT.         *)
THEOREM SeedIsHarmless == Spec => SeedKeepsOutcome
  <1> DEFINE A == \A w \in Workers, d \in Datasets :
                    tx[w].op = "seed" /\ tx'[w] = Idle /\ row[d].checked
                      => row'[d].status = row[d].status /\ row'[d].state = row[d].state
  <1>1. IInv /\ [Next]_vars => [A]_vars
    <2> SUFFICES ASSUME IInv, Next, NEW w \in Workers, NEW d \in Datasets,
                        tx[w].op = "seed", tx'[w] = Idle, row[d].checked
                 PROVE  row'[d].status = row[d].status /\ row'[d].state = row[d].state
      OBVIOUS
    <2>1. tx \in [Workers -> Transaction]
      BY DEF IInv, TypeOK, Transaction
    <2>2. ASSUME row' = row PROVE row'[d].status = row[d].status /\ row'[d].state = row[d].state
      BY <2>2
    <2>3. ASSUME NEW v \in Workers, NEW new, Commit(v, new), tx[v].op # "seed" PROVE FALSE
      <3>1. v # w /\ tx' = [tx EXCEPT ![v] = Idle]
        BY <2>3 DEF Commit
      <3>2. tx[w] = Idle
        BY <2>1, <3>1
      <3>3. QED
        BY <3>2 DEF Idle
    <2>4. ASSUME NEW v \in Workers, CommitSeed(v)
          PROVE  row'[d].status = row[d].status /\ row'[d].state = row[d].state
      BY <2>4, SeedStep
    <2>5. ASSUME NEW v \in Workers, CommitIngest(v) PROVE FALSE
      BY <2>3, <2>5 DEF CommitIngest, Ready
    <2>6. ASSUME NEW v \in Workers, CommitSourceError(v) PROVE FALSE
      BY <2>3, <2>6 DEF CommitSourceError, Ready
    <2>7. ASSUME NEW v \in Workers, CommitSweep(v) PROVE row' = row
      BY <2>3, <2>7 DEF CommitSweep, Ready
    <2>8. ASSUME NEW v \in Workers,
                 \/ \E e \in Datasets : FetchSucceeds(v, e) \/ FetchFails(v, e) \/ BeginSeed(v, e)
                 \/ BeginSweep(v) \/ SelectDataset(v) \/ InsertDataset(v) \/ Rollback(v)
          PROVE  row' = row
      BY <2>8 DEF FetchSucceeds, FetchFails, Poll, BeginSeed, BeginSweep, SelectDataset,
                  InsertDataset, Rollback
    <2>9. CASE Tick
      BY <2>9 DEF Tick
    <2>10. QED
      BY <2>2, <2>4, <2>5, <2>6, <2>7, <2>8, <2>9 DEF Next, Work
  <1>2. QED
    BY <1>1, InvariantHolds, PTL DEF Spec, SeedKeepsOutcome
=============================================================================
