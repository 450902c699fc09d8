-------------------------- MODULE IngestionProofs --------------------------
(***************************************************************************)
(* Proofs about Ingestion for every number of workers, deliveries, crashes *)
(* and exceptions, and for all payloads, however their records overlap or  *)
(* repeat.                                                                 *)
(*                                                                         *)
(* The properties speak of committed rows; the inductive invariant says    *)
(* what an open transaction has already secured: the records behind its    *)
(* loop position are stored or among its own uncommitted rows (LoopOK),    *)
(* and its uncommitted rows are its own, new, audited once and announced   *)
(* (OwnRows, HeldOK, PendOK, AuditOK).                                     *)
(***************************************************************************)
EXTENDS Ingestion, TLAPS

(* The raw bytes are stored before any statement of the transaction. *)
RawOK(w) == phase[w] \notin {"idle", "raw"} => payload[w] \in raw

(* Before its record loops a transaction has written nothing. *)
StartOK(w) == phase[w] \in {"idle", "raw", "lineage", "job"} => idx[w] = 0 /\ held[w] = {}

(* Every record behind the loop position that belongs in the database is      *)
(* visible to the transaction.                                                *)
LoopOK(w) ==
    /\ phase[w] \in {"check", "flush"} => idx[w] \in 1 .. Len(RecordsOf[payload[w]])
    /\ phase[w] = "commit" => idx[w] = Len(RecordsOf[payload[w]]) + 1
    /\ phase[w] \in {"check", "flush", "commit"} =>
         \A j \in 1 .. (idx[w] - 1) :
             \/ RecordsOf[payload[w]][j] \in Upserts \cap Rejected
             \/ Visible(w, RecordsOf[payload[w]][j])

(* The rows it has written: records of its payload, new if inserted once.     *)
HeldOK(w) ==
    \A r \in held[w] :
        /\ r \in Stored(payload[w])
        /\ r \notin Upserts => rowBy[r] = Nobody
        /\ HasEvent(r) => r \in events

(* The row that autoflush is about to send. *)
PendOK(w) ==
    phase[w] = "flush" =>
        /\ pend[w] # "none"
        /\ Rec(w) \notin Upserts \cap Rejected
        /\ Rec(w) \notin Upserts => pend[w] = "insert" /\ Rec(w) \notin held[w]
        /\ HasEvent(Rec(w)) => Rec(w) \in events

(* A record that is inserted once is audited once by the transaction that     *)
(* inserts it.                                                                *)
AuditOK(w) ==
    phase[w] # "rollback" =>
        \A r \in Records \ Upserts :
            audits[w][r] = IF r \in held[w] \/ (phase[w] = "flush" /\ r = Rec(w)) THEN 1 ELSE 0

TxOK(w) == RawOK(w) /\ StartOK(w) /\ LoopOK(w) /\ HeldOK(w) /\ PendOK(w) /\ AuditOK(w)

(* No two open transactions have written the same row. *)
OwnRows == \A v, w \in Workers : v # w => held[v] \cap held[w] = {}

TxInv == (\A w \in Workers : TxOK(w)) /\ OwnRows

IInv == TypeOK /\ TxInv /\ AllOrNothing /\ RowsHaveLineage /\ RowsAreAnnounced

(* The initial state satisfies the inductive invariant. *)
LEMMA InitIInv == Init => IInv
  <1> SUFFICES ASSUME Init PROVE IInv
    OBVIOUS
  <1> USE IngestionAssumption
  <1>1. TypeOK
    BY DEF Init, TypeOK, Phases, NoAudits
  <1>2. ASSUME NEW w \in Workers PROVE TxOK(w)
    <2>1. phase[w] = "idle" /\ idx[w] = 0 /\ held[w] = {} /\ audits[w] = NoAudits
      BY <1>2 DEF Init
    <2>2. \A r \in Records : NoAudits[r] = 0
      BY DEF NoAudits
    <2>3. QED
      BY <2>1, <2>2 DEF TxOK, RawOK, StartOK, LoopOK, HeldOK, PendOK, AuditOK
  <1>3. OwnRows
    BY DEF Init, OwnRows
  <1>4. AllOrNothing /\ RowsHaveLineage /\ RowsAreAnnounced
    BY DEF Init, AllOrNothing, RowsHaveLineage, RowsAreAnnounced, NoAudits
  <1>5. QED
    BY <1>1, <1>2, <1>3, <1>4 DEF IInv, TxInv

(* The record at the loop position is one of the payload. *)
LEMMA RecFacts ==
  ASSUME TypeOK, NEW w \in Workers, TxOK(w), phase[w] \in {"check", "flush"}
  PROVE  /\ payload[w] \in Payloads
         /\ idx[w] \in 1 .. Len(RecordsOf[payload[w]])
         /\ Rec(w) \in Records
         /\ Rec(w) \notin Upserts \cap Rejected => Rec(w) \in Stored(payload[w])
  <1> USE IngestionAssumption
  <1>1. payload[w] \in Payloads
    BY DEF TypeOK
  <1>2. RecordsOf[payload[w]] \in Seq(Records)
    BY <1>1
  <1>3. idx[w] \in 1 .. Len(RecordsOf[payload[w]])
    BY DEF TxOK, LoopOK
  <1>4. QED
    BY <1>1, <1>2, <1>3 DEF Rec, Stored

(* What another transaction does leaves v's standing: it adds rows, events    *)
(* and raw payloads, and none of v's own.                                     *)
LEMMA OtherKeeps ==
  ASSUME NEW v \in Workers, TxOK(v),
         phase'[v] = phase[v], payload'[v] = payload[v], idx'[v] = idx[v], pend'[v] = pend[v],
         held'[v] = held[v], audits'[v] = audits[v],
         raw \subseteq raw', events \subseteq events',
         \A r \in Records : rowBy[r] # Nobody => rowBy'[r] # Nobody,
         \A r \in held[v] : r \notin Upserts => rowBy'[r] = rowBy[r],
         TypeOK
  PROVE  TxOK(v)'
  <1> USE IngestionAssumption
  <1>1. RawOK(v)' /\ StartOK(v)'
    BY DEF TxOK, RawOK, StartOK
  <1>2. LoopOK(v)'
    <2> SUFFICES ASSUME phase[v] \in {"check", "flush", "commit"}, NEW j \in 1 .. (idx[v] - 1)
                 PROVE  \/ RecordsOf[payload[v]][j] \in Upserts \cap Rejected
                        \/ rowBy'[RecordsOf[payload[v]][j]] # Nobody
                        \/ RecordsOf[payload[v]][j] \in held[v]
      BY DEF TxOK, LoopOK, Visible
    <2>1. RecordsOf[payload[v]] \in Seq(Records)
      BY DEF TypeOK
    <2>2. idx[v] - 1 <= Len(RecordsOf[payload[v]]) /\ idx[v] \in Nat
      BY <2>1 DEF TxOK, LoopOK, TypeOK
    <2>3. RecordsOf[payload[v]][j] \in Records
      BY <2>1, <2>2
    <2>4. QED
      BY <2>3 DEF TxOK, LoopOK, Visible
  <1>3. HeldOK(v)'
    BY DEF TxOK, HeldOK
  <1>4. PendOK(v)' /\ AuditOK(v)'
    BY DEF TxOK, PendOK, AuditOK, Rec
  <1>5. QED
    BY <1>1, <1>2, <1>3, <1>4 DEF TxOK

(* A step of w that commits nothing. *)
LEMMA OwnStep ==
  ASSUME IInv, TypeOK', NEW w \in Workers, TxOK(w)',
         \A v \in Workers \ {w} :
            /\ phase'[v] = phase[v] /\ payload'[v] = payload[v] /\ idx'[v] = idx[v]
            /\ pend'[v] = pend[v] /\ held'[v] = held[v] /\ audits'[v] = audits[v],
         \A v \in Workers \ {w} : held[v] \cap held'[w] = {},
         UNCHANGED <<jobs, rowBy, quality>>, raw \subseteq raw', events \subseteq events'
  PROVE  IInv'
  <1>1. TypeOK /\ TxInv /\ AllOrNothing /\ RowsHaveLineage /\ RowsAreAnnounced
    BY DEF IInv
  <1>2. \A v \in Workers \ {w} : TxOK(v)'
    BY <1>1, OtherKeeps DEF TxInv
  <1>3. OwnRows'
    BY <1>1 DEF TxInv, OwnRows
  <1>4. AllOrNothing' /\ RowsHaveLineage' /\ RowsAreAnnounced'
    BY <1>1 DEF AllOrNothing, RowsHaveLineage, RowsAreAnnounced
  <1>5. QED
    BY <1>2, <1>3, <1>4 DEF IInv, TxInv

(* The record loops move on over a record that is taken care of. *)
LEMMA Advance ==
  ASSUME TypeOK, NEW w \in Workers, payload[w] \in Payloads, payload' = payload, NextRecord(w),
         UNCHANGED rowBy, held[w] \subseteq held'[w],
         \/ idx[w] = 0
         \/ /\ phase[w] \in {"check", "flush"} /\ TxOK(w)
            /\ \/ Rec(w) \in Upserts \cap Rejected
               \/ rowBy[Rec(w)] # Nobody
               \/ Rec(w) \in held'[w]
  PROVE  /\ phase' \in [Workers -> Phases] /\ idx' \in [Workers -> Nat]
         /\ phase'[w] \in {"check", "commit"} /\ LoopOK(w)'
         /\ \A v \in Workers \ {w} : phase'[v] = phase[v] /\ idx'[v] = idx[v]
  <1> USE IngestionAssumption
  <1> DEFINE s == RecordsOf[payload[w]]
             n == Len(s)
  <1>1. n \in Nat
    <2>1. s \in Seq(Records)
      OBVIOUS
    <2>2. QED
      BY <2>1
  <1>2. /\ phase \in [Workers -> Phases] /\ idx \in [Workers -> Nat]
    BY DEF TypeOK
  <1>3. idx[w] \in 0 .. n
    BY <1>1 DEF TxOK, LoopOK
  <1> HIDE DEF n
  <1>4. /\ phase' = [phase EXCEPT ![w] = IF idx[w] < n THEN "check" ELSE "commit"]
        /\ idx' = [idx EXCEPT ![w] = idx[w] + 1]
    BY DEF NextRecord, Goto, n
  <1>5. /\ phase' \in [Workers -> Phases] /\ idx' \in [Workers -> Nat]
        /\ phase'[w] = IF idx[w] < n THEN "check" ELSE "commit"
        /\ idx'[w] = idx[w] + 1
        /\ \A v \in Workers \ {w} : phase'[v] = phase[v] /\ idx'[v] = idx[v]
    BY <1>2, <1>4 DEF Phases
  <1>6. /\ phase'[w] \in {"check", "commit"}
        /\ phase'[w] = "check" => idx'[w] \in 1 .. n
        /\ phase'[w] = "commit" => idx'[w] = n + 1
    BY <1>1, <1>3, <1>5
  <1>7. ASSUME NEW j \in 1 .. (idx'[w] - 1)
        PROVE  s[j] \in Upserts \cap Rejected \/ rowBy[s[j]] # Nobody \/ s[j] \in held'[w]
    <2>1. j \in 1 .. (idx[w] - 1) \/ j = idx[w]
      BY <1>2, <1>5, <1>7
    <2>2. idx[w] # 0 /\ phase[w] \in {"check", "flush"} /\ TxOK(w)
      BY <2>1, <1>2
    <2>3. CASE j = idx[w]
      BY <2>2, <2>3 DEF Rec
    <2>4. CASE j \in 1 .. (idx[w] - 1)
      BY <2>2, <2>4 DEF TxOK, LoopOK, Visible
    <2>5. QED
      BY <2>1, <2>3, <2>4
  <1>8. LoopOK(w)'
    BY <1>6, <1>7 DEF LoopOK, Visible, n
  <1>9. QED
    BY <1>5, <1>6, <1>8

(* The typing of a discarded transaction. *)
LEMMA DiscardFacts ==
  ASSUME TypeOK, NEW w \in Workers, Discard(w)
  PROVE  /\ phase' \in [Workers -> Phases] /\ payload' \in [Workers -> Payloads \cup {Nobody}]
         /\ idx' \in [Workers -> Nat] /\ newJob' \in [Workers -> BOOLEAN]
         /\ pend' \in [Workers -> {"none", "insert", "update"}]
         /\ held' \in [Workers -> SUBSET Records] /\ audits' \in [Workers -> [Records -> Nat]]
         /\ phase'[w] = "idle" /\ payload'[w] = Nobody /\ held'[w] = {}
         /\ TxOK(w)'
         /\ \A v \in Workers \ {w} :
              /\ phase'[v] = phase[v] /\ payload'[v] = payload[v] /\ idx'[v] = idx[v]
              /\ pend'[v] = pend[v] /\ held'[v] = held[v] /\ audits'[v] = audits[v]
  <1>1. /\ NoAudits \in [Records -> Nat] /\ \A r \in Records : NoAudits[r] = 0
    BY DEF NoAudits
  <1>2. /\ phase' \in [Workers -> Phases] /\ payload' \in [Workers -> Payloads \cup {Nobody}]
        /\ idx' \in [Workers -> Nat] /\ pend' \in [Workers -> {"none", "insert", "update"}]
        /\ held' \in [Workers -> SUBSET Records] /\ audits' \in [Workers -> [Records -> Nat]]
    BY <1>1 DEF TypeOK, Discard, Goto, Phases
  <1>3. newJob' \in [Workers -> BOOLEAN]
    BY DEF TypeOK, Discard
  <1>4. /\ phase'[w] = "idle" /\ payload'[w] = Nobody /\ held'[w] = {} /\ idx'[w] = 0
        /\ audits'[w] = NoAudits
        /\ \A v \in Workers \ {w} :
              /\ phase'[v] = phase[v] /\ payload'[v] = payload[v] /\ idx'[v] = idx[v]
              /\ pend'[v] = pend[v] /\ held'[v] = held[v] /\ audits'[v] = audits[v]
    BY DEF TypeOK, Discard, Goto
  <1>5. TxOK(w)'
    BY <1>1, <1>4 DEF TxOK, RawOK, StartOK, LoopOK, HeldOK, PendOK, AuditOK
  <1>6. QED
    BY <1>2, <1>3, <1>4, <1>5

(* A transaction that is rolled back or lost leaves only its events behind. *)
LEMMA DiscardStep == ASSUME IInv, NEW w \in Workers, Rollback(w) \/ Crash(w) PROVE IInv'
  <1> USE IngestionAssumption
  <1>1. TypeOK
    BY DEF IInv
  <1>2. /\ Discard(w) /\ UNCHANGED <<raw, jobs, rowBy, quality, events, attempts, failed>>
        /\ faults' = faults \/ (faults < MaxFaults /\ faults' = faults + 1)
    BY DEF Rollback, Crash, sharedVars
  <1>3. /\ phase' \in [Workers -> Phases] /\ payload' \in [Workers -> Payloads \cup {Nobody}]
        /\ idx' \in [Workers -> Nat] /\ newJob' \in [Workers -> BOOLEAN]
        /\ pend' \in [Workers -> {"none", "insert", "update"}]
        /\ held' \in [Workers -> SUBSET Records] /\ audits' \in [Workers -> [Records -> Nat]]
        /\ phase'[w] = "idle" /\ payload'[w] = Nobody /\ held'[w] = {}
        /\ TxOK(w)'
        /\ \A v \in Workers \ {w} :
              /\ phase'[v] = phase[v] /\ payload'[v] = payload[v] /\ idx'[v] = idx[v]
              /\ pend'[v] = pend[v] /\ held'[v] = held[v] /\ audits'[v] = audits[v]
    BY <1>1, <1>2, DiscardFacts
  <1>4. faults' \in 0 .. MaxFaults
    BY <1>1, <1>2 DEF TypeOK
  <1>5. /\ \A v \in Workers : (payload'[v] = Nobody) <=> (phase'[v] = "idle")
        /\ \A v \in Workers : (phase'[v] = "idle") => (held'[v] = {})
    BY <1>1, <1>3 DEF TypeOK
  <1>6. TypeOK'
    BY <1>1, <1>2, <1>3, <1>4, <1>5 DEF TypeOK
  <1>7. QED
    BY <1>2, <1>3, <1>6, OwnStep

(* The transaction fails: until it is rolled back it keeps its locks. *)
LEMMA AbortStep ==
  ASSUME IInv, NEW w \in Workers, phase[w] \notin {"idle", "raw"},
         phase' = [phase EXCEPT ![w] = "rollback"],
         UNCHANGED <<raw, jobs, rowBy, quality, payload, idx, newJob, pend, held, audits, events,
                     attempts>>,
         faults' \in 0 .. MaxFaults, failed' \in SUBSET Payloads
  PROVE  IInv'
  <1>1. TypeOK /\ TxOK(w) /\ OwnRows
    BY DEF IInv, TxInv
  <1>2. /\ phase' \in [Workers -> Phases] /\ phase'[w] = "rollback"
        /\ \A v \in Workers \ {w} : phase'[v] = phase[v]
    BY <1>1 DEF TypeOK, Phases
  <1>3. TypeOK'
    BY <1>1, <1>2 DEF TypeOK
  <1>4. TxOK(w)'
    BY <1>1, <1>2 DEF TxOK, RawOK, StartOK, LoopOK, HeldOK, PendOK, AuditOK
  <1>5. \A v \in Workers \ {w} : held[v] \cap held'[w] = {}
    BY <1>1 DEF OwnRows
  <1>6. QED
    BY <1>2, <1>3, <1>4, <1>5, OwnStep

(* A delivery starts, and its bytes are stored. *)
LEMMA StartStep ==
  ASSUME IInv, NEW w \in Workers, PutRaw(w) \/ \E p \in Payloads : Begin(w, p) PROVE IInv'
  <1> USE IngestionAssumption
  <1>1. TypeOK /\ TxOK(w) /\ OwnRows
    BY DEF IInv, TxInv
  <1>2. UNCHANGED <<jobs, rowBy, quality, idx, newJob, pend, held, audits, events, faults, failed>>
    BY DEF PutRaw, Begin, sharedVars
  <1>3. \A v \in Workers \ {w} : held[v] \cap held'[w] = {}
    BY <1>1, <1>2 DEF OwnRows
  <1>4. CASE PutRaw(w)
    <2>1. /\ phase[w] = "raw" /\ phase' = [phase EXCEPT ![w] = "lineage"]
          /\ raw' = raw \cup {payload[w]} /\ UNCHANGED <<payload, attempts>>
      BY <1>4 DEF PutRaw, Goto
    <2>2. /\ phase' \in [Workers -> Phases] /\ phase'[w] = "lineage" /\ payload[w] \in Payloads
          /\ \A v \in Workers \ {w} : phase'[v] = phase[v]
      BY <1>1, <2>1 DEF TypeOK, Phases
    <2>3. TypeOK'
      BY <1>1, <1>2, <2>1, <2>2 DEF TypeOK
    <2>4. TxOK(w)'
      BY <1>1, <1>2, <2>1, <2>2 DEF TxOK, RawOK, StartOK, LoopOK, HeldOK, PendOK, AuditOK
    <2>5. QED
      BY <1>2, <1>3, <2>1, <2>2, <2>3, <2>4, OwnStep
  <1>5. ASSUME NEW p \in Payloads, Begin(w, p) PROVE IInv'
    <2>1. /\ phase[w] = "idle" /\ phase' = [phase EXCEPT ![w] = "raw"]
          /\ payload' = [payload EXCEPT ![w] = p] /\ UNCHANGED raw
          /\ attempts[p] < MaxAttempts /\ attempts' = [attempts EXCEPT ![p] = @ + 1]
      BY <1>5 DEF Begin, Goto, sharedVars
    <2>2. /\ phase' \in [Workers -> Phases] /\ phase'[w] = "raw"
          /\ payload' \in [Workers -> Payloads \cup {Nobody}] /\ payload'[w] = p
          /\ \A v \in Workers \ {w} : phase'[v] = phase[v] /\ payload'[v] = payload[v]
      BY <1>1, <2>1 DEF TypeOK, Phases
    <2>3. attempts' \in [Payloads -> 0 .. MaxAttempts]
      BY <1>1, <2>1 DEF TypeOK
    <2>4. TypeOK'
      BY <1>1, <1>2, <2>1, <2>2, <2>3 DEF TypeOK
    <2>5. TxOK(w)'
      BY <1>1, <1>2, <2>1, <2>2 DEF TxOK, RawOK, StartOK, LoopOK, HeldOK, PendOK, AuditOK
    <2>6. QED
      BY <1>2, <1>3, <2>1, <2>2, <2>4, <2>5, OwnStep
  <1>6. QED
    BY <1>4, <1>5

(* The job rows are found or created. *)
LEMMA JobStep == ASSUME IInv, NEW w \in Workers, SelectJob(w) \/ InsertJob(w) PROVE IInv'
  <1> USE IngestionAssumption
  <1>1. TypeOK /\ TxOK(w) /\ OwnRows
    BY DEF IInv, TxInv
  <1>2. /\ UNCHANGED <<raw, jobs, rowBy, quality, payload, pend, held, audits, events, attempts,
                       faults, failed>>
        /\ phase[w] \in {"lineage", "job"}
        /\ newJob' \in [Workers -> BOOLEAN]
        /\ \/ NextRecord(w)
           \/ phase' = [phase EXCEPT ![w] = "job"] /\ UNCHANGED idx
           \/ phase' = [phase EXCEPT ![w] = "rollback"] /\ UNCHANGED <<idx, newJob>>
    <2>1. newJob \in [Workers -> BOOLEAN]
      BY <1>1 DEF TypeOK
    <2>2. QED
      BY <2>1 DEF SelectJob, InsertJob, sharedVars, Goto
  <1>3. idx[w] = 0 /\ held[w] = {} /\ payload[w] \in Payloads /\ payload[w] \in raw
    BY <1>1, <1>2 DEF TxOK, StartOK, RawOK, TypeOK
  <1>4. \A v \in Workers \ {w} : held[v] \cap held'[w] = {}
    BY <1>1, <1>2 DEF OwnRows
  <1>5. CASE NextRecord(w)
    <2>1. /\ phase' \in [Workers -> Phases] /\ idx' \in [Workers -> Nat]
          /\ phase'[w] \in {"check", "commit"} /\ LoopOK(w)'
          /\ \A v \in Workers \ {w} : phase'[v] = phase[v] /\ idx'[v] = idx[v]
      BY <1>1, <1>2, <1>3, <1>5, Advance
    <2>2. TypeOK'
      BY <1>1, <1>2, <1>3, <2>1 DEF TypeOK
    <2>3. TxOK(w)'
      BY <1>1, <1>2, <1>3, <2>1 DEF TxOK, RawOK, StartOK, HeldOK, PendOK, AuditOK
    <2>4. QED
      BY <1>2, <1>4, <2>1, <2>2, <2>3, OwnStep
  <1>6. CASE phase' = [phase EXCEPT ![w] = "job"] /\ UNCHANGED idx
    <2>1. /\ phase' \in [Workers -> Phases] /\ phase'[w] = "job"
          /\ \A v \in Workers \ {w} : phase'[v] = phase[v]
      BY <1>1, <1>6 DEF TypeOK, Phases
    <2>2. TypeOK'
      BY <1>1, <1>2, <1>3, <1>6, <2>1 DEF TypeOK
    <2>3. TxOK(w)'
      BY <1>1, <1>2, <1>3, <1>6, <2>1 DEF TxOK, RawOK, StartOK, LoopOK, HeldOK, PendOK, AuditOK
    <2>4. QED
      BY <1>2, <1>4, <1>6, <2>1, <2>2, <2>3, OwnStep
  <1>7. CASE phase' = [phase EXCEPT ![w] = "rollback"] /\ UNCHANGED <<idx, newJob>>
    <2>1. faults' \in 0 .. MaxFaults /\ failed' \in SUBSET Payloads
      BY <1>1, <1>2 DEF TypeOK
    <2>2. QED
      BY <1>2, <1>7, <2>1, AbortStep
  <1>8. QED
    BY <1>2, <1>5, <1>6, <1>7

(* The audit row of one record. *)
LEMMA AuditFacts ==
  ASSUME TypeOK, NEW w \in Workers, NEW r \in Records, Audit(w, r)
  PROVE  /\ audits' \in [Workers -> [Records -> Nat]]
         /\ audits'[w][r] = audits[w][r] + 1
         /\ \A x \in Records \ {r} : audits'[w][x] = audits[w][x]
         /\ \A v \in Workers \ {w} : audits'[v] = audits[v]
  <1>1. audits \in [Workers -> [Records -> Nat]] /\ audits[w] \in [Records -> Nat]
    BY DEF TypeOK
  <1>2. audits[w][r] + 1 \in Nat
    BY <1>1
  <1>3. audits' = [audits EXCEPT ![w] = [audits[w] EXCEPT ![r] = audits[w][r] + 1]]
    BY DEF Audit
  <1>4. QED
    BY <1>1, <1>2, <1>3

(* A record that is inserted once: skipped, or queued, audited and announced. *)
LEMMA InsertOnceStep ==
  ASSUME IInv, NEW w \in Workers, phase[w] = "check", Rec(w) \notin Upserts, InsertOnce(w)
  PROVE  IInv'
  <1> USE IngestionAssumption
  <1>1. TypeOK /\ TxOK(w) /\ OwnRows
    BY DEF IInv, TxInv
  <1>2. /\ payload[w] \in Payloads /\ Rec(w) \in Records
        /\ idx[w] \in 1 .. Len(RecordsOf[payload[w]])
    BY <1>1, RecFacts
  <1>3. UNCHANGED <<raw, jobs, rowBy, quality, payload, newJob, held, attempts, faults, failed>>
    BY DEF InsertOnce, sharedVars
  <1>4. \A v \in Workers \ {w} : held[v] \cap held'[w] = {}
    BY <1>1, <1>3 DEF OwnRows
  <1>5. CASE Visible(w, Rec(w))
    <2>1. NextRecord(w) /\ UNCHANGED <<pend, audits, events>>
      BY <1>5 DEF InsertOnce
    <2>2. /\ phase' \in [Workers -> Phases] /\ idx' \in [Workers -> Nat]
          /\ phase'[w] \in {"check", "commit"} /\ LoopOK(w)'
          /\ \A v \in Workers \ {w} : phase'[v] = phase[v] /\ idx'[v] = idx[v]
      <3>1. rowBy[Rec(w)] # Nobody \/ Rec(w) \in held'[w]
        BY <1>3, <1>5 DEF Visible
      <3>2. QED
        BY <1>1, <1>2, <1>3, <2>1, <3>1, Advance
    <2>3. TypeOK'
      BY <1>1, <1>2, <1>3, <2>1, <2>2 DEF TypeOK
    <2>4. TxOK(w)'
      BY <1>1, <1>3, <2>1, <2>2 DEF TxOK, RawOK, StartOK, HeldOK, PendOK, AuditOK
    <2>5. QED
      BY <1>3, <1>4, <2>1, <2>2, <2>3, <2>4, OwnStep
  <1>6. CASE ~Visible(w, Rec(w))
    <2>1. /\ pend' = [pend EXCEPT ![w] = "insert"] /\ Audit(w, Rec(w))
          /\ events' = events \cup {r \in {Rec(w)} : HasEvent(r)}
          /\ phase' = [phase EXCEPT ![w] = "flush"] /\ UNCHANGED idx
      BY <1>6 DEF InsertOnce, Goto
    <2>2. /\ audits' \in [Workers -> [Records -> Nat]]
          /\ audits'[w][Rec(w)] = audits[w][Rec(w)] + 1
          /\ \A x \in Records \ {Rec(w)} : audits'[w][x] = audits[w][x]
          /\ \A v \in Workers \ {w} : audits'[v] = audits[v]
      BY <1>1, <1>2, <2>1, AuditFacts
    <2>3. /\ phase' \in [Workers -> Phases] /\ pend' \in [Workers -> {"none", "insert", "update"}]
          /\ phase'[w] = "flush" /\ pend'[w] = "insert"
          /\ \A v \in Workers \ {w} : phase'[v] = phase[v] /\ pend'[v] = pend[v]
      BY <1>1, <2>1 DEF TypeOK, Phases
    <2>4. events' \in SUBSET Records
      BY <1>1, <1>2, <2>1 DEF TypeOK
    <2>5. TypeOK'
      BY <1>1, <1>2, <1>3, <2>1, <2>2, <2>3, <2>4 DEF TypeOK
    <2>6. Rec(w)' = Rec(w) /\ Rec(w) \notin held[w] /\ (HasEvent(Rec(w)) => Rec(w) \in events')
      BY <1>3, <1>6, <2>1 DEF Rec, Visible
    <2>7. RawOK(w)' /\ StartOK(w)' /\ HeldOK(w)'
      BY <1>1, <1>3, <2>1, <2>3 DEF TxOK, RawOK, StartOK, HeldOK
    <2>8. LoopOK(w)'
      BY <1>1, <1>2, <1>3, <2>1, <2>3 DEF TxOK, LoopOK, Visible
    <2>9. PendOK(w)'
      BY <1>3, <2>3, <2>6 DEF PendOK
    <2>10. AuditOK(w)'
      <3> SUFFICES ASSUME NEW r \in Records \ Upserts
                   PROVE  audits'[w][r] = IF r \in held[w] \/ r = Rec(w) THEN 1 ELSE 0
        BY <1>3, <2>3, <2>6 DEF AuditOK
      <3>1. audits[w][r] = IF r \in held[w] THEN 1 ELSE 0
        BY <1>1 DEF TxOK, AuditOK
      <3>2. QED
        BY <2>2, <2>6, <3>1
    <2>11. TxOK(w)'
      BY <2>7, <2>8, <2>9, <2>10 DEF TxOK
    <2>12. QED
      BY <1>3, <1>4, <2>1, <2>2, <2>3, <2>5, <2>11, OwnStep
  <1>7. QED
    BY <1>5, <1>6

(* A station or a zone: audited, and queued unless QC rejects it. *)
LEMMA UpsertStep ==
  ASSUME IInv, NEW w \in Workers, phase[w] = "check", Rec(w) \in Upserts, Upsert(w)
  PROVE  IInv'
  <1> USE IngestionAssumption
  <1>1. TypeOK /\ TxOK(w) /\ OwnRows
    BY DEF IInv, TxInv
  <1>2. /\ payload[w] \in Payloads /\ Rec(w) \in Records
        /\ idx[w] \in 1 .. Len(RecordsOf[payload[w]])
    BY <1>1, RecFacts
  <1>3. /\ UNCHANGED <<raw, jobs, rowBy, quality, payload, newJob, held, events, attempts, faults,
                       failed>>
        /\ Audit(w, Rec(w))
    BY DEF Upsert, sharedVars
  <1>4. /\ audits' \in [Workers -> [Records -> Nat]]
        /\ \A x \in Records \ {Rec(w)} : audits'[w][x] = audits[w][x]
        /\ \A v \in Workers \ {w} : audits'[v] = audits[v]
    BY <1>1, <1>2, <1>3, AuditFacts
  <1>5. \A v \in Workers \ {w} : held[v] \cap held'[w] = {}
    BY <1>1, <1>3 DEF OwnRows
  <1>6. \A r \in Records \ Upserts : audits'[w][r] = IF r \in held[w] THEN 1 ELSE 0
    BY <1>1, <1>4 DEF TxOK, AuditOK
  <1>7. CASE Rec(w) \in Rejected
    <2>1. NextRecord(w) /\ UNCHANGED pend
      BY <1>7 DEF Upsert
    <2>2. /\ phase' \in [Workers -> Phases] /\ idx' \in [Workers -> Nat]
          /\ phase'[w] \in {"check", "commit"} /\ LoopOK(w)'
          /\ \A v \in Workers \ {w} : phase'[v] = phase[v] /\ idx'[v] = idx[v]
      <3>1. Rec(w) \in Upserts \cap Rejected
        BY <1>7
      <3>2. QED
        BY <1>1, <1>2, <1>3, <2>1, <3>1, Advance
    <2>3. TypeOK'
      BY <1>1, <1>2, <1>3, <1>4, <2>1, <2>2 DEF TypeOK
    <2>4. TxOK(w)'
      BY <1>1, <1>3, <1>6, <2>1, <2>2 DEF TxOK, RawOK, StartOK, HeldOK, PendOK, AuditOK
    <2>5. QED
      BY <1>3, <1>4, <1>5, <2>1, <2>2, <2>3, <2>4, OwnStep
  <1>8. CASE Rec(w) \notin Rejected
    <2>1. /\ \E a \in {"insert", "update"} : pend' = [pend EXCEPT ![w] = a]
          /\ phase' = [phase EXCEPT ![w] = "flush"] /\ UNCHANGED idx
      BY <1>8 DEF Upsert, Goto
    <2>2. /\ phase' \in [Workers -> Phases] /\ pend' \in [Workers -> {"none", "insert", "update"}]
          /\ phase'[w] = "flush" /\ pend'[w] # "none"
          /\ \A v \in Workers \ {w} : phase'[v] = phase[v] /\ pend'[v] = pend[v]
      BY <1>1, <2>1 DEF TypeOK, Phases
    <2>3. TypeOK'
      BY <1>1, <1>2, <1>3, <1>4, <2>1, <2>2 DEF TypeOK
    <2>4. Rec(w)' = Rec(w) /\ ~HasEvent(Rec(w))
      BY <1>2, <1>3, <2>1 DEF Rec, HasEvent, Upserts
    <2>5. RawOK(w)' /\ StartOK(w)' /\ HeldOK(w)'
      BY <1>1, <1>3, <2>1, <2>2 DEF TxOK, RawOK, StartOK, HeldOK
    <2>6. LoopOK(w)'
      BY <1>1, <1>2, <1>3, <2>1, <2>2 DEF TxOK, LoopOK, Visible
    <2>7. PendOK(w)'
      BY <1>3, <1>8, <2>2, <2>4 DEF PendOK
    <2>8. AuditOK(w)'
      BY <1>3, <1>6, <2>2, <2>4 DEF AuditOK
    <2>9. TxOK(w)'
      BY <2>5, <2>6, <2>7, <2>8 DEF TxOK
    <2>10. QED
      BY <1>3, <1>4, <1>5, <2>1, <2>2, <2>3, <2>9, OwnStep
  <1>9. QED
    BY <1>7, <1>8

(* autoflush: the row becomes the transaction's own, or the key exists. *)
LEMMA FlushStep == ASSUME IInv, NEW w \in Workers, Flush(w) PROVE IInv'
  <1> USE IngestionAssumption
  <1>1. TypeOK /\ TxOK(w) /\ OwnRows
    BY DEF IInv, TxInv
  <1>2. /\ phase[w] = "flush"
        /\ UNCHANGED <<raw, jobs, rowBy, quality, payload, newJob, audits, events, attempts, faults,
                       failed>>
        /\ \A v \in Workers \ {w} : Rec(w) \notin held[v]
    BY DEF Flush, sharedVars, RowLockedBy
  <1>3. /\ payload[w] \in Payloads /\ Rec(w) \in Records
        /\ Rec(w) \notin Upserts \cap Rejected => Rec(w) \in Stored(payload[w])
    BY <1>1, <1>2, RecFacts
  <1>4. CASE phase' = [phase EXCEPT ![w] = "rollback"] /\ UNCHANGED <<idx, pend, held>>
    <2>1. faults' \in 0 .. MaxFaults /\ failed' \in SUBSET Payloads
      BY <1>1, <1>2 DEF TypeOK
    <2>2. QED
      BY <1>2, <1>4, <2>1, AbortStep
  <1>5. CASE /\ pend[w] = "insert" => rowBy[Rec(w)] = Nobody
             /\ pend' = [pend EXCEPT ![w] = "none"]
             /\ held' = [held EXCEPT ![w] = @ \cup {Rec(w)}]
             /\ NextRecord(w)
    <2>1. /\ pend' \in [Workers -> {"none", "insert", "update"}]
          /\ held' \in [Workers -> SUBSET Records] /\ held'[w] = held[w] \cup {Rec(w)}
          /\ \A v \in Workers \ {w} : pend'[v] = pend[v] /\ held'[v] = held[v]
      BY <1>1, <1>3, <1>5 DEF TypeOK
    <2>2. /\ phase' \in [Workers -> Phases] /\ idx' \in [Workers -> Nat]
          /\ phase'[w] \in {"check", "commit"} /\ LoopOK(w)'
          /\ \A v \in Workers \ {w} : phase'[v] = phase[v] /\ idx'[v] = idx[v]
      <3>1. held[w] \subseteq held'[w] /\ Rec(w) \in held'[w]
        BY <2>1
      <3>2. QED
        BY <1>1, <1>2, <1>3, <1>5, <3>1, Advance
    <2>3. TypeOK'
      BY <1>1, <1>2, <1>3, <2>1, <2>2 DEF TypeOK
    <2>4. /\ Rec(w) \in Stored(payload[w])
          /\ Rec(w) \notin Upserts => rowBy[Rec(w)] = Nobody
          /\ HasEvent(Rec(w)) => Rec(w) \in events
      BY <1>1, <1>2, <1>3, <1>5 DEF TxOK, PendOK
    <2>5. HeldOK(w)'
      BY <1>1, <1>2, <2>1, <2>4 DEF TxOK, HeldOK
    <2>6. AuditOK(w)'
      BY <1>1, <1>2, <2>1, <2>2 DEF TxOK, AuditOK
    <2>7. RawOK(w)' /\ StartOK(w)' /\ PendOK(w)'
      BY <1>1, <1>2, <2>2 DEF TxOK, RawOK, StartOK, PendOK
    <2>8. TxOK(w)'
      BY <2>2, <2>5, <2>6, <2>7 DEF TxOK
    <2>9. \A v \in Workers \ {w} : held[v] \cap held'[w] = {}
      BY <1>1, <1>2, <2>1 DEF OwnRows
    <2>10. QED
      BY <1>2, <2>1, <2>2, <2>3, <2>8, <2>9, OwnStep
  <1>6. QED
    BY <1>4, <1>5 DEF Flush, Goto

(* The commit publishes rows that were nobody's, or may be replaced. *)
LEMMA CommitStep ==
  ASSUME IInv, NEW w \in Workers, Commit(w)
  PROVE  /\ IInv'
         /\ \A r \in Records : rowBy[r] # Nobody =>
              rowBy'[r] # Nobody /\ (r \notin Upserts => rowBy'[r] = rowBy[r])
  <1> USE IngestionAssumption
  <1>1. /\ TypeOK /\ (\A v \in Workers : TxOK(v)) /\ OwnRows
        /\ AllOrNothing /\ RowsHaveLineage /\ RowsAreAnnounced
    BY DEF IInv, TxInv
  <1>2. /\ phase[w] = "commit" /\ jobs' = jobs \cup {payload[w]} /\ Discard(w)
        /\ rowBy' = [r \in Records |-> IF r \in held[w] THEN payload[w] ELSE rowBy[r]]
        /\ quality' = [r \in Records |-> quality[r] + audits[w][r]]
        /\ UNCHANGED <<raw, events, attempts, faults, failed>>
    BY DEF Commit
  <1>3. /\ payload[w] \in Payloads /\ payload[w] # Nobody /\ payload[w] \in raw
        /\ held[w] \subseteq Records
    BY <1>1, <1>2 DEF TypeOK, TxOK, RawOK
  <1>4. /\ phase' \in [Workers -> Phases] /\ payload' \in [Workers -> Payloads \cup {Nobody}]
        /\ idx' \in [Workers -> Nat] /\ newJob' \in [Workers -> BOOLEAN]
        /\ pend' \in [Workers -> {"none", "insert", "update"}]
        /\ held' \in [Workers -> SUBSET Records] /\ audits' \in [Workers -> [Records -> Nat]]
        /\ phase'[w] = "idle" /\ payload'[w] = Nobody /\ held'[w] = {}
        /\ TxOK(w)'
        /\ \A v \in Workers \ {w} :
              /\ phase'[v] = phase[v] /\ payload'[v] = payload[v] /\ idx'[v] = idx[v]
              /\ pend'[v] = pend[v] /\ held'[v] = held[v] /\ audits'[v] = audits[v]
    BY <1>1, <1>2, DiscardFacts
  <1>5. /\ \A r \in held[w] : rowBy'[r] = payload[w]
        /\ \A r \in Records \ held[w] : rowBy'[r] = rowBy[r]
        /\ \A r \in Records : rowBy[r] # Nobody => rowBy'[r] # Nobody
        /\ \A r \in held[w] : r \notin Upserts => rowBy[r] = Nobody
    BY <1>1, <1>2, <1>3 DEF TxOK, HeldOK
  <1>6. TypeOK'
    <2>1. rowBy' \in [Records -> Payloads \cup {Nobody}] /\ jobs' \in SUBSET Payloads
      BY <1>1, <1>2, <1>3 DEF TypeOK
    <2>2. quality' \in [Records -> Nat]
      <3>1. \A r \in Records : quality[r] \in Nat /\ audits[w][r] \in Nat
        BY <1>1 DEF TypeOK
      <3>2. QED
        BY <1>2, <3>1
    <2>3. /\ \A v \in Workers : (payload'[v] = Nobody) <=> (phase'[v] = "idle")
          /\ \A v \in Workers : (phase'[v] = "idle") => (held'[v] = {})
      BY <1>1, <1>4 DEF TypeOK
    <2>4. QED
      BY <1>1, <1>2, <1>4, <2>1, <2>2, <2>3 DEF TypeOK
  <1>7. ASSUME NEW v \in Workers PROVE TxOK(v)'
    <2>1. CASE v = w
      BY <1>4, <2>1
    <2>2. CASE v # w
      <3>1. \A r \in held[v] : rowBy'[r] = rowBy[r]
        BY <1>1, <1>5, <2>2 DEF OwnRows, TypeOK
      <3>2. QED
        BY <1>1, <1>2, <1>4, <1>5, <2>2, <3>1, OtherKeeps
    <2>3. QED
      BY <2>1, <2>2
  <1>8. OwnRows'
    BY <1>1, <1>4 DEF OwnRows
  <1>9. AllOrNothing'
    <2> SUFFICES ASSUME NEW p \in jobs' PROVE p \in raw /\ \A r \in Stored(p) : rowBy'[r] # Nobody
      BY <1>2 DEF AllOrNothing
    <2>1. \A q \in Payloads : Stored(q) \subseteq Records
      BY DEF Stored
    <2>2. CASE p \in jobs
      BY <1>1, <1>5, <2>1, <2>2 DEF AllOrNothing, TypeOK
    <2>3. CASE p = payload[w]
      <3> SUFFICES ASSUME NEW r \in Stored(payload[w]) PROVE rowBy'[r] # Nobody
        BY <1>3, <2>3
      <3>1. PICK j \in 1 .. Len(RecordsOf[payload[w]]) : r = RecordsOf[payload[w]][j]
        BY DEF Stored
      <3>2. RecordsOf[payload[w]] \in Seq(Records)
        BY <1>3
      <3>3. j \in 1 .. (idx[w] - 1)
        BY <1>1, <1>2, <3>1, <3>2 DEF TxOK, LoopOK
      <3>4. r \notin Upserts \cap Rejected /\ r \in Records
        BY <1>3, <2>1 DEF Stored
      <3>5. Visible(w, r)
        BY <1>1, <1>2, <3>1, <3>3, <3>4 DEF TxOK, LoopOK
      <3>6. QED
        BY <1>3, <1>5, <3>4, <3>5 DEF Visible
    <2>4. QED
      BY <1>2, <2>2, <2>3
  <1>10. RowsHaveLineage'
    <2>1. ASSUME NEW r \in Records, rowBy'[r] # Nobody
          PROVE  rowBy'[r] \in jobs' /\ r \in Stored(rowBy'[r])
      <3>1. CASE r \in held[w]
        BY <1>1, <1>2, <1>5, <3>1 DEF TxOK, HeldOK
      <3>2. CASE r \notin held[w]
        BY <1>1, <1>2, <1>5, <2>1, <3>2 DEF RowsHaveLineage
      <3>3. QED
        BY <3>1, <3>2
    <2>2. ASSUME NEW r \in Records \ Upserts
          PROVE  quality'[r] = IF rowBy'[r] = Nobody THEN 0 ELSE 1
      <3>1. /\ quality'[r] = quality[r] + audits[w][r]
            /\ quality[r] = IF rowBy[r] = Nobody THEN 0 ELSE 1
            /\ audits[w][r] = IF r \in held[w] THEN 1 ELSE 0
        BY <1>1, <1>2 DEF RowsHaveLineage, TxOK, AuditOK
      <3>2. CASE r \in held[w]
        BY <1>3, <1>5, <3>1, <3>2
      <3>3. CASE r \notin held[w]
        BY <1>5, <3>1, <3>3
      <3>4. QED
        BY <3>2, <3>3
    <2>3. QED
      BY <2>1, <2>2 DEF RowsHaveLineage
  <1>11. RowsAreAnnounced'
    <2> SUFFICES ASSUME NEW r \in Records, rowBy'[r] # Nobody, HasEvent(r) PROVE r \in events
      BY <1>2 DEF RowsAreAnnounced
    <2>1. CASE r \in held[w]
      BY <1>1, <2>1 DEF TxOK, HeldOK
    <2>2. CASE r \notin held[w]
      BY <1>1, <1>5, <2>2 DEF RowsAreAnnounced
    <2>3. QED
      BY <2>1, <2>2
  <1>12. IInv'
    BY <1>6, <1>7, <1>8, <1>9, <1>10, <1>11 DEF IInv, TxInv
  <1>13. QED
    BY <1>5, <1>12

(* Every step keeps the inductive invariant. *)
LEMMA NextIInv == IInv /\ [Next]_vars => IInv'
  <1> SUFFICES ASSUME IInv, [Next]_vars PROVE IInv'
    OBVIOUS
  <1> USE IngestionAssumption
  <1>1. CASE UNCHANGED vars
    <2>1. UNCHANGED <<raw, jobs, rowBy, quality, phase, payload, idx, newJob, pend, held, audits,
                      events, attempts, faults, failed>>
      BY <1>1 DEF vars, sharedVars, txVars
    <2>2. TypeOK' /\ OwnRows'
      BY <2>1 DEF IInv, TxInv, TypeOK, OwnRows
    <2>3. \A w \in Workers : TxOK(w)'
      BY <2>1, OtherKeeps DEF IInv, TxInv
    <2>4. AllOrNothing' /\ RowsHaveLineage' /\ RowsAreAnnounced'
      BY <2>1 DEF IInv, AllOrNothing, RowsHaveLineage, RowsAreAnnounced
    <2>5. QED
      BY <2>2, <2>3, <2>4 DEF IInv, TxInv
  <1>2. ASSUME NEW w \in Workers,
               \/ IngestAlert(w) \/ IngestPfz(w) \/ IngestObservation(w) \/ IngestForecast(w)
        PROVE  IInv'
    <2>1. phase[w] = "check" /\ Rec(w) \notin Upserts /\ InsertOnce(w)
      BY <1>2 DEF IngestAlert, IngestPfz, IngestObservation, IngestForecast, AtRecord, Upserts
    <2>2. QED
      BY <2>1, InsertOnceStep
  <1>3. ASSUME NEW w \in Workers, IngestStation(w) \/ IngestMarineZone(w) PROVE IInv'
    <2>1. phase[w] = "check" /\ Upsert(w) /\ KindOf[Rec(w)] \in {"station", "zone"}
      BY <1>3 DEF IngestStation, IngestMarineZone, AtRecord
    <2>2. Rec(w) \in Records
      BY <1>3, <2>1, RecFacts DEF IInv, TxInv
    <2>3. QED
      BY <2>1, <2>2, UpsertStep DEF Upserts
  <1>4. ASSUME NEW w \in Workers, DeadlockVictim(w) \/ ProcessingRaises(w) PROVE IInv'
    <2>1. TypeOK
      BY DEF IInv
    <2>2. /\ phase[w] \notin {"idle", "raw"} /\ phase' = [phase EXCEPT ![w] = "rollback"]
          /\ UNCHANGED <<raw, jobs, rowBy, quality, payload, idx, newJob, pend, held, audits, events,
                         attempts>>
          /\ faults' = faults \/ (faults < MaxFaults /\ faults' = faults + 1)
          /\ failed' = failed \/ failed' = failed \cup {payload[w]}
      BY <1>4 DEF DeadlockVictim, ProcessingRaises, Goto, sharedVars
    <2>3. faults' \in 0 .. MaxFaults
      BY <2>1, <2>2 DEF TypeOK
    <2>4. failed' \in SUBSET Payloads
      BY <1>4, <2>1, <2>2 DEF TypeOK
    <2>5. QED
      BY <1>4, <2>2, <2>3, <2>4, AbortStep
  <1>5. QED
    BY <1>1, <1>2, <1>3, <1>4, StartStep, JobStep, FlushStep, CommitStep, DiscardStep
       DEF Next, Step

(* The inductive invariant holds of every reachable state. *)
THEOREM InvariantHolds == Spec => []IInv
  BY InitIInv, NextIInv, PTL DEF Spec

(* The database, the stores and every open transaction keep their types. *)
THEOREM TypeCorrect == Spec => []TypeOK
  BY InvariantHolds, PTL DEF IInv

(* A payload whose job is committed is stored whole, with its raw bytes,      *)
(* whichever of its records concurrent ingests skipped or raced for.          *)
THEOREM IngestIsAtomic == Spec => []AllOrNothing
  BY InvariantHolds, PTL DEF IInv

(* Every row has the lineage of a payload that contains it, and a record that *)
(* is inserted once has exactly one audit row.                                *)
THEOREM LineageIsComplete == Spec => []RowsHaveLineage
  BY InvariantHolds, PTL DEF IInv

(* No alert, PFZ or observation is visible whose lifecycle event was not      *)
(* published.                                                                 *)
THEOREM EventsPrecedeRows == Spec => []RowsAreAnnounced
  BY InvariantHolds, PTL DEF IInv

(* A row is never removed, and a duplicate never replaces the provenance of   *)
(* one that is inserted once.                                                 *)
THEOREM DuplicatesAreHarmless == Spec => FirstWriterWins
  <1> DEFINE A == \A r \in Records :
                    rowBy[r] # Nobody => /\ rowBy'[r] # Nobody
                                         /\ r \notin Upserts => rowBy'[r] = rowBy[r]
  <1>1. IInv /\ [Next]_vars => [A]_vars
    <2> SUFFICES ASSUME IInv, Next PROVE A
      OBVIOUS
    <2>1. PICK w \in Workers :
            (\E p \in Payloads : Begin(w, p)) \/ Step(w) \/ ProcessingRaises(w) \/ Crash(w)
      BY DEF Next
    <2>2. CASE Commit(w)
      BY <2>2, CommitStep
    <2>3. CASE ~Commit(w)
      <3>1. rowBy' = rowBy
        BY <2>1, <2>3 DEF Begin, Step, PutRaw, SelectJob, InsertJob, IngestAlert, IngestPfz,
             IngestObservation, IngestForecast, IngestStation, IngestMarineZone, InsertOnce, Upsert,
             Flush, Rollback, DeadlockVictim, ProcessingRaises, Crash, sharedVars
      <3>2. QED
        BY <3>1
    <2>4. QED
      BY <2>2, <2>3
  <1>2. QED
    BY <1>1, InvariantHolds, PTL DEF Spec, FirstWriterWins
=============================================================================
