---------------------- MODULE OperationRecorderProofs ----------------------
(***************************************************************************)
(* Proofs about OperationRecorder, for any buffer size and any number of   *)
(* records.                                                                *)
(***************************************************************************)
EXTENDS OperationRecorder, SequenceTheorems, FiniteSetTheorems, TLAPS

\* An id is the position of its record among all records ever made.
IdsArePositions ==
    /\ nextOpId = Len(log) + 1
    /\ \A i \in 1 .. Len(log) : log[i].id = i

IInv == TypeOK /\ IdsArePositions /\ HistoryIsRecentLog /\ MetricsExact

----------------------------------------------------------------------------
(* The pieces of record().                                                 *)

\* deque.append with a bound: the newest end of the buffer plus the record.
LEMMA PushResult ==
    ASSUME NEW buffer \in Seq(Record), NEW r \in Record,
           Len(buffer) <= MaxHistory
    PROVE  LET pushed == Push(buffer, r)
               n == IF Len(buffer) < MaxHistory THEN Len(buffer) + 1 ELSE MaxHistory
           IN  /\ pushed \in Seq(Record)
               /\ Len(pushed) = n
               /\ pushed[n] = r
               /\ \A j \in 1 .. n - 1 : pushed[j] = buffer[Len(buffer) + 1 - n + j]
<1>0. Len(buffer) \in Nat /\ MaxHistory \in Nat \ {0}
  BY LenProperties, HistoryAssumption
<1>1. CASE Len(buffer) < MaxHistory
  BY <1>0, <1>1, AppendProperties DEF Push
<1>2. CASE ~(Len(buffer) < MaxHistory)
  <2>1. Len(buffer) = MaxHistory /\ buffer # <<>>
    BY <1>0, <1>2, EmptySeq
  <2>2. /\ Tail(buffer) \in Seq(Record)
        /\ Len(Tail(buffer)) = MaxHistory - 1
        /\ \A j \in 1 .. MaxHistory - 1 : Tail(buffer)[j] = buffer[j + 1]
    BY <1>0, <2>1, HeadTailProperties
  <2>3. Push(buffer, r) = Append(Tail(buffer), r)
    BY <1>2 DEF Push
  <2> QED
    BY <1>0, <1>2, <2>1, <2>2, <2>3, AppendProperties
<1> QED
  BY <1>1, <1>2

\* What record() does to the log and to the set of records since a clear().
LEMMA RecordLog ==
    ASSUME TypeOK, IdsArePositions, NEW e \in Event, RecordOp(e)
    PROVE  LET n == Len(log) + 1
               r == [id |-> nextOpId, event |-> e]
           IN  /\ r \in Record
               /\ Len(log) \in Nat
               /\ log' \in Seq(Record)
               /\ Len(log') = n
               /\ log'[n] = r
               /\ \A i \in 1 .. Len(log) : log'[i] = log[i]
               /\ n \notin Window
               /\ Window \subseteq 1 .. Len(log)
               /\ Window' = Window \cup {n}
<1>1. [id |-> nextOpId, event |-> e] \in Record
  BY DEF Record, TypeOK
<1>2. Len(log) \in Nat /\ base \in 0 .. Len(log)
  BY LenProperties DEF TypeOK
<1>3. log' = Append(log, [id |-> nextOpId, event |-> e]) /\ base' = base
  BY DEF RecordOp
<1>4. /\ log' \in Seq(Record)
      /\ Len(log') = Len(log) + 1
      /\ log'[Len(log) + 1] = [id |-> nextOpId, event |-> e]
      /\ \A i \in 1 .. Len(log) : log'[i] = log[i]
  BY <1>1, <1>3, AppendProperties DEF TypeOK
<1>5. /\ Len(log) + 1 \notin Window
      /\ Window \subseteq 1 .. Len(log)
      /\ Window' = Window \cup {Len(log) + 1}
  BY <1>2, <1>3, <1>4 DEF Window
<1> QED
  BY <1>1, <1>2, <1>4, <1>5

----------------------------------------------------------------------------
(* The invariant.                                                          *)

\* Types, ids and the buffer in the initial state; all tallies are zero.
LEMMA InitInv ==
    ASSUME Init
    PROVE  IInv
<1>1. /\ log = <<>> /\ history = <<>> /\ base = 0
      /\ Len(log) = 0 /\ Len(history) = 0
      /\ log \in Seq(Record) /\ history \in Seq(Record)
  BY EmptySeq DEF Init
<1>2. DOMAIN byOp = {} /\ byOp \in [DOMAIN byOp -> Stats]
  BY DEF Init
<1>3. TypeOK
  BY <1>1, <1>2, HistoryAssumption DEF Init, TypeOK, Stats, NoStats
<1>4. IdsArePositions /\ HistoryIsRecentLog
  BY <1>1, HistoryAssumption DEF Init, IdsArePositions, HistoryIsRecentLog
<1>5. Window = {} /\ Errors(Window) = {}
  BY <1>1 DEF Window, Errors
<1>6. MetricsExact
  BY <1>2, <1>5, FS_EmptySet DEF Init, NoStats, MetricsExact
<1> QED
  BY <1>3, <1>4, <1>6 DEF IInv

\* record() keeps the types.
LEMMA RecordTyped ==
    ASSUME TypeOK, IdsArePositions, NEW e \in Event, RecordOp(e)
    PROVE  TypeOK'
<1>1. /\ [id |-> nextOpId, event |-> e] \in Record
      /\ Len(log) \in Nat
      /\ log' \in Seq(Record)
      /\ Len(log') = Len(log) + 1
  BY RecordLog
<1>2. history' \in Seq(Record) /\ Len(history') <= MaxHistory
  <2>1. history' = Push(history, [id |-> nextOpId, event |-> e])
    BY DEF RecordOp
  <2>2. Len(history) \in Nat /\ MaxHistory \in Nat \ {0}
    BY LenProperties, HistoryAssumption DEF TypeOK
  <2> QED
    BY <1>1, <2>1, <2>2, PushResult DEF TypeOK
<1>3. \A stats \in Stats : Count(stats, e) \in Stats
  BY DEF Stats, Count
<1>4. totals' \in Stats
  BY <1>3 DEF RecordOp, TypeOK
<1>5. byOp' \in [DOMAIN byOp' -> Stats] /\ DOMAIN byOp' \subseteq Service \X Operation
  <2>1. Bucket(Key(e)) \in Stats /\ Key(e) \in Service \X Operation
    BY DEF Bucket, NoStats, Stats, TypeOK, Key, Event
  <2> QED
    BY <1>3, <2>1 DEF RecordOp, TypeOK
<1>6. nextOpId' \in Nat \ {0} /\ base' \in 0 .. Len(log')
  BY <1>1 DEF RecordOp, TypeOK
<1> QED
  BY <1>1, <1>2, <1>4, <1>5, <1>6 DEF TypeOK

\* record() keeps the buffer the newest end of the log.
LEMMA RecordHistory ==
    ASSUME IInv, NEW e \in Event, RecordOp(e)
    PROVE  HistoryIsRecentLog'
<1> DEFINE r == [id |-> nextOpId, event |-> e]
           n == IF Len(history) < MaxHistory THEN Len(history) + 1 ELSE MaxHistory
<1>0. /\ TypeOK /\ IdsArePositions /\ HistoryIsRecentLog
      /\ MaxHistory \in Nat \ {0} /\ Len(history) \in Nat
      /\ Len(history) <= MaxHistory /\ base \in 0 .. Len(log)
  BY HistoryAssumption, LenProperties DEF IInv, TypeOK
<1>1. /\ r \in Record
      /\ Len(log) \in Nat
      /\ Len(log') = Len(log) + 1
      /\ log'[Len(log) + 1] = r
      /\ \A i \in 1 .. Len(log) : log'[i] = log[i]
  BY <1>0, RecordLog
<1>2. history' = Push(history, r) /\ base' = base
  BY DEF RecordOp
<1> HIDE DEF r
<1>3. /\ Len(history') = n
      /\ history'[n] = r
      /\ \A j \in 1 .. n - 1 : history'[j] = history[Len(history) + 1 - n + j]
  BY <1>0, <1>1, <1>2, PushResult DEF TypeOK
<1>4. Len(history') = IF Len(log') - base' < MaxHistory THEN Len(log') - base' ELSE MaxHistory
  BY <1>0, <1>1, <1>2, <1>3 DEF HistoryIsRecentLog
<1>5. Len(history) <= Len(log)
  BY <1>0, <1>1 DEF HistoryIsRecentLog
<1>6. ASSUME NEW j \in 1 .. n
      PROVE  history'[j] = log'[Len(log') - n + j]
  <2>1. CASE j = n
    BY <1>0, <1>1, <1>3, <2>1
  <2>2. CASE j # n
    <3>1. j \in 1 .. n - 1 /\ Len(history) + 1 - n + j \in 1 .. Len(history)
      BY <1>0, <2>2
    <3>2. history'[j] = log[Len(log) - Len(history) + (Len(history) + 1 - n + j)]
      BY <1>0, <1>3, <3>1 DEF HistoryIsRecentLog
    <3>3. /\ Len(log) - Len(history) + (Len(history) + 1 - n + j) = Len(log') - n + j
          /\ Len(log') - n + j \in 1 .. Len(log)
      BY <1>0, <1>1, <1>5, <3>1
    <3> QED
      BY <1>1, <3>2, <3>3
  <2> QED
    BY <2>1, <2>2
<1> QED
  BY <1>3, <1>4, <1>6 DEF HistoryIsRecentLog

\* Adding the new record to a finite set of records adds it to the errors of
\* the set exactly if it is one.
LEMMA ErrorsGrow ==
    ASSUME TypeOK, IdsArePositions, NEW e \in Event, RecordOp(e),
           NEW S \in SUBSET (1 .. Len(log))
    PROVE  LET n == Len(log) + 1
           IN  /\ Cardinality(S) \in Nat
               /\ Cardinality(S \cup {n}) = Cardinality(S) + 1
               /\ {i \in S : log'[i].event.status = "error"} = Errors(S)
               /\ Cardinality(Errors(S)) \in Nat
               /\ Cardinality({i \in S \cup {n} : log'[i].event.status = "error"})
                     = Cardinality(Errors(S)) + IF e.status = "error" THEN 1 ELSE 0
<1> DEFINE n == Len(log) + 1
           grown == {i \in S \cup {n} : log'[i].event.status = "error"}
<1>1. /\ Len(log) \in Nat
      /\ log'[n] = [id |-> nextOpId, event |-> e]
      /\ \A i \in 1 .. Len(log) : log'[i] = log[i]
  BY RecordLog
<1>2. n \notin S
  BY <1>1
<1>3. IsFiniteSet(1 .. Len(log))
  BY <1>1, FS_Interval
<1>4. IsFiniteSet(S)
  BY <1>3, FS_Subset
<1>5. Errors(S) \in SUBSET S
  BY DEF Errors
<1>6. IsFiniteSet(Errors(S))
  BY <1>4, <1>5, FS_Subset
<1>7. {i \in S : log'[i].event.status = "error"} = Errors(S)
  BY <1>1 DEF Errors
<1>8. grown = Errors(S) \cup IF e.status = "error" THEN {n} ELSE {}
  BY <1>1, <1>2, <1>7
<1>9. n \notin Errors(S)
  BY <1>2, <1>5
<1>10. /\ Cardinality(S) \in Nat
       /\ Cardinality(Errors(S)) \in Nat
       /\ Cardinality(S \cup {n}) = Cardinality(S) + 1
       /\ Cardinality(Errors(S) \cup {n}) = Cardinality(Errors(S)) + 1
  BY <1>2, <1>4, <1>6, <1>9, FS_AddElement, FS_CardinalityType
<1> HIDE DEF n, grown
<1>11. Cardinality(grown) = Cardinality(Errors(S)) + IF e.status = "error" THEN 1 ELSE 0
  <2>1. CASE e.status = "error"
    BY <1>8, <1>10, <2>1
  <2>2. CASE e.status # "error"
    <3>1. grown = Errors(S)
      BY <1>8, <2>2
    <3> QED
      BY <1>10, <2>2, <3>1
  <2> QED
    BY <2>1, <2>2
<1> QED
  BY <1>7, <1>10, <1>11 DEF n, grown

\* record() keeps the metrics exact.
LEMMA RecordMetrics ==
    ASSUME IInv, NEW e \in Event, RecordOp(e)
    PROVE  MetricsExact'
<1> DEFINE n == Len(log) + 1
<1>0. TypeOK /\ IdsArePositions /\ MetricsExact
  BY DEF IInv
<1>1. /\ Len(log) \in Nat
      /\ log'[n] = [id |-> nextOpId, event |-> e]
      /\ \A i \in 1 .. Len(log) : log'[i] = log[i]
      /\ n \notin Window
      /\ Window \in SUBSET (1 .. Len(log))
      /\ Window' = Window \cup {n}
  BY <1>0, RecordLog
<1>2. log'[n].event = e
  BY <1>1
<1>3. /\ totals'.count = Cardinality(Window')
      /\ totals'.error_count = Cardinality(Errors(Window)')
  <2>1. totals' = Count(totals, e)
    BY DEF RecordOp
  <2>2. Errors(Window)' = {i \in Window \cup {n} : log'[i].event.status = "error"}
    BY <1>1 DEF Errors
  <2> HIDE DEF n
  <2> QED
    BY <1>0, <1>1, <2>1, <2>2, ErrorsGrow DEF Count, MetricsExact, n
<1>4. DOMAIN byOp' = {Key(log'[i].event) : i \in Window'}
  <2>1. DOMAIN byOp' = DOMAIN byOp \cup {Key(e)}
    BY DEF RecordOp
  <2>2. {Key(log'[i].event) : i \in Window'}
          = {Key(log[i].event) : i \in Window} \cup {Key(e)}
    BY <1>1, <1>2
  <2> QED
    BY <1>0, <2>1, <2>2 DEF MetricsExact
<1>5. ASSUME NEW k \in DOMAIN byOp'
      PROVE  /\ byOp'[k].count = Cardinality(Of(k)')
             /\ byOp'[k].error_count = Cardinality(Errors(Of(k))')
  <2>1. Of(k) \in SUBSET (1 .. Len(log))
    BY <1>1 DEF Of
  <2>2. Of(k)' = IF k = Key(e) THEN Of(k) \cup {n} ELSE Of(k)
    BY <1>1, <1>2 DEF Of
  <2>3. CASE k = Key(e)
    <3>1. byOp'[k] = Count(Bucket(k), e)
      BY <2>3 DEF RecordOp
    <3>2. /\ Bucket(k).count = Cardinality(Of(k))
          /\ Bucket(k).error_count = Cardinality(Errors(Of(k)))
      <4>1. CASE k \in DOMAIN byOp
        BY <1>0, <4>1 DEF Bucket, MetricsExact
      <4>2. CASE k \notin DOMAIN byOp
        <5>1. Of(k) = {}
          BY <1>0, <4>2 DEF Of, MetricsExact
        <5>2. Errors(Of(k)) = {}
          BY <5>1 DEF Errors
        <5> QED
          BY <4>2, <5>1, <5>2, FS_EmptySet DEF Bucket, NoStats
      <4> QED
        BY <4>1, <4>2
    <3>3. Errors(Of(k))' = {i \in Of(k) \cup {n} : log'[i].event.status = "error"}
      BY <2>2, <2>3 DEF Errors
    <3>4. Of(k)' = Of(k) \cup {n}
      BY <2>2, <2>3
    <3>5. /\ Cardinality(Of(k)') = Cardinality(Of(k)) + 1
          /\ Cardinality(Errors(Of(k))')
               = Cardinality(Errors(Of(k))) + IF e.status = "error" THEN 1 ELSE 0
      BY <1>0, <2>1, <3>3, <3>4, ErrorsGrow
    <3>6. /\ byOp'[k].count = Bucket(k).count + 1
          /\ byOp'[k].error_count
               = Bucket(k).error_count + IF e.status = "error" THEN 1 ELSE 0
      BY <3>1 DEF Count
    <3> QED
      BY <3>2, <3>5, <3>6
  <2>4. CASE k # Key(e)
    <3>1. k \in DOMAIN byOp /\ byOp'[k] = byOp[k]
      BY <2>4 DEF RecordOp
    <3>2. Of(k)' = Of(k)
      BY <2>2, <2>4
    <3>3. Errors(Of(k))' = {i \in Of(k) : log'[i].event.status = "error"}
      BY <3>2 DEF Errors
    <3>4. Errors(Of(k))' = Errors(Of(k))
      BY <1>0, <2>1, <3>3, ErrorsGrow
    <3> QED
      BY <1>0, <3>1, <3>2, <3>4 DEF MetricsExact
  <2> QED
    BY <2>3, <2>4
<1> QED
  BY <1>3, <1>4, <1>5 DEF MetricsExact

\* clear() empties the window, so every tally it resets is exact.
LEMMA ClearInv ==
    ASSUME IInv, Clear
    PROVE  IInv'
<1>1. /\ log' = log /\ base' = Len(log) /\ nextOpId' = nextOpId
      /\ Len(log) \in Nat /\ history' = <<>> /\ Len(history') = 0
      /\ history' \in Seq(Record) /\ TypeOK
  BY EmptySeq, LenProperties DEF Clear, IInv, TypeOK
<1>2. DOMAIN byOp' = {} /\ byOp' \in [DOMAIN byOp' -> Stats]
  BY DEF Clear
<1>3. TypeOK'
  BY <1>1, <1>2, HistoryAssumption DEF Clear, TypeOK, NoStats, Stats
<1>4. IdsArePositions' /\ HistoryIsRecentLog'
  BY <1>1, HistoryAssumption DEF IInv, IdsArePositions, HistoryIsRecentLog
<1>5. Window' = {} /\ Errors(Window)' = {}
  BY <1>1 DEF Window, Errors
<1>6. MetricsExact'
  BY <1>2, <1>5, FS_EmptySet DEF Clear, NoStats, MetricsExact
<1> QED
  BY <1>3, <1>4, <1>6 DEF IInv

\* The inductive invariant of the recorder.
THEOREM Invariance == Spec => []IInv
<1>1. Init => IInv
  BY InitInv
<1>2. ASSUME IInv, [Next]_vars
      PROVE  IInv'
  <2>1. ASSUME NEW e \in Event, RecordOp(e)
        PROVE  IInv'
    <3>1. TypeOK'
      BY <1>2, <2>1, RecordTyped DEF IInv
    <3>2. HistoryIsRecentLog' /\ MetricsExact'
      BY <1>2, <2>1, RecordHistory, RecordMetrics
    <3>3. IdsArePositions'
      <4>1. /\ Len(log) \in Nat
            /\ Len(log') = Len(log) + 1
            /\ log'[Len(log) + 1] = [id |-> nextOpId, event |-> e]
            /\ \A i \in 1 .. Len(log) : log'[i] = log[i]
        BY <1>2, <2>1, RecordLog DEF IInv
      <4> QED
        BY <1>2, <2>1, <4>1 DEF IInv, RecordOp, IdsArePositions
    <3> QED
      BY <3>1, <3>2, <3>3 DEF IInv
  <2>2. CASE Clear
    BY <1>2, <2>2, ClearInv
  <2>3. CASE UNCHANGED vars
    BY <1>2, <2>3
    DEF vars, IInv, TypeOK, IdsArePositions, HistoryIsRecentLog, MetricsExact,
        Window, Errors, Of
  <2> QED
    BY <1>2, <2>1, <2>2, <2>3 DEF Next
<1> QED
  BY <1>1, <1>2, PTL DEF Spec

\* Type correctness of the recorder, and the bound on its buffer.
THEOREM TypeCorrect == Spec => []TypeOK
<1>1. IInv => TypeOK
  BY DEF IInv
<1> QED
  BY <1>1, Invariance, PTL

\* The history shown is always the newest records since the last clear().
THEOREM HistoryCorrect == Spec => []HistoryIsRecentLog
<1>1. IInv => HistoryIsRecentLog
  BY DEF IInv
<1> QED
  BY <1>1, Invariance, PTL

\* The metrics are always the exact tallies of the records since the last
\* clear(), evicted ones included.
THEOREM MetricsCorrect == Spec => []MetricsExact
<1>1. IInv => MetricsExact
  BY DEF IInv
<1> QED
  BY <1>1, Invariance, PTL

----------------------------------------------------------------------------
(* What the routes read.                                                   *)

\* The buffer holds its records in the order of their ids, which are their
\* places in the log; a record in the buffer is found by its id.
LEMMA BufferFacts ==
    ASSUME IInv
    PROVE  /\ Len(log) \in Nat /\ Len(history) \in Nat /\ MaxRecords \in Nat
           /\ \A j \in 1 .. Len(history) :
                 /\ history[j].id = Len(log) - Len(history) + j
                 /\ history[j].id \in 1 .. Len(log)
                 /\ history[j] = log[history[j].id]
                 /\ Get(history[j].id) = history[j]
           /\ \A id \in Nat \ {0} : Get(id) # None => id \in 1 .. Len(log) /\ Get(id) = log[id]
<1>0. /\ IdsArePositions /\ HistoryIsRecentLog
      /\ Len(log) \in Nat /\ Len(history) \in Nat /\ MaxRecords \in Nat
      /\ base \in 0 .. Len(log) /\ MaxHistory \in Nat \ {0}
  BY LenProperties, HistoryAssumption DEF IInv, TypeOK
<1>1. Len(history) <= Len(log)
  BY <1>0 DEF HistoryIsRecentLog
<1>2. ASSUME NEW j \in 1 .. Len(history)
      PROVE  /\ history[j].id = Len(log) - Len(history) + j
             /\ history[j].id \in 1 .. Len(log)
             /\ history[j] = log[history[j].id]
  <2> DEFINE i == Len(log) - Len(history) + j
  <2>1. i \in 1 .. Len(log)
    BY <1>0, <1>1
  <2>2. history[j] = log[i]
    BY <1>0 DEF HistoryIsRecentLog
  <2>3. log[i].id = i
    BY <1>0, <2>1 DEF IdsArePositions
  <2> QED
    BY <2>1, <2>2, <2>3
<1>3. ASSUME NEW j \in 1 .. Len(history), NEW k \in 1 .. Len(history),
             history[j].id = history[k].id
      PROVE  j = k
  <2>1. Len(log) - Len(history) + j = Len(log) - Len(history) + k
    BY <1>2, <1>3
  <2> QED
    BY <1>0, <2>1
<1>4. ASSUME NEW id, NEW j \in 1 .. Len(history), history[j].id = id
      PROVE  Get(id) = history[j]
  <2> DEFINE First(k) == /\ history[k].id = id
                         /\ \A i \in 1 .. k - 1 : history[i].id # id
  <2>1. \A i \in 1 .. j - 1 : i \in 1 .. Len(history) /\ i # j
    BY <1>0
  <2>2. First(j)
    BY <1>3, <1>4, <2>1
  <2>3. PICK k \in 1 .. Len(history) : First(k) /\ Get(id) = history[k]
    BY <1>4, <2>2 DEF Get
  <2> QED
    BY <1>3, <1>4, <2>3
<1>5. ASSUME NEW id \in Nat \ {0}, Get(id) # None
      PROVE  id \in 1 .. Len(log) /\ Get(id) = log[id]
  <2>1. PICK j \in 1 .. Len(history) : history[j].id = id
    BY <1>5 DEF Get
  <2> QED
    BY <1>2, <1>4, <2>1
<1> QED
  BY <1>0, <1>2, <1>4, <1>5

\* An operation id never comes to name another record.
THEOREM IdsStable == Spec => []IdsNameOneRecord
<1>1. ASSUME IInv
      PROVE  IdsNameOneRecord
  <2>1. \A i \in 1 .. Len(log) : log[i].id = i /\ Get(i) \in {None, log[i]}
    BY <1>1, BufferFacts DEF IInv, IdsArePositions
  <2>2. \A id \in Len(log) + 1 .. MaxRecords + 1 : Get(id) = None
    BY <1>1, BufferFacts
  <2> QED
    BY <2>1, <2>2 DEF IdsNameOneRecord
<1>2. IInv => IdsNameOneRecord
  BY <1>1
<1> QED
  BY <1>2, Invariance, PTL

\* Every page of the history is newest first, and each of its records is found
\* again by its id.
THEOREM PagesOpen == Spec => []ListedCanBeOpened
<1>1. ASSUME IInv
      PROVE  ListedCanBeOpened
  <2> SUFFICES ASSUME NEW limit \in 1 .. MaxHistory + 1,
                      NEW j \in DOMAIN ListRecent(limit)
               PROVE  /\ Get(ListRecent(limit)[j].id) = ListRecent(limit)[j]
                      /\ j > 1 => ListRecent(limit)[j - 1].id > ListRecent(limit)[j].id
    BY DEF ListedCanBeOpened
  <2> DEFINE len == Len(history)
             top == IF limit < len THEN limit ELSE len
  <2>1. len \in Nat /\ limit \in Nat /\ Len(log) \in Nat
    BY <1>1, BufferFacts, HistoryAssumption
  <2>2. /\ j \in 1 .. top
        /\ \A i \in 1 .. top : ListRecent(limit)[i] = history[len - i + 1]
    BY DEF ListRecent
  <2>3. \A i \in 1 .. top : len - i + 1 \in 1 .. len
    BY <2>1
  <2>4. Get(ListRecent(limit)[j].id) = ListRecent(limit)[j]
    <3>1. len - j + 1 \in 1 .. len /\ ListRecent(limit)[j] = history[len - j + 1]
      BY <2>2, <2>3
    <3> QED
      BY <1>1, <3>1, BufferFacts
  <2>5. \A i \in 1 .. top : ListRecent(limit)[i].id = Len(log) - len + (len - i + 1)
    BY <1>1, <2>2, <2>3, BufferFacts
  <2>6. j > 1 => j - 1 \in 1 .. top
    BY <2>1, <2>2
  <2>7. ASSUME j > 1
        PROVE  ListRecent(limit)[j - 1].id > ListRecent(limit)[j].id
    BY <2>1, <2>2, <2>5, <2>6, <2>7
  <2> QED
    BY <2>4, <2>7
<1>2. IInv => ListedCanBeOpened
  BY <1>1
<1> QED
  BY <1>2, Invariance, PTL

============================================================================
