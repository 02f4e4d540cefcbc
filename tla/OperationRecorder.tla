------------------------- MODULE OperationRecorder -------------------------
(***************************************************************************)
(* The operation history and metrics every provider call ends in:          *)
(* app/core/operations.py, as the routes of app/api/routes_operations.py   *)
(* show it.                                                                *)
(*                                                                         *)
(* A ring buffer of the last MaxHistory records, and running totals that   *)
(* outlive eviction.  Every operation is one lock region, hence one step.  *)
(* Durations, timestamps, the provider's name and the averages made of     *)
(* them are left out; what else a record carries (request id, resource,    *)
(* error code, retryable) is one opaque `detail'.                          *)
(*                                                                         *)
(* `log' and `base' are history variables: every record ever made, and how *)
(* many of them the last clear() dropped.                                  *)
(***************************************************************************)
EXTENDS Integers, Sequences, FiniteSets

CONSTANTS
    Service,     \* services a record can name
    Operation,   \* operations a record can name
    Detail,      \* what else a record carries
    None,        \* get()'s answer for an id it does not find
    MaxHistory,  \* max_history, MAX_HISTORY in the process
    MaxRecords   \* bound: records ever made

Status == {"success", "error"}

\* The arguments of record().
Event ==
    [service : Service, operation : Operation, status : Status, detail : Detail]

Record == [id : Nat \ {0}, event : Event]

Stats == [count : Nat, error_count : Nat]

ASSUME HistoryAssumption == MaxHistory \in Nat \ {0} /\ MaxRecords \in Nat

ASSUME NoneAssumption == None \notin Record

VARIABLES
    history,     \* _history, oldest first
    nextOpId,    \* _ids: the value next(_ids) returns next
    totals,      \* _totals
    byOp,        \* _by_operation: <<service, operation>> -> stats
    log,         \* history variable: every record ever made
    base         \* history variable: Len(log) at the last clear()

vars == <<history, nextOpId, totals, byOp, log, base>>

----------------------------------------------------------------------------

Key(e) == <<e.service, e.operation>>

NoStats == [count |-> 0, error_count |-> 0]

\* One more operation in a tally.
Count(stats, e) ==
    [ count |-> stats.count + 1,
      error_count |-> stats.error_count + IF e.status = "error" THEN 1 ELSE 0 ]

\* Mutant of Push: the buffer holds one record more than it should.
PushOneMore(buffer, r) ==
    IF Len(buffer) <= MaxHistory
    THEN Append(buffer, r)
    ELSE Append(Tail(buffer), r)

\* Mutant of Push: a full buffer turns new records away.
PushKeepsOldest(buffer, r) ==
    IF Len(buffer) < MaxHistory THEN Append(buffer, r) ELSE buffer

\* deque(maxlen=max_history).append
Push(buffer, r) ==
    IF Len(buffer) < MaxHistory
    THEN Append(buffer, r)
    ELSE Append(Tail(buffer), r)

\* _by_operation.setdefault(key, _OperationStats())
Bucket(k) == IF k \in DOMAIN byOp THEN byOp[k] ELSE NoStats

Init ==
    /\ history = <<>>
    /\ nextOpId = 1
    /\ totals = NoStats
    /\ byOp = <<>>
    /\ log = <<>>
    /\ base = 0

\* OperationRecorder.record
RecordOp(e) ==
    /\ Len(log) < MaxRecords
    /\ LET r == [id |-> nextOpId, event |-> e]
       IN  /\ history' = Push(history, r)
           /\ log' = Append(log, r)
    /\ nextOpId' = nextOpId + 1
    /\ totals' = Count(totals, e)
    /\ byOp' = [k \in DOMAIN byOp \cup {Key(e)} |->
                  IF k = Key(e) THEN Count(Bucket(k), e) ELSE byOp[k]]
    /\ UNCHANGED base

\* Mutant of Clear: the id counter restarts with the history.
ClearRestartsIds ==
    /\ history' = <<>>
    /\ totals' = NoStats
    /\ byOp' = <<>>
    /\ base' = Len(log)
    /\ nextOpId' = 1
    /\ UNCHANGED log

\* Mutant of Clear: the breakdown survives.
ClearKeepsBreakdown ==
    /\ history' = <<>>
    /\ totals' = NoStats
    /\ base' = Len(log)
    /\ UNCHANGED <<nextOpId, byOp, log>>

\* OperationRecorder.clear: ids keep counting.
Clear ==
    /\ history' = <<>>
    /\ totals' = NoStats
    /\ byOp' = <<>>
    /\ base' = Len(log)
    /\ UNCHANGED <<nextOpId, log>>

Next == (\E e \in Event : RecordOp(e)) \/ Clear

Spec == Init /\ [][Next]_vars

----------------------------------------------------------------------------
(* What the routes read.                                                   *)

\* Mutant of ListRecent: the reversal is forgotten.
ListRecentOldestFirst(limit) ==
    [j \in 1 .. (IF limit < Len(history) THEN limit ELSE Len(history)) |-> history[j]]

\* OperationRecorder.list_recent: newest first, at most `limit' of them.
ListRecent(limit) ==
    [j \in 1 .. (IF limit < Len(history) THEN limit ELSE Len(history)) |->
        history[Len(history) - j + 1]]

\* OperationRecorder.get: the first record with that id.
Get(id) ==
    IF \E j \in 1 .. Len(history) : history[j].id = id
    THEN history[CHOOSE j \in 1 .. Len(history) :
                   /\ history[j].id = id
                   /\ \A i \in 1 .. j - 1 : history[i].id # id]
    ELSE None

----------------------------------------------------------------------------
(* Properties                                                              *)

\* Types of the recorder's state, and the bound of its buffer.
TypeOK ==
    /\ history \in Seq(Record)
    /\ Len(history) <= MaxHistory
    /\ nextOpId \in Nat \ {0}
    /\ totals \in Stats
    /\ byOp \in [DOMAIN byOp -> Stats]
    /\ DOMAIN byOp \subseteq Service \X Operation
    /\ log \in Seq(Record)
    /\ base \in 0 .. Len(log)

\* The ring buffer is the newest end of everything recorded since the last
\* clear(): nothing lost before its time, nothing kept beyond MaxHistory, in
\* recording order, whatever mixture of records and clears came before.
HistoryIsRecentLog ==
    /\ Len(history) = IF Len(log) - base < MaxHistory THEN Len(log) - base ELSE MaxHistory
    /\ \A j \in 1 .. Len(history) :
          history[j] = log[Len(log) - Len(history) + j]

\* The records made since the last clear(), the errors among a set of records
\* and the records of one service and operation, all as indexes into log.
Window == base + 1 .. Len(log)

Errors(indexes) == {i \in indexes : log[i].event.status = "error"}

Of(k) == {i \in Window : Key(log[i].event) = k}

\* The metrics stay exact past eviction ("stays accurate for the process's
\* whole life even past MAX_HISTORY operations"): totals and every row of the
\* breakdown are the tallies of all records since the last clear().
MetricsExact ==
    /\ totals.count = Cardinality(Window)
    /\ totals.error_count = Cardinality(Errors(Window))
    /\ DOMAIN byOp = {Key(log[i].event) : i \in Window}
    /\ \A k \in DOMAIN byOp :
          /\ byOp[k].count = Cardinality(Of(k))
          /\ byOp[k].error_count = Cardinality(Errors(Of(k)))

\* An operation id names one operation for good: an id a client was once shown
\* either finds that very record or has aged out, before and after a clear().
IdsNameOneRecord ==
    /\ \A i \in 1 .. Len(log) : log[i].id = i /\ Get(i) \in {None, log[i]}
    /\ \A id \in Len(log) + 1 .. MaxRecords + 1 : Get(id) = None

\* What list_recent shows can be opened: every record in any page of the
\* history is found again by its own id, and pages are newest first.
ListedCanBeOpened ==
    \A limit \in 1 .. MaxHistory + 1 :
       \A j \in DOMAIN ListRecent(limit) :
          /\ Get(ListRecent(limit)[j].id) = ListRecent(limit)[j]
          /\ j > 1 => ListRecent(limit)[j - 1].id > ListRecent(limit)[j].id

============================================================================
