---------------------------- MODULE ProviderCall ----------------------------
(***************************************************************************)
(* ProviderService._call (app/services/base.py): the path every provider   *)
(* call takes.  It composes the FailureInjector, asked before the call,    *)
(* the provider itself, and the OperationRecorder, told after it.          *)
(*                                                                         *)
(*    injecting --(raised)----------------------> recording --> idle       *)
(*        \--(passed)--> invoking --(ok, boto error)--/           ^        *)
(*                           \--(any other exception)-------------/        *)
(*                                                                         *)
(* Calls run in the threads of the server's pool while the developer       *)
(* changes rules and clears the history.  The provider is external: it     *)
(* answers with success, an exception of boto3, or something else goes     *)
(* wrong inside the function (no client for a bad endpoint URL).           *)
(***************************************************************************)
EXTENDS Integers, Sequences, FiniteSets, ErrorModel

CONSTANTS
    Thread, Service, Operation, WILDCARD, MAX_DELAY_MS, Certain, Request,
    NoCall, MaxRules, MaxCalls,    \* as in FailureInjector
    None, MaxHistory,              \* as in OperationRecorder
    BotoException                  \* boto3 exceptions the provider may raise

\* What FailureInjector and OperationRecorder assume of their constants.
ASSUME CallAssumption ==
    /\ MAX_DELAY_MS \in Nat
    /\ Certain \in Nat \ {0}
    /\ MaxRules \in Nat
    /\ MaxCalls \in Nat
    /\ MaxHistory \in Nat \ {0}

VARIABLES
    heap, registry, nextId, calls, pc, call, todo, hit, mark,  \* the injector
    history, nextOpId, totals, byOp, log, base,                \* the recorder
    stage,    \* how far _call has come in each thread
    ticket,   \* the number of each thread's call, 0 when idle
    result,   \* what will be recorded of it
    sent,     \* history variable: calls whose function ran
    lost,     \* history variable: calls ended by an untranslated exception
    blame     \* history variable: the rule that applied to each call, or 0

injVars == <<heap, registry, nextId, calls, pc, call, todo, hit, mark>>
recVars == <<history, nextOpId, totals, byOp, log, base>>
callVars == <<stage, ticket, result, sent, lost, blame>>
vars == <<injVars, recVars, callVars>>

Inj == INSTANCE FailureInjector

NoError == [code |-> None, retryable |-> None]

\* What a record carries besides operation and status.  The call's number
\* stands for its request id and resource.
CallDetail ==
    [ call : 1 .. MaxCalls,
      error : AppError \cup {NoError} ]

Rec == INSTANCE OperationRecorder
         WITH Detail <- CallDetail, MaxRecords <- MaxCalls

ASSUME RuleAssumption ==
    /\ NoCall \notin Inj!Call
    /\ Request \subseteq [ service : Service \cup {WILDCARD},
                           operation : Operation \cup {WILDCARD},
                           failure : Inj!FailureType,
                           delay_ms : Int,
                           probability : Int ]

ASSUME RecordAssumption == None \notin Rec!Record

Result == [status : {"success", "error"}, error : AppError \cup {NoError}]

Succeeded == [status |-> "success", error |-> NoError]

NoResult == Succeeded

Failed(error) == [status |-> "error", error |-> error]

Init ==
    /\ Inj!Init
    /\ Rec!Init
    /\ stage = [t \in Thread |-> "idle"]
    /\ ticket = [t \in Thread |-> 0]
    /\ result = [t \in Thread |-> NoResult]
    /\ sent = {}
    /\ lost = {}
    /\ blame = <<>>

----------------------------------------------------------------------------
(* The developer's requests (app/api/routes_dev.py, routes_operations.py). *)

ChangeRules ==
    /\ Inj!DevStep
    /\ UNCHANGED <<recVars, callVars>>

ClearOperations ==
    /\ Rec!Clear
    /\ UNCHANGED <<injVars, callVars>>

----------------------------------------------------------------------------
(* _call(), one thread.                                                    *)

\* Read the request id, enter the injector.
StartCall(t, c) ==
    /\ stage[t] = "idle"
    /\ Inj!ApplyBegin(t, c)
    /\ stage' = [stage EXCEPT ![t] = "injecting"]
    /\ ticket' = [ticket EXCEPT ![t] = calls + 1]
    /\ blame' = Append(blame, 0)
    /\ UNCHANGED <<recVars, result, sent, lost>>

Inject(t) ==
    /\ stage[t] = "injecting"
    /\ Inj!ApplyStep(t)
    /\ blame' = [blame EXCEPT ![ticket[t]] = hit'[t]]
    /\ UNCHANGED <<recVars, stage, ticket, result, sent, lost>>

\* Mutant of InjectedError: the exception leaves _call unrecorded.
InjectedErrorUnrecorded(t) ==
    /\ stage[t] = "injecting"
    /\ pc[t] = "raised"
    /\ Inj!Return(t)
    /\ stage' = [stage EXCEPT ![t] = "idle"]
    /\ ticket' = [ticket EXCEPT ![t] = 0]
    /\ UNCHANGED <<recVars, result, sent, lost, blame>>

\* Mutant of InjectedError: the record says success.
InjectedErrorAsSuccess(t) ==
    /\ stage[t] = "injecting"
    /\ pc[t] = "raised"
    /\ stage' = [stage EXCEPT ![t] = "recording"]
    /\ UNCHANGED <<injVars, recVars, ticket, result, sent, lost, blame>>

\* Mutant of InjectedError: a rule is used up by firing.
InjectedErrorOneShot(t) ==
    /\ stage[t] = "injecting"
    /\ pc[t] = "raised"
    /\ result' = [result EXCEPT ![t] = Failed(Inj!FailureErrors[heap[hit[t]].failure])]
    /\ stage' = [stage EXCEPT ![t] = "recording"]
    /\ registry' = [i \in DOMAIN registry \ {heap[hit[t]].id} |-> registry[i]]
    /\ todo' = [todo EXCEPT ![t] = {}]
    /\ pc' = [pc EXCEPT ![t] = "passed"]
    /\ UNCHANGED <<heap, nextId, calls, call, hit, mark>>
    /\ UNCHANGED <<recVars, ticket, sent, lost, blame>>

\* except AppError: the injector raised; fn() is never called.
InjectedError(t) ==
    /\ stage[t] = "injecting"
    /\ pc[t] = "raised"
    /\ result' = [result EXCEPT ![t] = Failed(Inj!FailureErrors[heap[hit[t]].failure])]
    /\ stage' = [stage EXCEPT ![t] = "recording"]
    /\ UNCHANGED <<injVars, recVars, ticket, sent, lost, blame>>

\* Mutant of Invoke: fn() runs whatever the injector decided.
InvokeAnyway(t) ==
    /\ stage[t] = "injecting"
    /\ pc[t] \in {"passed", "raised"}
    /\ stage' = [stage EXCEPT ![t] = "invoking"]
    /\ sent' = sent \cup {ticket[t]}
    /\ UNCHANGED <<injVars, recVars, ticket, result, lost, blame>>

\* The injector let the call through: fn() runs.
Invoke(t) ==
    /\ stage[t] = "injecting"
    /\ pc[t] = "passed"
    /\ stage' = [stage EXCEPT ![t] = "invoking"]
    /\ sent' = sent \cup {ticket[t]}
    /\ UNCHANGED <<injVars, recVars, ticket, result, lost, blame>>

\* fn() returned.
Succeed(t) ==
    /\ stage[t] = "invoking"
    /\ result' = [result EXCEPT ![t] = Succeeded]
    /\ stage' = [stage EXCEPT ![t] = "recording"]
    /\ UNCHANGED <<injVars, recVars, ticket, sent, lost, blame>>

\* except (ClientError, BotoCoreError): translated before it is recorded.
ProviderError(t, exc) ==
    /\ stage[t] = "invoking"
    /\ result' = [result EXCEPT ![t] = Failed(Translate(exc))]
    /\ stage' = [stage EXCEPT ![t] = "recording"]
    /\ UNCHANGED <<injVars, recVars, ticket, sent, lost, blame>>

\* fn() raised anything else: no except clause of _call catches it.
Escape(t) ==
    /\ stage[t] = "invoking"
    /\ Inj!Return(t)
    /\ stage' = [stage EXCEPT ![t] = "idle"]
    /\ ticket' = [ticket EXCEPT ![t] = 0]
    /\ lost' = lost \cup {ticket[t]}
    /\ UNCHANGED <<recVars, result, sent, blame>>

\* What operation_recorder.record() is told about the call.
Recorded(t) ==
    [ service |-> call[t].service,
      operation |-> call[t].operation,
      status |-> result[t].status,
      detail |-> [call |-> ticket[t], error |-> result[t].error] ]

\* Mutant of RecordCall: record() is reached a second time.
RecordCallTwice(t) ==
    /\ stage[t] = "recording"
    /\ Rec!RecordOp(Recorded(t))
    /\ UNCHANGED <<injVars, callVars>>

\* operation_recorder.record(...), then the result or the error leaves _call.
RecordCall(t) ==
    /\ stage[t] = "recording"
    /\ Rec!RecordOp(Recorded(t))
    /\ Inj!Return(t)
    /\ stage' = [stage EXCEPT ![t] = "idle"]
    /\ ticket' = [ticket EXCEPT ![t] = 0]
    /\ result' = [result EXCEPT ![t] = NoResult]
    /\ UNCHANGED <<sent, lost, blame>>

----------------------------------------------------------------------------

\* What a thread inside _call goes on to do by itself.
CallStep(t) ==
    \/ Inject(t)
    \/ InjectedError(t)
    \/ Invoke(t)
    \/ Succeed(t)
    \/ \E exc \in BotoException : ProviderError(t, exc)
    \/ Escape(t)
    \/ RecordCall(t)

Next ==
    \/ ChangeRules
    \/ ClearOperations
    \/ \E t \in Thread :
          \/ \E c \in Inj!Call : StartCall(t, c)
          \/ CallStep(t)

\* A thread that has begun a call is scheduled until it ends it.  The provider
\* answers: botocore gives up on a socket that stays silent.
Fairness == \A t \in Thread : WF_vars(CallStep(t))

Spec == Init /\ [][Next]_vars

FairSpec == Spec /\ Fairness

----------------------------------------------------------------------------
(* Properties                                                              *)

InFlight == {ticket[t] : t \in {u \in Thread : stage[u] # "idle"}}

\* The log entries about call n.
RecordsOf(n) == {i \in 1 .. Len(log) : log[i].event.detail.call = n}

\* Types, and the agreement of _call with the state of the injector's thread.
TypeOK ==
    /\ Inj!TypeOK
    /\ Rec!TypeOK
    /\ stage \in [Thread -> {"idle", "injecting", "invoking", "recording"}]
    /\ ticket \in [Thread -> 0 .. calls]
    /\ result \in [Thread -> Result]
    /\ sent \subseteq 1 .. calls
    /\ lost \subseteq sent
    /\ blame \in [1 .. calls -> 0 .. Len(heap)]
    /\ \A t \in Thread :
          /\ stage[t] = "idle" <=> pc[t] = "idle"
          /\ stage[t] = "invoking" => pc[t] = "passed"

\* Exactly once: a call that has come back to its caller, injected failure or
\* real answer, left one record whatever other threads did meanwhile; one
\* still under way has left none.
RecordedOnce ==
    \A n \in 1 .. calls \ lost :
       Cardinality(RecordsOf(n)) = IF n \in InFlight THEN 0 ELSE 1

\* The failure an operator injected is the failure the history shows, and it
\* happens instead of the provider call: a call that a failure rule applied to
\* never reaches the provider, and its record carries that rule's error; a
\* call recorded as a success did reach the provider.
InjectionIsWhatHappened ==
    \A n \in 1 .. calls : \A i \in RecordsOf(n) :
       IF blame[n] # 0 /\ ~Inj!IsLatency(blame[n])
       THEN /\ n \notin sent
            /\ log[i].event.status = "error"
            /\ log[i].event.detail.error = Inj!FailureErrors[heap[blame[n]].failure]
       ELSE n \in sent

\* The hit counts of the rules add up: a rule's count is the number of calls
\* it applied to, although threads race with each other and with clear(), and
\* rules are counted before they sleep.
HitsAccounted ==
    \A o \in 1 .. Len(heap) :
       heap[o].hit_count = Cardinality({n \in 1 .. calls : blame[n] = o})

\* The injector and the recorder keep their own promises when _call drives
\* them: their specifications are implemented by this one.
ComponentsImplemented == Inj!Spec /\ Rec!Spec

\* What a call has come to, as far as its record tells.
Outcome(n) ==
    IF n \in lost THEN "lost"
    ELSE IF RecordsOf(n) = {} THEN "pending"
    ELSE log[CHOOSE i \in RecordsOf(n) : TRUE].event.status

Ledger == INSTANCE CallLedger
            WITH begun <- calls, outcome <- [n \in 1 .. calls |-> Outcome(n)]

\* _call implements the ledger: sent at most once, ended at most once, never
\* a success that was not sent.
LedgerImplemented == Ledger!Spec

\* Every call ends.
EveryCallEnds == \A t \in Thread : stage[t] # "idle" ~> stage[t] = "idle"

=============================================================================
