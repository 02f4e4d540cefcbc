------------------------- MODULE ProviderCallProofs -------------------------
(***************************************************************************)
(* Proofs about ProviderCall, for any number of threads, rules, calls and  *)
(* records.                                                                *)
(*                                                                         *)
(* The proofs of the injector and of the recorder are used here as they    *)
(* stand: every behaviour of ProviderCall is one of FailureInjector and of *)
(* OperationRecorder, so their inductive invariants hold in it.  What is   *)
(* new is the invariant CallInv, which ties the books of both to the calls *)
(* the threads are working on.                                             *)
(***************************************************************************)
EXTENDS ProviderCall, SequenceTheorems, FiniteSetTheorems, TLAPS

InjP == INSTANCE FailureInjectorProofs

RecP == INSTANCE OperationRecorderProofs
          WITH Detail <- CallDetail, MaxRecords <- MaxCalls

\* How far _call has come agrees with where the injector left the thread.
Stages ==
    \A t \in Thread :
       /\ stage[t] = "idle" <=> pc[t] = "idle"
       /\ stage[t] = "idle" <=> ticket[t] = 0
       /\ stage[t] = "invoking" => pc[t] = "passed"
       /\ stage[t] = "recording" => pc[t] \in {"passed", "raised"}

\* Types of what _call keeps for itself.
CallTyped ==
    /\ stage \in [Thread -> {"idle", "injecting", "invoking", "recording"}]
    /\ ticket \in [Thread -> 0 .. calls]
    /\ result \in [Thread -> Result]
    /\ sent \subseteq 1 .. calls
    /\ lost \subseteq 1 .. calls
    /\ blame \in [1 .. calls -> 0 .. Len(heap)]
    /\ calls \in 0 .. MaxCalls
    /\ Stages

\* No two threads work on the same call, and none on one that was lost.
Tickets ==
    /\ lost \subseteq sent
    /\ \A t \in Thread : ticket[t] # 0 =>
          /\ ticket[t] \notin lost
          /\ \A u \in Thread : ticket[u] = ticket[t] => u = t

\* What a thread knows of its call: the rule that applied to it decided
\* whether it was sent, and what will be recorded.
Decided(t) ==
    /\ blame[ticket[t]] = hit[t]
    /\ pc[t] = "raised" => hit[t] # 0 /\ ~Inj!IsLatency(hit[t])
    /\ pc[t] = "passed" => hit[t] = 0 \/ Inj!IsLatency(hit[t])
    /\ ticket[t] \in sent <=>
          stage[t] # "injecting" /\ pc[t] = "passed"
    /\ stage[t] = "recording" /\ pc[t] = "raised" =>
          result[t] = Failed(Inj!FailureErrors[heap[hit[t]].failure])

InTheirHands == \A t \in Thread : stage[t] # "idle" => Decided(t)

\* The call a record is about.
CallOf(i) == log[i].event.detail.call

\* A call has a record exactly if it is over and was not lost, and then one.
\* A thread is still on call n if n is its ticket.
Filed ==
    /\ \A i \in 1 .. Len(log) :
          /\ CallOf(i) \in 1 .. calls
          /\ CallOf(i) \notin lost
          /\ \A t \in Thread : ticket[t] # CallOf(i)
    /\ \A i, j \in 1 .. Len(log) : CallOf(i) = CallOf(j) => i = j
    /\ \A n \in 1 .. calls :
          \/ n \in lost
          \/ \E t \in Thread : ticket[t] = n
          \/ \E i \in 1 .. Len(log) : CallOf(i) = n

\* A record tells what the rule that applied to its call made of it.
Truthful(i) ==
    IF blame[CallOf(i)] # 0 /\ ~Inj!IsLatency(blame[CallOf(i)])
    THEN /\ CallOf(i) \notin sent
         /\ log[i].event.status = "error"
         /\ log[i].event.detail.error
              = Inj!FailureErrors[heap[blame[CallOf(i)]].failure]
    ELSE CallOf(i) \in sent

\* The whole log tells the truth.
HistoryTruthful == \A i \in 1 .. Len(log) : Truthful(i)

\* The inductive invariant, on top of those of the injector and the recorder.
CallInv ==
    /\ CallTyped
    /\ Tickets
    /\ InTheirHands
    /\ Filed
    /\ HistoryTruthful
    /\ HitsAccounted

----------------------------------------------------------------------------
(* ProviderCall and the proof modules name the same steps.                 *)

\* The injector's steps, as ProviderCall and as its proofs instantiate them.
LEMMA SameInjectorSteps ==
    /\ Inj!Init <=> InjP!Init
    /\ \A t \in Thread :
          /\ Inj!ApplyStep(t) <=> InjP!ApplyStep(t)
          /\ Inj!Return(t) <=> InjP!Return(t)
          /\ \A c : Inj!ApplyBegin(t, c) <=> InjP!ApplyBegin(t, c)
    /\ Inj!DevStep <=> InjP!DevStep
    /\ Inj!Call = InjP!Call
  BY DEF Inj!Init, InjP!Init, Inj!DevStep, InjP!DevStep, Inj!ApplyStep, InjP!ApplyStep,
     Inj!AddRule, InjP!AddRule, Inj!Clamp, InjP!Clamp, Inj!DeleteRule, InjP!DeleteRule,
     Inj!Clear, InjP!Clear, Inj!ApplyBegin, InjP!ApplyBegin, Inj!Registered,
     InjP!Registered, Inj!Matches, InjP!Matches, Inj!IsNext, InjP!IsNext,
     Inj!ApplyMiss, InjP!ApplyMiss, Inj!Fires, InjP!Fires, Inj!Roll, InjP!Roll,
     Inj!Visited, InjP!Visited, Inj!ApplyStale, InjP!ApplyStale, Inj!ApplyHit,
     InjP!ApplyHit, Inj!Outcome, InjP!Outcome, Inj!IsLatency, InjP!IsLatency,
     Inj!ApplyWake, InjP!ApplyWake, Inj!ApplyExhausted, InjP!ApplyExhausted,
     Inj!Return, InjP!Return, Inj!Call, InjP!Call

\* Likewise its type invariant.
LEMMA SameInjectorTypes ==
    /\ Inj!TypeOK <=> InjP!TypeOK
    /\ Inj!TypeOK' <=> InjP!TypeOK'
  BY DEF Inj!TypeOK, InjP!TypeOK, Inj!Rule, InjP!Rule, Inj!FailureType, InjP!FailureType,
     Inj!Call, InjP!Call

\* The same for the recorder.
LEMMA SameRecorder ==
    /\ Rec!Init <=> RecP!Init
    /\ \A e : Rec!RecordOp(e) <=> RecP!RecordOp(e)
    /\ Rec!Clear <=> RecP!Clear
    /\ Rec!TypeOK <=> RecP!TypeOK
    /\ Rec!TypeOK' <=> RecP!TypeOK'
    /\ Rec!Event = RecP!Event
  BY DEF Rec!Init, RecP!Init, Rec!RecordOp, RecP!RecordOp, Rec!Push, RecP!Push,
     Rec!Count, RecP!Count, Rec!Bucket, RecP!Bucket, Rec!Key, RecP!Key,
     Rec!NoStats, RecP!NoStats, Rec!Clear, RecP!Clear, Rec!TypeOK, RecP!TypeOK,
     Rec!Record, RecP!Record, Rec!Stats, RecP!Stats, Rec!Event, RecP!Event,
     Rec!Status, RecP!Status

----------------------------------------------------------------------------
(* The injector keeps its promises.                                        *)

\* What _call does is for the injector one of its own steps, or nothing.
LEMMA InjectorStep == [Next]_vars => [InjP!Next]_injVars
<1> SUFFICES ASSUME [Next]_vars
             PROVE  [InjP!Next]_injVars
  OBVIOUS
<1>1. ASSUME InjP!DevStep
      PROVE  InjP!Next
  BY <1>1 DEF InjP!Next
<1>2. ASSUME NEW t \in Thread, NEW c \in InjP!Call, InjP!ApplyBegin(t, c)
      PROVE  InjP!Next
  BY <1>2 DEF InjP!Next
<1>3. ASSUME NEW t \in Thread, InjP!ApplyStep(t) \/ InjP!Return(t)
      PROVE  InjP!Next
  BY <1>3 DEF InjP!Next
<1>4. CASE ChangeRules
  BY <1>1, <1>4, SameInjectorSteps DEF ChangeRules
<1>5. CASE ClearOperations
  BY <1>5 DEF ClearOperations
<1>6. ASSUME NEW t \in Thread, NEW c \in Inj!Call, StartCall(t, c)
      PROVE  InjP!Next
  BY <1>2, <1>6, SameInjectorSteps DEF StartCall
<1>7. ASSUME NEW t \in Thread, Inject(t) \/ Escape(t) \/ RecordCall(t)
      PROVE  InjP!Next
  BY <1>3, <1>7, SameInjectorSteps DEF Inject, Escape, RecordCall
<1>8. ASSUME NEW t \in Thread,
             \/ InjectedError(t) \/ Invoke(t) \/ Succeed(t)
             \/ \E exc \in BotoException : ProviderError(t, exc)
      PROVE  UNCHANGED injVars
  BY <1>8 DEF InjectedError, Invoke, Succeed, ProviderError
<1>9. CASE UNCHANGED vars
  BY <1>9 DEF vars
<1> QED
  BY <1>4, <1>5, <1>6, <1>7, <1>8, <1>9 DEF Next, CallStep

\* The injector inside _call behaves as FailureInjector says.
LEMMA InjectorRuns == Spec => InjP!Spec
<1>1. Init => InjP!Init
  BY SameInjectorSteps DEF Init
<1>2. [Next]_vars => [InjP!Next]_(InjP!vars)
  BY InjectorStep DEF InjP!vars, injVars
<1> QED
  BY <1>1, <1>2, PTL DEF Spec, InjP!Spec

\* So its inductive invariant holds here, too.
LEMMA InjectorInvariant == Spec => []InjP!IInv
BY InjectorRuns, InjP!Invariance, CallAssumption, RuleAssumption
DEF Inj!Call, InjP!Call, Inj!FailureType, InjP!FailureType

----------------------------------------------------------------------------
(* What _call keeps for itself is well typed.                              *)

\* What the injector's invariant says in _call's terms.
LEMMA InjectorFacts ==
    ASSUME InjP!IInv
    PROVE  /\ Len(heap) \in Nat
           /\ pc \in [Thread -> {"idle", "scan", "sleep", "passed", "raised"}]
           /\ hit \in [Thread -> 0 .. Len(heap)]
           /\ \A o \in 1 .. Len(heap) :
                 heap[o].failure \in Inj!FailureType /\ heap[o].hit_count \in Nat
           /\ \A t \in Thread :
                 /\ pc[t] # "idle" => call[t] \in Inj!Call
                 /\ pc[t] = "idle" => hit[t] = 0
                 /\ pc[t] = "raised" => hit[t] # 0 /\ ~Inj!IsLatency(hit[t])
                 /\ pc[t] = "passed" => hit[t] = 0 \/ Inj!IsLatency(hit[t])
<1>1. InjP!TypeOK /\ InjP!LocalsMatchPc /\ InjP!VerdictMatchesRule
  BY DEF InjP!IInv
<1>2. /\ Len(heap) \in Nat
      /\ \A o \in 1 .. Len(heap) : heap[o] \in InjP!Rule
  BY <1>1, LenProperties, ElementOfSeq DEF InjP!TypeOK
<1>3. \A o \in 1 .. Len(heap) :
         heap[o].failure \in Inj!FailureType /\ heap[o].hit_count \in Nat
  BY <1>2 DEF InjP!Rule, InjP!FailureType, Inj!FailureType
<1>4. /\ pc \in [Thread -> {"idle", "scan", "sleep", "passed", "raised"}]
      /\ hit \in [Thread -> 0 .. Len(heap)]
      /\ call \in [Thread -> InjP!Call \cup {NoCall}]
  BY <1>1 DEF InjP!TypeOK
<1>5. \A t \in Thread :
         /\ pc[t] # "idle" => call[t] \in Inj!Call
         /\ pc[t] = "idle" => hit[t] = 0
         /\ pc[t] = "raised" => hit[t] # 0 /\ ~Inj!IsLatency(hit[t])
         /\ pc[t] = "passed" => hit[t] = 0 \/ Inj!IsLatency(hit[t])
  BY <1>1, <1>4, SameInjectorSteps
  DEF InjP!LocalsMatchPc, InjP!VerdictMatchesRule, InjP!IsLatency, Inj!IsLatency
<1> QED
  BY <1>2, <1>3, <1>4, <1>5

\* The verdict part of it in the next state.
LEMMA InjectorFactsNext ==
    ASSUME InjP!IInv', NEW t \in Thread
    PROVE  /\ pc'[t] = "raised" => hit'[t] # 0 /\ heap'[hit'[t]].failure # "latency"
           /\ pc'[t] = "passed" => hit'[t] = 0 \/ heap'[hit'[t]].failure = "latency"
<1>1. /\ pc'[t] = "raised" => hit'[t] # 0 /\ ~InjP!IsLatency(hit[t])'
      /\ pc'[t] = "passed" => hit'[t] = 0 \/ InjP!IsLatency(hit[t])'
  BY DEF InjP!IInv, InjP!VerdictMatchesRule, InjP!LocalsMatchPc
<1> QED
  BY <1>1 DEF InjP!IsLatency

\* Every error of the table of failures, and every translation of an exception,
\* is an AppError.
LEMMA FailureIsAppError ==
    ASSUME NEW f \in Inj!FailureType, f # "latency"
    PROVE  Failed(Inj!FailureErrors[f]) \in Result
<1>1. /\ [code |-> "INTERNAL_ERROR", retryable |-> FALSE] \in AppError
      /\ [code |-> "ACCESS_DENIED", retryable |-> FALSE] \in AppError
      /\ [code |-> "PROVIDER_UNAVAILABLE", retryable |-> TRUE] \in AppError
      /\ [code |-> "THROTTLED", retryable |-> TRUE] \in AppError
  BY DEF AppError, ErrorCode
<1>2. Inj!FailureErrors[f] \in AppError
  <2>1. /\ Inj!FailureErrors["http_500"] = [code |-> "INTERNAL_ERROR", retryable |-> FALSE]
        /\ Inj!FailureErrors["http_403"] = [code |-> "ACCESS_DENIED", retryable |-> FALSE]
        /\ Inj!FailureErrors["timeout"] = [code |-> "PROVIDER_UNAVAILABLE", retryable |-> TRUE]
        /\ Inj!FailureErrors["throttle"] = [code |-> "THROTTLED", retryable |-> TRUE]
        /\ Inj!FailureErrors["connection_failure"]
             = [code |-> "PROVIDER_UNAVAILABLE", retryable |-> TRUE]
    BY DEF Inj!FailureErrors
  <2>2. f \in {"http_500", "http_403", "timeout", "throttle", "connection_failure"}
    BY DEF Inj!FailureType
  <2> QED
    BY <1>1, <2>1, <2>2
<1> QED
  BY <1>2 DEF Failed, Result

\* The same for translate_boto_error, whatever it is given.
LEMMA TranslationIsAppError ==
    ASSUME NEW exc
    PROVE  Failed(Translate(exc)) \in Result
<1>1. ASSUME NEW row \in ClientErrorMap
      PROVE  [code |-> row.code, retryable |-> row.retryable] \in AppError
  <2>1. row.code \in ErrorCode
    BY DEF ClientErrorMap, ErrorCode
  <2>2. row.retryable = TRUE \/ row.retryable = FALSE
    BY DEF ClientErrorMap
  <2> QED
    BY <2>1, <2>2 DEF AppError
<1>2. Translate(exc) \in AppError
  <2>1. CASE exc.kind = "client" /\ \E row \in ClientErrorMap : exc.aws \in row.aws
    <3> DEFINE row == CHOOSE r \in ClientErrorMap : exc.aws \in r.aws
    <3>1. row \in ClientErrorMap
      BY <2>1
    <3>2. Translate(exc) = [code |-> row.code, retryable |-> row.retryable]
      BY <2>1 DEF Translate
    <3> QED
      BY <1>1, <3>1, <3>2
  <2>2. CASE ~(exc.kind = "client" /\ \E row \in ClientErrorMap : exc.aws \in row.aws)
    BY <2>2 DEF Translate, AppError, ErrorCode
  <2> QED
    BY <2>1, <2>2
<1> QED
  BY <1>2 DEF Failed, Result

\* The developer's steps, as _call sees them: rules appear, none was hit yet.
LEMMA ChangeRulesSeen ==
    ASSUME InjP!IInv, ChangeRules
    PROVE  /\ Len(heap') >= Len(heap)
           /\ \A o \in 1 .. Len(heap) : heap'[o] = heap[o]
           /\ \A o \in Len(heap) + 1 .. Len(heap') : heap'[o].hit_count = 0
           /\ UNCHANGED <<calls, pc, call, todo, hit, mark>>
<1>1. InjP!DevStep /\ InjP!TypeOK
  BY SameInjectorSteps DEF ChangeRules, InjP!IInv
<1> QED
  BY <1>1, InjP!DevStepSeen, CallAssumption, RuleAssumption
  DEF Inj!Call, InjP!Call, Inj!FailureType, InjP!FailureType

\* A step of apply() as _call sees it: see InjP!Decides.
LEMMA InjectSeen ==
    ASSUME InjP!IInv, NEW t \in Thread, Inject(t)
    PROVE  /\ pc[t] \in {"scan", "sleep"}
           /\ pc' = [pc EXCEPT ![t] = pc'[t]]
           /\ pc'[t] \in {"scan", "sleep", "passed", "raised"}
           /\ hit' = [hit EXCEPT ![t] = hit'[t]]
           /\ hit'[t] \in 0 .. Len(heap)
           /\ hit[t] # 0 => hit'[t] = hit[t]
           /\ Len(heap') = Len(heap)
           /\ \A o \in 1 .. Len(heap) : heap'[o].failure = heap[o].failure
           /\ \A o \in 1 .. Len(heap) :
                 heap'[o].hit_count
                   = heap[o].hit_count + IF hit[t] = 0 /\ hit'[t] = o THEN 1 ELSE 0
           /\ UNCHANGED <<calls, call>>
<1>1. InjP!ApplyStep(t) /\ InjP!TypeOK /\ InjP!LocalsMatchPc
  BY SameInjectorSteps DEF Inject, InjP!IInv
<1>2. InjP!Decides(t)
  BY <1>1, InjP!ApplyStepSeen, CallAssumption, RuleAssumption
  DEF Inj!Call, InjP!Call, Inj!FailureType, InjP!FailureType
<1> QED
  BY <1>2 DEF InjP!Decides, InjP!RulesKept

\* A function on 1 .. n is a sequence of length n.
LEMMA FunctionIsSeq ==
    ASSUME NEW S, NEW n \in Nat, NEW f \in [1 .. n -> S]
    PROVE  f \in Seq(S) /\ Len(f) = n
BY SMT

\* A call keeps its own books straight.
LEMMA NextCallTyped ==
    ASSUME InjP!IInv, InjP!IInv', CallTyped, [Next]_vars
    PROVE  CallTyped'
<1>0. /\ Len(heap) \in Nat /\ calls \in 0 .. MaxCalls /\ MaxCalls \in Nat
      /\ pc \in [Thread -> {"idle", "scan", "sleep", "passed", "raised"}]
      /\ hit \in [Thread -> 0 .. Len(heap)]
      /\ stage \in [Thread -> {"idle", "injecting", "invoking", "recording"}]
      /\ ticket \in [Thread -> 0 .. calls]
      /\ result \in [Thread -> Result]
      /\ sent \subseteq 1 .. calls /\ lost \subseteq 1 .. calls
      /\ blame \in [1 .. calls -> 0 .. Len(heap)]
  BY InjectorFacts, CallAssumption DEF CallTyped
<1>1. CASE ChangeRules
  <2>1. Len(heap') \in Nat /\ Len(heap') >= Len(heap) /\ UNCHANGED <<calls, pc, callVars>>
    BY <1>0, <1>1, ChangeRulesSeen, InjectorFacts DEF ChangeRules
  <2> QED
    BY <1>0, <2>1 DEF CallTyped, Stages, callVars
<1>2. CASE ClearOperations
  BY <1>2 DEF ClearOperations, injVars, callVars, CallTyped, Stages
<1>3. ASSUME NEW t \in Thread, NEW c \in Inj!Call, StartCall(t, c)
      PROVE  CallTyped'
  <2>1. /\ calls' = calls + 1 /\ calls < MaxCalls /\ heap' = heap
        /\ pc' = [pc EXCEPT ![t] = "scan"]
        /\ stage' = [stage EXCEPT ![t] = "injecting"]
        /\ ticket' = [ticket EXCEPT ![t] = calls + 1]
        /\ blame' = Append(blame, 0)
        /\ UNCHANGED <<result, sent, lost>>
    BY <1>3 DEF StartCall, Inj!ApplyBegin
  <2>2. blame' \in [1 .. calls' -> 0 .. Len(heap')]
    <3>1. calls \in Nat /\ 0 \in 0 .. Len(heap)
      BY <1>0
    <3>2. blame \in Seq(0 .. Len(heap)) /\ Len(blame) = calls
      BY <1>0, <3>1, FunctionIsSeq
    <3>3. blame' \in Seq(0 .. Len(heap)) /\ Len(blame') = calls + 1
      BY <2>1, <3>1, <3>2, AppendProperties
    <3> QED
      BY <2>1, <3>3, LenProperties
  <2>3. Stages'
    BY <1>0, <2>1 DEF CallTyped, Stages
  <2> QED
    BY <1>0, <2>1, <2>2, <2>3 DEF CallTyped
<1>4. ASSUME NEW t \in Thread, Inject(t)
      PROVE  CallTyped'
  <2>1. /\ pc[t] \in {"scan", "sleep"} /\ stage[t] = "injecting"
        /\ pc' = [pc EXCEPT ![t] = pc'[t]]
        /\ pc'[t] \in {"scan", "sleep", "passed", "raised"}
        /\ hit'[t] \in 0 .. Len(heap) /\ Len(heap') = Len(heap)
        /\ blame' = [blame EXCEPT ![ticket[t]] = hit'[t]]
        /\ UNCHANGED <<calls, stage, ticket, result, sent, lost>>
    BY <1>4, InjectSeen DEF Inject
  <2>2. Stages'
    BY <1>0, <2>1 DEF CallTyped, Stages
  <2> QED
    BY <1>0, <2>1, <2>2 DEF CallTyped
<1>5. ASSUME NEW t \in Thread, InjectedError(t)
      PROVE  CallTyped'
  <2>1. /\ stage[t] = "injecting" /\ pc[t] = "raised"
        /\ result' = [result EXCEPT ![t] = Failed(Inj!FailureErrors[heap[hit[t]].failure])]
        /\ stage' = [stage EXCEPT ![t] = "recording"]
        /\ UNCHANGED <<heap, pc, calls, ticket, sent, lost, blame>>
    BY <1>5 DEF InjectedError, injVars
  <2>2. Failed(Inj!FailureErrors[heap[hit[t]].failure]) \in Result
    BY <1>0, <2>1, InjectorFacts, FailureIsAppError DEF Inj!IsLatency
  <2>3. Stages'
    BY <1>0, <2>1 DEF CallTyped, Stages
  <2> QED
    BY <1>0, <2>1, <2>2, <2>3 DEF CallTyped
<1>6. ASSUME NEW t \in Thread, Invoke(t)
      PROVE  CallTyped'
  <2>1. /\ stage[t] = "injecting" /\ pc[t] = "passed"
        /\ stage' = [stage EXCEPT ![t] = "invoking"]
        /\ sent' = sent \cup {ticket[t]}
        /\ UNCHANGED <<heap, pc, calls, ticket, result, lost, blame>>
    BY <1>6 DEF Invoke, injVars
  <2>2. ticket[t] \in 1 .. calls
    BY <1>0, <2>1 DEF CallTyped, Stages
  <2>3. Stages'
    BY <1>0, <2>1 DEF CallTyped, Stages
  <2> QED
    BY <1>0, <2>1, <2>2, <2>3 DEF CallTyped
<1>7. ASSUME NEW t \in Thread, Succeed(t) \/ \E exc \in BotoException : ProviderError(t, exc)
      PROVE  CallTyped'
  <2>1. PICK r \in Result :
           /\ stage[t] = "invoking"
           /\ result' = [result EXCEPT ![t] = r]
           /\ stage' = [stage EXCEPT ![t] = "recording"]
           /\ UNCHANGED <<heap, pc, calls, ticket, sent, lost, blame>>
    <3>1. Succeeded \in Result
      BY DEF Succeeded, Result
    <3> QED
      BY <1>7, <3>1, TranslationIsAppError DEF Succeed, ProviderError, injVars
  <2>2. Stages'
    BY <1>0, <2>1 DEF CallTyped, Stages
  <2> QED
    BY <1>0, <2>1, <2>2 DEF CallTyped
<1>8. ASSUME NEW t \in Thread, Escape(t)
      PROVE  CallTyped'
  <2>1. /\ stage[t] = "invoking"
        /\ pc' = [pc EXCEPT ![t] = "idle"]
        /\ stage' = [stage EXCEPT ![t] = "idle"]
        /\ ticket' = [ticket EXCEPT ![t] = 0]
        /\ lost' = lost \cup {ticket[t]}
        /\ UNCHANGED <<heap, calls, result, sent, blame>>
    BY <1>8 DEF Escape, Inj!Return
  <2>2. ticket[t] \in 1 .. calls
    BY <1>0, <2>1 DEF CallTyped, Stages
  <2>3. Stages'
    BY <1>0, <2>1 DEF CallTyped, Stages
  <2>4. lost' \subseteq 1 .. calls'
    BY <1>0, <2>1, <2>2
  <2>5. ticket' \in [Thread -> 0 .. calls']
    BY <1>0, <2>1
  <2> QED
    BY <1>0, <2>1, <2>3, <2>4, <2>5 DEF CallTyped
<1>9. ASSUME NEW t \in Thread, RecordCall(t)
      PROVE  CallTyped'
  <2>1. /\ stage[t] = "recording"
        /\ pc' = [pc EXCEPT ![t] = "idle"]
        /\ stage' = [stage EXCEPT ![t] = "idle"]
        /\ ticket' = [ticket EXCEPT ![t] = 0]
        /\ result' = [result EXCEPT ![t] = NoResult]
        /\ UNCHANGED <<heap, calls, sent, lost, blame>>
    BY <1>9 DEF RecordCall, Inj!Return
  <2>2. NoResult \in Result
    BY DEF NoResult, Succeeded, Result
  <2>3. Stages'
    BY <1>0, <2>1 DEF CallTyped, Stages
  <2> QED
    BY <1>0, <2>1, <2>2, <2>3 DEF CallTyped
<1>10. CASE UNCHANGED vars
  BY <1>10 DEF vars, injVars, callVars, CallTyped, Stages
<1> QED
  BY <1>1, <1>2, <1>3, <1>4, <1>5, <1>6, <1>7, <1>8, <1>9, <1>10 DEF Next, CallStep


\* Nothing has begun.
LEMMA InitCallTyped ==
    ASSUME Init
    PROVE  CallTyped
<1>1. NoResult \in Result
  BY DEF NoResult, Succeeded, Result
<1>2. /\ calls = 0 /\ pc = [t \in Thread |-> "idle"] /\ heap = <<>>
      /\ stage = [t \in Thread |-> "idle"] /\ ticket = [t \in Thread |-> 0]
      /\ result = [t \in Thread |-> NoResult] /\ sent = {} /\ lost = {}
      /\ blame = <<>> /\ MaxCalls \in Nat
  BY CallAssumption DEF Init, Inj!Init
<1>3. Len(heap) = 0
  BY <1>2, EmptySeq
<1>4. blame \in [1 .. calls -> 0 .. Len(heap)]
  BY <1>2, <1>3
<1>5. Stages
  BY <1>2 DEF Stages
<1> QED
  BY <1>1, <1>2, <1>4, <1>5 DEF CallTyped

\* So the injector's invariant and these types hold together.
LEMMA TypedInvariance == Spec => [](InjP!IInv /\ CallTyped)
<1>1. Init => CallTyped
  BY InitCallTyped
<1>2. InjP!IInv /\ InjP!IInv' /\ CallTyped /\ [Next]_vars => CallTyped'
  BY NextCallTyped
<1> QED
  BY <1>1, <1>2, InjectorInvariant, PTL DEF Spec

----------------------------------------------------------------------------
(* The recorder keeps its promises.                                        *)

\* What record() is told is an event.
LEMMA RecordedIsEvent ==
    ASSUME InjP!IInv, CallTyped, NEW t \in Thread, stage[t] = "recording"
    PROVE  /\ Recorded(t) \in Rec!Event
           /\ Recorded(t).detail.call = ticket[t]
           /\ Recorded(t).detail.error = result[t].error
           /\ Recorded(t).status = result[t].status
<1>1. /\ calls \in 0 .. MaxCalls /\ MaxCalls \in Nat
      /\ ticket[t] \in 1 .. calls /\ result[t] \in Result
      /\ call[t] \in Inj!Call
  BY InjectorFacts, CallAssumption DEF CallTyped, Stages
<1>2. call[t].service \in Service /\ call[t].operation \in Operation
  BY <1>1 DEF Inj!Call
<1>3. [call |-> ticket[t], error |-> result[t].error] \in CallDetail
  BY <1>1 DEF CallDetail, Result
<1>4. result[t].status \in Rec!Status
  BY <1>1 DEF Result, Rec!Status
<1> QED
  BY <1>2, <1>3, <1>4 DEF Recorded, Rec!Event

\* What _call does is for the recorder one of its own steps, or nothing.
LEMMA RecorderStep ==
    ASSUME InjP!IInv, CallTyped, [Next]_vars
    PROVE  [RecP!Next]_recVars
<1>1. CASE ClearOperations
  BY <1>1, SameRecorder DEF ClearOperations, RecP!Next
<1>2. ASSUME NEW t \in Thread, RecordCall(t)
      PROVE  RecP!Next
  <2>1. Recorded(t) \in RecP!Event
    BY <1>2, RecordedIsEvent, SameRecorder DEF RecordCall
  <2>2. RecP!RecordOp(Recorded(t))
    BY <1>2, SameRecorder DEF RecordCall
  <2> QED
    BY <2>1, <2>2 DEF RecP!Next
<1>3. CASE ChangeRules
  BY <1>3 DEF ChangeRules
<1>4. ASSUME NEW t \in Thread, NEW c \in Inj!Call, StartCall(t, c)
      PROVE  UNCHANGED recVars
  BY <1>4 DEF StartCall
<1>5. ASSUME NEW t \in Thread,
             \/ Inject(t) \/ InjectedError(t) \/ Invoke(t) \/ Succeed(t) \/ Escape(t)
             \/ \E exc \in BotoException : ProviderError(t, exc)
      PROVE  UNCHANGED recVars
  BY <1>5 DEF Inject, InjectedError, Invoke, Succeed, ProviderError, Escape
<1>6. CASE UNCHANGED vars
  BY <1>6 DEF vars
<1> QED
  BY <1>1, <1>2, <1>3, <1>4, <1>5, <1>6 DEF Next, CallStep

\* The recorder inside _call behaves as OperationRecorder says.
LEMMA RecorderRuns == Spec => RecP!Spec
<1>1. Init => RecP!Init
  BY SameRecorder DEF Init
<1>2. InjP!IInv /\ CallTyped /\ [Next]_vars => [RecP!Next]_(RecP!vars)
  BY RecorderStep DEF RecP!vars, recVars
<1> QED
  BY <1>1, <1>2, TypedInvariance, PTL DEF Spec, RecP!Spec

\* So its inductive invariant holds here, too.
LEMMA RecorderInvariant == Spec => []RecP!IInv
BY RecorderRuns, RecP!Invariance, CallAssumption, RecordAssumption
DEF Rec!Record, RecP!Record, Rec!Event, RecP!Event, Rec!Status, RecP!Status

\* _call drives the injector and the recorder as their own specifications say,
\* whatever its threads, the developer and the provider do.
THEOREM ComponentsDriven == Spec => ComponentsImplemented
<1>1. Init => Inj!Init /\ Rec!Init
  BY DEF Init
<1>2. [Next]_vars => [Inj!Next]_(Inj!vars)
  <2>1. InjP!Next => Inj!Next
    BY SameInjectorSteps DEF InjP!Next, Inj!Next
  <2> QED
    BY <2>1, InjectorStep DEF Inj!vars, injVars
<1>3. InjP!IInv /\ CallTyped /\ [Next]_vars => [Rec!Next]_(Rec!vars)
  <2>1. RecP!Next => Rec!Next
    BY SameRecorder DEF RecP!Next, Rec!Next
  <2> QED
    BY <2>1, RecorderStep DEF Rec!vars, recVars
<1> QED
  BY <1>1, <1>2, <1>3, TypedInvariance, PTL
  DEF Spec, ComponentsImplemented, Inj!Spec, Rec!Spec

----------------------------------------------------------------------------
(* The books of _call agree with those of the injector and the recorder.   *)

\* The log as _call sees it: one more record when a call is recorded.
LEMMA RecordSeen ==
    ASSUME InjP!IInv, RecP!IInv, CallTyped, NEW t \in Thread, RecordCall(t)
    PROVE  /\ Len(log) \in Nat /\ Len(log') = Len(log) + 1
           /\ \A i \in 1 .. Len(log) : log'[i] = log[i]
           /\ log'[Len(log) + 1].event.detail.call = ticket[t]
           /\ log'[Len(log) + 1].event.detail.error = result[t].error
           /\ log'[Len(log) + 1].event.status = result[t].status
<1>1. /\ Recorded(t) \in RecP!Event /\ RecP!RecordOp(Recorded(t))
      /\ Recorded(t).detail.call = ticket[t]
      /\ Recorded(t).detail.error = result[t].error
      /\ Recorded(t).status = result[t].status
  BY RecordedIsEvent, SameRecorder DEF RecordCall
<1>2. RecP!TypeOK
  BY DEF RecP!IInv
<1>3. /\ log \in Seq(RecP!Record)
      /\ [id |-> nextOpId, event |-> Recorded(t)] \in RecP!Record
      /\ log' = Append(log, [id |-> nextOpId, event |-> Recorded(t)])
  BY <1>1, <1>2 DEF RecP!TypeOK, RecP!RecordOp, RecP!Record
<1>4. /\ Len(log) \in Nat /\ Len(log') = Len(log) + 1
      /\ \A i \in 1 .. Len(log) : log'[i] = log[i]
      /\ log'[Len(log) + 1] = [id |-> nextOpId, event |-> Recorded(t)]
  BY <1>3, LenProperties, AppendProperties
<1> QED
  BY <1>1, <1>4

\* The records and tickets stay as they are in most steps.
LEMMA BooksKept ==
    ASSUME Filed, UNCHANGED <<calls, ticket, lost, log>>
    PROVE  Filed'
BY DEF Filed, CallOf

\* What was recorded stays true of the calls that are over.
LEMMA TruthKept ==
    ASSUME HistoryTruthful, UNCHANGED log,
           \A i \in 1 .. Len(log) :
              LET n == CallOf(i)
              IN  /\ blame'[n] = blame[n]
                  /\ n \in sent' <=> n \in sent
                  /\ blame[n] # 0 => heap'[blame[n]].failure = heap[blame[n]].failure
    PROVE  HistoryTruthful'
<1> SUFFICES ASSUME NEW i \in 1 .. Len(log)
             PROVE  Truthful(i)'
  BY DEF HistoryTruthful
<1>1. /\ Truthful(i) /\ CallOf(i)' = CallOf(i)
      /\ blame'[CallOf(i)] = blame[CallOf(i)]
      /\ CallOf(i) \in sent' <=> CallOf(i) \in sent
      /\ blame[CallOf(i)] # 0
            => heap'[blame[CallOf(i)]].failure = heap[blame[CallOf(i)]].failure
  BY DEF HistoryTruthful, CallOf
<1> QED
  BY <1>1 DEF Truthful, Inj!IsLatency, Inj!FailureErrors

\* A thread that does not move keeps what it knows.
LEMMA HandsKept ==
    ASSUME InTheirHands, NEW t \in Thread, stage[t] # "idle",
           /\ stage'[t] = stage[t] /\ pc'[t] = pc[t] /\ hit'[t] = hit[t]
           /\ ticket'[t] = ticket[t] /\ result'[t] = result[t]
           /\ blame'[ticket[t]] = blame[ticket[t]]
           /\ ticket[t] \in sent' <=> ticket[t] \in sent
           /\ hit[t] # 0 => heap'[hit[t]].failure = heap[hit[t]].failure
    PROVE  Decided(t)'
BY DEF InTheirHands, Decided, Inj!IsLatency, Inj!FailureErrors

\* Rules appear and go: no call notices.
LEMMA ChangeRulesBooks ==
    ASSUME InjP!IInv, CallInv, CallTyped', ChangeRules
    PROVE  CallInv'
<1>1. /\ Len(heap) \in Nat /\ hit \in [Thread -> 0 .. Len(heap)]
      /\ blame \in [1 .. calls -> 0 .. Len(heap)]
      /\ ticket \in [Thread -> 0 .. calls]
      /\ Len(heap') >= Len(heap)
      /\ \A o \in 1 .. Len(heap) : heap'[o] = heap[o]
      /\ \A o \in Len(heap) + 1 .. Len(heap') : heap'[o].hit_count = 0
      /\ UNCHANGED <<calls, pc, hit, stage, ticket, result, sent, lost, blame, log>>
  BY InjectorFacts, ChangeRulesSeen DEF CallInv, CallTyped, ChangeRules, callVars, recVars
<1>2. Tickets' /\ Filed'
  BY <1>1 DEF CallInv, Tickets, Filed, CallOf
<1>3. InTheirHands'
  <2> SUFFICES ASSUME NEW t \in Thread, stage[t] # "idle"
               PROVE  Decided(t)'
    BY <1>1 DEF InTheirHands
  <2> QED
    BY <1>1, HandsKept DEF CallInv
<1>4. HistoryTruthful'
  <2> SUFFICES ASSUME NEW i \in 1 .. Len(log)
               PROVE  Truthful(i)'
    BY <1>1 DEF HistoryTruthful
  <2>1. Truthful(i) /\ CallOf(i)' = CallOf(i) /\ blame[CallOf(i)] \in 0 .. Len(heap)
    BY <1>1 DEF CallInv, HistoryTruthful, Filed, CallOf
  <2> QED
    BY <1>1, <2>1 DEF Truthful, Inj!IsLatency, Inj!FailureErrors
<1>5. HitsAccounted'
  <2> SUFFICES ASSUME NEW o \in 1 .. Len(heap')
               PROVE  heap'[o].hit_count = Cardinality({n \in 1 .. calls : blame[n] = o})
    BY <1>1 DEF HitsAccounted
  <2>1. CASE o \in 1 .. Len(heap)
    BY <1>1, <2>1 DEF CallInv, HitsAccounted
  <2>2. CASE o \notin 1 .. Len(heap)
    <3>1. {n \in 1 .. calls : blame[n] = o} = {}
      BY <1>1, <2>2
    <3>2. Len(heap') \in Nat /\ o \in Len(heap) + 1 .. Len(heap')
      BY <1>1, <2>2
    <3> QED
      BY <1>1, <3>1, <3>2, FS_EmptySet
  <2> QED
    BY <2>1, <2>2
<1> QED
  BY <1>2, <1>3, <1>4, <1>5 DEF CallInv

\* A call begins with a number of its own and no rule to blame.
LEMMA StartCallBooks ==
    ASSUME InjP!IInv, CallInv, CallTyped', NEW t \in Thread, NEW c, StartCall(t, c)
    PROVE  CallInv'
<1>1. /\ Len(heap) \in Nat /\ hit \in [Thread -> 0 .. Len(heap)]
      /\ blame \in [1 .. calls -> 0 .. Len(heap)]
      /\ ticket \in [Thread -> 0 .. calls]
      /\ stage \in [Thread -> {"idle", "injecting", "invoking", "recording"}]
      /\ pc \in [Thread -> {"idle", "scan", "sleep", "passed", "raised"}]
      /\ calls \in Nat /\ sent \subseteq 1 .. calls /\ lost \subseteq 1 .. calls
  BY InjectorFacts, CallAssumption DEF CallInv, CallTyped
<1>2. /\ calls' = calls + 1 /\ ticket[t] = 0 /\ hit[t] = 0 /\ pc[t] = "idle"
      /\ pc' = [pc EXCEPT ![t] = "scan"]
      /\ stage' = [stage EXCEPT ![t] = "injecting"]
      /\ ticket' = [ticket EXCEPT ![t] = calls + 1]
      /\ UNCHANGED <<heap, hit, result, sent, lost, log>>
  BY InjectorFacts DEF StartCall, Inj!ApplyBegin, CallInv, CallTyped, Stages, recVars
<1>3. blame'[calls + 1] = 0 /\ \A n \in 1 .. calls : blame'[n] = blame[n]
  <2>1. 0 \in 0 .. Len(heap) /\ blame' = Append(blame, 0)
    BY <1>1 DEF StartCall
  <2>2. blame \in Seq(0 .. Len(heap)) /\ Len(blame) = calls
    BY <1>1, FunctionIsSeq
  <2> QED
    BY <2>1, <2>2, AppendProperties
<1>4. Tickets'
  BY <1>1, <1>2 DEF CallInv, Tickets
<1>5. InTheirHands'
  <2> SUFFICES ASSUME NEW u \in Thread, stage'[u] # "idle"
               PROVE  Decided(u)'
    BY DEF InTheirHands
  <2>1. CASE u = t
    BY <1>1, <1>2, <1>3, <2>1 DEF Decided
  <2>2. CASE u # t
    <3>1. stage[u] # "idle" /\ ticket[u] \in 1 .. calls
      BY <1>1, <1>2, <2>2 DEF CallInv, CallTyped, Stages
    <3> QED
      BY <1>1, <1>2, <1>3, <2>2, <3>1, HandsKept DEF CallInv
  <2> QED
    BY <2>1, <2>2
<1>6. Filed'
  <2>1. \A i \in 1 .. Len(log) : CallOf(i)' = CallOf(i) /\ CallOf(i) \in 1 .. calls
    BY <1>2 DEF CallInv, Filed, CallOf
  <2>2. ASSUME NEW i \in 1 .. Len(log')
        PROVE  /\ CallOf(i)' \in 1 .. calls'
               /\ CallOf(i)' \notin lost'
               /\ \A u \in Thread : ticket'[u] # CallOf(i)'
    BY <1>1, <1>2, <2>1 DEF CallInv, Filed
  <2>3. \A i, j \in 1 .. Len(log') : CallOf(i)' = CallOf(j)' => i = j
    BY <1>2, <2>1 DEF CallInv, Filed
  <2>4. ASSUME NEW n \in 1 .. calls'
        PROVE  \/ n \in lost'
               \/ \E u \in Thread : ticket'[u] = n
               \/ \E i \in 1 .. Len(log') : CallOf(i)' = n
    <3>1. CASE n = calls + 1
      BY <1>1, <1>2, <3>1
    <3>2. CASE n # calls + 1
      <4>1. n \in 1 .. calls
        BY <1>1, <1>2, <3>2
      <4>2. \A u \in Thread : ticket[u] = n => ticket'[u] = n
        BY <1>1, <1>2, <4>1
      <4> QED
        BY <1>2, <2>1, <4>1, <4>2 DEF CallInv, Filed
    <3> QED
      BY <3>1, <3>2
  <2> QED
    BY <2>2, <2>3, <2>4 DEF Filed
<1>7. HistoryTruthful'
  BY <1>2, <1>3, TruthKept DEF CallInv, Filed
<1>8. HitsAccounted'
  <2> SUFFICES ASSUME NEW o \in 1 .. Len(heap)
               PROVE  {n \in 1 .. calls' : blame'[n] = o} = {n \in 1 .. calls : blame[n] = o}
    BY <1>2 DEF CallInv, HitsAccounted
  <2> QED
    BY <1>1, <1>2, <1>3
<1> QED
  BY <1>4, <1>5, <1>6, <1>7, <1>8 DEF CallInv


\* What the invariants say of the variables, for the steps within a call.
LEMMA CallFacts ==
    ASSUME InjP!IInv, CallTyped
    PROVE  /\ Len(heap) \in Nat /\ hit \in [Thread -> 0 .. Len(heap)]
           /\ pc \in [Thread -> {"idle", "scan", "sleep", "passed", "raised"}]
           /\ stage \in [Thread -> {"idle", "injecting", "invoking", "recording"}]
           /\ ticket \in [Thread -> 0 .. calls]
           /\ result \in [Thread -> Result]
           /\ blame \in [1 .. calls -> 0 .. Len(heap)]
           /\ calls \in Nat /\ sent \subseteq 1 .. calls
           /\ \A t \in Thread : stage[t] # "idle" => ticket[t] \in 1 .. calls
BY InjectorFacts, CallAssumption DEF CallTyped, Stages

\* The injector decides: the rule that applies is blamed and counted.
LEMMA InjectBooks ==
    ASSUME InjP!IInv, InjP!IInv', CallInv, CallTyped', NEW t \in Thread, Inject(t)
    PROVE  CallInv'
<1> DEFINE n == ticket[t]
<1>1. /\ Len(heap) \in Nat /\ hit \in [Thread -> 0 .. Len(heap)]
      /\ pc \in [Thread -> {"idle", "scan", "sleep", "passed", "raised"}]
      /\ stage \in [Thread -> {"idle", "injecting", "invoking", "recording"}]
      /\ ticket \in [Thread -> 0 .. calls]
      /\ blame \in [1 .. calls -> 0 .. Len(heap)]
      /\ calls \in Nat
      /\ stage[t] = "injecting" /\ n \in 1 .. calls
  BY CallFacts DEF CallInv, Inject
<1>2. /\ pc[t] \in {"scan", "sleep"}
      /\ pc' = [pc EXCEPT ![t] = pc'[t]]
      /\ hit' = [hit EXCEPT ![t] = hit'[t]]
      /\ hit'[t] \in 0 .. Len(heap)
      /\ hit[t] # 0 => hit'[t] = hit[t]
      /\ Len(heap') = Len(heap)
      /\ \A o \in 1 .. Len(heap) : heap'[o].failure = heap[o].failure
      /\ \A o \in 1 .. Len(heap) :
            heap'[o].hit_count
              = heap[o].hit_count + IF hit[t] = 0 /\ hit'[t] = o THEN 1 ELSE 0
      /\ blame' = [blame EXCEPT ![n] = hit'[t]]
      /\ UNCHANGED <<calls, stage, ticket, result, sent, lost, log>>
  BY InjectSeen DEF Inject, recVars, CallInv
<1>3. blame'[n] = hit'[t] /\ \A m \in 1 .. calls : m # n => blame'[m] = blame[m]
  BY <1>1, <1>2
<1>4. \A u \in Thread : u # t => ticket[u] # n
  BY <1>1 DEF CallInv, Tickets
<1>5. /\ Decided(t) /\ blame[n] = hit[t]
  BY <1>1 DEF CallInv, InTheirHands, Decided
<1> HIDE DEF n
<1>6. Tickets' /\ Filed'
  BY <1>2, BooksKept DEF CallInv, Tickets
<1>7. InTheirHands'
  <2> SUFFICES ASSUME NEW u \in Thread, stage'[u] # "idle"
               PROVE  Decided(u)'
    BY DEF InTheirHands
  <2>1. CASE u = t
    <3>1. /\ blame'[ticket'[t]] = hit'[t] /\ stage'[t] = "injecting"
          /\ ticket'[t] \notin sent'
      BY <1>1, <1>2, <1>3, <1>5 DEF Decided, n
    <3>2. /\ pc'[t] = "raised" => hit'[t] # 0 /\ heap'[hit'[t]].failure # "latency"
          /\ pc'[t] = "passed" => hit'[t] = 0 \/ heap'[hit'[t]].failure = "latency"
      BY InjectorFactsNext DEF Inj!IsLatency
    <3> QED
      BY <2>1, <3>1, <3>2 DEF Decided, Inj!IsLatency
  <2>2. CASE u # t
    <3>1. ticket[u] \in 1 .. calls /\ ticket[u] # n /\ stage[u] # "idle"
      BY <1>2, <1>4, <2>2, CallFacts DEF CallInv
    <3>2. pc'[u] = pc[u] /\ hit'[u] = hit[u] /\ hit[u] \in 0 .. Len(heap)
      BY <1>1, <1>2, <2>2
    <3>3. hit[u] # 0 => heap'[hit[u]].failure = heap[hit[u]].failure
      BY <1>1, <1>2, <3>2
    <3> QED
      BY <1>2, <1>3, <3>1, <3>2, <3>3, HandsKept DEF CallInv
  <2> QED
    BY <2>1, <2>2
<1>8. HistoryTruthful'
  <2>1. ASSUME NEW i \in 1 .. Len(log)
        PROVE  /\ blame'[CallOf(i)] = blame[CallOf(i)]
               /\ blame[CallOf(i)] # 0
                     => heap'[blame[CallOf(i)]].failure = heap[blame[CallOf(i)]].failure
    <3>1. CallOf(i) \in 1 .. calls /\ CallOf(i) # n
      BY DEF CallInv, Filed, n
    <3> QED
      BY <1>1, <1>2, <1>3, <3>1
  <2> QED
    BY <1>2, <2>1, TruthKept DEF CallInv
<1>9. HitsAccounted'
  <2> SUFFICES ASSUME NEW o \in 1 .. Len(heap)
               PROVE  heap'[o].hit_count = Cardinality({m \in 1 .. calls : blame'[m] = o})
    BY <1>2 DEF HitsAccounted
  <2> DEFINE S == {m \in 1 .. calls : blame[m] = o}
             S2 == {m \in 1 .. calls : blame'[m] = o}
  <2>1. heap[o].hit_count = Cardinality(S)
    BY DEF CallInv, HitsAccounted
  <2>2. IsFiniteSet(1 .. calls)
    BY <1>1, FS_Interval
  <2>3. IsFiniteSet(S)
    BY <2>2, FS_Subset
  <2>4. CASE hit[t] = 0 /\ hit'[t] = o
    <3>1. S2 = S \cup {n} /\ n \notin S
      BY <1>1, <1>3, <1>5, <2>4 DEF n
    <3> HIDE DEF S, S2
    <3>2. Cardinality(S2) = Cardinality(S) + 1
      BY <2>3, <3>1, FS_AddElement
    <3> QED
      BY <1>2, <2>1, <2>4, <3>2 DEF S2
  <2>5. CASE ~(hit[t] = 0 /\ hit'[t] = o)
    <3>1. (hit'[t] = o) <=> (hit[t] = o)
      BY <1>1, <1>2, <2>5
    <3>2. S2 = S
      BY <1>1, <1>3, <1>5, <3>1
    <3>3. heap'[o].hit_count = heap[o].hit_count + 0
      BY <1>2, <2>5
    <3>4. heap[o].hit_count \in Nat
      BY InjectorFacts
    <3> HIDE DEF S, S2
    <3>5. heap'[o].hit_count = Cardinality(S2)
      BY <2>1, <3>2, <3>3, <3>4
    <3> QED
      BY <3>5 DEF S2
  <2> QED
    BY <2>4, <2>5
<1> QED
  BY <1>6, <1>7, <1>8, <1>9 DEF CallInv

\* A call makes up its mind what will be recorded: the injected error, or what
\* the provider answered.
LEMMA ResultBooks ==
    ASSUME InjP!IInv, CallInv, CallTyped', NEW t \in Thread,
           \/ InjectedError(t) \/ Succeed(t)
           \/ \E exc \in BotoException : ProviderError(t, exc)
    PROVE  CallInv'
<1>1. /\ stage \in [Thread -> {"idle", "injecting", "invoking", "recording"}]
      /\ result \in [Thread -> Result]
      /\ stage[t] # "idle" /\ ticket[t] \in 1 .. calls
  BY CallFacts DEF CallInv, InjectedError, Succeed, ProviderError
<1>2. /\ stage' = [stage EXCEPT ![t] = "recording"]
      /\ \A u \in Thread : u # t => result'[u] = result[u]
      /\ UNCHANGED <<heap, pc, hit, calls, ticket, sent, lost, blame, log>>
  BY <1>1 DEF InjectedError, Succeed, ProviderError, injVars, recVars
<1>3. Tickets' /\ Filed'
  BY <1>2, BooksKept DEF CallInv, Tickets
<1>4. HistoryTruthful'
  BY <1>2, TruthKept DEF CallInv
<1>5. HitsAccounted'
  BY <1>2 DEF CallInv, HitsAccounted
<1>6. InTheirHands'
  <2> SUFFICES ASSUME NEW u \in Thread, stage'[u] # "idle"
               PROVE  Decided(u)'
    BY DEF InTheirHands
  <2>1. CASE u = t
    <3>1. Decided(t) /\ stage'[t] = "recording"
      BY <1>1, <1>2 DEF CallInv, InTheirHands
    <3>2. CASE InjectedError(t)
      <4>1. /\ pc[t] = "raised" /\ stage[t] = "injecting"
            /\ result'[t] = Failed(Inj!FailureErrors[heap[hit[t]].failure])
        BY <1>1, <3>2 DEF InjectedError
      <4> QED
        BY <1>2, <2>1, <3>1, <4>1 DEF Decided, Inj!IsLatency, Inj!FailureErrors
    <3>3. CASE Succeed(t) \/ \E exc \in BotoException : ProviderError(t, exc)
      <4>1. pc[t] = "passed" /\ stage[t] = "invoking"
        BY <3>3 DEF Succeed, ProviderError, CallInv, CallTyped, Stages
      <4> QED
        BY <1>2, <2>1, <3>1, <4>1 DEF Decided, Inj!IsLatency
    <3> QED
      BY <3>2, <3>3
  <2>2. CASE u # t
    <3>1. stage'[u] = stage[u] /\ stage[u] # "idle"
      BY <1>1, <1>2, <2>2
    <3> QED
      BY <1>2, <2>2, <3>1, HandsKept DEF CallInv
  <2> QED
    BY <2>1, <2>2
<1> QED
  BY <1>3, <1>4, <1>5, <1>6 DEF CallInv

\* Only a call that the injector let pass is sent.
LEMMA InvokeBooks ==
    ASSUME InjP!IInv, CallInv, CallTyped', NEW t \in Thread, Invoke(t)
    PROVE  CallInv'
<1>1. /\ stage \in [Thread -> {"idle", "injecting", "invoking", "recording"}]
      /\ ticket[t] \in 1 .. calls
  BY CallFacts DEF CallInv, Invoke
<1>2. /\ stage[t] = "injecting" /\ pc[t] = "passed"
      /\ stage' = [stage EXCEPT ![t] = "invoking"]
      /\ sent' = sent \cup {ticket[t]}
      /\ UNCHANGED <<heap, pc, hit, calls, ticket, result, lost, blame, log>>
  BY DEF Invoke, injVars, recVars
<1>3. Tickets' /\ Filed'
  BY <1>2, BooksKept DEF CallInv, Tickets
<1>4. HistoryTruthful'
  <2>1. \A i \in 1 .. Len(log) : CallOf(i) # ticket[t]
    BY DEF CallInv, Filed
  <2> QED
    BY <1>2, <2>1, TruthKept DEF CallInv
<1>5. HitsAccounted'
  BY <1>2 DEF CallInv, HitsAccounted
<1>6. InTheirHands'
  <2> SUFFICES ASSUME NEW u \in Thread, stage'[u] # "idle"
               PROVE  Decided(u)'
    BY DEF InTheirHands
  <2>1. CASE u = t
    <3>1. Decided(t) /\ stage'[t] = "invoking"
      BY <1>1, <1>2 DEF CallInv, InTheirHands
    <3> QED
      BY <1>2, <2>1, <3>1 DEF Decided, Inj!IsLatency
  <2>2. CASE u # t
    <3>1. stage'[u] = stage[u] /\ stage[u] # "idle"
      BY <1>1, <1>2, <2>2
    <3>2. ticket[u] # ticket[t]
      BY <1>1, <2>2, CallFacts DEF CallInv, Tickets
    <3> QED
      BY <1>2, <2>2, <3>1, <3>2, HandsKept DEF CallInv
  <2> QED
    BY <2>1, <2>2
<1> QED
  BY <1>3, <1>4, <1>5, <1>6 DEF CallInv

\* An exception nobody translates: the call is over without a record.
LEMMA EscapeBooks ==
    ASSUME InjP!IInv, CallInv, CallTyped', NEW t \in Thread, Escape(t)
    PROVE  CallInv'
<1>1. /\ stage \in [Thread -> {"idle", "injecting", "invoking", "recording"}]
      /\ ticket \in [Thread -> 0 .. calls] /\ calls \in Nat
      /\ pc \in [Thread -> {"idle", "scan", "sleep", "passed", "raised"}]
      /\ hit \in [Thread -> 0 .. Len(heap)]
      /\ ticket[t] \in 1 .. calls
  BY CallFacts DEF CallInv, Escape
<1>2. /\ stage[t] = "invoking" /\ pc[t] = "passed"
      /\ pc' = [pc EXCEPT ![t] = "idle"]
      /\ hit' = [hit EXCEPT ![t] = 0]
      /\ stage' = [stage EXCEPT ![t] = "idle"]
      /\ ticket' = [ticket EXCEPT ![t] = 0]
      /\ lost' = lost \cup {ticket[t]}
      /\ UNCHANGED <<heap, calls, result, sent, blame, log>>
  BY DEF Escape, Inj!Return, recVars, CallInv, CallTyped, Stages
<1>3. ticket[t] \in sent
  BY <1>2 DEF CallInv, InTheirHands, Decided
<1>4. Tickets'
  BY <1>1, <1>2, <1>3 DEF CallInv, Tickets
<1>5. Filed'
  <2>1. \A i \in 1 .. Len(log) : CallOf(i)' = CallOf(i) /\ CallOf(i) \in 1 .. calls
    BY <1>2 DEF CallInv, Filed, CallOf
  <2>2. ASSUME NEW i \in 1 .. Len(log')
        PROVE  /\ CallOf(i)' \in 1 .. calls'
               /\ CallOf(i)' \notin lost'
               /\ \A u \in Thread : ticket'[u] # CallOf(i)'
    BY <1>1, <1>2, <2>1 DEF CallInv, Filed
  <2>3. \A i, j \in 1 .. Len(log') : CallOf(i)' = CallOf(j)' => i = j
    BY <1>2, <2>1 DEF CallInv, Filed
  <2>4. ASSUME NEW n \in 1 .. calls'
        PROVE  \/ n \in lost'
               \/ \E u \in Thread : ticket'[u] = n
               \/ \E i \in 1 .. Len(log') : CallOf(i)' = n
    <3>1. \A u \in Thread : ticket[u] = n => ticket'[u] = n \/ n \in lost'
      BY <1>1, <1>2
    <3> QED
      BY <1>2, <2>1, <3>1 DEF CallInv, Filed
  <2> QED
    BY <2>2, <2>3, <2>4 DEF Filed
<1>6. HistoryTruthful'
  BY <1>2, TruthKept DEF CallInv
<1>7. HitsAccounted'
  BY <1>2 DEF CallInv, HitsAccounted
<1>8. InTheirHands'
  <2> SUFFICES ASSUME NEW u \in Thread, stage'[u] # "idle"
               PROVE  Decided(u)'
    BY DEF InTheirHands
  <2>1. u # t /\ stage'[u] = stage[u] /\ stage[u] # "idle"
    BY <1>1, <1>2
  <2>2. pc'[u] = pc[u] /\ hit'[u] = hit[u] /\ ticket'[u] = ticket[u]
    BY <1>1, <1>2, <2>1
  <2> QED
    BY <1>2, <2>1, <2>2, HandsKept DEF CallInv
<1> QED
  BY <1>4, <1>5, <1>6, <1>7, <1>8 DEF CallInv

\* A call is over and leaves its one record, which tells the truth.
LEMMA RecordCallBooks ==
    ASSUME InjP!IInv, RecP!IInv, CallInv, CallTyped', NEW t \in Thread, RecordCall(t)
    PROVE  CallInv'
<1>1. /\ stage \in [Thread -> {"idle", "injecting", "invoking", "recording"}]
      /\ ticket \in [Thread -> 0 .. calls] /\ calls \in Nat
      /\ pc \in [Thread -> {"idle", "scan", "sleep", "passed", "raised"}]
      /\ hit \in [Thread -> 0 .. Len(heap)] /\ result \in [Thread -> Result]
      /\ ticket[t] \in 1 .. calls
  BY CallFacts DEF CallInv, RecordCall
<1>2. /\ stage[t] = "recording" /\ pc[t] \in {"passed", "raised"}
      /\ pc' = [pc EXCEPT ![t] = "idle"]
      /\ hit' = [hit EXCEPT ![t] = 0]
      /\ stage' = [stage EXCEPT ![t] = "idle"]
      /\ ticket' = [ticket EXCEPT ![t] = 0]
      /\ result' = [result EXCEPT ![t] = NoResult]
      /\ UNCHANGED <<heap, calls, sent, lost, blame>>
  BY DEF RecordCall, Inj!Return, CallInv, CallTyped, Stages
<1>3. PICK k \in Nat :
         /\ Len(log) \in Nat /\ k = Len(log) + 1 /\ Len(log') = k
         /\ \A i \in 1 .. Len(log) : log'[i] = log[i]
         /\ log'[k].event.detail.call = ticket[t]
         /\ log'[k].event.detail.error = result[t].error
         /\ log'[k].event.status = result[t].status
  BY RecordSeen DEF CallInv
<1>4. /\ \A i \in 1 .. Len(log) : CallOf(i)' = CallOf(i)
      /\ CallOf(k)' = ticket[t]
      /\ 1 .. Len(log') = (1 .. Len(log)) \cup {k}
  BY <1>3 DEF CallOf
<1>5. Decided(t)
  BY <1>2 DEF CallInv, InTheirHands
<1>6. Tickets'
  BY <1>1, <1>2 DEF CallInv, Tickets
<1>7. Filed'
  <2>1. \A u \in Thread : ticket'[u] # ticket[t]
    BY <1>1, <1>2 DEF CallInv, Tickets
  <2>2. ASSUME NEW i \in 1 .. Len(log')
        PROVE  /\ CallOf(i)' \in 1 .. calls'
               /\ CallOf(i)' \notin lost'
               /\ \A u \in Thread : ticket'[u] # CallOf(i)'
    <3>1. CASE i \in 1 .. Len(log)
      BY <1>1, <1>2, <1>4, <3>1 DEF CallInv, Filed
    <3>2. CASE i = k
      BY <1>1, <1>2, <1>4, <2>1, <3>2 DEF CallInv, Tickets
    <3> QED
      BY <1>4, <3>1, <3>2
  <2>3. ASSUME NEW i \in 1 .. Len(log'), NEW j \in 1 .. Len(log'), CallOf(i)' = CallOf(j)'
        PROVE  i = j
    BY <1>4, <2>3 DEF CallInv, Filed
  <2>4. ASSUME NEW n \in 1 .. calls'
        PROVE  \/ n \in lost'
               \/ \E u \in Thread : ticket'[u] = n
               \/ \E i \in 1 .. Len(log') : CallOf(i)' = n
    <3>1. \A u \in Thread : ticket[u] = n => ticket'[u] = n \/ n = ticket[t]
      BY <1>1, <1>2
    <3> QED
      BY <1>2, <1>4, <3>1 DEF CallInv, Filed
  <2> QED
    BY <2>2, <2>3, <2>4 DEF Filed
<1>8. HistoryTruthful'
  <2> SUFFICES ASSUME NEW i \in 1 .. Len(log')
               PROVE  Truthful(i)'
    BY DEF HistoryTruthful
  <2>1. CASE i \in 1 .. Len(log)
    <3>1. Truthful(i) /\ CallOf(i)' = CallOf(i) /\ log'[i] = log[i]
      BY <1>3, <1>4, <2>1 DEF CallInv, HistoryTruthful
    <3> QED
      BY <1>2, <3>1 DEF Truthful, Inj!IsLatency, Inj!FailureErrors
  <2>2. CASE i = k
    <3>1. /\ blame[ticket[t]] = hit[t]
          /\ ticket[t] \in sent <=> pc[t] = "passed"
          /\ pc[t] = "raised" => /\ hit[t] # 0 /\ ~Inj!IsLatency(hit[t])
                                /\ result[t] = Failed(Inj!FailureErrors[heap[hit[t]].failure])
          /\ pc[t] = "passed" => hit[t] = 0 \/ Inj!IsLatency(hit[t])
      BY <1>2, <1>5 DEF Decided
    <3>2. CASE pc[t] = "raised"
      <4>1. /\ result[t].status = "error"
            /\ result[t].error = Inj!FailureErrors[heap[hit[t]].failure]
        BY <3>1, <3>2 DEF Failed
      <4> QED
        BY <1>2, <1>3, <1>4, <2>2, <3>1, <3>2, <4>1 DEF Truthful, Inj!IsLatency, Inj!FailureErrors
    <3>3. CASE pc[t] = "passed"
      BY <1>2, <1>4, <2>2, <3>1, <3>3 DEF Truthful, Inj!IsLatency
    <3> QED
      BY <1>2, <3>2, <3>3
  <2> QED
    BY <1>4, <2>1, <2>2
<1>9. HitsAccounted'
  BY <1>2 DEF CallInv, HitsAccounted
<1>10. InTheirHands'
  <2> SUFFICES ASSUME NEW u \in Thread, stage'[u] # "idle"
               PROVE  Decided(u)'
    BY DEF InTheirHands
  <2>1. u # t /\ stage'[u] = stage[u] /\ stage[u] # "idle"
    BY <1>1, <1>2
  <2>2. /\ pc'[u] = pc[u] /\ hit'[u] = hit[u] /\ ticket'[u] = ticket[u]
        /\ result'[u] = result[u]
    BY <1>1, <1>2, <2>1
  <2> QED
    BY <1>2, <2>1, <2>2, HandsKept DEF CallInv
<1> QED
  BY <1>6, <1>7, <1>8, <1>9, <1>10 DEF CallInv


----------------------------------------------------------------------------
(* The invariant and what follows from it.                                 *)

\* There is nothing to account for yet.
LEMMA InitCallInv ==
    ASSUME Init
    PROVE  CallInv
<1>1. /\ ticket = [t \in Thread |-> 0] /\ stage = [t \in Thread |-> "idle"]
      /\ calls = 0 /\ sent = {} /\ lost = {} /\ heap = <<>> /\ log = <<>>
  BY DEF Init, Inj!Init, Rec!Init
<1>2. Len(log) = 0 /\ Len(heap) = 0
  BY <1>1, EmptySeq
<1>3. Tickets /\ InTheirHands /\ Filed /\ HistoryTruthful /\ HitsAccounted
  BY <1>1, <1>2 DEF Tickets, InTheirHands, Filed, HistoryTruthful, HitsAccounted
<1> QED
  BY <1>3, InitCallTyped DEF CallInv

\* A step that touches nothing the books speak of keeps them.
LEMMA NothingSeen ==
    ASSUME CallInv, CallTyped',
           UNCHANGED <<heap, pc, hit, calls, stage, ticket, result, sent, lost, blame, log>>
    PROVE  CallInv'
<1>1. Tickets' /\ Filed'
  BY BooksKept DEF CallInv, Tickets
<1>2. InTheirHands'
  <2> SUFFICES ASSUME NEW t \in Thread, stage[t] # "idle"
               PROVE  Decided(t)'
    BY DEF InTheirHands
  <2> QED
    BY HandsKept DEF CallInv
<1>3. HistoryTruthful'
  BY TruthKept DEF CallInv
<1>4. HitsAccounted'
  BY DEF CallInv, HitsAccounted
<1> QED
  BY <1>1, <1>2, <1>3, <1>4 DEF CallInv

\* Every step of the whole path keeps the books.
LEMMA NextCallInv ==
    ASSUME InjP!IInv, InjP!IInv', RecP!IInv, CallInv, [Next]_vars
    PROVE  CallInv'
<1>1. CallTyped'
  BY NextCallTyped DEF CallInv
<1>2. CASE ChangeRules
  BY <1>1, <1>2, ChangeRulesBooks
<1>3. CASE ClearOperations
  BY <1>1, <1>3, NothingSeen DEF ClearOperations, Rec!Clear, injVars, callVars
<1>4. ASSUME NEW t \in Thread, NEW c \in Inj!Call, StartCall(t, c)
      PROVE  CallInv'
  BY <1>1, <1>4, StartCallBooks
<1>5. ASSUME NEW t \in Thread, CallStep(t)
      PROVE  CallInv'
  <2>1. CASE Inject(t)
    BY <1>1, <2>1, InjectBooks
  <2>2. CASE InjectedError(t) \/ Succeed(t) \/ \E exc \in BotoException : ProviderError(t, exc)
    BY <1>1, <2>2, ResultBooks
  <2>3. CASE Invoke(t)
    BY <1>1, <2>3, InvokeBooks
  <2>4. CASE Escape(t)
    BY <1>1, <2>4, EscapeBooks
  <2>5. CASE RecordCall(t)
    BY <1>1, <2>5, RecordCallBooks
  <2> QED
    BY <1>5, <2>1, <2>2, <2>3, <2>4, <2>5 DEF CallStep
<1>6. CASE UNCHANGED vars
  BY <1>1, <1>6, NothingSeen DEF vars, injVars, recVars, callVars
<1> QED
  BY <1>2, <1>3, <1>4, <1>5, <1>6 DEF Next

\* The inductive invariant of the whole path: those of the injector and of the
\* recorder, and the books that tie them together.
THEOREM Invariance == Spec => [](InjP!IInv /\ RecP!IInv /\ CallInv)
<1>1. Init => CallInv
  BY InitCallInv
<1>2. InjP!IInv /\ InjP!IInv' /\ RecP!IInv /\ CallInv /\ [Next]_vars => CallInv'
  BY NextCallInv
<1> QED
  BY <1>1, <1>2, InjectorInvariant, RecorderInvariant, PTL DEF Spec

\* Types of the whole path, and _call's agreement with the injector.
THEOREM TypeCorrect == Spec => []TypeOK
<1>1. InjP!IInv /\ RecP!IInv /\ CallInv => TypeOK
  BY SameInjectorTypes, SameRecorder
  DEF InjP!IInv, RecP!IInv, CallInv, CallTyped, Stages, Tickets, TypeOK
<1> QED
  BY <1>1, Invariance, PTL

\* What is on its way, and what was recorded of a call that is over.
LEMMA RecordsFacts ==
    ASSUME CallInv
    PROVE  /\ \A n \in 1 .. calls : n \in InFlight <=> \E t \in Thread : ticket[t] = n
           /\ \A n \in InFlight \cup lost : RecordsOf(n) = {}
           /\ \A i \in 1 .. Len(log) : RecordsOf(CallOf(i)) = {i}
           /\ \A n \in 1 .. calls : n \notin InFlight \cup lost => RecordsOf(n) # {}
<1>1. \A n \in 1 .. calls : n \in InFlight <=> \E t \in Thread : ticket[t] = n
  BY DEF CallInv, CallTyped, Stages, InFlight
<1>2. \A n \in InFlight \cup lost : RecordsOf(n) = {}
  BY DEF CallInv, Filed, CallOf, RecordsOf, InFlight
<1>3. \A i \in 1 .. Len(log) : RecordsOf(CallOf(i)) = {i}
  BY DEF CallInv, Filed, CallOf, RecordsOf
<1>4. \A n \in 1 .. calls : n \notin InFlight \cup lost => RecordsOf(n) # {}
  BY <1>1 DEF CallInv, Filed, CallOf, RecordsOf
<1> QED
  BY <1>1, <1>2, <1>3, <1>4

\* Exactly one record for each call that came back to its caller, none for one
\* still under way.
THEOREM EachCallRecordedOnce == Spec => []RecordedOnce
<1>1. ASSUME CallInv
      PROVE  RecordedOnce
  <2> SUFFICES ASSUME NEW n \in 1 .. calls \ lost
               PROVE  Cardinality(RecordsOf(n)) = IF n \in InFlight THEN 0 ELSE 1
    BY DEF RecordedOnce
  <2>1. CASE n \in InFlight
    <3>1. RecordsOf(n) = {}
      BY <1>1, <2>1, RecordsFacts
    <3> QED
      BY <2>1, <3>1, FS_EmptySet
  <2>2. CASE n \notin InFlight
    <3>1. RecordsOf(n) # {}
      BY <1>1, <2>2, RecordsFacts
    <3>2. PICK i \in 1 .. Len(log) : CallOf(i) = n
      BY <3>1 DEF RecordsOf, CallOf
    <3>3. RecordsOf(n) = {i}
      BY <1>1, <3>2, RecordsFacts
    <3> QED
      BY <2>2, <3>3, FS_Singleton
  <2> QED
    BY <2>1, <2>2
<1>2. CallInv => RecordedOnce
  BY <1>1
<1> QED
  BY <1>2, Invariance, PTL

\* The failure injected is the failure recorded, and it happens instead of the
\* provider call; a success reached the provider.
THEOREM InjectionTruthful == Spec => []InjectionIsWhatHappened
<1>1. CallInv => InjectionIsWhatHappened
  BY DEF CallInv, HistoryTruthful, Truthful, RecordsOf, CallOf, InjectionIsWhatHappened
<1> QED
  BY <1>1, Invariance, PTL

\* A rule's hit count is the number of calls it applied to.
THEOREM HitsCounted == Spec => []HitsAccounted
<1>1. CallInv => HitsAccounted
  BY DEF CallInv
<1> QED
  BY <1>1, Invariance, PTL

----------------------------------------------------------------------------
(* The ledger.                                                             *)

\* The ledger's view of a call, now and after a step.
LEMMA OutcomeFacts ==
    ASSUME CallInv
    PROVE  /\ \A n \in lost : Outcome(n) = "lost"
           /\ \A t \in Thread : ticket[t] # 0 => Outcome(ticket[t]) = "pending"
           /\ \A i \in 1 .. Len(log) : Outcome(CallOf(i)) = log[i].event.status
<1>1. \A n \in lost : Outcome(n) = "lost"
  BY DEF Outcome
<1>2. ASSUME NEW t \in Thread, ticket[t] # 0
      PROVE  Outcome(ticket[t]) = "pending"
  <2>1. ticket[t] \in InFlight /\ ticket[t] \notin lost
    BY <1>2 DEF CallInv, CallTyped, Stages, Tickets, InFlight
  <2> QED
    BY <2>1, RecordsFacts DEF Outcome
<1>3. ASSUME NEW i \in 1 .. Len(log)
      PROVE  Outcome(CallOf(i)) = log[i].event.status
  <2>1. RecordsOf(CallOf(i)) = {i} /\ CallOf(i) \notin lost
    BY RecordsFacts DEF CallInv, Filed
  <2>2. (CHOOSE j \in RecordsOf(CallOf(i)) : TRUE) = i
    BY <2>1
  <2> QED
    BY <2>1, <2>2 DEF Outcome
<1> QED
  BY <1>1, <1>2, <1>3

\* Steps that neither begin nor end a call leave every outcome alone.
LEMMA OutcomesKept ==
    ASSUME UNCHANGED <<calls, lost, log>>
    PROVE  [n \in 1 .. calls |-> Outcome(n)]' = [n \in 1 .. calls |-> Outcome(n)]
BY DEF Outcome, RecordsOf


\* A call that begins is pending; the others stay what they were.
LEMMA StartCallLedger ==
    ASSUME CallInv, CallInv', CallTyped, NEW t \in Thread, NEW c, StartCall(t, c)
    PROVE  Ledger!Begin
<1>1. /\ calls' = calls + 1 /\ calls \in Nat /\ lost \subseteq 1 .. calls
      /\ ticket'[t] = calls + 1
      /\ UNCHANGED <<sent, lost, log>>
  BY CallAssumption DEF StartCall, Inj!ApplyBegin, CallTyped, recVars
<1>2. \A n \in 1 .. calls : Outcome(n)' = Outcome(n)
  BY <1>1 DEF Outcome, RecordsOf
<1>3. PICK m \in Nat : m = calls + 1
  BY <1>1
<1>4. Outcome(m)' = "pending"
  <2>1. \A i \in 1 .. Len(log) : log[i].event.detail.call # m
    BY <1>1, <1>3 DEF CallInv, Filed, CallOf
  <2>2. RecordsOf(m)' = {}
    BY <1>1, <2>1 DEF RecordsOf
  <2>3. m \notin lost'
    BY <1>1, <1>3
  <2> QED
    BY <2>2, <2>3 DEF Outcome
<1>5. ASSUME NEW n \in 1 .. calls + 1
      PROVE  Outcome(n)' = IF n \in 1 .. calls THEN Outcome(n) ELSE "pending"
  <2>1. n \in 1 .. calls \/ n = m
    BY <1>1, <1>3
  <2>2. m \notin 1 .. calls
    BY <1>1, <1>3
  <2> QED
    BY <1>2, <1>4, <2>1, <2>2
<1>6. [n \in 1 .. calls |-> Outcome(n)]'
        = [n \in 1 .. calls + 1 |->
             IF n \in 1 .. calls THEN [k \in 1 .. calls |-> Outcome(k)][n] ELSE "pending"]
  BY <1>1, <1>5
<1> QED
  BY <1>1, <1>6 DEF Ledger!Begin

\* An ending changes the outcome of its call, and of no other.
LEMMA EndingSeen ==
    ASSUME UNCHANGED calls, NEW m \in 1 .. calls, NEW ending,
           Outcome(m)' = ending,
           \A n \in 1 .. calls : n # m => Outcome(n)' = Outcome(n)
    PROVE  [n \in 1 .. calls |-> Outcome(n)]'
             = [[n \in 1 .. calls |-> Outcome(n)] EXCEPT ![m] = ending]
OBVIOUS

\* An exception nobody translates ends a call that was sent.
LEMMA EscapeLedger ==
    ASSUME InjP!IInv, CallInv, NEW t \in Thread, Escape(t)
    PROVE  \E m \in 1 .. calls : Ledger!End(m, "lost")
<1>1. PICK m \in 1 .. calls : m = ticket[t]
  BY CallFacts DEF CallInv, Escape
<1>2. /\ stage[t] = "invoking" /\ pc[t] = "passed"
      /\ lost' = lost \cup {m}
      /\ UNCHANGED <<calls, sent, log>>
  BY <1>1 DEF Escape, Inj!Return, recVars, CallInv, CallTyped, Stages
<1>3. m \in sent
  BY <1>1, <1>2 DEF CallInv, InTheirHands, Decided
<1>4. Outcome(m) = "pending"
  BY <1>1, OutcomeFacts
<1>5. Outcome(m)' = "lost" /\ \A n \in 1 .. calls : n # m => Outcome(n)' = Outcome(n)
  BY <1>2 DEF Outcome, RecordsOf
<1>6. [n \in 1 .. calls |-> Outcome(n)]'
        = [[n \in 1 .. calls |-> Outcome(n)] EXCEPT ![m] = "lost"]
  BY <1>2, <1>5, EndingSeen
<1>7. Ledger!End(m, "lost")
  BY <1>2, <1>3, <1>4, <1>6 DEF Ledger!End
<1> QED
  BY <1>7

\* A record ends a call as the record says.
LEMMA RecordCallLedger ==
    ASSUME InjP!IInv, RecP!IInv, CallInv, CallInv', NEW t \in Thread, RecordCall(t)
    PROVE  \E m \in 1 .. calls : \E ending \in Ledger!Ending : Ledger!End(m, ending)
<1>1. PICK m \in 1 .. calls : m = ticket[t]
  BY CallFacts DEF CallInv, RecordCall
<1>2. /\ stage[t] = "recording" /\ pc[t] \in {"passed", "raised"}
      /\ UNCHANGED <<calls, sent, lost>>
  BY DEF RecordCall, Inj!Return, CallInv, CallTyped, Stages
<1>3. PICK k \in Nat :
         /\ Len(log) \in Nat /\ k = Len(log) + 1 /\ Len(log') = k
         /\ \A i \in 1 .. Len(log) : log'[i] = log[i]
         /\ log'[k].event.detail.call = m
         /\ log'[k].event.status = result[t].status
  BY <1>1, RecordSeen DEF CallInv
<1>4. result[t].status \in {"success", "error"}
  BY CallFacts DEF CallInv, Result
<1>5. result[t].status # "error" => m \in sent
  <2>1. pc[t] = "raised" => result[t].status = "error"
    <3>1. pc[t] = "raised" =>
             result[t] = Failed(Inj!FailureErrors[heap[hit[t]].failure])
      BY <1>2 DEF CallInv, InTheirHands, Decided
    <3> QED
      BY <3>1 DEF Failed
  <2>2. pc[t] = "passed" => m \in sent
    BY <1>1, <1>2 DEF CallInv, InTheirHands, Decided
  <2> QED
    BY <1>2, <2>1, <2>2
<1>6. Outcome(m) = "pending"
  BY <1>1, OutcomeFacts
<1>7. Outcome(m)' = result[t].status
  <2>1. RecordsOf(m)' = {k}
    <3>1. \A i \in 1 .. Len(log) : log[i].event.detail.call # m
      BY <1>1 DEF CallInv, Filed, CallOf
    <3>2. 1 .. Len(log') = (1 .. Len(log)) \cup {k}
      BY <1>3
    <3> QED
      BY <1>3, <3>1, <3>2 DEF RecordsOf
  <2>2. m \notin lost'
    BY <1>1, <1>2 DEF CallInv, Tickets
  <2>3. (CHOOSE i \in RecordsOf(m)' : TRUE) = k
    BY <2>1
  <2> QED
    BY <1>3, <2>1, <2>2, <2>3 DEF Outcome
<1>8. ASSUME NEW n \in 1 .. calls, n # m
      PROVE  Outcome(n)' = Outcome(n)
  <2>1. 1 .. Len(log') = (1 .. Len(log)) \cup {k}
    BY <1>3
  <2>2. RecordsOf(n)' = RecordsOf(n) /\ RecordsOf(n) \subseteq 1 .. Len(log)
    BY <1>3, <1>8, <2>1 DEF RecordsOf
  <2> QED
    BY <1>2, <1>3, <2>2 DEF Outcome
<1>9. [n \in 1 .. calls |-> Outcome(n)]'
        = [[n \in 1 .. calls |-> Outcome(n)] EXCEPT ![m] = result[t].status]
  BY <1>2, <1>7, <1>8, EndingSeen
<1>10. Ledger!End(m, result[t].status) /\ result[t].status \in Ledger!Ending
  BY <1>2, <1>4, <1>5, <1>6, <1>9 DEF Ledger!End, Ledger!Ending
<1> QED
  BY <1>10

\* Every step of the path is a step of the ledger, or none.
LEMMA LedgerStep ==
    ASSUME InjP!IInv, RecP!IInv, CallInv, CallInv', [Next]_vars
    PROVE  [Ledger!Next]_(Ledger!vars)
<1>1. CASE ChangeRules \/ ClearOperations
  <2>1. UNCHANGED <<calls, sent, lost, log>>
    BY <1>1, ChangeRulesSeen DEF ChangeRules, ClearOperations, Rec!Clear, injVars, recVars,
       callVars
  <2> QED
    BY <2>1, OutcomesKept DEF Ledger!vars
<1>2. ASSUME NEW t \in Thread, NEW c \in Inj!Call, StartCall(t, c)
      PROVE  Ledger!Next
  BY <1>2, StartCallLedger DEF CallInv, Ledger!Next
<1>3. ASSUME NEW t \in Thread,
             \/ Inject(t) \/ InjectedError(t) \/ Succeed(t)
             \/ \E exc \in BotoException : ProviderError(t, exc)
      PROVE  UNCHANGED Ledger!vars
  <2>1. UNCHANGED <<calls, sent, lost, log>>
    BY <1>3, InjectSeen DEF Inject, InjectedError, Succeed, ProviderError, injVars, recVars
  <2> QED
    BY <2>1, OutcomesKept DEF Ledger!vars
<1>4. ASSUME NEW t \in Thread, Invoke(t)
      PROVE  Ledger!Next
  <2>1. PICK m \in 1 .. calls : m = ticket[t]
    BY <1>4, CallFacts DEF CallInv, Invoke
  <2>2. Outcome(m) = "pending" /\ m \notin sent
    BY <1>4, <2>1, OutcomeFacts DEF Invoke, CallInv, InTheirHands, Decided
  <2>3. sent' = sent \cup {m} /\ UNCHANGED <<calls, lost, log>>
    BY <1>4, <2>1 DEF Invoke, injVars, recVars
  <2>4. Ledger!Send(m)
    BY <2>2, <2>3, OutcomesKept DEF Ledger!Send
  <2> QED
    BY <2>4 DEF Ledger!Next
<1>5. ASSUME NEW t \in Thread, Escape(t)
      PROVE  Ledger!Next
  BY <1>5, EscapeLedger DEF Ledger!Next, Ledger!Ending
<1>6. ASSUME NEW t \in Thread, RecordCall(t)
      PROVE  Ledger!Next
  BY <1>6, RecordCallLedger DEF Ledger!Next
<1>7. CASE UNCHANGED vars
  BY <1>7, OutcomesKept DEF vars, injVars, recVars, callVars, Ledger!vars
<1> QED
  BY <1>1, <1>2, <1>3, <1>4, <1>5, <1>6, <1>7 DEF Next, CallStep

\* _call implements the ledger: a call is sent at most once, ends at most once,
\* and succeeds only if it was sent.
THEOREM LedgerKept == Spec => LedgerImplemented
<1>1. Init => Ledger!Init
  BY DEF Init, Inj!Init, Ledger!Init
<1>2. InjP!IInv /\ RecP!IInv /\ CallInv /\ CallInv' /\ [Next]_vars
        => [Ledger!Next]_(Ledger!vars)
  BY LedgerStep
<1> QED
  BY <1>1, <1>2, Invariance, PTL DEF Spec, LedgerImplemented, Ledger!Spec

==================================================
