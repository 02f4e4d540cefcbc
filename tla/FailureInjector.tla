-------------------------- MODULE FailureInjector --------------------------
(***************************************************************************)
(* The process-wide registry of failure rules and the check every provider *)
(* call runs before it goes out: app/core/failure_injection.py.            *)
(*                                                                         *)
(* The registry is a dict guarded by one lock.  Route handlers run in a    *)
(* thread pool, so apply() runs in several threads while the dev API adds, *)
(* deletes and clears rules.  apply() takes the lock twice: once to        *)
(* snapshot the matching rules and once per rule to re-check and count it. *)
(* Everything between two lock regions is a step others interleave with.   *)
(*                                                                         *)
(* Rule objects outlive their registration: a snapshot still refers to a   *)
(* deleted rule.  `heap' therefore holds every rule object ever built, in  *)
(* creation order, and `registry' is the dict, from ids to heap indexes.   *)
(***************************************************************************)
EXTENDS Integers, Sequences, ErrorModel

CONSTANTS
    Thread,        \* worker threads of the API server
    Service,       \* services a provider call can name
    Operation,     \* operations a provider call can name
    WILDCARD,      \* "*": matches any service or operation
    MAX_DELAY_MS,  \* cap on a rule's delay
    Certain,       \* probability 1.0; random() returns 0 .. Certain - 1
    Request,       \* the rules a developer may ask for
    NoCall,        \* the call of a thread that is not inside apply()
    MaxRules,      \* bound: rule objects ever built
    MaxCalls       \* bound: calls of apply() ever begun

Call == [service : Service, operation : Operation]

Rule ==
    [ id : Nat \ {0},
      service : Service \cup {WILDCARD},
      operation : Operation \cup {WILDCARD},
      failure : FailureType,
      delay_ms : 0 .. MAX_DELAY_MS,
      probability : 0 .. Certain,
      hit_count : Nat ]

ASSUME BoundsAssumption ==
    /\ MAX_DELAY_MS \in Nat
    /\ Certain \in Nat \ {0}
    /\ MaxRules \in Nat
    /\ MaxCalls \in Nat

ASSUME NoCallAssumption == NoCall \notin Call

\* What add_rule is called with; out-of-range numbers are add_rule's to clamp.
ASSUME RequestAssumption ==
    Request \subseteq [ service : Service \cup {WILDCARD},
                        operation : Operation \cup {WILDCARD},
                        failure : FailureType,
                        delay_ms : Int,
                        probability : Int ]

VARIABLES
    heap,      \* every FailureRule object ever built, oldest first
    registry,  \* _rules: id -> index into heap
    nextId,    \* _ids: the value next(_ids) returns next
    calls,     \* calls of apply() begun so far
    pc,        \* where each thread is in apply()
    call,      \* the arguments of each thread's apply()
    todo,      \* heap indexes of the snapshot still to be visited
    hit,       \* heap index of the rule that applied, 0 while none has
    mark       \* history: Len(heap) when the snapshot was taken

regVars == <<heap, registry, nextId>>
vars == <<heap, registry, nextId, calls, pc, call, todo, hit, mark>>

----------------------------------------------------------------------------

\* Mutant of Clamp: the cap without the floor.
ClampNoFloor(x, top) == IF x > top THEN top ELSE x

Clamp(x, top) == IF x < 0 THEN 0 ELSE IF x > top THEN top ELSE x

\* FailureRule.matches
Matches(rule, c) ==
    /\ rule.service \in {c.service, WILDCARD}
    /\ rule.operation \in {c.operation, WILDCARD}

\* The rules the dict holds, as heap indexes.
Registered == {registry[i] : i \in DOMAIN registry}

\* apply() skips a rule when `probability < 1.0 and random() > probability'.
Fires(rule, roll) == ~(rule.probability < Certain /\ roll > rule.probability)

Roll == 0 .. Certain - 1

IsLatency(o) == heap[o].failure = "latency"

\* A rule whose probability roll cannot miss.
IsCertain(o) == heap[o].probability = Certain

Init ==
    /\ heap = <<>>
    /\ registry = <<>>
    /\ nextId = 1
    /\ calls = 0
    /\ pc = [t \in Thread |-> "idle"]
    /\ call = [t \in Thread |-> NoCall]
    /\ todo = [t \in Thread |-> {}]
    /\ hit = [t \in Thread |-> 0]
    /\ mark = [t \in Thread |-> 0]

----------------------------------------------------------------------------
(* The dev API: each operation is one lock region.                         *)

AddRule(r) ==
    /\ Len(heap) < MaxRules
    /\ heap' = Append(heap,
                 [ id |-> nextId,
                   service |-> r.service,
                   operation |-> r.operation,
                   failure |-> r.failure,
                   delay_ms |-> Clamp(r.delay_ms, MAX_DELAY_MS),
                   probability |-> Clamp(r.probability, Certain),
                   hit_count |-> 0 ])
    /\ registry' = [i \in DOMAIN registry \cup {nextId} |->
                      IF i = nextId THEN Len(heap) + 1 ELSE registry[i]]
    /\ nextId' = nextId + 1
    /\ UNCHANGED <<calls, pc, call, todo, hit, mark>>

DeleteRule(id) ==
    /\ id \in DOMAIN registry
    /\ registry' = [i \in DOMAIN registry \ {id} |-> registry[i]]
    /\ UNCHANGED <<heap, nextId, calls, pc, call, todo, hit, mark>>

\* Mutant of Clear: the id counter restarts with the registry.
ClearRestartsIds ==
    /\ registry' = <<>>
    /\ nextId' = 1
    /\ UNCHANGED <<heap, calls, pc, call, todo, hit, mark>>

\* The id counter is not part of the dict and keeps counting.
Clear ==
    /\ registry' = <<>>
    /\ UNCHANGED <<heap, nextId, calls, pc, call, todo, hit, mark>>

----------------------------------------------------------------------------
(* apply(), one thread.                                                    *)

\* First lock region: snapshot the matching rules, in dict order.
ApplyBegin(t, c) ==
    /\ pc[t] = "idle"
    /\ calls < MaxCalls
    /\ calls' = calls + 1
    /\ pc' = [pc EXCEPT ![t] = "scan"]
    /\ call' = [call EXCEPT ![t] = c]
    /\ todo' = [todo EXCEPT ![t] = {o \in Registered : Matches(heap[o], c)}]
    /\ mark' = [mark EXCEPT ![t] = Len(heap)]
    /\ UNCHANGED <<heap, registry, nextId, hit>>

\* Mutant of IsNext: the loop visits the newest rule first.
IsNextNewestFirst(t, o) ==
    /\ pc[t] = "scan"
    /\ o \in todo[t]
    /\ \A p \in todo[t] : o >= p

\* The loop visits the snapshot in dict order, which is creation order.
IsNext(t, o) ==
    /\ pc[t] = "scan"
    /\ o \in todo[t]
    /\ \A p \in todo[t] : o <= p

Visited(t, o) == todo' = [todo EXCEPT ![t] = @ \ {o}]

\* The probability roll missed.
ApplyMiss(t, o) ==
    /\ IsNext(t, o)
    /\ \E roll \in Roll : ~Fires(heap[o], roll)
    /\ Visited(t, o)
    /\ UNCHANGED <<heap, registry, nextId, calls, pc, call, hit, mark>>

\* Mutant of ApplyStale: a rule that is gone ends the loop.
ApplyStaleReturns(t, o) ==
    /\ IsNext(t, o)
    /\ \E roll \in Roll : Fires(heap[o], roll)
    /\ heap[o].id \notin DOMAIN registry
    /\ todo' = [todo EXCEPT ![t] = {}]
    /\ UNCHANGED <<heap, registry, nextId, calls, pc, call, hit, mark>>

\* Mutant of ApplyStale: a rule that is gone is looked up again.
ApplyStaleRetries(t, o) ==
    /\ IsNext(t, o)
    /\ \E roll \in Roll : Fires(heap[o], roll)
    /\ heap[o].id \notin DOMAIN registry
    /\ UNCHANGED vars

\* Second lock region: the rule was deleted or cleared meanwhile.
ApplyStale(t, o) ==
    /\ IsNext(t, o)
    /\ \E roll \in Roll : Fires(heap[o], roll)
    /\ heap[o].id \notin DOMAIN registry
    /\ Visited(t, o)
    /\ UNCHANGED <<heap, registry, nextId, calls, pc, call, hit, mark>>

Outcome(o) == IF IsLatency(o) THEN "passed" ELSE "raised"

\* Mutant of ApplyHit: only failures count as hits.
ApplyHitUncounted(t, o) ==
    /\ IsNext(t, o)
    /\ \E roll \in Roll : Fires(heap[o], roll)
    /\ heap[o].id \in DOMAIN registry
    /\ heap' = [heap EXCEPT ![o].hit_count = IF IsLatency(o) THEN @ ELSE @ + 1]
    /\ hit' = [hit EXCEPT ![t] = o]
    /\ todo' = [todo EXCEPT ![t] = {}]
    /\ pc' = [pc EXCEPT ![t] = IF heap[o].delay_ms > 0 THEN "sleep" ELSE Outcome(o)]
    /\ UNCHANGED <<registry, nextId, calls, call, mark>>

\* Second lock region: the rule still counts; it ends the loop.
ApplyHit(t, o) ==
    /\ IsNext(t, o)
    /\ \E roll \in Roll : Fires(heap[o], roll)
    /\ heap[o].id \in DOMAIN registry
    /\ heap' = [heap EXCEPT ![o].hit_count = @ + 1]
    /\ hit' = [hit EXCEPT ![t] = o]
    /\ todo' = [todo EXCEPT ![t] = {}]
    /\ pc' = [pc EXCEPT ![t] = IF heap[o].delay_ms > 0 THEN "sleep" ELSE Outcome(o)]
    /\ UNCHANGED <<registry, nextId, calls, call, mark>>

\* time.sleep() is over.  The rule is not looked up again.
ApplyWake(t) ==
    /\ pc[t] = "sleep"
    /\ pc' = [pc EXCEPT ![t] = Outcome(hit[t])]
    /\ UNCHANGED <<heap, registry, nextId, calls, call, todo, hit, mark>>

\* The loop ran out of rules.
ApplyExhausted(t) ==
    /\ pc[t] = "scan"
    /\ todo[t] = {}
    /\ pc' = [pc EXCEPT ![t] = "passed"]
    /\ UNCHANGED <<heap, registry, nextId, calls, call, todo, hit, mark>>

\* The call apply() was asked about is over and the thread's locals are gone.
Return(t) ==
    /\ pc[t] \in {"passed", "raised"}
    /\ pc' = [pc EXCEPT ![t] = "idle"]
    /\ call' = [call EXCEPT ![t] = NoCall]
    /\ todo' = [todo EXCEPT ![t] = {}]
    /\ hit' = [hit EXCEPT ![t] = 0]
    /\ mark' = [mark EXCEPT ![t] = 0]
    /\ UNCHANGED <<heap, registry, nextId, calls>>

----------------------------------------------------------------------------

DevStep ==
    \/ \E r \in Request : AddRule(r)
    \/ \E id \in DOMAIN registry : DeleteRule(id)
    \/ Clear

ApplyStep(t) ==
    \/ \E o \in todo[t] : ApplyMiss(t, o)
    \/ \E o \in todo[t] : ApplyStale(t, o)
    \/ \E o \in todo[t] : ApplyHit(t, o)
    \/ ApplyWake(t)
    \/ ApplyExhausted(t)

Next ==
    \/ DevStep
    \/ \E t \in Thread :
          \/ \E c \in Call : ApplyBegin(t, c)
          \/ ApplyStep(t)
          \/ Return(t)

Spec == Init /\ [][Next]_vars

----------------------------------------------------------------------------
(* Properties                                                              *)

\* Types, with the clamping of add_rule and the indexes of the heap: every
\* rule object in range, every snapshot and every dict entry an existing rule.
TypeOK ==
    /\ heap \in Seq(Rule)
    /\ nextId \in Nat \ {0}
    /\ calls \in Nat
    /\ pc \in [Thread -> {"idle", "scan", "sleep", "passed", "raised"}]
    /\ call \in [Thread -> Call \cup {NoCall}]
    /\ todo \in [Thread -> SUBSET (1 .. Len(heap))]
    /\ hit \in [Thread -> 0 .. Len(heap)]
    /\ mark \in [Thread -> 0 .. Len(heap)]
    /\ registry \in [DOMAIN registry -> 1 .. Len(heap)]
    /\ DOMAIN registry \subseteq Nat \ {0}

\* Lock region two ("only count/apply it if it's still registered"): a rule's
\* hit count moves only while that very rule is registered, never because a
\* later rule answers to the same id, and by one at a time.
HitOnlyWhileRegistered ==
    [][\A o \in 1 .. Len(heap) :
          heap'[o].hit_count # heap[o].hit_count =>
             /\ o \in Registered
             /\ heap'[o].hit_count = heap[o].hit_count + 1]_vars

\* The first matching rule wins: while a thread holds the rule that applied
\* to its call, no rule that was in its snapshot, is older, cannot miss, and
\* is registered even now has been passed over for it.
CertainRuleNotOvertaken ==
    \A t \in Thread : hit[t] # 0 =>
        \A o \in Registered :
            o <= mark[t] /\ IsCertain(o) /\ Matches(heap[o], call[t]) => hit[t] <= o

\* A call only gets through untouched if no rule that cannot miss matched it
\* from the snapshot until it left the loop: a concurrent delete of another
\* rule, or a missed roll, never lets a call slip past a rule still in force.
NoEscape ==
    \A t \in Thread : pc[t] = "passed" /\ hit[t] = 0 =>
        \A o \in Registered :
            IsCertain(o) /\ Matches(heap[o], call[t]) => o > mark[t]

============================================================================
