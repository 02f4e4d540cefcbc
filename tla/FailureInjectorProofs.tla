----------------------- MODULE FailureInjectorProofs -----------------------
(***************************************************************************)
(* Proofs about FailureInjector, for any number of threads, rules, calls   *)
(* and requests.                                                           *)
(***************************************************************************)
EXTENDS FailureInjector, SequenceTheorems, TLAPS

\* A rule's id is its place in the heap: the counter is never reset.
IdsArePlaces ==
    /\ nextId = Len(heap) + 1
    /\ \A o \in 1 .. Len(heap) : heap[o].id = o
    /\ \A i \in DOMAIN registry : registry[i] = i

\* What the control state of a thread says about its locals.
LocalsMatchPc ==
    \A t \in Thread :
       /\ pc[t] = "idle" <=> call[t] = NoCall
       /\ pc[t] \in {"sleep", "raised"} => hit[t] # 0
       /\ pc[t] \in {"idle", "scan"} => hit[t] = 0

\* A rule in force that a thread's call may not escape is still ahead in the
\* loop, or the rule that applied comes first.
InForce(t, o) ==
    /\ o \in Registered
    /\ o <= mark[t]
    /\ IsCertain(o)
    /\ Matches(heap[o], call[t])

NotPassedOver ==
    \A t \in Thread : pc[t] # "idle" =>
       \A o \in 1 .. Len(heap) : InForce(t, o) =>
          \/ pc[t] = "scan" /\ o \in todo[t]
          \/ hit[t] # 0 /\ hit[t] <= o

\* A thread that left the loop did what the rule that applied says.
VerdictMatchesRule ==
    \A t \in Thread :
       /\ pc[t] = "raised" => ~IsLatency(hit[t])
       /\ pc[t] = "passed" => hit[t] = 0 \/ IsLatency(hit[t])

IInv ==
    /\ TypeOK
    /\ IdsArePlaces
    /\ LocalsMatchPc
    /\ NotPassedOver
    /\ VerdictMatchesRule

----------------------------------------------------------------------------
(* What a step does to the heap.                                           *)

\* add_rule's clamping lands in range.
LEMMA ClampInRange ==
    ASSUME NEW x \in Int, NEW top \in Nat
    PROVE  Clamp(x, top) \in 0 .. top
BY DEF Clamp

\* The rules built so far keep everything but their hit count.
RulesKept ==
    /\ Len(heap') >= Len(heap)
    /\ \A o \in 1 .. Len(heap) :
          /\ heap'[o].id = heap[o].id
          /\ heap'[o].service = heap[o].service
          /\ heap'[o].operation = heap[o].operation
          /\ heap'[o].failure = heap[o].failure
          /\ heap'[o].delay_ms = heap[o].delay_ms
          /\ heap'[o].probability = heap[o].probability

\* add_rule appends one well-typed rule object.
LEMMA AddRuleHeap ==
    ASSUME TypeOK, NEW r \in Request, AddRule(r)
    PROVE  /\ heap' \in Seq(Rule)
           /\ Len(heap') = Len(heap) + 1
           /\ \A o \in 1 .. Len(heap) : heap'[o] = heap[o]
           /\ heap'[Len(heap) + 1].id = nextId
           /\ heap'[Len(heap) + 1].hit_count = 0
<1> DEFINE new == [ id |-> nextId,
                    service |-> r.service,
                    operation |-> r.operation,
                    failure |-> r.failure,
                    delay_ms |-> Clamp(r.delay_ms, MAX_DELAY_MS),
                    probability |-> Clamp(r.probability, Certain),
                    hit_count |-> 0 ]
<1>1. r \in [ service : Service \cup {WILDCARD},
              operation : Operation \cup {WILDCARD},
              failure : FailureType,
              delay_ms : Int,
              probability : Int ]
  BY RequestAssumption
<1>2. /\ Clamp(r.delay_ms, MAX_DELAY_MS) \in 0 .. MAX_DELAY_MS
      /\ Clamp(r.probability, Certain) \in 0 .. Certain
  BY <1>1, ClampInRange, BoundsAssumption
<1>3. new \in Rule
  BY <1>1, <1>2 DEF Rule, TypeOK
<1>4. heap' = Append(heap, new) /\ new.id = nextId /\ new.hit_count = 0
  BY DEF AddRule
<1> HIDE DEF new
<1> QED
  BY <1>3, <1>4, AppendProperties DEF TypeOK

\* A hit replaces one rule object by the same rule counted once more.
LEMMA ApplyHitHeap ==
    ASSUME TypeOK, NEW t \in Thread, NEW o \in todo[t], ApplyHit(t, o)
    PROVE  /\ o \in 1 .. Len(heap)
           /\ heap' \in Seq(Rule)
           /\ Len(heap') = Len(heap)
           /\ heap'[o].hit_count = heap[o].hit_count + 1
           /\ \A p \in 1 .. Len(heap) \ {o} : heap'[p] = heap[p]
           /\ RulesKept
<1> DEFINE counted == [heap[o] EXCEPT !.hit_count = @ + 1]
<1>1. o \in 1 .. Len(heap)
  BY DEF TypeOK
<1>2. heap[o] \in Rule
  BY <1>1, ElementOfSeq DEF TypeOK
<1>3. counted \in Rule
  BY <1>2 DEF Rule
<1>4. /\ counted.id = heap[o].id
      /\ counted.service = heap[o].service
      /\ counted.operation = heap[o].operation
      /\ counted.failure = heap[o].failure
      /\ counted.delay_ms = heap[o].delay_ms
      /\ counted.probability = heap[o].probability
      /\ counted.hit_count = heap[o].hit_count + 1
  BY <1>2 DEF Rule
<1>5. heap' = [heap EXCEPT ![o] = counted]
  BY DEF ApplyHit
<1> HIDE DEF counted
<1>6. /\ heap' \in Seq(Rule)
      /\ Len(heap') = Len(heap)
      /\ \A p \in 1 .. Len(heap) : heap'[p] = IF p = o THEN counted ELSE heap[p]
  BY <1>1, <1>3, <1>5, ExceptSeq DEF TypeOK
<1>7. Len(heap) \in Nat
  BY LenProperties DEF TypeOK
<1> QED
  BY <1>1, <1>4, <1>6, <1>7 DEF RulesKept

\* Every step only adds rules and counts hits.
LEMMA NextKeepsRules ==
    ASSUME TypeOK, [Next]_vars
    PROVE  RulesKept
<1>0. Len(heap) \in Nat
  BY LenProperties DEF TypeOK
<1>1. ASSUME NEW r \in Request, AddRule(r)
      PROVE  RulesKept
  BY <1>0, <1>1, AddRuleHeap DEF RulesKept
<1>2. ASSUME NEW t \in Thread, NEW o \in todo[t], ApplyHit(t, o)
      PROVE  RulesKept
  BY <1>2, ApplyHitHeap
<1>3. heap' = heap => RulesKept
  BY <1>0 DEF RulesKept
<1> QED
  BY <1>1, <1>2, <1>3
  DEF Next, DevStep, ApplyStep, DeleteRule, Clear, ApplyBegin, ApplyMiss,
      ApplyStale, ApplyWake, ApplyExhausted, Return, vars

----------------------------------------------------------------------------
(* Type correctness.                                                       *)

\* The initial state is well typed.
LEMMA InitTyped ==
    ASSUME Init
    PROVE  TypeOK
<1>1. heap \in Seq(Rule) /\ Len(heap) = 0
  BY EmptySeq DEF Init
<1>2. registry \in [DOMAIN registry -> 1 .. Len(heap)] /\ DOMAIN registry = {}
  BY DEF Init
<1> QED
  BY <1>1, <1>2 DEF Init, TypeOK

\* Every step of the injector keeps the types, clamping included.
LEMMA NextTyped ==
    ASSUME TypeOK, [Next]_vars
    PROVE  TypeOK'
<1>0. Len(heap) \in Nat
  BY LenProperties DEF TypeOK
<1>1. ASSUME NEW r \in Request, AddRule(r)
      PROVE  TypeOK'
  <2>1. heap' \in Seq(Rule) /\ Len(heap') = Len(heap) + 1
    BY <1>1, AddRuleHeap
  <2>2. /\ registry' \in [DOMAIN registry' -> 1 .. Len(heap')]
        /\ DOMAIN registry' \subseteq Nat \ {0}
    BY <1>0, <1>1, <2>1 DEF AddRule, TypeOK
  <2> QED
    BY <1>0, <1>1, <2>1, <2>2 DEF AddRule, TypeOK
<1>2. ASSUME NEW id \in DOMAIN registry, DeleteRule(id)
      PROVE  TypeOK'
  BY <1>2 DEF DeleteRule, TypeOK
<1>3. CASE Clear
  BY <1>3 DEF Clear, TypeOK
<1>4. ASSUME NEW t \in Thread, NEW c \in Call, ApplyBegin(t, c)
      PROVE  TypeOK'
  <2>1. {o \in Registered : Matches(heap[o], c)} \subseteq 1 .. Len(heap)
    BY DEF TypeOK, Registered
  <2> QED
    BY <1>0, <1>4, <2>1 DEF ApplyBegin, TypeOK
<1>5. ASSUME NEW t \in Thread, NEW o \in todo[t], ApplyMiss(t, o)
      PROVE  TypeOK'
  BY <1>5 DEF ApplyMiss, Visited, TypeOK
<1>6. ASSUME NEW t \in Thread, NEW o \in todo[t], ApplyStale(t, o)
      PROVE  TypeOK'
  BY <1>6 DEF ApplyStale, Visited, TypeOK
<1>7. ASSUME NEW t \in Thread, NEW o \in todo[t], ApplyHit(t, o)
      PROVE  TypeOK'
  <2>1. o \in 1 .. Len(heap) /\ heap' \in Seq(Rule) /\ Len(heap') = Len(heap)
    BY <1>7, ApplyHitHeap
  <2> QED
    BY <1>7, <2>1 DEF ApplyHit, Outcome, TypeOK
<1>8. ASSUME NEW t \in Thread, ApplyWake(t)
      PROVE  TypeOK'
  BY <1>8 DEF ApplyWake, Outcome, TypeOK
<1>9. ASSUME NEW t \in Thread, ApplyExhausted(t)
      PROVE  TypeOK'
  BY <1>9 DEF ApplyExhausted, TypeOK
<1>10. ASSUME NEW t \in Thread, Return(t)
       PROVE  TypeOK'
  BY <1>0, <1>10 DEF Return, TypeOK
<1>11. CASE UNCHANGED vars
  BY <1>11 DEF vars, TypeOK
<1> QED
  BY <1>1, <1>2, <1>3, <1>4, <1>5, <1>6, <1>7, <1>8, <1>9, <1>10, <1>11
  DEF Next, DevStep, ApplyStep

\* Type correctness of the injector: no rule leaves add_rule with a delay or
\* a probability out of range, no thread holds a rule that does not exist.
THEOREM TypeCorrect == Spec => []TypeOK
BY InitTyped, NextTyped, PTL DEF Spec

----------------------------------------------------------------------------
(* What a step does to the thread that takes it, as far as others see.     *)

\* The dev API builds rules that were never hit, and touches no thread.
LEMMA DevStepSeen ==
    ASSUME TypeOK, DevStep
    PROVE  /\ Len(heap') >= Len(heap)
           /\ \A o \in 1 .. Len(heap) : heap'[o] = heap[o]
           /\ \A o \in Len(heap) + 1 .. Len(heap') : heap'[o].hit_count = 0
           /\ UNCHANGED <<calls, pc, call, todo, hit, mark>>
<1>0. Len(heap) \in Nat
  BY LenProperties DEF TypeOK
<1>1. ASSUME NEW r \in Request, AddRule(r)
      PROVE  /\ Len(heap') = Len(heap) + 1
             /\ \A o \in 1 .. Len(heap) : heap'[o] = heap[o]
             /\ heap'[Len(heap) + 1].hit_count = 0
             /\ UNCHANGED <<calls, pc, call, todo, hit, mark>>
  BY <1>1, AddRuleHeap DEF AddRule
<1>2. ASSUME (\E id \in DOMAIN registry : DeleteRule(id)) \/ Clear
      PROVE  UNCHANGED <<heap, calls, pc, call, todo, hit, mark>>
  BY <1>2 DEF DeleteRule, Clear
<1> QED
  BY <1>0, <1>1, <1>2 DEF DevStep

\* A step of apply() decides at most once which rule applies.  That rule, and
\* no other, is counted then; its failure decides how the call goes on.
Decides(t) ==
    /\ pc[t] \in {"scan", "sleep"}
    /\ pc' = [pc EXCEPT ![t] = pc'[t]]
    /\ pc'[t] \in {"scan", "sleep", "passed", "raised"}
    /\ hit' = [hit EXCEPT ![t] = hit'[t]]
    /\ hit'[t] \in 0 .. Len(heap)
    /\ hit[t] # 0 => hit'[t] = hit[t]
    /\ pc'[t] = "raised" => hit'[t] # 0 /\ heap'[hit'[t]].failure # "latency"
    /\ pc'[t] = "passed" => hit'[t] = 0 \/ heap'[hit'[t]].failure = "latency"
    /\ Len(heap') = Len(heap)
    /\ RulesKept
    /\ \A o \in 1 .. Len(heap) :
          heap'[o].hit_count
            = heap[o].hit_count + IF hit[t] = 0 /\ hit'[t] = o THEN 1 ELSE 0
    /\ UNCHANGED <<calls, call>>

\* Every step of apply() is of that kind.
LEMMA ApplyStepSeen ==
    ASSUME TypeOK, LocalsMatchPc, NEW t \in Thread, ApplyStep(t)
    PROVE  Decides(t)
<1>0. /\ Len(heap) \in Nat
      /\ pc \in [Thread -> {"idle", "scan", "sleep", "passed", "raised"}]
      /\ hit \in [Thread -> 0 .. Len(heap)]
  BY LenProperties DEF TypeOK
<1>1. ASSUME NEW o \in 1 .. Len(heap)
      PROVE  heap[o].hit_count \in Nat
  <2>1. heap[o] \in Rule
    BY ElementOfSeq DEF TypeOK
  <2> QED
    BY <2>1 DEF Rule
<1>2. ASSUME NEW o \in todo[t], ApplyMiss(t, o) \/ ApplyStale(t, o)
      PROVE  Decides(t)
  BY <1>0, <1>1, <1>2 DEF ApplyMiss, ApplyStale, IsNext, RulesKept, Decides
<1>3. ASSUME NEW o \in todo[t], ApplyHit(t, o)
      PROVE  Decides(t)
  <2>1. /\ o \in 1 .. Len(heap)
        /\ Len(heap') = Len(heap)
        /\ heap'[o].hit_count = heap[o].hit_count + 1
        /\ \A p \in 1 .. Len(heap) \ {o} : heap'[p] = heap[p]
        /\ RulesKept
    BY <1>3, ApplyHitHeap
  <2>2. pc[t] = "scan" /\ hit[t] = 0
    BY <1>3 DEF ApplyHit, IsNext, LocalsMatchPc
  <2>3. /\ hit'[t] = o
        /\ hit' = [hit EXCEPT ![t] = o]
        /\ UNCHANGED <<calls, call>>
        /\ pc' = [pc EXCEPT ![t] = IF heap[o].delay_ms > 0 THEN "sleep" ELSE Outcome(o)]
    BY <1>0, <1>3 DEF ApplyHit
  <2>4. heap'[o].failure = heap[o].failure
    BY <2>1 DEF RulesKept
  <2>5. /\ pc'[t] \in {"sleep", "passed", "raised"}
        /\ pc' = [pc EXCEPT ![t] = pc'[t]]
        /\ pc'[t] = "raised" => heap[o].failure # "latency"
        /\ pc'[t] = "passed" => heap[o].failure = "latency"
    BY <1>0, <2>3 DEF Outcome, IsLatency
  <2>6. \A p \in 1 .. Len(heap) :
           heap'[p].hit_count
             = heap[p].hit_count + IF hit[t] = 0 /\ hit'[t] = p THEN 1 ELSE 0
    BY <1>1, <2>1, <2>2, <2>3
  <2> QED
    BY <2>1, <2>2, <2>3, <2>4, <2>5, <2>6 DEF Decides
<1>4. CASE ApplyWake(t)
  BY <1>0, <1>1, <1>4 DEF ApplyWake, Outcome, IsLatency, LocalsMatchPc, RulesKept, Decides
<1>5. CASE ApplyExhausted(t)
  BY <1>0, <1>1, <1>5 DEF ApplyExhausted, LocalsMatchPc, RulesKept, Decides
<1> QED
  BY <1>2, <1>3, <1>4, <1>5 DEF ApplyStep

----------------------------------------------------------------------------
(* The first matching rule in force wins.                                  *)

\* The initial state satisfies the inductive invariant.
LEMMA InitInv ==
    ASSUME Init
    PROVE  IInv
<1>1. TypeOK
  BY InitTyped
<1>2. IdsArePlaces
  BY EmptySeq DEF Init, IdsArePlaces
<1>3. LocalsMatchPc /\ NotPassedOver /\ VerdictMatchesRule
  BY DEF Init, LocalsMatchPc, NotPassedOver, VerdictMatchesRule
<1> QED
  BY <1>1, <1>2, <1>3 DEF IInv

\* Ids stay places in the heap: add_rule takes a fresh id from the counter,
\* and neither delete_rule nor clear gives one back.
LEMMA NextIds ==
    ASSUME TypeOK, IdsArePlaces, [Next]_vars
    PROVE  IdsArePlaces'
<1>0. Len(heap) \in Nat
  BY LenProperties DEF TypeOK
<1>1. ASSUME NEW r \in Request, AddRule(r)
      PROVE  IdsArePlaces'
  <2>1. /\ Len(heap') = Len(heap) + 1
        /\ \A o \in 1 .. Len(heap) : heap'[o] = heap[o]
        /\ heap'[Len(heap) + 1].id = nextId
    BY <1>1, AddRuleHeap
  <2>2. /\ nextId' = Len(heap') + 1
        /\ \A i \in DOMAIN registry' : registry'[i] = i
    BY <1>0, <1>1, <2>1 DEF AddRule, IdsArePlaces
  <2>3. \A o \in 1 .. Len(heap') : heap'[o].id = o
    BY <1>0, <2>1 DEF IdsArePlaces
  <2> QED
    BY <2>2, <2>3 DEF IdsArePlaces
<1>2. ASSUME NEW t \in Thread, NEW o \in todo[t], ApplyHit(t, o)
      PROVE  IdsArePlaces'
  <2>1. Len(heap') = Len(heap) /\ RulesKept
    BY <1>2, ApplyHitHeap
  <2> QED
    BY <1>2, <2>1 DEF ApplyHit, IdsArePlaces, RulesKept
<1>3. CASE \/ \E id \in DOMAIN registry : DeleteRule(id)
           \/ Clear
           \/ UNCHANGED regVars
  <2>1. heap' = heap /\ nextId' = nextId
    BY <1>3 DEF DeleteRule, Clear, regVars
  <2>2. ASSUME NEW id \in DOMAIN registry, DeleteRule(id)
        PROVE  \A i \in DOMAIN registry' : registry'[i] = i
    BY <2>2 DEF DeleteRule, IdsArePlaces
  <2>3. CASE Clear
    <3>1. DOMAIN registry' = {}
      BY <2>3 DEF Clear
    <3> QED
      BY <2>1, <3>1 DEF IdsArePlaces
  <2>4. CASE UNCHANGED regVars
    BY <2>4 DEF regVars, IdsArePlaces
  <2> QED
    BY <1>3, <2>1, <2>2, <2>3, <2>4 DEF IdsArePlaces
<1>4. ASSUME [Next]_vars
      PROVE  \/ \E r \in Request : AddRule(r)
             \/ \E t \in Thread : \E o \in todo[t] : ApplyHit(t, o)
             \/ \E id \in DOMAIN registry : DeleteRule(id)
             \/ Clear
             \/ UNCHANGED regVars
  BY <1>4
  DEF Next, DevStep, ApplyStep, ApplyBegin, ApplyMiss, ApplyStale, ApplyWake,
      ApplyExhausted, Return, vars, regVars
<1> QED
  BY <1>1, <1>2, <1>3, <1>4

\* The locals of a thread stay in step with its control state.
LEMMA NextLocals ==
    ASSUME TypeOK, LocalsMatchPc, [Next]_vars
    PROVE  LocalsMatchPc'
<1>1. ASSUME DevStep \/ UNCHANGED vars
      PROVE  LocalsMatchPc'
  <2>1. pc' = pc /\ call' = call /\ hit' = hit
    BY <1>1 DEF DevStep, AddRule, DeleteRule, Clear, vars
  <2> QED
    BY <2>1 DEF LocalsMatchPc
<1>2. ASSUME NEW t \in Thread, NEW c \in Call, ApplyBegin(t, c)
      PROVE  LocalsMatchPc'
  BY <1>2, NoCallAssumption DEF ApplyBegin, TypeOK, LocalsMatchPc
<1>3. ASSUME NEW t \in Thread, NEW o \in todo[t],
             ApplyMiss(t, o) \/ ApplyStale(t, o)
      PROVE  LocalsMatchPc'
  BY <1>3 DEF ApplyMiss, ApplyStale, LocalsMatchPc
<1>4. ASSUME NEW t \in Thread, NEW o \in todo[t], ApplyHit(t, o)
      PROVE  LocalsMatchPc'
  <2>1. o # 0 /\ pc[t] = "scan"
    BY <1>4 DEF ApplyHit, IsNext, TypeOK
  <2> QED
    BY <1>4, <2>1 DEF ApplyHit, Outcome, TypeOK, LocalsMatchPc
<1>5. ASSUME NEW t \in Thread, ApplyWake(t)
      PROVE  LocalsMatchPc'
  BY <1>5 DEF ApplyWake, Outcome, TypeOK, LocalsMatchPc
<1>6. ASSUME NEW t \in Thread, ApplyExhausted(t)
      PROVE  LocalsMatchPc'
  BY <1>6 DEF ApplyExhausted, TypeOK, LocalsMatchPc
<1>7. ASSUME NEW t \in Thread, Return(t)
      PROVE  LocalsMatchPc'
  BY <1>7 DEF Return, TypeOK, LocalsMatchPc
<1> QED
  BY <1>1, <1>2, <1>3, <1>4, <1>5, <1>6, <1>7 DEF Next, ApplyStep

\* A thread that has its verdict keeps it, and so does the rule that gave it.
LEMMA NextVerdict ==
    ASSUME TypeOK, LocalsMatchPc, VerdictMatchesRule, [Next]_vars
    PROVE  VerdictMatchesRule'
<1>0. /\ Len(heap) \in Nat
      /\ pc \in [Thread -> {"idle", "scan", "sleep", "passed", "raised"}]
      /\ hit \in [Thread -> 0 .. Len(heap)]
      /\ RulesKept
  BY LenProperties, NextKeepsRules DEF TypeOK
<1>1. ASSUME NEW u \in Thread, pc'[u] = pc[u], hit'[u] = hit[u]
      PROVE  /\ pc'[u] = "raised" => ~IsLatency(hit[u])'
             /\ pc'[u] = "passed" => hit'[u] = 0 \/ IsLatency(hit[u])'
  BY <1>0, <1>1 DEF VerdictMatchesRule, LocalsMatchPc, IsLatency, RulesKept
<1>2. CASE DevStep \/ UNCHANGED vars
  BY <1>1, <1>2, DevStepSeen DEF vars, VerdictMatchesRule
<1>3. ASSUME NEW t \in Thread, NEW c \in Call, ApplyBegin(t, c)
      PROVE  VerdictMatchesRule'
  BY <1>0, <1>1, <1>3 DEF ApplyBegin, VerdictMatchesRule
<1>4. ASSUME NEW t \in Thread, ApplyStep(t)
      PROVE  VerdictMatchesRule'
  <2>1. Decides(t)
    BY <1>4, ApplyStepSeen
  <2>2. \A u \in Thread \ {t} : pc'[u] = pc[u] /\ hit'[u] = hit[u]
    BY <1>0, <2>1 DEF Decides
  <2> QED
    BY <1>1, <2>1, <2>2 DEF Decides, VerdictMatchesRule, IsLatency
<1>5. ASSUME NEW t \in Thread, Return(t)
      PROVE  VerdictMatchesRule'
  BY <1>0, <1>1, <1>5 DEF Return, VerdictMatchesRule
<1> QED
  BY <1>2, <1>3, <1>4, <1>5 DEF Next

\* No rule in force is passed over.  The heart of the matter: a roll cannot
\* miss a certain rule, the second lookup finds a registered rule, and the
\* loop goes through the snapshot oldest first.
LEMMA NextNotPassedOver ==
    ASSUME IInv, [Next]_vars
    PROVE  NotPassedOver'
<1>0. /\ Len(heap) \in Nat
      /\ TypeOK /\ IdsArePlaces /\ LocalsMatchPc /\ NotPassedOver
      /\ RulesKept
  BY LenProperties, NextKeepsRules DEF IInv, TypeOK
<1>a. \A o \in Registered : o \in 1 .. Len(heap) /\ o \in DOMAIN registry
  BY <1>0 DEF Registered, TypeOK, IdsArePlaces
<1>b. ASSUME NEW t \in Thread, NEW o \in 1 .. Len(heap'),
             InForce(t, o)', mark'[t] = mark[t], call'[t] = call[t],
             o \in Registered
      PROVE  o \in 1 .. Len(heap) /\ InForce(t, o)
  BY <1>0, <1>a, <1>b DEF InForce, IsCertain, Matches, RulesKept
<1>1. ASSUME NEW r \in Request, AddRule(r)
      PROVE  NotPassedOver'
  <2> SUFFICES ASSUME NEW t \in Thread, NEW o \in 1 .. Len(heap'),
                      pc'[t] # "idle", InForce(t, o)'
               PROVE  \/ pc'[t] = "scan" /\ o \in todo'[t]
                      \/ hit'[t] # 0 /\ hit'[t] <= o
    BY DEF NotPassedOver
  <2>1. UNCHANGED <<pc, call, todo, hit, mark>>
    BY <1>1 DEF AddRule
  <2>2. o <= Len(heap)
    BY <1>0, <2>1 DEF InForce, TypeOK
  <2>3. o \in Registered
    <3>1. PICK i \in DOMAIN registry' : o = registry'[i]
      BY DEF InForce, Registered
    <3>2. i \in DOMAIN registry \cup {nextId}
          /\ o = IF i = nextId THEN Len(heap) + 1 ELSE registry[i]
      BY <1>1, <3>1 DEF AddRule
    <3>3. i # nextId
      BY <1>0, <2>2, <3>2
    <3> QED
      BY <3>2, <3>3 DEF Registered
  <2>4. o \in 1 .. Len(heap) /\ InForce(t, o)
    BY <1>b, <2>1, <2>3
  <2> QED
    BY <1>0, <2>1, <2>4 DEF NotPassedOver
<1>2. ASSUME \/ \E id \in DOMAIN registry : DeleteRule(id)
             \/ Clear
             \/ UNCHANGED vars
      PROVE  NotPassedOver'
  <2> SUFFICES ASSUME NEW t \in Thread, NEW o \in 1 .. Len(heap'),
                      pc'[t] # "idle", InForce(t, o)'
               PROVE  \/ pc'[t] = "scan" /\ o \in todo'[t]
                      \/ hit'[t] # 0 /\ hit'[t] <= o
    BY DEF NotPassedOver
  <2>1. UNCHANGED <<pc, call, todo, hit, mark>>
    BY <1>2 DEF DeleteRule, Clear, vars
  <2>2. Registered' \subseteq Registered
    <3>1. ASSUME NEW id \in DOMAIN registry, DeleteRule(id)
          PROVE  Registered' \subseteq Registered
      BY <3>1 DEF DeleteRule, Registered
    <3>2. CASE Clear
      <4>1. DOMAIN registry' = {}
        BY <3>2 DEF Clear
      <4> QED
        BY <4>1 DEF Registered
    <3>3. CASE UNCHANGED vars
      BY <3>3 DEF vars, Registered
    <3> QED
      BY <1>2, <3>1, <3>2, <3>3
  <2>3. o \in 1 .. Len(heap) /\ InForce(t, o)
    BY <1>b, <2>1, <2>2 DEF InForce
  <2> QED
    BY <1>0, <2>1, <2>3 DEF NotPassedOver
<1>3. ASSUME NEW t \in Thread,
             \/ \E c \in Call : ApplyBegin(t, c)
             \/ ApplyStep(t)
             \/ Return(t)
      PROVE  NotPassedOver'
  <2> SUFFICES ASSUME NEW u \in Thread, NEW o \in 1 .. Len(heap'),
                      pc'[u] # "idle", InForce(u, o)'
               PROVE  \/ pc'[u] = "scan" /\ o \in todo'[u]
                      \/ hit'[u] # 0 /\ hit'[u] <= o
    BY DEF NotPassedOver
  <2>1. registry' = registry /\ o \in Registered
    BY <1>3 DEF ApplyBegin, ApplyStep, ApplyMiss, ApplyStale, ApplyHit,
                ApplyWake, ApplyExhausted, Return, InForce, Registered
  <2>2. o \in 1 .. Len(heap)
    BY <1>a, <2>1
  <2>3. CASE u # t
    <3>1. /\ pc'[u] = pc[u] /\ call'[u] = call[u] /\ todo'[u] = todo[u]
          /\ hit'[u] = hit[u] /\ mark'[u] = mark[u]
      BY <1>0, <1>3, <2>3
      DEF ApplyBegin, ApplyStep, ApplyMiss, ApplyStale, ApplyHit, ApplyWake,
          ApplyExhausted, Return, Visited, TypeOK
    <3>2. InForce(u, o)
      BY <1>b, <2>1, <3>1
    <3> QED
      BY <1>0, <2>2, <3>1, <3>2 DEF NotPassedOver
  <2>4. ASSUME u = t, NEW c \in Call, ApplyBegin(t, c)
        PROVE  pc'[u] = "scan" /\ o \in todo'[u]
    <3>1. heap' = heap /\ call'[t] = c /\ pc'[t] = "scan"
          /\ todo'[t] = {p \in Registered : Matches(heap[p], c)}
      BY <1>0, <2>4 DEF ApplyBegin, TypeOK
    <3>2. Matches(heap[o], c)
      BY <2>4, <3>1 DEF InForce
    <3> QED
      BY <2>1, <2>4, <3>1, <3>2
  <2>5. ASSUME u = t, ApplyStep(t)
        PROVE  \/ pc'[u] = "scan" /\ o \in todo'[u]
               \/ hit'[u] # 0 /\ hit'[u] <= o
    <3>1. mark' = mark /\ call' = call /\ pc[t] # "idle"
      BY <2>5 DEF ApplyStep, ApplyMiss, ApplyStale, ApplyHit, ApplyWake,
                  ApplyExhausted, IsNext
    <3>2. InForce(t, o)
      BY <1>b, <2>1, <2>5, <3>1
    <3>3. \/ pc[t] = "scan" /\ o \in todo[t]
          \/ hit[t] # 0 /\ hit[t] <= o
      BY <1>0, <2>2, <3>1, <3>2 DEF NotPassedOver
    <3>4. ASSUME NEW p \in todo[t], ApplyMiss(t, p)
          PROVE  pc'[t] = "scan" /\ o \in todo'[t]
      <4>1. pc[t] = "scan" /\ o \in todo[t]
        BY <1>0, <3>3, <3>4 DEF ApplyMiss, IsNext, LocalsMatchPc
      <4>2. p # o
        BY <3>2, <3>4, BoundsAssumption
        DEF ApplyMiss, Fires, InForce, IsCertain
      <4> QED
        BY <1>0, <3>4, <4>1, <4>2 DEF ApplyMiss, Visited, TypeOK
    <3>5. ASSUME NEW p \in todo[t], ApplyStale(t, p)
          PROVE  pc'[t] = "scan" /\ o \in todo'[t]
      <4>1. pc[t] = "scan" /\ o \in todo[t]
        BY <1>0, <3>3, <3>5 DEF ApplyStale, IsNext, LocalsMatchPc
      <4>2. p # o
        BY <1>0, <1>a, <2>1, <2>2, <3>5 DEF ApplyStale, IdsArePlaces
      <4> QED
        BY <1>0, <3>5, <4>1, <4>2 DEF ApplyStale, Visited, TypeOK
    <3>6. ASSUME NEW p \in todo[t], ApplyHit(t, p)
          PROVE  hit'[t] # 0 /\ hit'[t] <= o
      <4>1. pc[t] = "scan" /\ o \in todo[t]
        BY <1>0, <3>3, <3>6 DEF ApplyHit, IsNext, LocalsMatchPc
      <4>2. p \in 1 .. Len(heap) /\ p <= o
        BY <1>0, <3>6, <4>1 DEF ApplyHit, IsNext, TypeOK
      <4> QED
        BY <1>0, <3>6, <4>2 DEF ApplyHit, TypeOK
    <3>7. CASE ApplyWake(t)
      <4>1. pc[t] = "sleep" /\ hit' = hit
        BY <3>7 DEF ApplyWake
      <4> QED
        BY <2>5, <3>3, <4>1
    <3>8. CASE ApplyExhausted(t)
      <4>1. todo[t] = {} /\ hit' = hit
        BY <3>8 DEF ApplyExhausted
      <4> QED
        BY <2>5, <3>3, <4>1
    <3> QED
      BY <2>5, <3>4, <3>5, <3>6, <3>7, <3>8 DEF ApplyStep
  <2>6. ASSUME u = t, Return(t)
        PROVE  FALSE
    BY <1>0, <2>6 DEF Return, TypeOK
  <2> QED
    BY <1>3, <2>3, <2>4, <2>5, <2>6
<1> QED
  BY <1>1, <1>2, <1>3 DEF Next, DevStep

\* The inductive invariant holds in every reachable state.
THEOREM Invariance == Spec => []IInv
<1>1. Init => IInv
  BY InitInv
<1>2. IInv /\ [Next]_vars => IInv'
  BY NextTyped, NextIds, NextLocals, NextNotPassedOver, NextVerdict DEF IInv
<1> QED
  BY <1>1, <1>2, PTL DEF Spec

\* The first matching rule in force wins: no certain rule of the snapshot
\* that is still registered is older than the rule that applied.
THEOREM FirstCertainRuleWins == Spec => []CertainRuleNotOvertaken
<1>1. ASSUME IInv
      PROVE  CertainRuleNotOvertaken
  <2> SUFFICES ASSUME NEW t \in Thread, hit[t] # 0, NEW o \in Registered,
                      o <= mark[t], IsCertain(o), Matches(heap[o], call[t])
               PROVE  hit[t] <= o
    BY DEF CertainRuleNotOvertaken
  <2>1. o \in 1 .. Len(heap) /\ InForce(t, o)
    BY <1>1 DEF IInv, TypeOK, Registered, InForce
  <2>2. pc[t] \notin {"idle", "scan"}
    BY <1>1 DEF IInv, LocalsMatchPc
  <2> QED
    BY <1>1, <2>1, <2>2 DEF IInv, NotPassedOver
<1> QED
  BY <1>1, Invariance, PTL

\* A call that goes through with no rule applied escaped no rule that was in
\* force from its snapshot on.
THEOREM NoCallEscapes == Spec => []NoEscape
<1>1. ASSUME IInv
      PROVE  NoEscape
  <2> SUFFICES ASSUME NEW t \in Thread, pc[t] = "passed", hit[t] = 0,
                      NEW o \in Registered,
                      IsCertain(o), Matches(heap[o], call[t])
               PROVE  o > mark[t]
    BY DEF NoEscape
  <2>1. o \in 1 .. Len(heap) /\ mark[t] \in 0 .. Len(heap) /\ Len(heap) \in Nat
    BY <1>1, LenProperties DEF IInv, TypeOK, Registered
  <2>2. ~InForce(t, o)
    BY <1>1, <2>1 DEF IInv, NotPassedOver
  <2> QED
    BY <2>1, <2>2 DEF InForce
<1> QED
  BY <1>1, Invariance, PTL

\* A hit count moves only for a rule that is registered as the step is taken.
THEOREM HitsAreRegistered == Spec => HitOnlyWhileRegistered
<1> DEFINE Counted(o) == heap'[o].hit_count # heap[o].hit_count =>
                            /\ o \in Registered
                            /\ heap'[o].hit_count = heap[o].hit_count + 1
           Allowed == \A o \in 1 .. Len(heap) : Counted(o)
<1>1. ASSUME IInv, Next
      PROVE  Allowed
  <2>0. TypeOK /\ IdsArePlaces
    BY <1>1 DEF IInv
  <2>1. ASSUME NEW r \in Request, AddRule(r)
        PROVE  Allowed
    BY <2>0, <2>1, AddRuleHeap
  <2>2. ASSUME NEW t \in Thread, NEW p \in todo[t], ApplyHit(t, p)
        PROVE  Allowed
    <3>1. /\ p \in 1 .. Len(heap)
          /\ heap'[p].hit_count = heap[p].hit_count + 1
          /\ \A o \in 1 .. Len(heap) \ {p} : heap'[o] = heap[o]
      BY <2>0, <2>2, ApplyHitHeap
    <3>2. heap[p].id \in DOMAIN registry /\ registry[heap[p].id] = p
      BY <2>0, <2>2, <3>1 DEF ApplyHit, IdsArePlaces
    <3> QED
      BY <3>1, <3>2 DEF Registered
  <2>3. heap' = heap => Allowed
    OBVIOUS
  <2> HIDE DEF Allowed
  <2> QED
    BY <1>1, <2>1, <2>2, <2>3
    DEF Next, DevStep, ApplyStep, DeleteRule, Clear, ApplyBegin, ApplyMiss,
        ApplyStale, ApplyWake, ApplyExhausted, Return
<1>2. IInv /\ [Next]_vars => [Allowed]_vars
  BY <1>1
<1> QED
  BY <1>2, Invariance, PTL DEF Spec, HitOnlyWhileRegistered

============================================================================
