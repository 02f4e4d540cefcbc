--------------------------- MODULE ApiServerProofs ---------------------------
(***************************************************************************)
(* Proofs about ApiServer, for any number of requests and probes, any pool *)
(* and any set of services: what its answers tell, and how many clients    *)
(* its threads build.                                                      *)
(*                                                                         *)
(* Places says where a thread must be to be inside a provider call; Quiet  *)
(* that only Main runs before the server serves.  A client is built only   *)
(* by a thread that found none: Bounded counts those still building with   *)
(* the clients already stored, and no more can be building than hold a     *)
(* thread of the pool.                                                     *)
(***************************************************************************)
EXTENDS ApiServer, SequenceTheorems, FiniteSetTheorems, TLAPS

\* Whoever is inside a provider call is at a place that makes one.
Places ==
    /\ \A a \in Actor : stage[a] # "out" => svc[a] \in Service
    /\ \A r \in Request : stage[r] # "out" => pc[r] = "provider"
    /\ \A p \in Probe :
          /\ owner[p] \in Request => pc[owner[p]] = "probing"
          /\ stage[p] # "out" => svc[p] = "s3"
    /\ \A p, q \in Probe : owner[p] \in Request /\ owner[p] = owner[q] => p = q
    /\ stage[Main] # "out" =>
          phase = "starting" /\ attempt \in 1 .. Attempts /\ svc[Main] = "s3"

\* A request under way has a kind, and carries its own id in both its tasks;
\* an invalid one never gets to its route.
OwnIds ==
    \A r \in Request :
       pc[r] # "idle" =>
          /\ kind[r] \in Kind /\ outer[r] = r /\ inner[r] = r
          /\ pc[r] = "route?" => kind[r] # "invalid"

\* Nobody but Main runs before the server serves.
Quiet ==
    phase # "serving" =>
       /\ ~warm /\ attempt # 0
       /\ \A r \in Request : pc[r] = "idle"
       /\ \A a \in Request \cup Probe : stage[a] = "out"

\* Who is in the queue waits for a thread, and is there once.
Queued ==
    /\ \A i \in 1 .. Len(queue) : pc[queue[i]] \in Waiting
    /\ \A i, j \in 1 .. Len(queue) : queue[i] = queue[j] => i = j

\* The types, one variable at a time.
Typed ==
    /\ phase \in {"starting", "pausing", "serving"}
    /\ attempt \in 0 .. Attempts + 1
    /\ queue \in Seq(Request)
    /\ kind \in [Request -> Kind \cup {"none"}]
    /\ pc \in [Request -> {"provider?", "service?", "route?", "idle", "unfit",
                           "apply", "provider", "probing", "route"}]
    /\ outer \in [Request -> Request \cup {NoId}]
    /\ inner \in [Request -> Request \cup {NoId}]
    /\ owner \in [Probe -> Request \cup {NoId}]
    /\ built \in [Service -> Nat]
    /\ stage \in [Actor -> {"out", "build", "call"}]
    /\ svc \in [Actor -> Service \cup {NoService}]
    /\ warm \in BOOLEAN

\* Types, places and ids together.
Base == Typed /\ Places /\ OwnIds /\ Quiet /\ Queued

----------------------------------------------------------------------------

\* They are the type invariant.
LEMMA TypesSame == Typed => TypeOK
  BY DEF TypeOK, Typed, Waiting, Cache!CacheTypeOK

\* The three kinds of threads are different ones.
LEMMA Actors ==
    /\ \A r \in Request : r \in Actor /\ r # Main /\ r \notin Probe
    /\ \A p \in Probe : p \in Actor /\ p # Main /\ p \notin Request
    /\ Main \in Actor
    /\ NoId \notin Request
    /\ \A a \in Actor : a \in Request \/ a \in Probe \/ a = Main
  BY ActorAssumption DEF Actor

\* A thread enters the cache: no other moves, nothing is stored.
LEMMA EnterSeen ==
    ASSUME Typed, NEW a \in Actor, NEW s \in Service, Cache!Enter(a, s)
    PROVE  /\ stage \in [Actor -> {"out", "build", "call"}] /\ stage[a] = "out"
           /\ stage' \in [Actor -> {"out", "build", "call"}]
           /\ svc' \in [Actor -> Service \cup {NoService}]
           /\ stage'[a] = IF built[s] = 0 THEN "build" ELSE "call"
           /\ svc'[a] = s
           /\ \A b \in Actor : b # a => stage'[b] = stage[b] /\ svc'[b] = svc[b]
           /\ built' = built
  BY DEF Typed, Cache!Enter

\* A thread stores the client it built, and calls the provider.
LEMMA StoreSeen ==
    ASSUME Typed, Places, NEW a \in Actor, Cache!Store(a)
    PROVE  /\ stage[a] = "build" /\ svc[a] \in Service
           /\ built' \in [Service -> Nat]
           /\ built'[svc[a]] = built[svc[a]] + 1
           /\ \A s \in Service : s # svc[a] => built'[s] = built[s]
           /\ stage' \in [Actor -> {"out", "build", "call"}]
           /\ stage'[a] = "call"
           /\ \A b \in Actor : b # a => stage'[b] = stage[b]
           /\ svc' = svc
  BY DEF Typed, Places, Cache!Store

\* A thread is through, with a client or without.
LEMMA LeaveSeen ==
    ASSUME Typed, NEW a \in Actor, Cache!Leave(a)
    PROVE  /\ stage[a] # "out"
           /\ stage' \in [Actor -> {"out", "build", "call"}]
           /\ svc' \in [Actor -> Service \cup {NoService}]
           /\ stage'[a] = "out"
           /\ \A b \in Actor : b # a => stage'[b] = stage[b] /\ svc'[b] = svc[b]
           /\ built' = built
  BY DEF Typed, Cache!Leave

\* The queue without its first request.
LEMMA QueueTail ==
    ASSUME Typed, Queued, queue # <<>>
    PROVE  /\ Len(queue) \in Nat \ {0}
           /\ Head(queue) \in Request /\ pc[Head(queue)] \in Waiting
           /\ Tail(queue) \in Seq(Request)
           /\ Len(Tail(queue)) = Len(queue) - 1
           /\ \A i \in 1 .. Len(queue) - 1 :
                 /\ Tail(queue)[i] = queue[i + 1]
                 /\ Tail(queue)[i] # Head(queue)
                 /\ pc[Tail(queue)[i]] \in Waiting
           /\ \A i, j \in 1 .. Len(queue) - 1 : Tail(queue)[i] = Tail(queue)[j] => i = j
<1>1. /\ queue \in Seq(Request) /\ Len(queue) \in Nat \ {0}
      /\ Head(queue) = queue[1] /\ Head(queue) \in Request
      /\ Tail(queue) \in Seq(Request)
      /\ Len(Tail(queue)) = Len(queue) - 1
      /\ \A i \in 1 .. Len(queue) - 1 : Tail(queue)[i] = queue[i + 1]
  BY LenProperties, EmptySeq, HeadTailProperties DEF Typed
<1>2. 1 \in 1 .. Len(queue) /\ \A i \in 1 .. Len(queue) - 1 : i + 1 \in 1 .. Len(queue)
  BY <1>1
<1>3. ASSUME NEW i \in 1 .. Len(queue) - 1
      PROVE  Tail(queue)[i] # Head(queue) /\ pc[Tail(queue)[i]] \in Waiting
  <2>1. i + 1 \in 1 .. Len(queue) /\ i + 1 # 1
    BY <1>1, <1>2
  <2> QED
    BY <1>1, <1>2, <2>1 DEF Queued
<1>4. ASSUME NEW i \in 1 .. Len(queue) - 1, NEW j \in 1 .. Len(queue) - 1,
             Tail(queue)[i] = Tail(queue)[j]
      PROVE  i = j
  <2>1. i + 1 = j + 1
    BY <1>1, <1>2, <1>4 DEF Queued
  <2> QED
    BY <2>1
<1> QED
  BY <1>1, <1>2, <1>3, <1>4 DEF Queued

\* What Main does.
LEMMA MainKeepsBase ==
    ASSUME Base, Startup \/ Build(Main) \/ CallEnds(Main)
    PROVE  Base'
<1>0. /\ Typed /\ Places /\ OwnIds /\ Quiet /\ Queued
      /\ attempt \in 0 .. Attempts + 1 /\ Attempts \in Nat
      /\ phase \in {"starting", "pausing", "serving"}
  BY PoolAssumption DEF Base, Typed
<1>1. CASE Attempt
  <2>1. /\ phase = "starting" /\ attempt <= Attempts /\ Cache!Enter(Main, "s3")
        /\ UNCHANGED <<phase, attempt, warm, queue, kind, pc, outer, inner, owner>>
    BY <1>1 DEF Attempt, serverVars, requestVars
  <2>2. /\ stage' \in [Actor -> {"out", "build", "call"}]
        /\ svc' \in [Actor -> Service \cup {NoService}] /\ svc'[Main] = "s3"
        /\ \A b \in Actor : b # Main => stage'[b] = stage[b] /\ svc'[b] = svc[b]
        /\ built' = built
    BY <1>0, <2>1, EnterSeen, Actors, ServiceAssumption
  <2>3. Typed' /\ OwnIds' /\ Queued'
    BY <1>0, <2>1, <2>2 DEF Typed, OwnIds, Queued
  <2>4. Places'
    BY <1>0, <2>1, <2>2, Actors, ServiceAssumption DEF Places, Quiet
  <2>5. Quiet'
    BY <1>0, <2>1, <2>2, Actors DEF Quiet
  <2> QED
    BY <2>3, <2>4, <2>5 DEF Base
<1>2. CASE Resume \/ GiveUp
  <2>1. /\ phase' \in {"starting", "serving"} /\ attempt' \in 0 .. Attempts + 1
        /\ stage[Main] = "out" /\ phase # "serving"
        /\ warm' \in BOOLEAN
        /\ phase' # "serving" => warm' = warm /\ attempt' = attempt
        /\ UNCHANGED <<queue, kind, pc, outer, inner, owner, built, stage, svc>>
    <3>1. CASE Resume
      BY <1>0, <3>1 DEF Resume, requestVars, cacheVars, Places, Typed
    <3>2. CASE GiveUp
      BY <1>0, <3>2 DEF GiveUp, StartServing, requestVars, cacheVars
    <3> QED
      BY <1>2, <3>1, <3>2
  <2>2. Typed' /\ OwnIds' /\ Queued'
    BY <1>0, <2>1 DEF Typed, OwnIds, Queued
  <2>3. Places' /\ Quiet'
    BY <1>0, <2>1 DEF Places, Quiet
  <2> QED
    BY <2>2, <2>3 DEF Base
<1>3. CASE Build(Main)
  <2>1. /\ Cache!Store(Main)
        /\ UNCHANGED <<phase, attempt, warm, queue, kind, pc, outer, inner, owner>>
    BY <1>3 DEF Build, serverVars, requestVars
  <2>2. /\ stage[Main] = "build"
        /\ built' \in [Service -> Nat]
        /\ stage' \in [Actor -> {"out", "build", "call"}]
        /\ \A b \in Actor : b # Main => stage'[b] = stage[b]
        /\ svc' = svc
    BY <1>0, <2>1, StoreSeen, Actors
  <2>3. Typed' /\ OwnIds' /\ Queued'
    BY <1>0, <2>1, <2>2 DEF Typed, OwnIds, Queued
  <2>4. Places' /\ Quiet'
    BY <1>0, <2>1, <2>2, Actors DEF Places, Quiet
  <2> QED
    BY <2>3, <2>4 DEF Base
<1>4. CASE CallEnds(Main)
  <2>1. /\ Cache!Leave(Main) /\ stage[Main] # "out"
        /\ \/ phase' = "serving" /\ attempt' = 0 /\ warm' \in BOOLEAN
           \/ phase' = "pausing" /\ attempt' = attempt + 1 /\ warm' = warm
        /\ UNCHANGED <<queue, kind, pc, outer, inner, owner>>
    <3>1. PICK result : MainEnds(result)
      BY <1>4, Actors DEF CallEnds
    <3>2. Cache!Leave(Main) /\ stage[Main] # "out"
      BY <1>4 DEF CallEnds, Cache!Leave
    <3>3. CASE StartServing
      BY <3>1, <3>2, <3>3 DEF MainEnds, StartServing, requestVars
    <3>4. CASE AttemptFails
      BY <3>1, <3>2, <3>4 DEF MainEnds, AttemptFails, requestVars
    <3> QED
      BY <3>1, <3>3, <3>4 DEF MainEnds
  <2>2. /\ stage' \in [Actor -> {"out", "build", "call"}]
        /\ svc' \in [Actor -> Service \cup {NoService}]
        /\ stage'[Main] = "out"
        /\ \A b \in Actor : b # Main => stage'[b] = stage[b] /\ svc'[b] = svc[b]
        /\ built' = built
    BY <1>0, <2>1, LeaveSeen, Actors
  <2>3. phase = "starting" /\ attempt' \in 0 .. Attempts + 1
    BY <1>0, <2>1 DEF Places
  <2>4. Typed' /\ OwnIds' /\ Queued'
    BY <1>0, <2>1, <2>2, <2>3 DEF Typed, OwnIds, Queued
  <2>5. Places' /\ Quiet'
    BY <1>0, <2>1, <2>2, <2>3, Actors DEF Places, Quiet
  <2> QED
    BY <2>4, <2>5 DEF Base
<1> QED
  BY <1>1, <1>2, <1>3, <1>4 DEF Startup

\* How a request leaves: it is idle again, in both of its tasks.
LEMMA RespondSeen ==
    ASSUME Typed, NEW r \in Request, NEW status, NEW record, Respond(r, status, record)
    PROVE  /\ pc' \in [Request -> {"provider?", "service?", "route?", "idle", "unfit",
                                   "apply", "provider", "probing", "route"}]
           /\ kind' \in [Request -> Kind \cup {"none"}]
           /\ outer' \in [Request -> Request \cup {NoId}]
           /\ inner' \in [Request -> Request \cup {NoId}]
           /\ queue' = queue
           /\ pc'[r] = "idle" /\ outer'[r] = NoId
           /\ \A q \in Request : q # r =>
                 /\ pc'[q] = pc[q] /\ kind'[q] = kind[q]
                 /\ outer'[q] = outer[q] /\ inner'[q] = inner[q]
  BY DEF Respond, Typed

\* A request under way, and what is true of it.
LEMMA UnderWay ==
    ASSUME Base, NEW r \in Request, pc[r] # "idle"
    PROVE  /\ phase = "serving" /\ outer[r] = r /\ inner[r] = r /\ kind[r] \in Kind
           /\ pc[r] = "route?" => kind[r] # "invalid"
  BY DEF Base, Quiet, OwnIds

\* A request that leaves, with whatever thread leaves the cache for it.
LEMMA LeavingKeepsBase ==
    ASSUME Base, NEW r \in Request, NEW status, NEW record, Respond(r, status, record),
           pc[r] \notin Waiting \cup {"idle"}, stage'[r] = "out",
           UNCHANGED <<phase, attempt, warm>>,
           built' \in [Service -> Nat],
           stage' \in [Actor -> {"out", "build", "call"}],
           svc' \in [Actor -> Service \cup {NoService}],
           \A a \in Actor : stage'[a] # "out" => stage[a] # "out" /\ svc'[a] = svc[a],
           owner' \in [Probe -> Request \cup {NoId}],
           \A p \in Probe : owner'[p] # r /\ owner'[p] \in {owner[p], NoId}
    PROVE  Base'
<1>0. Typed /\ Places /\ OwnIds /\ Quiet /\ Queued /\ phase = "serving"
  BY UnderWay DEF Base
<1>1. Typed'
  BY <1>0, RespondSeen DEF Typed
<1>2. OwnIds' /\ Quiet'
  BY <1>0, RespondSeen DEF OwnIds, Quiet
<1>3. Places'
  BY <1>0, RespondSeen, Actors DEF Places
<1>4. Queued'
  <2>1. queue' = queue /\ \A q \in Request : q # r => pc'[q] = pc[q]
    BY <1>0, RespondSeen
  <2>2. \A i \in 1 .. Len(queue) : queue[i] \in Request /\ queue[i] # r
    BY <1>0, ElementOfSeq DEF Typed, Queued
  <2> QED
    BY <1>0, <2>1, <2>2 DEF Queued
<1> QED
  BY <1>1, <1>2, <1>3, <1>4 DEF Base

\* Arriving, and waiting for threads.
LEMMA WaitingKeepsBase ==
    ASSUME Base, NEW r \in Request,
           \/ \E k \in Kind : Arrive(r, k)
           \/ AnswerAtOnce(r)
           \/ Depend(r)
    PROVE  Base'
<1>0. /\ Typed /\ Places /\ OwnIds /\ Quiet /\ Queued
      /\ queue \in Seq(Request) /\ Len(queue) \in Nat
  BY LenProperties DEF Base, Typed
<1>1. ASSUME NEW k \in Kind, Arrive(r, k)
      PROVE  Base'
  <2>1. /\ phase = "serving" /\ pc[r] = "idle"
        /\ kind' = [kind EXCEPT ![r] = k]
        /\ pc' = [pc EXCEPT ![r] = pc'[r]] /\ pc'[r] \in {"provider?", "route?"}
        /\ pc'[r] = "route?" => k # "invalid"
        /\ queue' \in Seq(Request)
        /\ outer' = [outer EXCEPT ![r] = r] /\ inner' = [inner EXCEPT ![r] = r]
        /\ UNCHANGED <<phase, attempt, warm, owner, built, stage, svc>>
    BY <1>0, <1>1, AppendProperties DEF Arrive, FirstWait, Typed, serverVars, cacheVars
  <2>2. Typed'
    BY <1>0, <2>1 DEF Typed
  <2>3. OwnIds' /\ Quiet'
    BY <1>0, <2>1 DEF OwnIds, Quiet, Typed
  <2>4. Places'
    BY <1>0, <2>1, Actors DEF Places, Typed
  <2>5. Queued'
    <3>1. /\ Len(queue') = Len(queue) + 1 /\ queue'[Len(queue) + 1] = r
          /\ \A i \in 1 .. Len(queue) : queue'[i] = queue[i]
      BY <1>0, <1>1, AppendProperties DEF Arrive
    <3>2. \A i \in 1 .. Len(queue) : queue[i] \in Request /\ queue[i] # r
      BY <1>0, <2>1, ElementOfSeq DEF Queued, Waiting
    <3>3. pc'[r] \in Waiting /\ \A q \in Request : q # r => pc'[q] = pc[q]
      BY <1>0, <2>1 DEF Waiting, Typed
    <3> QED
      BY <1>0, <3>1, <3>2, <3>3 DEF Queued
  <2> QED
    BY <2>2, <2>3, <2>4, <2>5 DEF Base
<1>2. CASE AnswerAtOnce(r)
  BY <1>0, <1>2
  DEF AnswerAtOnce, serverVars, requestVars, cacheVars, Base, Typed, Places, OwnIds, Quiet,
      Queued
<1>3. ASSUME Depend(r)
      PROVE  /\ queue # <<>> /\ r = Head(queue)
             /\ pc[r] \in Waiting /\ pc[r] \notin {"idle", "provider", "probing"}
             /\ pc' = [pc EXCEPT ![r] = pc'[r]]
             /\ pc'[r] \in {"service?", "route?", "unfit"}
             /\ pc'[r] = "route?" => kind[r] # "invalid"
             /\ queue' = IF pc'[r] = "unfit" THEN Tail(queue) ELSE Append(Tail(queue), r)
             /\ UNCHANGED <<phase, attempt, warm, kind, outer, inner, owner, built, stage, svc>>
  <2>1. queue # <<>> /\ r = Head(queue) /\ pc[r] # "route?"
    BY <1>3 DEF Depend
  <2>2. pc[r] \in Waiting
    BY <1>0, <2>1, QueueTail
  <2>3. pc[r] \in {"provider?", "service?"}
    BY <2>1, <2>2 DEF Waiting
  <2>4. /\ AfterDependency(r) \in {"service?", "route?", "unfit"}
        /\ AfterDependency(r) = "route?" => kind[r] # "invalid"
    BY <2>3 DEF AfterDependency
  <2>5. pc' = [pc EXCEPT ![r] = AfterDependency(r)] /\ pc'[r] = AfterDependency(r)
    BY <1>0, <1>3 DEF Depend, Typed
  <2> QED
    BY <1>3, <2>1, <2>2, <2>3, <2>4, <2>5 DEF Depend, serverVars, cacheVars
<1>4. CASE Depend(r) /\ pc'[r] # "unfit"
  <2>1. /\ queue # <<>> /\ r = Head(queue)
        /\ queue' = Append(Tail(queue), r)
        /\ pc' = [pc EXCEPT ![r] = pc'[r]] /\ pc'[r] \in {"service?", "route?"}
        /\ pc[r] \in Waiting /\ pc[r] \notin {"idle", "provider", "probing"}
        /\ pc'[r] = "route?" => kind[r] # "invalid"
        /\ UNCHANGED <<phase, attempt, warm, kind, outer, inner, owner, built, stage, svc>>
    BY <1>3, <1>4
  <2>2. /\ queue' \in Seq(Request) /\ Len(queue') = Len(queue)
        /\ queue'[Len(queue)] = r
        /\ \A i \in 1 .. Len(queue) - 1 : queue'[i] = Tail(queue)[i]
    BY <1>0, <2>1, QueueTail, AppendProperties
  <2>3. Typed' /\ OwnIds'
    BY <1>0, <2>1, <2>2 DEF Typed, OwnIds
  <2>4. Places' /\ Quiet'
    BY <1>0, <2>1, Actors DEF Places, Quiet, Typed
  <2>5. Queued'
    <3>1. \A i \in 1 .. Len(queue) - 1 :
             /\ queue'[i] \in Request /\ queue'[i] # r
             /\ pc[queue'[i]] \in Waiting
      BY <1>0, <2>1, <2>2, QueueTail, ElementOfSeq
    <3>2. pc'[r] \in Waiting /\ \A q \in Request : q # r => pc'[q] = pc[q]
      BY <1>0, <2>1 DEF Waiting, Typed
    <3>3. \A i \in 1 .. Len(queue') : pc'[queue'[i]] \in Waiting
      BY <1>0, <2>2, <3>1, <3>2
    <3>4. ASSUME NEW i \in 1 .. Len(queue'), NEW j \in 1 .. Len(queue'),
                 queue'[i] = queue'[j]
          PROVE  i = j
      <4>1. CASE i = Len(queue) \/ j = Len(queue)
        BY <1>0, <2>2, <3>1, <3>4, <4>1
      <4>2. CASE i # Len(queue) /\ j # Len(queue)
        <5>1. i \in 1 .. Len(queue) - 1 /\ j \in 1 .. Len(queue) - 1
          BY <1>0, <2>2, <4>2
        <5>2. Tail(queue)[i] = Tail(queue)[j]
          BY <2>2, <3>4, <5>1
        <5> QED
          BY <1>0, <2>1, <5>1, <5>2, QueueTail
      <4> QED
        BY <4>1, <4>2
    <3> QED
      BY <3>3, <3>4 DEF Queued
  <2> QED
    BY <2>3, <2>4, <2>5 DEF Base
<1>5. CASE Depend(r) /\ pc'[r] = "unfit"
  <2>1. /\ queue # <<>> /\ r = Head(queue) /\ queue' = Tail(queue)
        /\ pc' = [pc EXCEPT ![r] = "unfit"]
        /\ pc[r] \notin {"idle", "provider", "probing"}
        /\ UNCHANGED <<phase, attempt, warm, kind, outer, inner, owner, built, stage, svc>>
    BY <1>3, <1>5
  <2>2. /\ queue' \in Seq(Request)
        /\ \A i \in 1 .. Len(queue') :
              /\ queue'[i] \in Request /\ queue'[i] # r
              /\ pc[queue'[i]] \in Waiting
        /\ \A i, j \in 1 .. Len(queue') : queue'[i] = queue'[j] => i = j
    BY <1>0, <2>1, QueueTail, ElementOfSeq
  <2>3. \A q \in Request : q # r => pc'[q] = pc[q]
    BY <1>0, <2>1 DEF Typed
  <2>4. Queued'
    BY <2>2, <2>3 DEF Queued
  <2>5. Typed' /\ OwnIds'
    BY <1>0, <2>1, <2>2 DEF Typed, OwnIds
  <2>6. Places' /\ Quiet'
    BY <1>0, <2>1, Actors DEF Places, Quiet, Typed
  <2> QED
    BY <2>4, <2>5, <2>6 DEF Base
<1> QED
  BY <1>1, <1>2, <1>4, <1>5

\* Getting a pool thread for the route.
LEMMA StartKeepsBase ==
    ASSUME Base, NEW r \in Request, Start(r)
    PROVE  Base'
<1>0. /\ Typed /\ Places /\ OwnIds /\ Quiet /\ Queued
      /\ queue # <<>> /\ r = Head(queue) /\ pc[r] = "route?" /\ queue' = Tail(queue)
      /\ phase = "serving" /\ kind[r] \in Kind \ {"invalid"}
      /\ UNCHANGED <<phase, attempt, warm, kind, outer, inner>>
  BY UnderWay DEF Base, Start, serverVars
<1>1. /\ pc' = [pc EXCEPT ![r] = pc'[r]]
      /\ pc'[r] \in {"apply", "provider", "probing", "route"}
      /\ pc'[r] = FirstPlace(kind[r])
  <2>1. pc' = [pc EXCEPT ![r] = FirstPlace(kind[r])]
    BY DEF Start
  <2>2. pc'[r] = FirstPlace(kind[r])
    BY <1>0, <2>1 DEF Typed
  <2>3. FirstPlace(kind[r]) \in {"apply", "provider", "probing", "route"}
    BY <1>0 DEF FirstPlace, Kind
  <2> QED
    BY <2>1, <2>2, <2>3
<1>2. /\ queue' \in Seq(Request)
      /\ \A i \in 1 .. Len(queue') :
            /\ queue'[i] \in Request /\ queue'[i] # r
            /\ pc[queue'[i]] \in Waiting
      /\ \A i, j \in 1 .. Len(queue') : queue'[i] = queue'[j] => i = j
  BY <1>0, QueueTail, ElementOfSeq
<1>3. Queued'
  <2>1. \A q \in Request : q # r => pc'[q] = pc[q]
    BY <1>0, <1>1 DEF Typed
  <2> QED
    BY <1>2, <2>1 DEF Queued
<1>4. OwnIds' /\ pc' \in [Request -> {"provider?", "service?", "route?", "idle", "unfit",
                                      "apply", "provider", "probing", "route"}]
  <2>1. \A q \in Request : q # r => pc'[q] = pc[q]
    BY <1>0, <1>1 DEF Typed
  <2>2. OwnIds'
    BY <1>0, <2>1 DEF OwnIds
  <2> QED
    BY <1>0, <1>1, <2>2 DEF Typed
<1>5. Typed' /\ Quiet' /\ Places'
  <2>1. CASE UNCHANGED <<owner, built, stage, svc>> /\ pc'[r] # "probing"
    BY <1>0, <1>1, <1>2, <1>4, <2>1 DEF Typed, Quiet, Places
  <2>2. CASE Cache!Enter(r, "s3") /\ UNCHANGED owner /\ pc'[r] = "provider"
    <3>1. /\ stage' \in [Actor -> {"out", "build", "call"}]
          /\ svc' \in [Actor -> Service \cup {NoService}]
          /\ svc'[r] = "s3"
          /\ \A b \in Actor : b # r => stage'[b] = stage[b] /\ svc'[b] = svc[b]
          /\ built' = built
      BY <1>0, <2>2, EnterSeen, Actors, ServiceAssumption
    <3>2. Typed' /\ Quiet'
      BY <1>0, <1>2, <1>4, <2>2, <3>1 DEF Typed, Quiet
    <3>3. /\ \A q \in Request : q # r => pc'[q] = pc[q]
          /\ \A p \in Probe : owner[p] # r
      BY <1>0, <1>1 DEF Places, Typed
    <3>4. Places'
      BY <1>0, <2>2, <3>1, <3>3, Actors, ServiceAssumption DEF Places
    <3> QED
      BY <3>2, <3>4
  <2>3. ASSUME NEW p \in Probe, Submit(r, p), pc'[r] = "probing"
        PROVE  Typed' /\ Quiet' /\ Places'
    <3>1. Cache!Enter(p, "s3") /\ owner' = [owner EXCEPT ![p] = r]
      BY <2>3 DEF Submit
    <3>2. /\ stage' \in [Actor -> {"out", "build", "call"}]
          /\ svc' \in [Actor -> Service \cup {NoService}]
          /\ svc'[p] = "s3"
          /\ \A b \in Actor : b # p => stage'[b] = stage[b] /\ svc'[b] = svc[b]
          /\ built' = built
      BY <1>0, <3>1, EnterSeen, Actors, ServiceAssumption
    <3>3. Typed' /\ Quiet'
      BY <1>0, <1>2, <1>4, <3>1, <3>2 DEF Typed, Quiet
    <3>4. stage[r] = "out" /\ \A q \in Probe : owner[q] # r
      BY <1>0, Actors DEF Places, Typed
    <3>5. /\ \A q \in Probe : owner'[q] = IF q = p THEN r ELSE owner[q]
          /\ \A q \in Request : pc'[q] = IF q = r THEN "probing" ELSE pc[q]
      BY <1>0, <1>1, <2>3, <3>1 DEF Typed
    <3>6. /\ \A a \in Actor : stage'[a] # "out" => svc'[a] \in Service
          /\ \A q \in Request : stage'[q] # "out" => pc'[q] = "provider"
          /\ stage'[Main] # "out" =>
                phase' = "starting" /\ attempt' \in 1 .. Attempts /\ svc'[Main] = "s3"
      BY <1>0, <3>2, <3>4, <3>5, Actors, ServiceAssumption DEF Places
    <3>7. \A q \in Probe :
             /\ owner'[q] \in Request => pc'[owner'[q]] = "probing"
             /\ stage'[q] # "out" => svc'[q] = "s3"
      BY <1>0, <3>2, <3>4, <3>5, Actors DEF Places
    <3>8. \A q1, q2 \in Probe : owner'[q1] \in Request /\ owner'[q1] = owner'[q2] => q1 = q2
      BY <1>0, <3>4, <3>5 DEF Places
    <3>9. Places'
      BY <3>6, <3>7, <3>8 DEF Places
    <3> QED
      BY <3>3, <3>9
  <2>4. CASE kind[r] = "health"
    BY <1>0, <1>1, <2>2, <2>4 DEF Start, FirstPlace
  <2>5. CASE kind[r] = "readiness"
    BY <1>0, <1>1, <2>3, <2>5 DEF Start, FirstPlace
  <2>6. CASE kind[r] \notin {"health", "readiness"}
    <3>1. UNCHANGED <<owner, cacheVars>>
      BY <1>0, <2>6 DEF Start
    <3>2. pc'[r] # "probing"
      BY <1>0, <1>1, <2>6 DEF FirstPlace, Kind
    <3> QED
      BY <2>1, <3>1, <3>2 DEF cacheVars
  <2> QED
    BY <2>4, <2>5, <2>6
<1> QED
  BY <1>3, <1>4, <1>5 DEF Base

\* A thread stores the client it built.
LEMMA BuildKeepsBase ==
    ASSUME Base, NEW a \in Actor, Build(a)
    PROVE  Base'
<1>0. /\ Typed /\ Places /\ OwnIds /\ Quiet /\ Queued /\ Cache!Store(a)
      /\ UNCHANGED <<phase, attempt, warm, queue, kind, pc, outer, inner, owner>>
  BY DEF Base, Build, serverVars, requestVars
<1>1. /\ stage[a] = "build"
      /\ built' \in [Service -> Nat]
      /\ stage' \in [Actor -> {"out", "build", "call"}]
      /\ \A b \in Actor : b # a => stage'[b] = stage[b]
      /\ svc' = svc
  BY <1>0, StoreSeen
<1>2. Typed' /\ OwnIds' /\ Queued'
  BY <1>0, <1>1 DEF Typed, OwnIds, Queued
<1>3. \A b \in Actor : stage'[b] # "out" => stage[b] # "out"
  BY <1>1
<1>4. Places' /\ Quiet'
  BY <1>0, <1>1, <1>3, Actors DEF Places, Quiet
<1> QED
  BY <1>2, <1>4 DEF Base

\* A call ends, of a request's or a probe's.
LEMMA CallEndsKeepsBase ==
    ASSUME Base, NEW a \in Request \cup Probe, CallEnds(a)
    PROVE  Base'
<1>0. /\ Typed /\ Places /\ OwnIds /\ Quiet /\ Queued /\ Cache!Leave(a)
      /\ a \in Actor /\ a # Main /\ stage[a] # "out"
      /\ owner \in [Probe -> Request \cup {NoId}] /\ NoId \notin Request
  BY Actors DEF Base, CallEnds, Cache!Leave, Typed
<1>1. /\ stage' \in [Actor -> {"out", "build", "call"}]
      /\ svc' \in [Actor -> Service \cup {NoService}]
      /\ stage'[a] = "out"
      /\ \A b \in Actor : b # a => stage'[b] = stage[b] /\ svc'[b] = svc[b]
      /\ built' = built /\ built' \in [Service -> Nat]
      /\ \A b \in Actor : stage'[b] # "out" => stage[b] # "out" /\ svc'[b] = svc[b]
  BY <1>0, LeaveSeen DEF Typed
<1>2. CASE a \in Request
  <2>1. PICK result : RouteEnds(a, result)
    BY <1>0, <1>2, Actors DEF CallEnds
  <2>2. PICK status, record : Respond(a, status, record)
    BY <2>1 DEF RouteEnds
  <2>3. UNCHANGED <<phase, attempt, warm, owner>>
    BY <2>1 DEF RouteEnds, serverVars
  <2>4. pc[a] = "provider" /\ \A p \in Probe : owner[p] # a
    BY <1>0, <1>2 DEF Places
  <2> QED
    BY <1>0, <1>1, <1>2, <2>2, <2>3, <2>4, LeavingKeepsBase DEF Waiting
<1>3. CASE a \in Probe
  <2>1. ProbeEnds(a)
    BY <1>0, <1>3, Actors DEF CallEnds
  <2>2. /\ UNCHANGED <<phase, attempt, warm>>
        /\ owner' = [owner EXCEPT ![a] = NoId]
        /\ owner' \in [Probe -> Request \cup {NoId}]
    BY <1>0, <1>3, <2>1 DEF ProbeEnds, serverVars
  <2>3. CASE owner[a] \in Request
    <3>1. Respond(owner[a], "ok", NoId) /\ pc[owner[a]] = "probing"
      BY <1>0, <1>3, <2>1, <2>3 DEF ProbeEnds, Places
    <3>2. stage[owner[a]] = "out" /\ stage'[owner[a]] = "out"
      BY <1>0, <1>1, <1>3, <2>3, <3>1, Actors DEF Places, Typed
    <3>3. \A p \in Probe : owner'[p] # owner[a] /\ owner'[p] \in {owner[p], NoId}
      BY <1>0, <1>3, <2>2, <2>3 DEF Places
    <3> QED
      BY <1>0, <1>1, <2>2, <2>3, <3>1, <3>2, <3>3, LeavingKeepsBase DEF Waiting
  <2>4. CASE owner[a] \notin Request
    <3>1. UNCHANGED <<queue, kind, pc, outer, inner>> /\ owner' = owner
      BY <1>0, <1>3, <2>1, <2>2, <2>4 DEF ProbeEnds, requestVars
    <3>2. Typed' /\ OwnIds' /\ Queued'
      BY <1>0, <1>1, <2>2, <3>1 DEF Typed, OwnIds, Queued
    <3>3. Places' /\ Quiet'
      BY <1>0, <1>1, <2>2, <3>1, Actors DEF Places, Quiet
    <3> QED
      BY <3>2, <3>3 DEF Base
  <2> QED
    BY <2>3, <2>4
<1> QED
  BY <1>2, <1>3

\* What a request does with its thread.
LEMMA WorkKeepsBase ==
    ASSUME Base, NEW r \in Request, Work(r)
    PROVE  Base'
<1>0. /\ Typed /\ Places /\ OwnIds /\ Quiet /\ Queued
      /\ owner \in [Probe -> Request \cup {NoId}] /\ built \in [Service -> Nat]
      /\ stage \in [Actor -> {"out", "build", "call"}]
      /\ svc \in [Actor -> Service \cup {NoService}]
      /\ NoId \notin Request /\ r \in Actor /\ r # Main
  BY Actors DEF Base, Typed
<1>1. CASE Pass(r)
  <2>1. /\ pc[r] = "apply" /\ pc' = [pc EXCEPT ![r] = "provider"]
        /\ UNCHANGED <<phase, attempt, warm, queue, kind, outer, inner, owner>>
    BY <1>1 DEF Pass, serverVars
  <2>2. PICK s \in Resource : Cache!Enter(r, s)
    BY <1>1 DEF Pass
  <2>3. /\ stage' \in [Actor -> {"out", "build", "call"}]
        /\ svc' \in [Actor -> Service \cup {NoService}]
        /\ svc'[r] \in Service
        /\ \A b \in Actor : b # r => stage'[b] = stage[b] /\ svc'[b] = svc[b]
        /\ built' = built
    BY <1>0, <2>2, EnterSeen, ServiceAssumption
  <2>4. /\ \A q \in Request : pc'[q] = IF q = r THEN "provider" ELSE pc[q]
        /\ phase = "serving"
    BY <1>0, <2>1, UnderWay DEF Typed
  <2>5. Typed' /\ OwnIds' /\ Quiet'
    BY <1>0, <2>1, <2>3, <2>4 DEF Typed, OwnIds, Quiet
  <2>6. \A p \in Probe : owner[p] # r
    BY <1>0, <2>1 DEF Places
  <2>7. Places'
    BY <1>0, <2>1, <2>3, <2>4, <2>6, Actors DEF Places
  <2>8. \A i \in 1 .. Len(queue) : queue[i] \in Request /\ queue[i] # r
    BY <1>0, <2>1, ElementOfSeq DEF Typed, Queued, Waiting
  <2>9. Queued'
    BY <1>0, <2>1, <2>4, <2>8 DEF Queued
  <2> QED
    BY <2>5, <2>7, <2>9 DEF Base
<1>2. CASE Refuse(r) \/ Raise(r) \/ AnswerDev(r)
  <2>1. PICK status, record : Respond(r, status, record)
    BY <1>2 DEF Refuse, Raise, AnswerDev
  <2>2. /\ pc[r] \in {"unfit", "apply", "route"}
        /\ UNCHANGED <<phase, attempt, warm, owner, built, stage, svc>>
    BY <1>2 DEF Refuse, Raise, AnswerDev, serverVars, cacheVars
  <2>3. stage[r] = "out" /\ \A p \in Probe : owner[p] # r
    BY <1>0, <2>2 DEF Places
  <2> QED
    BY <1>0, <2>1, <2>2, <2>3, LeavingKeepsBase DEF Waiting
<1>3. ASSUME NEW p \in Probe, Abandon(r, p)
      PROVE  Base'
  <2>1. /\ pc[r] = "probing" /\ owner[p] = r /\ owner' = [owner EXCEPT ![p] = NoId]
        /\ Respond(r, "ok", NoId)
        /\ UNCHANGED <<phase, attempt, warm, built, stage, svc>>
    BY <1>3 DEF Abandon, serverVars, cacheVars
  <2>2. stage[r] = "out"
    BY <1>0, <2>1 DEF Places
  <2>3. /\ owner' \in [Probe -> Request \cup {NoId}]
        /\ \A q \in Probe : owner'[q] # r /\ owner'[q] \in {owner[q], NoId}
    BY <1>0, <2>1 DEF Places
  <2> QED
    BY <1>0, <2>1, <2>2, <2>3, LeavingKeepsBase DEF Waiting
<1> QED
  BY <1>1, <1>2, <1>3 DEF Work

LEMMA InitBase == Init => Base
<1> SUFFICES ASSUME Init PROVE Base
  OBVIOUS
<1>0. queue \in Seq(Request) /\ attempt \in 0 .. Attempts + 1
  BY PoolAssumption, EmptySeq DEF Init
<1>1. Typed
  BY <1>0 DEF Init, Typed, Cache!CacheInit
<1>2. Places /\ OwnIds /\ Quiet
  BY ActorAssumption, Actors DEF Init, Places, OwnIds, Quiet, Cache!CacheInit
<1>3. Queued
  BY EmptySeq DEF Init, Queued
<1> QED
  BY <1>1, <1>2, <1>3 DEF Base

LEMMA StepKeepsBase == Base /\ [Next]_vars => Base'
<1> SUFFICES ASSUME Base, [Next]_vars PROVE Base'
  OBVIOUS
<1>1. CASE UNCHANGED vars
  BY <1>1
  DEF vars, serverVars, requestVars, cacheVars, Base, Typed, Places, OwnIds, Quiet, Queued
<1>2. CASE Startup
  BY <1>2, MainKeepsBase
<1>3. ASSUME NEW r \in Request,
             \/ \E k \in Kind : Arrive(r, k)
             \/ AnswerAtOnce(r) \/ Depend(r) \/ Start(r) \/ Work(r)
      PROVE  Base'
  BY <1>3, WaitingKeepsBase, StartKeepsBase, WorkKeepsBase
<1>4. ASSUME NEW a \in Actor, Build(a) \/ CallEnds(a)
      PROVE  Base'
  BY <1>4, Actors, MainKeepsBase, BuildKeepsBase, CallEndsKeepsBase
<1> QED
  BY <1>1, <1>2, <1>3, <1>4 DEF Next

\* Places, ids and queue are as described, always.
THEOREM Invariance == Spec => []Base
  BY InitBase, StepKeepsBase, PTL DEF Spec

\* Every variable keeps its type.
THEOREM TypeCorrect == Spec => []TypeOK
<1>1. Base => TypeOK
  BY TypesSame DEF Base
<1> QED
  BY <1>1, Invariance, PTL

----------------------------------------------------------------------------
(* Whose ids are told.                                                      *)

\* A request that leaves tells its own id or none.
LEMMA RespondTells ==
    ASSUME Base, NEW r \in Request, pc[r] # "idle",
           NEW status \in {"ok", "error", "invalid", "bug"}, NEW record \in {r, NoId},
           status = "bug" => record = NoId,
           Respond(r, status, record)
    PROVE  IdsTold'
<1>1. /\ outer[r] = r /\ inner[r] = r /\ outer'[r] = NoId
      /\ NoId # r
  BY UnderWay, Actors, RespondSeen DEF Base
<1>2. /\ Whose(r, r) = "own" /\ Whose(NoId, r) = "none"
  BY <1>1 DEF Whose
<1>3. out' = Answer(r, status, IF status = "bug" THEN NoId ELSE r, ErrorBody(r, status), record)
  BY <1>1 DEF Respond
<1>4. status \in {"error", "invalid"} => ErrorBody(r, status) = r
  BY <1>1 DEF ErrorBody
<1>5. /\ out'.status = status
      /\ out'.header = IF status = "bug" THEN "none" ELSE "own"
      /\ status \in {"error", "invalid"} => out'.body = "own"
      /\ out'.record \in {"own", "none"}
      /\ status = "bug" => out'.record = "none"
  BY <1>2, <1>3, <1>4 DEF Answer
<1> QED
  BY <1>5 DEF IdsTold

LEMMA NothingTold == out' = Nothing => IdsTold'
  BY DEF Nothing, IdsTold

LEMMA StepTellsOwn == Base /\ IdsTold /\ [Next]_vars => IdsTold'
<1> SUFFICES ASSUME Base, IdsTold, [Next]_vars PROVE IdsTold'
  OBVIOUS
<1>0. Typed /\ Places /\ Quiet /\ NoId \notin Request
  BY Actors DEF Base
<1>1. CASE UNCHANGED vars \/ out' = Nothing
  BY <1>1, NothingTold DEF vars, IdsTold
<1>2. CASE Startup
  BY <1>1, <1>2 DEF Startup, Attempt, Resume, GiveUp
<1>3. ASSUME NEW r \in Request,
             (\E k \in Kind : Arrive(r, k)) \/ Depend(r) \/ Start(r) \/ Pass(r)
      PROVE  IdsTold'
  BY <1>1, <1>3 DEF Arrive, Depend, Start, Pass
<1>4. ASSUME NEW r \in Request, AnswerAtOnce(r)
      PROVE  IdsTold'
  <2>1. \/ out' = Answer(r, "invalid", r, r, NoId)
        \/ out' = Answer(r, "unknown", r, NoId, NoId)
        \/ out' = Answer(r, "preflight", NoId, NoId, NoId)
    BY <1>4 DEF AnswerAtOnce
  <2>2. Whose(r, r) = "own" /\ Whose(NoId, r) = "none"
    BY <1>0 DEF Whose
  <2> QED
    BY <2>1, <2>2 DEF Answer, IdsTold
<1>5. ASSUME NEW r \in Request,
             Refuse(r) \/ Raise(r) \/ AnswerDev(r) \/ \E p \in Probe : Abandon(r, p)
      PROVE  IdsTold'
  <2>1. pc[r] # "idle" /\ inner[r] = r
    BY <1>5, UnderWay DEF Refuse, Raise, AnswerDev, Abandon
  <2>2. PICK status \in {"ok", "error", "invalid"}, record \in {r, NoId} :
           Respond(r, status, record)
    BY <1>5, <2>1 DEF Refuse, Raise, AnswerDev, Abandon
  <2> QED
    BY <2>1, <2>2, RespondTells
<1>6. ASSUME NEW a \in Actor, Build(a) \/ CallEnds(a)
      PROVE  IdsTold'
  <2>1. CASE Build(a)
    BY <1>1, <2>1 DEF Build
  <2>2. CASE CallEnds(a) /\ a = Main
    BY <1>1, <2>2, Actors DEF CallEnds, MainEnds
  <2>3. CASE CallEnds(a) /\ a \in Probe
    <3>1. ProbeEnds(a)
      BY <2>3, Actors DEF CallEnds
    <3>2. CASE owner[a] \in Request
      <4>1. Respond(owner[a], "ok", NoId) /\ pc[owner[a]] = "probing"
        BY <1>0, <2>3, <3>1, <3>2 DEF ProbeEnds, Places
      <4> QED
        BY <3>2, <4>1, RespondTells
    <3> QED
      BY <1>1, <3>1, <3>2 DEF ProbeEnds
  <2>4. CASE CallEnds(a) /\ a \in Request
    <3>1. PICK result : RouteEnds(a, result)
      BY <2>4, Actors DEF CallEnds
    <3>2. pc[a] # "idle" /\ inner[a] = a
      <4>1. stage[a] # "out"
        BY <2>4 DEF CallEnds, Cache!Leave
      <4>2. pc[a] = "provider"
        BY <1>0, <2>4, <4>1 DEF Places
      <4> QED
        BY <2>4, <4>2, UnderWay
    <3>3. PICK status \in {"ok", "error", "bug"}, record \in {a, NoId} :
             Respond(a, status, record) /\ (status = "bug" => record = NoId)
      BY <3>1, <3>2 DEF RouteEnds
    <3> QED
      BY <2>4, <3>2, <3>3, RespondTells
  <2> QED
    BY <1>6, <2>1, <2>2, <2>3, <2>4, Actors
<1> QED
  BY <1>1, <1>2, <1>3, <1>4, <1>5, <1>6 DEF Next, Work

\* The request's own id reaches its header, the error body and the record of
\* its provider call, whoever else is answered meanwhile, and an exception
\* nobody foresaw leaves no record (main.py:124-165, base.py:47).
THEOREM OwnIdsTold == Spec => []IdsTold
<1>1. Init => IdsTold
  BY DEF Init, Nothing, IdsTold
<1> QED
  BY <1>1, StepTellsOwn, Invariance, PTL DEF Spec

----------------------------------------------------------------------------
(* How many clients are built.                                              *)

\* The threads that found no client of service s, and build one.
Builders(s) == {a \in Actor : stage[a] = "build" /\ svc[a] = s}

\* Startup builds the S3 client alone, if it can, and then nobody else does.
OneClient ==
    /\ phase # "serving" =>
          /\ built["s3"] <= 1
          /\ stage[Main] = "build" => built["s3"] = 0
    /\ warm => built["s3"] = 1 /\ Builders("s3") = {}

\* Clients stored and clients being built, of any other service, are no more
\* than the threads of the pool.
Bounded ==
    /\ IsFiniteSet(Holders) /\ Cardinality(Holders) <= PoolSize
    /\ \A s \in Service \ {"s3"} :
          IsFiniteSet(Builders(s)) /\ built[s] + Cardinality(Builders(s)) <= PoolSize

\* What a step may do to the cache.
LEMMA CacheStep ==
    ASSUME Base, [Next]_vars
    PROVE  \/ UNCHANGED <<built, stage, svc>>
           \/ \E a \in Actor, s \in Service : Cache!Enter(a, s)
           \/ \E a \in Actor : Cache!Store(a) \/ Cache!Leave(a)
<1>1. CASE UNCHANGED vars
  BY <1>1 DEF vars, cacheVars
<1>2. CASE Startup
  BY <1>2, Actors, ServiceAssumption DEF Startup, Attempt, Resume, GiveUp, cacheVars
<1>3. ASSUME NEW r \in Request,
             (\E k \in Kind : Arrive(r, k)) \/ AnswerAtOnce(r) \/ Depend(r)
      PROVE  UNCHANGED <<built, stage, svc>>
  BY <1>3 DEF Arrive, AnswerAtOnce, Depend, cacheVars
<1>4. ASSUME NEW r \in Request, Start(r)
      PROVE  \/ UNCHANGED <<built, stage, svc>>
             \/ \E a \in Actor, s \in Service : Cache!Enter(a, s)
  <2>1. \/ Cache!Enter(r, "s3")
        \/ \E p \in Probe : Cache!Enter(p, "s3")
        \/ UNCHANGED <<built, stage, svc>>
    BY <1>4 DEF Start, Submit, cacheVars
  <2> QED
    BY <2>1, Actors, ServiceAssumption
<1>5. ASSUME NEW r \in Request, Work(r)
      PROVE  \/ UNCHANGED <<built, stage, svc>>
             \/ \E a \in Actor, s \in Service : Cache!Enter(a, s)
  BY <1>5, Actors, ServiceAssumption DEF Work, Refuse, Pass, Raise, AnswerDev, Abandon, cacheVars
<1>6. ASSUME NEW a \in Actor, Build(a) \/ CallEnds(a)
      PROVE  Cache!Store(a) \/ Cache!Leave(a)
  BY <1>6 DEF Build, CallEnds
<1> QED
  BY <1>1, <1>2, <1>3, <1>4, <1>5, <1>6 DEF Next

\* What a step may do to the pool.
LEMMA HolderStep ==
    ASSUME Base, [Next]_vars
    PROVE  \/ Holders' \subseteq Holders
           \/ \E r \in Request :
                 Holders' = Holders \cup {r} /\ Cardinality(Holders) < PoolSize
<1>0. Typed /\ Places
  BY DEF Base
<1>1. ASSUME pc' = pc
      PROVE  Holders' \subseteq Holders
  BY <1>1 DEF Holders
<1>2. ASSUME NEW r \in Request, NEW p \in Waiting \cup {"idle", "unfit"}, pc' = [pc EXCEPT ![r] = p]
      PROVE  Holders' \subseteq Holders
  BY <1>0, <1>2 DEF Holders, Typed
<1>3. ASSUME NEW r \in Request, NEW status, NEW record, Respond(r, status, record)
      PROVE  Holders' \subseteq Holders
  BY <1>2, <1>3 DEF Respond
<1>4. CASE UNCHANGED vars \/ Startup
  BY <1>1, <1>4 DEF vars, requestVars, Startup, Attempt, Resume, GiveUp
<1>5. ASSUME NEW r \in Request,
             (\E k \in Kind : Arrive(r, k)) \/ AnswerAtOnce(r) \/ Depend(r)
      PROVE  Holders' \subseteq Holders
  <2>1. CASE \E k \in Kind : Arrive(r, k)
    BY <1>2, <2>1 DEF Arrive, FirstWait, Waiting
  <2>2. CASE AnswerAtOnce(r)
    BY <1>1, <2>2 DEF AnswerAtOnce, requestVars
  <2>3. CASE Depend(r)
    <3>1. PICK p \in {"service?", "route?", "unfit"} : pc' = [pc EXCEPT ![r] = p]
      BY <1>0, <2>3 DEF Depend, AfterDependency
    <3> QED
      BY <1>2, <3>1 DEF Waiting
  <2> QED
    BY <1>5, <2>1, <2>2, <2>3
<1>6. ASSUME NEW r \in Request, Start(r)
      PROVE  \/ Holders' \subseteq Holders
             \/ Holders' = Holders \cup {r} /\ Cardinality(Holders) < PoolSize
  <2>1. \A q \in Request : q # r => pc'[q] = pc[q]
    BY <1>0, <1>6 DEF Start, Typed
  <2>2. CASE r \in Holders'
    BY <1>6, <2>1, <2>2 DEF Holders, Start
  <2>3. CASE r \notin Holders'
    BY <2>1, <2>3 DEF Holders
  <2> QED
    BY <2>2, <2>3
<1>7. ASSUME NEW r \in Request, Work(r)
      PROVE  Holders' \subseteq Holders
  <2>1. CASE Pass(r)
    <3>1. \A q \in Request : pc'[q] = IF q = r THEN "provider" ELSE pc[q]
      BY <1>0, <2>1 DEF Pass, Typed
    <3>2. r \in Holders
      BY <2>1 DEF Pass, Holders, Waiting
    <3> QED
      BY <3>1, <3>2 DEF Holders
  <2>2. CASE Refuse(r) \/ Raise(r) \/ AnswerDev(r) \/ \E p \in Probe : Abandon(r, p)
    BY <1>3, <2>2 DEF Refuse, Raise, AnswerDev, Abandon
  <2> QED
    BY <1>7, <2>1, <2>2 DEF Work
<1>8. ASSUME NEW a \in Actor, Build(a) \/ CallEnds(a)
      PROVE  Holders' \subseteq Holders
  <2>1. CASE Build(a)
    BY <1>1, <2>1 DEF Build, requestVars
  <2>2. CASE CallEnds(a)
    BY <1>1, <1>3, <2>2 DEF CallEnds, MainEnds, ProbeEnds, RouteEnds, requestVars
  <2> QED
    BY <1>8, <2>1, <2>2
<1> QED
  BY <1>4, <1>5, <1>6, <1>7, <1>8 DEF Next

\* What a step may do to the phase: the server starts once, when Main is out.
LEMMA ServerStep ==
    ASSUME Base, [Next]_vars
    PROVE  \/ /\ phase' = "serving" <=> phase = "serving"
              /\ warm' = warm
           \/ /\ phase # "serving" /\ phase' = "serving"
              /\ (warm' => built["s3"] > 0) /\ built' = built
              /\ \A a \in Actor : stage'[a] = "out"
<1>0. Typed /\ Places /\ Quiet
  BY DEF Base
<1>1. CASE UNCHANGED serverVars
  BY <1>1 DEF serverVars
<1>2. CASE Attempt \/ UNCHANGED vars
  BY <1>1, <1>2 DEF Attempt, vars
<1>3. CASE Resume
  BY <1>3 DEF Resume
<1>4. CASE GiveUp
  BY <1>0, <1>4, Actors DEF GiveUp, StartServing, cacheVars, Quiet
<1>5. CASE CallEnds(Main)
  <2>1. PICK result : MainEnds(result)
    BY <1>5, Actors DEF CallEnds
  <2>2. /\ stage[Main] # "out" /\ stage'[Main] = "out" /\ built' = built
        /\ \A b \in Actor : b # Main => stage'[b] = stage[b]
    BY <1>0, <1>5, LeaveSeen, Actors DEF CallEnds
  <2>3. phase = "starting"
    BY <1>0, <2>2 DEF Places
  <2> QED
    BY <1>0, <2>1, <2>2, <2>3, Actors DEF MainEnds, StartServing, AttemptFails, Quiet
<1>6. ASSUME NEW r \in Request,
             \/ \E k \in Kind : Arrive(r, k)
             \/ AnswerAtOnce(r) \/ Depend(r) \/ Start(r) \/ Work(r)
      PROVE  UNCHANGED serverVars
  BY <1>6
  DEF Arrive, AnswerAtOnce, Depend, Start, Work, Refuse, Pass, Raise, AnswerDev, Abandon, serverVars
<1>7. ASSUME NEW a \in Actor, Build(a) \/ (CallEnds(a) /\ a # Main)
      PROVE  UNCHANGED serverVars
  BY <1>7 DEF Build, CallEnds, ProbeEnds, RouteEnds
<1> QED
  BY <1>1, <1>2, <1>3, <1>4, <1>5, <1>6, <1>7 DEF Next, Startup

LEMMA StepKeepsOneClient == Base /\ OneClient /\ [Next]_vars => OneClient'
<1> SUFFICES ASSUME Base, OneClient, [Next]_vars PROVE OneClient'
  OBVIOUS
<1>0. /\ Typed /\ Places /\ Quiet /\ Typed' /\ Places' /\ Quiet'
      /\ built \in [Service -> Nat] /\ "s3" \in Service
  BY StepKeepsBase, ServiceAssumption DEF Base, Typed
<1>1. CASE phase # "serving" /\ phase' = "serving"
  <2>1. /\ (warm' => built["s3"] > 0) /\ built' = built
        /\ \A a \in Actor : stage'[a] = "out"
    BY <1>1, ServerStep
  <2>2. built["s3"] <= 1 /\ built["s3"] \in Nat
    BY <1>0, <1>1 DEF OneClient
  <2>3. warm' => built'["s3"] = 1
    BY <2>1, <2>2
  <2>4. Builders("s3")' = {}
    BY <2>1 DEF Builders
  <2> QED
    BY <1>1, <2>3, <2>4 DEF OneClient
<1>2. CASE phase # "serving" /\ phase' # "serving"
  <2>1. /\ ~warm' /\ \A a \in Actor : a # Main => stage[a] = "out" /\ stage'[a] = "out"
    BY <1>0, <1>2, Actors DEF Quiet
  <2>2. built["s3"] <= 1 /\ (stage[Main] = "build" => built["s3"] = 0) /\ built["s3"] \in Nat
    BY <1>0, <1>2 DEF OneClient
  <2>3. built'["s3"] <= 1 /\ (stage'[Main] = "build" => built'["s3"] = 0)
    <3>1. CASE UNCHANGED <<built, stage, svc>>
      BY <2>2, <3>1
    <3>2. ASSUME NEW a \in Actor, NEW s \in Service, Cache!Enter(a, s)
          PROVE  built'["s3"] <= 1 /\ (stage'[Main] = "build" => built'["s3"] = 0)
      <4>1. /\ stage'[a] = IF built[s] = 0 THEN "build" ELSE "call"
            /\ svc'[a] = s /\ built' = built
        BY <1>0, <3>2, EnterSeen
      <4>2. a = Main /\ s = "s3"
        BY <1>0, <2>1, <4>1 DEF Places
      <4> QED
        BY <2>2, <4>1, <4>2
    <3>3. ASSUME NEW a \in Actor, Cache!Store(a)
          PROVE  built'["s3"] <= 1 /\ (stage'[Main] = "build" => built'["s3"] = 0)
      <4>1. /\ stage[a] = "build" /\ stage'[a] = "call"
            /\ built'[svc[a]] = built[svc[a]] + 1
        BY <1>0, <3>3, StoreSeen
      <4>2. a = Main /\ svc[a] = "s3"
        BY <1>0, <2>1, <4>1 DEF Places
      <4> QED
        BY <2>2, <4>1, <4>2
    <3>4. ASSUME NEW a \in Actor, Cache!Leave(a)
          PROVE  built'["s3"] <= 1 /\ (stage'[Main] = "build" => built'["s3"] = 0)
      BY <1>0, <2>2, <3>4, LeaveSeen, Actors
    <3> QED
      BY <3>1, <3>2, <3>3, <3>4, CacheStep
  <2> QED
    BY <1>2, <2>1, <2>3 DEF OneClient
<1>3. CASE phase = "serving"
  <2>1. phase' = "serving" /\ warm' = warm
    BY <1>3, ServerStep
  <2>2. ASSUME warm
        PROVE  built'["s3"] = 1 /\ Builders("s3")' = {}
    <3>1. built["s3"] = 1 /\ \A b \in Actor : ~(stage[b] = "build" /\ svc[b] = "s3")
      BY <2>2 DEF OneClient, Builders
    <3>2. CASE UNCHANGED <<built, stage, svc>>
      BY <3>1, <3>2 DEF Builders
    <3>3. ASSUME NEW a \in Actor, NEW s \in Service, Cache!Enter(a, s)
          PROVE  built'["s3"] = 1 /\ Builders("s3")' = {}
      BY <1>0, <3>1, <3>3, EnterSeen DEF Builders
    <3>4. ASSUME NEW a \in Actor, Cache!Store(a)
          PROVE  built'["s3"] = 1 /\ Builders("s3")' = {}
      BY <1>0, <3>1, <3>4, StoreSeen DEF Builders
    <3>5. ASSUME NEW a \in Actor, Cache!Leave(a)
          PROVE  built'["s3"] = 1 /\ Builders("s3")' = {}
      BY <1>0, <3>1, <3>5, LeaveSeen DEF Builders
    <3> QED
      BY <3>2, <3>3, <3>4, <3>5, CacheStep
  <2> QED
    BY <2>1, <2>2 DEF OneClient
<1> QED
  BY <1>1, <1>2, <1>3

LEMMA StepKeepsBounded == Base /\ Bounded /\ [Next]_vars => Bounded'
<1> SUFFICES ASSUME Base, Bounded, [Next]_vars PROVE Bounded'
  OBVIOUS
<1>0. /\ Typed /\ Places /\ Typed' /\ Places' /\ Base'
      /\ built \in [Service -> Nat] /\ PoolSize \in Nat
      /\ IsFiniteSet(Holders) /\ Cardinality(Holders) <= PoolSize
      /\ Cardinality(Holders) \in Nat
  BY StepKeepsBase, PoolAssumption, FS_CardinalityType DEF Base, Typed, Bounded
<1>1. IsFiniteSet(Holders') /\ Cardinality(Holders') <= PoolSize /\ Cardinality(Holders') \in Nat
  <2>1. CASE Holders' \subseteq Holders
    BY <1>0, <2>1, FS_Subset, FS_CardinalityType
  <2>2. ASSUME NEW r \in Request, Holders' = Holders \cup {r}, Cardinality(Holders) < PoolSize
        PROVE  IsFiniteSet(Holders') /\ Cardinality(Holders') <= PoolSize
               /\ Cardinality(Holders') \in Nat
    <3>1. /\ IsFiniteSet(Holders \cup {r})
          /\ Cardinality(Holders \cup {r}) \in {Cardinality(Holders), Cardinality(Holders) + 1}
      BY <1>0, FS_AddElement
    <3> QED
      BY <1>0, <2>2, <3>1
  <2> QED
    BY <2>1, <2>2, HolderStep
<1>2. ASSUME NEW s \in Service \ {"s3"}
      PROVE  IsFiniteSet(Builders(s)') /\ built'[s] + Cardinality(Builders(s)') <= PoolSize
  <2>1. /\ IsFiniteSet(Builders(s)) /\ built[s] + Cardinality(Builders(s)) <= PoolSize
        /\ Cardinality(Builders(s)) \in Nat /\ built[s] \in Nat
    BY <1>0, FS_CardinalityType DEF Bounded
  <2>2. ASSUME Builders(s)' \subseteq Builders(s), built'[s] = built[s]
        PROVE  IsFiniteSet(Builders(s)') /\ built'[s] + Cardinality(Builders(s)') <= PoolSize
    <3>1. IsFiniteSet(Builders(s)') /\ Cardinality(Builders(s)') <= Cardinality(Builders(s))
      BY <2>1, <2>2, FS_Subset
    <3>2. Cardinality(Builders(s)') \in Nat
      BY <3>1, FS_CardinalityType
    <3> QED
      BY <1>0, <2>1, <2>2, <3>1, <3>2
  <2>3. CASE UNCHANGED <<built, stage, svc>>
    BY <2>2, <2>3 DEF Builders
  <2>4. ASSUME NEW a \in Actor, NEW t \in Service, Cache!Enter(a, t)
        PROVE  IsFiniteSet(Builders(s)') /\ built'[s] + Cardinality(Builders(s)') <= PoolSize
    <3>1. /\ stage'[a] = IF built[t] = 0 THEN "build" ELSE "call"
          /\ svc'[a] = t /\ built' = built
          /\ \A b \in Actor : b # a => stage'[b] = stage[b] /\ svc'[b] = svc[b]
      BY <1>0, <2>4, EnterSeen
    <3>2. CASE built[s] # 0 \/ t # s
      <4>1. Builders(s)' \subseteq Builders(s)
        BY <3>1, <3>2 DEF Builders
      <4> QED
        BY <2>2, <3>1, <4>1
    <3>3. CASE built[s] = 0
      <4>1. Builders(s)' \subseteq Holders'
        BY <1>0, Actors DEF Builders, Places, Holders, Waiting
      <4>2. IsFiniteSet(Builders(s)') /\ Cardinality(Builders(s)') <= Cardinality(Holders')
        BY <1>1, <4>1, FS_Subset
      <4>3. Cardinality(Builders(s)') \in Nat /\ built'[s] = 0
        BY <3>1, <3>3, <4>2, FS_CardinalityType
      <4> QED
        BY <1>0, <1>1, <4>2, <4>3
    <3> QED
      BY <3>2, <3>3
  <2>5. ASSUME NEW a \in Actor, Cache!Store(a)
        PROVE  IsFiniteSet(Builders(s)') /\ built'[s] + Cardinality(Builders(s)') <= PoolSize
    <3>1. /\ stage[a] = "build" /\ stage'[a] = "call" /\ svc' = svc
          /\ built'[svc[a]] = built[svc[a]] + 1
          /\ \A t \in Service : t # svc[a] => built'[t] = built[t]
          /\ \A b \in Actor : b # a => stage'[b] = stage[b]
      BY <1>0, <2>5, StoreSeen
    <3>2. CASE svc[a] # s
      <4>1. Builders(s)' \subseteq Builders(s)
        BY <3>1 DEF Builders
      <4> QED
        BY <2>2, <3>1, <3>2, <4>1
    <3>3. CASE svc[a] = s
      <4>1. Builders(s)' = Builders(s) \ {a} /\ a \in Builders(s)
        BY <3>1, <3>3 DEF Builders
      <4>2. /\ IsFiniteSet(Builders(s) \ {a})
            /\ Cardinality(Builders(s) \ {a}) = Cardinality(Builders(s)) - 1
        BY <2>1, <4>1, FS_RemoveElement
      <4> QED
        BY <1>0, <2>1, <3>1, <3>3, <4>1, <4>2
    <3> QED
      BY <3>2, <3>3
  <2>6. ASSUME NEW a \in Actor, Cache!Leave(a)
        PROVE  IsFiniteSet(Builders(s)') /\ built'[s] + Cardinality(Builders(s)') <= PoolSize
    <3>1. Builders(s)' \subseteq Builders(s) /\ built' = built
      BY <1>0, <2>6, LeaveSeen DEF Builders
    <3> QED
      BY <2>2, <3>1
  <2> QED
    BY <2>3, <2>4, <2>5, <2>6, CacheStep
<1> QED
  BY <1>1, <1>2 DEF Bounded

\* No service has more clients built than the pool has threads, however many
\* requests find the cache empty at once; and if startup left an S3 client,
\* it is the only one ever (main.py:77, localstack_provider.py:38).
THEOREM ClientsFew == Spec => []ClientsBounded
<1>1. Init => OneClient /\ Bounded
  <2> SUFFICES ASSUME Init PROVE OneClient /\ Bounded
    OBVIOUS
  <2>1. Holders = {} /\ \A s \in Service : Builders(s) = {} /\ built[s] = 0
    BY DEF Init, Holders, Builders, Cache!CacheInit
  <2>2. stage[Main] = "out" /\ ~warm
    BY Actors DEF Init, Cache!CacheInit
  <2> QED
    BY <2>1, <2>2, FS_EmptySet, PoolAssumption, ServiceAssumption DEF OneClient, Bounded
<1>2. Base /\ OneClient /\ Bounded => ClientsBounded
  <2> SUFFICES ASSUME Base, OneClient, Bounded PROVE ClientsBounded
    OBVIOUS
  <2>1. ASSUME NEW s \in Service \ {"s3"}
        PROVE  built[s] <= PoolSize
    <3>1. /\ IsFiniteSet(Builders(s)) /\ built[s] + Cardinality(Builders(s)) <= PoolSize
          /\ built[s] \in Nat /\ PoolSize \in Nat
      BY PoolAssumption DEF Bounded, Base, Typed
    <3>2. Cardinality(Builders(s)) \in Nat
      BY <3>1, FS_CardinalityType
    <3> QED
      BY <3>1, <3>2
  <2> QED
    BY <2>1 DEF ClientsBounded, OneClient
<1> QED
  BY <1>1, <1>2, StepKeepsOneClient, StepKeepsBounded, Invariance, PTL DEF Spec

=============================================================================
