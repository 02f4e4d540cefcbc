------------------------------ MODULE ApiServer ------------------------------
(***************************************************************************)
(* The process around the services (app/main.py): it probes the provider   *)
(* at startup, then answers requests in the threads of a bounded pool,     *)
(* with a request id that travels in a context variable.                   *)
(*                                                                         *)
(*   Main:    attempt --(refused)--> pause --> attempt ... --> serving     *)
(*   request: queued --> a pool thread --> answered                        *)
(*   probe:   a thread of its own per readiness request, abandoned when    *)
(*            the request has waited long enough                           *)
(*                                                                         *)
(* Routes and their dependencies are synchronous, so that each needs a     *)
(* pool thread: resource requests, which an injected delay may hold for up *)
(* to 30 seconds, the invalid ones among them, which are found out after   *)
(* their dependencies, the developer's, which take no time, and the two    *)
(* health checks.  What a route does to rules, history or resources is the        *)
(* subject of other modules; here a resource request is one provider call. *)
(* The pool's threads are handed out first come, first served.             *)
(***************************************************************************)
EXTENDS Integers, Sequences, FiniteSets

CONSTANTS
    Request,       \* requests under way at once, each known by its id
    Probe,         \* readiness probes under way at once
    Main,          \* the thread that runs startup
    PoolSize,      \* threads of the pool
    Attempts,      \* settings.startup_retry_attempts
    Service,       \* services with a client
    Resource,      \* services that resource requests are for
    NoService,
    NoId           \* no request id

ASSUME PoolAssumption == PoolSize \in Nat \ {0} /\ Attempts \in Nat

ASSUME ActorAssumption ==
    /\ Request \cap Probe = {}
    /\ Main \notin Request \cup Probe
    /\ NoId \notin Request

ASSUME ServiceAssumption == "s3" \in Service /\ Resource \subseteq Service

VARIABLES
    phase,     \* of Main: "starting", "pausing" between attempts, "serving"
    attempt,   \* number of the startup attempt, 0 after the last
    queue,     \* requests waiting for a pool thread
    kind, pc,  \* what each request is and where it is
    outer,     \* request_id_ctx in each request's server task
    inner,     \* request_id_ctx in the task, and thread, that runs the route
    owner,     \* the request that waits for each probe, or NoId
    built, stage, svc,   \* the client cache
    warm,      \* history variable: startup left an S3 client in the cache
    out        \* what the last step answered, and whose ids it told

Actor == Request \cup Probe \cup {Main}

cacheVars == <<built, stage, svc>>

Cache == INSTANCE ClientCache

serverVars == <<phase, attempt, warm>>
requestVars == <<queue, kind, pc, outer, inner>>
vars == <<serverVars, requestVars, owner, cacheVars, out>>

\* An invalid request is one for a resource whose parameters or body do not
\* fit its model.
Kind == {"resource", "invalid", "health", "readiness", "dev"}

\* Whose id is told to request r.
Whose(id, r) == CASE id = r -> "own" [] id = NoId -> "none" [] OTHER -> "other"

Answer(r, status, header, body, record) ==
    [ status |-> status, header |-> Whose(header, r), body |-> Whose(body, r),
      record |-> Whose(record, r) ]

Nothing == [status |-> "none", header |-> "none", body |-> "none", record |-> "none"]

Init ==
    /\ phase = "starting"
    /\ attempt = 1
    /\ queue = <<>>
    /\ kind = [r \in Request |-> "none"]
    /\ pc = [r \in Request |-> "idle"]
    /\ outer = [r \in Request |-> NoId]
    /\ inner = [r \in Request |-> NoId]
    /\ owner = [p \in Probe |-> NoId]
    /\ Cache!CacheInit
    /\ warm = FALSE
    /\ out = Nothing

----------------------------------------------------------------------------
(* Startup: _verify_provider_connectivity.                                  *)

Attempt ==
    /\ phase = "starting"
    /\ attempt <= Attempts
    /\ Cache!Enter(Main, "s3")
    /\ out' = Nothing
    /\ UNCHANGED <<serverVars, requestVars, owner>>

StartServing ==
    /\ phase' = "serving"
    /\ attempt' = 0      \* the loop is left
    /\ warm' = (built["s3"] > 0)

\* Mutant of AttemptFails: the attempts are not counted.
AttemptFailsUncounted ==
    /\ phase' = "pausing"
    /\ UNCHANGED <<attempt, warm>>

\* The pause follows the last failure too.
AttemptFails ==
    /\ phase' = "pausing"
    /\ attempt' = attempt + 1
    /\ UNCHANGED warm

Resume ==
    /\ phase = "pausing"
    /\ phase' = "starting"
    /\ out' = Nothing
    /\ UNCHANGED <<attempt, warm, requestVars, owner, cacheVars>>

\* Out of attempts: the server starts anyway.
GiveUp ==
    /\ phase = "starting"
    /\ stage[Main] = "out"
    /\ attempt > Attempts
    /\ StartServing
    /\ out' = Nothing
    /\ UNCHANGED <<requestVars, owner, cacheVars>>

----------------------------------------------------------------------------
(* The middleware and the exception handlers.                               *)

\* Of what each request waits for a thread: get_provider and the service's
\* factory are synchronous too, and take a thread each before the route does.
Waiting == {"provider?", "service?", "route?"}

FirstWait(k) == IF k = "dev" THEN "route?" ELSE "provider?"

\* RequestIDMiddleware: the id is set for the server's task, and the task
\* that call_next starts takes a copy of the context.
Arrive(r, k) ==
    /\ phase = "serving"
    /\ pc[r] = "idle"
    /\ k = "readiness" =>
           Cardinality({q \in Request : kind[q] = k /\ pc[q] \in Waiting})
               < Cardinality({p \in Probe : stage[p] = "out"})
    /\ kind' = [kind EXCEPT ![r] = k]
    /\ pc' = [pc EXCEPT ![r] = FirstWait(k)]
    /\ queue' = Append(queue, r)
    /\ outer' = [outer EXCEPT ![r] = r]
    /\ inner' = [inner EXCEPT ![r] = r]
    /\ out' = Nothing
    /\ UNCHANGED <<serverVars, owner, cacheVars>>

\* An answer without a thread: a body that is no JSON, or whatever is invalid
\* on a route without dependencies, gets an error body of the application's
\* (422), a path nobody serves does not (404), and a browser's preflight is
\* answered by the CORS layer, outside the middleware.
AnswerAtOnce(r) ==
    /\ phase = "serving"
    /\ pc[r] = "idle"
    /\ \E answer \in {<<"invalid", r, r>>, <<"unknown", r, NoId>>, <<"preflight", NoId, NoId>>} :
           out' = Answer(r, answer[1], answer[2], answer[3], NoId)
    /\ UNCHANGED <<serverVars, requestVars, owner, cacheVars>>

\* Mutant of ErrorBody: the handler runs outside the middleware.
ErrorBodyOutside(r, status) == IF status = "ok" THEN NoId ELSE outer'[r]

\* What the handlers write as requestId.  Those for AppError and for invalid
\* requests run in the route's task; the one for Exception after the
\* middleware has let go.
ErrorBody(r, status) ==
    CASE status = "ok"                   -> NoId
      [] status \in {"error", "invalid"} -> inner[r]
      [] status = "bug"                  -> outer'[r]

\* The request leaves its thread.  The middleware resets the context
\* whatever happens, but an exception no handler inside it knows also skips
\* the response header and the access log.
Respond(r, status, record) ==
    /\ pc' = [pc EXCEPT ![r] = "idle"]
    /\ outer' = [outer EXCEPT ![r] = NoId]
    /\ inner' = [inner EXCEPT ![r] = NoId]
    /\ LET header == IF status = "bug" THEN NoId ELSE outer[r]
       IN  out' = Answer(r, status, header, ErrorBody(r, status), record)
    /\ kind' = [kind EXCEPT ![r] = "none"]
    /\ UNCHANGED queue

----------------------------------------------------------------------------
(* Pool threads.                                                            *)

Holders == {r \in Request : pc[r] \notin Waiting \cup {"idle", "unfit"}}

\* The place a request of each kind has in its thread first.
FirstPlace(k) ==
    CASE k = "resource"  -> "apply"
      [] k = "health"    -> "provider"
      [] k = "readiness" -> "probing"
      [] k = "dev"       -> "route"

\* A probe gets an executor, and so a thread, of its own.
Submit(r, p) ==
    /\ Cache!Enter(p, "s3")
    /\ owner' = [owner EXCEPT ![p] = r]

\* Where a request goes from a dependency: FastAPI looks at the request's own
\* parameters when it has what the route depends on.
AfterDependency(r) ==
    CASE pc[r] = "provider?" /\ kind[r] \in {"resource", "invalid"} -> "service?"
      [] pc[r] = "service?" /\ kind[r] = "invalid"                  -> "unfit"
      [] OTHER                                                      -> "route?"

\* A dependency takes a thread, for no time, and the request waits again.
Depend(r) ==
    /\ queue # <<>> /\ r = Head(queue)
    /\ Cardinality(Holders) < PoolSize
    /\ pc[r] # "route?"
    /\ pc' = [pc EXCEPT ![r] = AfterDependency(r)]
    /\ queue' = IF pc'[r] = "unfit" THEN Tail(queue) ELSE Append(Tail(queue), r)
    /\ out' = Nothing
    /\ UNCHANGED <<serverVars, kind, outer, inner, owner, cacheVars>>

\* The route is not called: 422, from the server's own thread.
Refuse(r) ==
    /\ pc[r] = "unfit"
    /\ Respond(r, "invalid", NoId)
    /\ UNCHANGED <<serverVars, owner, cacheVars>>

Start(r) ==
    /\ queue # <<>> /\ r = Head(queue)
    /\ Cardinality(Holders) < PoolSize
    /\ pc[r] = "route?"
    /\ queue' = Tail(queue)
    /\ pc' = [pc EXCEPT ![r] = FirstPlace(kind[r])]
    /\ CASE kind[r] = "health"    -> Cache!Enter(r, "s3") /\ UNCHANGED owner
         [] kind[r] = "readiness" -> \E p \in Probe : Submit(r, p)
         [] OTHER                 -> UNCHANGED <<owner, cacheVars>>
    /\ out' = Nothing
    /\ UNCHANGED <<serverVars, kind, outer, inner>>

\* failure_injector.apply, after the delay if a rule asks for one, lets the
\* call pass ...
Pass(r) ==
    /\ pc[r] = "apply"
    /\ pc' = [pc EXCEPT ![r] = "provider"]
    /\ \E s \in Resource : Cache!Enter(r, s)
    /\ out' = Nothing
    /\ UNCHANGED <<serverVars, queue, kind, outer, inner, owner>>

\* ... or raises an AppError, which _call records.
Raise(r) ==
    /\ pc[r] = "apply"
    /\ Respond(r, "error", inner[r])
    /\ UNCHANGED <<serverVars, owner, cacheVars>>

\* A route of the developer's: done, or 404.
AnswerDev(r) ==
    /\ pc[r] = "route"
    /\ \E status \in {"ok", "error"} : Respond(r, status, NoId)
    /\ UNCHANGED <<serverVars, owner, cacheVars>>

----------------------------------------------------------------------------
(* Provider calls, of whichever thread.                                     *)

Build(a) ==
    /\ Cache!Store(a)
    /\ out' = Nothing
    /\ UNCHANGED <<serverVars, requestVars, owner>>

MainEnds(result) ==
    /\ IF result = "ok" THEN StartServing ELSE AttemptFails
    /\ out' = Nothing
    /\ UNCHANGED <<requestVars, owner>>

\* Whatever the probe ended with, its request answers 200.
ProbeEnds(p) ==
    /\ owner' = [owner EXCEPT ![p] = NoId]
    /\ IF owner[p] \in Request
       THEN Respond(owner[p], "ok", NoId)
       ELSE out' = Nothing /\ UNCHANGED requestVars
    /\ UNCHANGED serverVars

\* /health turns every exception into an AppError and records nothing; _call
\* records what it can translate and passes on the rest.
RouteEnds(r, result) ==
    /\ \/ result = "ok" /\ Respond(r, "ok", IF kind[r] = "resource" THEN inner[r] ELSE NoId)
       \/ result # "ok" /\ kind[r] = "health" /\ Respond(r, "error", NoId)
       \/ result = "refused" /\ kind[r] = "resource" /\ Respond(r, "error", inner[r])
       \/ result = "bug" /\ kind[r] = "resource" /\ Respond(r, "bug", NoId)
    /\ UNCHANGED <<serverVars, owner>>

\* The call ends, with an answer, an exception of boto3 ("refused", the
\* socket's giving up included) or another; building a client with the last.
CallEnds(a) ==
    /\ Cache!Leave(a)
    /\ \E result \in IF stage[a] = "build" THEN {"bug"} ELSE {"ok", "refused", "bug"} :
           \/ a = Main /\ MainEnds(result)
           \/ a \in Probe /\ ProbeEnds(a)
           \/ a \in Request /\ RouteEnds(a, result)

\* Mutant of Abandon: the executor is shut down with wait=True.
AbandonJoined(r, p) ==
    /\ pc[r] = "probing" /\ owner[p] = r /\ stage[p] = "out"
    /\ owner' = [owner EXCEPT ![p] = NoId]
    /\ Respond(r, "ok", NoId)
    /\ UNCHANGED <<serverVars, cacheVars>>

\* future.result(timeout=10) gives up; the probe's thread lives on.
Abandon(r, p) ==
    /\ pc[r] = "probing" /\ owner[p] = r
    /\ owner' = [owner EXCEPT ![p] = NoId]
    /\ Respond(r, "ok", NoId)
    /\ UNCHANGED <<serverVars, cacheVars>>

----------------------------------------------------------------------------

Startup == Attempt \/ Resume \/ GiveUp

Work(r) == Refuse(r) \/ Pass(r) \/ Raise(r) \/ AnswerDev(r) \/ \E p \in Probe : Abandon(r, p)

Next ==
    \/ Startup
    \/ \E r \in Request :
           \/ \E k \in Kind : Arrive(r, k)
           \/ AnswerAtOnce(r)
           \/ Depend(r)
           \/ Start(r)
           \/ Work(r)
    \/ \E a \in Actor : Build(a) \/ CallEnds(a)

Spec == Init /\ [][Next]_vars

\* Threads run and sleeps and waits are bounded; nothing is said of the
\* provider, whose answer may never come, nor of anybody's asking.
FairSpec ==
    /\ Spec
    /\ WF_vars(Startup)
    /\ \A r \in Request : WF_vars(Depend(r) \/ Start(r)) /\ WF_vars(Work(r))
    /\ \A a \in Actor : WF_vars(Build(a))

----------------------------------------------------------------------------

TypeOK ==
    /\ phase \in {"starting", "pausing", "serving"}
    /\ attempt \in 0 .. Attempts + 1
    /\ queue \in Seq(Request)
    /\ kind \in [Request -> Kind \cup {"none"}]
    /\ pc \in [Request -> Waiting \cup {"idle", "unfit", "apply", "provider", "probing", "route"}]
    /\ outer \in [Request -> Request \cup {NoId}]
    /\ inner \in [Request -> Request \cup {NoId}]
    /\ owner \in [Probe -> Request \cup {NoId}]
    /\ Cache!CacheTypeOK
    /\ warm \in BOOLEAN

\* The threads that race for a client are bounded by the pool, for S3 they
\* do not race at all: startup asks for that client before there are
\* requests, so that nobody builds another unless startup could build none
\* (main.py:77, localstack_provider.py:38).
ClientsBounded ==
    /\ \A s \in Service \ {"s3"} : built[s] <= PoolSize
    /\ warm => built["s3"] = 1

\* Of all the layers an answer passes, the request's own id reaches its
\* header, the error body and the record of its provider call; an exception
\* nobody foresaw leaves no record either (main.py:124-165, base.py:47).
IdsTold ==
    /\ out.status \notin {"none", "bug", "preflight"} => out.header = "own"
    /\ out.status \in {"error", "invalid"} => out.body = "own"
    /\ out.status = "bug" => out.record = "none"
    /\ out.record # "other"

\* Provider calls come to an end: botocore gives up on a socket.  Nothing is
\* asked of the probes' calls.
CallsEnd == \A a \in Request \cup {Main} : []<>(stage[a] # "call")

\* If provider calls come to an end, in whatever way, the server starts and
\* every request gets a pool thread and an answer, however many slow calls
\* and health checks compete for the threads: in particular the one that
\* removes the rule that slows the calls (failure_injection.py:171).
RequestAnswered ==
    CallsEnd =>
        /\ []<>(phase = "serving")
        /\ \A r \in Request : []<>(pc[r] = "idle")

\* A readiness check that has its thread answers although the provider never
\* does (routes_health.py:73).
ReadinessBounded ==
    \A r \in Request : []<>(pc[r] # "probing")

=============================================================================
