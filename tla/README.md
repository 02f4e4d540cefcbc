# CloudLab API: a TLA+ verification project

CloudLab API is a small HTTP service in front of AWS (or an emulator of it):
S3 buckets, SQS queues and DynamoDB tables behind one JSON API, with two
things a plain proxy does not have, an *operation history* of every provider
call and a *failure injector* that makes those calls slow or fail on demand.
This directory models the parts of it whose behaviour depends on what other
threads, other clients or the provider do at the same time.

Paths are relative to the repository (`app/...` is `src/app/...` in
`PROJECT.json`).

## 1. The system

| Component | State it keeps | Operations | Hard behaviour |
|---|---|---|---|
| Failure injector, `app/core/failure_injection.py`, dev routes | dict of rules, id counter, one lock | add, delete, clear, list rules; `apply()` before every provider call | `apply()` works on a snapshot taken under the lock, rolls dice, re-takes the lock per rule, sleeps; rules change meanwhile |
| Operation recorder, `app/core/operations.py`, operations routes | ring buffer, id counter, totals, per-operation totals, one lock | record, clear, list_recent, get, metrics | eviction at the limit, clears between records, tallies that outlive eviction |
| Provider call, `app/services/base.py` | locals of a request thread | `_call(operation, fn)` | injector, provider and recorder in order, three ways to end, many threads |
| Error model, `app/core/errors.py` and the table in `failure_injection.py` | none | `translate_boto_error` | codes it does not know, exceptions that are not boto3's, one code for several reasons |
| S3 service, `app/services/s3_service.py`, `pagination.py` | none (a position in the cursor) | list, create, delete, get bucket | every page re-reads a set that changes; several calls per operation |
| SQS service, `app/services/sqs_service.py` | none | queue and message operations | two or three provider calls per operation, each may fail, others act in between; deleted queues linger; one listing call whose token is not followed |
| DynamoDB service, `app/services/dynamodb_service.py` | none (a key in the cursor) | table and item operations | create then describe, list then describe each, tables visible before they are ready and after they are deleted, paging over an eventually consistent Scan, number conversion |
| Providers, `app/providers/` | one client per service, cached | `get_client` | check-then-act on a dict shared by threads |
| Application, `app/main.py` | request id context variable, the server's pool of threads | middleware, exception handlers, startup probe | which layer answers an exception, retries at startup, slow requests that hold threads |
| Health, `app/api/routes_health.py` | none | liveness, readiness | a bounded wait on a thread that is abandoned |
| CLI, `cli/cloudctl/` | none | HTTP requests, compose commands | timeouts shorter than an injected delay, requests carried out after their command gave up, an API that restarts |

Request handlers and their dependencies are synchronous, so the server runs
each in a thread of its pool, first come, first served. A resource request makes one or more `_call`s; each asks the injector
(shared), runs the boto3 function (external) and tells the recorder (shared).
The dev and operations routes change those two shared objects at any time.

## 2. Modules

| Module | Models | State and actions against the code |
|---|---|---|
| `FailureInjector` | `failure_injection.py`, `routes_dev.py` | `registry` is `_rules`, `nextId` is `_ids`; `heap` holds the rule objects, because a snapshot keeps a deleted one alive. One action per lock region: `ApplyBegin` is the snapshot, `ApplyMiss`/`ApplyStale`/`ApplyHit` one turn of the loop, `ApplyWake` the end of the sleep. |
| `OperationRecorder` | `operations.py`, `routes_operations.py` | Each method is one lock region, hence one action. `log` and `base` are history variables: everything recorded, and where the last `clear()` fell. `ListRecent` and `Get` are the reads. |
| `ErrorModel` | `errors.py`, `_FAILURE_ERRORS` | The two tables, row by row, `Translate`, and `ErrorOf`, what `_call` raises for a failure of either kind. |
| `CallLedger` | what `_call` promises | Abstract: calls begin, are sent at most once, end at most once. |
| `ProviderCall` | `base.py` | Composes instances of `FailureInjector` and `OperationRecorder` over shared variables; `stage` is the thread's place in `_call`. `sent`, `lost` and `blame` are history variables. Implements `CallLedger`. |
| `ResourceDirectory` | what a service promises | Abstract: resources come and go only by requests under way; a request takes effect at most once, before its answer. |
| `ServiceRequests` | what the three services share | `pc` is the provider call a request makes next; a call may fail before or after its effect, with the code `ErrorModel` has for the failure. `present` is what the provider holds, `coming` what of it is not ready yet, `leaving` what is deleted and may still be found. `AskForNames`, `DescribeNext` and `ListDone` are the listing of queues and of tables. `more`, `done`, `fault`, `always` and `ever` are history variables. |
| `QueueService` | `sqs_service.py` | One action per provider call: `GetQueueUrl` leads to what the request is for, `ListQueues`, one call for `ListLimit` URLs at most, to one `DescribeNext` per queue. |
| `BucketService` | `s3_service.py` | `Look` is HeadBucket and GetBucketLocation, `GetBucketTagging` the call whose errors `TaggingFailed` looks at, all of them: `MeansNoTags` is the test of the code. |
| `TableService` | `dynamodb_service.py`, tables | As the queues. A table is in `coming` until `Activate` and in `leaving` until `Vanish`: it may be described and may be missed, has no items to work on, and cannot be created (`InUse`). |
| `BucketPaging` | `list_buckets`, `create_bucket`, `delete_bucket`, cursors | `offset` is what the cursor encodes; `Page` is sort-and-slice, by rank. |
| `ScanPaging` | `list_items`, its cursor | `after` is the key the cursor encodes; a page is what Scan finds behind it. `lagging` are the keys written so lately that Scan may not know (`View`). |
| `ItemNumbers` | `_to_dynamo_compatible`, `_from_dynamo_value` | Operators only: a number is coefficient and exponent; the two decimal contexts and the way back to int or float. |
| `ItemListing` | `put_item`, `delete_item`, `list_items` | `ScanPaging` with values: a page is converted number by number and answered whole or not at all. `older` is what Scan may find of an item instead of what is there (`Versions`). |
| `ClientCache` | `get_client` of both providers | `stage` is a thread's place between the check of the dict and the end of the call it made with the client; `built` counts the stores. Has no specification of its own: `ApiServer` uses its actions. |
| `ApiServer` | `main.py`, `routes_health.py`, `deps.py` | `phase` and `attempt` are the startup loop, `pc` a request's place, `Waiting` the threads it still has to get; `unfit` is an invalid request that got its service first. `outer` and `inner` are the context variable in the server's task and in the copy that runs the route. `owner` is the request a probe's thread still has. `out` is what the last step answered. |
| `Cloudctl` | `client.py`, the commands over HTTP, `routes_dev.py` as they see it | `ran` is a log of commands: what became of the request (`served`) and what the shell was told (`exit`). `Serve*` are the API's steps, `Receive`, `ReceivePart` and `GiveUp` the client's, `Restart` anything that ends the process. |
| `*Proofs` | | The theorems about the module of that name. `ServiceProofs` is about the three service modules and what they share, `ItemListingProofs` also about `ScanPaging` and `ItemNumbers`. |
| `MC*` | | Constants for TLC. |

`ProviderCall` is one provider call in detail, whatever it is for; the service
modules are sequences of such calls, of which they keep the outcome only. An
injected failure and a provider that refuses are the same there: the call
fails before it had an effect (`CallFails`). A lost answer is a failure after
the effect (`Raise` beside `Effect`). Failures are members of `Fault`, each of
which is an injected failure or an exception of boto3 for any reason but the
data; its code is looked up in the tables of the code (`ErrorOf`), never
assumed.

A provider call here is what `fn()` asks of boto3, once. Below it botocore
sends a request again by itself when the connection or the service fails (its
default, which neither provider configures). A repeated create or delete whose
first answer was lost may then meet its own effect: the call ends in "already
exists" or "not found" although it took effect. The directory has such an
outcome (an effect, then a failure), and so have the models, but with the code
of the failure; that the code may be one of these two is not modelled. What
each answer means to the client is the same: "not found" after one's own
delete is true.

S3's buckets appear and go at once. Queues appear at once; after DeleteQueue
calls may find them for a while, and CreateQueue is refused with
QueueDeletedRecently. That SQS asks clients to wait a second before they use a
new queue is left out. Tables are created and deleted in the background. An
emulator may do without these delays, which is the case where `Activate` and
`Vanish` follow at once.

`ApiServer` in turn keeps of a provider call only that it takes a thread, may
be held up and ends in one of three ways, and `Cloudctl` keeps of the server
only that a request waits for as long as it likes and is then carried out once,
or goes with its process. What `Cloudctl` says of rules and numbers is the dev
side of `FailureInjector` with restarts added.

Operators named as mutants (`Mutant of X` in their comment) are plausible
bugs in the definition that follows them. They are used by no specification;
putting one in place of its original makes the property it is listed with in
`PROJECT.json` fail, which shows that the property can.

## 3. What is checked

| Run | Shows | Bounds |
|---|---|---|
| `injector` | First match wins, no call slips past a rule in force, hits land on registered rules | 2 threads, 3 rules ever, 3 calls, 2 operations |
| `recorder` | History, metrics, ids and pages agree with the log of everything recorded | buffer of 2, 5 records, any clears |
| `provider_call` | Each finished call leaves exactly one record, which tells what happened; hit counts add up; `_call` implements `CallLedger`, keeps injector and recorder within their specifications, and ends | 2 threads, 2 rules, 2 calls, buffer of 1 |
| `bucket_paging` | What a walk can miss is bounded by the deletes during it, what it repeats by the creates, and it ends | 5 names, pages of 1 or 2, 2 creates and 2 deletes per walk |
| `queues` | Answers are true of the time the request ran; a listing is right as far as one ListQueues answer reaches; `SqsService` implements `ResourceDirectory`; every request is answered | 2 clients, 2 queues, 1 per ListQueues answer, 1 failure |
| `buckets` | `S3Service` implements `ResourceDirectory`; "not found" is true; no failure is taken for a bucket without tags | 2 clients, 3 buckets, tags changed by others, every failure of the injector and two of AWS |
| `only_no_such_tag_set` | *violation*: see findings | as `buckets` |
| `tables` | `DynamoDbService` implements `ResourceDirectory`; answers are true; listings that fit one answer show every lasting table; all of it with tables that are being created or deleted | 2 clients, 2 tables, 2 per ListTables answer, 1 failure |
| `items` | A walk by key misses nothing lasting, repeats nothing, shows what was put, and ends once every number can be shown; it implements `ScanPaging` | 3 keys, pages of 1 or 2, 6 numbers around both contexts, one older version at a time |
| `put_is_listable` | *violation*: see findings | as `items` |
| `api_server` | The request's own id reaches header, error body and record, invalid requests included; clients built are bounded by the threads, and S3's is built once; if provider calls end, the server starts and every request is answered; readiness answers even if they do not | 3 requests, 2 pool threads, 1 probe, 2 startup attempts, clients for S3 and SQS |
| `cloudctl` | Exit codes tell what happened to the request; after a clear only the request of a command that ended in a traceback can come back; a delete removes the rule it was meant for, unless the API was restarted | 4 commands, 2 at a time, one of them a reading one; any number of restarts |

Every module states a type invariant. A run lists it where it bounds more than
types (clamped rules, the ring buffer); elsewhere it is there for the proofs,
and adding it to the module's configuration is enough to check it.

Why the bounds are enough. *Injector*: two threads give every interleaving of
two snapshots with each other and with the dev API; three rules allow a rule
older than, equal to and newer than the one that applied, and a rule built
after a clear; the third call lets a thread come back. Rules come in the four
kinds `apply()` tells apart (delay and pass, fail at once, may miss, never
meant to fire), one with a delay out of range, as a caller of `add_rule` (not
of the HTTP route, whose model bounds it) may pass. Probabilities are
quarters, so that a roll can be below, equal to and above one. *Recorder*: a
buffer of two and five records evict more than once after a clear at any
place. *Provider call*: a buffer of one evicts at every call. *Bucket paging*:
five names and pages of one or two leave room for a change before, inside and
behind the page. *Services*: requests do not touch each other but through the
provider, and what one request can see of the others is that a name appears or
disappears between two of its calls, which one other client can do any number
of times. A listing needs a name that goes and one that stays, which the tables
have, and a name beyond the answer, which the queues have with one name to an
answer; what the two listings do is one set of definitions (`AskForNames`,
`DescribeNext`, `ListDone` of `ServiceRequests`), and the theorems are about
any number of names and any limit. A failure differs from another in its code
only, which matters where a service looks at it: the buckets have them all,
the others one. *Items*: three keys put a change
before, at and behind the cursor; one older version at a time lets Scan find an
item that was deleted, miss one that was put, and find what an item was before,
each page anew. The numbers are one that has a fraction, one written with a
fraction that is whole, the first that fits the wire context only, and three
that fit neither: too many digits, too large, too small. The contexts are cut
from 38 and 28 digits to 3 and 2, and the wire's smallest power of ten from
-165 to -1: only their order matters.

*API server*: three requests over two threads leave one waiting behind two
that are held up, of every mix of kinds; one probe, once abandoned, is the
thread that lives on while another request asks. A readiness request waits to
come in until a probe is free, which is the bound of the model and not of the
code: there every request gets an executor of its own. One other service than
S3 has a client that no startup has built. *Cloudctl*: a number can be given
away twice with a rule added, removed, added and deleted, which is four
commands; a request outlives its command, so that with two terminals all four
requests may be under way at once. The theorems hold without these bounds.

Bounds that are no part of the code are constants: `MaxRules`, `MaxCalls`,
`MaxRecords`, `MaxChanges`, `LagLimit`, `Terminals`, `MaxCommands`, `MaxReads`,
and in `ApiServer` the sets `Request` and `Probe`. `ListLimit` stands for the
provider's 1000 URLs and 100 table names. Deadlock is checked in every run:
rules and history can always be cleared and requests can always be made, so
that a state without a successor would be a mistake, used-up bounds or not.

Fairness. Weak fairness of a thread's or a request's own steps, never of a
request coming in: nobody has to add rules, delete buckets or call anything. A
thread inside `apply()` holds the lock for a few dict operations and sleeps 30
seconds at most; the provider answers or botocore gives up on the socket. The
fairness of `QueueService` is of `Step`, which leaves `CallFails` out: no
failure is needed for a request to end. A client that started paging goes on
while it is handed a next cursor; `ListingEnds` of `ItemListing` only claims
that the walk ends if the table comes to hold nothing but numbers that can be
shown, because one that cannot stops it for good. `ApiServer` is fair to the
startup loop, to threads that can be handed out and to work inside a thread,
sleeps and the ten seconds of the readiness probe included; it is not fair to
the provider. `RequestAnswered` therefore has a premise, `CallsEnd`: a
provider call ends at some time, in whatever way, which botocore's socket
timeouts and bounded retries see to. `ReadinessBounded` goes without it.
`Cloudctl` claims no liveness: that a command ends within its ten seconds per
request is `urlopen`'s promise.

What two of the properties do not say. `ComponentsImplemented` is close to
construction: most steps of `ProviderCall` are steps of a component by
definition, and what could fail is that a step of one leaves the other alone
and that the way out of `_call` takes the injector along. `IdsTold` leaves out
header and body of the answer to an unhandled exception, which have no id in
the code (section 5), and claims of that answer only that nobody's id is in
the history for it.

## 4. What is proved

TLAPS proves, for all values of the constants:

* `FailureInjectorProofs`: the type invariant; `CertainRuleNotOvertaken`;
  `NoEscape`; `HitOnlyWhileRegistered`. The inductive invariant adds to the
  types that a heap rule's id is its place in the heap (`IdsArePlaces`), that a
  thread's locals fit where it is (`LocalsMatchPc`), and that no certain,
  matching, registered rule of a thread's snapshot has been passed over
  (`NotPassedOver`). That ids are places is what makes the second lock region's
  check `rule.id in self._rules` mean "this rule", across clears.
* `OperationRecorderProofs`: the type invariant; `HistoryIsRecentLog`;
  `MetricsExact`; `IdsNameOneRecord`. The invariant adds that an operation's
  id is its position in the log (`IdsArePositions`).
* `BucketPagingProofs`: `SkipsBoundedByDeletes` and `RepeatsBoundedByCreates`.
  The invariants relate the cursor's position to the buckets shown and not
  shown below and above it: every lasting bucket missed so far lies below the
  position and pays for itself with a delete (`MissedInv`), every shown bucket
  above it with a create (`AheadInv`).
* `ItemListingProofs`: of `ScanPaging`, `NothingMissed` and `NothingRepeated`.
  The key in the cursor cuts the keys in two: nothing beyond it has been shown
  (`ShownBehind`), everything lasting up to it has (`BehindShown`). Set beside
  `BucketPagingProofs` this is the difference between the two cursors: a
  position shifts under changes, a key does not. Neither needs two pages to be
  read from the same state of the table: what a page can miss or show too much
  is what was written lately, which is never among the lasting. Of `ItemListing`,
  `WalkImplemented`, that it implements `ScanPaging` (what Scan finds of the
  values is a view of the keys, `ScanIsView`), and with it that a
  listing with conversions and failing pages misses and repeats nothing; and
  `ListedAsPut`. The last is arithmetic: a number that `value % 1` calls whole
  is a multiple of one (`WholeIsMultiple`), so that `int()` drops nothing. The
  powers of ten it speaks of are a recursive function, and what they satisfy
  (`PowerOfTenDefined`, `PowerOfTenSum`) is proved by induction: `SetInduction`
  derives induction for sets of numbers from the fact that `<` is well founded.
* `ProviderCallProofs`: `ComponentsImplemented`, `RecordedOnce`,
  `InjectionIsWhatHappened`, `HitsAccounted` and `LedgerImplemented`. It takes
  the inductive invariants of the injector and of the recorder as they stand
  in their own proofs, because every behaviour of `ProviderCall` is one of
  each of them. `CallInv` ties the two to the calls: where a thread is in
  `_call` agrees with where the injector left it (`Stages`), no two threads
  work on one call (`Tickets`), what a thread holds in its locals was decided
  by the rule that applied to its call (`Decided`), a call has a record exactly
  if it is over and was not lost, and then one (`Filed`), and a record says of
  its call what that rule made of it (`Truthful`), also after the rule is gone
  and the history cleared. The invariant is about the whole log, since the
  buffer alone cannot tell that an evicted record was ever made.
* `ServiceProofs`: for each of `QueueService`, `BucketService` and
  `TableService` the type invariant, `NotFoundHonest` and
  `DirectoryImplemented`; `ListHonestWithinLimit` of queues and tables; and
  `FaultsSurface` of the buckets. What the services share is proved
  once: `Call` says what one provider call may do to a request, `CallKeepsCommon`
  that it leaves every answer true, `CallImplemented` that it is a step of the
  directory or none. Of each service it is left to prove that its steps are
  such calls. That needs to know where a request is: `Phase` ties the call it
  is about to make to its kind and to whether it took effect already (so that
  no retry or later call takes effect again), `Watched` says that what was
  there and ready all the time is so now and what is found now was around at
  some time, `Progress` accounts for the resources a listing has and has not
  described. Other clients' steps change what a request watches and nothing
  else, and so do the provider's own (`StagesKeepCommon`). That get_bucket's
  last call hands on every failure rests on the two error tables:
  `FaultCodes` goes through both, row by row, and finds the code that the
  except clause drops in neither, for any failure of the injector and any
  error of AWS that is about no resource (`TroubleCode`); `TaggingEnds` puts
  that through the test of the code. `NoTagsIsNotFound` is the other half: what
  a bucket without tags answers does have that code.
* `ApiServerProofs`: the type invariant, `IdsTold` and `ClientsBounded`. `Base`
  says who can be inside a provider call (`Places`), that a request under way
  carries its own id in both copies of the context variable (`OwnIds`), that
  nobody but the startup loop runs before the server serves (`Quiet`), and
  that who is queued waits, and is queued once (`Queued`). `Bounded` counts the
  threads that found no client and have not stored theirs yet together with
  the clients stored: each of the first holds a thread of the pool, and a
  thread only starts to build while none is stored. `OneClient` says that a
  client of S3 stored at startup rules all of this out.
* `CloudctlProofs`: `ExitTruthful`, `ClearLeavesOnlyLate` and
  `DeleteHitsWhatWasMeant`, for any number of terminals and commands. The
  invariant adds that the numbers one process gives away are distinct
  (`NumbersDistinct`), that every rule in force is that of an inject of the
  present process (`RulesAreCurrent`), that a delete has the number of the
  inject it means (`DeletesMeanRules`), and that a clear stays in effect from
  the moment it is carried out, answered or not (`ClearedStaysClear`): a
  command that was over then, and not by a traceback, has no request left that
  could add a rule (`CommandsWellFormed`, `BeforeIsOver`). `QuietStep` covers
  all steps that leave the rules alone, `Removes` those that only take some
  away.

Assumptions are the named `ASSUME`s of the modules: bounds are naturals, the
buffer holds at least one record, page sizes are positive, names are a finite
set of numbers where they are sorted, failures are injected ones, errors of AWS about
no resource, or boto3's own; a listing answer holds at least one name.

Only model-checked: liveness (`EveryCallEnds`, both `RequestAnswered`,
`ReadinessBounded`, both `ListingEnds`), which is beyond the prover. Every
invariant, action property and refinement of section 3 is proved.

## 5. Findings

* `only_no_such_tag_set`: `_get_bucket_tags` drops every error translated to
  RESOURCE_NOT_FOUND. NoSuchBucket is one, so a bucket deleted between
  HeadBucket and GetBucketTagging is shown as a bucket without tags; the
  comment there says that anything but NoSuchTagSet propagates.
* `put_is_listable`: `value % 1` in `_from_dynamo_value` raises
  `decimal.InvalidOperation` for numbers of 10^28 and more, which `put_item`
  accepts. From then on every listing of the page that holds such an item ends
  in a plain 500, and there is no way past it.

Seen while modelling, most of it in the models, but without a run of its own:

* An older latency rule that matches ends `apply()`, so that a failure rule
  added after it does not make the next call fail, as `cli/README.md` says it
  does (`ApplyHit` and `Outcome` of `FailureInjector`).
* An exception out of `fn()` that is neither an `AppError` nor boto3's leaves
  no record (`Escape` of `ProviderCall`), although the README calls the history
  a recording of every resource call. Nor does the answer carry an
  `x-request-id` header or a request id in its body: the handler of unhandled
  exceptions runs outside the middleware, whose docstring says that it echoes
  the id back (`Respond` and `ErrorBody` of `ApiServer`). The answer to a
  browser's preflight has no such header either.
* Waiting for an answer ends in `TimeoutError` or `RemoteDisconnected`, which
  `urllib` does not wrap in `URLError`: the command ends in a traceback, which
  the docstring of `CloudctlAPIError` says it does not. An injected delay of
  more than ten seconds is enough. Its request is carried out all the same
  (`GiveUp` of `Cloudctl`).
* A restarted API numbers rules from 1 again, so that a number written down
  before deletes another rule after (`DeleteHitsWhatWasMeant` says so).
* The ten seconds of the readiness probe count from when the request has its
  pool thread; while slow calls hold all of them it waits for longer, which
  the docstring rules out (`ReadinessBounded` is about requests with a thread).
* A 404 for a path nobody serves has the framework's `{"detail"}` body, while
  the comment in `validation_error_handler` speaks of one shape for every
  error.
* `scripts/seed.sh` appends `|| true` to every create to tolerate "already
  exists", and tolerates injected failures and a stopped API with it: `seed`
  and `up` exit with 0 and nothing is created.
* `random.random() > rule.probability` lets a roll of exactly 0.0 through, so a
  rule of probability 0.0 can fire, once in 2^53 rolls, against the name of
  `test_probability_zero_never_fires` in `tests/test_failure_injection.py`.
* `list_tables` makes one ListTables call, which holds 100 names at most, and
  `list_queues` one ListQueues call, which holds 1000 URLs at most; neither
  follows the token nor hands over a cursor, and what did not fit is left out
  in silence. For queues a comment in `app/api/routes_sqs.py:21-25` calls this
  a limitation; it also says that S3 and DynamoDB listings do paginate.
  `ListHonestWithinLimit` says how far the listings are right.
* "Already exists" may be said of a table that is being deleted and will not
  exist, and "not found" of one that `get_table` just showed: `ResourceInUseException`
  has one code for several reasons (`app/core/errors.py:100-102`), and items of
  a table still being created are not there to work on. `NotFoundHonest` counts
  a table as there when it is there and ready.

## 6. Not modelled, and the plan

What is left is proof, in this order:

1. The safety part of the liveness properties: every step of a request's own
   brings it nearer to its answer, and no step of another takes it back, by a
   measure on its place and on what a listing has left (`RequestAnswered` of the
   services), on the walk of `apply()` (`EveryCallEnds`) and on the keys beyond
   the cursor (`ListingEnds`). Of liveness only the fairness argument is then
   left to TLC.
2. A request under way is never stuck: one of its steps has its guards true,
   stated as an invariant.

Left out for good: log formatting, pydantic models (their bounds are the input
sets here), route functions that only forward, shell scripts, deployment files;
`cloudctl status` and `logs` and the commands that run a script, all of which
pass on the exit code of a program; how many abandoned probes there are at
once, which nothing in the code bounds but the pool and how often it is asked;
request ids that a client chooses twice; the emulator itself; the contents of
messages and items but for numbers; a listing's order, other than that of
pages.
