---------------------------- MODULE ServiceProofs ----------------------------
(***************************************************************************)
(* Proofs about the resource services, QueueService, BucketService and     *)
(* TableService, for any clients, names, faults and limit of a listing:    *)
(* what they answer is true of the time the request ran, a fault is always *)
(* told, and each of them implements ResourceDirectory.                    *)
(*                                                                         *)
(* The services differ in the calls they make, and share what a call may   *)
(* do to a request: Call says it once.  Common is what every such call     *)
(* preserves, and Directory what it implements.  What is left to prove of  *)
(* a service is that its steps are calls in this sense, which takes an     *)
(* invariant of its own: Phase ties the call a request is about to make to *)
(* its kind and to whether it took effect, Progress says how far a listing *)
(* has come, and Listed what a finished one shows.                         *)
(***************************************************************************)
EXTENDS TableService, TLAPS

VARIABLES tagged, tags, swallowed     \* those of BucketService

Q == INSTANCE QueueService

B == INSTANCE BucketService

----------------------------------------------------------------------------
(* Failures.                                                                *)

\* The codes of a failure that says nothing about the data.
TroubleAnswer == ErrorCode \ {"RESOURCE_NOT_FOUND", "RESOURCE_ALREADY_EXISTS"}

\* No failure is told as "not found" or "already exists", by the two tables:
\* neither the injector's nor the translation of what a provider in trouble
\* answers has such an entry.
LEMMA FaultCodes ==
    ASSUME NEW exc \in Fault
    PROVE  ErrorOf(exc).code \in TroubleAnswer
<1>1. CASE exc \in [kind : {"injected"}, failure : DOMAIN FailureErrors]
  <2>1. PICK failure \in {"http_500", "http_403", "timeout", "throttle", "connection_failure"} :
           exc = [kind |-> "injected", failure |-> failure]
    BY <1>1 DEF FailureErrors
  <2>2. ErrorOf(exc) = FailureErrors[failure]
    BY <2>1 DEF ErrorOf
  <2>3. FailureErrors[failure].code
           \in {"INTERNAL_ERROR", "ACCESS_DENIED", "PROVIDER_UNAVAILABLE", "THROTTLED"}
    BY <2>1 DEF FailureErrors
  <2> QED
    BY <2>2, <2>3 DEF TroubleAnswer, ErrorCode
<1>2. CASE exc \in [kind : {"client"}, aws : TroubleCode]
  <2>1. exc.kind = "client" /\ exc.aws \in TroubleCode
    BY <1>2
  <2>2. \A row \in ClientErrorMap : exc.aws \in row.aws => row.code \in TroubleAnswer
    BY <2>1 DEF TroubleCode, ClientErrorMap, TroubleAnswer, ErrorCode
  <2>3. ErrorOf(exc) = Translate(exc)
    BY <2>1 DEF ErrorOf
  <2>4. CASE \E row \in ClientErrorMap : exc.aws \in row.aws
    <3> DEFINE hit == CHOOSE r \in ClientErrorMap : exc.aws \in r.aws
    <3>1. hit \in ClientErrorMap /\ exc.aws \in hit.aws
      BY <2>4
    <3>2. Translate(exc).code = hit.code
      BY <2>1, <2>4 DEF Translate
    <3> QED
      BY <2>2, <2>3, <3>1, <3>2
  <2>5. CASE ~\E row \in ClientErrorMap : exc.aws \in row.aws
    BY <2>1, <2>3, <2>5 DEF Translate, TroubleAnswer, ErrorCode
  <2> QED
    BY <2>4, <2>5
<1>3. CASE exc \in [kind : {"connection", "botocore"}]
  BY <1>3 DEF ErrorOf, Translate, TroubleAnswer, ErrorCode
<1> QED
  BY <1>1, <1>2, <1>3, FaultAssumption

\* What an answer is not.
LEMMA Codes ==
    /\ TroubleAnswer \subseteq ErrorCode
    /\ "RESOURCE_NOT_FOUND" \notin TroubleAnswer
    /\ "ok" \notin ErrorCode /\ "none" \notin ErrorCode
    /\ "RESOURCE_NOT_FOUND" \in ErrorCode
  BY DEF TroubleAnswer, ErrorCode

----------------------------------------------------------------------------
(* What the services share.                                                 *)

\* A request under way has no answer, and knows of the resources there are.
Watched(c) ==
    pc[c] # "idle" =>
       /\ answer[c] = "none" /\ fault[c] = "none"
       /\ always[c] \subseteq present \ coming
       /\ Findable \cap Scope(About(c)) \subseteq ever[c]

\* What an error tells.
Told(c) ==
    /\ answer[c] = "RESOURCE_NOT_FOUND" =>
          IF req[c].kind = "list"
          THEN ever[c] \ always[c] # {}
          ELSE About(c) \notin always[c]
    /\ fault[c] # "none" => answer[c] = fault[c]

Common(calls, kinds) ==
    /\ TypeOKFor(calls, kinds)
    /\ \A c \in Client : Watched(c) /\ Told(c)

\* When a call may end a request with this result.
Earned(c, result) ==
    /\ result = "ok" => done'[c] \/ req[c].kind \in Reading
    /\ result = "RESOURCE_NOT_FOUND" =>
          /\ NoEffect
          /\ IF req[c].kind = "list"
             THEN ever[c] \ always[c] # {}
             ELSE Missable(About(c))

\* How a call may end.
Ends(c, calls) ==
    \/ \E op \in calls : Proceed(c, op)
    \/ UNCHANGED <<req, pc, answer, fault>>
    \/ \E result \in ErrorCode \cup {"ok"} : Finish(c, result) /\ Earned(c, result)
    \/ Raise(c)

\* What a call may do to the stages of resources: what it creates may be on
\* its way in, what it deletes on its way out.
Staged ==
    /\ coming' \subseteq present' /\ leaving' \subseteq Name \ present'
    /\ coming' \cap present \subseteq coming
    /\ leaving' \subseteq leaving \cup present

\* A provider call of c's: it takes effect at most once per request, and only
\* as the request asks.
Call(c, calls) ==
    /\ pc[c] # "idle"
    /\ \/ NoEffect
       \/ /\ ~done[c] /\ req[c].kind \notin Reading
          /\ Effect(c, Directory!Result(req[c])) /\ Staged
    /\ Ends(c, calls)
    /\ todo' \in [Client -> SUBSET Name] /\ found' \in [Client -> SUBSET Name]
    /\ more' \in [Client -> BOOLEAN]
    /\ \A d \in Client \ {c} :
          todo'[d] = todo[d] /\ found'[d] = found[d] /\ more'[d] = more[d]

\* The request of client d, as another client's step leaves it.
SameRequest(d) ==
    /\ req'[d] = req[d] /\ pc'[d] = pc[d]
    /\ todo'[d] = todo[d] /\ found'[d] = found[d] /\ more'[d] = more[d]
    /\ answer'[d] = answer[d] /\ done'[d] = done[d] /\ fault'[d] = fault[d]

\* What d watches, brought up to date with the resources there are.
Watching(d) ==
    /\ always'[d] = IF pc[d] = "idle" THEN always[d] ELSE always[d] \cap present'
    /\ ever'[d] = IF pc[d] = "idle" THEN ever[d]
                  ELSE ever[d] \cup (present' \cap Scope(About(d)))

\* A result is of a name there is, or of no name at all.
LEMMA ResultTyped ==
    ASSUME NEW calls, NEW kinds, TypeOKFor(calls, kinds), NEW c \in Client,
           req[c].kind = "create" => About(c) \in Name
    PROVE  Directory!Result(req[c]) \subseteq Name
  BY DEF TypeOKFor, Directory!Result, About

\* A request is about names there are, or about none.
LEMMA ScopeTyped ==
    ASSUME NEW R \in SUBSET Name, NEW name
    PROVE  R \cap Scope(name) \subseteq Name
  OBVIOUS

\* How a call ends its own request, and leaves those of others.
LEMMA EndsTyped ==
    ASSUME NEW calls, NEW kinds, TypeOKFor(calls, kinds), NEW c \in Client, Ends(c, calls)
    PROVE  /\ req' = req
           /\ pc' \in [Client -> calls \cup {"idle"}]
           /\ answer' \in [Client -> ErrorCode \cup {"ok", "none"}]
           /\ fault' \in [Client -> ErrorCode \cup {"none"}]
           /\ \A d \in Client \ {c} :
                 pc'[d] = pc[d] /\ answer'[d] = answer[d] /\ fault'[d] = fault[d]
<1>0. /\ pc \in [Client -> calls \cup {"idle"}]
      /\ answer \in [Client -> ErrorCode \cup {"ok", "none"}]
      /\ fault \in [Client -> ErrorCode \cup {"none"}]
  BY DEF TypeOKFor
<1> DEFINE Good == /\ req' = req
                   /\ pc' \in [Client -> calls \cup {"idle"}]
                   /\ answer' \in [Client -> ErrorCode \cup {"ok", "none"}]
                   /\ fault' \in [Client -> ErrorCode \cup {"none"}]
                   /\ \A d \in Client \ {c} :
                         pc'[d] = pc[d] /\ answer'[d] = answer[d] /\ fault'[d] = fault[d]
<1>1. ASSUME NEW op \in calls, Proceed(c, op) PROVE Good
  BY <1>0, <1>1 DEF Proceed
<1>2. CASE UNCHANGED <<req, pc, answer, fault>>
  BY <1>0, <1>2
<1>3. ASSUME NEW result \in ErrorCode \cup {"ok"}, Finish(c, result) PROVE Good
  BY <1>0, <1>3 DEF Finish, Conclude
<1>4. CASE Raise(c)
  <2>1. PICK code \in ErrorCode : Conclude(c, code) /\ fault' = [fault EXCEPT ![c] = code]
    BY <1>4, FaultCodes, Codes DEF Raise, Meet
  <2> QED
    BY <1>0, <2>1 DEF Conclude
<1> QED
  BY <1>1, <1>2, <1>3, <1>4 DEF Ends

\* What a call does to its own request and to those of others.
LEMMA CallTyped ==
    ASSUME NEW calls, NEW kinds, Common(calls, kinds), NEW c \in Client, Call(c, calls),
           req[c].kind = "create" => About(c) \in Name
    PROVE  /\ TypeOKFor(calls, kinds)'
           /\ req' = req /\ Staged
           /\ \A d \in Client \ {c} : SameRequest(d)
           /\ \A d \in Client : Watching(d)
<1>0. /\ present \subseteq Name /\ coming \subseteq present /\ leaving \subseteq Name \ present
      /\ req \in [Client -> [kind : kinds \cup {"none"}, name : Name \cup {NoName}]]
      /\ done \in [Client -> BOOLEAN]
      /\ always \in [Client -> SUBSET Name] /\ ever \in [Client -> SUBSET Name]
  BY DEF Common, TypeOKFor
<1>1. /\ req' = req
      /\ pc' \in [Client -> calls \cup {"idle"}]
      /\ answer' \in [Client -> ErrorCode \cup {"ok", "none"}]
      /\ fault' \in [Client -> ErrorCode \cup {"none"}]
      /\ \A d \in Client \ {c} :
            pc'[d] = pc[d] /\ answer'[d] = answer[d] /\ fault'[d] = fault[d]
  BY EndsTyped DEF Call, Common
<1>2. /\ present' \subseteq Name /\ Staged /\ done' \in [Client -> BOOLEAN]
      /\ always' \in [Client -> SUBSET Name] /\ ever' \in [Client -> SUBSET Name]
      /\ \A d \in Client \ {c} : done'[d] = done[d]
      /\ \A d \in Client : Watching(d)
  <2> DEFINE Good == /\ present' \subseteq Name /\ Staged /\ done' \in [Client -> BOOLEAN]
                     /\ always' \in [Client -> SUBSET Name]
                     /\ ever' \in [Client -> SUBSET Name]
                     /\ \A d \in Client \ {c} : done'[d] = done[d]
                     /\ \A d \in Client : Watching(d)
  <2>1. CASE NoEffect
    <3>1. \A d \in Client : pc[d] # "idle" =>
             always[d] \subseteq present /\ present \cap Scope(About(d)) \subseteq ever[d]
      BY DEF Common, Watched, Findable
    <3>2. UNCHANGED <<present, coming, leaving, done, always, ever>>
      BY <2>1 DEF NoEffect, stages
    <3>3. \A d \in Client : Watching(d)
      BY <3>1, <3>2 DEF Watching
    <3> QED
      BY <1>0, <3>2, <3>3 DEF Staged
  <2>2. ASSUME NEW R \in SUBSET Name, Effect(c, R), Staged
        PROVE  Good
    <3>1. \A d \in Client : /\ always[d] \cap R \subseteq Name
                            /\ ever[d] \cup (R \cap Scope(About(d))) \subseteq Name
      BY <1>0
    <3> QED
      BY <1>0, <2>2, <3>1 DEF Effect, Watching
  <2> QED
    BY <2>1, <2>2, ResultTyped DEF Call, Common
<1>3. TypeOKFor(calls, kinds)'
  BY <1>0, <1>1, <1>2 DEF TypeOKFor, Call, Staged
<1> QED
  BY <1>1, <1>2, <1>3 DEF SameRequest, Call

\* What a request watches stays as it should.
LEMMA StillWatched ==
    ASSUME NEW d \in Client, Watched(d), pc[d] # "idle", Staged, Watching(d), req'[d] = req[d]
    PROVE  /\ always'[d] \subseteq present' \ coming'
           /\ Findable' \cap Scope(About(d))' \subseteq ever'[d]
  BY DEF Watched, Staged, Watching, Findable, Scope, About

\* A request stays as it should under the steps of others.
LEMMA OthersKeep ==
    ASSUME NEW d \in Client, Watched(d), Told(d), SameRequest(d), Watching(d), Staged
    PROVE  Watched(d)' /\ Told(d)'
<1>1. Told(d)'
  BY DEF SameRequest, Watching, Watched, Told, About
<1>2. Watched(d)'
  BY StillWatched DEF SameRequest, Watched
<1> QED
  BY <1>1, <1>2

\* A call leaves every request as it should be.
LEMMA CallKeepsCommon ==
    ASSUME NEW calls, NEW kinds, Common(calls, kinds), NEW c \in Client, Call(c, calls),
           req[c].kind = "create" => About(c) \in Name
    PROVE  /\ Common(calls, kinds)'
           /\ req' = req
           /\ \A d \in Client \ {c} : SameRequest(d)
           /\ \A d \in Client : Watching(d)
<1>0. /\ TypeOKFor(calls, kinds)' /\ req' = req /\ Staged
      /\ \A d \in Client \ {c} : SameRequest(d)
      /\ \A d \in Client : Watching(d)
  BY CallTyped
<1>1. \A d \in Client \ {c} : Watched(d)' /\ Told(d)'
  BY <1>0, OthersKeep DEF Common
<1>2. /\ pc[c] # "idle" /\ answer[c] = "none" /\ fault[c] = "none"
      /\ always[c] \subseteq present \ coming
      /\ always'[c] \subseteq present' \ coming'
      /\ Findable' \cap Scope(About(c))' \subseteq ever'[c]
      /\ pc \in [Client -> calls \cup {"idle"}]
      /\ answer \in [Client -> ErrorCode \cup {"ok", "none"}]
      /\ fault \in [Client -> ErrorCode \cup {"none"}]
  BY <1>0, StillWatched DEF Call, Common, Watched, TypeOKFor
<1>3. Watched(c)' /\ Told(c)'
  <2>1. CASE (\E op \in calls : Proceed(c, op)) \/ UNCHANGED <<req, pc, answer, fault>>
    <3>1. answer'[c] = "none" /\ fault'[c] = "none"
      BY <1>2, <2>1 DEF Proceed
    <3> QED
      BY <1>2, <3>1 DEF Watched, Told
  <2>2. ASSUME NEW result \in ErrorCode \cup {"ok"}, Finish(c, result), Earned(c, result)
        PROVE  Watched(c)' /\ Told(c)'
    <3>1. pc'[c] = "idle" /\ answer'[c] = result /\ fault'[c] = "none"
      BY <1>2, <2>2 DEF Finish, Conclude
    <3>2. ASSUME result = "RESOURCE_NOT_FOUND"
          PROVE  IF req'[c].kind = "list"
                 THEN ever'[c] \ always'[c] # {}
                 ELSE req'[c].name \notin always'[c]
      BY <1>0, <1>2, <2>2, <3>2 DEF Earned, NoEffect, About, Missable
    <3> QED
      BY <3>1, <3>2 DEF Watched, Told, About
  <2>3. CASE Raise(c)
    <3>1. PICK code \in TroubleAnswer : Conclude(c, code) /\ fault' = [fault EXCEPT ![c] = code]
      BY <2>3, FaultCodes DEF Raise, Meet
    <3>2. pc'[c] = "idle" /\ answer'[c] = code /\ fault'[c] = code
      BY <1>2, <3>1 DEF Conclude
    <3> QED
      BY <3>2, Codes DEF Watched, Told
  <2> QED
    BY <2>1, <2>2, <2>3 DEF Call, Ends
<1> QED
  BY <1>0, <1>1, <1>3 DEF Common

\* A request that comes in.
LEMMA AskKeepsCommon ==
    ASSUME NEW calls, NEW kinds, Common(calls, kinds), "idle" \notin calls,
           NEW c \in Client, NEW kind \in kinds, NEW name \in Name \cup {NoName},
           NEW first \in calls, Ask(c, kind, name, first)
    PROVE  /\ Common(calls, kinds)'
           /\ \A d \in Client \ {c} : SameRequest(d) /\ Watching(d)
           /\ req'[c] = [kind |-> kind, name |-> name] /\ pc'[c] = first
           /\ todo'[c] = {} /\ found'[c] = {} /\ answer'[c] = "none" /\ ~done'[c]
<1>1. /\ TypeOKFor(calls, kinds)'
      /\ req'[c] = [kind |-> kind, name |-> name] /\ pc'[c] = first
      /\ todo'[c] = {} /\ found'[c] = {} /\ answer'[c] = "none"
      /\ ~done'[c] /\ fault'[c] = "none"
      /\ always'[c] = (present \ coming) \cap Scope(name)
      /\ ever'[c] = (present \cup leaving) \cap Scope(name)
      /\ UNCHANGED <<present, coming, leaving>>
  <2>0. TypeOKFor(calls, kinds)
    BY DEF Common
  <2>1. /\ (present \ coming) \cap Scope(name) \subseteq Name
        /\ (present \cup leaving) \cap Scope(name) \subseteq Name
    BY <2>0 DEF TypeOKFor
  <2> HIDE DEF Scope
  <2> QED
    BY <2>0, <2>1 DEF TypeOKFor, Ask, stages
<1>2. ASSUME NEW d \in Client \ {c}
      PROVE  SameRequest(d) /\ Watching(d)
  <2>1. pc[d] # "idle" =>
           always[d] \cap present = always[d]
           /\ ever[d] \cup (present \cap Scope(About(d))) = ever[d]
    BY DEF Common, Watched, Findable
  <2> QED
    BY <2>1 DEF Common, TypeOKFor, Ask, SameRequest, Watching, stages
<1>3. Staged
  BY <1>1 DEF Common, TypeOKFor, Staged
<1>4. \A d \in Client \ {c} : Watched(d)' /\ Told(d)'
  BY <1>2, <1>3, OthersKeep DEF Common
<1>5. Watched(c)' /\ Told(c)'
  BY <1>1, Codes DEF Watched, Told, Findable, Scope, About
<1> QED
  BY <1>1, <1>2, <1>4, <1>5 DEF Common

\* Nobody has asked for anything yet.
LEMMA InitCommon ==
    ASSUME NEW calls, NEW kinds, Init
    PROVE  Common(calls, kinds)
  BY DEF Init, Common, TypeOKFor, Watched, Told

\* The provider is done with a resource.
LEMMA StagesKeepCommon ==
    ASSUME NEW calls, NEW kinds, Common(calls, kinds), UNCHANGED <<present, local, done, always, ever>>,
           coming' \subseteq coming, leaving' \subseteq leaving
    PROVE  Common(calls, kinds)'
<1>1. TypeOKFor(calls, kinds)'
  BY DEF Common, TypeOKFor, local
<1>2. ASSUME NEW c \in Client PROVE Watched(c)' /\ Told(c)'
  BY DEF Common, Watched, Told, Findable, Scope, About, local
<1> QED
  BY <1>1, <1>2 DEF Common

\* What the invariant is for.
LEMMA CommonMeans ==
    ASSUME NEW calls, NEW kinds, Common(calls, kinds)
    PROVE  NotFoundHonest /\ FaultsSurface
  BY DEF Common, Told, NotFoundHonest, FaultsSurface

----------------------------------------------------------------------------
(* What the directory sees: `busy' is having a provider call to make, and   *)
(* all error codes are one failure.                                         *)

Busy == [c \in Client |-> pc[c] # "idle"]

Answers ==
    [c \in Client |-> IF answer[c] \in ErrorCode THEN "failed" ELSE answer[c]]

LEMMA AskImplemented ==
    ASSUME NEW calls, NEW kinds, TypeOKFor(calls, kinds), "idle" \notin calls,
           NEW c \in Client, NEW kind, NEW name, NEW first \in calls,
           Ask(c, kind, name, first)
    PROVE  Directory!Next
<1>1. Busy' = [Busy EXCEPT ![c] = TRUE]
  BY DEF TypeOKFor, Busy, Ask
<1>2. Answers' = [Answers EXCEPT ![c] = "none"]
  BY Codes DEF TypeOKFor, Answers, Ask
<1>3. Directory!Ask(c)
  BY <1>1, <1>2 DEF Directory!Ask, Busy, Answers, Ask, TypeOKFor
<1> QED
  BY <1>3 DEF Directory!Next

\* A call that goes on to another is hidden, one that ends the request is
\* its answer.
LEMMA EndsSeen ==
    ASSUME NEW calls, NEW kinds, TypeOKFor(calls, kinds), "idle" \notin calls,
           NEW c \in Client, pc[c] # "idle", Ends(c, calls)
    PROVE  /\ req' = req
           /\ \/ Busy' = Busy /\ Answers' = Answers
              \/ Directory!Answer(c)
<1>0. /\ pc \in [Client -> calls \cup {"idle"}]
      /\ answer \in [Client -> ErrorCode \cup {"ok", "none"}]
      /\ Busy[c] /\ c \in DOMAIN Answers
  BY DEF TypeOKFor, Busy, Answers
<1>1. ASSUME NEW op \in calls, Proceed(c, op)
      PROVE  req' = req /\ Busy' = Busy /\ Answers' = Answers
  BY <1>0, <1>1 DEF Proceed, Busy, Answers
<1>2. ASSUME NEW result \in ErrorCode \cup {"ok"}, Conclude(c, result), Earned(c, result)
      PROVE  req' = req /\ Directory!Answer(c)
  <2>1. Busy' = [Busy EXCEPT ![c] = FALSE]
    BY <1>0, <1>2 DEF Busy, Conclude
  <2>2. Answers' = [Answers EXCEPT ![c] = IF result \in ErrorCode THEN "failed" ELSE "ok"]
    BY <1>0, <1>2 DEF Answers, Conclude
  <2>3. req' = req /\ (result = "ok" => done'[c] \/ req[c].kind \in Reading)
    BY <1>2 DEF Earned, Conclude
  <2> QED
    BY <1>0, <1>2, <2>1, <2>2, <2>3, Codes DEF Directory!Answer, Busy, Answers
<1>3. CASE UNCHANGED <<req, pc, answer, fault>>
  BY <1>3 DEF Busy, Answers
<1>4. ASSUME NEW result \in ErrorCode \cup {"ok"}, Finish(c, result), Earned(c, result)
      PROVE  req' = req /\ Directory!Answer(c)
  BY <1>2, <1>4 DEF Finish
<1>5. CASE Raise(c)
  <2>1. PICK code \in TroubleAnswer : Conclude(c, code)
    BY <1>5, FaultCodes DEF Raise
  <2>2. code \in ErrorCode /\ Earned(c, code)
    BY <2>1, Codes DEF Earned
  <2> QED
    BY <1>2, <2>1, <2>2
<1> QED
  BY <1>1, <1>3, <1>4, <1>5 DEF Ends

\* A call is a step of the directory or hidden from it.
LEMMA CallImplemented ==
    ASSUME NEW calls, NEW kinds, TypeOKFor(calls, kinds), "idle" \notin calls,
           NEW c \in Client, Call(c, calls)
    PROVE  [Directory!Next]_Directory!vars
<1>0. /\ pc[c] # "idle" /\ req' = req
      /\ (Busy' = Busy /\ Answers' = Answers) \/ Directory!Answer(c)
  BY EndsSeen DEF Call
<1>1. CASE NoEffect
  BY <1>0, <1>1 DEF Directory!Next, Directory!vars, NoEffect, Busy, Answers
<1>2. CASE ~done[c] /\ req[c].kind \notin Reading /\ Effect(c, Directory!Result(req[c]))
  <2>1. Directory!TakeEffect(c)
    BY <1>0, <1>2 DEF Directory!TakeEffect, Effect, Busy
  <2> QED
    BY <1>0, <2>1 DEF Directory!Next, Busy, Answers
<1> QED
  BY <1>1, <1>2 DEF Call

LEMMA InitImplemented == Init => Directory!Init
  BY DEF Init, Directory!Init, ErrorCode

----------------------------------------------------------------------------
(* Where a request is.  The services call their calls by different names,   *)
(* so that one definition does for all.                                     *)

Phase(c) ==
    /\ req[c].kind = "create" => About(c) \in Name
    /\ req[c].kind = "list" => About(c) = NoName
    /\ pc[c] \in {"CreateQueue", "CreateBucket", "CreateTable"} =>
          req[c].kind = "create" /\ ~done[c]
    /\ pc[c] = "GetQueueUrl" =>
          /\ req[c].kind \in {"create", "get", "delete", "send", "receive", "discard"}
          /\ done[c] <=> req[c].kind = "create"
    /\ pc[c] \in {"GetQueueAttributes", "DescribeTable"} =>
          (req[c].kind = "create" /\ done[c]) \/ req[c].kind = "get"
    /\ pc[c] \in {"HeadBucket", "GetBucketLocation", "GetBucketTagging"} =>
          req[c].kind = "get"
    /\ pc[c] \in {"DeleteQueue", "DeleteBucket", "DeleteTable"} =>
          req[c].kind = "delete" /\ ~done[c]
    /\ pc[c] \in {"SendMessage", "DeleteMessage", "PutItem", "DeleteItem"} =>
          req[c].kind \in {"send", "put", "discard"} /\ ~done[c]
    /\ pc[c] \in {"ReceiveMessage", "Scan"} => req[c].kind \in {"receive", "scan"}
    /\ pc[c] \in {"ListQueues", "ListBuckets", "ListTables", "describe"} =>
          req[c].kind = "list"

Progress(c) ==
    /\ pc[c] \in {"ListQueues", "ListBuckets", "ListTables"} => found[c] = {}
    /\ pc[c] = "describe" =>
          /\ found[c] \cup todo[c] \subseteq ever[c]
          /\ more[c] \/ always[c] \subseteq found[c] \cup todo[c]

Listed(c) ==
    req[c].kind = "list" /\ answer[c] = "ok" =>
       /\ found[c] \subseteq ever[c]
       /\ more[c] \/ always[c] \subseteq found[c]

Own(c) == Phase(c) /\ Progress(c) /\ Listed(c)

\* The steps of others change none of this.
LEMMA OthersKeepOwn ==
    ASSUME NEW d \in Client, Watched(d), Own(d), SameRequest(d), Watching(d)
    PROVE  Own(d)'
<1>1. Phase(d)'
  BY DEF Own, Phase, SameRequest, About
<1>2. Progress(d)'
  BY DEF Own, Progress, SameRequest, Watching
<1>3. Listed(d)'
  BY DEF Own, Listed, Watched, SameRequest, Watching
<1> QED
  BY <1>1, <1>2, <1>3 DEF Own

\* Of a request that is not a listing only the phase matters.
LEMMA NoListing ==
    ASSUME NEW c \in Client, Phase(c)', req'[c].kind # "list"
    PROVE  Own(c)'
  BY DEF Own, Phase, Progress, Listed

\* A call that takes effect, or is refused: creating, deleting and changing
\* what is inside.  Creating goes on to describe what was created.
LEMMA ChangeCall ==
    ASSUME NEW calls, NEW kinds, TypeOKFor(calls, kinds), NEW c \in Client,
           Phase(c), pc[c] # "idle", ~done[c],
           req[c].kind \notin Reading \cup {"list"}, SameListing,
           \/ \E code \in ErrorCode :
                 /\ NoEffect /\ Finish(c, code)
                 /\ code = "RESOURCE_NOT_FOUND" => Missable(About(c))
           \/ /\ Effect(c, Directory!Result(req[c])) /\ Staged
              /\ \/ Finish(c, "ok") \/ Raise(c)
                 \/ /\ req[c].kind = "create"
                    /\ \E op \in calls \cap {"GetQueueUrl", "DescribeTable"} : Proceed(c, op)
    PROVE  Call(c, calls) /\ Own(c)'
<1>0. /\ pc \in [Client -> calls \cup {"idle"}] /\ done \in [Client -> BOOLEAN]
      /\ todo \in [Client -> SUBSET Name] /\ found \in [Client -> SUBSET Name]
      /\ more \in [Client -> BOOLEAN] /\ UNCHANGED <<todo, found, more>>
  BY DEF TypeOKFor, SameListing
<1>1. ASSUME NEW code \in ErrorCode, NoEffect, Finish(c, code),
             code = "RESOURCE_NOT_FOUND" => Missable(About(c))
      PROVE  Call(c, calls) /\ pc'[c] = "idle" /\ req' = req
  <2>1. Earned(c, code)
    BY <1>1, Codes DEF Earned
  <2>2. pc'[c] = "idle" /\ req' = req
    BY <1>0, <1>1 DEF Finish, Conclude
  <2> QED
    BY <1>0, <1>1, <2>1, <2>2 DEF Call, Ends
<1>2. CASE /\ Effect(c, Directory!Result(req[c])) /\ Staged
           /\ \/ Finish(c, "ok") \/ Raise(c)
              \/ /\ req[c].kind = "create"
                 /\ \E op \in calls \cap {"GetQueueUrl", "DescribeTable"} : Proceed(c, op)
  <2>1. done'[c]
    BY <1>0, <1>2 DEF Effect
  <2>2. CASE Finish(c, "ok") \/ Raise(c)
    <3>1. Earned(c, "ok")
      BY <2>1 DEF Earned
    <3>2. pc'[c] = "idle" /\ req' = req
      BY <1>0, <2>2 DEF Finish, Raise, Conclude
    <3>3. Call(c, calls)
      BY <1>0, <1>2, <2>2, <3>1 DEF Call, Ends
    <3>4. Phase(c)'
      BY <3>2 DEF Phase, About
    <3> QED
      BY <3>2, <3>3, <3>4, NoListing
  <2>3. ASSUME req[c].kind = "create",
               NEW op \in calls \cap {"GetQueueUrl", "DescribeTable"}, Proceed(c, op)
        PROVE  Call(c, calls) /\ Own(c)'
    <3>1. pc'[c] = op /\ req' = req
      BY <1>0, <2>3 DEF Proceed
    <3>2. Call(c, calls)
      BY <1>0, <1>2, <2>3 DEF Call, Ends
    <3>3. Phase(c)'
      BY <2>1, <2>3, <3>1 DEF Phase, About
    <3> QED
      BY <3>1, <3>2, <3>3, NoListing
  <2> QED
    BY <1>2, <2>2, <2>3
<1>3. CASE \E code \in ErrorCode :
              /\ NoEffect /\ Finish(c, code)
              /\ code = "RESOURCE_NOT_FOUND" => Missable(About(c))
  <2>1. Phase(c)'
    BY <1>1, <1>3 DEF Phase, About
  <2> QED
    BY <1>1, <1>3, <2>1, NoListing
<1> QED
  BY <1>2, <1>3

\* A call that looks at one resource.
LEMMA LookCall ==
    ASSUME NEW calls, NEW kinds, TypeOKFor(calls, kinds), NEW c \in Client,
           Phase(c), pc[c] # "idle", req[c].kind # "list", NoEffect, SameListing,
           \/ Finish(c, "ok") /\ (done[c] \/ req[c].kind \in Reading)
           \/ Finish(c, "RESOURCE_NOT_FOUND") /\ Missable(About(c))
           \/ Raise(c)
           \/ \E op \in calls : Proceed(c, op) /\ Phase(c)'
    PROVE  Call(c, calls) /\ Own(c)'
<1>0. /\ pc \in [Client -> calls \cup {"idle"}] /\ todo \in [Client -> SUBSET Name]
      /\ found \in [Client -> SUBSET Name] /\ more \in [Client -> BOOLEAN]
      /\ done' = done /\ UNCHANGED <<todo, found, more>>
  BY DEF TypeOKFor, NoEffect, SameListing
<1>1. Finish(c, "RESOURCE_NOT_FOUND") /\ Missable(About(c)) => Earned(c, "RESOURCE_NOT_FOUND")
  BY DEF Earned
<1>2. done[c] \/ req[c].kind \in Reading => Earned(c, "ok")
  BY <1>0 DEF Earned
<1>3. Ends(c, calls)
  BY <1>1, <1>2, Codes DEF Ends
<1>4. Call(c, calls)
  BY <1>0, <1>3 DEF Call
<1>5. req' = req /\ Phase(c)'
  <2>1. CASE (\E result : Finish(c, result)) \/ Raise(c)
    <3>1. req' = req /\ pc'[c] = "idle"
      BY <1>0, <2>1 DEF Finish, Raise, Conclude
    <3> QED
      BY <3>1 DEF Phase, About
  <2>2. CASE \E op \in calls : Proceed(c, op) /\ Phase(c)'
    BY <2>2 DEF Proceed
  <2> QED
    BY <2>1, <2>2
<1> QED
  BY <1>4, <1>5, NoListing

\* The listing call of a listing.
LEMMA AskForNamesCall ==
    ASSUME NEW calls, NEW kinds, TypeOKFor(calls, kinds), NEW c \in Client,
           Watched(c), Own(c), "describe" \in calls, req[c].kind = "list",
           pc[c] \in {"ListQueues", "ListTables"}, AskForNames(c)
    PROVE  Call(c, calls) /\ Own(c)'
<1>0. /\ pc \in [Client -> calls \cup {"idle"}] /\ Findable \subseteq Name
      /\ todo \in [Client -> SUBSET Name] /\ found \in [Client -> SUBSET Name]
      /\ more \in [Client -> BOOLEAN]
      /\ Phase(c) /\ Progress(c)
      /\ always[c] \subseteq present \ coming /\ answer[c] = "none"
  BY DEF TypeOKFor, Own, Watched, Findable
<1>1. Findable \subseteq ever[c]
  <2>1. Scope(About(c)) = Name
    BY <1>0 DEF Phase, Scope
  <2> QED
    BY <1>0, <2>1 DEF Watched
<1>2. PICK names \in SUBSET Findable :
         /\ todo' = [todo EXCEPT ![c] = names]
         /\ more' = [more EXCEPT ![c] = ~(present \ coming \subseteq names)]
  BY DEF AskForNames
<1>3. /\ req' = req /\ answer' = answer /\ pc'[c] = "describe" /\ NoEffect
      /\ always' = always /\ ever' = ever /\ UNCHANGED found
  BY <1>0 DEF AskForNames, Proceed, NoEffect
<1>4. Call(c, calls)
  <2>1. /\ todo' \in [Client -> SUBSET Name] /\ more' \in [Client -> BOOLEAN]
        /\ \A d \in Client \ {c} : todo'[d] = todo[d] /\ more'[d] = more[d]
    BY <1>0, <1>2
  <2>2. Ends(c, calls)
    BY DEF AskForNames, Ends
  <2> QED
    BY <1>0, <1>3, <2>1, <2>2 DEF Call
<1>5. Phase(c)'
  BY <1>0, <1>3 DEF Phase, About
<1>6. todo'[c] = names /\ found'[c] = {} /\ (more'[c] <=> ~(present \ coming \subseteq names))
  BY <1>0, <1>2, <1>3 DEF Progress
<1>7. Progress(c)' /\ Listed(c)'
  BY <1>0, <1>1, <1>3, <1>6 DEF Progress, Listed
<1> QED
  BY <1>4, <1>5, <1>7 DEF Own

\* Describing one of the names, and the end of a listing.
LEMMA DescribeCall ==
    ASSUME NEW calls, NEW kinds, TypeOKFor(calls, kinds), NEW c \in Client,
           Watched(c), Own(c), DescribeNext(c) \/ ListDone(c)
    PROVE  Call(c, calls) /\ Own(c)'
<1>0. /\ pc \in [Client -> calls \cup {"idle"}] /\ pc[c] = "describe"
      /\ todo \in [Client -> SUBSET Name] /\ found \in [Client -> SUBSET Name]
      /\ more \in [Client -> BOOLEAN] /\ more' = more
      /\ answer \in [Client -> ErrorCode \cup {"ok", "none"}]
      /\ Phase(c) /\ Progress(c) /\ req[c].kind = "list"
      /\ always[c] \subseteq present \ coming /\ answer[c] = "none"
      /\ NoEffect /\ always' = always /\ ever' = ever
  BY DEF TypeOKFor, Own, Watched, NoEffect, DescribeNext, ListDone, SameListing, Phase
<1>1. ASSUME NEW n \in todo[c],
             todo' = [todo EXCEPT ![c] = @ \ {n}], found' = [found EXCEPT ![c] = @ \cup {n}],
             UNCHANGED <<req, pc, answer, fault>>
      PROVE  Call(c, calls) /\ Own(c)'
  <2>1. Call(c, calls)
    <3>1. /\ todo' \in [Client -> SUBSET Name] /\ found' \in [Client -> SUBSET Name]
          /\ \A d \in Client \ {c} : todo'[d] = todo[d] /\ found'[d] = found[d]
      BY <1>0, <1>1
    <3> QED
      BY <1>0, <1>1, <3>1 DEF Call, Ends
  <2>2. Phase(c)'
    BY <1>0, <1>1 DEF Phase, About, NoEffect
  <2>3. todo'[c] = todo[c] \ {n} /\ found'[c] = found[c] \cup {n}
    BY <1>0, <1>1
  <2>4. Progress(c)' /\ Listed(c)'
    BY <1>0, <1>1, <2>3 DEF Progress, Listed
  <2> QED
    BY <2>1, <2>2, <2>4 DEF Own
<1>2. ASSUME UNCHANGED <<todo, found>>,
             NEW result \in {"RESOURCE_NOT_FOUND", "ok"}, Finish(c, result),
             result = "RESOURCE_NOT_FOUND" => \E n \in todo[c] : Missable(n),
             result = "ok" => todo[c] = {}
      PROVE  Call(c, calls) /\ Own(c)'
  <2>1. pc'[c] = "idle" /\ answer'[c] = result /\ req' = req
    BY <1>0, <1>2 DEF Finish, Conclude
  <2>2. Earned(c, result)
    BY <1>0, <1>2 DEF Earned, Progress, Reading, Missable
  <2>3. Call(c, calls)
    BY <1>0, <1>2, <2>2, Codes DEF Call, Ends
  <2>4. Phase(c)' /\ Progress(c)'
    BY <1>0, <2>1 DEF Phase, Progress, About
  <2>5. Listed(c)'
    BY <1>0, <1>2, <2>1 DEF Progress, Listed
  <2> QED
    BY <2>3, <2>4, <2>5 DEF Own
<1>3. CASE DescribeNext(c)
  BY <1>1, <1>2, <1>3 DEF DescribeNext
<1>4. CASE ListDone(c)
  BY <1>2, <1>4 DEF ListDone, SameListing
<1> QED
  BY <1>3, <1>4

\* A fault.
LEMMA FaultCall ==
    ASSUME NEW calls, NEW kinds, TypeOKFor(calls, kinds), NEW c \in Client,
           Phase(c), CallFails(c)
    PROVE  Call(c, calls) /\ Own(c)'
<1>1. /\ pc[c] # "idle" /\ Raise(c) /\ NoEffect /\ UNCHANGED <<todo, found, more>>
      /\ todo \in [Client -> SUBSET Name] /\ found \in [Client -> SUBSET Name]
      /\ more \in [Client -> BOOLEAN]
      /\ pc \in [Client -> calls \cup {"idle"}]
      /\ answer \in [Client -> ErrorCode \cup {"ok", "none"}]
  BY DEF CallFails, TypeOKFor, SameListing
<1>2. Call(c, calls)
  BY <1>1 DEF Call, Ends
<1>3. pc'[c] = "idle" /\ req' = req /\ answer'[c] # "ok"
  <2>1. PICK code \in ErrorCode : Conclude(c, code)
    BY <1>1, FaultCodes, Codes DEF Raise
  <2> QED
    BY <1>1, <2>1, Codes DEF Conclude
<1>4. Phase(c)' /\ Progress(c)' /\ Listed(c)'
  BY <1>3 DEF Phase, Progress, Listed, About
<1> QED
  BY <1>2, <1>4 DEF Own

\* A request that comes in.
LEMMA AskOwn ==
    ASSUME NEW c \in Client, NEW kind, NEW name, NEW first,
           req'[c] = [kind |-> kind, name |-> name], pc'[c] = first,
           found'[c] = {}, answer'[c] = "none", ~done'[c],
           IF kind = "list" THEN name = NoName ELSE name \in Name,
           \/ kind = "create" /\ first \in {"CreateQueue", "CreateBucket", "CreateTable"}
           \/ kind \in {"get", "delete", "send", "receive", "discard"} /\ first = "GetQueueUrl"
           \/ kind = "get" /\ first \in {"HeadBucket", "DescribeTable"}
           \/ kind = "delete" /\ first \in {"DeleteBucket", "DeleteTable"}
           \/ kind \in {"put", "discard"} /\ first \in {"PutItem", "DeleteItem"}
           \/ kind = "scan" /\ first = "Scan"
           \/ kind = "list" /\ first \in {"ListQueues", "ListBuckets", "ListTables"}
    PROVE  Own(c)'
<1>1. Phase(c)'
  BY DEF Phase, About
<1>2. Progress(c)' /\ Listed(c)'
  BY DEF Progress, Listed
<1> QED
  BY <1>1, <1>2 DEF Own

\* What a service keeps: this of every request.
Requests(calls, kinds) == Common(calls, kinds) /\ \A c \in Client : Own(c)

\* A request that comes in keeps it, if it starts as it should.
LEMMA AskStep ==
    ASSUME NEW calls, NEW kinds, Requests(calls, kinds), "idle" \notin calls,
           NEW c \in Client, NEW kind \in kinds, NEW name \in Name \cup {NoName},
           NEW first \in calls, Ask(c, kind, name, first),
           IF kind = "list" THEN name = NoName ELSE name \in Name,
           \/ kind = "create" /\ first \in {"CreateQueue", "CreateBucket", "CreateTable"}
           \/ kind \in {"get", "delete", "send", "receive", "discard"} /\ first = "GetQueueUrl"
           \/ kind = "get" /\ first \in {"HeadBucket", "DescribeTable"}
           \/ kind = "delete" /\ first \in {"DeleteBucket", "DeleteTable"}
           \/ kind \in {"put", "discard"} /\ first \in {"PutItem", "DeleteItem"}
           \/ kind = "scan" /\ first = "Scan"
           \/ kind = "list" /\ first \in {"ListQueues", "ListBuckets", "ListTables"}
    PROVE  Requests(calls, kinds)' /\ Directory!Next
<1>1. /\ Common(calls, kinds)'
      /\ \A d \in Client \ {c} : SameRequest(d) /\ Watching(d)
      /\ req'[c] = [kind |-> kind, name |-> name] /\ pc'[c] = first
      /\ todo'[c] = {} /\ found'[c] = {} /\ answer'[c] = "none" /\ ~done'[c]
  BY AskKeepsCommon DEF Requests
<1>2. Own(c)'
  BY <1>1, AskOwn
<1>3. \A d \in Client \ {c} : Own(d)'
  BY <1>1, OthersKeepOwn DEF Requests, Common
<1>4. Directory!Next
  BY AskImplemented DEF Requests, Common
<1> QED
  BY <1>1, <1>2, <1>3, <1>4 DEF Requests

\* A call keeps it, and is a step of the directory or hidden from it.
LEMMA CallStep ==
    ASSUME NEW calls, NEW kinds, Requests(calls, kinds), "idle" \notin calls,
           NEW c \in Client, Call(c, calls), Own(c)'
    PROVE  Requests(calls, kinds)' /\ [Directory!Next]_Directory!vars
<1>1. /\ Common(calls, kinds)'
      /\ \A d \in Client \ {c} : SameRequest(d) /\ Watching(d)
  BY CallKeepsCommon DEF Requests, Own, Phase
<1>2. \A d \in Client \ {c} : Own(d)'
  BY <1>1, OthersKeepOwn DEF Requests, Common
<1>3. [Directory!Next]_Directory!vars
  BY CallImplemented DEF Requests, Common
<1> QED
  BY <1>1, <1>2, <1>3 DEF Requests

\* And so do the provider's own steps, and steps of something else.
LEMMA StagesStep ==
    ASSUME NEW calls, NEW kinds, Requests(calls, kinds),
           UNCHANGED <<present, local, done, always, ever>>,
           coming' \subseteq coming, leaving' \subseteq leaving
    PROVE  Requests(calls, kinds)' /\ UNCHANGED Directory!vars
<1>1. Common(calls, kinds)'
  BY StagesKeepCommon DEF Requests
<1>2. \A c \in Client : Own(c)'
  BY DEF Requests, Own, Phase, Progress, Listed, About, local
<1>3. UNCHANGED Directory!vars
  BY DEF Directory!vars, local
<1> QED
  BY <1>1, <1>2, <1>3 DEF Requests

LEMMA InitRequests ==
    ASSUME NEW calls, NEW kinds, Init
    PROVE  Requests(calls, kinds) /\ Directory!Init
<1>1. ASSUME NEW c \in Client PROVE Own(c)
  BY DEF Init, Own, Phase, Progress, Listed, About
<1> QED
  BY <1>1, InitCommon, InitImplemented DEF Requests

\* What it is for.
LEMMA RequestsMean ==
    ASSUME NEW calls, NEW kinds, Requests(calls, kinds)
    PROVE  /\ TypeOKFor(calls, kinds)
           /\ NotFoundHonest /\ FaultsSurface /\ ListHonestWithinLimit
  BY CommonMeans DEF Requests, Common, Own, Listed, ListHonestWithinLimit

----------------------------------------------------------------------------
(* TableService.                                                            *)

TableInv == Requests(ProviderOp, Kind)

\* Creating, deleting and changing items.
LEMMA TableChanges ==
    ASSUME TableInv, NEW c \in Client,
           RejectItem(c) \/ ChangeItems(c) \/ CreateTable(c) \/ DeleteTable(c)
    PROVE  Call(c, ProviderOp) /\ Own(c)'
<1>0. /\ TypeOKFor(ProviderOp, Kind) /\ Phase(c)
      /\ coming \subseteq present /\ leaving \subseteq Name \ present /\ present \subseteq Name
  BY DEF TableInv, Requests, Common, Own, TypeOKFor
<1>1. /\ pc[c] # "idle" /\ ~done[c] /\ SameListing
      /\ req[c].kind \notin Reading \cup {"list"}
      /\ CreateTable(c) => req[c].kind = "create"
      /\ DeleteTable(c) => req[c].kind = "delete"
      /\ ChangeItems(c) => req[c].kind \in {"send", "put", "discard"}
  BY <1>0 DEF RejectItem, ChangeItems, CreateTable, DeleteTable, TableComes, TableGoes, InUse,
              Missed, Phase, Reading
<1>2. /\ CreateTable(c) => Directory!Result(req[c]) = present \cup {About(c)}
      /\ DeleteTable(c) => Directory!Result(req[c]) = present \ {About(c)}
      /\ ChangeItems(c) => Directory!Result(req[c]) = present
  BY <1>1 DEF Directory!Result, About
<1>3. /\ {"VALIDATION_ERROR", "RESOURCE_ALREADY_EXISTS", "RESOURCE_NOT_FOUND"} \subseteq ErrorCode
      /\ "DescribeTable" \in ProviderOp \cap {"GetQueueUrl", "DescribeTable"}
  BY DEF ErrorCode, ProviderOp
<1>4. CASE RejectItem(c) \/ (InUse(c) /\ UNCHANGED coming) \/ Missed(c)
  <2>1. \E code \in ErrorCode :
           /\ NoEffect /\ Finish(c, code)
           /\ code = "RESOURCE_NOT_FOUND" => Missable(About(c))
    BY <1>3, <1>4 DEF RejectItem, InUse, Missed
  <2> QED
    BY <1>0, <1>1, <2>1, ChangeCall
<1>5. CASE CreateTable(c) /\ TableComes(c)
  <2>1. Staged
    BY <1>0, <1>5, <1>1 DEF TableComes, Effect, Found, Findable, Staged, Phase
  <2> QED
    BY <1>0, <1>1, <1>2, <1>3, <1>5, <2>1, ChangeCall DEF TableComes
<1>6. CASE DeleteTable(c) /\ TableGoes(c)
  <2>1. Staged
    BY <1>0, <1>6 DEF TableGoes, Effect, Found, Findable, Staged
  <2> QED
    BY <1>0, <1>1, <1>2, <1>6, <2>1, ChangeCall DEF TableGoes
<1>7. CASE ChangeItems(c) /\ ~Missed(c)
  <2>1. Effect(c, present) /\ UNCHANGED stages /\ (Finish(c, "ok") \/ Raise(c))
    BY <1>7 DEF ChangeItems
  <2>2. Staged
    BY <1>0, <2>1 DEF Effect, Staged, stages
  <2> QED
    BY <1>0, <1>1, <1>2, <1>7, <2>1, <2>2, ChangeCall
<1>8. InUse(c) => UNCHANGED coming
  BY DEF InUse, NoEffect, stages
<1> QED
  BY <1>4, <1>5, <1>6, <1>7, <1>8 DEF CreateTable, DeleteTable

\* Every step of DynamoDbService is a call.
LEMMA TableCalls ==
    ASSUME TableInv, NEW c \in Client, Step(c) \/ CallFails(c)
    PROVE  Call(c, ProviderOp) /\ Own(c)'
<1>0. /\ TypeOKFor(ProviderOp, Kind)
      /\ Own(c) /\ Phase(c) /\ Watched(c)
      /\ "describe" \in ProviderOp
  BY DEF TableInv, Requests, Common, Own, ProviderOp
<1>1. CASE RejectItem(c) \/ ChangeItems(c) \/ CreateTable(c) \/ DeleteTable(c)
  BY <1>1, TableChanges
<1>2. CASE DescribeTable(c) \/ Scan(c)
  <2>1. /\ pc[c] # "idle" /\ req[c].kind # "list" /\ NoEffect /\ SameListing
        /\ done[c] \/ req[c].kind \in Reading
    BY <1>0, <1>2 DEF DescribeTable, Scan, Missed, Phase, Reading
  <2>2. Finish(c, "ok") \/ (Finish(c, "RESOURCE_NOT_FOUND") /\ Missable(About(c)))
    BY <1>2 DEF DescribeTable, Scan, Missed
  <2> QED
    BY <1>0, <2>1, <2>2, LookCall
<1>3. CASE ListTables(c)
  BY <1>0, <1>3, AskForNamesCall DEF ListTables, Phase
<1>4. CASE DescribeNext(c) \/ ListDone(c)
  BY <1>0, <1>4, DescribeCall
<1>5. CASE CallFails(c)
  BY <1>0, <1>5, FaultCall
<1> QED
  BY <1>1, <1>2, <1>3, <1>4, <1>5 DEF Step

\* Every step keeps the invariant, and is one of the directory's or hidden.
LEMMA TableSteps ==
    TableInv /\ [Next]_vars => TableInv' /\ [Directory!Next]_Directory!vars
<1> SUFFICES ASSUME TableInv, [Next]_vars
             PROVE  TableInv' /\ [Directory!Next]_Directory!vars
  OBVIOUS
<1>0. "idle" \notin ProviderOp
  BY DEF ProviderOp
<1>1. CASE UNCHANGED vars \/ \E n \in Name : Activate(n) \/ Vanish(n)
  <2>1. /\ UNCHANGED <<present, local, done, always, ever>>
        /\ coming' \subseteq coming /\ leaving' \subseteq leaving
    BY <1>1 DEF vars, baseVars, stages, Activate, Vanish
  <2> QED
    BY <2>1, StagesStep DEF TableInv
<1>2. ASSUME NEW c \in Client, Request(c)
      PROVE  TableInv' /\ Directory!Next
  <2>1. PICK kind \in Kind, name \in Name \cup {NoName}, first \in ProviderOp :
           /\ Ask(c, kind, name, first)
           /\ IF kind = "list" THEN name = NoName ELSE name \in Name
           /\ \/ kind = "create" /\ first \in {"CreateQueue", "CreateBucket", "CreateTable"}
              \/ kind = "get" /\ first \in {"HeadBucket", "DescribeTable"}
              \/ kind = "delete" /\ first \in {"DeleteBucket", "DeleteTable"}
              \/ kind \in {"put", "discard"} /\ first \in {"PutItem", "DeleteItem"}
              \/ kind = "scan" /\ first = "Scan"
              \/ kind = "list" /\ first \in {"ListQueues", "ListBuckets", "ListTables"}
    BY <1>2 DEF Request, Kind, FirstCall, ProviderOp
  <2> QED
    BY <1>0, <2>1, AskStep DEF TableInv
<1>3. ASSUME NEW c \in Client, Step(c) \/ CallFails(c)
      PROVE  TableInv' /\ [Directory!Next]_Directory!vars
  BY <1>0, <1>3, TableCalls, CallStep DEF TableInv
<1> QED
  BY <1>1, <1>2, <1>3 DEF Next

LEMMA TableStarts == Init => TableInv /\ Directory!Init
  BY InitRequests DEF TableInv

\* The inductive invariant of DynamoDbService.
THEOREM TablesInvariant == Spec => []TableInv
  BY TableStarts, TableSteps, PTL DEF Spec

\* The type invariant.
THEOREM TablesTyped == Spec => []TypeOK
<1>1. TableInv => TypeOK
  BY RequestsMean DEF TableInv, TypeOK
<1> QED
  BY <1>1, TablesInvariant, PTL

\* "Not found" is the truth about some moment of the request, although tables
\* come and go between its calls and are not ready as soon as they are there:
\* the table was absent, still being created or being deleted.
THEOREM TablesHonest == Spec => []NotFoundHonest
<1>1. TableInv => NotFoundHonest
  BY RequestsMean DEF TableInv
<1> QED
  BY <1>1, TablesInvariant, PTL

\* list_tables shows no table that never was, and every table that was there
\* and ready all the time unless ListTables held some back
\* (dynamodb_service.py:46).
THEOREM TablesListed == Spec => []ListHonestWithinLimit
<1>1. TableInv => ListHonestWithinLimit
  BY RequestsMean DEF TableInv
<1> QED
  BY <1>1, TablesInvariant, PTL

\* DynamoDbService implements the directory: tables come and go only by
\* requests under way, each of which takes effect at most once, before its
\* answer, and is answered with success only if it did what it was for.
THEOREM TablesImplemented == Spec => DirectoryImplemented
  BY TablesInvariant, TableStarts, TableSteps, PTL
  DEF Spec, DirectoryImplemented, Directory!Spec

----------------------------------------------------------------------------
(* QueueService.                                                            *)

QueueInv == Requests(Q!ProviderOp, Q!Kind) /\ coming = {}

\* The queue's words are those of this module.
LEMMA QueueErrors == \A exc \in Fault : Q!ErrorOf(exc) = ErrorOf(exc)
<1>1. Q!FailureErrors = FailureErrors
  BY DEF Q!FailureErrors, FailureErrors
<1>2. Q!ClientErrorMap = ClientErrorMap
  BY DEF Q!ClientErrorMap, ClientErrorMap
<1>3. ASSUME NEW exc PROVE Q!Translate(exc) = Translate(exc)
  BY <1>2, Zenon DEF Q!Translate, Translate
<1> QED
  BY <1>1, <1>3 DEF Q!ErrorOf, ErrorOf

LEMMA QueueWords ==
    ASSUME NEW c \in Client
    PROVE  /\ Q!Found(c) <=> Found(c)
           /\ Q!Missable(Q!About(c)) <=> Missable(About(c))
           /\ Q!NoEffect <=> NoEffect
           /\ Q!SameListing <=> SameListing
           /\ Q!Raise(c) <=> Raise(c)
           /\ Q!CallFails(c) <=> CallFails(c)
           /\ Q!Missed(c) <=> Missed(c)
           /\ Q!AskForNames(c) <=> AskForNames(c)
           /\ Q!DescribeNext(c) <=> DescribeNext(c)
           /\ Q!ListDone(c) <=> ListDone(c)
           /\ \A R : Q!Effect(c, R) <=> Effect(c, R)
           /\ \A op : Q!Proceed(c, op) <=> Proceed(c, op)
           /\ \A result : Q!Finish(c, result) <=> Finish(c, result)
<1>1. /\ Q!NoEffect <=> NoEffect
      /\ Q!SameListing <=> SameListing
      /\ \A R : Q!Effect(c, R) <=> Effect(c, R)
      /\ \A op : Q!Proceed(c, op) <=> Proceed(c, op)
      /\ \A result : Q!Finish(c, result) <=> Finish(c, result)
      /\ \A n : Q!Missable(n) <=> Missable(n)
      /\ Q!Findable = Findable /\ Q!About(c) = About(c)
  BY DEF Q!NoEffect, NoEffect, Q!SameListing, SameListing, Q!Effect, Effect, Q!Proceed, Proceed,
         Q!Finish, Finish, Q!Conclude, Conclude, Q!Missable, Missable, Q!Findable, Findable,
         Q!About, About, Q!stages, stages, Q!Scope, Scope
<1>2. Q!Raise(c) <=> Raise(c)
  BY QueueErrors DEF Q!Raise, Raise, Q!Meet, Meet, Q!Conclude, Conclude
<1>3. /\ Q!Found(c) <=> Found(c)
      /\ Q!CallFails(c) <=> CallFails(c)
      /\ Q!Missed(c) <=> Missed(c)
      /\ Q!ListDone(c) <=> ListDone(c)
  BY <1>1, <1>2 DEF Q!Found, Found, Q!CallFails, CallFails, Q!Missed, Missed, Q!ListDone, ListDone
<1>4. Q!AskForNames(c) <=> AskForNames(c)
  <2>1. \A S : Q!Cardinality(S) = Cardinality(S)
    BY DEF Q!Cardinality, Cardinality
  <2> QED
    BY <1>1, <2>1 DEF Q!AskForNames, AskForNames
<1>5. Q!DescribeNext(c) <=> DescribeNext(c)
  BY <1>1 DEF Q!DescribeNext, DescribeNext
<1> QED
  BY <1>1, <1>2, <1>3, <1>4, <1>5

\* Creating, deleting and changing messages.
LEMMA QueueChanges ==
    ASSUME QueueInv, NEW c \in Client,
           Q!CreateQueue(c) \/ Q!DeleteQueue(c) \/ Q!ChangeMessages(c)
    PROVE  Call(c, Q!ProviderOp) /\ Own(c)'
<1>0. /\ TypeOKFor(Q!ProviderOp, Q!Kind) /\ Phase(c) /\ coming = {}
      /\ leaving \subseteq Name \ present /\ present \subseteq Name
      /\ Q!About(c) = About(c)
  BY DEF QueueInv, Requests, Common, Own, TypeOKFor, Q!About, About
<1>1. /\ pc[c] # "idle" /\ ~done[c] /\ SameListing
      /\ req[c].kind \notin Reading \cup {"list"}
      /\ Q!CreateQueue(c) => req[c].kind = "create"
      /\ Q!DeleteQueue(c) => req[c].kind = "delete"
      /\ Q!ChangeMessages(c) => req[c].kind \in {"send", "put", "discard"}
  BY <1>0, QueueWords
  DEF Q!CreateQueue, Q!DeleteQueue, Q!ChangeMessages, Q!QueueGoes, Missed, Phase, Reading
<1>2. /\ Q!CreateQueue(c) => Directory!Result(req[c]) = present \cup {About(c)}
      /\ Q!DeleteQueue(c) => Directory!Result(req[c]) = present \ {About(c)}
      /\ Q!ChangeMessages(c) => Directory!Result(req[c]) = present
  BY <1>1 DEF Directory!Result, About
<1>3. /\ {"RESOURCE_CONFLICT", "RESOURCE_NOT_FOUND"} \subseteq ErrorCode
      /\ "GetQueueUrl" \in Q!ProviderOp \cap {"GetQueueUrl", "DescribeTable"}
  BY DEF ErrorCode, Q!ProviderOp
<1>4. CASE Missed(c)
  <2>1. \E code \in ErrorCode :
           /\ NoEffect /\ Finish(c, code)
           /\ code = "RESOURCE_NOT_FOUND" => Missable(About(c))
    BY <1>3, <1>4 DEF Missed
  <2> QED
    BY <1>0, <1>1, <2>1, ChangeCall
<1>5. CASE Q!CreateQueue(c)
  <2>1. CASE NoEffect /\ Finish(c, "RESOURCE_CONFLICT")
    BY <1>0, <1>1, <1>3, <2>1, ChangeCall
  <2>2. CASE /\ About(c) \notin leaving /\ UNCHANGED stages
             /\ Effect(c, present \cup {About(c)})
             /\ Proceed(c, "GetQueueUrl") \/ Raise(c)
    <3>1. Staged
      BY <1>0, <1>1, <2>2 DEF Effect, Staged, stages, Phase
    <3> QED
      BY <1>0, <1>1, <1>2, <1>3, <1>5, <2>2, <3>1, ChangeCall
  <2> QED
    BY <1>0, <1>5, <2>1, <2>2, QueueWords DEF Q!CreateQueue, Q!stages, stages
<1>6. CASE Q!DeleteQueue(c) /\ ~Missed(c)
  <2>1. /\ Found(c) /\ Effect(c, present \ {About(c)}) /\ UNCHANGED coming
        /\ leaving' = leaving \cup {About(c)} /\ (Finish(c, "ok") \/ Raise(c))
    BY <1>0, <1>6, QueueWords DEF Q!DeleteQueue, Q!QueueGoes
  <2>2. Staged
    BY <1>0, <2>1 DEF Effect, Found, Findable, Staged
  <2> QED
    BY <1>0, <1>1, <1>2, <1>6, <2>1, <2>2, ChangeCall
<1>7. CASE Q!ChangeMessages(c) /\ ~Missed(c)
  <2>1. Effect(c, present) /\ UNCHANGED stages /\ (Finish(c, "ok") \/ Raise(c))
    BY <1>7, QueueWords DEF Q!ChangeMessages, Q!stages, stages
  <2>2. Staged
    BY <1>0, <2>1 DEF Effect, Staged, stages
  <2> QED
    BY <1>0, <1>1, <1>2, <1>7, <2>1, <2>2, ChangeCall
<1> QED
  BY <1>4, <1>5, <1>6, <1>7

\* Every step of SqsService is a call.
LEMMA QueueCalls ==
    ASSUME QueueInv, NEW c \in Client, Q!Step(c) \/ Q!CallFails(c)
    PROVE  Call(c, Q!ProviderOp) /\ Own(c)'
<1>0. /\ TypeOKFor(Q!ProviderOp, Q!Kind)
      /\ Own(c) /\ Phase(c) /\ Watched(c)
      /\ "describe" \in Q!ProviderOp
  BY DEF QueueInv, Requests, Common, Own, Q!ProviderOp
<1>1. CASE Q!CreateQueue(c) \/ Q!DeleteQueue(c) \/ Q!ChangeMessages(c)
  BY <1>1, QueueChanges
<1>2. CASE Q!GetQueueUrl(c) \/ Q!GetQueueAttributes(c) \/ Q!ReceiveMessage(c)
  <2>1. /\ pc[c] # "idle" /\ req[c].kind # "list" /\ NoEffect /\ SameListing
        /\ pc[c] # "GetQueueUrl" => done[c] \/ req[c].kind \in Reading
    BY <1>0, <1>2, QueueWords
    DEF Q!GetQueueUrl, Q!GetQueueAttributes, Q!ReceiveMessage, Missed, Phase, Reading
  <2>2. CASE Missed(c)
    BY <1>0, <2>1, <2>2, LookCall DEF Missed
  <2>3. CASE Q!GetQueueUrl(c) /\ ~Missed(c)
    <3>1. /\ pc[c] = "GetQueueUrl"
          /\ req[c].kind \in {"create", "get", "delete", "send", "receive", "discard"}
          /\ done[c] <=> req[c].kind = "create"
      BY <1>0, <2>3 DEF Q!GetQueueUrl, Phase
    <3>2. Q!AfterUrl[req[c].kind] \in Q!ProviderOp
      BY <3>1 DEF Q!AfterUrl, Q!ProviderOp
    <3>3. Proceed(c, Q!AfterUrl[req[c].kind])
      BY <2>3, QueueWords DEF Q!GetQueueUrl
    <3>4. /\ req' = req /\ pc'[c] = Q!AfterUrl[req[c].kind] /\ done' = done
      BY <1>0, <2>1, <3>3 DEF Proceed, TypeOKFor, NoEffect
    <3>5. Phase(c)'
      BY <1>0, <3>1, <3>4 DEF Phase, Q!AfterUrl, About
    <3> QED
      BY <1>0, <2>1, <3>2, <3>3, <3>5, LookCall
  <2>4. CASE (Q!GetQueueAttributes(c) \/ Q!ReceiveMessage(c)) /\ ~Missed(c)
    <3>1. pc[c] # "GetQueueUrl"
      BY <2>4 DEF Q!GetQueueAttributes, Q!ReceiveMessage
    <3>2. Finish(c, "ok")
      BY <2>4, QueueWords DEF Q!GetQueueAttributes, Q!ReceiveMessage
    <3> QED
      BY <1>0, <2>1, <3>1, <3>2, LookCall
  <2> QED
    BY <1>2, <2>2, <2>3, <2>4
<1>3. CASE Q!ListQueues(c)
  BY <1>0, <1>3, QueueWords, AskForNamesCall DEF Q!ListQueues, Phase
<1>4. CASE Q!DescribeNext(c) \/ Q!ListDone(c)
  BY <1>0, <1>4, QueueWords, DescribeCall
<1>5. CASE Q!CallFails(c)
  BY <1>0, <1>5, QueueWords, FaultCall
<1> QED
  BY <1>1, <1>2, <1>3, <1>4, <1>5 DEF Q!Step

\* Nothing is on its way in.
LEMMA QueuesAtOnce ==
    ASSUME coming = {}, NEW c \in Client, Q!Request(c) \/ Q!Step(c) \/ Q!CallFails(c)
    PROVE  coming' = {}
<1>1. \/ UNCHANGED coming
      \/ NoEffect
  BY QueueWords
  DEF Q!Request, Q!Ask, Q!Step, Q!CreateQueue, Q!GetQueueUrl, Q!GetQueueAttributes, Q!DeleteQueue,
      Q!QueueGoes, Q!ChangeMessages, Q!ReceiveMessage, Q!ListQueues, AskForNames, DescribeNext,
      ListDone, CallFails, Missed, Q!stages
<1> QED
  BY <1>1 DEF NoEffect, stages

\* Every step keeps the invariant, and is one of the directory's or hidden.
LEMMA QueueSteps ==
    QueueInv /\ [Q!Next]_Q!vars => QueueInv' /\ [Directory!Next]_Directory!vars
<1> SUFFICES ASSUME QueueInv, [Q!Next]_Q!vars
             PROVE  QueueInv' /\ [Directory!Next]_Directory!vars
  OBVIOUS
<1>0. "idle" \notin Q!ProviderOp
  BY DEF Q!ProviderOp
<1>1. CASE UNCHANGED Q!vars \/ \E n \in Name : Q!Vanish(n)
  <2>1. /\ UNCHANGED <<present, local, done, always, ever>>
        /\ coming' = coming /\ leaving' \subseteq leaving
    BY <1>1 DEF Q!vars, Q!baseVars, Q!stages, Q!local, local, Q!Vanish
  <2> QED
    BY <2>1, StagesStep DEF QueueInv
<1>2. ASSUME NEW c \in Client, Q!Request(c)
      PROVE  QueueInv' /\ Directory!Next
  <2>1. /\ DOMAIN Q!AfterUrl = {"create", "get", "delete", "send", "receive", "discard"}
        /\ Q!Kind = DOMAIN Q!AfterUrl \cup {"list"}
        /\ {"CreateQueue", "GetQueueUrl", "ListQueues"} \subseteq Q!ProviderOp
    BY DEF Q!AfterUrl, Q!Kind, Q!ProviderOp
  <2>2. ASSUME NEW kind, NEW name, NEW first, Q!Ask(c, kind, name, first)
        PROVE  Ask(c, kind, name, first)
    BY <2>2 DEF Q!Ask, Ask, Q!Scope, Scope, Q!stages, stages
  <2>3. PICK kind \in Q!Kind, name \in Name \cup {NoName}, first \in Q!ProviderOp :
           /\ Ask(c, kind, name, first)
           /\ IF kind = "list" THEN name = NoName ELSE name \in Name
           /\ \/ kind = "create" /\ first \in {"CreateQueue", "CreateBucket", "CreateTable"}
              \/ /\ kind \in {"get", "delete", "send", "receive", "discard"}
                 /\ first = "GetQueueUrl"
              \/ kind = "list" /\ first \in {"ListQueues", "ListBuckets", "ListTables"}
    BY <1>2, <2>1, <2>2 DEF Q!Request
  <2> QED
    BY <1>0, <1>2, <2>3, AskStep, QueuesAtOnce DEF QueueInv
<1>3. ASSUME NEW c \in Client, Q!Step(c) \/ Q!CallFails(c)
      PROVE  QueueInv' /\ [Directory!Next]_Directory!vars
  BY <1>0, <1>3, QueueCalls, CallStep, QueuesAtOnce DEF QueueInv
<1> QED
  BY <1>1, <1>2, <1>3 DEF Q!Next

LEMMA QueueStarts == Q!Init => QueueInv /\ Directory!Init
<1> SUFFICES ASSUME Q!Init PROVE QueueInv /\ Directory!Init
  OBVIOUS
<1>1. Init
  BY DEF Q!Init, Init
<1> QED
  BY <1>1, InitRequests DEF QueueInv, Init

\* The inductive invariant of SqsService.
THEOREM QueuesInvariant == Q!Spec => []QueueInv
  BY QueueStarts, QueueSteps, PTL DEF Q!Spec

\* The type invariant.
THEOREM QueuesTyped == Q!Spec => []Q!TypeOK
<1>1. QueueInv => Q!TypeOK
  BY RequestsMean DEF QueueInv, TypeOKFor, ErrorCode, Q!TypeOK, Q!TypeOKFor, Q!ErrorCode
<1> QED
  BY <1>1, QueuesInvariant, PTL

\* "Not found" is the truth about some moment of the request, for every
\* request of SqsService and although queues come and go between its calls.
THEOREM QueuesHonest == Q!Spec => []NotFoundHonest
<1>1. QueueInv => NotFoundHonest
  BY RequestsMean DEF QueueInv
<1> QED
  BY <1>1, QueuesInvariant, PTL

\* list_queues shows no queue that never was, and every queue that was there
\* all the time unless the one ListQueues call held some back
\* (sqs_service.py:32).
THEOREM QueuesListed == Q!Spec => []ListHonestWithinLimit
<1>1. QueueInv => ListHonestWithinLimit
  BY RequestsMean DEF QueueInv
<1> QED
  BY <1>1, QueuesInvariant, PTL

\* SqsService implements the directory, although most of its requests take
\* two calls and creating a queue takes three.
THEOREM QueuesImplemented == Q!Spec => DirectoryImplemented
  BY QueuesInvariant, QueueStarts, QueueSteps, PTL
  DEF Q!Spec, DirectoryImplemented, Directory!Spec

----------------------------------------------------------------------------
(* BucketService.                                                           *)

BucketInv ==
    /\ Requests(B!ProviderOp, B!Kind)
    /\ coming = {} /\ leaving = {}
    /\ tagged \subseteq present
    /\ tags \in [Client -> {"none", "empty", "some"}]
    /\ swallowed \in [Client -> {"none", "NoSuchTagSet", "NoSuchBucket"}]

\* The bucket service's words are those of this module.
LEMMA BucketErrors == \A exc : B!ErrorOf(exc) = ErrorOf(exc)
<1>1. B!FailureErrors = FailureErrors
  BY DEF B!FailureErrors, FailureErrors
<1>2. B!ClientErrorMap = ClientErrorMap
  BY DEF B!ClientErrorMap, ClientErrorMap
<1>3. ASSUME NEW exc PROVE B!Translate(exc) = Translate(exc)
  BY <1>2, Zenon DEF B!Translate, Translate
<1> QED
  BY <1>1, <1>3 DEF B!ErrorOf, ErrorOf

LEMMA BucketWords ==
    ASSUME NEW c \in Client
    PROVE  /\ B!Found(c) <=> Found(c)
           /\ B!There(c) <=> About(c) \in present
           /\ B!NoEffect <=> NoEffect
           /\ B!SameListing <=> SameListing
           /\ B!Raise(c) <=> Raise(c)
           /\ B!CallFails(c) <=> CallFails(c)
           /\ B!Missed(c) <=> Missed(c)
           /\ \A R : B!Effect(c, R) <=> Effect(c, R)
           /\ \A op : B!Proceed(c, op) <=> Proceed(c, op)
           /\ \A result : B!Finish(c, result) <=> Finish(c, result)
           /\ \A result : B!Conclude(c, result) <=> Conclude(c, result)
           /\ \A exc : B!Meet(c, exc) <=> Meet(c, exc)
<1>1. /\ B!NoEffect <=> NoEffect
      /\ B!SameListing <=> SameListing
      /\ \A R : B!Effect(c, R) <=> Effect(c, R)
      /\ \A op : B!Proceed(c, op) <=> Proceed(c, op)
      /\ \A result : B!Finish(c, result) <=> Finish(c, result)
      /\ \A result : B!Conclude(c, result) <=> Conclude(c, result)
      /\ \A n : B!Missable(n) <=> Missable(n)
      /\ B!Findable = Findable /\ B!About(c) = About(c)
  BY DEF B!NoEffect, NoEffect, B!SameListing, SameListing, B!Effect, Effect, B!Proceed, Proceed,
         B!Finish, Finish, B!Conclude, Conclude, B!Missable, Missable, B!Findable, Findable,
         B!About, About, B!stages, stages, B!Scope, Scope
<1>2. \A exc : B!Meet(c, exc) <=> Meet(c, exc)
  BY BucketErrors DEF B!Meet, Meet
<1>3. B!Raise(c) <=> Raise(c)
  BY BucketErrors, <1>1, <1>2 DEF B!Raise, Raise
<1>4. /\ B!Found(c) <=> Found(c)
      /\ B!There(c) <=> About(c) \in present
      /\ B!CallFails(c) <=> CallFails(c)
      /\ B!Missed(c) <=> Missed(c)
  BY <1>1, <1>3
  DEF B!Found, Found, B!There, B!CallFails, CallFails, B!Missed, Missed
<1> QED
  BY <1>1, <1>2, <1>3, <1>4

\* What GetBucketTagging answers without tags means "not found" ...
LEMMA NoTagsIsNotFound ==
    ASSUME NEW c \in Client
    PROVE  B!MeansNoTags(B!ErrorOf([kind |-> "client", aws |-> B!NoTagsError(c)]).code)
<1>1. PICK aws \in {"NoSuchTagSet", "NoSuchBucket"} : aws = B!NoTagsError(c)
  BY DEF B!NoTagsError
<1>2. \E row \in B!ClientErrorMap : aws \in row.aws
  BY <1>1 DEF B!ClientErrorMap
<1>3. \A row \in B!ClientErrorMap : aws \in row.aws => row.code = "RESOURCE_NOT_FOUND"
  BY <1>1 DEF B!ClientErrorMap
<1> QED
  BY <1>1, <1>2, <1>3 DEF B!ErrorOf, B!Translate, B!MeansNoTags

\* ... and no fault does.
LEMMA FaultIsNoAnswer ==
    ASSUME NEW exc \in Fault
    PROVE  ~B!MeansNoTags(B!ErrorOf(exc).code)
  BY BucketErrors, FaultCodes, Codes DEF B!MeansNoTags

\* The call for the tags: a bucket's own errors are dropped, a fault is told.
LEMMA TaggingEnds ==
    ASSUME NEW c \in Client, B!GetBucketTagging(c)
    PROVE  /\ Finish(c, "ok") \/ Raise(c)
           /\ \/ UNCHANGED swallowed
              \/ swallowed' = [swallowed EXCEPT ![c] = B!NoTagsError(c)]
           /\ \E found_out \in {"empty", "some"} :
                 UNCHANGED tags \/ tags' = [tags EXCEPT ![c] = found_out]
<1>1. CASE /\ tags' = [tags EXCEPT ![c] = "some"]
           /\ B!Finish(c, "ok")
           /\ UNCHANGED swallowed
  BY <1>1, BucketWords
<1>2. CASE /\ B!TaggingFailed(c, [kind |-> "client", aws |-> B!NoTagsError(c)], B!NoTagsError(c))
           /\ UNCHANGED fault
  <2>1. /\ swallowed' = [swallowed EXCEPT ![c] = B!NoTagsError(c)]
        /\ tags' = [tags EXCEPT ![c] = "empty"]
        /\ B!Conclude(c, "ok")
    BY <1>2, NoTagsIsNotFound DEF B!TaggingFailed
  <2> QED
    BY <1>2, <2>1, BucketWords DEF Finish
<1>3. ASSUME NEW exc \in Fault, B!Meet(c, exc), B!TaggingFailed(c, exc, "fault")
      PROVE  Raise(c) /\ UNCHANGED <<tags, swallowed>>
  <2>1. B!Conclude(c, B!ErrorOf(exc).code) /\ UNCHANGED <<tags, swallowed>>
    BY <1>3, FaultIsNoAnswer DEF B!TaggingFailed
  <2> QED
    BY <1>3, <2>1, BucketWords, BucketErrors DEF Raise
<1> QED
  BY <1>1, <1>2, <1>3 DEF B!GetBucketTagging

\* Creating and deleting.
LEMMA BucketChanges ==
    ASSUME BucketInv, NEW c \in Client, B!CreateBucket(c) \/ B!DeleteBucket(c)
    PROVE  Call(c, B!ProviderOp) /\ Own(c)'
<1>0. /\ TypeOKFor(B!ProviderOp, B!Kind) /\ Phase(c) /\ coming = {} /\ leaving = {}
      /\ present \subseteq Name
      /\ B!About(c) = About(c)
      /\ {"RESOURCE_CONFLICT", "RESOURCE_ALREADY_EXISTS", "RESOURCE_NOT_FOUND"} \subseteq ErrorCode
  BY DEF BucketInv, Requests, Common, Own, TypeOKFor, B!About, About, ErrorCode
<1>1. /\ pc[c] # "idle" /\ ~done[c] /\ SameListing
      /\ req[c].kind \notin Reading \cup {"list"}
      /\ B!CreateBucket(c) => req[c].kind = "create"
      /\ B!DeleteBucket(c) => req[c].kind = "delete"
  BY <1>0, BucketWords DEF B!CreateBucket, B!DeleteBucket, B!BucketGoes, Missed, Phase, Reading
<1>2. /\ B!CreateBucket(c) => Directory!Result(req[c]) = present \cup {About(c)}
      /\ B!DeleteBucket(c) => Directory!Result(req[c]) = present \ {About(c)}
  BY <1>1 DEF Directory!Result, About
<1>3. ASSUME NEW code \in ErrorCode, NoEffect, Finish(c, code),
             code = "RESOURCE_NOT_FOUND" => Missable(About(c))
      PROVE  Call(c, B!ProviderOp) /\ Own(c)'
  BY <1>0, <1>1, <1>3, ChangeCall
<1>4. ASSUME Effect(c, Directory!Result(req[c])), UNCHANGED stages, Finish(c, "ok") \/ Raise(c)
      PROVE  Call(c, B!ProviderOp) /\ Own(c)'
  <2>1. Staged
    BY <1>0, <1>4 DEF Staged, stages
  <2> QED
    BY <1>0, <1>1, <1>4, <2>1, ChangeCall
<1>5. CASE B!CreateBucket(c)
  <2>1. CASE NoEffect /\ Finish(c, "RESOURCE_ALREADY_EXISTS")
    BY <1>0, <1>3, <2>1
  <2>2. CASE About(c) \in present /\ Effect(c, present) /\ UNCHANGED stages /\ Finish(c, "ok")
    <3>1. present = Directory!Result(req[c])
      BY <1>2, <1>5, <2>2
    <3> QED
      BY <1>4, <2>2, <3>1
  <2>3. CASE /\ Effect(c, present \cup {About(c)}) /\ UNCHANGED stages
             /\ Finish(c, "ok") \/ Raise(c)
    BY <1>2, <1>4, <1>5, <2>3
  <2> QED
    BY <1>0, <1>5, <2>1, <2>2, <2>3, BucketWords DEF B!CreateBucket, B!stages, stages
<1>6. CASE B!DeleteBucket(c)
  <2>1. CASE Missed(c)
    BY <1>0, <1>3, <2>1 DEF Missed
  <2>2. CASE NoEffect /\ Finish(c, "RESOURCE_CONFLICT")
    BY <1>0, <1>3, <2>2
  <2>3. CASE /\ Effect(c, present \ {About(c)}) /\ UNCHANGED stages
             /\ Finish(c, "ok") \/ Raise(c)
    BY <1>2, <1>4, <1>6, <2>3
  <2> QED
    BY <1>0, <1>6, <2>1, <2>2, <2>3, BucketWords
    DEF B!DeleteBucket, B!BucketGoes, B!stages, stages
<1> QED
  BY <1>5, <1>6

\* Every step of S3Service is a call.
LEMMA BucketCalls ==
    ASSUME BucketInv, NEW c \in Client, B!Step(c)
    PROVE  Call(c, B!ProviderOp) /\ Own(c)'
<1>0. /\ TypeOKFor(B!ProviderOp, B!Kind)
      /\ Own(c) /\ Phase(c) /\ Watched(c)
      /\ coming = {} /\ leaving = {} /\ present \subseteq Name
  BY DEF BucketInv, Requests, Common, Own, TypeOKFor
<1>1. CASE B!CreateBucket(c) \/ B!DeleteBucket(c)
  BY <1>1, BucketChanges
<1>2. CASE B!Look(c) \/ B!GetBucketTagging(c)
  <2>1. /\ pc[c] \in {"HeadBucket", "GetBucketLocation", "GetBucketTagging"}
        /\ pc[c] # "idle" /\ req[c].kind = "get" /\ req[c].kind \in Reading
        /\ req[c].kind # "list" /\ NoEffect /\ SameListing
    BY <1>0, <1>2, BucketWords
    DEF B!Look, B!AfterLook, B!GetBucketTagging, Missed, Phase, Reading
  <2>2. CASE Finish(c, "ok") \/ Raise(c)
    BY <1>0, <2>1, <2>2, LookCall
  <2>3. CASE Missed(c)
    BY <1>0, <2>1, <2>3, LookCall DEF Missed
  <2>4. ASSUME NEW op \in {"GetBucketLocation", "GetBucketTagging"}, Proceed(c, op)
        PROVE  Call(c, B!ProviderOp) /\ Own(c)'
    <3>1. /\ pc \in [Client -> B!ProviderOp \cup {"idle"}] /\ op \in B!ProviderOp
          /\ done' = done
      BY <1>0, <2>1 DEF TypeOKFor, B!ProviderOp, NoEffect
    <3>2. req' = req /\ pc'[c] = op
      BY <2>4, <3>1 DEF Proceed
    <3>3. Phase(c)'
      BY <1>0, <2>1, <3>1, <3>2 DEF Phase, About
    <3> QED
      BY <1>0, <2>1, <2>4, <3>1, <3>3, LookCall
  <2>5. CASE B!Look(c)
    BY <2>3, <2>4, <2>5, BucketWords DEF B!Look, B!AfterLook
  <2>6. CASE B!GetBucketTagging(c)
    BY <2>2, <2>6, TaggingEnds
  <2> QED
    BY <1>2, <2>5, <2>6
<1>3. CASE B!ListBuckets(c)
  <2>1. /\ pc[c] = "ListBuckets" /\ req[c].kind = "list" /\ About(c) = NoName
        /\ NoEffect /\ Finish(c, "ok")
        /\ found' = [found EXCEPT ![c] = present] /\ UNCHANGED <<todo, more>>
    BY <1>0, <1>3, BucketWords DEF B!ListBuckets, Phase
  <2>2. /\ pc \in [Client -> B!ProviderOp \cup {"idle"}]
        /\ found \in [Client -> SUBSET Name]
        /\ todo \in [Client -> SUBSET Name] /\ more \in [Client -> BOOLEAN]
    BY <1>0 DEF TypeOKFor
  <2>3. /\ found' \in [Client -> SUBSET Name] /\ found'[c] = present
        /\ pc'[c] = "idle" /\ req' = req
        /\ always' = always /\ ever' = ever
        /\ \A d \in Client \ {c} :
              todo'[d] = todo[d] /\ found'[d] = found[d] /\ more'[d] = more[d]
    BY <1>0, <2>1, <2>2 DEF Finish, Conclude, NoEffect
  <2>4. Earned(c, "ok")
    BY <2>1 DEF Earned, Reading
  <2>5. Call(c, B!ProviderOp)
    BY <2>1, <2>2, <2>3, <2>4 DEF Call, Ends
  <2>6. /\ always[c] \subseteq present
        /\ present \subseteq ever[c]
    BY <1>0, <2>1 DEF Watched, Findable, Scope
  <2>7. Phase(c)' /\ Progress(c)' /\ Listed(c)'
    BY <1>0, <2>1, <2>3, <2>6 DEF Phase, Progress, Listed, About
  <2> QED
    BY <2>5, <2>7 DEF Own
<1>4. CASE B!CallFails(c)
  BY <1>0, <1>4, BucketWords, FaultCall
<1> QED
  BY <1>1, <1>2, <1>3, <1>4 DEF B!Step

\* What a step does to tags, and to the stages of buckets: nothing.
LEMMA BucketTags ==
    ASSUME BucketInv, NEW c \in Client, B!Request(c) \/ B!Step(c)
    PROVE  /\ coming' = {} /\ leaving' = {}
           /\ tagged' \subseteq present'
           /\ tags' \in [Client -> {"none", "empty", "some"}]
           /\ swallowed' \in [Client -> {"none", "NoSuchTagSet", "NoSuchBucket"}]
<1>0. /\ coming = {} /\ leaving = {}
      /\ tagged \subseteq present
      /\ tags \in [Client -> {"none", "empty", "some"}]
      /\ swallowed \in [Client -> {"none", "NoSuchTagSet", "NoSuchBucket"}]
  BY DEF BucketInv
<1>1. CASE B!Request(c)
  <2>1. present' = present /\ coming' = coming /\ leaving' = leaving
    BY <1>1 DEF B!Request, B!Ask, B!stages
  <2> QED
    BY <1>0, <1>1, <2>1 DEF B!Request
<1>2. CASE B!CreateBucket(c)
  <2>1. present \subseteq present' /\ coming' = coming /\ leaving' = leaving
    BY <1>2 DEF B!CreateBucket, B!NoEffect, B!Effect, B!stages
  <2> QED
    BY <1>0, <1>2, <2>1 DEF B!CreateBucket, B!SameTags
<1>3. CASE B!DeleteBucket(c)
  BY <1>0, <1>3 DEF B!DeleteBucket, B!BucketGoes, B!Missed, B!NoEffect, B!Effect, B!stages
<1>4. CASE B!ListBuckets(c) \/ B!Look(c) \/ (B!CallFails(c) /\ B!SameTags)
  BY <1>0, <1>4
  DEF B!ListBuckets, B!Look, B!Missed, B!CallFails, B!SameTags, B!NoEffect, B!stages
<1>5. CASE B!GetBucketTagging(c)
  <2>1. B!NoTagsError(c) \in {"NoSuchTagSet", "NoSuchBucket"}
    BY DEF B!NoTagsError
  <2>2. /\ present' = present /\ coming' = coming /\ leaving' = leaving /\ tagged' = tagged
    BY <1>5 DEF B!GetBucketTagging, B!NoEffect, B!stages
  <2>3. swallowed' \in [Client -> {"none", "NoSuchTagSet", "NoSuchBucket"}]
    BY <1>0, <1>5, <2>1, TaggingEnds
  <2>4. tags' \in [Client -> {"none", "empty", "some"}]
    BY <1>0, <1>5, TaggingEnds
  <2> QED
    BY <1>0, <2>2, <2>3, <2>4
<1> QED
  BY <1>1, <1>2, <1>3, <1>4, <1>5 DEF B!Step

\* Every step keeps the invariant, and is one of the directory's or hidden.
LEMMA BucketSteps ==
    BucketInv /\ [B!Next]_B!vars => BucketInv' /\ [Directory!Next]_Directory!vars
<1> SUFFICES ASSUME BucketInv, [B!Next]_B!vars
             PROVE  BucketInv' /\ [Directory!Next]_Directory!vars
  OBVIOUS
<1>0. "idle" \notin B!ProviderOp
  BY DEF B!ProviderOp
<1>1. CASE UNCHANGED B!vars \/ \E n \in Name : B!ChangeTags(n)
  <2>1. /\ UNCHANGED <<present, local, done, always, ever>>
        /\ coming' = coming /\ leaving' = leaving
        /\ tagged' \subseteq present' /\ tags' = tags /\ swallowed' = swallowed
    BY <1>1 DEF B!vars, B!baseVars, B!stages, B!local, local, B!ChangeTags, BucketInv
  <2> QED
    BY <2>1, StagesStep DEF BucketInv
<1>2. ASSUME NEW c \in Client, B!Request(c)
      PROVE  BucketInv' /\ Directory!Next
  <2>1. ASSUME NEW kind, NEW name, NEW first, B!Ask(c, kind, name, first)
        PROVE  Ask(c, kind, name, first)
    BY <2>1 DEF B!Ask, Ask, B!Scope, Scope, B!stages, stages
  <2>2. PICK kind \in B!Kind, name \in Name \cup {NoName}, first \in B!ProviderOp :
           /\ Ask(c, kind, name, first)
           /\ IF kind = "list" THEN name = NoName ELSE name \in Name
           /\ \/ kind = "create" /\ first \in {"CreateQueue", "CreateBucket", "CreateTable"}
              \/ kind = "get" /\ first \in {"HeadBucket", "DescribeTable"}
              \/ kind = "delete" /\ first \in {"DeleteBucket", "DeleteTable"}
              \/ kind = "list" /\ first \in {"ListQueues", "ListBuckets", "ListTables"}
    BY <1>2, <2>1 DEF B!Request, B!Kind, B!FirstCall, B!ProviderOp
  <2> QED
    BY <1>0, <1>2, <2>2, AskStep, BucketTags DEF BucketInv
<1>3. ASSUME NEW c \in Client, B!Step(c)
      PROVE  BucketInv' /\ [Directory!Next]_Directory!vars
  BY <1>0, <1>3, BucketCalls, CallStep, BucketTags DEF BucketInv
<1> QED
  BY <1>1, <1>2, <1>3 DEF B!Next

LEMMA BucketStarts == B!BucketInit => BucketInv /\ Directory!Init
<1> SUFFICES ASSUME B!BucketInit PROVE BucketInv /\ Directory!Init
  OBVIOUS
<1>1. Init
  BY DEF B!BucketInit, B!Init, Init
<1> QED
  BY <1>1, InitRequests DEF BucketInv, B!BucketInit, Init

\* The inductive invariant of S3Service.
THEOREM BucketsInvariant == B!Spec => []BucketInv
  BY BucketStarts, BucketSteps, PTL DEF B!Spec

\* The type invariant.
THEOREM BucketsTyped == B!Spec => []B!TypeOK
<1>1. BucketInv => B!TypeOK
  BY RequestsMean DEF BucketInv, TypeOKFor, ErrorCode, B!TypeOK, B!TypeOKFor, B!ErrorCode
<1> QED
  BY <1>1, BucketsInvariant, PTL

\* A failure reaches the client with its own code whichever call it hits, and
\* "not found" is true of some moment of the request.  The call for a bucket's
\* tags is the one whose failures are looked at before they are passed on: the
\* test of the code (s3_service.py:116) keeps them apart only because neither
\* the injector's table nor the translation of a provider in trouble ever
\* yields RESOURCE_NOT_FOUND (FaultCodes), and because what a bucket without
\* tags answers always does (NoTagsIsNotFound).
THEOREM BucketsHonest == B!Spec => [](FaultsSurface /\ NotFoundHonest)
<1>1. BucketInv => FaultsSurface /\ NotFoundHonest
  BY RequestsMean DEF BucketInv
<1> QED
  BY <1>1, BucketsInvariant, PTL

\* S3Service implements the directory.
THEOREM BucketsImplemented == B!Spec => DirectoryImplemented
  BY BucketsInvariant, BucketStarts, BucketSteps, PTL
  DEF B!Spec, DirectoryImplemented, Directory!Spec

=============================================================================
