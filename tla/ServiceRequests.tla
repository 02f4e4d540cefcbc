--------------------------- MODULE ServiceRequests ---------------------------
(***************************************************************************)
(* Requests to a resource service, as sequences of provider calls.         *)
(*                                                                         *)
(* S3Service, SqsService and DynamoDbService turn one request into one or  *)
(* more calls of ProviderService._call, and other clients' calls fall in   *)
(* between.  This module holds what the three have in common: the state of *)
(* a request, the listing that asks for names and then for each of them,   *)
(* how a provider call may fail, and what answers must mean.               *)
(* BucketService, QueueService and TableService extend it.                 *)
(*                                                                         *)
(* A call may fail before the provider did anything (an injected failure,  *)
(* a refusal) or after it did (the answer got lost).                       *)
(*                                                                         *)
(* A provider may take its time over creating and deleting: until it is    *)
(* done, some calls find the resource and some do not.                     *)
(*                                                                         *)
(* `more', `done', `fault', `always' and `ever' are history variables.     *)
(***************************************************************************)
EXTENDS Integers, FiniteSets, ErrorModel

CONSTANTS
    Client,      \* clients of the API, one request at a time each
    Name,        \* names of buckets, queues or tables
    NoName,      \* the name a listing request is about
    Fault,       \* failures of calls, whatever the provider holds
    ListLimit    \* names one answer of a listing call holds at most

\* Errors AWS may answer to a call about anything, "Unknown" standing for
\* those the error table does not have.
TroubleCode ==
    { "AccessDenied", "InvalidAccessKeyId", "InvalidBucketName",
      "ReceiptHandleIsInvalid", "InvalidMessageContents", "ValidationException",
      "SlowDown", "Throttling", "TooManyRequests",
      "ProvisionedThroughputExceededException", "LimitExceededException",
      "RequestTimeout", "ServiceUnavailable", "InternalError", "Unknown" }

ASSUME FaultAssumption ==
    Fault \subseteq [kind : {"injected"}, failure : DOMAIN FailureErrors]
                    \cup [kind : {"client"}, aws : TroubleCode]
                    \cup [kind : {"connection", "botocore"}]

ASSUME NoNameAssumption == NoName \notin Name

ASSUME ListLimitAssumption == ListLimit \in Nat \ {0}

VARIABLES
    present,     \* external: the resources created and not deleted
    coming,      \* external: those the provider is still creating
    leaving,     \* external: deleted ones the provider still has about
    req,         \* what each client asked for: a kind and a name
    pc,          \* the provider call each request is about to make
    todo,        \* names a listing still has to describe
    found,       \* names a listing has described so far
    more,        \* whether the listing call held names back
    answer,      \* "ok", an error code, or "none" while under way
    done,        \* whether a call of the request changed the provider
    fault,       \* the error code of the fault a call of it met, or "none"
    always,      \* of the names it is about: there and ready ever since it began
    ever         \* of the names it is about: around at some time since it began

stages == <<coming, leaving>>
local == <<req, pc, todo, found, more, answer, fault>>
baseVars == <<present, stages, local, done, always, ever>>

Init ==
    /\ present \in SUBSET Name
    /\ coming = {}
    /\ leaving = {}
    /\ req = [c \in Client |-> [kind |-> "none", name |-> NoName]]
    /\ pc = [c \in Client |-> "idle"]
    /\ todo = [c \in Client |-> {}]
    /\ found = [c \in Client |-> {}]
    /\ more = [c \in Client |-> FALSE]
    /\ answer = [c \in Client |-> "none"]
    /\ done = [c \in Client |-> FALSE]
    /\ fault = [c \in Client |-> "none"]
    /\ always = [c \in Client |-> {}]
    /\ ever = [c \in Client |-> {}]

----------------------------------------------------------------------------

About(c) == req[c].name

\* The names a request is about, for its histories.
Scope(name) == IF name = NoName THEN Name ELSE {name}

\* A request comes in; `first' is the first provider call it makes.
Ask(c, kind, name, first) ==
    /\ pc[c] = "idle"
    /\ req' = [req EXCEPT ![c] = [kind |-> kind, name |-> name]]
    /\ pc' = [pc EXCEPT ![c] = first]
    /\ todo' = [todo EXCEPT ![c] = {}]
    /\ found' = [found EXCEPT ![c] = {}]
    /\ more' = [more EXCEPT ![c] = FALSE]
    /\ answer' = [answer EXCEPT ![c] = "none"]
    /\ done' = [done EXCEPT ![c] = FALSE]
    /\ fault' = [fault EXCEPT ![c] = "none"]
    /\ always' = [always EXCEPT ![c] = (present \ coming) \cap Scope(name)]
    /\ ever' = [ever EXCEPT ![c] = (present \cup leaving) \cap Scope(name)]
    /\ UNCHANGED <<present, stages>>

\* What the provider may find at this moment, and what it may miss.
Findable == present \cup leaving

Missable(n) == n \notin present \ coming

SameListing == UNCHANGED <<todo, found, more>>

\* The call succeeded and the request goes on to its next one.
Proceed(c, next) ==
    /\ pc' = [pc EXCEPT ![c] = next]
    /\ UNCHANGED <<req, answer, fault>>

\* The request ends with this answer.
Conclude(c, result) ==
    /\ pc' = [pc EXCEPT ![c] = "idle"]
    /\ answer' = [answer EXCEPT ![c] = result]
    /\ UNCHANGED req

\* The call met no fault, and the request ends with it.
Finish(c, result) == Conclude(c, result) /\ UNCHANGED fault

\* The call failed: _call raises what the failure stands for.
Meet(c, exc) == fault' = [fault EXCEPT ![c] = ErrorOf(exc).code]

\* _call raised, and the service does not catch it.
Raise(c) == \E exc \in Fault : Meet(c, exc) /\ Conclude(c, ErrorOf(exc).code)

\* The call changed nothing.
NoEffect == UNCHANGED <<present, stages, done, always, ever>>

\* The call takes effect, and turns the set of resources into this one.
Effect(c, resources) ==
    /\ present' = resources
    /\ done' = [done EXCEPT ![c] = TRUE]
    /\ always' = [d \in Client |->
                    IF pc[d] = "idle" THEN always[d] ELSE always[d] \cap resources]
    /\ ever' = [d \in Client |->
                  IF pc[d] = "idle" THEN ever[d]
                  ELSE ever[d] \cup (resources \cap Scope(About(d)))]

\* What the request is about is found, or it is not.
Found(c) == About(c) \in Findable

Missed(c) ==
    /\ Missable(About(c))
    /\ Finish(c, "RESOURCE_NOT_FOUND")
    /\ NoEffect
    /\ SameListing

\* Any call may fail before the provider did anything.  A listing that has
\* described everything makes no more calls, and _get_bucket_tags catches.
CallFails(c) ==
    /\ pc[c] \notin {"idle", "GetBucketTagging"}
    /\ pc[c] = "describe" => todo[c] # {}
    /\ Raise(c)
    /\ NoEffect
    /\ SameListing

\* External: the provider is done creating, or done deleting.
Activate(n) ==
    /\ n \in coming
    /\ coming' = coming \ {n}
    /\ UNCHANGED <<present, leaving, local, done, always, ever>>

Vanish(n) ==
    /\ n \in leaving
    /\ leaving' = leaving \ {n}
    /\ UNCHANGED <<present, coming, local, done, always, ever>>

----------------------------------------------------------------------------
(* Listing queues or tables: the names, then each of them.                 *)

\* One listing call, whose next token nobody follows: names beyond the
\* provider's limit are left out.
AskForNames(c) ==
    /\ \E names \in SUBSET Findable :
          /\ Cardinality(names) <= ListLimit
          /\ present \ coming \subseteq names \/ Cardinality(names) = ListLimit
          /\ todo' = [todo EXCEPT ![c] = names]
          /\ more' = [more EXCEPT ![c] = ~(present \ coming \subseteq names)]
    /\ Proceed(c, "describe")
    /\ NoEffect
    /\ UNCHANGED found

\* Mutant of DescribeNext: a resource that is gone is passed over in silence
\* and ends the listing.
DescribeNextStops(c) ==
    /\ pc[c] = "describe"
    /\ \E n \in todo[c] :
          \/ /\ n \in Findable
             /\ todo' = [todo EXCEPT ![c] = @ \ {n}]
             /\ found' = [found EXCEPT ![c] = @ \cup {n}]
             /\ UNCHANGED <<req, pc, answer, fault>>
          \/ Missable(n) /\ Finish(c, "ok") /\ UNCHANGED <<todo, found>>
    /\ NoEffect
    /\ UNCHANGED more

\* Mutant of DescribeNext: any error of describing one drops it from the list.
DescribeNextSkips(c) ==
    /\ pc[c] = "describe"
    /\ \E n \in todo[c] :
          /\ todo' = [todo EXCEPT ![c] = @ \ {n}]
          /\ \/ n \in Findable /\ found' = [found EXCEPT ![c] = @ \cup {n}]
             \/ Missable(n) /\ UNCHANGED found
             \/ Fault # {} /\ UNCHANGED found
    /\ UNCHANGED <<req, pc, answer, fault>>
    /\ NoEffect
    /\ UNCHANGED more

\* Mutant of DescribeNext: the one just described is described again.
DescribeNextAgain(c) ==
    /\ pc[c] = "describe"
    /\ \E n \in todo[c] :
          \/ /\ n \in Findable
             /\ found' = [found EXCEPT ![c] = @ \cup {n}]
             /\ UNCHANGED <<todo, req, pc, answer, fault>>
          \/ Missable(n) /\ Finish(c, "RESOURCE_NOT_FOUND") /\ UNCHANGED <<todo, found>>
    /\ NoEffect
    /\ UNCHANGED more

\* One name of the listing is described.  The error of one deleted since
\* fails the whole listing.
DescribeNext(c) ==
    /\ pc[c] = "describe"
    /\ \E n \in todo[c] :
          \/ /\ n \in Findable
             /\ todo' = [todo EXCEPT ![c] = @ \ {n}]
             /\ found' = [found EXCEPT ![c] = @ \cup {n}]
             /\ UNCHANGED <<req, pc, answer, fault>>
          \/ Missable(n) /\ Finish(c, "RESOURCE_NOT_FOUND") /\ UNCHANGED <<todo, found>>
    /\ NoEffect
    /\ UNCHANGED more

ListDone(c) ==
    /\ pc[c] = "describe"
    /\ todo[c] = {}
    /\ Finish(c, "ok")
    /\ NoEffect
    /\ SameListing

----------------------------------------------------------------------------
(* Properties                                                              *)

Reading == {"get", "list", "receive", "scan"}

TypeOKFor(calls, kinds) ==
    /\ present \subseteq Name
    /\ coming \subseteq present
    /\ leaving \subseteq Name \ present
    /\ req \in [Client -> [kind : kinds \cup {"none"}, name : Name \cup {NoName}]]
    /\ pc \in [Client -> calls \cup {"idle"}]
    /\ todo \in [Client -> SUBSET Name]
    /\ found \in [Client -> SUBSET Name]
    /\ more \in [Client -> BOOLEAN]
    /\ answer \in [Client -> ErrorCode \cup {"ok", "none"}]
    /\ done \in [Client -> BOOLEAN]
    /\ fault \in [Client -> ErrorCode \cup {"none"}]
    /\ always \in [Client -> SUBSET Name]
    /\ ever \in [Client -> SUBSET Name]

\* A request that is answered "not found" is told the truth: what it named,
\* or one of the resources it listed, was not there and ready at some time
\* while it ran.
NotFoundHonest ==
    \A c \in Client : answer[c] = "RESOURCE_NOT_FOUND" =>
       IF req[c].kind = "list"
       THEN ever[c] \ always[c] # {}
       ELSE About(c) \notin always[c]

\* A listing shows no resource that never was, and every one that was there
\* all the time, although it asks about each of them separately - as far as
\* one answer of the listing call reaches.  Beyond that it fails: list_queues
\* and list_tables follow no token and hand over no cursor, so the resources
\* that did not fit are left out in silence.
ListHonestWithinLimit ==
    \A c \in Client : req[c].kind = "list" /\ answer[c] = "ok" =>
       /\ found[c] \subseteq ever[c]
       /\ more[c] \/ always[c] \subseteq found[c]

\* A failure reaches the client whichever call of the request it hits, with
\* the code it stands for: no service takes it for an answer of its own, and
\* what _get_bucket_tags drops is none of the injector's or of a provider in
\* trouble.
FaultsSurface ==
    \A c \in Client : fault[c] # "none" => answer[c] = fault[c]

Directory ==
    INSTANCE ResourceDirectory
      WITH busy <- [c \in Client |-> pc[c] # "idle"],
           answer <- [c \in Client |->
                        IF answer[c] \in ErrorCode THEN "failed" ELSE answer[c]]

\* The service implements the directory: no request takes effect twice, after
\* its answer, or not at all although it was answered with success.
DirectoryImplemented == Directory!Spec

\* Every request is answered.
RequestAnswered == \A c \in Client : pc[c] # "idle" ~> pc[c] = "idle"

=============================================================================
