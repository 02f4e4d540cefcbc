----------------------------- MODULE QueueService -----------------------------
(***************************************************************************)
(* SqsService (app/services/sqs_service.py).  SQS addresses queues by URL, *)
(* the API by name, so nearly every request begins with GetQueueUrl; the   *)
(* URL is a function of the name.  Messages are external; what a request   *)
(* about one does is whether it took effect.                               *)
(*                                                                         *)
(* A queue is there as soon as it is created.  For a while after it is     *)
(* deleted (a minute in AWS, no time in an emulator) calls may still find  *)
(* it, and its name cannot be used again.                                  *)
(***************************************************************************)
EXTENDS ServiceRequests

vars == baseVars

ProviderOp ==
    { "CreateQueue", "GetQueueUrl", "GetQueueAttributes", "DeleteQueue",
      "SendMessage", "ReceiveMessage", "DeleteMessage", "ListQueues", "describe" }

\* What each request goes on to do once it has the queue's URL.
AfterUrl ==
    [ create  |-> "GetQueueAttributes",
      get     |-> "GetQueueAttributes",
      delete  |-> "DeleteQueue",
      send    |-> "SendMessage",
      receive |-> "ReceiveMessage",
      discard |-> "DeleteMessage" ]

Kind == DOMAIN AfterUrl \cup {"list"}

Request(c) ==
    \/ \E n \in Name :
          \/ Ask(c, "create", n, "CreateQueue")
          \/ \E kind \in DOMAIN AfterUrl \ {"create"} : Ask(c, kind, n, "GetQueueUrl")
    \/ Ask(c, "list", NoName, "ListQueues")

\* Creating a queue that is there already is no error in SQS; one deleted a
\* moment ago cannot be created again (QueueDeletedRecently).
CreateQueue(c) ==
    /\ pc[c] = "CreateQueue"
    /\ \/ /\ About(c) \notin leaving
          /\ Effect(c, present \cup {About(c)}) /\ UNCHANGED stages
          /\ Proceed(c, "GetQueueUrl") \/ Raise(c)
       \/ About(c) \in leaving /\ NoEffect /\ Finish(c, "RESOURCE_CONFLICT")
    /\ SameListing

\* Mutant of GetQueueUrl: whatever goes wrong, the queue is said not to exist.
GetQueueUrlBlamesName(c) ==
    /\ pc[c] = "GetQueueUrl"
    /\ \/ Found(c) /\ Proceed(c, AfterUrl[req[c].kind])
       \/ Finish(c, "RESOURCE_NOT_FOUND")
    /\ NoEffect
    /\ SameListing

GetQueueUrl(c) ==
    /\ pc[c] = "GetQueueUrl"
    /\ \/ Found(c) /\ Proceed(c, AfterUrl[req[c].kind]) /\ NoEffect /\ SameListing
       \/ Missed(c)

\* _describe_queue, the end of create_queue and of get_queue.
GetQueueAttributes(c) ==
    /\ pc[c] = "GetQueueAttributes"
    /\ \/ Found(c) /\ Finish(c, "ok") /\ NoEffect /\ SameListing
       \/ Missed(c)

\* What DeleteQueue does to a queue, again if it is on its way out already.
QueueGoes(c) ==
    /\ Effect(c, present \ {About(c)})
    /\ leaving' = leaving \cup {About(c)}
    /\ Finish(c, "ok") \/ Raise(c)
    /\ UNCHANGED coming
    /\ SameListing

\* Mutant of DeleteQueue: the provider's error is taken for a success.
DeleteQueueAlwaysOk(c) ==
    /\ pc[c] = "DeleteQueue"
    /\ \/ Found(c) /\ QueueGoes(c)
       \/ Missable(About(c)) /\ NoEffect /\ Finish(c, "ok") /\ SameListing

DeleteQueue(c) ==
    /\ pc[c] = "DeleteQueue"
    /\ \/ Found(c) /\ QueueGoes(c)
       \/ Missed(c)

\* SendMessage and DeleteMessage change the queue's messages only.
ChangeMessages(c) ==
    /\ pc[c] \in {"SendMessage", "DeleteMessage"}
    /\ \/ /\ Found(c)
          /\ Effect(c, present)
          /\ Finish(c, "ok") \/ Raise(c)
          /\ UNCHANGED stages
          /\ SameListing
       \/ Missed(c)

ReceiveMessage(c) ==
    /\ pc[c] = "ReceiveMessage"
    /\ \/ Found(c) /\ Finish(c, "ok") /\ NoEffect /\ SameListing
       \/ Missed(c)

\* list_queues asks for the URLs, then for each queue's attributes.
ListQueues(c) == pc[c] = "ListQueues" /\ AskForNames(c)

Step(c) ==
    \/ CreateQueue(c)
    \/ GetQueueUrl(c)
    \/ GetQueueAttributes(c)
    \/ DeleteQueue(c)
    \/ ChangeMessages(c)
    \/ ReceiveMessage(c)
    \/ ListQueues(c)
    \/ DescribeNext(c)
    \/ ListDone(c)

Next ==
    \/ \E c \in Client : Request(c) \/ Step(c) \/ CallFails(c)
    \/ \E n \in Name : Vanish(n)

Spec == Init /\ [][Next]_vars

\* A request that came in is worked on until it is answered; no call has to
\* fail for that.
FairSpec == Spec /\ \A c \in Client : WF_vars(Step(c))

----------------------------------------------------------------------------
(* Properties: those of ServiceRequests, and                               *)

\* Types.
TypeOK == TypeOKFor(ProviderOp, Kind)

=============================================================================
