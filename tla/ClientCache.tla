----------------------------- MODULE ClientCache -----------------------------
(***************************************************************************)
(* CloudProvider.get_client (app/providers/localstack_provider.py and      *)
(* aws_provider.py): one boto3 client per service, built on first use and  *)
(* kept in a dict that all threads share without a lock.                   *)
(*                                                                         *)
(*   out --(cached)------------------> call --> out                        *)
(*     \--(not there)--> build --(stored)-/                                *)
(*                          \--(raised)--------> out                       *)
(*                                                                         *)
(* Between the check and the store a thread builds a client, which takes   *)
(* a while, and others may find the dict empty too: each then stores its   *)
(* own over the last.  The dict is never emptied, so what matters of it is *)
(* how many clients were ever stored.                                      *)
(***************************************************************************)
EXTENDS Integers, FiniteSets

CONSTANTS
    Actor,       \* threads that call the provider
    Service,     \* services they ask a client for
    NoService

VARIABLES
    built,       \* clients stored so far, by service; none cached while 0
    stage,       \* where each thread is in get_client or the call after it
    svc          \* the service each thread is at

cacheVars == <<built, stage, svc>>

CacheInit ==
    /\ built = [s \in Service |-> 0]
    /\ stage = [a \in Actor |-> "out"]
    /\ svc = [a \in Actor |-> NoService]

CacheTypeOK ==
    /\ built \in [Service -> Nat]
    /\ stage \in [Actor -> {"out", "build", "call"}]
    /\ svc \in [Actor -> Service \cup {NoService}]

\* Mutant of Enter: the dict is not looked at.
EnterUnchecked(a, s) ==
    /\ stage[a] = "out"
    /\ stage' = [stage EXCEPT ![a] = "build"]
    /\ svc' = [svc EXCEPT ![a] = s]
    /\ UNCHANGED built

Enter(a, s) ==
    /\ stage[a] = "out"
    /\ stage' = [stage EXCEPT ![a] = IF built[s] = 0 THEN "build" ELSE "call"]
    /\ svc' = [svc EXCEPT ![a] = s]
    /\ UNCHANGED built

\* The client is stored; what is returned is read from the dict again.
Store(a) ==
    /\ stage[a] = "build"
    /\ built' = [built EXCEPT ![svc[a]] = @ + 1]
    /\ stage' = [stage EXCEPT ![a] = "call"]
    /\ UNCHANGED svc

\* boto3 cannot build the client, or the provider call comes to an end.
Leave(a) ==
    /\ stage[a] \in {"build", "call"}
    /\ stage' = [stage EXCEPT ![a] = "out"]
    /\ svc' = [svc EXCEPT ![a] = NoService]
    /\ UNCHANGED built

=============================================================================
