------------------------------- MODULE Cloudctl -------------------------------
(***************************************************************************)
(* The command line tool (cli/cloudctl) against the API it talks to, seen  *)
(* from the terminals: commands run side by side, each an exchange of      *)
(* requests and answers with a process that may be slow, stopped or        *)
(* started anew in between.                                                *)
(*                                                                         *)
(*   command:  running --> "ok" (exit 0), "error" (a message and exit 1),  *)
(*                         "traceback" (an exception nobody catches)       *)
(*   request:  "sent" --> "done", "refused" or "lost" with the process,    *)
(*                         whether or not the command still waits          *)
(*                                                                         *)
(* A command waits ten seconds.  A request waits for a pool thread of the  *)
(* API, and those may be taken for longer; the API serves it all the same  *)
(* when its turn comes.  Rules live in the API process, are numbered from  *)
(* one by each new process, and are all that commands change.              *)
(***************************************************************************)
EXTENDS Integers, Sequences, FiniteSets

CONSTANTS
    Terminals,       \* bound on the commands running side by side
    MaxCommands,     \* bound on the commands run
    MaxReads         \* bound on those of them that only read

ASSUME BoundAssumption == Terminals \in Nat /\ MaxCommands \in Nat /\ MaxReads \in Nat

VARIABLES
    ran,      \* the commands run so far
    rules,    \* the API's rules: a number, and the command that asked for it
    nextId    \* the number of the next

vars == <<ran, rules, nextId>>

\* What a command line asks for, and how many requests that takes, one after
\* the other.  "read" stands for `failure list', with one request, and
\* `resources', with one or three; neither changes anything.
Invocation ==
    {[verb |-> v, requests |-> 1] : v \in {"inject", "delete", "clear", "read"}}
        \cup {[verb |-> "read", requests |-> 3]}

Command ==
    [ verb : {"inject", "delete", "clear", "read"},
      left : 1 .. 3,         \* requests to make, this one included
      id : Nat,              \* number of the rule it is about
      meant : Nat,           \* delete: the command that added the rule meant
      hit : Nat,             \* delete: the command whose rule it removed
      before : SUBSET Nat,   \* clear: commands over when it was run
      served : {"sent", "done", "refused", "lost"},
      exit : {"none", "ok", "error", "traceback"},
      stale : BOOLEAN ]      \* inject: the process it spoke to is gone

Rule == [id : Nat, by : Nat]

Init ==
    /\ ran = <<>>
    /\ rules = {}
    /\ nextId = 1

----------------------------------------------------------------------------
(* The process: stopped and started by down, up and reset, or reloaded.     *)

\* Rules and numbering go with the process, requests it has not served too.
Restart ==
    /\ rules' = {}
    /\ nextId' = 1
    /\ ran' = [i \in DOMAIN ran |->
                  [ran[i] EXCEPT !.stale = ran[i].verb = "inject",
                                 !.served = IF @ = "sent" THEN "lost" ELSE @]]

----------------------------------------------------------------------------
(* The client: ApiClient._request and the commands around it.               *)

Over == {i \in DOMAIN ran : ran[i].exit # "none"}

\* Rules somebody was told of, by an answer or a listing.
Told == {i \in DOMAIN ran : ran[i].verb = "inject" /\ ran[i].served = "done"}

\* A request goes out, or finds nobody to connect to: that is an URLError,
\* which becomes a message.
Send == {[served |-> "sent", exit |-> "none"], [served |-> "refused", exit |-> "error"]}

\* A command is run.
Run(c, meant) ==
    /\ Len(ran) < MaxCommands
    /\ Cardinality(DOMAIN ran \ Over) < Terminals
    /\ c.verb = "read" => Cardinality({i \in DOMAIN ran : ran[i].verb = "read"}) < MaxReads
    /\ meant \in IF c.verb = "delete" THEN Told ELSE {0}
    /\ \E sent \in Send :
           ran' = Append(ran,
               [ verb |-> c.verb, left |-> c.requests, meant |-> meant, hit |-> 0,
                 id |-> IF meant = 0 THEN 0 ELSE ran[meant].id,
                 before |-> IF c.verb = "clear" THEN Over ELSE {}, stale |-> FALSE,
                 served |-> sent.served, exit |-> sent.exit ])
    /\ UNCHANGED <<rules, nextId>>

\* The answer arrives in time.  An error answer is an HTTPError, which
\* becomes a message and ends the command.
Receive(i) ==
    /\ ran[i].exit = "none"
    /\ \/ /\ ran[i].served = "refused"
          /\ ran' = [ran EXCEPT ![i].exit = "error"]
       \/ /\ ran[i].served = "done" /\ ran[i].left = 1
          /\ ran' = [ran EXCEPT ![i].exit = "ok"]
    /\ UNCHANGED <<rules, nextId>>

\* `resources' goes on to the next service.
ReceivePart(i) ==
    /\ ran[i].exit = "none"
    /\ ran[i].served = "done" /\ ran[i].left > 1
    /\ \E sent \in Send :
           ran' = [ran EXCEPT ![i].left = @ - 1,
                              ![i].served = sent.served, ![i].exit = sent.exit]
    /\ UNCHANGED <<rules, nextId>>

\* Mutant of GiveUp: the timeout is reported like a refused connection.
GiveUpWithMessage(i) ==
    /\ ran[i].exit = "none"
    /\ ran' = [ran EXCEPT ![i].exit = "error"]
    /\ UNCHANGED <<rules, nextId>>

\* It does not: waiting for an answer ends in TimeoutError or, when the
\* process goes away, in RemoteDisconnected, and neither is an URLError.
GiveUp(i) ==
    /\ ran[i].exit = "none"
    /\ ran' = [ran EXCEPT ![i].exit = "traceback"]
    /\ UNCHANGED <<rules, nextId>>

----------------------------------------------------------------------------
(* The API's side of a request (app/api/routes_dev.py).                     *)

\* Mutant of NewId: numbers are taken from how many rules there are.
NewIdByCount == Cardinality(rules) + 1

NewId == nextId

\* A rule is added unless the request's model refuses its values.
ServeInject(i) ==
    \/ /\ rules' = rules \cup {[id |-> NewId, by |-> i]}
       /\ nextId' = nextId + 1
       /\ ran' = [ran EXCEPT ![i].served = "done", ![i].id = NewId]
    \/ /\ ran' = [ran EXCEPT ![i].served = "refused"]
       /\ UNCHANGED <<rules, nextId>>

ServeDelete(i) ==
    /\ \/ \E r \in rules :
              /\ r.id = ran[i].id
              /\ rules' = rules \ {r}
              /\ ran' = [ran EXCEPT ![i].served = "done", ![i].hit = r.by]
       \/ /\ \A r \in rules : r.id # ran[i].id
          /\ ran' = [ran EXCEPT ![i].served = "refused"]
          /\ UNCHANGED rules
    /\ UNCHANGED nextId

\* Mutant of ServeClear: rules are removed from the list that is walked.
ServeClearPart(i) ==
    /\ \E r \in rules : rules' = {r}
    /\ ran' = [ran EXCEPT ![i].served = "done"]
    /\ UNCHANGED nextId

ServeClear(i) ==
    /\ rules' = {}
    /\ ran' = [ran EXCEPT ![i].served = "done"]
    /\ UNCHANGED nextId

\* Listings and the health check may be answered with an error.
ServeRead(i) ==
    /\ \E result \in {"done", "refused"} : ran' = [ran EXCEPT ![i].served = result]
    /\ UNCHANGED <<rules, nextId>>

Serve(i) ==
    /\ ran[i].served = "sent"
    /\ CASE ran[i].verb = "inject" -> ServeInject(i)
         [] ran[i].verb = "delete" -> ServeDelete(i)
         [] ran[i].verb = "clear"  -> ServeClear(i)
         [] OTHER                  -> ServeRead(i)

----------------------------------------------------------------------------

Next ==
    \/ Restart
    \/ \E c \in Invocation, meant \in 0 .. MaxCommands : Run(c, meant)
    \/ \E i \in DOMAIN ran : Serve(i) \/ Receive(i) \/ ReceivePart(i) \/ GiveUp(i)

Spec == Init /\ [][Next]_vars

----------------------------------------------------------------------------

TypeOK ==
    /\ ran \in Seq(Command)
    /\ Len(ran) <= MaxCommands
    /\ rules \in SUBSET Rule
    /\ nextId \in Nat

\* What the shell is told is what happened, and stays so: exit 0 says that
\* the request was done, a message that it was not and never will be.  Only
\* a traceback says nothing (client.py:55-66).
ExitTruthful ==
    \A i \in DOMAIN ran :
        /\ ran[i].exit = "ok" => ran[i].served = "done"
        /\ ran[i].exit = "error" => ran[i].served = "refused"

\* Once `failure clear' has exited with 0, of the commands that were over
\* when it was run none but those that ended in a traceback can have a rule
\* in force: theirs may still arrive (client.py:56, 111).
ClearLeavesOnlyLate ==
    \A i \in DOMAIN ran, r \in rules :
        /\ ran[i].verb = "clear"
        /\ ran[i].exit = "ok"
        /\ r.by \in ran[i].before
        => ran[r.by].exit = "traceback"

\* `failure delete' removes the rule its number was printed for, however
\* many have come and gone since, as long as the API process is the same: a
\* new one gives the numbers again (failure_injection.py:110, 139).
DeleteHitsWhatWasMeant ==
    \A i \in DOMAIN ran :
        ran[i].hit # 0 => ran[i].hit = ran[i].meant \/ ran[ran[i].meant].stale

=============================================================================
