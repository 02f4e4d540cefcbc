-------------------------- MODULE ResourceDirectory --------------------------
(***************************************************************************)
(* What a resource service promises its clients, whatever number of        *)
(* provider calls a request takes: resources appear and disappear only by  *)
(* requests in progress, a request takes effect at most once and before it *)
(* is answered, and success is answered only to a request that took effect *)
(* if it is one that should.  A request that failed may have taken effect. *)
(***************************************************************************)
EXTENDS FiniteSets

CONSTANTS
    Client, Name,
    Reading      \* kinds of requests that change nothing

VARIABLES
    present,     \* the resources that exist
    req,         \* what each client asked for last: a kind and a name
    busy,        \* whether it is still being worked on
    done,        \* whether it took effect
    answer       \* how it was answered, "none" while it is not

vars == <<present, req, busy, done, answer>>

Init ==
    /\ present \in SUBSET Name
    /\ busy = [c \in Client |-> FALSE]
    /\ done = [c \in Client |-> FALSE]
    /\ answer = [c \in Client |-> "none"]

Ask(c) ==
    /\ ~busy[c]
    /\ busy' = [busy EXCEPT ![c] = TRUE]
    /\ done' = [done EXCEPT ![c] = FALSE]
    /\ answer' = [answer EXCEPT ![c] = "none"]
    /\ \A d \in Client \ {c} : req'[d] = req[d]
    /\ UNCHANGED present

\* What a request may turn the directory into; a request about something
\* inside a resource leaves the directory as it is.
Result(r) ==
    CASE r.kind = "create" -> present \cup {r.name}
      [] r.kind = "delete" -> present \ {r.name}
      [] OTHER             -> present

TakeEffect(c) ==
    /\ busy[c]
    /\ ~done[c]
    /\ req[c].kind \notin Reading
    /\ present' = Result(req[c])
    /\ done' = [done EXCEPT ![c] = TRUE]
    /\ UNCHANGED req

\* The answer may follow the effect at once, or much later.
Answer(c) ==
    /\ busy[c]
    /\ busy' = [busy EXCEPT ![c] = FALSE]
    /\ \E a \in {"ok", "failed"} : answer' = [answer EXCEPT ![c] = a]
    /\ answer'[c] = "ok" => done'[c] \/ req[c].kind \in Reading
    /\ UNCHANGED req

Next ==
    \E c \in Client :
       \/ Ask(c)
       \/ TakeEffect(c) /\ UNCHANGED <<busy, answer>>
       \/ TakeEffect(c) /\ Answer(c)
       \/ Answer(c) /\ UNCHANGED <<present, done>>

Spec == Init /\ [][Next]_vars

=============================================================================
