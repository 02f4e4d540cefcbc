----------------------------- MODULE CallLedger -----------------------------
(***************************************************************************)
(* What ProviderService._call promises of each provider call, without the  *)
(* threads, rules and buffers that bring it about: a call is sent to the   *)
(* provider at most once and ends at most once; it ends in success, or is  *)
(* lost to an exception nobody translates, only if it was sent.            *)
(***************************************************************************)
EXTENDS Integers

VARIABLES
    begun,     \* calls begun; they are numbered 1 .. begun
    sent,      \* the calls whose function ran
    outcome    \* what each call has come to

vars == <<begun, sent, outcome>>

Ending == {"success", "error", "lost"}

Init ==
    /\ begun = 0
    /\ sent = {}
    /\ outcome = <<>>

Begin ==
    /\ begun' = begun + 1
    /\ outcome' = [n \in 1 .. begun + 1 |->
                     IF n \in 1 .. begun THEN outcome[n] ELSE "pending"]
    /\ UNCHANGED sent

Send(n) ==
    /\ outcome[n] = "pending"
    /\ n \notin sent
    /\ sent' = sent \cup {n}
    /\ UNCHANGED <<begun, outcome>>

End(n, ending) ==
    /\ outcome[n] = "pending"
    /\ ending # "error" => n \in sent
    /\ outcome' = [outcome EXCEPT ![n] = ending]
    /\ UNCHANGED <<begun, sent>>

Next ==
    \/ Begin
    \/ \E n \in 1 .. begun :
          \/ Send(n)
          \/ \E ending \in Ending : End(n, ending)

Spec == Init /\ [][Next]_vars

=============================================================================
