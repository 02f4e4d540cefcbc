---------------------------- MODULE CloudctlProofs ----------------------------
(***************************************************************************)
(* Proofs about Cloudctl, for any number of terminals and commands.        *)
(***************************************************************************)
EXTENDS Cloudctl, SequenceTheorems, TLAPS

\* What is true of every command by itself.
WellFormed(c) ==
    /\ c.verb # "read" => c.left = 1
    /\ c.stale => c.verb = "inject" /\ c.served # "sent"
    /\ c.hit # 0 => c.verb = "delete"
    /\ c.exit = "ok" => c.served = "done"
    /\ c.exit = "error" => c.served = "refused"

CommandsWellFormed == \A i \in DOMAIN ran : WellFormed(ran[i])

\* An inject whose answer holds in the present process.
Current(c) == c.verb = "inject" /\ c.served = "done" /\ ~c.stale

RulesAreCurrent ==
    \A r \in rules : r.by \in DOMAIN ran /\ Current(ran[r.by]) /\ ran[r.by].id = r.id

\* The numbers one process gives away are distinct.
NumbersDistinct ==
    \A i \in DOMAIN ran :
        Current(ran[i]) =>
            /\ ran[i].id < nextId
            /\ \A j \in DOMAIN ran :
                   Current(ran[j]) /\ ran[j].id = ran[i].id => j = i

DeletesMeanRules ==
    \A i \in DOMAIN ran :
        ran[i].verb = "delete" =>
            /\ ran[i].meant \in DOMAIN ran
            /\ ran[ran[i].meant].verb = "inject"
            /\ ran[ran[i].meant].served = "done"
            /\ ran[i].id = ran[ran[i].meant].id

BeforeIsOver ==
    \A i \in DOMAIN ran : \A b \in ran[i].before :
        b \in DOMAIN ran /\ ran[b].exit # "none"

\* From the moment a clear is carried out, answered or not.
ClearedStaysClear ==
    \A i \in DOMAIN ran, r \in rules :
        /\ ran[i].verb = "clear"
        /\ ran[i].served = "done"
        /\ r.by \in ran[i].before
        => ran[r.by].exit = "traceback"

IInv ==
    /\ TypeOK
    /\ CommandsWellFormed
    /\ RulesAreCurrent
    /\ NumbersDistinct
    /\ DeletesMeanRules
    /\ BeforeIsOver
    /\ ClearedStaysClear
    /\ DeleteHitsWhatWasMeant

----------------------------------------------------------------------------
(* How a step changes the commands.                                        *)

\* What no step undoes of a command that was run.
Advanced(c, d) ==
    /\ WellFormed(d)
    /\ d.verb = c.verb /\ d.meant = c.meant /\ d.before = c.before
    /\ c.exit # "none" => d.exit = c.exit
    /\ c.stale => d.stale
    /\ c.verb # "read" /\ c.served # "sent" =>
           d.served = c.served /\ d.id = c.id /\ d.hit = c.hit

\* A step that changes one command.
LEMMA OneChanges ==
    ASSUME TypeOK, NEW i \in DOMAIN ran, NEW d \in Command,
           ran' = [ran EXCEPT ![i] = d]
    PROVE  /\ ran' \in Seq(Command)
           /\ Len(ran') = Len(ran)
           /\ DOMAIN ran' = DOMAIN ran
           /\ ran'[i] = d
           /\ \A j \in DOMAIN ran : j # i => ran'[j] = ran[j]
<1>1. ran \in Seq(Command) /\ DOMAIN ran = 1 .. Len(ran)
  BY LenProperties DEF TypeOK
<1> QED
  BY <1>1, ExceptSeq, LenProperties

LEMMA CommandTyped ==
    ASSUME TypeOK, NEW i \in DOMAIN ran
    PROVE  ran[i] \in Command
BY ElementOfSeq, LenProperties DEF TypeOK


----------------------------------------------------------------------------
(* Steps that leave the rules alone.                                       *)

\* A step that neither does what a command asks for nor ends a wait for
\* anything but the truth.
LEMMA QuietStep ==
    ASSUME IInv, NEW i \in DOMAIN ran, NEW d \in Command,
           ran' = [ran EXCEPT ![i] = d], UNCHANGED <<rules, nextId>>,
           Advanced(ran[i], d),
           d.id = ran[i].id, d.hit = ran[i].hit, d.stale = ran[i].stale,
           ran[i].verb # "read" /\ d.served # ran[i].served => d.served = "refused"
    PROVE  IInv'
<1>1. /\ ran' \in Seq(Command) /\ Len(ran') = Len(ran) /\ DOMAIN ran' = DOMAIN ran
      /\ ran'[i] = d
      /\ \A j \in DOMAIN ran : j # i => ran'[j] = ran[j]
  BY OneChanges DEF IInv
<1>2. \A j \in DOMAIN ran :
          /\ ran[j] \in Command
          /\ Advanced(ran[j], ran'[j])
          /\ ran'[j].id = ran[j].id /\ ran'[j].hit = ran[j].hit
          /\ ran'[j].stale = ran[j].stale
          /\ ran[j].verb # "read" =>
                 \/ ran'[j].served = ran[j].served
                 \/ ran[j].served = "sent" /\ ran'[j].served = "refused"
  <2>1. TAKE j \in DOMAIN ran
  <2>2. ran[j] \in Command /\ WellFormed(ran[j])
    BY CommandTyped DEF IInv, CommandsWellFormed
  <2>3. CASE j = i
    <3>1. ran'[j] = d /\ ran[j] = ran[i]
      BY <1>1, <2>3
    <3>2. ran[i].verb # "read" =>
              \/ d.served = ran[i].served
              \/ ran[i].served = "sent" /\ d.served = "refused"
      BY DEF Advanced
    <3> QED
      BY <2>2, <3>1, <3>2
  <2>4. CASE j # i
    <3>1. ran'[j] = ran[j]
      BY <1>1, <2>4
    <3>2. Advanced(ran[j], ran[j])
      BY <2>2 DEF Advanced
    <3> QED
      BY <2>2, <3>1, <3>2
  <2> QED
    BY <2>3, <2>4
<1>3. \A j \in DOMAIN ran : Current(ran'[j]) <=> Current(ran[j])
  BY <1>2 DEF Current, Advanced
<1>4. TypeOK'
  BY <1>1 DEF IInv, TypeOK
<1>5. CommandsWellFormed'
  BY <1>1, <1>2 DEF CommandsWellFormed, Advanced
<1>6. RulesAreCurrent'
  BY <1>1, <1>2, <1>3 DEF IInv, RulesAreCurrent
<1>7. NumbersDistinct'
  BY <1>1, <1>2, <1>3 DEF IInv, NumbersDistinct
<1>8. DeletesMeanRules'
  BY <1>1, <1>2 DEF IInv, DeletesMeanRules, Advanced
<1>9. BeforeIsOver'
  BY <1>1, <1>2 DEF IInv, BeforeIsOver, Advanced
<1>10. ClearedStaysClear'
  <2> SUFFICES ASSUME NEW j \in DOMAIN ran, NEW r \in rules,
                      ran'[j].verb = "clear", ran'[j].served = "done",
                      r.by \in ran'[j].before
               PROVE  ran'[r.by].exit = "traceback"
    BY <1>1 DEF ClearedStaysClear
  <2>1. ran[j].verb = "clear" /\ ran[j].served = "done" /\ r.by \in ran[j].before
    BY <1>2 DEF Advanced
  <2>2. r.by \in DOMAIN ran /\ ran[r.by].exit = "traceback"
    BY <2>1 DEF IInv, ClearedStaysClear, BeforeIsOver
  <2> QED
    BY <1>2, <2>2 DEF Advanced
<1>11. DeleteHitsWhatWasMeant'
  <2> SUFFICES ASSUME NEW j \in DOMAIN ran, ran'[j].hit # 0
               PROVE  ran'[j].hit = ran'[j].meant \/ ran'[ran'[j].meant].stale
    BY <1>1 DEF DeleteHitsWhatWasMeant
  <2>1. ran[j].verb = "delete" /\ ran'[j].meant = ran[j].meant /\ ran[j].meant \in DOMAIN ran
    BY <1>2 DEF IInv, CommandsWellFormed, WellFormed, DeletesMeanRules, Advanced
  <2> QED
    BY <1>2, <2>1 DEF IInv, DeleteHitsWhatWasMeant
<1> QED
  BY <1>4, <1>5, <1>6, <1>7, <1>8, <1>9, <1>10, <1>11 DEF IInv

LEMMA Receives ==
    ASSUME IInv, NEW i \in DOMAIN ran, Receive(i) \/ GiveUp(i)
    PROVE  IInv'
<1>0. ran[i] \in Command /\ WellFormed(ran[i])
  BY CommandTyped DEF IInv, CommandsWellFormed
<1>1. PICK e \in {"ok", "error", "traceback"} :
          /\ ran' = [ran EXCEPT ![i] = [ran[i] EXCEPT !.exit = e]]
          /\ e = "ok" => ran[i].served = "done"
          /\ e = "error" => ran[i].served = "refused"
          /\ ran[i].exit = "none"
          /\ UNCHANGED <<rules, nextId>>
  BY DEF Receive, GiveUp
<1> DEFINE d == [ran[i] EXCEPT !.exit = e]
<1>2. d \in Command /\ Advanced(ran[i], d)
  BY <1>0, <1>1 DEF Command, Advanced, WellFormed
<1>3. d.id = ran[i].id /\ d.hit = ran[i].hit /\ d.stale = ran[i].stale /\ d.served = ran[i].served
  BY <1>0 DEF Command
<1> QED
  BY <1>1, <1>2, <1>3, QuietStep

LEMMA ReceivesPart ==
    ASSUME IInv, NEW i \in DOMAIN ran, ReceivePart(i)
    PROVE  IInv'
<1>0. ran[i] \in Command /\ WellFormed(ran[i])
  BY CommandTyped DEF IInv, CommandsWellFormed
<1>1. PICK s \in Send :
          ran' = [ran EXCEPT ![i] = [ran[i] EXCEPT !.left = @ - 1,
                                                   !.served = s.served, !.exit = s.exit]]
  BY DEF ReceivePart
<1> DEFINE d == [ran[i] EXCEPT !.left = @ - 1, !.served = s.served, !.exit = s.exit]
<1>2. ran[i].verb = "read" /\ ran[i].left > 1 /\ ran[i].exit = "none"
  BY <1>0 DEF ReceivePart, WellFormed, Command
<1>3. d \in Command
  <2>1. ran[i].left - 1 \in 1 .. 3
    BY <1>0, <1>2 DEF Command
  <2>2. s.served \in {"sent", "refused"} /\ s.exit \in {"none", "error"}
    BY DEF Send
  <2> QED
    BY <1>0, <2>1, <2>2 DEF Command
<1>3a. Advanced(ran[i], d)
  <2>1. /\ d.verb = "read" /\ d.meant = ran[i].meant /\ d.before = ran[i].before
        /\ d.hit = ran[i].hit /\ d.stale = ran[i].stale
        /\ d.served = s.served /\ d.exit = s.exit
    BY <1>0, <1>2 DEF Command
  <2>2. s.exit # "ok" /\ (s.exit = "error" => s.served = "refused")
    BY DEF Send
  <2> QED
    BY <1>0, <1>2, <2>1, <2>2 DEF Advanced, WellFormed
<1>4. d.id = ran[i].id /\ d.hit = ran[i].hit /\ d.stale = ran[i].stale
  BY <1>0 DEF Command
<1> QED
  BY <1>1, <1>2, <1>3, <1>3a, <1>4, QuietStep DEF ReceivePart

\* A request that is answered and changes nothing.
LEMMA AnswersOnly ==
    ASSUME IInv, NEW i \in DOMAIN ran, NEW result \in {"done", "refused"},
           ran[i].served = "sent", result = "done" => ran[i].verb = "read",
           ran' = [ran EXCEPT ![i].served = result], UNCHANGED <<rules, nextId>>
    PROVE  IInv'
<1>0. ran[i] \in Command /\ WellFormed(ran[i])
  BY CommandTyped DEF IInv, CommandsWellFormed
<1> DEFINE d == [ran[i] EXCEPT !.served = result]
<1>1. d \in Command /\ Advanced(ran[i], d)
  BY <1>0 DEF Command, Advanced, WellFormed
<1>2. /\ d.id = ran[i].id /\ d.hit = ran[i].hit /\ d.stale = ran[i].stale
      /\ ran[i].verb # "read" => d.served = "refused"
  BY <1>0 DEF Command
<1> QED
  BY <1>1, <1>2, QuietStep

----------------------------------------------------------------------------
(* Steps that touch the rules.                                             *)

LEMMA Restarts ==
    ASSUME IInv, Restart
    PROVE  IInv'
<1> DEFINE after(c) == [c EXCEPT !.stale = c.verb = "inject",
                                 !.served = IF @ = "sent" THEN "lost" ELSE @]
<1>1. /\ ran' = [i \in DOMAIN ran |-> after(ran[i])]
      /\ rules' = {} /\ nextId' = 1
  BY DEF Restart
<1>2. \A i \in DOMAIN ran : ran[i] \in Command /\ WellFormed(ran[i])
  BY CommandTyped DEF IInv, CommandsWellFormed
<1>3. \A i \in DOMAIN ran :
          /\ ran'[i] \in Command
          /\ ran'[i].stale <=> ran[i].verb = "inject"
          /\ ran'[i].verb = ran[i].verb /\ ran'[i].meant = ran[i].meant
          /\ ran'[i].before = ran[i].before /\ ran'[i].id = ran[i].id
          /\ ran'[i].hit = ran[i].hit /\ ran'[i].exit = ran[i].exit
          /\ ran'[i].left = ran[i].left /\ ran'[i].served # "sent"
          /\ ran[i].served # "sent" => ran'[i].served = ran[i].served
  BY <1>1, <1>2 DEF Command
<1>4. Len(ran) \in Nat /\ DOMAIN ran = 1 .. Len(ran)
  BY LenProperties DEF IInv, TypeOK
<1>5. ran' \in Seq(Command) /\ DOMAIN ran' = DOMAIN ran /\ Len(ran') = Len(ran)
  <2> HIDE DEF after
  <2>1. ran' \in [1 .. Len(ran) -> Command] /\ DOMAIN ran' = 1 .. Len(ran)
    BY <1>1, <1>3, <1>4
  <2>2. ran' \in Seq(Command)
    BY <1>4, <2>1, SeqDef
  <2>3. DOMAIN ran' = 1 .. Len(ran') /\ Len(ran') \in Nat
    BY <2>2, LenProperties
  <2>4. Len(ran') = Len(ran)
    BY <1>4, <2>1, <2>3
  <2> QED
    BY <1>4, <2>1, <2>2, <2>4
<1>6. TypeOK'
  BY <1>1, <1>5 DEF IInv, TypeOK
<1>7. CommandsWellFormed'
  <2> SUFFICES ASSUME NEW j \in DOMAIN ran
               PROVE  WellFormed(ran'[j])
    BY <1>5 DEF CommandsWellFormed
  <2> HIDE DEF after
  <2> QED
    BY <1>2, <1>3 DEF WellFormed
<1>8. NumbersDistinct'
  BY <1>3, <1>5 DEF NumbersDistinct, Current
<1>9. DeletesMeanRules'
  BY <1>3, <1>5 DEF IInv, DeletesMeanRules
<1>10. BeforeIsOver'
  BY <1>3, <1>5 DEF IInv, BeforeIsOver
<1>11. RulesAreCurrent' /\ ClearedStaysClear'
  BY <1>1 DEF RulesAreCurrent, ClearedStaysClear
<1>12. DeleteHitsWhatWasMeant'
  <2> SUFFICES ASSUME NEW i \in DOMAIN ran, ran'[i].hit # 0
               PROVE  ran'[ran'[i].meant].stale
    BY <1>5 DEF DeleteHitsWhatWasMeant
  <2>1. ran[i].verb = "delete"
    BY <1>2, <1>3 DEF WellFormed
  <2> QED
    BY <1>3, <2>1 DEF IInv, DeletesMeanRules
<1> QED
  BY <1>6, <1>7, <1>8, <1>9, <1>10, <1>11, <1>12 DEF IInv

LEMMA Runs ==
    ASSUME IInv, NEW c \in Invocation, NEW meant \in 0 .. MaxCommands, Run(c, meant)
    PROVE  IInv'
<1> DEFINE n == Len(ran) + 1
<1>1. PICK sent \in Send :
          ran' = Append(ran,
               [ verb |-> c.verb, left |-> c.requests, meant |-> meant, hit |-> 0,
                 id |-> IF meant = 0 THEN 0 ELSE ran[meant].id,
                 before |-> IF c.verb = "clear" THEN Over ELSE {}, stale |-> FALSE,
                 served |-> sent.served, exit |-> sent.exit ])
  BY DEF Run
<1> DEFINE d == [ verb |-> c.verb, left |-> c.requests, meant |-> meant, hit |-> 0,
                 id |-> IF meant = 0 THEN 0 ELSE ran[meant].id,
                 before |-> IF c.verb = "clear" THEN Over ELSE {}, stale |-> FALSE,
                 served |-> sent.served, exit |-> sent.exit ]
<1>2. /\ ran \in Seq(Command) /\ Len(ran) \in Nat /\ DOMAIN ran = 1 .. Len(ran)
      /\ Len(ran) < MaxCommands /\ MaxCommands \in Nat
  BY LenProperties, BoundAssumption DEF IInv, TypeOK, Run
<1>3. /\ c.verb \in {"inject", "delete", "clear", "read"} /\ c.requests \in 1 .. 3
      /\ c.verb # "read" => c.requests = 1
  BY DEF Invocation
<1>4. /\ sent.served \in {"sent", "refused"} /\ sent.exit \in {"none", "error"}
      /\ sent.exit = "error" => sent.served = "refused"
  BY DEF Send
<1>5. /\ c.verb = "delete" => meant \in Told
      /\ c.verb # "delete" => meant = 0
      /\ UNCHANGED <<rules, nextId>>
  BY DEF Run
<1>6. /\ Told \subseteq DOMAIN ran /\ Over \subseteq DOMAIN ran
      /\ \A i \in Told : ran[i].verb = "inject" /\ ran[i].served = "done"
      /\ \A i \in Over : ran[i].exit # "none"
  BY DEF Told, Over
<1>7. \A i \in DOMAIN ran : ran[i] \in Command /\ WellFormed(ran[i])
  BY CommandTyped DEF IInv, CommandsWellFormed
<1>8. d.id \in Nat /\ (meant # 0 => d.id = ran[meant].id)
  BY <1>3, <1>5, <1>6, <1>7 DEF Command
<1>9. d \in Command /\ WellFormed(d)
  <2>1. d.before \in SUBSET Nat
    BY <1>2, <1>6
  <2> QED
    BY <1>2, <1>3, <1>4, <1>8, <2>1 DEF Command, WellFormed
<1>10. /\ d.verb = c.verb /\ d.meant = meant /\ d.hit = 0 /\ d.served \in {"sent", "refused"}
       /\ d.before \subseteq Over
  BY <1>4
<1> HIDE DEF d
<1>11. /\ ran' \in Seq(Command) /\ Len(ran') = n /\ ran'[n] = d
       /\ \A i \in DOMAIN ran : ran'[i] = ran[i]
       /\ DOMAIN ran' = DOMAIN ran \cup {n}
  <2>1. ran' = Append(ran, d)
    BY <1>1 DEF d
  <2> QED
    BY <1>2, <1>9, <2>1, AppendProperties, LenProperties
<1>12. n \notin DOMAIN ran /\ ~Current(d)
  BY <1>2, <1>10 DEF Current
<1>13. TypeOK'
  BY <1>2, <1>5, <1>11 DEF IInv, TypeOK
<1>14. CommandsWellFormed'
  BY <1>7, <1>9, <1>11 DEF CommandsWellFormed
<1>15. RulesAreCurrent'
  BY <1>5, <1>11 DEF IInv, RulesAreCurrent
<1>16. NumbersDistinct'
  BY <1>5, <1>11, <1>12 DEF IInv, NumbersDistinct
<1>17. DeletesMeanRules'
  <2>1. ASSUME NEW i \in DOMAIN ran, ran'[i].verb = "delete"
        PROVE  /\ ran'[i].meant \in DOMAIN ran
               /\ ran'[ran'[i].meant].verb = "inject"
               /\ ran'[ran'[i].meant].served = "done"
               /\ ran'[i].id = ran'[ran'[i].meant].id
    BY <1>11, <2>1 DEF IInv, DeletesMeanRules
  <2>2. ASSUME d.verb = "delete"
        PROVE  /\ d.meant \in DOMAIN ran
               /\ ran'[d.meant].verb = "inject"
               /\ ran'[d.meant].served = "done"
               /\ d.id = ran'[d.meant].id
    BY <1>2, <1>5, <1>6, <1>8, <1>10, <1>11, <2>2
  <2> QED
    BY <1>11, <2>1, <2>2 DEF DeletesMeanRules
<1>18. BeforeIsOver'
  BY <1>6, <1>10, <1>11 DEF IInv, BeforeIsOver
<1>19. ClearedStaysClear'
  <2> SUFFICES ASSUME NEW j \in DOMAIN ran', NEW r \in rules,
                      ran'[j].verb = "clear", ran'[j].served = "done",
                      r.by \in ran'[j].before
               PROVE  ran'[r.by].exit = "traceback"
    BY <1>5 DEF ClearedStaysClear
  <2>1. j \in DOMAIN ran /\ r.by \in DOMAIN ran
    BY <1>10, <1>11 DEF IInv, RulesAreCurrent
  <2> QED
    BY <1>11, <2>1 DEF IInv, ClearedStaysClear
<1>20. DeleteHitsWhatWasMeant'
  <2> SUFFICES ASSUME NEW j \in DOMAIN ran', ran'[j].hit # 0
               PROVE  ran'[j].hit = ran'[j].meant \/ ran'[ran'[j].meant].stale
    BY DEF DeleteHitsWhatWasMeant
  <2>1. j \in DOMAIN ran /\ ran'[j] = ran[j]
    BY <1>10, <1>11
  <2>2. ran[j].meant \in DOMAIN ran
    BY <1>7, <2>1 DEF IInv, DeletesMeanRules, WellFormed
  <2> QED
    BY <1>11, <2>1, <2>2 DEF IInv, DeleteHitsWhatWasMeant
<1> QED
  BY <1>13, <1>14, <1>15, <1>16, <1>17, <1>18, <1>19, <1>20 DEF IInv

LEMMA Injects ==
    ASSUME IInv, NEW i \in DOMAIN ran, ran[i].served = "sent", ran[i].verb = "inject",
           rules' = rules \cup {[id |-> NewId, by |-> i]}, nextId' = nextId + 1,
           ran' = [ran EXCEPT ![i].served = "done", ![i].id = NewId]
    PROVE  IInv'
<1> DEFINE d == [ran[i] EXCEPT !.served = "done", !.id = nextId]
<1>1. \A j \in DOMAIN ran : j \in Nat /\ ran[j] \in Command /\ WellFormed(ran[j])
  BY CommandTyped, LenProperties DEF IInv, CommandsWellFormed, TypeOK
<1>2. nextId \in Nat /\ NewId = nextId
  BY DEF IInv, TypeOK, NewId
<1>3. /\ d \in Command /\ WellFormed(d) /\ Advanced(ran[i], d)
      /\ d.id = nextId /\ d.served = "done" /\ d.hit = ran[i].hit /\ d.stale = ran[i].stale
      /\ d.exit = ran[i].exit
  BY <1>1, <1>2 DEF Command, WellFormed, Advanced
<1>4. ran' = [ran EXCEPT ![i] = d]
  BY <1>2
<1> HIDE DEF d
<1>5. /\ ran' \in Seq(Command) /\ Len(ran') = Len(ran) /\ DOMAIN ran' = DOMAIN ran
      /\ ran'[i] = d
      /\ \A j \in DOMAIN ran : j # i => ran'[j] = ran[j]
  BY <1>3, <1>4, OneChanges DEF IInv
<1>6. \A j \in DOMAIN ran : Current(ran'[j]) => Current(ran[j]) \/ j = i
  BY <1>5
<1>7. \A r \in rules : r.by \in DOMAIN ran /\ r.by # i
  BY DEF IInv, RulesAreCurrent, Current
<1>8. TypeOK'
  <2>1. [id |-> NewId, by |-> i] \in Rule
    BY <1>1, <1>2 DEF Rule
  <2> QED
    BY <1>2, <1>5, <2>1 DEF IInv, TypeOK
<1>9. CommandsWellFormed'
  BY <1>1, <1>3, <1>5 DEF CommandsWellFormed
<1>10. RulesAreCurrent'
  <2> SUFFICES ASSUME NEW r \in rules'
               PROVE  r.by \in DOMAIN ran /\ Current(ran'[r.by]) /\ ran'[r.by].id = r.id
    BY <1>5 DEF RulesAreCurrent
  <2>1. CASE r \in rules
    BY <1>5, <1>7, <2>1 DEF IInv, RulesAreCurrent
  <2>2. CASE r = [id |-> NewId, by |-> i]
    <3>1. r.by = i /\ r.id = nextId
      BY <1>2, <2>2
    <3>2. d.verb = "inject" /\ ~d.stale
      BY <1>1, <1>3 DEF Advanced, WellFormed, Command
    <3> QED
      BY <1>3, <1>5, <3>1, <3>2 DEF Current
  <2> QED
    BY <2>1, <2>2
<1>11. NumbersDistinct'
  <2>1. \A j \in DOMAIN ran :
            Current(ran[j]) => j # i /\ ran'[j] = ran[j] /\ ran[j].id < nextId
    BY <1>5 DEF IInv, NumbersDistinct, Current
  <2>2. \A j \in DOMAIN ran : ran[j].id \in Nat
    BY <1>1 DEF Command
  <2>3. \A j \in DOMAIN ran :
            Current(ran'[j]) => ran'[j].id < nextId' /\ (ran'[j].id = nextId => j = i)
    BY <1>2, <1>3, <1>5, <1>6, <2>1, <2>2
  <2>4. ASSUME NEW j \in DOMAIN ran, NEW k \in DOMAIN ran,
               Current(ran'[j]), Current(ran'[k]), ran'[k].id = ran'[j].id
        PROVE  k = j
    <3>1. CASE j = i \/ k = i
      BY <1>3, <1>5, <2>3, <2>4, <3>1
    <3>2. CASE j # i /\ k # i
      BY <1>5, <1>6, <2>4, <3>2 DEF IInv, NumbersDistinct
    <3> QED
      BY <3>1, <3>2
  <2> QED
    BY <1>5, <2>3, <2>4 DEF NumbersDistinct
<1>12. DeletesMeanRules'
  BY <1>3, <1>5 DEF IInv, DeletesMeanRules, Advanced
<1>13. BeforeIsOver'
  BY <1>3, <1>5 DEF IInv, BeforeIsOver, Advanced
<1>14. ClearedStaysClear'
  <2> SUFFICES ASSUME NEW j \in DOMAIN ran, NEW r \in rules',
                      ran'[j].verb = "clear", ran'[j].served = "done",
                      r.by \in ran'[j].before
               PROVE  ran'[r.by].exit = "traceback"
    BY <1>5 DEF ClearedStaysClear
  <2>1. j # i /\ ran'[j] = ran[j]
    BY <1>3, <1>5 DEF Advanced
  <2>2. CASE r \in rules
    BY <1>5, <1>7, <2>1, <2>2 DEF IInv, ClearedStaysClear
  <2>3. CASE r = [id |-> NewId, by |-> i]
    <3>1. r.by = i /\ ran[i].exit # "none"
      BY <2>1, <2>3 DEF IInv, BeforeIsOver
    <3>2. ran[i].exit = "traceback"
      BY <1>1, <3>1 DEF WellFormed, Command
    <3> QED
      BY <1>3, <1>5, <3>1, <3>2
  <2> QED
    BY <2>2, <2>3
<1>15. DeleteHitsWhatWasMeant'
  <2> SUFFICES ASSUME NEW j \in DOMAIN ran, ran'[j].hit # 0
               PROVE  ran'[j].hit = ran'[j].meant \/ ran'[ran'[j].meant].stale
    BY <1>5 DEF DeleteHitsWhatWasMeant
  <2>1. j # i /\ ran'[j] = ran[j] /\ ran[j].verb = "delete"
    BY <1>1, <1>3, <1>5 DEF WellFormed
  <2>2. ran[j].meant \in DOMAIN ran
    BY <2>1 DEF IInv, DeletesMeanRules
  <2> QED
    BY <1>3, <1>5, <2>1, <2>2 DEF IInv, DeleteHitsWhatWasMeant
<1> QED
  BY <1>8, <1>9, <1>10, <1>11, <1>12, <1>13, <1>14, <1>15 DEF IInv

\* Steps that only take rules away, or leave them, and are done.
LEMMA Removes ==
    ASSUME IInv, NEW i \in DOMAIN ran, ran[i].served = "sent",
           NEW d \in Command, WellFormed(d), Advanced(ran[i], d),
           d.id = ran[i].id, d.stale = ran[i].stale, d.exit = ran[i].exit,
           d.verb \in {"delete", "clear"},
           d.hit # 0 => d.verb = "delete" /\ (d.hit = d.meant \/ ran[d.meant].stale),
           d.verb = "clear" => rules' = {},
           ran' = [ran EXCEPT ![i] = d], rules' \subseteq rules, UNCHANGED nextId
    PROVE  IInv'
<1>1. /\ ran' \in Seq(Command) /\ Len(ran') = Len(ran) /\ DOMAIN ran' = DOMAIN ran
      /\ ran'[i] = d
      /\ \A j \in DOMAIN ran : j # i => ran'[j] = ran[j]
  BY OneChanges DEF IInv
<1>2. \A j \in DOMAIN ran : ran[j] \in Command /\ WellFormed(ran[j])
  BY CommandTyped DEF IInv, CommandsWellFormed
<1>3. \A j \in DOMAIN ran : Current(ran[j]) => j # i
  BY DEF Current
<1>4. ~Current(ran'[i]) /\ d.verb = ran[i].verb /\ d.meant = ran[i].meant /\ d.before = ran[i].before
  BY <1>1 DEF Current, Advanced
<1>5. TypeOK'
  BY <1>1 DEF IInv, TypeOK
<1>6. CommandsWellFormed'
  BY <1>1, <1>2 DEF CommandsWellFormed
<1>7. RulesAreCurrent'
  BY <1>1, <1>3 DEF IInv, RulesAreCurrent
<1>8. NumbersDistinct'
  BY <1>1, <1>3, <1>4 DEF IInv, NumbersDistinct
<1>9. DeletesMeanRules'
  BY <1>1, <1>4 DEF IInv, DeletesMeanRules
<1>10. BeforeIsOver'
  BY <1>1, <1>4 DEF IInv, BeforeIsOver
<1>11. ClearedStaysClear'
  BY <1>1, <1>4 DEF IInv, ClearedStaysClear
<1>12. DeleteHitsWhatWasMeant'
  <2> SUFFICES ASSUME NEW j \in DOMAIN ran, ran'[j].hit # 0
               PROVE  ran'[j].hit = ran'[j].meant \/ ran'[ran'[j].meant].stale
    BY <1>1 DEF DeleteHitsWhatWasMeant
  <2>1. ran'[j].verb = "delete" /\ ran[j].verb = "delete" /\ ran'[j].meant = ran[j].meant
    BY <1>1, <1>2, <1>4 DEF WellFormed
  <2>2. ran[j].meant \in DOMAIN ran /\ ran[j].meant # i
    BY <2>1, <1>4 DEF IInv, DeletesMeanRules
  <2> QED
    BY <1>1, <2>1, <2>2 DEF IInv, DeleteHitsWhatWasMeant
<1> QED
  BY <1>5, <1>6, <1>7, <1>8, <1>9, <1>10, <1>11, <1>12 DEF IInv

LEMMA Deletes ==
    ASSUME IInv, NEW i \in DOMAIN ran, ran[i].served = "sent", ran[i].verb = "delete",
           NEW r \in rules, r.id = ran[i].id, rules' = rules \ {r},
           ran' = [ran EXCEPT ![i].served = "done", ![i].hit = r.by], UNCHANGED nextId
    PROVE  IInv'
<1> DEFINE d == [ran[i] EXCEPT !.served = "done", !.hit = r.by]
<1>1. ran[i] \in Command /\ WellFormed(ran[i]) /\ r.by \in Nat
  BY CommandTyped DEF IInv, CommandsWellFormed, TypeOK, Rule
<1>2. /\ d \in Command /\ WellFormed(d) /\ Advanced(ran[i], d)
      /\ d.id = ran[i].id /\ d.stale = ran[i].stale /\ d.exit = ran[i].exit
      /\ d.verb = "delete" /\ d.hit = r.by /\ d.meant = ran[i].meant
  BY <1>1 DEF Command, WellFormed, Advanced
<1>3. d.hit = d.meant \/ ran[d.meant].stale
  <2>1. /\ d.meant \in DOMAIN ran
        /\ ran[d.meant].verb = "inject" /\ ran[d.meant].served = "done"
        /\ ran[d.meant].id = r.id
    BY <1>2 DEF IInv, DeletesMeanRules
  <2>2. r.by \in DOMAIN ran /\ Current(ran[r.by]) /\ ran[r.by].id = r.id
    BY DEF IInv, RulesAreCurrent
  <2>3. CASE ~ran[d.meant].stale
    <3>1. Current(ran[d.meant])
      BY <2>1, <2>3 DEF Current
    <3> QED
      BY <1>2, <2>1, <2>2, <3>1 DEF IInv, NumbersDistinct
  <2> QED
    BY <2>3
<1> HIDE DEF d
<1>4. ran' = [ran EXCEPT ![i] = d]
  BY DEF d
<1> QED
  BY <1>2, <1>3, <1>4, Removes

LEMMA Clears ==
    ASSUME IInv, NEW i \in DOMAIN ran, ran[i].served = "sent", ran[i].verb = "clear",
           ServeClear(i)
    PROVE  IInv'
<1> DEFINE d == [ran[i] EXCEPT !.served = "done"]
<1>1. ran[i] \in Command /\ WellFormed(ran[i])
  BY CommandTyped DEF IInv, CommandsWellFormed
<1>2. /\ d \in Command /\ WellFormed(d) /\ Advanced(ran[i], d)
      /\ d.id = ran[i].id /\ d.stale = ran[i].stale /\ d.exit = ran[i].exit
      /\ d.verb = "clear" /\ d.hit = 0
  BY <1>1 DEF Command, WellFormed, Advanced
<1>3. ran' = [ran EXCEPT ![i] = d] /\ rules' = {} /\ UNCHANGED nextId
  BY DEF ServeClear
<1> HIDE DEF d
<1> QED
  BY <1>2, <1>3, Removes

LEMMA Serves ==
    ASSUME IInv, NEW i \in DOMAIN ran, Serve(i)
    PROVE  IInv'
<1>1. ran[i].served = "sent" /\ ran[i].verb \in {"inject", "delete", "clear", "read"}
  BY CommandTyped DEF IInv, Serve, Command
<1>2. CASE ran[i].verb = "inject"
  BY <1>1, <1>2, Injects, AnswersOnly DEF Serve, ServeInject
<1>3. CASE ran[i].verb = "delete"
  BY <1>1, <1>3, Deletes, AnswersOnly DEF Serve, ServeDelete
<1>4. CASE ran[i].verb = "clear"
  BY <1>1, <1>4, Clears DEF Serve
<1>5. CASE ran[i].verb = "read"
  BY <1>1, <1>5, AnswersOnly DEF Serve, ServeRead
<1> QED
  BY <1>1, <1>2, <1>3, <1>4, <1>5

----------------------------------------------------------------------------

THEOREM Inductive == Spec => []IInv
<1>1. Init => IInv
  BY EmptySeq, BoundAssumption
  DEF Init, IInv, TypeOK, CommandsWellFormed, RulesAreCurrent, NumbersDistinct,
      DeletesMeanRules, BeforeIsOver, ClearedStaysClear, DeleteHitsWhatWasMeant
<1>2. IInv /\ [Next]_vars => IInv'
  <2> SUFFICES ASSUME IInv, [Next]_vars
               PROVE  IInv'
    OBVIOUS
  <2>1. CASE Restart
    BY <2>1, Restarts
  <2>2. ASSUME NEW c \in Invocation, NEW meant \in 0 .. MaxCommands, Run(c, meant)
        PROVE  IInv'
    BY <2>2, Runs
  <2>3. ASSUME NEW i \in DOMAIN ran, Serve(i) \/ Receive(i) \/ ReceivePart(i) \/ GiveUp(i)
        PROVE  IInv'
    BY <2>3, Serves, Receives, ReceivesPart
  <2>4. CASE UNCHANGED vars
    BY <2>4
    DEF vars, IInv, TypeOK, CommandsWellFormed, RulesAreCurrent, NumbersDistinct,
        DeletesMeanRules, BeforeIsOver, ClearedStaysClear, DeleteHitsWhatWasMeant
  <2> QED
    BY <2>1, <2>2, <2>3, <2>4 DEF Next
<1> QED
  BY <1>1, <1>2, PTL DEF Spec

\* The type invariant (Cloudctl.TypeOK).
THEOREM TypeCorrect == Spec => []TypeOK
<1>1. IInv => TypeOK
  BY DEF IInv
<1> QED
  BY <1>1, Inductive, PTL

\* What the shell is told is what happened, and stays so, whatever the API
\* and its restarts do in between (ApiClient._request).
THEOREM ExitIsTruthful == Spec => []ExitTruthful
<1>1. IInv => ExitTruthful
  BY DEF IInv, CommandsWellFormed, WellFormed, ExitTruthful
<1> QED
  BY <1>1, Inductive, PTL

\* After a clear, only what a traceback left behind can come back
\* (cmd_failure_clear against the timeout of ApiClient).
THEOREM ClearIsClear == Spec => []ClearLeavesOnlyLate
<1>1. IInv => ClearLeavesOnlyLate
  BY DEF IInv, CommandsWellFormed, WellFormed, ClearedStaysClear, ClearLeavesOnlyLate
<1> QED
  BY <1>1, Inductive, PTL

\* A delete removes the rule it was meant for unless that rule's process is
\* gone (cmd_failure_delete against FailureInjector._ids).
THEOREM DeleteIsExact == Spec => []DeleteHitsWhatWasMeant
<1>1. IInv => DeleteHitsWhatWasMeant
  BY DEF IInv
<1> QED
  BY <1>1, Inductive, PTL

=============================================================================
