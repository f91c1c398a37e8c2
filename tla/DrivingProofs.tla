---------------------------- MODULE DrivingProofs ----------------------------
(***************************************************************************)
(* Proofs about what a run drives: for any surface, whatever moves it,     *)
(* that a navigator's tokens carry a person's word and the budget; for any *)
(* runs and texts, that a stopped actor stops; for any browsing runs of    *)
(* separate processes, that no tab is lost sight of; for any callers of    *)
(* the app-server, that nobody waits for what cannot come.                 *)
(***************************************************************************)
EXTENDS MCDriving, SequenceTheorems, FiniteSetTheorems, TLAPS

-----------------------------------------------------------------------------
(* The navigator. *)

\* What a step reads besides what it counts.
RunTypeOK ==
  /\ decisions \in Nat /\ asked \in Nat
  /\ place \in Halts \cup {"observe", "judge", "believe", "help", "guard", "act", "card"}
  /\ approved \in Identities \cup {NoIdentity} /\ denied \subseteq Identities
  /\ consents \in [Identities -> Nat] /\ done \in [Identities -> Nat]
  /\ place \in {"help", "guard", "act"} => chosen \in Identities
  /\ place = "card" /\ card.kind = "confirm" => card.pending \in Identities

\* On its way to the screen.
Going(id) == place \in {"help", "guard", "act"} /\ chosen = id

\* Each yes to a worded control is spent, on its way to the screen, or attached to the run
\* as the one approval it carries; never in two of these.
YesInv ==
  \A id \in Worded :
    /\ done[id] <= consents[id]
    /\ Going(id) \/ approved = id => done[id] < consents[id]
    /\ Going(id) /\ approved = id => done[id] + 1 < consents[id]

\* The count of this drive is the count of the run, over pauses too.
SpentInv == asked = decisions /\ asked <= MaxDecisions /\ (place = "card" => card.spent = decisions)

\* What was refused is not being done.
RefusedInv == place \in {"help", "guard", "act"} => chosen \notin denied

NavigatorInv == RunTypeOK /\ YesInv /\ SpentInv /\ RefusedInv

\* A run that begins has no word of anybody's and has asked nothing.
LEMMA NavigatorInitially == NavigatorInit => NavigatorInv
  BY NavigatorAssumption
DEF NavigatorInit, NavigatorInv, RunTypeOK, YesInv, SpentInv, RefusedInv, Going, NoCard, Halts

\* The steps that leave the counts and the consents alone.
LEMMA LookStep ==
  ASSUME NavigatorInv,
         PageMoves \/ Observe \/ Believe \/ Guard \/ Covered \/ Help \/ HandOver \/ RunOut \/ Fail
         \/ Cancel \/ Unanswered
  PROVE  NavigatorInv'
<1> USE NavigatorAssumption
    DEF NavigatorInv, RunTypeOK, YesInv, SpentInv, RefusedInv, Going, Halts, memoryVars
<1>1. CASE PageMoves BY <1>1 DEF PageMoves
<1>2. CASE Observe BY <1>2 DEF Observe
<1>3. CASE Believe BY <1>3 DEF Believe, Refresh
<1>4. CASE Guard BY <1>4 DEF Guard, Refresh
<1>5. CASE Covered BY <1>5 DEF Covered, Refresh
<1>6. CASE Help BY <1>6 DEF Help, Card
<1>7. CASE HandOver BY <1>7 DEF HandOver, Card
<1>8. CASE RunOut \/ Fail \/ Cancel \/ Unanswered BY <1>8 DEF RunOut, Fail, Cancel, Unanswered, Halt
<1> QED BY <1>1, <1>2, <1>3, <1>4, <1>5, <1>6, <1>7, <1>8

\* An evaluation is counted once, and an approval is spent on the action it was given for.
LEMMA ChooseStep ==
  ASSUME NavigatorInv, Choose
  PROVE  NavigatorInv'
<1> USE NavigatorAssumption DEF NavigatorInv, RunTypeOK, SpentInv, Evaluate, Spent
<1>1. CASE JudgeEnd \/ JudgeNothing
  BY <1>1 DEF JudgeEnd, JudgeNothing, YesInv, RefusedInv, Going, memoryVars, Halts
<1>2. ASSUME NEW id \in Identities, NEW low \in BOOLEAN, NEW risky \in BOOLEAN, Judge(id, low, risky)
      PROVE  NavigatorInv'
  <2> USE <1>2 DEF Judge, Offered
  <2>1. RunTypeOK' /\ SpentInv' /\ RefusedInv'
    BY DEF Card, Halts, RefusedInv, Verdict
  <2>2. approved' = approved \/ approved' = NoIdentity
    OBVIOUS
  <2>3. id \in Worded /\ Going(id)' => approved = id /\ approved' = NoIdentity
    BY DEF Going, Verdict
  <2>4. YesInv'
    BY <2>2, <2>3 DEF YesInv, Going
  <2> QED BY <2>1, <2>4
<1> QED BY <1>1, <1>2 DEF Choose

\* An execution spends the yes it had.
LEMMA ActStep ==
  ASSUME NavigatorInv, Act \/ Uncertain
  PROVE  NavigatorInv'
<1> USE NavigatorAssumption DEF NavigatorInv, RunTypeOK, Act, Uncertain, Halts, memoryVars
<1>1. done' = [done EXCEPT ![chosen] = @ + 1] /\ chosen \in Identities /\ ~Going(chosen)'
  BY DEF Going
<1>2. RunTypeOK' /\ SpentInv' /\ RefusedInv'
  BY <1>1 DEF SpentInv, RefusedInv
<1>3. \A id \in Worded : done'[id] = (IF id = chosen THEN done[id] + 1 ELSE done[id]) /\ ~Going(id)'
  BY <1>1 DEF Going
<1>4. YesInv'
  BY <1>3 DEF YesInv, Going
<1> QED BY <1>2, <1>4

\* A person answers: a yes is counted when it is attached to the run.
LEMMA AnswerStep ==
  ASSUME NavigatorInv, Approve \/ Deny \/ Reply
  PROVE  NavigatorInv'
<1> USE NavigatorAssumption
    DEF NavigatorInv, RunTypeOK, YesInv, SpentInv, RefusedInv, Going, Resume, NoCard, Halts
<1>1. CASE Approve
  <2>1. card.pending \in Identities /\ place' = "observe" /\ UNCHANGED <<done, denied, asked>>
    BY <1>1 DEF Approve
  <2>2. \A id \in Identities : consents'[id] = IF id = card.pending THEN consents[id] + 1 ELSE consents[id]
    BY <1>1, <2>1 DEF Approve
  <2>3. RunTypeOK' /\ SpentInv' /\ RefusedInv'
    <3>1. decisions' = decisions /\ card'.kind # "confirm" /\ approved' = card.pending
      BY <1>1 DEF Approve
    <3>2. consents' \in [Identities -> Nat]
      BY <1>1, <2>1 DEF Approve
    <3>3. RunTypeOK'
      BY <2>1, <3>1, <3>2
    <3> QED BY <2>1, <3>1, <3>3
  <2>4. Worded \subseteq Identities /\ approved' = card.pending
    BY <1>1 DEF Approve
  <2>5. YesInv'
    BY <2>1, <2>2, <2>4
  <2> QED BY <2>3, <2>5
<1>2. CASE Deny BY <1>2 DEF Deny
<1>3. CASE Reply BY <1>3 DEF Reply
<1> QED BY <1>1, <1>2, <1>3

\* One step of the run, of the person or of the page keeps it.
LEMMA NavigatorStep == NavigatorInv /\ [NavigatorNext]_navVars => NavigatorInv'
<1> SUFFICES ASSUME NavigatorInv, [NavigatorNext]_navVars PROVE NavigatorInv'
  OBVIOUS
<1>1. CASE UNCHANGED navVars
  BY <1>1 DEF navVars, memoryVars, NavigatorInv, RunTypeOK, YesInv, SpentInv, RefusedInv, Going
<1>2. CASE NavigatorNext
  BY <1>2, LookStep, ChooseStep, ActStep, AnswerStep DEF NavigatorNext, Work, Look, Answer
<1> QED BY <1>1, <1>2

\* What it says of the tokens.
LEMMA NavigatorIsEnough == NavigatorInv => TokensHold
  BY DEF NavigatorInv, YesInv, SpentInv, RefusedInv, TokensHold, ConsentHolds, BudgetSpansPauses

\* lib.rs (ResumeToken): whatever the page does, and however often the run is paused and
\* resumed, a control whose label asks for a yes is executed at most once for each yes, what was
\* refused is not tried again, and the judge is asked at most MAX_DECISIONS times.
THEOREM TokensCarryConsent == NavigatorSpec => []TokensHold
  BY NavigatorInitially, NavigatorStep, NavigatorIsEnough, PTL DEF NavigatorSpec

\* Every pass ends before a limit is passed: while the run goes on, both counts are below theirs.
Row == [kind : {"act", "wait", "refused"}, changed : {"yes", "no", "unread"}]
NavigatorTypes ==
  /\ NavigatorTypeOK /\ rows \in Seq(Row)
  /\ place \notin Halts => stale < MaxStale /\ strikes < MaxStrikes

\* What an observation does to the last row.
LEMMA RowsKept ==
  ASSUME rows \in Seq(Row), NEW to \in {"yes", "no", "unread"}
  PROVE  [rows EXCEPT ![Len(rows)].changed = to] \in Seq(Row)
<1> DEFINE last == [rows[Len(rows)] EXCEPT !.changed = to]
<1>1. CASE rows = <<>>
  <2>1. [rows EXCEPT ![Len(rows)] = last] = rows
    BY <1>1
  <2> QED BY <2>1
<1>2. CASE rows # <<>>
  <2>1. Len(rows) \in 1 .. Len(rows) /\ rows[Len(rows)] \in Row
    BY <1>2
  <2>2. last \in Row
    BY <2>1 DEF Row
  <2> HIDE DEF last
  <2>3. [rows EXCEPT ![Len(rows)] = last] \in Seq(Row)
    BY <2>1, <2>2, ExceptSeq
  <2> QED BY <2>3 DEF last
<1> QED BY <1>1, <1>2

\* A run that begins is of its types, and so is one that goes on.
LEMMA NavigatorTyped ==
  /\ NavigatorInit => NavigatorTypes
  /\ NavigatorInv /\ NavigatorTypes /\ [NavigatorNext]_navVars => NavigatorTypes'
<1> USE NavigatorAssumption
<1>1. NavigatorInit => NavigatorTypes
  BY DEF NavigatorInit, NavigatorTypes, NavigatorTypeOK, Halts, Row
<1> SUFFICES ASSUME NavigatorInv, NavigatorTypes, [NavigatorNext]_navVars PROVE NavigatorTypes'
  BY <1>1
<1>a. /\ decisions = asked /\ decisions \in Nat /\ asked <= MaxDecisions /\ approved \in Identities \cup {NoIdentity}
      /\ place \in {"help", "guard", "act"} => chosen \in Identities
      /\ place = "card" /\ card.kind = "confirm" => card.pending \in Identities
  BY DEF NavigatorInv, SpentInv, RunTypeOK
<1>b. NavigatorInv'
  BY NavigatorStep
<1>c. decisions' \in 0 .. MaxDecisions /\ approved' \in Identities \cup {NoIdentity} /\ denied' \subseteq Identities
      /\ place' \in Halts \cup {"observe", "judge", "believe", "help", "guard", "act", "card"}
  BY <1>b DEF NavigatorInv, SpentInv, RunTypeOK
<1>3. rows' \in Seq(Row)
  <2>1. CASE UNCHANGED rows
    BY <2>1 DEF NavigatorTypes
  <2>2. CASE Observe
    BY <2>1, <2>2, RowsKept DEF Observe, NavigatorTypes
  <2>3. CASE Act \/ Deny
    <3>1. PICK row \in Row : rows' = Append(rows, row)
      BY <2>3 DEF Act, Deny, Row
    <3>2. rows \in Seq(Row)
      BY DEF NavigatorTypes
    <3> HIDE DEF Row
    <3> QED BY <3>1, <3>2
  <2> QED
    BY <2>1, <2>2, <2>3
    DEF NavigatorNext, Work, Look, Choose, Answer, PageMoves, Fail, Cancel, Halt, Uncertain, RunOut, HandOver,
        JudgeEnd, JudgeNothing, Judge, Believe, Guard, Help, Covered, Approve, Reply, Unanswered, navVars
<1>4. \A i \in DOMAIN rows' : rows'[i].kind \in {"act", "wait", "refused"}
                              /\ rows'[i].changed \in {"yes", "no", "unread"}
  <2>1. \A i \in DOMAIN rows' : rows'[i] \in Row
    BY <1>3
  <2> QED BY <2>1 DEF Row
<1>5. /\ surface' \in Surfaces /\ seen' \in Surfaces \cup {NoSurface} /\ before' \in Surfaces \cup {NoSurface}
      /\ chosen' \in Identities \cup {NoIdentity} /\ handed' \in Surfaces \cup {NoSurface}
  BY <1>a
  DEF NavigatorTypes, NavigatorTypeOK, NavigatorNext, Work, Look, Choose, Answer, PageMoves, Fail, Cancel, Halt,
      Uncertain, RunOut, HandOver, JudgeEnd, JudgeNothing, Judge, Believe, Guard, Help, Covered, Approve, Reply,
      Unanswered, Observe, Act, Deny, Resume, navVars, memoryVars
<1>6. stale' \in 0 .. MaxStale /\ (place' \notin Halts => stale' < MaxStale)
  BY <1>a
  DEF NavigatorTypes, NavigatorTypeOK, NavigatorNext, Work, Look, Choose, Answer, PageMoves, Fail, Cancel, Halt,
      Uncertain, RunOut, HandOver, JudgeEnd, JudgeNothing, Judge, Evaluate, Believe, Guard, Help, Covered, Approve,
      Reply, Unanswered, Observe, Act, Deny, Resume, Refresh, Halts, navVars, memoryVars
<1>7. strikes' \in 0 .. MaxStrikes /\ (place' \notin Halts => strikes' < MaxStrikes)
  <2>1. CASE UNCHANGED strikes /\ (place' \notin Halts => place \notin Halts)
    BY <2>1 DEF NavigatorTypes, NavigatorTypeOK
  <2>2. ASSUME NEW id \in Identities, NEW low \in BOOLEAN, NEW risky \in BOOLEAN, Judge(id, low, risky)
        PROVE  strikes' \in 0 .. MaxStrikes /\ (place' \notin Halts => strikes' < MaxStrikes)
    <3>1. strikes \in Nat /\ strikes < MaxStrikes
      BY <2>2 DEF Judge, Evaluate, NavigatorTypes, NavigatorTypeOK, Halts
    <3>2. strikes' \in {strikes, strikes + 1, 0}
      BY <2>2 DEF Judge, Drift
    <3>3. strikes' >= MaxStrikes => place' = "blocked"
      BY <2>2 DEF Judge
    <3> QED BY <3>1, <3>2, <3>3 DEF Halts
  <2> QED
    BY <2>1, <2>2
    DEF NavigatorNext, Work, Look, Choose, Answer, PageMoves, Fail, Cancel, Halt, Uncertain, RunOut, HandOver,
        JudgeEnd, JudgeNothing, Evaluate, Believe, Guard, Help, Covered, Approve, Reply, Unanswered, Observe, Act,
        Deny, Resume, Halts, navVars
<1> QED BY <1>c, <1>3, <1>4, <1>5, <1>6, <1>7 DEF NavigatorTypes, NavigatorTypeOK

-----------------------------------------------------------------------------
(* Queues, as the sets of what is in them. *)

\* What is appended is in the queue, with all that was.
LEMMA Pushed ==
  ASSUME NEW S, NEW s \in Seq(S), NEW e \in S
  PROVE  Append(s, e) \in Seq(S) /\ ToSet(Append(s, e)) = ToSet(s) \cup {e}
<1>1. Append(s, e) \in Seq(S) /\ Len(Append(s, e)) = Len(s) + 1 /\ Len(s) \in Nat
  BY AppendProperties
<1>2. DOMAIN s = 1 .. Len(s) /\ DOMAIN Append(s, e) = 1 .. Len(s) + 1
  BY <1>1
<1>3. \A i \in 1 .. Len(s) : Append(s, e)[i] = s[i]
  BY AppendProperties
<1>4. Append(s, e)[Len(s) + 1] = e
  BY AppendProperties
<1> QED BY <1>1, <1>2, <1>3, <1>4 DEF ToSet

\* What is taken from a queue is its head, and the rest stays.
LEMMA Popped ==
  ASSUME NEW S, NEW s \in Seq(S), s # <<>>
  PROVE  Tail(s) \in Seq(S) /\ Head(s) \in S /\ ToSet(s) = {Head(s)} \cup ToSet(Tail(s))
<1>1. Tail(s) \in Seq(S) /\ Head(s) \in S /\ Len(Tail(s)) = Len(s) - 1 /\ Len(s) \in Nat \ {0}
  BY HeadTailProperties, EmptySeq
<1>2. DOMAIN s = 1 .. Len(s) /\ DOMAIN Tail(s) = 1 .. Len(s) - 1
  BY <1>1
<1>3. \A i \in 1 .. Len(s) - 1 : Tail(s)[i] = s[i + 1]
  BY <1>1, HeadTailProperties
<1>4. s[1] = Head(s)
  BY <1>1
<1>5. \A i \in 2 .. Len(s) : i - 1 \in 1 .. Len(s) - 1 /\ s[i] = Tail(s)[i - 1]
  BY <1>1, <1>3
<1>6. \A i \in 1 .. Len(s) - 1 : i + 1 \in DOMAIN s
  BY <1>1, <1>2
<1>7. ToSet(Tail(s)) \subseteq ToSet(s)
  BY <1>2, <1>3, <1>6 DEF ToSet
<1>8. \A i \in DOMAIN s : i = 1 \/ i \in 2 .. Len(s)
  BY <1>1, <1>2
<1>9. ASSUME NEW i \in DOMAIN s PROVE s[i] \in {Head(s)} \cup ToSet(Tail(s))
  <2>1. CASE i = 1 BY <1>4, <2>1
  <2>2. CASE i \in 2 .. Len(s) BY <1>2, <1>5, <2>2 DEF ToSet
  <2> QED BY <1>8, <1>9, <2>1, <2>2
<1>10. Head(s) \in ToSet(s)
  BY <1>1, <1>2, <1>4 DEF ToSet
<1>11. ToSet(s) \subseteq {Head(s)} \cup ToSet(Tail(s))
  BY <1>9 DEF ToSet
<1> QED BY <1>1, <1>7, <1>10, <1>11

-----------------------------------------------------------------------------
(* Application runs. *)

\* The actor has a command in hand.
Busy(d) == thread[d] \in {"work", "check", "post"}

\* What a step reads of a driver, beside the sizes.
DriverTypeOK ==
  /\ client \in [Drivers -> Calls \cup {"off", "spawn", "drop", "leave", "gone"}]
  /\ answer \in [Drivers -> {"none", "ok", "stale", "error"}]
  /\ waiting \in [Drivers -> BOOLEAN] /\ kill \in [Drivers -> BOOLEAN] /\ halted \in [Drivers -> BOOLEAN]
  /\ at \in [Drivers -> Nat] /\ late \in [Drivers -> {0, 1}]
  /\ thread \in [Drivers -> {"none", "drain", "work", "check", "post", "gone"}]
  /\ inbox \in [Drivers -> Seq(Calls \cup {Nobody})]

\* Only a call is answered, and a routine has a step to go to.
ClientInv(d) ==
  /\ client[d] \notin Calls => answer[d] = "none" /\ ~waiting[d]
  /\ waiting[d] => answer[d] = "none"
  /\ client[d] \in {"off", "spawn"} => at[d] = 0
  /\ Routine(d) /\ client[d] \in Calls \ {"last"} => at[d] < Len(Script[d])

\* One command at a time is on its way or in hand, and the shutdown comes after it.
QueueInv(d) ==
  /\ client[d] \in {"off", "spawn"} => thread[d] = "none" /\ inbox[d] = <<>>
  /\ client[d] \in Calls =>
       \/ ~waiting[d] /\ thread[d] = "drain" /\ inbox[d] = <<>>
       \/ waiting[d] /\ thread[d] = "drain" /\ \E cmd \in Calls : inbox[d] = <<cmd>>
       \/ waiting[d] /\ Busy(d) /\ inbox[d] = <<>>
  /\ client[d] = "drop" =>
       \/ thread[d] = "drain" /\ \E cmd \in Calls : inbox[d] = <<cmd>>
       \/ (thread[d] = "drain" \/ Busy(d)) /\ inbox[d] = <<>>
  /\ client[d] \in {"leave", "gone"} =>
       \/ thread[d] = "drain" /\ \E cmd \in Calls : inbox[d] = <<cmd, Nobody>>
       \/ (thread[d] = "drain" \/ Busy(d)) /\ inbox[d] = <<Nobody>>
       \/ thread[d] = "gone" /\ inbox[d] = <<>>

\* A run that still calls was not stopped; the one effect after the stop is that of the last
\* command there was.
StopInv(d) ==
  /\ client[d] \in Calls \cup {"off", "spawn"} => ~kill[d]
  /\ ~kill[d] => ~halted[d] /\ late[d] = 0
  /\ late[d] = 1 => thread[d] \in {"check", "drain", "gone"} /\ inbox[d] \in {<<>>, <<Nobody>>}

DriverInv(d) == ClientInv(d) /\ QueueInv(d) /\ StopInv(d)
AppRunsInv == DriverTypeOK /\ \A d \in Drivers : DriverInv(d)

\* The queues there are.
LEMMA ShortQueues ==
  ASSUME NEW a, NEW b
  PROVE  /\ Append(<<>>, a) = <<a>> /\ Append(<<a>>, b) = <<a, b>>
         /\ Head(<<a>>) = a /\ Tail(<<a>>) = <<>> /\ Head(<<a, b>>) = a /\ Tail(<<a, b>>) = <<b>>
         /\ <<a>> # <<>> /\ <<a, b>> # <<>> /\ <<a, b>> # <<b>> /\ (a # b => <<a>> # <<b>>)
<1>1. <<a>> \in Seq({a, b}) /\ Len(<<a>>) = 1 /\ <<a, b>> \in Seq({a, b}) /\ Len(<<a, b>>) = 2
  OBVIOUS
<1>2. Append(<<a>>, b) \in Seq({a, b}) /\ Len(Append(<<a>>, b)) = 2
  BY <1>1, AppendProperties
<1>3. Append(<<a>>, b)[1] = a /\ Append(<<a>>, b)[2] = b
  BY <1>1, AppendProperties
<1>4. Append(<<a>>, b) = <<a, b>>
  <2> DEFINE s == Append(<<a>>, b)
             t == <<a, b>>
  <2>1. s \in Seq({a, b}) /\ t \in Seq({a, b}) /\ Len(s) = 2 /\ Len(t) = 2
    BY <1>1, <1>2
  <2>2. \A i \in 1 .. 2 : s[i] = t[i]
    BY <1>3
  <2> HIDE DEF s, t
  <2>3. \A i \in 1 .. Len(s) : s[i] = t[i]
    BY <2>1, <2>2
  <2>4. s = t
    BY <2>1, <2>3, SeqEqual
  <2> QED BY <2>4 DEF s, t
<1>5. Append(<<>>, a) = <<a>> /\ Head(<<a>>) = a /\ Tail(<<a>>) = <<>>
  OBVIOUS
<1>6. Head(<<a, b>>) = a /\ Tail(<<a, b>>) = <<b>>
  OBVIOUS
<1>7. <<a>> # <<>> /\ <<a, b>> # <<>> /\ <<a, b>> # <<b>> /\ (a # b => <<a>> # <<b>>)
  OBVIOUS
<1> QED BY <1>4, <1>5, <1>6, <1>7

\* Nothing has begun.
LEMMA AppRunsInitially == AppRunsInit => AppRunsInv
  BY AppRunsAssumption
DEF AppRunsInit, AppRunsInv, DriverTypeOK, DriverInv, ClientInv, QueueInv, StopInv, Routine, Calls, Busy

\* What a driver's invariant is about.
Of(d) == <<client[d], answer[d], waiting[d], kill[d], halted[d], at[d], late[d], thread[d], inbox[d]>>

\* A driver that nothing happened to.
LEMMA DriverKept ==
  ASSUME NEW d \in Drivers, DriverInv(d), UNCHANGED Of(d)
  PROVE  DriverInv(d)'
BY DEF Of, DriverInv, ClientInv, QueueInv, StopInv, Routine, Busy

\* The run makes a step: it calls, or it stops calling.
LEMMA RunMoves ==
  ASSUME AppRunsInv, NEW d \in Drivers,
         Acquire(d) \/ RunStep(d) \/ Between(d) \/ Cancelled(d) \/ Dropped(d)
  PROVE  AppRunsInv'
<1> USE AppRunsAssumption DEF worldVars, actorVars
<1>1. Routine(d) => Script[d][1] \in Calls /\ Len(Script[d]) > 0
  BY DEF Routine, Calls
<1>2. \A n \in 1 .. Len(Script[d]) : Script[d][n] \in Calls
  BY DEF Calls
<1>3. \A e \in Drivers \ {d} : UNCHANGED Of(e)
  BY DEF Of, AppRunsInv, DriverTypeOK, RunStep,
         Acquire, Spawn, Call, Decide, NextStep, Shutdown, LetGo, Between, Cancelled, Dropped
<1>4. DriverTypeOK /\ ClientInv(d) /\ QueueInv(d) /\ StopInv(d)
  BY DEF AppRunsInv, DriverInv
<1>5. DriverTypeOK' /\ ClientInv(d)' /\ QueueInv(d)' /\ StopInv(d)'
  <2>1. CASE Acquire(d)
    BY <1>4, <2>1 DEF Acquire, Calls, Routine, DriverTypeOK, ClientInv, QueueInv, StopInv, Busy
  <2>2. CASE Spawn(d)
    BY <1>1, <1>4, <2>2 DEF Spawn, Calls, Routine, DriverTypeOK, ClientInv, QueueInv, StopInv, Busy
  <2>3. CASE Call(d)
    <3>1. client[d] \in Calls /\ inbox[d] = <<>> /\ thread[d] = "drain"
      BY <1>4, <2>3 DEF Call, QueueInv
    <3>2. inbox' = [inbox EXCEPT ![d] = <<client[d]>>] /\ <<client[d]>> \in Seq(Calls \cup {Nobody})
      BY <2>3, <3>1 DEF Call
    <3>3. DriverTypeOK'
      BY <1>4, <2>3, <3>2 DEF Call, DriverTypeOK
    <3>4. waiting'[d] = TRUE /\ inbox'[d] = <<client[d]>> /\ answer[d] = "none"
      BY <1>4, <2>3, <3>2 DEF Call, DriverTypeOK
    <3>5. UNCHANGED <<client, answer, at, kill, halted, late, thread>>
      BY <2>3 DEF Call
    <3> QED
      BY <1>4, <3>1, <3>3, <3>4, <3>5 DEF Calls, ClientInv, QueueInv, StopInv, Busy, Routine, DriverTypeOK
  <2>4. CASE Decide(d)
    <3>1. client[d] \in Calls /\ ~waiting[d]
      BY <1>4, <2>4 DEF Decide, ClientInv, QueueInv, DriverTypeOK, Busy
    <3>2. AfterReply(d) \subseteq Calls \cup {"drop"}
      BY DEF AfterReply, Calls
    <3>3. PICK goal \in Calls \cup {"drop"} : client' = [client EXCEPT ![d] = goal]
      BY <1>4, <2>4, <3>2 DEF Decide, Calls, DriverTypeOK
    <3>4. answer' = [answer EXCEPT ![d] = "none"] /\ ~Routine(d) /\ UNCHANGED <<waiting, kill, inbox, at, actorVars>>
      BY <2>4 DEF Decide
    <3>5. DriverTypeOK'
      BY <1>4, <3>3, <3>4 DEF DriverTypeOK
    <3>6. ClientInv(d)' /\ StopInv(d)'
      BY <1>4, <3>1, <3>3, <3>4 DEF ClientInv, StopInv, DriverTypeOK, Routine, Calls
    <3>7. QueueInv(d)'
      BY <1>4, <3>1, <3>3, <3>4 DEF QueueInv, Busy, Calls
    <3> QED BY <3>5, <3>6, <3>7
  <2>5. CASE NextStep(d)
    <3>1. client[d] \in Calls /\ ~waiting[d] /\ Routine(d)
      BY <1>4, <2>5 DEF NextStep, ClientInv, QueueInv, DriverTypeOK, Busy
    <3>2. answer' = [answer EXCEPT ![d] = "none"] /\ UNCHANGED <<waiting, kill, inbox, actorVars>>
      BY <2>5 DEF NextStep
    <3>3. \/ UNCHANGED <<client, at>>
          \/ client' = [client EXCEPT ![d] = "drop"] /\ UNCHANGED at
          \/ /\ at' = [at EXCEPT ![d] = at[d] + 1] /\ at[d] < Len(Script[d])
             /\ client' = [client EXCEPT ![d] = IF at[d] + 1 = Len(Script[d]) THEN "last"
                                                ELSE Script[d][at[d] + 1 + 1]]
      BY <1>4, <2>5, <3>1 DEF NextStep, ClientInv, DriverTypeOK
    <3>4. at[d] + 1 # Len(Script[d]) /\ at[d] < Len(Script[d]) => Script[d][at[d] + 1 + 1] \in Calls
      BY <1>2, <1>4 DEF DriverTypeOK
    <3>5. DriverTypeOK' /\ client'[d] \in Calls \cup {"drop"}
      <4>1. client' \in [Drivers -> Calls \cup {"off", "spawn", "drop", "leave", "gone"}]
        BY <1>4, <3>3, <3>4 DEF DriverTypeOK, Calls
      <4>2. at' \in [Drivers -> Nat] /\ answer' \in [Drivers -> {"none", "ok", "stale", "error"}]
        BY <1>4, <3>2, <3>3 DEF DriverTypeOK
      <4>3. client'[d] \in Calls \cup {"drop"}
        BY <1>4, <3>1, <3>3, <3>4 DEF DriverTypeOK, Calls
      <4> QED BY <1>4, <3>2, <4>1, <4>2, <4>3 DEF DriverTypeOK
    <3>6. ClientInv(d)'
      BY <1>4, <3>1, <3>2, <3>3, <3>4 DEF ClientInv, DriverTypeOK, Calls
    <3>7. StopInv(d)' /\ QueueInv(d)'
      BY <1>4, <3>1, <3>2, <3>5 DEF StopInv, QueueInv, Busy, Calls
    <3> QED BY <3>5, <3>6, <3>7
  <2>6. CASE Shutdown(d)
    <3>1. client' = [client EXCEPT ![d] = "leave"] /\ at' = [at EXCEPT ![d] = 0] /\ client[d] = "drop"
          /\ UNCHANGED <<waiting, answer, kill, actorVars>>
      BY <2>6 DEF Shutdown
    <3>2. CASE inbox[d] = <<>>
      <4>1. inbox' = [inbox EXCEPT ![d] = <<Nobody>>]
        BY <2>6, <3>2, ShortQueues DEF Shutdown
      <4>2. DriverTypeOK' /\ inbox'[d] = <<Nobody>>
        BY <1>4, <3>1, <4>1 DEF DriverTypeOK
      <4> QED BY <1>4, <3>1, <3>2, <4>2 DEF Calls, ClientInv, QueueInv, StopInv, Busy, DriverTypeOK
    <3>3. ASSUME NEW cmd \in Calls, inbox[d] = <<cmd>>
          PROVE  DriverTypeOK' /\ ClientInv(d)' /\ QueueInv(d)' /\ StopInv(d)'
      <4>0. cmd # Nobody
        BY DEF Calls, Nobody
      <4>1. Append(inbox[d], Nobody) = <<cmd, Nobody>> /\ <<cmd>> # <<>> /\ <<cmd>> # <<Nobody>>
        <5>1. Append(<<cmd>>, Nobody) = <<cmd, Nobody>>
          BY ShortQueues
        <5>2. <<cmd>> # <<>> /\ <<cmd>> # <<Nobody>>
          BY <4>0, ShortQueues
        <5> QED BY <3>3, <5>1, <5>2
      <4>2. inbox' = [inbox EXCEPT ![d] = <<cmd, Nobody>>]
        BY <2>6, <4>1 DEF Shutdown
      <4>3. DriverTypeOK' /\ inbox'[d] = <<cmd, Nobody>>
        BY <1>4, <3>1, <4>2 DEF DriverTypeOK
      <4>4. thread[d] = "drain" /\ late[d] # 1
        BY <1>4, <3>1, <3>3, <4>1 DEF QueueInv, StopInv
      <4> QED BY <1>4, <3>1, <4>3, <4>4 DEF Calls, ClientInv, QueueInv, StopInv, Busy, DriverTypeOK
    <3> QED BY <1>4, <3>1, <3>2, <3>3 DEF QueueInv
  <2>7. CASE LetGo(d)
    BY <1>4, <2>7 DEF LetGo, Calls, DriverTypeOK, ClientInv, QueueInv, StopInv, Busy
  <2>8. CASE Between(d) \/ Cancelled(d) \/ Dropped(d)
    <3>1. client' = [client EXCEPT ![d] = "drop"] /\ UNCHANGED <<at, inbox, actorVars>> /\ client[d] \in Calls
      BY <2>8 DEF Between, Cancelled, Dropped, Driving
    <3>2. DriverTypeOK' /\ waiting'[d] = FALSE /\ answer'[d] = "none"
      <4>1. CASE Between(d) BY <1>4, <4>1 DEF Between, DriverTypeOK
      <4>2. CASE Cancelled(d) BY <1>4, <4>2 DEF Cancelled, DriverTypeOK
      <4>3. CASE Dropped(d) BY <1>4, <4>3 DEF Dropped, DriverTypeOK
      <4> QED BY <2>8, <4>1, <4>2, <4>3
    <3>3. client'[d] = "drop" /\ ~kill[d] /\ ~halted[d] /\ late[d] = 0
      BY <1>4, <3>1 DEF DriverTypeOK, StopInv
    <3> QED BY <1>4, <3>1, <3>2, <3>3 DEF DriverTypeOK, ClientInv, QueueInv, StopInv, Busy, Calls
  <2> QED BY <2>1, <2>2, <2>3, <2>4, <2>5, <2>6, <2>7, <2>8 DEF RunStep
<1> QED BY <1>3, <1>5, DriverKept DEF AppRunsInv, DriverInv

\* The actor makes a step: the command in hand stays one, and nobody is answered twice.
LEMMA ActorMoves ==
  ASSUME AppRunsInv, NEW d \in Drivers, ActorStep(d)
  PROVE  AppRunsInv'
<1> USE DEF worldVars, clientVars
<1>1. DriverTypeOK /\ ClientInv(d) /\ QueueInv(d) /\ StopInv(d)
  BY DEF AppRunsInv, DriverInv
<1>2. \A how \in {"ok", "stale", "error"} : Respond(d, how) =>
        /\ waiting' \in [Drivers -> BOOLEAN] /\ waiting'[d] = FALSE
        /\ answer' \in [Drivers -> {"none", "ok", "stale", "error"}] /\ (~waiting[d] => answer'[d] = answer[d])
        /\ \A e \in Drivers \ {d} : waiting'[e] = waiting[e] /\ answer'[e] = answer[e]
  BY <1>1 DEF Respond, DriverTypeOK
<1>3. CASE Slice(d)
  <2>1. kill[d] /\ halted' = [halted EXCEPT ![d] = TRUE] /\ UNCHANGED <<clientVars, kill, inbox, thread, late>>
    BY <1>3 DEF Slice
  <2>2. DriverTypeOK' /\ ClientInv(d)' /\ QueueInv(d)' /\ StopInv(d)'
    BY <1>1, <2>1 DEF DriverTypeOK, ClientInv, QueueInv, StopInv, Routine, Busy
  <2>3. \A e \in Drivers \ {d} : UNCHANGED Of(e)
    BY <1>1, <2>1 DEF Of, DriverTypeOK
  <2> QED BY <2>2, <2>3, DriverKept DEF AppRunsInv, DriverInv
<1>4. CASE Receive(d)
  <2> DEFINE cmd == Head(inbox[d])
  <2>1. UNCHANGED <<client, at, kill, halted, late>> /\ thread[d] = "drain" /\ inbox[d] # <<>>
    BY <1>4 DEF Receive
  <2>2. inbox' = [inbox EXCEPT ![d] = Tail(inbox[d])]
    BY <1>4 DEF Receive
  <2>3. thread' = [thread EXCEPT ![d] = IF cmd = Nobody THEN "gone" ELSE IF Refuses(d) THEN "drain" ELSE "work"]
    BY <1>4 DEF Receive
  <2>4. IF cmd # Nobody /\ Refuses(d) THEN Respond(d, "error") ELSE UNCHANGED <<waiting, answer>>
    BY <1>4 DEF Receive
  <2>5. Refuses(d) => kill[d]
    BY <1>1 DEF Refuses, StopInv
  <2>6. waiting[d] => client[d] \in Calls
    BY <1>1 DEF ClientInv, DriverTypeOK
  <2>7. /\ waiting' \in [Drivers -> BOOLEAN] /\ answer' \in [Drivers -> {"none", "ok", "stale", "error"}]
        /\ ~waiting[d] => answer'[d] = answer[d] /\ ~waiting'[d]
        /\ ~(cmd # Nobody /\ Refuses(d)) => answer'[d] = answer[d] /\ waiting'[d] = waiting[d]
        /\ \A e \in Drivers \ {d} : waiting'[e] = waiting[e] /\ answer'[e] = answer[e]
    BY <1>1, <1>2, <2>4 DEF DriverTypeOK
  <2> HIDE DEF cmd
  <2>8. cmd # Nobody <=> client[d] \in Calls \/ inbox[d] # <<Nobody>>
    <3>1. Nobody \notin Calls
      BY DEF Nobody, Calls
    <3>2. \/ client[d] \in Calls \cup {"drop", "leave", "gone"} /\ \E c \in Calls : inbox[d] = <<c>>
          \/ client[d] \in {"leave", "gone"} /\ \E c \in Calls : inbox[d] = <<c, Nobody>>
          \/ client[d] \in {"leave", "gone"} /\ inbox[d] = <<Nobody>>
      BY <1>1, <2>1 DEF QueueInv, DriverTypeOK, Busy
    <3>3. ASSUME NEW c \in Calls, inbox[d] = <<c>> PROVE cmd = c /\ c # Nobody /\ inbox[d] # <<Nobody>>
      BY <3>1, <3>3, ShortQueues DEF cmd
    <3>4. ASSUME NEW c \in Calls, inbox[d] = <<c, Nobody>> PROVE cmd = c /\ c # Nobody /\ inbox[d] # <<Nobody>>
      BY <3>1, <3>4, ShortQueues DEF cmd
    <3>5. inbox[d] = <<Nobody>> => cmd = Nobody
      BY ShortQueues DEF cmd
    <3>6. client[d] \in {"leave", "gone"} => client[d] \notin Calls
      BY DEF Calls
    <3> QED BY <3>2, <3>3, <3>4, <3>5, <3>6
  <2>9. cmd = Nobody => client[d] \in {"leave", "gone"} /\ Tail(inbox[d]) = <<>>
    <3>1. inbox[d] = <<Nobody>> => Tail(inbox[d]) = <<>> /\ ~\E c \in Calls : inbox[d] = <<c>>
      BY ShortQueues DEF Calls, Nobody
    <3> QED BY <1>1, <2>1, <2>8, <3>1 DEF QueueInv, DriverTypeOK, Busy
  <2>10. cmd # Nobody => \/ client[d] \in Calls \cup {"drop"} /\ Tail(inbox[d]) = <<>>
                         \/ client[d] \in {"leave", "gone"} /\ Tail(inbox[d]) = <<Nobody>>
    <3>1. ASSUME NEW c \in Calls
          PROVE  /\ inbox[d] = <<c>> => Tail(inbox[d]) = <<>>
                 /\ inbox[d] = <<c, Nobody>> => Tail(inbox[d]) = <<Nobody>>
      <4>1. Tail(<<c>>) = <<>> /\ Tail(<<c, Nobody>>) = <<Nobody>>
        BY ShortQueues
      <4> QED BY <4>1
    <3> QED BY <1>1, <2>1, <2>8, <3>1 DEF QueueInv, DriverTypeOK, Busy
  <2>11. DriverTypeOK'
    <3>1. inbox' \in [Drivers -> Seq(Calls \cup {Nobody})]
      BY <1>1, <2>1, <2>2 DEF DriverTypeOK
    <3>2. thread' \in [Drivers -> {"none", "drain", "work", "check", "post", "gone"}]
      BY <1>1, <2>3 DEF DriverTypeOK
    <3> QED BY <1>1, <2>1, <2>7, <3>1, <3>2 DEF DriverTypeOK
  <2>12. ClientInv(d)'
    <3>1. waiting'[d] => waiting[d] /\ answer'[d] = answer[d]
      BY <1>1, <1>2, <2>4, <2>7 DEF DriverTypeOK
    <3> QED BY <1>1, <2>1, <2>6, <2>7, <3>1 DEF ClientInv, Routine
  <2>13. /\ inbox'[d] = Tail(inbox[d])
         /\ cmd = Nobody => thread'[d] = "gone"
         /\ cmd # Nobody /\ Refuses(d) => thread'[d] = "drain"
         /\ cmd # Nobody /\ ~Refuses(d) => thread'[d] = "work"
    <3>1. inbox'[d] = Tail(inbox[d])
      BY <1>1, <2>2 DEF DriverTypeOK
    <3>2. thread'[d] = IF cmd = Nobody THEN "gone" ELSE IF Refuses(d) THEN "drain" ELSE "work"
      BY <1>1, <2>3 DEF DriverTypeOK
    <3> QED BY <3>1, <3>2
  <2>14. QueueInv(d)'
    <3>1. CASE cmd = Nobody
      BY <2>1, <2>9, <2>13, <3>1 DEF QueueInv, Calls
    <3>2. CASE cmd # Nobody /\ client[d] \in Calls
      <4>1. ~Refuses(d) /\ waiting[d] /\ waiting'[d]
        BY <1>1, <2>1, <2>5, <2>7, <3>2 DEF StopInv, QueueInv, Busy
      <4> QED BY <2>1, <2>10, <2>13, <3>2, <4>1 DEF QueueInv, Busy, Calls
    <3>3. CASE cmd # Nobody /\ client[d] \notin Calls
      BY <2>1, <2>10, <2>13, <3>3 DEF QueueInv, Busy, Calls
    <3> QED BY <3>1, <3>2, <3>3
  <2>15. StopInv(d)'
    <3>1. late[d] = 1 => cmd = Nobody
      BY <1>1, <2>1, <2>8 DEF StopInv
    <3> QED BY <1>1, <2>1, <2>9, <2>13, <3>1 DEF StopInv
  <2>16. \A e \in Drivers \ {d} : UNCHANGED Of(e)
    BY <1>1, <2>1, <2>2, <2>3, <2>7 DEF Of, DriverTypeOK
  <2> QED BY <2>11, <2>12, <2>14, <2>15, <2>16, DriverKept DEF AppRunsInv, DriverInv
<1>5. CASE Handle(d)
  <2>1. UNCHANGED <<client, at, kill, halted, inbox>>
    BY <1>5
    DEF Handle, Activate, Table, Inspect, Perform, StartTyping, RefuseAct, Check, Post, Panic
  <2>2. Busy(d)
    BY <1>5
    DEF Busy, Handle, Activate, Table, Inspect, Perform, StartTyping, RefuseAct, Check, Post, Panic
  <2>3. \/ \E how \in {"ok", "stale", "error"} : Respond(d, how) /\ thread' = [thread EXCEPT ![d] = "drain"]
        \/ UNCHANGED <<waiting, answer>> /\ \E to \in {"check", "post"} : thread' = [thread EXCEPT ![d] = to]
    <3> USE DEF Finish
    <3>1. CASE Activate(d) BY <3>1 DEF Activate
    <3>2. CASE Table(d) BY <3>2 DEF Table
    <3>3. CASE Inspect(d) BY <3>3 DEF Inspect
    <3>4. CASE Perform(d) \/ RefuseAct(d) BY <3>4 DEF Perform, RefuseAct
    <3>5. CASE StartTyping(d) \/ Post(d) BY <3>5 DEF StartTyping, Post
    <3>6. CASE Check(d) BY <3>6 DEF Check
    <3>7. CASE Panic(d) BY <3>7 DEF Panic
    <3> QED BY <1>5, <3>1, <3>2, <3>3, <3>4, <3>5, <3>6, <3>7 DEF Handle
  <2>4. \/ late' = late
        \/ /\ kill[d] /\ late' = [late EXCEPT ![d] = late[d] + 1]
           /\ thread[d] \in {"work", "post"}
    <3>1. ASSUME Felt(d) PROVE late' = late \/ (kill[d] /\ late' = [late EXCEPT ![d] = late[d] + 1])
      BY <1>1, <3>1 DEF Felt, DriverTypeOK
    <3>2. CASE Perform(d) \/ Post(d) BY <3>1, <3>2 DEF Perform, Post
    <3>3. CASE ~(Perform(d) \/ Post(d))
      BY <1>5, <3>3 DEF Handle, Activate, Table, Inspect, StartTyping, RefuseAct, Check, Panic
    <3> QED BY <3>2, <3>3
  <2>5. kill[d] => thread'[d] \in {"check", "drain"}
    <3> USE <1>1 DEF DriverTypeOK, Finish
    <3>1. CASE Check(d) BY <3>1 DEF Check
    <3>2. CASE StartTyping(d) \/ Post(d) BY <3>2 DEF StartTyping, Post
    <3>3. CASE Activate(d) \/ Table(d) BY <3>3 DEF Activate, Table
    <3>4. CASE Inspect(d) BY <3>4 DEF Inspect
    <3>5. CASE Perform(d) \/ RefuseAct(d) \/ Panic(d) BY <3>5 DEF Perform, RefuseAct, Panic
    <3> QED BY <1>5, <3>1, <3>2, <3>3, <3>4, <3>5 DEF Handle
  <2>6. /\ waiting' \in [Drivers -> BOOLEAN] /\ answer' \in [Drivers -> {"none", "ok", "stale", "error"}]
        /\ ~waiting[d] => answer'[d] = answer[d] /\ ~waiting'[d]
        /\ \A e \in Drivers \ {d} : waiting'[e] = waiting[e] /\ answer'[e] = answer[e]
    BY <1>1, <1>2, <2>3 DEF DriverTypeOK
  <2>7. \/ ~waiting'[d] /\ thread'[d] = "drain"
        \/ waiting'[d] = waiting[d] /\ answer'[d] = answer[d] /\ thread'[d] \in {"check", "post"}
    BY <1>1, <1>2, <2>3 DEF DriverTypeOK
  <2>8. thread' \in [Drivers -> {"none", "drain", "work", "check", "post", "gone"}]
        /\ \A e \in Drivers \ {d} : thread'[e] = thread[e]
    <3>1. PICK to \in {"drain", "check", "post"} : thread' = [thread EXCEPT ![d] = to]
      BY <2>3
    <3> QED BY <1>1, <3>1 DEF DriverTypeOK
  <2>9. late' \in [Drivers -> {0, 1}] /\ \A e \in Drivers \ {d} : late'[e] = late[e]
    <3>1. kill[d] /\ thread[d] \in {"work", "post"} => late[d] = 0
      BY <1>1 DEF StopInv, DriverTypeOK
    <3>2. late' = late \/ (late[d] = 0 /\ late' = [late EXCEPT ![d] = 1])
      BY <2>4, <3>1
    <3> QED BY <1>1, <3>2 DEF DriverTypeOK
  <2>10. DriverTypeOK' /\ \A e \in Drivers \ {d} : UNCHANGED Of(e)
    BY <1>1, <2>1, <2>6, <2>8, <2>9 DEF DriverTypeOK, Of
  <2>11. ClientInv(d)'
    BY <1>1, <2>1, <2>6, <2>7 DEF ClientInv, Routine
  <2>12. QueueInv(d)'
    BY <1>1, <2>1, <2>2, <2>6, <2>7 DEF QueueInv, Busy, Calls, ClientInv
  <2>13. StopInv(d)'
    <3>1. CASE ~kill[d]
      BY <1>1, <2>1, <2>4, <3>1 DEF StopInv
    <3>2. CASE kill[d]
      <4>1. client[d] \notin Calls \cup {"off", "spawn"} /\ inbox[d] \in {<<>>, <<Nobody>>}
        BY <1>1, <2>2, <3>2 DEF StopInv, QueueInv, DriverTypeOK, Busy
      <4> QED BY <1>1, <2>1, <2>5, <3>2, <4>1 DEF StopInv
    <3> QED BY <1>1, <3>1, <3>2 DEF DriverTypeOK
  <2> QED BY <2>10, <2>11, <2>12, <2>13, DriverKept DEF AppRunsInv, DriverInv
<1> QED BY <1>3, <1>4, <1>5 DEF ActorStep

\* One step of anybody keeps it.
LEMMA AppRunsStep == AppRunsInv /\ [AppRunsNext]_appVars => AppRunsInv'
<1> SUFFICES ASSUME AppRunsInv, [AppRunsNext]_appVars PROVE AppRunsInv'
  OBVIOUS
<1>1. ASSUME UNCHANGED <<client, answer, waiting, kill, halted, at, late, thread, inbox>>
      PROVE  AppRunsInv'
  BY <1>1, DriverKept DEF AppRunsInv, DriverTypeOK, Of
<1>2. CASE UNCHANGED appVars
  BY <1>1, <1>2 DEF appVars, clientVars, actorVars
<1>3. CASE Refocus \/ \E d \in Drivers : Restart(d)
  BY <1>1, <1>3 DEF Refocus, Restart, clientVars, actorVars
<1>4. CASE \E d \in Drivers : Acquire(d) \/ RunStep(d) \/ Between(d) \/ Cancelled(d) \/ Dropped(d)
  BY <1>4, RunMoves
<1>5. CASE \E d \in Drivers : ActorStep(d)
  BY <1>5, ActorMoves
<1> QED BY <1>2, <1>3, <1>4, <1>5 DEF AppRunsNext

\* What it says of a stopped actor.
LEMMA StopIsEnough == AppRunsInv => StopIsPrompt
<1>1. AppRunsInv => \A d \in Drivers : late[d] \in {0, 1}
  BY DEF AppRunsInv, DriverTypeOK
<1> QED BY <1>1 DEF StopIsPrompt

\* AxHandle::stop ("stops within one chunk"), for any runs, texts and platforms: whatever the
\* actor had in hand and whatever was queued when it was stopped, the application feels at most
\* one more effect.
THEOREM StopsWithinOneChunk == AppRunsSpec => []StopIsPrompt
  BY AppRunsInitially, AppRunsStep, StopIsEnough, PTL DEF AppRunsSpec

\* A text has a chunk left while one is posted; a table is one of two kept generations.
AppRunsTypes ==
  /\ users \subseteq Drivers /\ front \in Drivers \cup {NoDriver} /\ platform \in Platforms
  /\ aim \in [Drivers -> {"none", "press", "type", "scroll", "end"}]
  /\ at \in [Drivers -> Nat] /\ tables \in [Drivers -> 0 .. MaxTables] /\ left \in [Drivers -> 0 .. Chunks]
  /\ gens \in [Drivers -> Seq(BOOLEAN)]
  /\ \A d \in Drivers : /\ at[d] <= Len(Script[d]) /\ Len(gens[d]) <= 2
                        /\ thread[d] = "post" => left[d] > 0

\* The generations of processes that run are no more than there were.
LEMMA LivingAreFewer ==
  ASSUME NEW g \in Seq(BOOLEAN)
  PROVE  Living(g) \in Seq(BOOLEAN) /\ Len(Living(g)) <= Len(g)
<1> DEFINE alive == {i \in DOMAIN g : g[i]}
<1>1. DOMAIN g = 1 .. Len(g) /\ Len(g) \in Nat
  OBVIOUS
<1>2. IsFiniteSet(1 .. Len(g)) /\ Cardinality(1 .. Len(g)) = Len(g)
  BY <1>1, FS_Interval
<1>3. alive \subseteq 1 .. Len(g)
  BY <1>1
<1>4. Cardinality(alive) \in Nat /\ Cardinality(alive) <= Len(g)
  BY <1>2, <1>3, FS_Subset, FS_CardinalityType
<1>5. Living(g) = [i \in 1 .. Cardinality(alive) |-> TRUE]
  BY DEF Living
<1>6. \A n \in Nat : [i \in 1 .. n |-> TRUE] \in Seq(BOOLEAN) /\ Len([i \in 1 .. n |-> TRUE]) = n
  OBVIOUS
<1> HIDE DEF alive
<1> QED BY <1>4, <1>5, <1>6

\* Generations that are read, that are dropped, and whose processes have ended.
LEMMA FewGenerations ==
  ASSUME NEW g \in Seq(BOOLEAN), Len(g) <= 2
  PROVE  /\ Len(g) = 2 => Tail(g) \in Seq(BOOLEAN) /\ Len(Tail(g)) < 2
         /\ Len(g) # 2 => Len(g) < 2
         /\ Len(g) < 2 => Append(g, TRUE) \in Seq(BOOLEAN) /\ Len(Append(g, TRUE)) <= 2
         /\ [i \in DOMAIN g |-> FALSE] \in Seq(BOOLEAN) /\ Len([i \in DOMAIN g |-> FALSE]) = Len(g)
<1>1. Len(g) \in Nat /\ DOMAIN g = 1 .. Len(g)
  OBVIOUS
<1>2. Len(g) = 2 => Tail(g) \in Seq(BOOLEAN) /\ Len(Tail(g)) < 2
  <2> SUFFICES ASSUME Len(g) = 2 PROVE Tail(g) \in Seq(BOOLEAN) /\ Len(Tail(g)) < 2
    OBVIOUS
  <2> DEFINE rest == Tail(g)
  <2>1. g # <<>>
    BY EmptySeq
  <2>2. rest \in Seq(BOOLEAN) /\ Len(rest) = 1
    BY <2>1, HeadTailProperties
  <2> HIDE DEF rest
  <2>3. rest \in Seq(BOOLEAN) /\ Len(rest) < 2
    BY <2>2
  <2> QED BY <2>3 DEF rest
<1>3. [i \in 1 .. Len(g) |-> FALSE] \in Seq(BOOLEAN) /\ Len([i \in 1 .. Len(g) |-> FALSE]) = Len(g)
  BY <1>1
<1>4. Append(g, TRUE) \in Seq(BOOLEAN) /\ Len(Append(g, TRUE)) = Len(g) + 1
  BY AppendProperties
<1> QED BY <1>1, <1>2, <1>3, <1>4

\* What a driver's generations become, if anything.
LEMMA GenerationsTyped ==
  ASSUME AppRunsTypes, NEW d \in Drivers,
         Receive(d) \/ Activate(d) \/ Table(d) \/ Panic(d) \/ Restart(d)
  PROVE  \E g \in Seq(BOOLEAN) : Len(g) <= 2 /\ gens' = [gens EXCEPT ![d] = g]
<1> DEFINE Few(g) == g \in Seq(BOOLEAN) /\ Len(g) <= 2
<1> SUFFICES \E g : Few(g) /\ gens' = [gens EXCEPT ![d] = g]
  OBVIOUS
<1>1. Few(gens[d]) /\ Few(<<>>) /\ gens = [gens EXCEPT ![d] = gens[d]]
  BY DEF AppRunsTypes
<1>2. Few(Living(gens[d]))
  BY <1>1, LivingAreFewer
<1>3. CASE Receive(d) BY <1>1, <1>3 DEF Receive
<1>4. CASE Activate(d)
  <2>1. gens' = [gens EXCEPT ![d] = IF platform # "mac" THEN Living(gens[d]) ELSE gens[d]]
    BY <1>4 DEF Activate
  <2> HIDE DEF Few
  <2> QED BY <1>1, <1>2, <2>1
<1>5. CASE Table(d)
  <2>1. CASE gens' = gens BY <1>1, <2>1
  <2>2. CASE gens' = [gens EXCEPT ![d] = Append(IF Len(gens[d]) = 2 THEN Tail(gens[d]) ELSE gens[d], TRUE)]
    <3>1. \A g \in Seq(BOOLEAN) : Len(g) < 2 => Few(Append(g, TRUE))
      BY FewGenerations
    <3>2. Len(gens[d]) = 2 => Tail(gens[d]) \in Seq(BOOLEAN) /\ Len(Tail(gens[d])) < 2
      BY <1>1, FewGenerations
    <3>3. Len(gens[d]) # 2 => Len(gens[d]) < 2
      BY <1>1, FewGenerations
    <3>4. gens[d] \in Seq(BOOLEAN)
      BY <1>1
    <3> HIDE DEF Few
    <3>5. Few(Append(IF Len(gens[d]) = 2 THEN Tail(gens[d]) ELSE gens[d], TRUE))
      BY <3>1, <3>2, <3>3, <3>4
    <3> QED BY <2>2, <3>5
  <2> QED BY <1>5, <2>1, <2>2 DEF Table
<1>6. CASE Panic(d)
  <2>1. gens' = [gens EXCEPT ![d] = IF platform = "mac" \/ order[d] \in Reads THEN <<>> ELSE gens[d]]
    BY <1>6 DEF Panic
  <2> HIDE DEF Few
  <2> QED BY <1>1, <2>1
<1>7. CASE Restart(d)
  <2>1. gens' = [gens EXCEPT ![d] = [i \in DOMAIN gens[d] |-> FALSE]]
    BY <1>7 DEF Restart
  <2>2. [i \in DOMAIN gens[d] |-> FALSE] \in Seq(BOOLEAN) /\ Len([i \in DOMAIN gens[d] |-> FALSE]) = Len(gens[d])
    BY <1>1, FewGenerations
  <2>3. Few([i \in DOMAIN gens[d] |-> FALSE])
    BY <1>1, <2>2
  <2> HIDE DEF Few
  <2> QED BY <2>1, <2>3
<1> QED BY <1>3, <1>4, <1>5, <1>6, <1>7

\* One step keeps the types.
LEMMA AppRunsTyped ==
  /\ AppRunsInit => AppRunsTypes
  /\ AppRunsInv /\ AppRunsTypes /\ [AppRunsNext]_appVars => AppRunsTypes'
<1> USE AppRunsAssumption
<1>1. AppRunsInit => AppRunsTypes
  <2> SUFFICES ASSUME AppRunsInit PROVE AppRunsTypes
    OBVIOUS
  <2>1. \A d \in Drivers : Len(Script[d]) >= 0
    OBVIOUS
  <2> QED BY <2>1 DEF AppRunsInit, AppRunsTypes, Screen!Init
<1> SUFFICES ASSUME AppRunsInv, AppRunsTypes, [AppRunsNext]_appVars PROVE AppRunsTypes'
  BY <1>1
<1>2. /\ AppRunsTypes
      /\ client \in [Drivers -> Calls \cup {"off", "spawn", "drop", "leave", "gone"}]
      /\ thread \in [Drivers -> {"none", "drain", "work", "check", "post", "gone"}]
  BY DEF AppRunsInv, DriverTypeOK
<1> DEFINE World == users' \subseteq Drivers /\ front' \in Drivers \cup {NoDriver} /\ platform' \in Platforms
           Client == /\ aim' \in [Drivers -> {"none", "press", "type", "scroll", "end"}]
                     /\ at' \in [Drivers -> Nat] /\ tables' \in [Drivers -> 0 .. MaxTables]
                     /\ \A d \in Drivers : at'[d] <= Len(Script[d])
           Typed == /\ left' \in [Drivers -> 0 .. Chunks]
                    /\ \A d \in Drivers : thread'[d] = "post" => left'[d] > 0
           Known == gens' \in [Drivers -> Seq(BOOLEAN)] /\ \A d \in Drivers : Len(gens'[d]) <= 2
<1>3. SUFFICES World /\ Client /\ Typed /\ Known
  BY DEF AppRunsTypes
<1>4. UNCHANGED <<users, front, platform>> => World
  BY <1>2 DEF AppRunsTypes
<1>5. UNCHANGED <<aim, at, tables>> => Client
  BY <1>2 DEF AppRunsTypes
<1>6. UNCHANGED left /\ (\A d \in Drivers : thread'[d] = "post" => thread[d] = "post") => Typed
  BY <1>2 DEF AppRunsTypes
<1>7. UNCHANGED gens => Known
  BY <1>2 DEF AppRunsTypes
<1> HIDE DEF World, Client, Typed, Known
<1>8. ASSUME NEW d \in Drivers, Acquire(d) \/ LetGo(d) PROVE World /\ Client /\ Typed /\ Known
  <2>1. World
    BY <1>2, <1>8 DEF Acquire, LetGo, Screen!Take, Screen!Leave, World, worldVars, AppRunsTypes
  <2> QED BY <1>5, <1>6, <1>7, <1>8, <2>1 DEF Acquire, LetGo, actorVars
<1>9. ASSUME NEW d \in Drivers, Spawn(d) \/ Call(d) \/ Between(d) \/ Cancelled(d) \/ Dropped(d)
      PROVE  World /\ Client /\ Typed /\ Known
  BY <1>2, <1>4, <1>5, <1>6, <1>7, <1>9
  DEF Spawn, Call, Between, Cancelled, Dropped, screenVars, worldVars, actorVars
<1>10. ASSUME NEW d \in Drivers, Decide(d) PROVE World /\ Client /\ Typed /\ Known
  <2>1. tables' = [tables EXCEPT ![d] = IF client'[d] = "table" THEN tables[d] + 1 ELSE tables[d]]
    BY <1>10 DEF Decide
  <2>2. client'[d] = "table" => tables[d] # MaxTables
    BY <1>2, <1>10 DEF Decide
  <2>3. PICK a \in {"none", "press", "type", "scroll", "end"} : aim' = [aim EXCEPT ![d] = a]
    BY <1>2, <1>10 DEF Decide, AppRunsTypes
  <2>4. Client
    BY <1>2, <1>10, <2>1, <2>2, <2>3 DEF Client, AppRunsTypes, Decide
  <2> QED BY <1>4, <1>6, <1>7, <1>10, <2>4 DEF Decide, screenVars, worldVars, actorVars
<1>11. ASSUME NEW d \in Drivers, NextStep(d) PROVE World /\ Client /\ Typed /\ Known
  <2>1. at' = at \/ at' = [at EXCEPT ![d] = at[d] + 1]
    BY <1>11 DEF NextStep
  <2>2. at' # at => at[d] < Len(Script[d])
    BY <1>11 DEF NextStep, AppRunsInv, DriverInv, ClientInv
  <2>3. tables' = tables \/ (tables[d] < MaxTables /\ tables' = [tables EXCEPT ![d] = tables[d] + 1])
    BY <1>11 DEF NextStep
  <2>4. Client
    <3>1. at' \in [Drivers -> Nat] /\ \A e \in Drivers : at'[e] <= Len(Script[e])
      <4>1. at \in [Drivers -> Nat] /\ \A e \in Drivers : at[e] <= Len(Script[e]) /\ Len(Script[e]) \in Nat
        BY <1>2 DEF AppRunsTypes
      <4>2. CASE at' = at
        BY <4>1, <4>2
      <4>3. CASE at' # at
        <5>1. PICK n \in Nat : n = at[d] + 1 /\ n <= Len(Script[d])
          BY <2>2, <4>1, <4>3
        <5>2. at' = [at EXCEPT ![d] = n]
          BY <2>1, <4>3, <5>1
        <5> QED BY <4>1, <5>1, <5>2
      <4> QED BY <4>2, <4>3
    <3>2. tables' \in [Drivers -> 0 .. MaxTables]
      <4>1. tables \in [Drivers -> 0 .. MaxTables]
        BY <1>2 DEF AppRunsTypes
      <4>2. PICK n \in 0 .. MaxTables : tables' = [tables EXCEPT ![d] = n]
        <5>1. tables[d] \in 0 .. MaxTables /\ tables = [tables EXCEPT ![d] = tables[d]]
          BY <4>1
        <5>2. tables[d] < MaxTables => tables[d] + 1 \in 0 .. MaxTables
          BY <5>1
        <5> QED BY <2>3, <5>1, <5>2
      <4> QED BY <4>1, <4>2
    <3> QED BY <1>2, <1>11, <3>1, <3>2 DEF Client, AppRunsTypes, NextStep
  <2> QED BY <1>4, <1>6, <1>7, <1>11, <2>4 DEF NextStep, screenVars, worldVars, actorVars
<1>12. ASSUME NEW d \in Drivers, Shutdown(d) PROVE World /\ Client /\ Typed /\ Known
  <2>1. Client
    BY <1>2, <1>12 DEF Client, AppRunsTypes, Shutdown
  <2> QED BY <1>4, <1>6, <1>7, <1>12, <2>1 DEF Shutdown, screenVars, worldVars, actorVars
<1>13. ASSUME NEW d \in Drivers, Slice(d) \/ Receive(d) \/ Panic(d) \/ Restart(d) \/ Activate(d) \/ Table(d)
       PROVE  World /\ Client /\ Typed /\ Known
  <2>1. Client
    BY <1>5, <1>13 DEF Slice, Receive, Panic, Restart, Activate, Table, clientVars
  <2>2. Typed
    BY <1>2, <1>6, <1>13 DEF Slice, Receive, Panic, Restart, Activate, Table, Finish
  <2>3. ASSUME gens' = gens PROVE Known
    BY <1>7, <2>3
  <2>4. ASSUME ~Slice(d) PROVE Known
    <3>1. PICK g \in Seq(BOOLEAN) : Len(g) <= 2 /\ gens' = [gens EXCEPT ![d] = g]
      BY <1>2, <1>13, <2>4, GenerationsTyped
    <3> QED BY <1>2, <3>1 DEF Known, AppRunsTypes
  <2>5. Known
    BY <2>3, <2>4 DEF Slice
  <2>6. front' \in {front, d} /\ UNCHANGED <<users, platform>>
    BY <1>13 DEF Slice, Receive, Panic, Restart, Activate, Table, screenVars, worldVars
  <2>7. World
    BY <1>2, <2>6 DEF World, AppRunsTypes
  <2> QED BY <2>1, <2>2, <2>5, <2>7
<1>14. ASSUME NEW d \in Drivers, Inspect(d) \/ Perform(d) \/ RefuseAct(d) \/ StartTyping(d) \/ Check(d) \/ Post(d)
       PROVE  World /\ Client /\ Typed /\ Known
  <2>1. Client /\ Known
    BY <1>5, <1>7, <1>14 DEF Inspect, Perform, RefuseAct, StartTyping, Check, Post, clientVars
  <2>2. front' \in {front, d} /\ UNCHANGED <<users, platform>>
    BY <1>14 DEF Inspect, Perform, RefuseAct, StartTyping, Check, Post, screenVars, worldVars, Refocused
  <2>3. World
    BY <1>2, <2>2 DEF World, AppRunsTypes
  <2>4. ASSUME Inspect(d) \/ Perform(d) \/ RefuseAct(d) PROVE Typed
    <3>1. left' = left /\ thread' = [thread EXCEPT ![d] = "drain"]
      BY <2>4 DEF Inspect, Perform, RefuseAct, Finish
    <3> QED BY <1>2, <1>6, <3>1
  <2>5. ASSUME StartTyping(d) PROVE Typed
    BY <1>2, <2>5 DEF StartTyping, Typed, AppRunsTypes
  <2>6. ASSUME Post(d) PROVE Typed
    BY <1>2, <2>6 DEF Post, Typed, AppRunsTypes
  <2>7. ASSUME Check(d) PROVE Typed
    <3>1. left' = left /\ \E to \in {"drain", "post"} : thread' = [thread EXCEPT ![d] = to] /\ (to = "post" => left[d] # 0)
      BY <2>7 DEF Check, Finish
    <3>2. PICK to \in {"drain", "post"} : thread' = [thread EXCEPT ![d] = to] /\ (to = "post" => left[d] # 0)
      BY <3>1
    <3>3. left \in [Drivers -> 0 .. Chunks]
      BY <1>2 DEF AppRunsTypes
    <3>4. ASSUME NEW e \in Drivers, thread'[e] = "post" PROVE left[e] > 0
      BY <1>2, <3>2, <3>3, <3>4 DEF AppRunsTypes
    <3> QED BY <3>1, <3>3, <3>4 DEF Typed
  <2> QED BY <1>14, <2>1, <2>3, <2>4, <2>5, <2>6, <2>7
<1>15. CASE Refocus
  <2>1. World
    BY <1>2, <1>15 DEF World, Refocus, screenVars, AppRunsTypes
  <2> QED BY <1>5, <1>6, <1>7, <1>15, <2>1 DEF Refocus, clientVars, actorVars
<1>16. CASE UNCHANGED appVars
  BY <1>4, <1>5, <1>6, <1>7, <1>16 DEF appVars, screenVars, worldVars, clientVars, actorVars
<1> QED
  BY <1>8, <1>9, <1>10, <1>11, <1>12, <1>13, <1>14, <1>15, <1>16 DEF AppRunsNext, RunStep, ActorStep, Handle

\* Which are the types the run checks.
LEMMA AppRunsTypesAreEnough == AppRunsInv /\ AppRunsTypes => AppRunsTypeOK
<1> SUFFICES ASSUME AppRunsInv, AppRunsTypes PROVE AppRunsTypeOK
  OBVIOUS
<1>1. \A d \in Drivers : Len(inbox[d]) <= 2
  <2> SUFFICES ASSUME NEW d \in Drivers PROVE Len(inbox[d]) <= 2
    OBVIOUS
  <2>1. client[d] \in Calls \cup {"off", "spawn", "drop", "leave", "gone"} /\ QueueInv(d)
    BY DEF AppRunsInv, DriverTypeOK, DriverInv
  <2>2. inbox[d] = <<>> \/ inbox[d] = <<Nobody>>
        \/ (\E cmd \in Calls : inbox[d] = <<cmd>>) \/ (\E cmd \in Calls : inbox[d] = <<cmd, Nobody>>)
    BY <2>1 DEF QueueInv
  <2>3. CASE inbox[d] = <<>>
    BY <2>3
  <2>4. CASE inbox[d] = <<Nobody>>
    BY <2>4
  <2>5. ASSUME NEW cmd \in Calls PROVE Len(<<cmd>>) <= 2 /\ Len(<<cmd, Nobody>>) <= 2
    OBVIOUS
  <2> QED BY <2>2, <2>3, <2>4, <2>5
<1>2. \A d \in Drivers : at[d] \in 0 .. Len(Script[d])
  BY AppRunsAssumption DEF AppRunsTypes
<1> QED BY <1>1, <1>2 DEF AppRunsTypeOK, AppRunsTypes, AppRunsInv, DriverTypeOK

-----------------------------------------------------------------------------
(* Browsing runs. *)

\* Each run is of a process of its own: the lease, which is the process's, keeps it alone.
Apart == \A b, c \in Browsers : ProcessOf[b] = ProcessOf[c] => b = c

Active(b) == stage[b] \notin {"idle", "over"}
Before == {"idle", "attach", "clear", "spawn", "endpoint", "tab"}
Paged == {"load", "drive", "ledger", "close", "save"}

\* Tabs are numbered as they are opened.
TabsTypeOK ==
  /\ stage \in [Browsers -> Stages] /\ page \in [Browsers -> Nat] /\ known \in [Browsers -> Seq(Nat)]
  /\ opened \in Nat /\ tabs \subseteq 1 .. opened
  /\ ledger \in Seq(Nat) /\ ToSet(ledger) \subseteq 1 .. opened /\ Len(ledger) <= Cap

\* A run's tab is new to the ledger until it is saved there or forgotten, and the ledger it has
\* read is still what it is, or what could not be read was forgotten.
BrowsingInv(b) ==
  /\ Active(b) => lessee = ProcessOf[b]
  /\ stage[b] \in Before => page[b] = 0
  /\ stage[b] \in Paged => page[b] \in 1 .. opened /\ page[b] \notin ToSet(ledger)
  /\ stage[b] \in {"close", "save"} => known[b] = ledger \/ (known[b] = <<>> /\ ToSet(ledger) \subseteq forgotten)
  /\ stage[b] = "save" => tabs \ forgotten \subseteq ToSet(Keep(b)) \cup InHand
  /\ stage[b] = "leave" => page[b] \in ToSet(ledger) \cup forgotten \cup {0}

BrowserInv ==
  /\ TabsTypeOK /\ \A b \in Browsers : BrowsingInv(b)
  /\ tabs \ forgotten \subseteq ToSet(ledger) \cup InHand

\* No tab is open that a run opened.
LEMMA BrowserInitially == BrowserInit => BrowserInv
  BY BrowserAssumption
DEF BrowserInit, BrowserInv, TabsTypeOK, BrowsingInv, Stages, Active, Before, Paged, InHand, ToSet

\* What a ledger without the page becomes: the page is last, and the newest are kept.
LEMMA KeepsNewest ==
  ASSUME NEW b, known[b] \in Seq(Nat), page[b] \in Nat, page[b] \notin ToSet(known[b])
  PROVE  /\ Keep(b) \in Seq(Nat) /\ Len(Keep(b)) <= Cap
         /\ page[b] \in ToSet(Keep(b)) /\ ToSet(Keep(b)) \subseteq ToSet(known[b]) \cup {page[b]}
<1> DEFINE all == Append(known[b], page[b])
           low == IF Len(all) > Cap THEN Len(all) - Cap + 1 ELSE 1
<1>1. RemoveFirst(known[b], page[b]) = known[b]
  BY DEF RemoveFirst, ToSet
<1>2. Keep(b) = SubSeq(all, low, Len(all))
  BY <1>1 DEF Keep
<1>3. all \in Seq(Nat) /\ Len(all) \in Nat \ {0} /\ Len(all) = Len(known[b]) + 1 /\ all[Len(all)] = page[b]
  BY AppendProperties
<1>4. ToSet(all) = ToSet(known[b]) \cup {page[b]}
  BY Pushed
<1> HIDE DEF all
<1>a. Cap \in Nat \ {0}
  BY BrowserAssumption
<1>5. low \in 1 .. Len(all) /\ Len(all) - low + 1 <= Cap /\ Len(all) - low + 1 \in Nat \ {0}
  <2> DEFINE n == Len(all)
  <2>1. low = IF n > Cap THEN n - Cap + 1 ELSE 1
    OBVIOUS
  <2>2. n \in Nat \ {0}
    BY <1>3
  <2> HIDE DEF low, n
  <2>3. low \in 1 .. n /\ n - low + 1 <= Cap /\ n - low + 1 \in Nat \ {0}
    BY <1>a, <2>1, <2>2
  <2> QED BY <2>3 DEF n
<1> HIDE DEF low
<1>6. /\ Keep(b) \in Seq(Nat) /\ Len(Keep(b)) = Len(all) - low + 1
      /\ \A i \in 1 .. Len(all) - low + 1 : Keep(b)[i] = all[low + i - 1]
  <2>1. low \in Int /\ Len(all) \in Int /\ low <= Len(all)
    BY <1>3, <1>5
  <2>2. \A i \in low .. Len(all) : all[i] \in Nat
    BY <1>3, <1>5
  <2> QED BY <1>2, <2>1, <2>2, SubSeqProperties
<1>7. DOMAIN Keep(b) = 1 .. Len(all) - low + 1 /\ DOMAIN all = 1 .. Len(all)
  BY <1>3, <1>6
<1>8. \A i \in 1 .. Len(all) - low + 1 : low + i - 1 \in 1 .. Len(all)
  BY <1>3, <1>5
<1>9. ToSet(Keep(b)) \subseteq ToSet(all)
  BY <1>6, <1>7, <1>8 DEF ToSet
<1>10. Len(all) - low + 1 \in DOMAIN Keep(b) /\ Keep(b)[Len(all) - low + 1] = page[b]
  <2>1. Len(all) - low + 1 \in 1 .. Len(all) - low + 1 /\ low + (Len(all) - low + 1) - 1 = Len(all)
    BY <1>3, <1>5
  <2> QED BY <1>3, <1>6, <1>7, <2>1
<1>11. page[b] \in ToSet(Keep(b))
  BY <1>10 DEF ToSet
<1> QED BY <1>4, <1>5, <1>6, <1>9, <1>11

\* At most one run is on the way, and it holds the lease.
LEMMA OneAtATime ==
  ASSUME Apart, BrowserInv, NEW b \in Browsers, Active(b) \/ lessee \in {NoProcess, ProcessOf[b]},
         NEW c \in Browsers \ {b}
  PROVE  ~Active(c)
BY BrowserAssumption DEF Apart, BrowserInv, BrowsingInv

\* The steps that open, leave and close tabs, and those before there is one.
LEMMA BrowseStep ==
  ASSUME Apart, BrowserInv, NEW b \in Browsers, Browse(b)
  PROVE  BrowserInv'
<1> USE DEF Goes, chromiumVars
<1>1. TabsTypeOK /\ BrowsingInv(b) /\ tabs \ forgotten \subseteq ToSet(ledger) \cup InHand
  BY DEF BrowserInv
<1>2. \A c \in Browsers \ {b} : ~Active(c)
  BY OneAtATime
  DEF Browse, Hire, Attach, Connect, ClearPort, SpawnChrome, Endpoint, OpenTab, Load, FailEarly, Adopt, EndDrive,
      ReadLedger, CloseTabs, SaveLedger, SaveFails, Return, Abandon, Active
<1>3. /\ stage' = [stage EXCEPT ![b] = stage'[b]] /\ page' = [page EXCEPT ![b] = page'[b]]
      /\ known' = [known EXCEPT ![b] = known'[b]]
  BY <1>1
  DEF Browse, Hire, Attach, Connect, ClearPort, SpawnChrome, Endpoint, OpenTab, Load, FailEarly, Adopt, EndDrive,
      ReadLedger, CloseTabs, SaveLedger, SaveFails, Return, Abandon, TabsTypeOK
<1>s. stage' \in [Browsers -> Stages]
  <2>1. \A from \in Stages, to \in Stages : Goes(b, from, to) => stage' \in [Browsers -> Stages]
    BY <1>1 DEF TabsTypeOK
  <2>2. (\E from \in Stages, to \in Stages : Goes(b, from, to)) \/ stage' = stage
    BY DEF Stages, Browse, Hire, Attach, Connect, ClearPort, SpawnChrome, Endpoint, OpenTab, Load, FailEarly, Adopt,
           EndDrive, ReadLedger, CloseTabs, SaveLedger, SaveFails, Return, Abandon
  <2> QED BY <1>1, <2>1, <2>2 DEF TabsTypeOK
<1>4. ASSUME NEW c \in Browsers \ {b} PROVE BrowsingInv(c)'
  <2>1. stage'[c] = stage[c] /\ page'[c] = page[c] /\ ~Active(c) /\ BrowsingInv(c)
    BY <1>1, <1>2, <1>3 DEF TabsTypeOK, BrowserInv
  <2> QED BY <2>1 DEF BrowsingInv, Active, Before, Paged
<1>5. /\ \A c \in Browsers \ {b} : stage'[c] = stage[c] /\ page'[c] = page[c]
      /\ \A t : t \in InHand <=> \E c \in Browsers : stage[c] # "over" /\ page[c] = t
      /\ \A t : t \in InHand' <=> \E c \in Browsers : stage'[c] # "over" /\ page'[c] = t
  BY <1>1, <1>3 DEF TabsTypeOK, InHand
<1>6. CASE Hire(b) \/ Attach(b) \/ ClearPort(b) \/ SpawnChrome(b) \/ Endpoint(b) \/ Load(b) \/ EndDrive(b)
  <2> USE <1>6 DEF Hire, Attach, Connect, ClearPort, SpawnChrome, Endpoint, Load, EndDrive
  <2>1. UNCHANGED <<tabs, opened, ledger, page, known, forgotten>>
    OBVIOUS
  <2>2. stage[b] # "over" /\ stage'[b] \in Stages \ {"over", "close", "save"}
    BY <1>1 DEF TabsTypeOK, Stages
  <2>3. TabsTypeOK'
    BY <1>1, <1>3, <1>s, <2>1, <2>2 DEF TabsTypeOK
  <2>4. BrowsingInv(b)'
    BY <1>1, <2>1 DEF TabsTypeOK, BrowsingInv, Active, Before, Paged, Stages
  <2>5. \A t : t \in InHand => t \in InHand'
    BY <1>5, <2>1, <2>2
  <2> QED BY <1>1, <1>4, <2>1, <2>3, <2>4, <2>5 DEF BrowserInv
<1>7. CASE FailEarly(b) \/ SaveFails(b)
  <2> USE <1>7 DEF FailEarly, SaveFails
  <2>1. UNCHANGED <<tabs, opened, ledger, page, known>> /\ stage'[b] = "leave" /\ stage[b] # "over"
        /\ forgotten \subseteq forgotten' /\ page[b] \in forgotten' \cup {0}
    BY <1>1 DEF TabsTypeOK
  <2>2. TabsTypeOK'
    BY <1>1, <1>3, <1>s, <2>1 DEF TabsTypeOK
  <2>3. BrowsingInv(b)'
    BY <1>1, <2>1 DEF TabsTypeOK, BrowsingInv, Active, Before, Paged
  <2>4. \A t : t \in InHand => t \in InHand'
    BY <1>5, <2>1
  <2> QED BY <1>1, <1>4, <2>1, <2>2, <2>3, <2>4 DEF BrowserInv
<1>8. CASE OpenTab(b) \/ Adopt(b)
  <2> USE <1>8 DEF OpenTab, Adopt
  <2>1. /\ UNCHANGED <<ledger, known, lessee>> /\ opened' = opened + 1 /\ tabs' = tabs \cup {opened'}
        /\ page'[b] = opened' /\ stage'[b] \in {"load", "drive"} /\ stage[b] \in {"tab", "drive"}
        /\ forgotten \subseteq forgotten' /\ page[b] \in forgotten' \cup {0}
    BY <1>1 DEF TabsTypeOK, BrowsingInv, Before
  <2>2. \A n \in ToSet(ledger) : n \in 1 .. opened /\ n \in 1 .. opened' /\ n # opened'
    BY <1>1, <2>1 DEF TabsTypeOK
  <2>3. TabsTypeOK'
    <3>1. opened' \in Nat /\ tabs' \subseteq 1 .. opened' /\ ToSet(ledger') \subseteq 1 .. opened'
      BY <1>1, <2>1, <2>2 DEF TabsTypeOK
    <3> HIDE <1>8 DEF OpenTab, Adopt
    <3>3. page' \in [Browsers -> Nat]
      <4>1. PICK n \in Nat : page' = [page EXCEPT ![b] = n]
        BY <1>3, <2>1, <3>1
      <4> QED BY <1>1, <4>1 DEF TabsTypeOK
    <3> QED BY <1>1, <2>1, <3>1, <3>3, <1>s DEF TabsTypeOK
  <2>4. BrowsingInv(b)'
    BY <1>1, <2>1, <2>2 DEF TabsTypeOK, BrowsingInv, Active, Before, Paged
  <2>5. \A t : t \in InHand => t \in InHand' \/ t \in forgotten' \cup {0}
    BY <1>5, <2>1
  <2>6. opened' \in InHand' /\ 0 \notin tabs
    BY <1>1, <1>5, <2>1 DEF TabsTypeOK
  <2> QED BY <1>1, <1>4, <2>1, <2>3, <2>4, <2>5, <2>6 DEF BrowserInv
<1>9. CASE Return(b) \/ Abandon(b)
  <2> USE <1>9 DEF Return, Abandon
  <2>1. /\ UNCHANGED <<ledger, known, tabs, opened, page>> /\ stage'[b] = "over"
        /\ forgotten \subseteq forgotten' /\ page[b] \in ToSet(ledger) \cup forgotten' \cup {0}
    BY <1>1 DEF TabsTypeOK, BrowsingInv
  <2>2. TabsTypeOK'
    BY <1>1, <1>3, <1>s, <2>1 DEF TabsTypeOK
  <2>3. BrowsingInv(b)'
    BY <2>1 DEF BrowsingInv, Active, Before, Paged
  <2>4. \A t : t \in InHand => t \in InHand' \/ t \in ToSet(ledger) \cup forgotten' \cup {0}
    BY <1>5, <2>1
  <2>5. 0 \notin tabs
    BY <1>1 DEF TabsTypeOK
  <2> QED BY <1>1, <1>4, <2>1, <2>2, <2>3, <2>4, <2>5 DEF BrowserInv
<1>10. CASE ReadLedger(b)
  <2>1. /\ UNCHANGED <<ledger, tabs, opened, page, lessee>> /\ stage'[b] = "close" /\ stage[b] = "ledger"
        /\ forgotten \subseteq forgotten'
        /\ known'[b] = ledger \/ (known'[b] = <<>> /\ ToSet(ledger) \subseteq forgotten')
    BY <1>1, <1>10 DEF ReadLedger, TabsTypeOK
  <2>2. TabsTypeOK'
    <3>1. known'[b] \in Seq(Nat)
      <4>1. <<>> \in Seq(Nat)
        OBVIOUS
      <4> QED BY <1>1, <2>1, <4>1 DEF TabsTypeOK
    <3>2. PICK s \in Seq(Nat) : known' = [known EXCEPT ![b] = s]
      BY <1>3, <3>1
    <3> QED BY <1>1, <1>s, <2>1, <3>2 DEF TabsTypeOK
  <2>3. BrowsingInv(b)'
    BY <1>1, <2>1 DEF BrowsingInv, Active, Before, Paged
  <2>4. \A t : t \in InHand => t \in InHand'
    BY <1>5, <2>1
  <2> QED BY <1>1, <1>4, <2>1, <2>2, <2>3, <2>4 DEF BrowserInv
<1>11. CASE CloseTabs(b)
  <2>1. /\ UNCHANGED <<ledger, opened, page, lessee, known>> /\ stage'[b] = "save" /\ stage[b] = "close"
        /\ forgotten \subseteq forgotten' /\ tabs' \subseteq tabs /\ (tabs' \ forgotten') \cap Over(b) = {}
    BY <1>1, <1>11 DEF CloseTabs, TabsTypeOK
  <2>2. TabsTypeOK'
    BY <1>1, <1>3, <1>s, <2>1 DEF TabsTypeOK
  <2>3. InHand = InHand' /\ Keep(b)' = Keep(b)
    BY <1>5, <2>1 DEF Keep
  <2>4. tabs' \ forgotten' \subseteq ToSet(ledger) \cup InHand
    BY <1>1, <2>1
  <2>5. ToSet(ledger) \subseteq ToSet(Keep(b)) \cup Over(b) \cup forgotten
    BY <1>1, <2>1 DEF BrowsingInv, Over
  <2>6. tabs' \ forgotten' \subseteq ToSet(Keep(b)') \cup InHand'
    BY <2>1, <2>3, <2>4, <2>5
  <2>7. BrowsingInv(b)'
    BY <1>1, <2>1, <2>6 DEF BrowsingInv, Active, Before, Paged
  <2> QED BY <1>1, <1>4, <2>1, <2>2, <2>3, <2>4, <2>7 DEF BrowserInv
<1>12. CASE SaveLedger(b)
  <2>1. /\ UNCHANGED <<opened, page, lessee, known, tabs, forgotten>> /\ stage'[b] = "leave" /\ stage[b] = "save"
        /\ ledger' = Keep(b)
    BY <1>1, <1>12 DEF SaveLedger, TabsTypeOK
  <2>2. known[b] \in Seq(Nat) /\ page[b] \in 1 .. opened /\ page[b] \notin ToSet(known[b])
        /\ ToSet(known[b]) \subseteq 1 .. opened
    BY <1>1, <2>1 DEF TabsTypeOK, BrowsingInv, Paged, ToSet
  <2>3. /\ Keep(b) \in Seq(Nat) /\ Len(Keep(b)) <= Cap
        /\ page[b] \in ToSet(Keep(b)) /\ ToSet(Keep(b)) \subseteq ToSet(known[b]) \cup {page[b]}
    BY <1>1, <2>2, KeepsNewest DEF TabsTypeOK
  <2>4. TabsTypeOK'
    BY <1>1, <1>3, <1>s, <2>1, <2>2, <2>3 DEF TabsTypeOK
  <2>5. BrowsingInv(b)'
    BY <1>1, <2>1, <2>3 DEF BrowsingInv, Active, Before, Paged
  <2>6. \A t : t \in InHand => t \in InHand'
    BY <1>5, <2>1
  <2>7. tabs \ forgotten \subseteq ToSet(Keep(b)) \cup InHand
    BY <1>1, <2>1 DEF BrowsingInv
  <2> QED BY <1>4, <2>1, <2>4, <2>5, <2>6, <2>7 DEF BrowserInv
<1> QED BY <1>6, <1>7, <1>8, <1>9, <1>10, <1>11, <1>12 DEF Browse

\* One step of a run, of Chrome or of the person at it keeps it.
LEMMA TabsStep == Apart /\ BrowserInv /\ [BrowserNext]_browserVars => BrowserInv'
<1> SUFFICES ASSUME Apart, BrowserInv, [BrowserNext]_browserVars PROVE BrowserInv'
  OBVIOUS
<1>1. CASE Publish \/ Quit \/ CloseByHand \/ UNCHANGED browserVars
  <2>1. tabs' \subseteq tabs /\ UNCHANGED <<opened, lessee, ledger, stage, page, known, forgotten>>
    BY <1>1 DEF Publish, Quit, CloseByHand, browserVars, chromiumVars
  <2>2. InHand' = InHand /\ \A b \in Browsers : Keep(b)' = Keep(b)
    BY <2>1 DEF InHand, Keep
  <2>3. TabsTypeOK' /\ tabs' \ forgotten' \subseteq ToSet(ledger') \cup InHand'
    BY <2>1, <2>2 DEF BrowserInv, TabsTypeOK
  <2>4. ASSUME NEW b \in Browsers PROVE BrowsingInv(b)'
    BY <2>1, <2>2 DEF BrowserInv, BrowsingInv, Active
  <2> QED BY <2>3, <2>4 DEF BrowserInv
<1>2. CASE \E b \in Browsers : Browse(b)
  BY <1>2, BrowseStep
<1> QED BY <1>1, <1>2 DEF BrowserNext

\* What it says of a tab.
LEMMA TabsAreEnough == BrowserInv => TabsAreAccounted
  BY DEF BrowserInv, TabsTypeOK, TabsAreAccounted

\* "owned tabs are capped at 8, oldest closed first" (plans/10-navigator.md:275), for any runs
\* that are each of a process of its own, any cap and whatever Chrome and the person at it do:
\* an open tab is on the ledger, or a run works in it, or it was forgotten where a tab can be.
THEOREM NoTabIsLostSightOf == Apart /\ BrowserSpec => []TabsAreAccounted
<1> SUFFICES ASSUME Apart PROVE BrowserSpec => []TabsAreAccounted
  OBVIOUS
<1>1. BrowserInv /\ [BrowserNext]_browserVars => BrowserInv'
  BY TabsStep
<1> QED BY BrowserInitially, <1>1, TabsAreEnough, PTL DEF BrowserSpec

\* The types of the tabs and of the runs, whoever shares a process.  A page that is driven is in no
\* ledger, read or written, and no other run's.
IsLedger(s) == s \in Seq(Nat) /\ ToSet(s) \subseteq 1 .. opened /\ Len(s) <= Cap

Unlisted(b) ==
  /\ page[b] # 0 /\ page[b] \notin ToSet(ledger)
  /\ \A c \in Browsers : page[b] \notin ToSet(known[c]) /\ (c # b /\ stage[c] \in Paged => page[c] # page[b])

BrowserTypes ==
  /\ chrome \in {"off", "starting", "up"} /\ portFile \in {"none", "live", "dead"}
  /\ opened \in 0 .. MaxTabs /\ tabs \cup forgotten \subseteq 1 .. opened
  /\ lessee \in {NoProcess} \cup {ProcessOf[b] : b \in Browsers} /\ linked \subseteq Browsers
  /\ stage \in [Browsers -> Stages] /\ page \in [Browsers -> 0 .. opened] /\ known \in [Browsers -> Seq(Nat)]
  /\ IsLedger(ledger) /\ \A b \in Browsers : IsLedger(known[b]) /\ (stage[b] \in Paged => Unlisted(b))

\* The steps that come by a new tab.
LEMMA TabTyped ==
  ASSUME BrowserTypes, NEW b \in Browsers, OpenTab(b) \/ Adopt(b)
  PROVE  BrowserTypes'
<1> USE BrowserAssumption DEF BrowserTypes, IsLedger
<1>1. /\ opened' = opened + 1 /\ opened' \in 0 .. MaxTabs /\ page' = [page EXCEPT ![b] = opened']
      /\ UNCHANGED <<chrome, portFile, lessee, linked, ledger, known>> /\ tabs' = tabs \cup {opened'}
      /\ stage' \in [Browsers -> Stages] /\ stage' = [stage EXCEPT ![b] = stage'[b]] /\ stage'[b] \in Paged
  <2>1. CASE OpenTab(b) BY <2>1 DEF OpenTab, Goes, Stages, Paged
  <2>2. CASE Adopt(b) BY <2>2 DEF Adopt, Stages, Paged
  <2> QED BY <2>1, <2>2
<1>2. forgotten' \subseteq forgotten \cup ({page[b]} \ {0})
  BY DEF OpenTab, Adopt, Unlisted, Paged
<1>3. page' \in [Browsers -> 0 .. opened']
  BY <1>1
<1>4. tabs' \cup forgotten' \subseteq 1 .. opened'
  BY <1>1, <1>2
<1>5. IsLedger(ledger)' /\ \A c \in Browsers : IsLedger(known[c])'
  BY <1>1
<1>6. ASSUME NEW c \in Browsers, stage'[c] \in Paged PROVE Unlisted(c)'
  <2>1. opened' \notin 1 .. opened /\ opened' # 0 /\ \A d \in Browsers : page[d] # opened'
    BY <1>1
  <2>2. CASE c = b
    BY <1>1, <2>1, <2>2 DEF Unlisted
  <2>3. CASE c # b
    <3>1. page'[c] = page[c] /\ Unlisted(c) /\ page[c] # opened'
      BY <1>1, <1>6, <2>1, <2>3
    <3> QED BY <1>1, <3>1, <2>3 DEF Unlisted
  <2> QED BY <2>2, <2>3
<1> QED BY <1>1, <1>3, <1>4, <1>5, <1>6

\* The steps that read and write the ledger.
LEMMA LedgerTyped ==
  ASSUME BrowserTypes, NEW b \in Browsers, ReadLedger(b) \/ CloseTabs(b) \/ SaveLedger(b) \/ SaveFails(b)
  PROVE  BrowserTypes'
<1> USE BrowserAssumption DEF BrowserTypes, IsLedger
<1>1. /\ UNCHANGED <<chrome, portFile, opened, lessee, linked, page>> /\ tabs' \subseteq tabs
      /\ stage' \in [Browsers -> Stages] /\ stage' = [stage EXCEPT ![b] = stage'[b]] /\ stage[b] \in Paged
  BY DEF ReadLedger, CloseTabs, SaveLedger, SaveFails, Goes, Stages, Paged, chromiumVars
<1>2. Unlisted(b)
  BY <1>1
<1>3. /\ Keep(b) \in Seq(Nat) /\ Len(Keep(b)) <= Cap
      /\ ToSet(Keep(b)) \subseteq ToSet(known[b]) \cup {page[b]}
  BY <1>2, KeepsNewest DEF Unlisted
<1>4. forgotten' \subseteq forgotten \cup {page[b]} \cup ToSet(ledger) \cup ToSet(known[b])
  BY DEF ReadLedger, CloseTabs, SaveLedger, SaveFails, Over
<1>5. tabs' \cup forgotten' \subseteq 1 .. opened'
  BY <1>1, <1>2, <1>4 DEF Unlisted
<1>6. known' = known \/ known' = [known EXCEPT ![b] = ledger] \/ known' = [known EXCEPT ![b] = <<>>]
  BY DEF ReadLedger, CloseTabs, SaveLedger, SaveFails
<1>7. ToSet(<<>>) = {} /\ Len(<<>>) = 0 /\ <<>> \in Seq(Nat)
  BY DEF ToSet
<1>8. known' \in [Browsers -> Seq(Nat)]
  BY <1>6, <1>7
<1>9. \A c \in Browsers : known'[c] \in {known[c], ledger, <<>>}
  BY <1>6
<1>10. \A c \in Browsers : IsLedger(known[c])'
  <2> SUFFICES ASSUME NEW c \in Browsers PROVE IsLedger(known[c])'
    OBVIOUS
  <2>1. known'[c] \in {known[c], ledger, <<>>} /\ opened' = opened
    BY <1>1, <1>9
  <2>2. IsLedger(known[c]) /\ IsLedger(ledger) /\ IsLedger(<<>>)
    BY <1>7
  <2> QED BY <2>1, <2>2
<1>11. ledger' = ledger \/ (ledger' = Keep(b) /\ stage'[b] = "leave")
  BY DEF ReadLedger, CloseTabs, SaveLedger, SaveFails, Goes
<1>12. IsLedger(ledger)'
  BY <1>1, <1>2, <1>3, <1>11 DEF Unlisted
<1>13. ASSUME NEW c \in Browsers, stage'[c] \in Paged PROVE Unlisted(c)'
  <2>1. Unlisted(c) /\ (\A d \in Browsers : stage'[d] \in Paged => stage[d] \in Paged)
    BY <1>1, <1>13
  <2>2. page[c] \notin ToSet(ledger')
    <3>1. ledger' = Keep(b) /\ stage'[b] = "leave" => c # b
      BY <1>13 DEF Paged
    <3> QED BY <1>1, <1>2, <1>3, <1>11, <2>1, <3>1 DEF Unlisted
  <2>3. \A d \in Browsers : page[c] \notin ToSet(known'[d])
    BY <1>7, <1>9, <2>1 DEF Unlisted
  <2> QED BY <1>1, <2>1, <2>2, <2>3 DEF Unlisted
<1> QED BY <1>1, <1>5, <1>8, <1>10, <1>12, <1>13

\* One step keeps the types.
LEMMA BrowserTyped ==
  /\ BrowserInit => BrowserTypes
  /\ BrowserTypes /\ [BrowserNext]_browserVars => BrowserTypes'
<1> USE BrowserAssumption
<1>1. BrowserInit => BrowserTypes
  BY DEF BrowserInit, BrowserTypes, IsLedger, Stages, Paged, ToSet
<1> SUFFICES ASSUME BrowserTypes, [BrowserNext]_browserVars PROVE BrowserTypes'
  BY <1>1
<1>2. ASSUME UNCHANGED <<opened, page, ledger, known>>, tabs' \subseteq tabs, forgotten' \subseteq forgotten \cup 1 .. opened,
             \A b \in Browsers : stage'[b] \in Paged => stage[b] \in Paged,
             /\ chrome' \in {"off", "starting", "up"} /\ portFile' \in {"none", "live", "dead"}
             /\ lessee' \in {NoProcess} \cup {ProcessOf[b] : b \in Browsers} /\ linked' \subseteq Browsers
             /\ stage' \in [Browsers -> Stages]
      PROVE  BrowserTypes'
  BY <1>2 DEF BrowserTypes, IsLedger, Unlisted
<1>3. CASE Publish \/ Quit \/ CloseByHand \/ UNCHANGED browserVars
  BY <1>2, <1>3 DEF Publish, Quit, CloseByHand, browserVars, chromiumVars, BrowserTypes
<1>4. ASSUME NEW b \in Browsers,
             Hire(b) \/ Attach(b) \/ ClearPort(b) \/ SpawnChrome(b) \/ Endpoint(b) \/ Load(b) \/ EndDrive(b)
             \/ FailEarly(b) \/ Return(b) \/ Abandon(b)
      PROVE  BrowserTypes'
  <2>1. /\ UNCHANGED <<opened, page, ledger, known, tabs>>
        /\ forgotten' \subseteq forgotten \cup ({page[b]} \ {0})
    BY <1>4 DEF Hire, Attach, ClearPort, SpawnChrome, Endpoint, Load, EndDrive, FailEarly, Return, Abandon, chromiumVars
  <2>2. PICK from, to \in Stages : Goes(b, from, to) /\ (to \in Paged => from \in Paged)
    BY <1>4
    DEF Hire, Attach, ClearPort, SpawnChrome, Endpoint, Load, EndDrive, FailEarly, Return, Abandon, Connect, Stages, Paged
  <2>3. stage' \in [Browsers -> Stages] /\ \A c \in Browsers : stage'[c] \in Paged => stage[c] \in Paged
    BY <2>2 DEF Goes, BrowserTypes
  <2>4. /\ chrome' \in {"off", "starting", "up"} /\ portFile' \in {"none", "live", "dead"}
        /\ linked' \subseteq Browsers /\ lessee' \in {NoProcess} \cup {ProcessOf[c] : c \in Browsers}
    BY <1>4
    DEF Hire, Attach, ClearPort, SpawnChrome, Endpoint, Load, EndDrive, FailEarly, Return, Abandon, Connect, GoAway,
        chromiumVars, BrowserTypes
  <2>5. forgotten' \subseteq forgotten \cup 1 .. opened
    BY <2>1 DEF BrowserTypes
  <2> QED BY <1>2, <2>1, <2>3, <2>4, <2>5
<1> QED BY <1>3, <1>4, TabTyped, LedgerTyped DEF BrowserNext, Browse

\* Which are the types the run checks.
LEMMA BrowserTypesAreEnough == BrowserTypes => BrowserTypeOK
  BY BrowserAssumption DEF BrowserTypes, BrowserTypeOK, IsLedger

-----------------------------------------------------------------------------
(* The codex client. *)

Targets == Callers \cup {NoCaller}
Asking == Callers \X {"thread", "main"}
Lines == [kind : {"reply", "end", "ask", "bad"}, for : Targets \cup Asking]

\* What a step reads, beside the sizes of the channels.
ChannelTypeOK ==
  /\ pending \subseteq Asking /\ owed \subseteq Asking
  /\ part \in [Callers -> {"thread", "main"}]
  /\ doing \in [Callers -> {"begin", "write", "answer", "wait", "over"}]
  /\ reply \in [Callers -> {"none", "ok", "error"}]
  /\ listens \subseteq Callers /\ lag \in [Callers -> BOOLEAN]
  /\ feed \in [Callers -> Seq(Targets)]
  /\ down \in Seq(Lines) /\ \A line \in ToSet(down) : line.kind = "end" => line.for \in Targets

\* A request without its answer is in the map of a loop that still reads.
AwaitedInv ==
  \A c \in Callers : doing[c] \in {"write", "answer"} /\ reply[c] = "none" => ~shut /\ Request(c) \in pending

\* The server has read a caller's last request, or has gone on from there.
Reached(c) ==
  \/ <<c, "main">> \in owed \/ Line("reply", <<c, "main">>) \in ToSet(down)
  \/ Line("end", c) \in ToSet(down) \/ c \in told

\* A turn subscribes before it makes the request that can end it, and what it was told since is
\* in its receiver, or the receiver knows that it lost something.
TurnsListen ==
  \A c \in Callers : Kind[c] = "turn" =>
    /\ Reached(c) \/ doing[c] = "wait" => part[c] = "main" /\ doing[c] \notin {"begin", "write"}
    /\ part[c] = "main" /\ doing[c] # "over" => c \in listens
    /\ c \in told /\ doing[c] \in {"answer", "wait"} => lag[c] \/ c \in ToSet(feed[c])

CodexInv == ChannelTypeOK /\ AwaitedInv /\ TurnsListen

\* Nobody has asked anything.
LEMMA CodexInitially == CodexInit => CodexInv
  BY CodexAssumption
DEF CodexInit, CodexInv, ChannelTypeOK, AwaitedInv, TurnsListen, Reached, ToSet, Asking, Targets, Lines

\* The steps of a request.
LEMMA RequestStep ==
  ASSUME CodexInv, NEW c \in Callers, Issue(c) \/ Write(c) \/ Answered(c) \/ TimesOut(c) \/ DropCaller(c)
  PROVE  CodexInv'
<1> USE CodexAssumption DEF CodexInv, channelVars, callerVars, serverVars
<1>1. ChannelTypeOK'
  <2>0. Request(c) \in Asking
    BY DEF ChannelTypeOK, Asking, Request
  <2> USE DEF ChannelTypeOK
  <2>1. CASE Issue(c)
    <3>1. pending' \subseteq Asking
      BY <2>0, <2>1 DEF Issue
    <3>2. PICK to \in {"over", "write"} : doing' = [doing EXCEPT ![c] = to]
      BY <2>1 DEF Issue
    <3>3. doing' \in [Callers -> {"begin", "write", "answer", "wait", "over"}]
      BY <3>2
    <3> QED BY <2>1, <3>1, <3>3 DEF Issue
  <2>2. CASE Write(c) BY <2>0, <2>2 DEF Write
  <2>3. CASE Answered(c) BY <2>3 DEF Answered
  <2>4. CASE TimesOut(c) BY <2>4 DEF TimesOut
  <2>5. CASE DropCaller(c) BY <2>5 DEF DropCaller
  <2> QED BY <2>1, <2>2, <2>3, <2>4, <2>5
<1>2. AwaitedInv'
  BY DEF ChannelTypeOK, AwaitedInv, Request, Issue, Write, Answered, TimesOut, DropCaller
<1>3. TurnsListen'
  <2> USE DEF ChannelTypeOK, TurnsListen, Reached, Request
  <2>1. CASE Issue(c) BY <2>1 DEF Issue
  <2>2. CASE Write(c) BY <2>2 DEF Write
  <2>3. CASE Answered(c) BY <2>3 DEF Answered
  <2>4. CASE TimesOut(c) \/ DropCaller(c) BY <2>4 DEF TimesOut, DropCaller
  <2> QED BY <2>1, <2>2, <2>3, <2>4
<1> QED BY <1>1, <1>2, <1>3

\* A notification is taken from a receiver: the one a turn waits for ends the wait.
LEMMA HearStep ==
  ASSUME CodexInv, NEW c \in Callers, Hear(c)
  PROVE  CodexInv'
<1> USE CodexAssumption DEF CodexInv, channelVars, callerVars, serverVars, Hear
<1>1. CASE lag[c]
  <2>1. ChannelTypeOK'
    BY <1>1 DEF ChannelTypeOK
  <2>2. AwaitedInv'
    BY <1>1 DEF ChannelTypeOK, AwaitedInv, Request
  <2>3. TurnsListen'
    BY <1>1 DEF ChannelTypeOK, TurnsListen, Reached
  <2> QED BY <2>1, <2>2, <2>3
<1>2. CASE ~lag[c]
  <2>1. feed[c] \in Seq(Targets) /\ feed[c] # <<>>
    BY <1>2 DEF ChannelTypeOK
  <2>2. Tail(feed[c]) \in Seq(Targets) /\ ToSet(feed[c]) = {Head(feed[c])} \cup ToSet(Tail(feed[c]))
    BY <2>1, Popped
  <2>a. ChannelTypeOK'
    BY <1>2, <2>2 DEF ChannelTypeOK
  <2>b. AwaitedInv'
    BY <1>2 DEF ChannelTypeOK, AwaitedInv, Request
  <2>4. \A d \in Callers : /\ doing'[d] = doing[d] \/ (d = c /\ doing'[d] = "over" /\ doing[d] = "wait")
                           /\ d \in listens /\ doing'[d] # "over" => d \in listens'
    BY <1>2 DEF ChannelTypeOK
  <2>5. \A d \in Callers : d \in ToSet(feed[d]) => d \in ToSet(feed'[d]) \/ doing'[d] = "over"
    BY <1>2, <2>2 DEF ChannelTypeOK
  <2>6. TurnsListen'
    BY <1>2, <2>4, <2>5 DEF TurnsListen, Reached, ChannelTypeOK
  <2> QED BY <2>a, <2>b, <2>6
<1> QED BY <1>1, <1>2

\* The loop ends: every request in flight is answered as it does.
LEMMA CloseStep ==
  ASSUME CodexInv, Close, down' \in Seq(Lines), ToSet(down') \subseteq ToSet(down),
         UNCHANGED <<serving, owed, part, doing, channelVars>>
  PROVE  CodexInv'
<1> USE DEF CodexInv, channelVars, Close
<1>1. ChannelTypeOK'
  BY DEF ChannelTypeOK, Asking
<1>2. AwaitedInv'
  BY DEF ChannelTypeOK, AwaitedInv, Request
<1>3. TurnsListen'
  BY DEF TurnsListen, Reached
<1> QED BY <1>1, <1>2, <1>3

\* What a broadcast leaves in a receiver.
LEMMA Broadcast ==
  ASSUME CodexInv, NEW who \in Targets, Announce(who), NEW c \in Callers
  PROVE  /\ feed'[c] \in Seq(Targets) /\ lag'[c] \in BOOLEAN /\ (lag[c] => lag'[c])
         /\ c \in listens => who \in ToSet(feed'[c]) /\ (lag'[c] \/ ToSet(feed[c]) \subseteq ToSet(feed'[c]))
         /\ c \notin listens => feed'[c] = feed[c]
<1> USE CodexAssumption DEF CodexInv, ChannelTypeOK, Announce
<1>1. feed[c] \in Seq(Targets) /\ lag[c] \in BOOLEAN
  OBVIOUS
<1>2. CASE c \notin listens
  BY <1>1, <1>2
<1>3. CASE c \in listens /\ Len(feed[c]) = Capacity
  <2>1. feed[c] # <<>>
    BY <1>1, <1>3
  <2>2. Tail(feed[c]) \in Seq(Targets)
    BY <1>1, <2>1, Popped
  <2>3. feed'[c] = Append(Tail(feed[c]), who) /\ lag'[c]
    BY <1>3
  <2> HIDE DEF CodexInv, ChannelTypeOK, Announce
  <2> DEFINE rest == Tail(feed[c])
  <2>4. Append(rest, who) \in Seq(Targets) /\ who \in ToSet(Append(rest, who))
    <3> HIDE DEF rest
    <3>1. rest \in Seq(Targets)
      BY <2>2 DEF rest
    <3> QED BY <3>1, Pushed
  <2>5. lag'[c] \in BOOLEAN
    BY <2>3, <1>3 DEF CodexInv, ChannelTypeOK, Announce
  <2> QED BY <1>3, <2>3, <2>4, <2>5
<1>4. CASE c \in listens /\ Len(feed[c]) # Capacity
  <2>1. feed'[c] = Append(feed[c], who)
    BY <1>4
  <2>2. lag'[c] = lag[c]
    BY <1>4
  <2> QED BY <1>1, <1>4, <2>1, <2>2, Pushed
<1> QED BY <1>2, <1>3, <1>4

\* A notification goes to all who listen, and a turn listens before it can have an end.
LEMMA AnnounceStep ==
  ASSUME CodexInv, NEW who \in Targets, Announce(who),
         down' \in Seq(Lines), ToSet(down') \subseteq ToSet(down), Line("end", who) \in ToSet(down),
         UNCHANGED <<serving, owed, part, doing, listens, shut, pending, reply>>
  PROVE  CodexInv'
<1> USE DEF CodexInv
<1>1. ChannelTypeOK'
  <2>1. feed' = [c \in Callers |-> feed'[c]] /\ lag' = [c \in Callers |-> lag'[c]]
    BY DEF Announce
  <2>2. feed' \in [Callers -> Seq(Targets)] /\ lag' \in [Callers -> BOOLEAN]
    BY <2>1, Broadcast
  <2> QED BY <2>2 DEF ChannelTypeOK
<1>2. AwaitedInv'
  BY DEF AwaitedInv, Request
<1>3. \A c \in Callers : Reached(c)' => Reached(c)
  BY DEF Reached, Announce
<1>4. ASSUME NEW c \in Callers, Kind[c] = "turn", c \in told', doing[c] \in {"answer", "wait"}
      PROVE  lag'[c] \/ c \in ToSet(feed'[c])
  <2>1. Reached(c)
    BY <1>3, <1>4 DEF Reached
  <2>2. c \in listens
    BY <1>4, <2>1 DEF TurnsListen
  <2>3. CASE c = who
    BY <2>2, <2>3, Broadcast
  <2>4. CASE c # who
    <3>1. c \in told
      BY <1>4, <2>4 DEF Announce
    <3>2. lag[c] \/ c \in ToSet(feed[c])
      BY <1>4, <3>1 DEF TurnsListen
    <3> QED BY <2>2, <3>2, Broadcast
  <2> QED BY <2>3, <2>4
<1>5. TurnsListen'
  BY <1>3, <1>4 DEF TurnsListen
<1> QED BY <1>1, <1>2, <1>5

\* A line is taken from the pipe.
LEMMA DispatchStep ==
  ASSUME CodexInv, Dispatch
  PROVE  CodexInv'
<1> DEFINE line == Head(down)
<1>1. down \in Seq(Lines) /\ down # <<>>
  BY DEF CodexInv, ChannelTypeOK, Dispatch
<1>2. down' = Tail(down)
  BY DEF Dispatch
<1>3. down' \in Seq(Lines) /\ line \in Lines /\ line \in ToSet(down) /\ ToSet(down') \subseteq ToSet(down)
  BY <1>1, <1>2, Popped
<1>4. UNCHANGED <<serving, owed, part, doing, listens>>
  BY DEF Dispatch
<1> HIDE DEF line
<1>5. CASE line.kind = "reply"
  <2>1. /\ pending' = pending \ {line.for} /\ UNCHANGED <<shut, feed, lag, told>>
        /\ reply' = [c \in Callers |-> IF line.for \in pending /\ line.for = Request(c) /\ doing[c] # "over"
                                       THEN "ok" ELSE reply[c]]
    BY <1>5 DEF Dispatch, line
  <2>2. ChannelTypeOK'
    BY <1>3, <1>4, <2>1 DEF CodexInv, ChannelTypeOK
  <2>3. AwaitedInv'
    BY <1>4, <2>1 DEF CodexInv, ChannelTypeOK, AwaitedInv, Request
  <2>4. TurnsListen'
    BY <1>3, <1>4, <2>1 DEF CodexInv, TurnsListen, Reached
  <2> QED BY <2>2, <2>3, <2>4 DEF CodexInv
<1>6. CASE line.kind = "end"
  <2>1. Announce(line.for) /\ UNCHANGED <<shut, pending, reply>>
    BY <1>6 DEF Dispatch, line
  <2>2. line.for \in Targets
    BY <1>3, <1>6 DEF CodexInv, ChannelTypeOK
  <2>3. line = Line("end", line.for)
    BY <1>3, <1>6 DEF Lines, Line
  <2> QED BY <1>3, <1>4, <2>1, <2>2, <2>3, AnnounceStep
<1>7. CASE line.kind = "bad" \/ (line.kind = "ask" /\ ~serving)
  <2>1. Close /\ UNCHANGED <<feed, lag, told>>
    BY <1>7 DEF Dispatch, line
  <2> QED BY <1>3, <1>4, <2>1, CloseStep DEF channelVars
<1>8. CASE line.kind = "ask" /\ serving
  <2>1. UNCHANGED <<shut, pending, reply, feed, lag, told>>
    BY <1>8 DEF Dispatch, line
  <2>2. ChannelTypeOK' /\ AwaitedInv'
    BY <1>3, <1>4, <2>1 DEF CodexInv, ChannelTypeOK, AwaitedInv, Request
  <2>3. TurnsListen'
    BY <1>3, <1>4, <2>1 DEF CodexInv, TurnsListen, Reached
  <2> QED BY <2>2, <2>3 DEF CodexInv
<1>9. line.kind \in {"reply", "end", "ask", "bad"}
  BY <1>3 DEF Lines
<1> QED BY <1>5, <1>6, <1>7, <1>8, <1>9

\* The server says a line that nobody's end is in, or the end of one that it had reached.
LEMMA SayStep ==
  ASSUME CodexInv, NEW line \in Lines, Say(line), owed' \subseteq owed,
         line.kind = "end" => line.for \in Targets,
         \A c \in Callers : Reached(c)' => Reached(c) \/ doing[c] = "wait",
         UNCHANGED <<shut, pending, callerVars, channelVars>>
  PROVE  CodexInv'
<1> USE DEF CodexInv, callerVars, channelVars
<1>1. down' \in Seq(Lines) /\ ToSet(down') = ToSet(down) \cup {line}
  BY Pushed DEF Say, ChannelTypeOK
<1>2. ChannelTypeOK' /\ AwaitedInv'
  BY <1>1 DEF ChannelTypeOK, AwaitedInv, Request
<1>3. TurnsListen'
  BY DEF TurnsListen
<1> QED BY <1>2, <1>3

\* The server answers, ends what it has read, or says what nobody asked.
LEMMA ServerStep ==
  ASSUME CodexInv, Responds \/ MakesNoise \/ Stops \/ \E c \in Callers : Complete(c)
  PROVE  CodexInv'
<1>1. CASE Stops
  BY <1>1
  DEF Stops, CodexInv, ChannelTypeOK, AwaitedInv, TurnsListen, Reached, Request, callerVars, channelVars
<1>2. down \in Seq(Lines) /\ owed \subseteq Asking
  BY DEF CodexInv, ChannelTypeOK
<1>3. \A line \in Lines : Say(line) => ToSet(down') = ToSet(down) \cup {line}
  BY <1>2, Pushed DEF Say
<1>4. CASE Responds
  <2>1. PICK req \in owed : Say(Line("reply", req)) /\ owed' = owed \ {req}
    BY <1>4 DEF Responds
  <2>2. Line("reply", req) \in Lines /\ Line("reply", req).kind # "end"
    BY <1>2, <2>1 DEF Line, Lines
  <2>3. ToSet(down') = ToSet(down) \cup {Line("reply", req)} /\ told' = told
    BY <1>3, <1>4, <2>1, <2>2 DEF Responds, channelVars
  <2>4. \A c \in Callers : /\ Line("reply", <<c, "main">>) = Line("reply", req) => <<c, "main">> \in owed
                           /\ Line("end", c) # Line("reply", req)
    BY <2>1 DEF Line
  <2>5. \A c \in Callers : Reached(c)' => Reached(c)
    BY <2>1, <2>3, <2>4 DEF Reached
  <2>6. owed' \subseteq owed /\ UNCHANGED <<shut, pending, callerVars, channelVars>>
    BY <1>4, <2>1 DEF Responds
  <2> QED BY <2>1, <2>2, <2>5, <2>6, SayStep
<1>5. CASE MakesNoise
  <2>1. PICK kind \in {"end", "ask", "bad"} : Say(Line(kind, NoCaller))
    BY <1>5 DEF MakesNoise
  <2>2. Line(kind, NoCaller) \in Lines /\ Line(kind, NoCaller).for \in Targets
    BY DEF Line, Lines, Targets
  <2>3. ToSet(down') = ToSet(down) \cup {Line(kind, NoCaller)}
    BY <1>3, <2>1, <2>2
  <2>4. \A c \in Callers : /\ Line("reply", <<c, "main">>) # Line(kind, NoCaller)
                           /\ Line("end", c) # Line(kind, NoCaller)
    BY CodexAssumption DEF Line
  <2>5. \A c \in Callers : Reached(c)' => Reached(c)
    BY <1>5, <2>3, <2>4 DEF Reached, MakesNoise, channelVars
  <2>6. owed' = owed /\ UNCHANGED <<shut, pending, callerVars, channelVars>>
    BY <1>5 DEF MakesNoise
  <2> QED BY <2>1, <2>2, <2>5, <2>6, SayStep
<1>6. ASSUME NEW d \in Callers, Complete(d) PROVE CodexInv'
  <2>1. Say(Line("end", d)) /\ owed' = owed /\ UNCHANGED <<shut, pending, callerVars, channelVars>>
    BY <1>6 DEF Complete
  <2>2. Line("end", d) \in Lines /\ Line("end", d).for \in Targets
    BY DEF Line, Lines, Targets
  <2>3. ToSet(down') = ToSet(down) \cup {Line("end", d)}
    BY <1>3, <2>1, <2>2
  <2>4. \A c \in Callers : /\ Line("reply", <<c, "main">>) # Line("end", d)
                           /\ Line("end", c) = Line("end", d) => c = d
    BY DEF Line
  <2>5. Reached(d) \/ doing[d] = "wait"
    BY <1>6 DEF Complete, Reached
  <2>6. \A c \in Callers : Reached(c)' => Reached(c) \/ doing[c] = "wait"
    BY <2>1, <2>3, <2>4, <2>5 DEF Reached, channelVars
  <2> QED BY <2>1, <2>2, <2>6, SayStep
<1> QED BY <1>1, <1>4, <1>5, <1>6

\* One step of anybody keeps it.
LEMMA CodexStep == CodexInv /\ [CodexNext]_codexVars => CodexInv'
<1> SUFFICES ASSUME CodexInv, [CodexNext]_codexVars PROVE CodexInv'
  OBVIOUS
<1>1. CASE UNCHANGED codexVars
  BY <1>1
  DEF codexVars, serverVars, callerVars, channelVars, CodexInv, ChannelTypeOK, AwaitedInv, TurnsListen,
      Reached, Request
<1>2. CASE EndOfFile
  <2>1. down' \in Seq(Lines) /\ ToSet(down') = ToSet(down)
    BY <1>2 DEF EndOfFile, serverVars, CodexInv, ChannelTypeOK
  <2> QED BY <1>2, <2>1, CloseStep DEF EndOfFile, serverVars
<1>3. CASE CodexNext /\ ~EndOfFile
  BY <1>3, RequestStep, HearStep, DispatchStep, ServerStep DEF CodexNext
<1> QED BY <1>1, <1>2, <1>3

\* What it says of who waits.
LEMMA CodexIsEnough == CodexInv => NothingIsAwaitedInVain
  BY DEF CodexInv, AwaitedInv, TurnsListen, NothingIsAwaitedInVain

\* client.rs (ClientInner::closed): whatever the callers and the app-server do and in whatever
\* order, a request without its answer is in the map of a loop that still reads, and a turn
\* whose completion was dispatched finds it in its receiver, or that it has missed some.
THEOREM NobodyWaitsInVain == CodexSpec => []NothingIsAwaitedInVain
  BY CodexInitially, CodexStep, CodexIsEnough, PTL DEF CodexSpec

\* A receiver holds no more than its capacity.
FeedsFit == \A c \in Callers : Len(feed[c]) <= Capacity

\* What is broadcast makes room for itself.
LEMMA FeedsTyped ==
  /\ CodexInit => FeedsFit
  /\ CodexInv /\ FeedsFit /\ [CodexNext]_codexVars => FeedsFit'
<1> USE CodexAssumption
<1>1. CodexInit => FeedsFit
  BY DEF CodexInit, FeedsFit
<1> SUFFICES ASSUME CodexInv, FeedsFit, [CodexNext]_codexVars PROVE FeedsFit'
  BY <1>1
<1>2. feed \in [Callers -> Seq(Targets)]
  BY DEF CodexInv, ChannelTypeOK
<1>3. CASE feed' = feed
  BY <1>3 DEF FeedsFit
<1>4. ASSUME NEW c \in Callers, feed[c] # <<>>, feed' = [feed EXCEPT ![c] = Tail(feed[c])] PROVE FeedsFit'
  <2>1. Len(Tail(feed[c])) <= Len(feed[c]) /\ Len(feed[c]) \in Nat /\ Len(Tail(feed[c])) \in Nat
    BY <1>2, <1>4, HeadTailProperties
  <2> QED BY <1>2, <1>4, <2>1 DEF FeedsFit
<1>5. ASSUME NEW who \in Targets, Announce(who) PROVE FeedsFit'
  <2> SUFFICES ASSUME NEW c \in Callers PROVE Len(feed'[c]) <= Capacity
    BY DEF FeedsFit
  <2> DEFINE fd == feed[c]
             rest == Tail(fd)
  <2>1. fd \in Seq(Targets) /\ Len(fd) \in Nat /\ Len(fd) <= Capacity /\ Capacity \in Nat \ {0}
    BY <1>2 DEF FeedsFit
  <2>2. feed'[c] = IF c \notin listens THEN fd ELSE Append(IF Len(fd) = Capacity THEN rest ELSE fd, who)
    BY <1>5 DEF Announce
  <2>3. Len(fd) = Capacity => rest \in Seq(Targets) /\ Len(rest) = Capacity - 1
    BY <2>1, HeadTailProperties, EmptySeq
  <2> HIDE DEF fd, rest
  <2>4. Len(fd) = Capacity => Len(Append(rest, who)) = Capacity
    BY <2>1, <2>3, AppendProperties
  <2>5. Len(fd) # Capacity => Len(Append(fd, who)) <= Capacity
    BY <2>1, AppendProperties
  <2> QED BY <2>1, <2>2, <2>4, <2>5
<1>6. CASE Dispatch
  <2>1. feed' = feed \/ \E who \in Targets : Announce(who)
    <3>1. down \in Seq(Lines) /\ down # <<>> /\ \A line \in ToSet(down) : line.kind = "end" => line.for \in Targets
      BY <1>6 DEF Dispatch, CodexInv, ChannelTypeOK
    <3>2. Head(down) \in ToSet(down)
      BY <3>1, Popped
    <3>3. feed' = feed \/ (Head(down).kind = "end" /\ Announce(Head(down).for))
      BY <1>6 DEF Dispatch
    <3> QED BY <3>1, <3>2, <3>3
  <2> QED BY <1>3, <1>5, <2>1
<1> QED
  BY <1>3, <1>4, <1>6
  DEF CodexNext, Issue, Write, Answered, TimesOut, DropCaller, Hear, Complete, EndOfFile, Responds, MakesNoise, Stops,
      channelVars, codexVars

-----------------------------------------------------------------------------
(* The four together. *)

\* What is known of each, and their types.
DrivingInv ==
  /\ NavigatorInv /\ NavigatorTypes /\ AppRunsInv /\ AppRunsTypes /\ BrowserTypes /\ CodexInv /\ FeedsFit
  /\ Apart => BrowserInv

\* None disturbs another, so a step of one keeps what is known of all.
LEMMA DrivingStep == DrivingInv /\ [DrivingNext]_drivingVars => DrivingInv'
<1>1. [DrivingNext]_drivingVars =>
        [NavigatorNext]_navVars /\ [AppRunsNext]_appVars /\ [BrowserNext]_browserVars /\ [CodexNext]_codexVars
  BY DEF DrivingNext, NavigatorAlone, AppsAlone, BrowserAlone, CodexAlone, drivingVars
<1>2. DrivingInv /\ [DrivingNext]_drivingVars => (Apart => BrowserInv)'
  BY <1>1, TabsStep DEF DrivingInv, Apart
<1> QED
  BY <1>1, <1>2, NavigatorStep, NavigatorTyped, AppRunsStep, AppRunsTyped, BrowserTyped, CodexStep, FeedsTyped
  DEF DrivingInv

\* The types of the four, and what the run checks of each of them, side by side: of the tabs, where
\* no two browsing runs share a process.
THEOREM DrivingIsSafe ==
  DrivingSpec => [](/\ DrivingTypeOK /\ TokensHold /\ StopIsPrompt /\ NothingIsAwaitedInVain
                    /\ Apart => TabsAreAccounted)
<1>1. DrivingInit => DrivingInv
  BY NavigatorInitially, NavigatorTyped, AppRunsInitially, AppRunsTyped, BrowserInitially, BrowserTyped,
     CodexInitially, FeedsTyped
  DEF DrivingInit, DrivingInv
<1>2. DrivingInv => DrivingTypeOK
  BY AppRunsTypesAreEnough, BrowserTypesAreEnough
  DEF DrivingInv, NavigatorTypes, CodexInv, ChannelTypeOK, Asking, FeedsFit, CodexTypeOK, DrivingTypeOK
<1>3. DrivingInv => TokensHold /\ StopIsPrompt /\ NothingIsAwaitedInVain
  BY NavigatorIsEnough, StopIsEnough, CodexIsEnough DEF DrivingInv
<1>4. DrivingInv => (Apart => TabsAreAccounted)
  BY TabsAreEnough DEF DrivingInv
<1> QED BY <1>1, <1>2, <1>3, <1>4, DrivingStep, PTL DEF DrivingSpec
=============================================================================
