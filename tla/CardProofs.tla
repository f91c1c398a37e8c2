----------------------------- MODULE CardProofs -----------------------------
(***************************************************************************)
(* For any number of cards, of runs that ask and of front ends that        *)
(* answer: an answer is taken once, silence is never an approval, what is  *)
(* pressed or typed at the terminal for one card never answers another,    *)
(* and neither surface goes on showing a card whose end it has heard.      *)
(*                                                                         *)
(* The argument: a waiter is in the table until the first answer takes it, *)
(* so a parked card was told nothing, and what its run hears is what that  *)
(* one front end was told.                                                 *)
(***************************************************************************)
EXTENDS MCCards, WellFoundedInduction, TLAPS

\* A card that is parked has been asked and is not settled; nobody was told that the
\* answer to a parked card, or to one not asked yet, was taken.
ParkedInv ==
  \A c \in Cards :
    /\ c \in table => run[c] \notin {"before", "after"}
    /\ c \in table \/ run[c] = "before" => told[c] = <<>>

\* What is in a oneshot, and what a run made of it, is the one answer taken.
HeardInv ==
  \A c \in Cards :
    /\ channel[c] # Nothing => told[c] = <<channel[c]>>
    /\ used[c] \in Answers => told[c] = <<used[c]>>

BrokerInv == BrokerTypeOK /\ ParkedInv /\ HeardInv /\ AnswerArrivesOnce

-----------------------------------------------------------------------------
LEMMA BrokerInitOK == BrokerInit => BrokerInv
  BY BrokerAssumption
  DEF BrokerInit, BrokerInv, BrokerTypeOK, ParkedInv, HeardInv, AnswerArrivesOnce, Points, Answers, Event

\* What the run of a card does: it tells nobody anything.
LEMMA RunKeeps ==
  ASSUME BrokerInv, NEW c \in Cards, RunStep(c)
  PROVE  BrokerInv'
<1> USE DEF BrokerInv
<1>1. CASE Ask(c)
  <2>1. BrokerTypeOK'
    BY <1>1 DEF Ask, Goto, Publish, BrokerTypeOK, Points, Event
  <2>2. ParkedInv'
    BY <1>1 DEF Ask, Goto, BrokerTypeOK, ParkedInv
  <2> QED BY <1>1, <2>1, <2>2 DEF Ask, HeardInv, AnswerArrivesOnce
<1>2. CASE Hear(c)
  <2>1. BrokerTypeOK'
    BY <1>2 DEF Hear, Goto, BrokerTypeOK, Points
  <2>2. ParkedInv' /\ HeardInv'
    BY <1>2 DEF Hear, Goto, BrokerTypeOK, ParkedInv, HeardInv
  <2> QED BY <1>2, <2>1, <2>2 DEF Hear, AnswerArrivesOnce
<1>3. CASE TimeOut(c)
  <2>1. BrokerTypeOK'
    BY <1>3 DEF TimeOut, Goto, BrokerTypeOK, Points
  <2>2. ParkedInv' /\ HeardInv'
    BY <1>3 DEF TimeOut, Goto, BrokerTypeOK, ParkedInv, HeardInv, Answers
  <2> QED BY <1>3, <2>1, <2>2 DEF TimeOut, AnswerArrivesOnce
<1>4. CASE Settle(c)
  <2>1. BrokerTypeOK'
    BY <1>4 DEF Settle, Goto, Publish, BrokerTypeOK, Points, Event
  <2>2. ParkedInv'
    BY <1>4 DEF Settle, Goto, BrokerTypeOK, ParkedInv
  <2> QED BY <1>4, <2>1, <2>2 DEF Settle, HeardInv, AnswerArrivesOnce
<1>5. CASE Drop(c)
  <2>1. BrokerTypeOK' /\ ParkedInv'
    BY <1>5 DEF Drop, Goto, BrokerTypeOK, Points, ParkedInv
  <2> QED BY <1>5, <2>1 DEF Drop, HeardInv, AnswerArrivesOnce
<1> QED BY <1>1, <1>2, <1>3, <1>4, <1>5 DEF RunStep

\* A front end answers: the first answer to a parked card takes its waiter.
LEMMA ResolveKeeps ==
  ASSUME BrokerInv, NEW c \in Cards, NEW a \in Answers, Resolve(c, a)
  PROVE  BrokerInv'
<1> USE DEF BrokerInv
<1>1. told[c] = <<>> /\ told'[c] = <<a>>
  <2>1. told[c] = <<>> /\ told'[c] = Append(told[c], a)
    BY DEF Resolve, ParkedInv, BrokerTypeOK
  <2>2. Append(<<>>, a) = <<a>>
    OBVIOUS
  <2> QED BY <2>1, <2>2
<1>2. \A d \in Cards : d # c => told'[d] = told[d] /\ channel'[d] = channel[d]
  BY DEF Resolve, BrokerTypeOK
<1>3. channel'[c] \in {channel[c], a} /\ channel[c] = Nothing
  <2>1. channel[c] # Nothing => FALSE
    <3> SUFFICES ASSUME channel[c] # Nothing PROVE <<>> = <<channel[c]>>  OBVIOUS
    <3> QED BY <1>1 DEF HeardInv
  <2>2. channel'[c] \in {channel[c], a}
    BY DEF Resolve, BrokerTypeOK
  <2> QED BY <2>1, <2>2
<1>4. BrokerTypeOK'
  BY <1>1 DEF Resolve, BrokerTypeOK
<1>5. ParkedInv'
  BY <1>2 DEF Resolve, ParkedInv, BrokerTypeOK
<1>6. HeardInv'
  <2>1. used[c] \notin Answers
    BY <1>1 DEF HeardInv
  <2> QED BY <1>1, <1>2, <1>3, <2>1 DEF Resolve, HeardInv
<1>7. AnswerArrivesOnce'
  <2>1. Len(<<a>>) <= 1
    OBVIOUS
  <2> QED BY <1>1, <1>2, <2>1 DEF AnswerArrivesOnce
<1> QED BY <1>4, <1>5, <1>6, <1>7

\* A front end reads an event.
LEMMA ReadKeeps == BrokerInv /\ Read => BrokerInv'
  BY DEF Read, BrokerInv, BrokerTypeOK, ParkedInv, HeardInv, AnswerArrivesOnce

LEMMA BrokerStep == BrokerInv /\ [BrokerNext]_brokerVars => BrokerInv'
<1> SUFFICES ASSUME BrokerInv, [BrokerNext]_brokerVars PROVE BrokerInv'  OBVIOUS
<1>1. CASE UNCHANGED brokerVars
  BY <1>1 DEF brokerVars, BrokerInv, BrokerTypeOK, ParkedInv, HeardInv, AnswerArrivesOnce
<1> QED BY <1>1, RunKeeps, ResolveKeeps, ReadKeeps DEF BrokerNext

\* Whatever runs and front ends do with the broker, its invariant holds.
THEOREM BrokerInvariant == BrokerInit /\ [][BrokerNext]_brokerVars => []BrokerInv
  BY BrokerInitOK, BrokerStep, PTL

\* confirm.rs:18.  However many front ends answer a card, one is told its answer was
\* taken.
THEOREM OneAnswerIsTaken == BrokerSpec => []AnswerArrivesOnce
<1>1. BrokerInv => AnswerArrivesOnce
  BY DEF BrokerInv
<1> QED BY <1>1, BrokerInvariant, PTL DEF BrokerSpec

\* confirm.rs:97-110.  No deadline and no dropped run approves an action: where a run
\* goes ahead, a front end was told that its approval was taken.
THEOREM SilenceNeverApproves == BrokerSpec => []ApprovalWasGiven
<1>1. BrokerInv => ApprovalWasGiven
  <2> SUFFICES ASSUME BrokerInv, NEW c \in Cards, used[c] = "yes"
               PROVE  told[c] # <<>> /\ told[c][1] = "yes"
    BY DEF ApprovalWasGiven
  <2>1. told[c] = <<"yes">>
    BY DEF BrokerInv, HeardInv, Answers
  <2> QED BY <2>1
<1> QED BY <1>1, BrokerInvariant, PTL DEF BrokerSpec

\* confirm.rs:16-18: an answer counts once, and only a yes approves.
THEOREM AnswersAreHonoured == BrokerSpec => []AnswersCount
BY OneAnswerIsTaken, SilenceNeverApproves, PTL DEF AnswersCount

\* confirm.rs:103, 193-199.  Once its run has moved on, a card cannot be answered.
THEOREM SettledCardsAreRefused == BrokerSpec => []SettledIsRefused
<1>1. BrokerInv => SettledIsRefused
  BY DEF BrokerInv, ParkedInv, SettledIsRefused
<1> QED BY <1>1, BrokerInvariant, PTL DEF BrokerSpec

-----------------------------------------------------------------------------
(* Sequences. *)

\* A set of places that is not empty has a first one.
LEMMA LeastPlace ==
  ASSUME NEW S \in SUBSET Nat, S # {}
  PROVE  \E i \in S : \A j \in S : i <= j
<1> DEFINE R == {p \in Nat \X Nat : p[1] < p[2]}
<1>1. IsWellFoundedOn(R, Nat)
  BY NatLessThanWellFounded DEF OpToRel
<1> HIDE DEF R
<1>2. PICK i \in S : \A j \in S : <<j, i>> \notin R
  BY <1>1, WFMin
<1>3. ASSUME NEW j \in S PROVE i <= j
  <2>1. i \in Nat /\ j \in Nat
    OBVIOUS
  <2>2. CASE j < i
    <3>1. <<j, i>> \in R
      BY <2>1, <2>2 DEF R
    <3> QED BY <3>1, <1>2
  <2> QED BY <2>1, <2>2
<1> QED BY <1>3

\* What is left of a sequence when one of its elements is taken out, whichever.
LEMMA Removed ==
  ASSUME NEW S, NEW s \in Seq(S), NEW i \in 1 .. Len(s)
  PROVE  /\ RemoveAt(s, i) \in Seq(S)
         /\ Len(RemoveAt(s, i)) = Len(s) - 1
         /\ \A j \in 1 .. Len(s) - 1 : RemoveAt(s, i)[j] = IF j < i THEN s[j] ELSE s[j + 1]
<1> DEFINE left == SubSeq(s, 1, i - 1)
           right == SubSeq(s, i + 1, Len(s))
<1>1. left \in Seq(S) /\ right \in Seq(S) /\ Len(left) = i - 1 /\ Len(right) = Len(s) - i
  OBVIOUS
<1>2. /\ \A j \in 1 .. i - 1 : left[j] = s[j]
      /\ \A j \in 1 .. Len(s) - i : right[j] = s[i + j]
  OBVIOUS
<1>3. RemoveAt(s, i) = left \o right
  BY DEF RemoveAt
<1> HIDE DEF left, right
<1>4. left \o right \in Seq(S) /\ Len(left \o right) = Len(s) - 1
  BY <1>1
<1>5. ASSUME NEW j \in 1 .. Len(s) - 1
      PROVE  (left \o right)[j] = IF j < i THEN s[j] ELSE s[j + 1]
  <2>1. CASE j < i
    BY <1>1, <1>2, <2>1
  <2>2. CASE j >= i
    <3>1. j - (i - 1) \in 1 .. Len(s) - i
      BY <2>2
    <3>2. (left \o right)[j] = right[j - (i - 1)]
      BY <1>1, <2>2
    <3> QED BY <1>2, <2>2, <3>1, <3>2
  <2>3. j < i \/ j >= i
    OBVIOUS
  <2> QED BY <2>1, <2>2, <2>3
<1> QED BY <1>3, <1>4, <1>5

\* What is left of a sequence when the first place that holds e is taken out, if one does.
LEMMA FirstRemoved ==
  ASSUME NEW S, NEW s \in Seq(S), NEW e
  PROVE  \/ RemoveFirst(s, e) = s /\ \A i \in 1 .. Len(s) : s[i] # e
         \/ \E i \in 1 .. Len(s) : s[i] = e /\ RemoveFirst(s, e) = RemoveAt(s, i)
<1> DEFINE I == {i \in 1 .. Len(s) : s[i] = e}
<1>1. CASE I = {}
  BY <1>1 DEF RemoveFirst
<1>2. CASE I # {}
  <2>1. I \in SUBSET Nat
    OBVIOUS
  <2>2. \E i \in I : \A j \in I : i <= j
    <3> HIDE DEF I
    <3> QED BY <1>2, <2>1, LeastPlace
  <2>3. Min(I) \in I
    <3> HIDE DEF I
    <3> QED BY <2>2 DEF Min
  <2>4. RemoveFirst(s, e) = RemoveAt(s, Min(I))
    BY <1>2 DEF RemoveFirst, SelectInSeq
  <2> QED BY <2>3, <2>4
<1> QED BY <1>1, <1>2

\* What it leaves: the other elements, and e only if it was there twice.
LEMMA RemovedIs ==
  ASSUME NEW S, NEW s \in Seq(S), NEW e
  PROVE  /\ RemoveFirst(s, e) \in Seq(S) /\ Len(RemoveFirst(s, e)) <= Len(s)
         /\ ToSet(RemoveFirst(s, e)) \subseteq ToSet(s) /\ ToSet(s) \ {e} \subseteq ToSet(RemoveFirst(s, e))
         /\ (\A i, j \in 1 .. Len(s) : s[i] = s[j] => i = j) =>
              /\ e \notin ToSet(RemoveFirst(s, e))
              /\ \A i, j \in 1 .. Len(RemoveFirst(s, e)) : RemoveFirst(s, e)[i] = RemoveFirst(s, e)[j] => i = j
<1>1. PICK r : r = RemoveFirst(s, e)
  OBVIOUS
<1>2. DOMAIN s = 1 .. Len(s) /\ Len(s) \in Nat
  OBVIOUS
<1>3. CASE r = s /\ \A i \in 1 .. Len(s) : s[i] # e
  BY <1>1, <1>2, <1>3 DEF ToSet
<1>4. ASSUME NEW k \in 1 .. Len(s), s[k] = e, r = RemoveAt(s, k)
      PROVE  /\ r \in Seq(S) /\ Len(r) <= Len(s) /\ ToSet(r) \subseteq ToSet(s) /\ ToSet(s) \ {e} \subseteq ToSet(r)
             /\ (\A i, j \in 1 .. Len(s) : s[i] = s[j] => i = j) =>
                  e \notin ToSet(r) /\ \A i, j \in 1 .. Len(r) : r[i] = r[j] => i = j
  <2>1. /\ r \in Seq(S) /\ Len(r) = Len(s) - 1 /\ DOMAIN r = 1 .. Len(r)
        /\ \A j \in 1 .. Len(s) - 1 : r[j] = IF j < k THEN s[j] ELSE s[j + 1]
    <3>1. /\ r \in Seq(S) /\ Len(r) = Len(s) - 1
          /\ \A j \in 1 .. Len(s) - 1 : r[j] = IF j < k THEN s[j] ELSE s[j + 1]
      BY <1>4, Removed
    <3> QED BY <3>1
  <2> DEFINE from(j) == IF j < k THEN j ELSE j + 1
  <2>2. ASSUME NEW j \in 1 .. Len(r) PROVE from(j) \in 1 .. Len(s) /\ from(j) # k /\ r[j] = s[from(j)]
    BY <1>2, <2>1
  <2>3. \A i, j \in 1 .. Len(r) : from(i) = from(j) => i = j
    BY <1>2, <2>1
  <2>4. ASSUME NEW j \in 1 .. Len(s), j # k PROVE \E i \in 1 .. Len(r) : from(i) = j
    <3>1. CASE j < k
      <4>1. j \in 1 .. Len(r) /\ from(j) = j BY <1>2, <2>1, <3>1
      <4> QED BY <4>1
    <3>2. CASE j > k
      <4>1. j - 1 \in 1 .. Len(r) /\ from(j - 1) = j BY <1>2, <2>1, <3>2
      <4> QED BY <4>1
    <3> QED BY <2>4, <3>1, <3>2
  <2> HIDE DEF from
  <2>5. ToSet(r) \subseteq ToSet(s)
    BY <1>2, <2>1, <2>2 DEF ToSet
  <2>6. ASSUME NEW x \in ToSet(s) \ {e} PROVE x \in ToSet(r)
    <3>1. PICK j \in 1 .. Len(s) : s[j] = x BY <1>2 DEF ToSet
    <3>2. j # k BY <1>4, <3>1
    <3>3. PICK i \in 1 .. Len(r) : from(i) = j BY <3>2, <2>4
    <3> QED BY <3>1, <3>3, <2>1, <2>2 DEF ToSet
  <2>7. ASSUME \A i, j \in 1 .. Len(s) : s[i] = s[j] => i = j
        PROVE  e \notin ToSet(r) /\ \A i, j \in 1 .. Len(r) : r[i] = r[j] => i = j
    <3>1. ASSUME NEW j \in 1 .. Len(r) PROVE r[j] # e BY <1>4, <2>2, <2>7
    <3>2. ASSUME NEW i \in 1 .. Len(r), NEW j \in 1 .. Len(r), r[i] = r[j] PROVE i = j
      <4>1. from(i) = from(j) BY <2>2, <2>7, <3>2
      <4> QED BY <2>3, <4>1
    <3> QED BY <2>1, <3>1, <3>2 DEF ToSet
  <2> QED BY <1>2, <2>1, <2>5, <2>6, <2>7
<1> QED BY <1>1, <1>3, <1>4, FirstRemoved

-----------------------------------------------------------------------------
(* The terminal. *)

\* The keys are live for a card whose own sentence was on a frame, and the prompt is
\* open for a question it was opened for.
LiveInv ==
  /\ live => front \in seen
  /\ prompt # NoCard => prompt \in Typed /\ prompt \in opened
  /\ AnswersWereMeant

LEMMA TerminalInitOK == TerminalInit => LiveInv
  BY DEF TerminalInit, BrokerInit, LiveInv, AnswersWereMeant

\* An answer is told to one card, and what the others were told stays.
LEMMA OneIsTold ==
  ASSUME BrokerTypeOK, NEW c, NEW a, Resolve(c, a)
  PROVE  c \in Cards /\ \A d \in Cards : d # c => told'[d] = told[d]
BY DEF Resolve, BrokerTypeOK

\* Whatever the stack does, it gives the front card's place to another only with the
\* keys dead, and the prompt stays with the question it was opened for.
LEMMA TerminalStep == BrokerTypeOK /\ LiveInv /\ [TerminalNext]_stackVars => LiveInv'
<1> SUFFICES ASSUME BrokerTypeOK, LiveInv, [TerminalNext]_stackVars PROVE LiveInv'  OBVIOUS
<1> USE DEF LiveInv, AnswersWereMeant
<1>1. CASE UNCHANGED stackVars
  BY <1>1 DEF stackVars, brokerVars, terminalVars
<1>2. CASE RunsBesideTerminal
  <2>1. told' = told
    BY <1>2 DEF RunsBesideTerminal, RunStep, Ask, Hear, TimeOut, Settle, Drop
  <2> QED BY <1>2, <2>1 DEF RunsBesideTerminal, terminalVars
<1>3. CASE DeliverNext
  <2>1. (front' = front /\ live' = live) \/ live' = FALSE
    BY <1>3 DEF DeliverNext, Raise, Clear
  <2> QED BY <1>3, <2>1 DEF DeliverNext, Read
<1>4. CASE TerminalLag \/ Disarm
  BY <1>4 DEF TerminalLag, Read, Disarm, brokerVars
<1>5. CASE Arm
  BY <1>5 DEF Arm, brokerVars
<1>6. ASSUME NEW a \in Answers, PressKey(a) PROVE LiveInv'
  <2>1. front \in seen /\ front \notin Typed /\ \A c \in Cards : c # front => told'[c] = told[c]
    BY <1>6, OneIsTold DEF PressKey
  <2> QED BY <1>6, <2>1 DEF PressKey, terminalVars
<1>7. CASE OpenPrompt
  BY <1>7 DEF OpenPrompt, brokerVars
<1>8. CASE SubmitPrompt
  <2>1. prompt \in Typed /\ prompt \in opened /\ \A c \in Cards : c # prompt => told'[c] = told[c]
    BY <1>8, OneIsTold DEF SubmitPrompt
  <2> QED BY <1>8, <2>1 DEF SubmitPrompt
<1>9. CASE ClosePrompt
  BY <1>9 DEF ClosePrompt, brokerVars
<1> QED BY <1>1, <1>2, <1>3, <1>4, <1>5, <1>6, <1>7, <1>8, <1>9 DEF TerminalNext

\* The terminal uses the broker as it is meant to be used: what it does is runs'
\* steps, answers and reads, or nothing.
LEMMA TerminalIsAClient == BrokerTypeOK /\ [TerminalNext]_stackVars => [BrokerNext]_brokerVars
<1> SUFFICES ASSUME BrokerTypeOK, [TerminalNext]_stackVars PROVE [BrokerNext]_brokerVars  OBVIOUS
<1>1. CASE UNCHANGED stackVars
  BY <1>1 DEF stackVars
<1>2. CASE RunsBesideTerminal
  BY <1>2 DEF RunsBesideTerminal, BrokerNext
<1>3. CASE DeliverNext \/ TerminalLag
  BY <1>3 DEF DeliverNext, TerminalLag, BrokerNext
<1>4. CASE Arm \/ Disarm \/ OpenPrompt \/ ClosePrompt
  BY <1>4 DEF Arm, Disarm, OpenPrompt, ClosePrompt
<1>5. ASSUME NEW c, NEW a \in Answers, Resolve(c, a) PROVE BrokerNext
  BY <1>5, OneIsTold DEF BrokerNext
<1>6. CASE SubmitPrompt \/ \E a \in Answers : PressKey(a)
  BY <1>5, <1>6 DEF SubmitPrompt, PressKey, Answers
<1> QED BY <1>1, <1>2, <1>3, <1>4, <1>6 DEF TerminalNext

\* keys.rs:253-272, state.rs:2512-2619, 3455-3467.  For any number of cards, of either
\* kind, queued, settled and typed for in any order: y, n and digits answer only a card
\* whose own sentence was live, words only the question their prompt was opened for, and
\* each card once.
THEOREM TerminalAnswersWhatWasMeant ==
  TerminalSpec => [](AnswersWereMeant /\ AnswerArrivesOnce)
<1>1. TerminalInit => BrokerInv /\ LiveInv
  BY BrokerInitOK, TerminalInitOK DEF TerminalInit
<1>2. BrokerInv /\ LiveInv /\ [TerminalNext]_stackVars => (BrokerInv /\ LiveInv)'
  BY BrokerStep, TerminalStep, TerminalIsAClient DEF BrokerInv
<1>3. BrokerInv /\ LiveInv => AnswersWereMeant /\ AnswerArrivesOnce
  BY DEF BrokerInv, LiveInv
<1> QED BY <1>1, <1>2, <1>3, PTL DEF TerminalSpec

-----------------------------------------------------------------------------
(* The stack of cards. *)

\* The request of a card, and its settlement, are on their way to the front end.
Requesting(c) == \E i \in 1 .. Len(feed) : feed[i] = [kind |-> "asked", card |-> c]
Settling(c) == \E i \in 1 .. Len(feed) : feed[i] = [kind |-> "settled", card |-> c]

\* A card has two events at most, its request first.
EventsInOrder ==
  \A i, j \in 1 .. Len(feed) :
    i < j /\ feed[i].card = feed[j].card => feed[i].kind = "asked" /\ feed[j].kind = "settled"

\* A card is in the stack once.
StackedOnce ==
  /\ \A i, j \in 1 .. Len(queue) : queue[i] = queue[j] => i = j
  /\ front \notin ToSet(queue)

\* A card in the stack, or on its way there, is not settled, or its settlement is behind it.
StackedInv ==
  \A c \in Cards :
    /\ run[c] = "before" => ~Requesting(c) /\ ~Settling(c) /\ c \notin Shown
    /\ Settling(c) => run[c] = "after"
    /\ c \in Shown => ~Requesting(c)
    /\ run[c] = "after" /\ (c \in Shown \/ Requesting(c)) => Settling(c) \/ c \in missed

StackInv == BrokerInv /\ TerminalTypeOK /\ EventsInOrder /\ StackedOnce /\ StackedInv

LEMMA StackInitOK == TerminalInit => StackInv
<1> SUFFICES ASSUME TerminalInit PROVE StackInv  OBVIOUS
<1>1. BrokerInv
  BY BrokerInitOK DEF TerminalInit
<1>2. feed = <<>> /\ queue = <<>> /\ front = NoCard /\ \A c \in Cards : run[c] = "before" /\ c \notin Shown
  BY StackAssumption DEF TerminalInit, BrokerInit, Shown, ToSet
<1>3. TerminalTypeOK
  <2>1. <<>> \in Seq(Cards)
    OBVIOUS
  <2> QED BY <1>2, <2>1 DEF TerminalInit, TerminalTypeOK
<1> QED BY <1>1, <1>2, <1>3 DEF StackInv, EventsInOrder, StackedOnce, StackedInv, Requesting, Settling, ToSet

\* A card is raised, in front or behind the others.
LEMMA RaiseIs ==
  ASSUME TerminalTypeOK, StackedOnce, NEW c \in Cards, Raise(c)
  PROVE  /\ front' \in Cards \cup {NoCard} /\ queue' \in Seq(Cards) /\ StackedOnce' /\ live' \in BOOLEAN
         /\ \A d \in Cards : d \in Shown' <=> d \in Shown \/ d = c
<1>1. front \in Cards \cup {NoCard} /\ queue \in Seq(Cards) /\ live \in BOOLEAN
  BY DEF TerminalTypeOK
<1>2. CASE c \in Shown
  BY <1>1, <1>2 DEF Raise, StackedOnce, Shown
<1>3. CASE c \notin Shown /\ front = NoCard
  BY <1>1, <1>3, StackAssumption DEF Raise, StackedOnce, Shown
<1>4. CASE c \notin Shown /\ front # NoCard
  <2>1. queue' = Append(queue, c) /\ UNCHANGED <<front, live>> /\ front # c /\ \A i \in 1 .. Len(queue) : queue[i] # c
    BY <1>1, <1>4 DEF Raise, Shown, ToSet
  <2>2. /\ queue' \in Seq(Cards) /\ Len(queue') = Len(queue) + 1 /\ queue'[Len(queue) + 1] = c
        /\ \A i \in 1 .. Len(queue) : queue'[i] = queue[i]
    BY <1>1, <2>1
  <2>3. \A d : d \in ToSet(queue') <=> d \in ToSet(queue) \/ d = c
    BY <1>1, <2>2 DEF ToSet
  <2>4. \A i, j \in 1 .. Len(queue') : queue'[i] = queue'[j] => i = j
    BY <1>1, <2>1, <2>2 DEF StackedOnce
  <2> QED BY <1>1, <2>1, <2>2, <2>3, <2>4 DEF StackedOnce, Shown
<1> QED BY <1>2, <1>3, <1>4

\* A card is cleared, wherever it is, and the next one raised if it was in front.
LEMMA ClearIs ==
  ASSUME TerminalTypeOK, StackedOnce, NEW c \in Cards, Clear(c)
  PROVE  /\ front' \in Cards \cup {NoCard} /\ queue' \in Seq(Cards) /\ StackedOnce' /\ live' \in BOOLEAN
         /\ \A d \in Cards : d \in Shown' => d \in Shown /\ d # c
<1>1. front \in Cards \cup {NoCard} /\ queue \in Seq(Cards) /\ live \in BOOLEAN
  BY DEF TerminalTypeOK
<1>2. PICK rest : rest = RemoveFirst(queue, c)
  OBVIOUS
<1>3. /\ rest \in Seq(Cards) /\ ToSet(rest) \subseteq ToSet(queue) \ {c}
      /\ \A i, j \in 1 .. Len(rest) : rest[i] = rest[j] => i = j
  BY <1>1, <1>2, RemovedIs DEF StackedOnce
<1>4. front \notin ToSet(rest)
  BY <1>3 DEF StackedOnce
<1>5. CASE front # c
  <2>1. queue' = rest /\ UNCHANGED <<front, live>>
    BY <1>2, <1>5 DEF Clear
  <2> QED BY <1>1, <1>3, <1>4, <1>5, <2>1 DEF StackedOnce, Shown
<1>6. CASE front = c /\ rest = <<>>
  <2>1. front' = NoCard /\ queue' = <<>> /\ live' = FALSE
    BY <1>2, <1>6 DEF Clear
  <2>2. <<>> \in Seq(Cards) /\ 1 .. Len(<<>>) = {} /\ ToSet(<<>>) = {}
    BY DEF ToSet
  <2>3. queue' \in Seq(Cards) /\ StackedOnce'
    BY <2>1, <2>2 DEF StackedOnce
  <2>4. \A d \in Cards : d \notin Shown'
    BY <2>1, <2>2, StackAssumption DEF Shown
  <2> QED BY <2>1, <2>3, <2>4
<1>7. CASE front = c /\ rest # <<>>
  <2>1. front' = Head(rest) /\ queue' = Tail(rest) /\ live' = FALSE
    BY <1>2, <1>7 DEF Clear
  <2>2. /\ front' = rest[1] /\ rest[1] \in Cards /\ queue' \in Seq(Cards) /\ Len(queue') = Len(rest) - 1
        /\ 1 \in 1 .. Len(rest) /\ \A i \in 1 .. Len(queue') : queue'[i] = rest[i + 1] /\ i + 1 \in 1 .. Len(rest)
    BY <1>3, <1>7, <2>1
  <2>3. \A i, j \in 1 .. Len(queue') : queue'[i] = queue'[j] => i = j
    BY <1>3, <2>2
  <2>4. front' \in ToSet(rest) /\ ToSet(queue') \subseteq ToSet(rest) /\ front' \notin ToSet(queue')
    <3>1. DOMAIN rest = 1 .. Len(rest) /\ DOMAIN queue' = 1 .. Len(queue') /\ Len(rest) \in Nat
      BY <1>3, <2>2
    <3>2. \A i \in 1 .. Len(queue') : queue'[i] # rest[1]
      BY <1>3, <2>2, <3>1
    <3> QED BY <2>2, <3>1, <3>2 DEF ToSet
  <2> QED BY <1>3, <2>1, <2>2, <2>3, <2>4 DEF StackedOnce, Shown
<1> QED BY <1>5, <1>6, <1>7

\* The front end takes the first event.
LEMMA ReadTakes ==
  ASSUME BrokerInv, Read
  PROVE  /\ BrokerInv' /\ Len(feed) \in Nat /\ 1 \in 1 .. Len(feed) /\ Head(feed) = feed[1] /\ feed[1] \in Event /\ run' = run
         /\ Len(feed') = Len(feed) - 1
         /\ \A i \in 1 .. Len(feed') : feed'[i] = feed[i + 1] /\ i + 1 \in 1 .. Len(feed)
<1>1. BrokerInv'
  BY ReadKeeps
<1>2. feed \in Seq(Event) /\ feed # <<>> /\ feed' = Tail(feed) /\ run' = run
  BY DEF BrokerInv, BrokerTypeOK, Read
<1> HIDE DEF Event
<1> QED BY <1>1, <1>2

\* Every step of the runs beside the terminal publishes the events of its card in order.
LEMMA RunBesideStack ==
  ASSUME StackInv, NEW c \in Cards, RunStep(c), UNCHANGED terminalVars
  PROVE  StackInv'
<1> USE DEF StackInv
<1>1. BrokerInv' /\ feed \in Seq(Event) /\ run \in [Cards -> Points]
  BY RunKeeps DEF BrokerInv, BrokerTypeOK
<1>2. UNCHANGED <<front, queue, live, prompt, seen, opened, missed>>
  BY DEF terminalVars
<1>3. TerminalTypeOK' /\ StackedOnce' /\ Shown' = Shown
  BY <1>2 DEF TerminalTypeOK, StackedOnce, Shown
<1>4. CASE Ask(c) \/ Settle(c)
  <2>1. PICK kind \in {"asked", "settled"} :
          /\ feed' = Append(feed, [kind |-> kind, card |-> c])
          /\ kind = "asked" => run[c] = "before" /\ run'[c] = "waiting"
          /\ kind = "settled" => run[c] = "awake" /\ run'[c] = "after"
          /\ \A d \in Cards : d # c => run'[d] = run[d]
    BY <1>1, <1>4 DEF Ask, Settle, Publish, Goto
  <2>2. PICK e \in Event : e = [kind |-> kind, card |-> c]
    BY DEF Event
  <2>3. /\ Len(feed') = Len(feed) + 1 /\ Len(feed) \in Nat /\ feed'[Len(feed) + 1] = e
        /\ \A i \in 1 .. Len(feed) : feed'[i] = feed[i]
    <3> HIDE DEF Event
    <3> QED BY <1>1, <2>1, <2>2
  <2>4. ASSUME NEW i \in 1 .. Len(feed), feed[i].card = c
        PROVE  feed[i].kind = "asked" /\ kind = "settled"
    <3>1. feed[i] \in Event
      BY <1>1
    <3>2. feed[i] = [kind |-> "asked", card |-> c] \/ feed[i] = [kind |-> "settled", card |-> c]
      BY <2>4, <3>1 DEF Event
    <3>3. ~Settling(c)
      BY <2>1 DEF StackedInv
    <3>4. kind = "asked" => ~Requesting(c)
      BY <2>1 DEF StackedInv
    <3> QED BY <2>1, <3>2, <3>3, <3>4 DEF Requesting, Settling
  <2>5. EventsInOrder'
    BY <2>2, <2>3, <2>4 DEF EventsInOrder
  <2>6. /\ \A d \in Cards : d # c => (Requesting(d)' <=> Requesting(d)) /\ (Settling(d)' <=> Settling(d))
        /\ kind = "asked" => ~Settling(c)'
        /\ kind = "settled" => Settling(c)' /\ (Requesting(c)' => Requesting(c))
    <3>1. \A d \in Cards : d # c => e # [kind |-> "asked", card |-> d] /\ e # [kind |-> "settled", card |-> d]
      BY <2>2
    <3>2. kind = "asked" => e # [kind |-> "settled", card |-> c] /\ ~Settling(c)
      BY <2>1, <2>2 DEF StackedInv
    <3>3. kind = "settled" => e = [kind |-> "settled", card |-> c] /\ e # [kind |-> "asked", card |-> c]
      BY <2>2
    <3> QED BY <2>3, <3>1, <3>2, <3>3 DEF Requesting, Settling
  <2>7. StackedInv'
    BY <1>2, <1>3, <2>1, <2>6 DEF StackedInv
  <2> QED BY <1>1, <1>3, <2>5, <2>7
<1>5. CASE Hear(c) \/ TimeOut(c) \/ Drop(c)
  <2>1. /\ feed' = feed /\ run[c] = "waiting" /\ run'[c] \in {"awake", "dropped"}
        /\ \A d \in Cards : d # c => run'[d] = run[d]
    BY <1>1, <1>5 DEF Hear, TimeOut, Drop, Goto
  <2>2. EventsInOrder' /\ \A d \in Cards : (Requesting(d)' <=> Requesting(d)) /\ (Settling(d)' <=> Settling(d))
    BY <2>1 DEF EventsInOrder, Requesting, Settling
  <2>3. StackedInv'
    BY <1>2, <1>3, <2>1, <2>2 DEF StackedInv
  <2> QED BY <1>1, <1>3, <2>2, <2>3
<1> QED BY <1>4, <1>5 DEF RunStep

\* An event is taken from the feed, and its card raised or cleared, or the event is lost.
LEMMA StackReads ==
  ASSUME StackInv, DeliverNext \/ TerminalLag
  PROVE  StackInv'
<1> USE DEF StackInv
<1>1. PICK e \in Event : e = feed[1]
  BY ReadTakes DEF DeliverNext, TerminalLag
<1>2. /\ BrokerInv' /\ run' = run /\ Len(feed') = Len(feed) - 1 /\ Len(feed) \in Nat /\ 1 \in 1 .. Len(feed) /\ Head(feed) = e
      /\ \A i \in 1 .. Len(feed') : feed'[i] = feed[i + 1] /\ i + 1 \in 1 .. Len(feed)
  BY <1>1, ReadTakes DEF DeliverNext, TerminalLag
<1>3. e.card \in Cards /\ e.kind \in {"asked", "settled"} /\ e = [kind |-> e.kind, card |-> e.card]
  BY DEF Event
<1>4. EventsInOrder'
  <2> SUFFICES ASSUME NEW i \in 1 .. Len(feed'), NEW j \in 1 .. Len(feed'), i < j, feed'[i].card = feed'[j].card
               PROVE  feed'[i].kind = "asked" /\ feed'[j].kind = "settled"
    BY DEF EventsInOrder
  <2>1. i + 1 \in 1 .. Len(feed) /\ j + 1 \in 1 .. Len(feed) /\ i + 1 < j + 1 /\ feed'[i] = feed[i + 1] /\ feed'[j] = feed[j + 1]
    BY <1>2
  <2> QED BY <2>1 DEF EventsInOrder
<1>5. ASSUME NEW x, \E i \in 1 .. Len(feed') : feed'[i] = x
      PROVE  (\E i \in 1 .. Len(feed) : feed[i] = x) /\ (x.card = e.card => e.kind = "asked" /\ x.kind = "settled")
  <2>1. PICK i \in 1 .. Len(feed') : feed'[i] = x
    BY <1>5
  <2>2. i + 1 \in 1 .. Len(feed) /\ feed[i + 1] = x /\ 1 < i + 1
    BY <1>2, <2>1
  <2> QED BY <1>1, <1>2, <2>2 DEF EventsInOrder
<1>6. ASSUME NEW x, \E i \in 1 .. Len(feed) : feed[i] = x, x # e
      PROVE  \E i \in 1 .. Len(feed') : feed'[i] = x
  <2>1. PICK i \in 1 .. Len(feed) : feed[i] = x
    BY <1>6
  <2>2. i - 1 \in 1 .. Len(feed') /\ (i - 1) + 1 = i
    BY <1>1, <1>2, <1>6, <2>1
  <2> QED BY <1>2, <2>1, <2>2
<1>7. ASSUME NEW d \in Cards
      PROVE  /\ Requesting(d)' => Requesting(d) /\ d # e.card
             /\ Settling(d)' => Settling(d)
             /\ Settling(d) => Settling(d)' \/ (d = e.card /\ e.kind = "settled")
  <2>1. PICK a, b : a = [kind |-> "asked", card |-> d] /\ b = [kind |-> "settled", card |-> d]
    OBVIOUS
  <2>2. a.card = d /\ b.card = d /\ a.kind = "asked" /\ b.kind = "settled"
    BY <2>1
  <2>3. b = e => d = e.card /\ e.kind = "settled"
    BY <2>2
  <2>4. (Requesting(d) <=> \E i \in 1 .. Len(feed) : feed[i] = a) /\ (Settling(d) <=> \E i \in 1 .. Len(feed) : feed[i] = b)
    BY <2>1 DEF Requesting, Settling
  <2>5. /\ Requesting(d)' <=> \E i \in 1 .. Len(feed') : feed'[i] = a
        /\ Settling(d)' <=> \E i \in 1 .. Len(feed') : feed'[i] = b
    BY <2>1 DEF Requesting, Settling
  <2> QED BY <1>5, <1>6, <2>2, <2>3, <2>4, <2>5
<1>8. (e.kind = "asked" => Requesting(e.card)) /\ (e.kind = "settled" => Settling(e.card))
  BY <1>1, <1>2, <1>3 DEF Requesting, Settling
<1>9. CASE TerminalLag
  <2>1. missed' = missed \cup {e.card} /\ UNCHANGED <<front, queue, live, prompt, seen, opened>>
    BY <1>2, <1>9 DEF TerminalLag
  <2>2. TerminalTypeOK' /\ StackedOnce' /\ Shown' = Shown
    BY <1>3, <2>1 DEF TerminalTypeOK, StackedOnce, Shown
  <2>3. StackedInv'
    BY <1>2, <1>7, <2>1, <2>2 DEF StackedInv
  <2> QED BY <1>2, <1>4, <2>2, <2>3
<1>10. CASE DeliverNext /\ e.kind = "asked"
  <2>1. Raise(e.card) /\ UNCHANGED <<prompt, seen, opened, missed>>
    BY <1>2, <1>10 DEF DeliverNext
  <2>2. /\ front' \in Cards \cup {NoCard} /\ queue' \in Seq(Cards) /\ StackedOnce' /\ live' \in BOOLEAN
        /\ \A d \in Cards : d \in Shown' <=> d \in Shown \/ d = e.card
    BY <1>3, <2>1, RaiseIs
  <2>3. TerminalTypeOK'
    BY <2>1, <2>2 DEF TerminalTypeOK
  <2>4. StackedInv'
    BY <1>2, <1>3, <1>7, <1>8, <1>10, <2>1, <2>2 DEF StackedInv
  <2> QED BY <1>2, <1>4, <2>2, <2>3, <2>4
<1>11. CASE DeliverNext /\ e.kind = "settled"
  <2>1. Clear(e.card) /\ UNCHANGED <<prompt, seen, opened, missed>>
    BY <1>2, <1>11 DEF DeliverNext
  <2>2. /\ front' \in Cards \cup {NoCard} /\ queue' \in Seq(Cards) /\ StackedOnce' /\ live' \in BOOLEAN
        /\ \A d \in Cards : d \in Shown' => d \in Shown /\ d # e.card
    BY <1>3, <2>1, ClearIs
  <2>3. TerminalTypeOK'
    BY <2>1, <2>2 DEF TerminalTypeOK
  <2>4. StackedInv'
    BY <1>2, <1>3, <1>7, <1>8, <1>11, <2>1, <2>2 DEF StackedInv
  <2> QED BY <1>2, <1>4, <2>2, <2>3, <2>4
<1> QED BY <1>3, <1>9, <1>10, <1>11

\* Every step of the terminal keeps its stack.
LEMMA StackStep == StackInv /\ [TerminalNext]_stackVars => StackInv'
<1> SUFFICES ASSUME StackInv, [TerminalNext]_stackVars PROVE StackInv'  OBVIOUS
<1>1. BrokerInv'
  BY BrokerStep, TerminalIsAClient DEF StackInv, BrokerInv
<1>2. ASSUME UNCHANGED <<run, feed, front, queue, missed>>, TerminalTypeOK' PROVE StackInv'
  BY <1>1, <1>2 DEF StackInv, EventsInOrder, StackedOnce, StackedInv, Requesting, Settling, Shown
<1>3. CASE UNCHANGED stackVars
  BY <1>2, <1>3 DEF stackVars, brokerVars, terminalVars, StackInv, TerminalTypeOK
<1>4. CASE RunsBesideTerminal
  BY <1>4, RunBesideStack DEF RunsBesideTerminal
<1>5. CASE Arm \/ Disarm \/ OpenPrompt \/ ClosePrompt
  <2>1. TerminalTypeOK'
    BY <1>5 DEF Arm, Disarm, OpenPrompt, ClosePrompt, StackInv, TerminalTypeOK
  <2> QED BY <1>2, <1>5, <2>1 DEF Arm, Disarm, OpenPrompt, ClosePrompt, brokerVars
<1>6. CASE SubmitPrompt \/ \E a \in Answers : PressKey(a)
  <2>1. TerminalTypeOK'
    BY <1>6 DEF PressKey, SubmitPrompt, terminalVars, StackInv, TerminalTypeOK
  <2> QED BY <1>2, <1>6, <2>1 DEF PressKey, SubmitPrompt, Resolve, terminalVars
<1> QED BY <1>3, <1>4, <1>5, <1>6, StackReads DEF TerminalNext

\* What the invariant says of a card in the stack.
LEMMA StackIsAttended == StackInv => StackedCardIsAttended
<1> SUFFICES ASSUME StackInv, NEW c \in Shown \ {NoCard}
             PROVE  Attended(c) \/ c \in missed \/ run[c] = "dropped"
  BY DEF StackedCardIsAttended
<1>1. c \in Cards /\ run[c] \in Points
  BY DEF StackInv, BrokerInv, BrokerTypeOK, TerminalTypeOK, Shown, ToSet
<1>2. run[c] # "before" /\ (run[c] = "after" => Settling(c) \/ c \in missed)
  BY <1>1 DEF StackInv, StackedInv
<1>3. Settling(c) => \E i \in 1..Len(feed) : feed[i].kind = "settled" /\ feed[i].card = c
  BY DEF Settling
<1> QED BY <1>1, <1>2, <1>3 DEF Points, Attended

\* gates.ts:28 and state.rs:1988, for any number of cards raised and settled in any order: a card on
\* the terminal's stack is one a run waits on, or its settlement is on its way to the terminal, unless
\* the run was stopped under it or the channel dropped one of its events.
THEOREM StackedCardsAreAttended == TerminalSpec => []StackedCardIsAttended
BY StackInitOK, StackStep, StackIsAttended, PTL DEF TerminalSpec

-----------------------------------------------------------------------------
(* The window. *)

\* A card is requested once.
RequestedOnce ==
  \A i, j \in 1 .. Len(feed) : feed[i].kind = "asked" /\ feed[i] = feed[j] => i = j

\* A card not asked yet has left no trace; one on screen will not be raised again.
RaisedOnce ==
  \A c \in Cards :
    /\ run[c] = "before" => ~Requesting(c) /\ c \notin shown /\ \A a \in Answers : <<c, a>> \notin sent
    /\ c \in shown => ~Requesting(c)

\* A command whose claim is gone is for a card that is gone too, for good.
CommandInv ==
  \A c \in Cards, a \in Answers :
    <<c, a>> \in sent /\ c \notin pending => c \notin shown /\ ~Requesting(c)

Reached == shown \subseteq Cards /\ sent \subseteq Cards \X Answers

WindowInv ==
  BrokerInv /\ Reached /\ RequestedOnce /\ RaisedOnce /\ CommandInv /\ OneCommandPerCard
    /\ ClaimsGoWithTheirCard

LEMMA WindowInitOK == WindowInit => WindowInv
  BY BrokerInitOK
  DEF WindowInit, BrokerInit, WindowInv, Reached, RequestedOnce, RaisedOnce, CommandInv, Requesting,
      OneCommandPerCard, ClaimsGoWithTheirCard

\* An event leaves the feed: nothing is requested that was not, and the request that
\* arrived is not there twice.
LEMMA FeedShrinks ==
  ASSUME BrokerInv, RequestedOnce, NEW i \in 1 .. Len(feed), Arrives(i)
  PROVE  /\ BrokerInv' /\ RequestedOnce'
         /\ \A c \in Cards : Requesting(c)' => Requesting(c)
         /\ \A c \in Cards : feed[i] = [kind |-> "asked", card |-> c] => ~Requesting(c)'
<1> USE DEF Arrives
<1>1. feed \in Seq(Event)
  BY DEF BrokerInv, BrokerTypeOK
<1>2. /\ feed' \in Seq(Event) /\ Len(feed') = Len(feed) - 1
      /\ \A j \in 1 .. Len(feed) - 1 : feed'[j] = IF j < i THEN feed[j] ELSE feed[j + 1]
  BY <1>1, Removed
<1>3. BrokerInv'
  BY <1>2 DEF BrokerInv, BrokerTypeOK, ParkedInv, HeardInv, AnswerArrivesOnce
<1> DEFINE from(j) == IF j < i THEN j ELSE j + 1
<1>4. ASSUME NEW j \in 1 .. Len(feed')
      PROVE  from(j) \in 1 .. Len(feed) /\ from(j) # i /\ feed'[j] = feed[from(j)]
  BY <1>1, <1>2
<1>5. \A j, k \in 1 .. Len(feed') : from(j) = from(k) => j = k
  BY <1>1, <1>2
<1> HIDE DEF from
<1>6. RequestedOnce'
  BY <1>4, <1>5 DEF RequestedOnce
<1>7. \A c \in Cards : Requesting(c)' => Requesting(c)
  BY <1>4 DEF Requesting
<1>8. \A c \in Cards : feed[i] = [kind |-> "asked", card |-> c] => ~Requesting(c)'
  BY <1>4 DEF Requesting, RequestedOnce
<1> QED BY <1>3, <1>6, <1>7, <1>8

\* A run's own step, seen from the window.
LEMMA RunBeside ==
  ASSUME WindowInv, NEW c \in Cards, RunStep(c), UNCHANGED windowVars
  PROVE  WindowInv'
<1> USE DEF WindowInv, windowVars
<1>1. BrokerInv'
  BY RunKeeps
<1>2. feed \in Seq(Event)
  BY DEF BrokerInv, BrokerTypeOK
<1>3. Reached' /\ OneCommandPerCard' /\ ClaimsGoWithTheirCard'
  BY DEF Reached, OneCommandPerCard, ClaimsGoWithTheirCard
<1>4. CASE Ask(c)
  <2>1. feed' = Append(feed, [kind |-> "asked", card |-> c]) /\ run[c] = "before"
    BY <1>4 DEF Ask, Publish
  <2>2. RequestedOnce'
    BY <1>2, <2>1 DEF RequestedOnce, RaisedOnce, Requesting
  <2>3. \A d \in Cards : d # c => (Requesting(d)' => Requesting(d))
    BY <1>2, <2>1 DEF Requesting
  <2>4. \A d \in Cards : run'[d] = "before" => run[d] = "before" /\ d # c
    BY <1>4 DEF Ask, Goto, BrokerInv, BrokerTypeOK
  <2>5. RaisedOnce' /\ CommandInv'
    BY <2>1, <2>3, <2>4 DEF RaisedOnce, CommandInv
  <2> QED BY <1>1, <1>3, <2>2, <2>5
<1>5. CASE Hear(c) \/ TimeOut(c) \/ Settle(c) \/ Drop(c)
  <2>1. feed' = feed \/ feed' = Append(feed, [kind |-> "settled", card |-> c])
    BY <1>5 DEF Hear, TimeOut, Settle, Drop, Publish
  <2>2. RequestedOnce' /\ \A d \in Cards : Requesting(d)' => Requesting(d)
    BY <1>2, <2>1 DEF RequestedOnce, Requesting
  <2>3. \A d \in Cards : run'[d] = "before" => run[d] = "before"
    BY <1>5 DEF Hear, TimeOut, Settle, Drop, Goto, BrokerInv, BrokerTypeOK
  <2>4. RaisedOnce' /\ CommandInv'
    BY <2>2, <2>3 DEF RaisedOnce, CommandInv
  <2> QED BY <1>1, <1>3, <2>2, <2>4
<1> QED BY <1>4, <1>5 DEF RunStep

\* An event arrives, in whatever order, or is lost.
LEMMA EventStep ==
  ASSUME WindowInv, NEW i \in 1 .. Len(feed), DeliverAny(i) \/ WindowLag(i)
  PROVE  WindowInv'
<1> USE DEF WindowInv
<1>1. Arrives(i) /\ UNCHANGED <<sent, run>>
  BY DEF DeliverAny, WindowLag, Arrives
<1>2. /\ BrokerInv' /\ RequestedOnce'
      /\ \A c \in Cards : Requesting(c)' => Requesting(c)
  BY <1>1, FeedShrinks
<1>3. CASE UNCHANGED <<shown, pending>>
  BY <1>1, <1>2, <1>3 DEF Reached, RaisedOnce, CommandInv, OneCommandPerCard, ClaimsGoWithTheirCard
<1>4. ASSUME NEW c \in Cards, feed[i] = [kind |-> "asked", card |-> c],
             shown' = shown \cup {c}, pending' = pending
      PROVE  WindowInv'
  <2>1. Requesting(c) /\ ~Requesting(c)'
    BY <1>1, <1>4, FeedShrinks DEF Requesting
  <2>2. run[c] # "before"
    BY <2>1 DEF RaisedOnce
  <2>3. \A a \in Answers : <<c, a>> \in sent => c \in pending
    BY <2>1 DEF CommandInv
  <2>4. RaisedOnce'
    BY <1>1, <1>2, <1>4, <2>1, <2>2 DEF RaisedOnce
  <2>5. CommandInv'
    BY <1>1, <1>2, <1>4, <2>3 DEF CommandInv
  <2> QED BY <1>1, <1>2, <1>4, <2>4, <2>5 DEF Reached, OneCommandPerCard, ClaimsGoWithTheirCard
<1>5. ASSUME NEW c \in shown, shown' = shown \ {c}, pending' = pending \ {c} PROVE WindowInv'
  <2>1. c \in Cards /\ ~Requesting(c)
    BY DEF Reached, RaisedOnce
  <2> QED
    BY <1>1, <1>2, <1>5, <2>1
    DEF Reached, RaisedOnce, CommandInv, OneCommandPerCard, ClaimsGoWithTheirCard
<1>6. feed[i] \in Event
  BY DEF BrokerInv, BrokerTypeOK
<1>7. CASE WindowLag(i)
  BY <1>3, <1>7 DEF WindowLag
<1>8. CASE DeliverAny(i) /\ feed[i].kind = "asked"
  <2>1. feed[i] = [kind |-> "asked", card |-> feed[i].card] /\ feed[i].card \in Cards
    BY <1>6, <1>8 DEF Event
  <2> QED BY <1>3, <1>4, <1>8, <2>1 DEF DeliverAny, Requested
<1>9. CASE DeliverAny(i) /\ feed[i].kind # "asked"
  BY <1>3, <1>5, <1>9 DEF DeliverAny, Resolved
<1> QED BY <1>7, <1>8, <1>9

\* The user presses a button; the command arrives, or fails on its way; another
\* surface answers.
LEMMA AnswerStep ==
  ASSUME WindowInv, NEW c \in Cards, NEW a \in Answers,
         PressButton(c, a) \/ Command(c, a) \/ CommandFails(c, a) \/ Elsewhere(c, a)
  PROVE  WindowInv'
<1> USE DEF WindowInv
<1>1. BrokerInv' /\ UNCHANGED <<feed, run>>
  <2>1. Resolve(c, a) => BrokerInv' /\ UNCHANGED <<feed, run>>
    BY ResolveKeeps DEF Resolve
  <2>2. UNCHANGED brokerVars => BrokerInv' /\ UNCHANGED <<feed, run>>
    BY BrokerStep DEF brokerVars
  <2> QED BY <2>1, <2>2 DEF PressButton, Command, CommandFails, Elsewhere
<1>2. RequestedOnce' /\ \A d \in Cards : Requesting(d)' <=> Requesting(d)
  BY <1>1 DEF RequestedOnce, Requesting
<1>3. CASE PressButton(c, a)
  <2>1. shown' = shown /\ c \in shown /\ c \notin pending /\ pending' = pending \cup {c}
        /\ sent' = sent \cup {<<c, a>>}
    BY <1>3 DEF PressButton
  <2>2. run[c] # "before" /\ \A b \in Answers : <<c, b>> \notin sent
    BY <2>1 DEF RaisedOnce, CommandInv
  <2>3. Reached' /\ RaisedOnce' /\ CommandInv' /\ ClaimsGoWithTheirCard'
    BY <1>1, <1>2, <2>1, <2>2 DEF Reached, RaisedOnce, CommandInv, ClaimsGoWithTheirCard
  <2>4. OneCommandPerCard'
    BY <2>1, <2>2 DEF OneCommandPerCard, Answers
  <2> QED BY <1>1, <1>2, <2>3, <2>4
<1>4. CASE Command(c, a) \/ Elsewhere(c, a)
  <2>1. shown' = shown /\ pending' = pending /\ sent' \subseteq sent
    BY <1>4 DEF Command, Elsewhere, windowVars
  <2> QED
    BY <1>1, <1>2, <2>1 DEF Reached, RaisedOnce, CommandInv, OneCommandPerCard, ClaimsGoWithTheirCard
<1>5. CASE CommandFails(c, a)
  <2>1. /\ shown' = shown /\ pending' = pending \ {c} /\ sent' = sent \ {<<c, a>>}
        /\ <<c, a>> \in sent
    BY <1>5 DEF CommandFails
  <2>2. \A b \in Answers : <<c, b>> \notin sent'
    BY <2>1 DEF OneCommandPerCard, Answers
  <2> QED
    BY <1>1, <1>2, <2>1, <2>2
    DEF Reached, RaisedOnce, CommandInv, OneCommandPerCard, ClaimsGoWithTheirCard
<1> QED BY <1>3, <1>4, <1>5

LEMMA WindowStep == WindowInv /\ [WindowNext]_webVars => WindowInv'
<1> SUFFICES ASSUME WindowInv, [WindowNext]_webVars PROVE WindowInv'  OBVIOUS
<1>1. CASE UNCHANGED webVars
  BY <1>1, BrokerStep
  DEF webVars, brokerVars, windowVars, WindowInv, Reached, RequestedOnce, RaisedOnce, CommandInv, Requesting,
      OneCommandPerCard, ClaimsGoWithTheirCard
<1>2. CASE RunsBesideWindow
  BY <1>2, RunBeside DEF RunsBesideWindow
<1> QED BY <1>1, <1>2, EventStep, AnswerStep DEF WindowNext

\* store.ts:163 and gates.ts.  For any number of cards, with events in any order and
\* some of them lost: a window has one command for a card on its way at most, and a
\* claim lives no longer than its card.
THEOREM WindowSendsOneCommand == WindowSpec => [](OneCommandPerCard /\ ClaimsGoWithTheirCard)
<1>1. WindowInv => OneCommandPerCard /\ ClaimsGoWithTheirCard
  BY DEF WindowInv
<1> QED BY <1>1, WindowInitOK, WindowStep, PTL DEF WindowSpec

-----------------------------------------------------------------------------
(* What the window shows. *)

\* A card settles once.
SettledOnce ==
  \A i, j \in 1 .. Len(feed) : feed[i].kind = "settled" /\ feed[i] = feed[j] => i = j

\* A resolve is published for a settled card, is applied or remembered when it arrives, and keeps its
\* card off the screen as long as it is remembered.
ResolvedInv ==
  \A c \in Cards :
    /\ Settling(c) => run[c] = "after"
    /\ c \in ToSet(settled) => run[c] = "after" /\ ~Settling(c) /\ c \notin shown
    /\ run[c] = "after" /\ (c \in shown \/ Requesting(c)) => Settling(c) \/ c \in ToSet(settled) \/ c \in lost

Remembered == settled \in Seq(Cards) /\ Len(settled) <= SettledLimit /\ lost \subseteq Cards

ShownInv == WindowInv /\ Remembered /\ SettledOnce /\ ResolvedInv

LEMMA ShownInitOK == WindowInit => ShownInv
<1> SUFFICES ASSUME WindowInit PROVE ShownInv  OBVIOUS
<1>1. <<>> \in Seq(Cards) /\ Len(<<>>) = 0 /\ 1 .. Len(<<>>) = {} /\ ToSet(<<>>) = {}
  BY DEF ToSet
<1>2. feed = <<>> /\ settled = <<>> /\ lost = {} /\ shown = {}
  BY DEF WindowInit, BrokerInit
<1>3. Remembered /\ SettledOnce /\ ResolvedInv
  BY <1>1, <1>2, WindowAssumption DEF Remembered, SettledOnce, ResolvedInv, Settling, Requesting
<1> QED BY <1>3, WindowInitOK DEF ShownInv

\* A run's own step publishes the resolve of its card when it has settled.
LEMMA RunBesideShown ==
  ASSUME ShownInv, NEW c \in Cards, RunStep(c), UNCHANGED windowVars
  PROVE  ShownInv'
<1> USE DEF ShownInv
<1>1. WindowInv' /\ feed \in Seq(Event) /\ run \in [Cards -> Points]
  BY RunBeside DEF WindowInv, BrokerInv, BrokerTypeOK
<1>2. UNCHANGED <<shown, settled, lost>> /\ Remembered'
  BY DEF windowVars, Remembered
<1>3. CASE Ask(c) \/ Settle(c)
  <2>1. PICK kind \in {"asked", "settled"} :
          /\ feed' = Append(feed, [kind |-> kind, card |-> c])
          /\ kind = "asked" => run[c] = "before" /\ run'[c] = "waiting"
          /\ kind = "settled" => run[c] = "awake" /\ run'[c] = "after"
          /\ \A d \in Cards : d # c => run'[d] = run[d]
    BY <1>1, <1>3 DEF Ask, Settle, Publish, Goto
  <2>2. PICK e \in Event : e = [kind |-> kind, card |-> c]
    BY DEF Event
  <2>3. /\ Len(feed') = Len(feed) + 1 /\ Len(feed) \in Nat /\ feed'[Len(feed) + 1] = e
        /\ \A i \in 1 .. Len(feed) : feed'[i] = feed[i]
    <3> HIDE DEF Event
    <3> QED BY <1>1, <2>1, <2>2
  <2>4. ~Settling(c)
    BY <2>1 DEF ResolvedInv
  <2>5. SettledOnce'
    <3>1. \A i \in 1 .. Len(feed) : e.kind = "settled" => feed[i] # e
      BY <2>2, <2>4 DEF Settling
    <3> QED BY <2>3, <3>1 DEF SettledOnce
  <2>6. /\ \A d \in Cards : d # c => (Requesting(d)' <=> Requesting(d)) /\ (Settling(d)' <=> Settling(d))
        /\ kind = "asked" => ~Settling(c)'
        /\ kind = "settled" => Settling(c)'
    <3>1. \A d \in Cards : d # c => e # [kind |-> "asked", card |-> d] /\ e # [kind |-> "settled", card |-> d]
      BY <2>2
    <3>2. kind = "asked" => e # [kind |-> "settled", card |-> c]
      BY <2>2
    <3>3. kind = "settled" => e = [kind |-> "settled", card |-> c]
      BY <2>2
    <3> QED BY <2>3, <2>4, <3>1, <3>2, <3>3 DEF Requesting, Settling
  <2>7. c \notin ToSet(settled)
    BY <2>1 DEF ResolvedInv
  <2>8. ResolvedInv'
    BY <1>2, <2>1, <2>6, <2>7 DEF ResolvedInv
  <2> QED BY <1>1, <1>2, <2>5, <2>8
<1>4. CASE Hear(c) \/ TimeOut(c) \/ Drop(c)
  <2>1. /\ feed' = feed /\ run[c] = "waiting" /\ run'[c] \in {"awake", "dropped"}
        /\ \A d \in Cards : d # c => run'[d] = run[d]
    BY <1>1, <1>4 DEF Hear, TimeOut, Drop, Goto
  <2>2. SettledOnce' /\ \A d \in Cards : (Requesting(d)' <=> Requesting(d)) /\ (Settling(d)' <=> Settling(d))
    BY <2>1 DEF SettledOnce, Requesting, Settling
  <2>3. ResolvedInv'
    BY <1>2, <2>1, <2>2 DEF ResolvedInv
  <2> QED BY <1>1, <1>2, <2>2, <2>3
<1> QED BY <1>3, <1>4 DEF RunStep

\* An event leaves the feed: what else is in it stays.
LEMMA FeedLoses ==
  ASSUME BrokerInv, SettledOnce, NEW i \in 1 .. Len(feed), Arrives(i)
  PROVE  /\ SettledOnce'
         /\ \A c \in Cards : Settling(c)' => Settling(c) /\ feed[i] # [kind |-> "settled", card |-> c]
         /\ \A c \in Cards : Settling(c) => Settling(c)' \/ feed[i] = [kind |-> "settled", card |-> c]
<1>1. feed \in Seq(Event) /\ feed' = RemoveAt(feed, i)
  BY DEF BrokerInv, BrokerTypeOK, Arrives
<1>2. /\ feed' \in Seq(Event) /\ Len(feed') = Len(feed) - 1
      /\ \A j \in 1 .. Len(feed) - 1 : feed'[j] = IF j < i THEN feed[j] ELSE feed[j + 1]
  BY <1>1, Removed
<1> DEFINE from(j) == IF j < i THEN j ELSE j + 1
<1>3. ASSUME NEW j \in 1 .. Len(feed')
      PROVE  from(j) \in 1 .. Len(feed) /\ from(j) # i /\ feed'[j] = feed[from(j)]
  BY <1>1, <1>2
<1>4. \A j, k \in 1 .. Len(feed') : from(j) = from(k) => j = k
  BY <1>1, <1>2
<1>5. ASSUME NEW j \in 1 .. Len(feed), j # i PROVE \E k \in 1 .. Len(feed') : from(k) = j
  <2>1. CASE j < i
    <3>1. j \in 1 .. Len(feed') /\ from(j) = j BY <1>1, <1>2, <2>1
    <3> QED BY <3>1
  <2>2. CASE j > i
    <3>1. j - 1 \in 1 .. Len(feed') /\ from(j - 1) = j BY <1>1, <1>2, <2>2
    <3> QED BY <3>1
  <2> QED BY <1>1, <1>5, <2>1, <2>2
<1> HIDE DEF from
<1>6. SettledOnce'
  BY <1>3, <1>4 DEF SettledOnce
<1>7. ASSUME NEW c \in Cards, Settling(c)' PROVE Settling(c) /\ feed[i] # [kind |-> "settled", card |-> c]
  BY <1>3, <1>7 DEF Settling, SettledOnce
<1>8. ASSUME NEW c \in Cards, Settling(c), feed[i] # [kind |-> "settled", card |-> c] PROVE Settling(c)'
  BY <1>3, <1>5, <1>8 DEF Settling
<1> QED BY <1>6, <1>7, <1>8

\* An event arrives, in whatever order, or is lost.
LEMMA ShownEvent ==
  ASSUME ShownInv, NEW i \in 1 .. Len(feed), DeliverAny(i) \/ WindowLag(i)
  PROVE  ShownInv'
<1> USE DEF ShownInv
<1>1. Arrives(i) /\ run' = run /\ BrokerInv /\ RequestedOnce /\ WindowInv' /\ feed[i] \in Event
  BY EventStep DEF DeliverAny, WindowLag, Arrives, WindowInv, BrokerInv, BrokerTypeOK
<1>2. PICK e \in Event : e = feed[i]
  BY <1>1
<1>3. e.card \in Cards /\ e.kind \in {"asked", "settled"} /\ e = [kind |-> e.kind, card |-> e.card]
  BY DEF Event
<1>4. \A c \in Cards : /\ Requesting(c)' => Requesting(c)
                       /\ e = [kind |-> "asked", card |-> c] => ~Requesting(c)'
  BY <1>1, <1>2, FeedShrinks
<1>5. /\ SettledOnce'
      /\ \A c \in Cards : Settling(c)' => Settling(c) /\ e # [kind |-> "settled", card |-> c]
      /\ \A c \in Cards : Settling(c) => Settling(c)' \/ e = [kind |-> "settled", card |-> c]
  BY <1>1, <1>2, FeedLoses
<1>6. (e.kind = "asked" => Requesting(e.card)) /\ (e.kind = "settled" => Settling(e.card))
  BY <1>2, <1>3 DEF Requesting, Settling
<1>7. \A c \in Cards : e = [kind |-> "settled", card |-> c] <=> e.kind = "settled" /\ c = e.card
  BY <1>3
<1>8. settled \in Seq(Cards) /\ Len(settled) <= SettledLimit /\ lost \subseteq Cards
  BY DEF Remembered
<1>9. CASE WindowLag(i)
  <2>1. lost' = lost \cup {e.card} /\ UNCHANGED <<shown, settled>>
    BY <1>2, <1>9 DEF WindowLag
  <2>2. Remembered'
    BY <1>3, <2>1 DEF Remembered
  <2>3. ResolvedInv'
    BY <1>1, <1>4, <1>5, <1>7, <2>1 DEF ResolvedInv
  <2> QED BY <1>1, <1>5, <2>2, <2>3
<1>10. CASE DeliverAny(i) /\ e.kind = "asked" /\ Contains(settled, e.card)
  <2>1. settled' = RemoveFirst(settled, e.card) /\ UNCHANGED <<shown, lost>>
    BY <1>2, <1>10 DEF DeliverAny, Requested
  <2>2. /\ settled' \in Seq(Cards) /\ Len(settled') <= Len(settled) /\ Len(settled) \in Nat /\ Len(settled') \in Nat
        /\ ToSet(settled') \subseteq ToSet(settled) /\ ToSet(settled) \ {e.card} \subseteq ToSet(settled')
    BY <1>8, <2>1, RemovedIs
  <2>3. Remembered'
    BY <1>8, <2>1, <2>2, WindowAssumption DEF Remembered
  <2>4. e.card \in ToSet(settled)
    BY <1>8, <1>10 DEF Contains, ToSet
  <2>5. e.card \notin shown /\ ~Requesting(e.card)'
    BY <1>3, <1>4, <1>10, <2>4 DEF ResolvedInv
  <2>6. ResolvedInv'
    BY <1>1, <1>4, <1>5, <1>7, <1>10, <2>1, <2>2, <2>5 DEF ResolvedInv
  <2> QED BY <1>1, <1>5, <2>3, <2>6
<1>11. CASE DeliverAny(i) /\ e.kind = "asked" /\ ~Contains(settled, e.card)
  <2>1. shown' = shown \cup {e.card} /\ UNCHANGED <<settled, lost>>
    BY <1>2, <1>11 DEF DeliverAny, Requested
  <2>2. Remembered'
    BY <2>1 DEF Remembered
  <2>3. e.card \notin ToSet(settled)
    BY <1>8, <1>11 DEF Contains, ToSet
  <2>4. ResolvedInv'
    BY <1>1, <1>4, <1>5, <1>6, <1>7, <1>11, <2>1, <2>3 DEF ResolvedInv
  <2> QED BY <1>1, <1>5, <2>2, <2>4
<1>12. CASE DeliverAny(i) /\ e.kind = "settled" /\ e.card \in shown
  <2>1. shown' = shown \ {e.card} /\ UNCHANGED <<settled, lost>>
    BY <1>2, <1>12 DEF DeliverAny, Resolved
  <2>2. Remembered'
    BY <2>1 DEF Remembered
  <2>3. ~Requesting(e.card)
    BY <1>3, <1>12 DEF WindowInv, RaisedOnce
  <2>4. ResolvedInv'
    BY <1>1, <1>4, <1>5, <1>7, <2>1, <2>3 DEF ResolvedInv
  <2> QED BY <1>1, <1>5, <2>2, <2>4
<1>13. CASE DeliverAny(i) /\ e.kind = "settled" /\ e.card \notin shown
  <2>1. PICK all : all = <<e.card>> \o RemoveFirst(settled, e.card)
    OBVIOUS
  <2>2. PICK n : n = IF Len(all) < SettledLimit THEN Len(all) ELSE SettledLimit
    OBVIOUS
  <2>3. settled' = SubSeq(all, 1, n) /\ lost' = lost \cup (ToSet(all) \ ToSet(settled')) /\ shown' = shown
    BY <1>2, <1>13, <2>1, <2>2 DEF DeliverAny, Resolved
  <2>4. /\ all \in Seq(Cards) /\ Len(all) \in Nat /\ ToSet(settled) \cup {e.card} \subseteq ToSet(all)
        /\ ToSet(all) \subseteq ToSet(settled) \cup {e.card}
    <3>1. PICK rest \in Seq(Cards) : /\ rest = RemoveFirst(settled, e.card) /\ ToSet(rest) \subseteq ToSet(settled)
                                     /\ ToSet(settled) \ {e.card} \subseteq ToSet(rest)
      BY <1>8, RemovedIs
    <3>2. all = <<e.card>> \o rest /\ <<e.card>> \in Seq(Cards)
      BY <1>3, <2>1, <3>1
    <3>3. /\ all \in Seq(Cards) /\ Len(all) = Len(rest) + 1 /\ Len(rest) \in Nat /\ all[1] = e.card
          /\ \A j \in 1 .. Len(rest) : all[j + 1] = rest[j]
          /\ \A j \in 2 .. Len(all) : all[j] = rest[j - 1] /\ j - 1 \in 1 .. Len(rest)
      BY <3>1, <3>2
    <3>4. \A x \in ToSet(all) : x = e.card \/ x \in ToSet(rest)
      BY <3>1, <3>3 DEF ToSet
    <3>5. e.card \in ToSet(all) /\ \A x \in ToSet(rest) : x \in ToSet(all)
      <4>1. 1 \in DOMAIN all /\ \A j \in DOMAIN rest : j + 1 \in DOMAIN all /\ j \in 1 .. Len(rest) BY <3>1, <3>3
      <4> QED BY <3>3, <4>1 DEF ToSet
    <3> QED BY <3>1, <3>3, <3>4, <3>5
  <2>5. n \in 0 .. Len(all) /\ n <= SettledLimit
    BY <2>2, <2>4, WindowAssumption
  <2>6. /\ settled' \in Seq(Cards) /\ Len(settled') = n /\ \A j \in 1 .. n : settled'[j] = all[j]
    BY <2>3, <2>4, <2>5
  <2>7. ToSet(settled') \subseteq ToSet(all)
    BY <2>4, <2>5, <2>6 DEF ToSet
  <2>8. ToSet(settled') \subseteq ToSet(settled) \cup {e.card} /\ ToSet(settled) \cup {e.card} \subseteq ToSet(settled') \cup lost'
    BY <2>3, <2>4, <2>7
  <2>9. Remembered'
    <3>1. ToSet(all) \subseteq Cards
      BY <2>4 DEF ToSet
    <3> QED BY <1>8, <2>3, <2>5, <2>6, <3>1 DEF Remembered
  <2>10. run[e.card] = "after"
    BY <1>3, <1>6, <1>13 DEF ResolvedInv
  <2>11. ResolvedInv'
    BY <1>1, <1>3, <1>4, <1>5, <1>7, <1>13, <2>3, <2>8, <2>10 DEF ResolvedInv
  <2> QED BY <1>1, <1>5, <2>9, <2>11
<1> QED BY <1>2, <1>3, <1>9, <1>10, <1>11, <1>12, <1>13

\* Every step of the window.
LEMMA ShownStep == ShownInv /\ [WindowNext]_webVars => ShownInv'
<1> SUFFICES ASSUME ShownInv, [WindowNext]_webVars PROVE ShownInv'  OBVIOUS
<1>1. WindowInv'
  BY WindowStep DEF ShownInv
<1>2. ASSUME UNCHANGED <<run, feed, shown, settled, lost>> PROVE ShownInv'
  BY <1>1, <1>2 DEF ShownInv, Remembered, SettledOnce, ResolvedInv, Requesting, Settling
<1>3. CASE UNCHANGED webVars
  BY <1>2, <1>3 DEF webVars, brokerVars, windowVars
<1>4. CASE RunsBesideWindow
  BY <1>4, RunBesideShown DEF RunsBesideWindow
<1>5. ASSUME NEW c \in Cards, NEW a \in Answers,
             PressButton(c, a) \/ Command(c, a) \/ CommandFails(c, a) \/ Elsewhere(c, a)
      PROVE  ShownInv'
  BY <1>2, <1>5 DEF PressButton, Command, CommandFails, Elsewhere, Resolve, brokerVars, windowVars
<1> QED BY <1>3, <1>4, <1>5, ShownEvent DEF WindowNext

\* What the invariant says of a card on screen.
LEMMA ShownIsAttended == ShownInv => ShownCardIsAttended
<1> SUFFICES ASSUME ShownInv, NEW c \in shown
             PROVE  run[c] \in {"waiting", "awake", "dropped"} \/ c \in lost \/ Settling(c)
  BY DEF ShownCardIsAttended, Settling
<1>1. c \in Cards /\ run[c] \in Points
  BY DEF ShownInv, WindowInv, Reached, BrokerInv, BrokerTypeOK
<1>2. run[c] # "before" /\ c \notin ToSet(settled)
  BY <1>1 DEF ShownInv, WindowInv, RaisedOnce, ResolvedInv
<1> QED BY <1>1, <1>2 DEF ShownInv, ResolvedInv, Points

\* What is on screen, claimed, remembered and sent is of cards.
LEMMA WindowTypes == ShownInv => WindowTypeOK
BY DEF ShownInv, Remembered, WindowInv, Reached, ClaimsGoWithTheirCard, WindowTypeOK

\* gates.ts:28, for any number of cards, with events in any order and a memory of any size: a card on
\* screen is one a run waits on, or its resolve is on its way, unless the run was stopped under it or
\* the channel, or the window's memory of early resolves, lost one of its events.
THEOREM ShownCardsAreAttended == WindowSpec => []ShownCardIsAttended
BY ShownInitOK, ShownStep, ShownIsAttended, PTL DEF WindowSpec

-----------------------------------------------------------------------------
(* The broker with each of its surfaces. *)

\* Whoever answers, the broker's invariant; of the terminal and the window, their own.
CardsInv ==
  /\ BrokerInv /\ TerminalTypeOK /\ WindowTypeOK
  /\ surface = "terminal" => LiveInv /\ StackInv
  /\ surface = "window" => ShownInv

\* Every step of whichever surface it is.
LEMMA CardsStep == CardsInv /\ [CardsNext]_cardVars => CardsInv'
<1> SUFFICES ASSUME CardsInv, [CardsNext]_cardVars PROVE CardsInv'  OBVIOUS
<1> USE DEF CardsInv
<1>1. surface' = surface
  BY DEF CardsNext, cardVars
<1>2. UNCHANGED terminalVars => TerminalTypeOK'
  BY DEF terminalVars, TerminalTypeOK
<1>3. UNCHANGED windowVars => WindowTypeOK'
  BY DEF windowVars, WindowTypeOK
<1>4. CASE UNCHANGED cardVars
  <2>1. UNCHANGED stackVars /\ UNCHANGED webVars /\ UNCHANGED brokerVars /\ UNCHANGED terminalVars /\ UNCHANGED windowVars
    BY <1>4 DEF cardVars, stackVars, webVars
  <2>2. BrokerInv'
    BY <2>1, BrokerStep
  <2> QED BY <1>1, <1>2, <1>3, <2>1, <2>2, TerminalStep, StackStep, ShownStep DEF BrokerInv
<1>5. CASE surface = "any" /\ BrokerNext /\ UNCHANGED <<terminalVars, windowVars>>
  BY <1>1, <1>2, <1>3, <1>5, BrokerStep
<1>6. CASE surface = "terminal" /\ TerminalNext /\ UNCHANGED windowVars
  BY <1>1, <1>3, <1>6, TerminalStep, StackStep DEF BrokerInv, StackInv
<1>7. CASE surface = "window" /\ WindowNext /\ UNCHANGED terminalVars
  <2>1. ShownInv'
    BY <1>7, ShownStep
  <2>2. WindowTypeOK'
    BY <2>1 DEF ShownInv, Remembered, WindowInv, Reached, ClaimsGoWithTheirCard, WindowTypeOK
  <2> QED BY <1>1, <1>2, <1>7, <2>1, <2>2 DEF ShownInv, WindowInv
<1> QED BY <1>4, <1>5, <1>6, <1>7 DEF CardsNext

\* The inductive invariant of the broker and its surfaces.
THEOREM CardsInvariant == CardsSpec => []CardsInv
<1>1. CardsInit => CardsInv
  <2> SUFFICES ASSUME CardsInit PROVE CardsInv  OBVIOUS
  <2>1. StackInv /\ LiveInv /\ ShownInv
    BY StackInitOK, TerminalInitOK, ShownInitOK DEF CardsInit
  <2> QED BY <2>1, WindowTypes DEF CardsInv, StackInv
<1> QED BY <1>1, CardsStep, PTL DEF CardsSpec

\* The types of the broker and of both surfaces.
THEOREM CardsHaveTypes == CardsSpec => []CardsTypeOK
<1>1. CardsInv => CardsTypeOK
  BY DEF CardsInv, CardsTypeOK, BrokerInv
<1> QED BY <1>1, CardsInvariant, PTL

\* keys.rs:253-272, state.rs:2512-2619, 3455-3467: where the terminal is the surface, a key or words
\* meant for one card never answer another.
THEOREM CardsAnsweredWereMeant == CardsSpec => []TerminalAnswersWereMeant
<1>1. CardsInv => TerminalAnswersWereMeant
  BY DEF CardsInv, LiveInv, TerminalAnswersWereMeant
<1> QED BY <1>1, CardsInvariant, PTL

\* gates.ts:28: neither surface keeps up a card that nothing waits on, outside the losses each names.
THEOREM CardsStayAttended == CardsSpec => []CardsOnScreenAreAttended
<1>1. CardsInv => CardsOnScreenAreAttended
  BY StackIsAttended, ShownIsAttended DEF CardsInv, CardsOnScreenAreAttended
<1> QED BY <1>1, CardsInvariant, PTL
=============================================================================
