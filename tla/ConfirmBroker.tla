--------------------------- MODULE ConfirmBroker ---------------------------
(***************************************************************************)
(* The confirm broker of crates/neo-agent/src/confirm.rs: a run that needs *)
(* a person parks a card, publishes it and waits; front ends answer by id. *)
(*                                                                         *)
(* A card is one call of confirm or of ask_user.  "yes" is a confirmation  *)
(* or an answer, "no" a denial or cancel_ask, "silence" what the run makes *)
(* of a wait nobody ended.  Front ends name a card of the right kind: the  *)
(* ids are typed, so the re-park of a wrong one is not reachable.          *)
(***************************************************************************)
EXTENDS Naturals, Sequences

CONSTANTS Cards, Nothing

Answers == {"yes", "no"}
ASSUME BrokerAssumption == Nothing \notin Answers \cup {"silence"}

VARIABLES
  table,    \* Broker.waiting: the cards parked
  run,      \* per card: where the run that asked it is
  channel,  \* per card: what its oneshot holds
  used,     \* per card: what the run did with it
  told,     \* history: the answers front ends were told Ok for, in order
  feed      \* events published and not yet read by the front end, in order

brokerVars == <<table, run, channel, used, told, feed>>

Points == {"before", "waiting", "awake", "after", "dropped"}
Event == [kind : {"asked", "settled"}, card : Cards]

\* The state's types.
BrokerTypeOK ==
  /\ table \subseteq Cards
  /\ run \in [Cards -> Points]
  /\ channel \in [Cards -> Answers \cup {Nothing}]
  /\ used \in [Cards -> Answers \cup {"silence", Nothing}]
  /\ told \in [Cards -> Seq(Answers)]
  /\ feed \in Seq(Event)

\* Mutant of BrokerInit: the oneshots start with an answer nobody sent.
BrokerInitMutant ==
  /\ table = {} /\ feed = <<>>
  /\ run = [c \in Cards |-> "before"]
  /\ channel = [c \in Cards |-> "silence"]
  /\ used = [c \in Cards |-> Nothing]
  /\ told = [c \in Cards |-> <<>>]

BrokerInit ==
  /\ table = {} /\ feed = <<>>
  /\ run = [c \in Cards |-> "before"]
  /\ channel = [c \in Cards |-> Nothing]
  /\ used = [c \in Cards |-> Nothing]
  /\ told = [c \in Cards |-> <<>>]

Goto(c, point) == run' = [run EXCEPT ![c] = point]
Publish(kind, c) == feed' = Append(feed, [kind |-> kind, card |-> c])

\* park, then publish the request.
Ask(c) ==
  /\ run[c] = "before"
  /\ table' = table \cup {c}
  /\ Publish("asked", c)
  /\ Goto(c, "waiting")
  /\ UNCHANGED <<channel, used, told>>

\* timeout(CARD_TIMEOUT, wait) finds the answer first when there is one.
Hear(c) ==
  /\ run[c] = "waiting" /\ channel[c] # Nothing
  /\ used' = [used EXCEPT ![c] = channel[c]]
  /\ Goto(c, "awake")
  /\ UNCHANGED <<table, channel, told, feed>>

\* Mutant of TimeOut: silence is taken for approval.
TimeOutMutant(c) ==
  /\ run[c] = "waiting" /\ channel[c] = Nothing
  /\ used' = [used EXCEPT ![c] = "yes"]
  /\ Goto(c, "awake")
  /\ UNCHANGED <<table, channel, told, feed>>

\* Mutant of TimeOut: a card waits for as long as it takes.
TimeOutNever(c) ==
  /\ run[c] = "waiting" /\ channel[c] = Nothing
  /\ UNCHANGED brokerVars

\* The deadline passes with nothing in the oneshot; the card is still parked.
TimeOut(c) ==
  /\ run[c] = "waiting" /\ channel[c] = Nothing
  /\ used' = [used EXCEPT ![c] = "silence"]
  /\ Goto(c, "awake")
  /\ UNCHANGED <<table, channel, told, feed>>

\* The run takes its card back and publishes the outcome it used.
Settle(c) ==
  /\ run[c] = "awake"
  /\ table' = table \ {c}
  /\ Publish("settled", c)
  /\ Goto(c, "after")
  /\ UNCHANGED <<channel, used, told>>

\* The run is stopped: browse and drive_app drop drive_with_cards at its await,
\* so nothing below the await runs.
Drop(c) ==
  /\ run[c] = "waiting"
  /\ Goto(c, "dropped")
  /\ UNCHANGED <<table, channel, used, told, feed>>

\* Mutant of Resolve: the waiter stays in the table.
ResolveMutant(c, a) ==
  /\ c \in table
  /\ channel' = [channel EXCEPT ![c] = IF run[c] = "waiting" THEN a ELSE @]
  /\ told' = [told EXCEPT ![c] = Append(@, a)]
  /\ Len(told[c]) < 2
  /\ UNCHANGED <<table, run, used, feed>>

\* resolve_confirm, answer_ask, cancel_ask: take the waiter, send, answer Ok.  The
\* send's own result is ignored.  With the card gone the answer is NoSuchCard and
\* nothing changes.
Resolve(c, a) ==
  /\ c \in table
  /\ table' = table \ {c}
  /\ channel' = [channel EXCEPT ![c] = IF run[c] = "waiting" THEN a ELSE @]
  /\ told' = [told EXCEPT ![c] = Append(@, a)]
  /\ UNCHANGED <<run, used, feed>>

\* What the waiting run does; a card's deadline is the run's own step.
RunStep(c) == Ask(c) \/ Hear(c) \/ TimeOut(c) \/ Settle(c) \/ Drop(c)
Waits(c) == Hear(c) \/ TimeOut(c) \/ Settle(c)

Read == feed # <<>> /\ feed' = Tail(feed) /\ UNCHANGED <<table, run, channel, used, told>>

BrokerNext ==
  \/ \E c \in Cards : RunStep(c) \/ \E a \in Answers : Resolve(c, a)
  \/ Read

BrokerSpec == BrokerInit /\ [][BrokerNext]_brokerVars /\ \A c \in Cards : WF_brokerVars(Waits(c))

-----------------------------------------------------------------------------
\* "An answer arrives once" (confirm.rs:18): at most one front end is told its
\* answer was taken, so a double click cannot approve two things.
AnswerArrivesOnce == \A c \in Cards : Len(told[c]) <= 1

\* An action is approved only by an answer that approved it, whose sender was told
\* so: neither a timeout nor a dropped channel is ever a yes.
ApprovalWasGiven == \A c \in Cards : used[c] = "yes" => told[c] # <<>> /\ told[c][1] = "yes"

\* An answer counts once, and only a yes approves.
AnswersCount == AnswerArrivesOnce /\ ApprovalWasGiven

\* A card that settled is not parked any more: whoever answers it after the run
\* moved on is told NoSuchCard.
SettledIsRefused == \A c \in Cards : run[c] = "after" => c \notin table

\* "Every wait ends" (confirm.rs:16): a card nobody answers times out, so no run
\* waits for ever.
EveryWaitEnds == \A c \in Cards : run[c] = "waiting" ~> run[c] \in {"after", "dropped"}
=============================================================================
