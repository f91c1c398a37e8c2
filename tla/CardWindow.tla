----------------------------- MODULE CardWindow -----------------------------
(***************************************************************************)
(* A webview's cards (ui/src/store/gates.ts and answerCard in store.ts)    *)
(* over the confirm broker.  Commands and events cross the IPC boundary    *)
(* separately, in no order gates.ts relies on; another surface may answer  *)
(* the same card; the channel may drop an event.                           *)
(***************************************************************************)
EXTENDS ConfirmBroker, SequencesExt

CONSTANT SettledLimit  \* bound: early resolves remembered (64 in the code)

ASSUME WindowAssumption == SettledLimit \in Nat

VARIABLES
  shown,    \* GatesState.confirms and asks, by id
  pending,  \* GatesState.pending
  settled,  \* GatesState.settled, newest first
  sent,     \* commands on their way to the core: <<card, answer>>
  lost      \* history: cards one of whose events the channel dropped, or the memory above

windowVars == <<shown, pending, settled, sent, lost>>
webVars == <<brokerVars, windowVars>>

\* The window's types.
WindowTypeOK ==
  /\ shown \subseteq Cards
  /\ pending \subseteq Cards
  /\ settled \in Seq(Cards) /\ Len(settled) <= SettledLimit
  /\ sent \subseteq Cards \X Answers
  /\ lost \subseteq Cards

WindowInit == BrokerInit /\ shown = {} /\ pending = {} /\ settled = <<>> /\ sent = {} /\ lost = {}

\* Mutant of Requested: the early resolve is forgotten.
RequestedMutant(c) == shown' = shown \cup {c} /\ UNCHANGED <<pending, settled, lost>>

\* confirm_request, ask_request
Requested(c) ==
  IF Contains(settled, c)
  THEN settled' = RemoveFirst(settled, c) /\ UNCHANGED <<shown, pending, lost>>
  ELSE shown' = shown \cup {c} /\ UNCHANGED <<pending, settled, lost>>

\* confirm_resolved, ask_resolved
Resolved(c) ==
  IF c \in shown
  THEN shown' = shown \ {c} /\ pending' = pending \ {c} /\ UNCHANGED <<settled, lost>>
  ELSE /\ LET all == <<c>> \o RemoveFirst(settled, c) IN
            /\ settled' = SubSeq(all, 1, IF Len(all) < SettledLimit THEN Len(all) ELSE SettledLimit)
            /\ lost' = lost \cup (ToSet(all) \ ToSet(settled'))
       /\ UNCHANGED <<shown, pending>>

\* Take event i out of the feed, whichever order they arrive in.
Arrives(i) ==
  /\ feed' = RemoveAt(feed, i)
  /\ UNCHANGED <<table, run, channel, used, told>>

DeliverAny(i) ==
  /\ Arrives(i)
  /\ IF feed[i].kind = "asked" THEN Requested(feed[i].card) ELSE Resolved(feed[i].card)
  /\ UNCHANGED sent

\* The channel lagged; applyBootstrap leaves the cards as they are.
WindowLag(i) ==
  /\ Arrives(i)
  /\ lost' = lost \cup {feed[i].card}
  /\ UNCHANGED <<shown, pending, settled, sent>>

\* answerCard: claim the card before the command leaves.
PressButton(c, a) ==
  /\ c \in shown \ pending
  /\ pending' = pending \cup {c}
  /\ sent' = sent \cup {<<c, a>>}
  /\ UNCHANGED <<brokerVars, shown, settled, lost>>

\* The command reaches the core: Ok, or no_such_card, and the claim stays either
\* way.
Command(c, a) ==
  /\ <<c, a>> \in sent
  /\ sent' = sent \ {<<c, a>>}
  /\ IF c \in table THEN Resolve(c, a) ELSE UNCHANGED brokerVars
  /\ UNCHANGED <<shown, pending, settled, lost>>

\* The command fails before the broker sees it: releaseGate.
CommandFails(c, a) ==
  /\ <<c, a>> \in sent
  /\ sent' = sent \ {<<c, a>>}
  /\ pending' = pending \ {c}
  /\ UNCHANGED <<brokerVars, shown, settled, lost>>

\* Another surface answers: a second window, a spoken answer.
Elsewhere(c, a) == Resolve(c, a) /\ UNCHANGED windowVars

RunsBesideWindow == (\E c \in Cards : RunStep(c)) /\ UNCHANGED windowVars

WindowNext ==
  \/ RunsBesideWindow
  \/ \E i \in 1..Len(feed) : DeliverAny(i) \/ WindowLag(i)
  \/ \E c \in Cards, a \in Answers :
       PressButton(c, a) \/ Command(c, a) \/ CommandFails(c, a) \/ Elsewhere(c, a)

WindowSpec == WindowInit /\ [][WindowNext]_webVars

-----------------------------------------------------------------------------
\* "two answers for one card would mean the run acted on whichever raced home"
\* (store.ts:163): this window never has two commands for one card on their way.
OneCommandPerCard == \A c \in Cards : ~({<<c, "yes">>, <<c, "no">>} \subseteq sent)

\* A claim belongs to a card on screen, so nothing is left claimed once its run has
\* settled and every command came back.
ClaimsGoWithTheirCard == \A c \in pending : c \in shown

\* "raise a card nothing is waiting on and leave it up forever" (gates.ts:28): a card
\* on screen is one a run waits on, or whose resolve is on its way, unless the run
\* was stopped under it, an event was lost, or its early resolve was no longer
\* remembered.
ShownCardIsAttended ==
  \A c \in shown : \/ run[c] \in {"waiting", "awake", "dropped"}
                   \/ c \in lost
                   \/ \E i \in 1..Len(feed) : feed[i] = [kind |-> "settled", card |-> c]
=============================================================================
