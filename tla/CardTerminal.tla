---------------------------- MODULE CardTerminal ----------------------------
(***************************************************************************)
(* The terminal's card stack (crates/neo-tui/src/state.rs, keys.rs) over   *)
(* the confirm broker: one card in front, the others queued behind it, and *)
(* keys that are live only once the sentence has been on a frame.  A       *)
(* question without options is answered in words, collected by a prompt    *)
(* over the card, and the key that opens the prompt is always live.        *)
(*                                                                         *)
(* While a card is in front card_key owns the keyboard, so a card nothing  *)
(* clears takes the terminal with it.                                      *)
(***************************************************************************)
EXTENDS ConfirmBroker, SequencesExt

CONSTANTS
  Typed,   \* the questions without options (Card::free_text)
  NoCard

ASSUME StackAssumption == NoCard \notin Cards /\ Typed \subseteq Cards

VARIABLES
  front,   \* State.card
  queue,   \* State.queued_cards
  live,    \* the front card is rendered and armed
  prompt,  \* State.prompt: the question whose answer is being typed
  seen,    \* history: cards that have been live
  opened,  \* history: questions the prompt was opened for
  missed   \* history: cards one of whose events the channel dropped

terminalVars == <<front, queue, live, prompt, seen, opened, missed>>
stackVars == <<brokerVars, terminalVars>>

\* The terminal's types.
TerminalTypeOK ==
  /\ front \in Cards \cup {NoCard}
  /\ queue \in Seq(Cards)
  /\ live \in BOOLEAN
  /\ prompt \in Typed \cup {NoCard}
  /\ seen \subseteq Cards /\ opened \subseteq Typed
  /\ missed \subseteq Cards

TerminalInit ==
  /\ BrokerInit
  /\ front = NoCard /\ queue = <<>> /\ live = FALSE /\ prompt = NoCard
  /\ seen = {} /\ opened = {} /\ missed = {}

Shown == {front} \cup ToSet(queue)

\* raise_card
Raise(c) ==
  IF c \in Shown THEN UNCHANGED <<front, queue, live>>
  ELSE IF front = NoCard THEN front' = c /\ live' = FALSE /\ UNCHANGED queue
  ELSE queue' = Append(queue, c) /\ UNCHANGED <<front, live>>

\* Mutant of Clear: the next card inherits the keys of the one before it.
ClearMutant(c) ==
  LET rest == RemoveFirst(queue, c) IN
  IF front # c THEN queue' = rest /\ UNCHANGED <<front, live>>
  ELSE IF rest = <<>> THEN front' = NoCard /\ queue' = rest /\ live' = FALSE
  ELSE front' = Head(rest) /\ queue' = Tail(rest) /\ UNCHANGED live

\* Mutant of Clear: a card that settles behind another one is raised later.
ClearFrontOnly(c) ==
  IF front # c THEN UNCHANGED <<front, queue, live>>
  ELSE /\ front' = IF queue = <<>> THEN NoCard ELSE Head(queue)
       /\ queue' = IF queue = <<>> THEN queue ELSE Tail(queue)
       /\ live' = FALSE

\* clear_card sweeps the queue, which holds a card once, then raises the next
\* card, unread.
Clear(c) ==
  LET rest == RemoveFirst(queue, c) IN
  IF front # c THEN queue' = rest /\ UNCHANGED <<front, live>>
  ELSE /\ front' = IF rest = <<>> THEN NoCard ELSE Head(rest)
       /\ queue' = IF rest = <<>> THEN rest ELSE Tail(rest)
       /\ live' = FALSE

\* drain applies one event.
DeliverNext ==
  /\ Read
  /\ LET event == Head(feed) IN
       IF event.kind = "asked" THEN Raise(event.card) ELSE Clear(event.card)
  /\ UNCHANGED <<prompt, seen, opened, missed>>

\* The channel dropped the event; the re-bootstrap that follows re-reads the thread
\* and has no cards to give back.
TerminalLag ==
  /\ Read
  /\ missed' = missed \cup {Head(feed).card}
  /\ UNCHANGED <<front, queue, live, prompt, seen, opened>>

\* The sentence reached a frame, with no prompt over it, and stayed there for
\* CARD_ARM_MS.
Arm ==
  /\ front # NoCard /\ ~live /\ prompt = NoCard
  /\ live' = TRUE /\ seen' = seen \cup {front}
  /\ UNCHANGED <<brokerVars, front, queue, prompt, opened, missed>>

\* A resize pushed it off the frame, or another overlay covered it.
Disarm ==
  /\ live
  /\ live' = FALSE
  /\ UNCHANGED <<brokerVars, front, queue, prompt, seen, opened, missed>>

\* y, n or a digit on a live card: resolve_card, answer_highlighted.  The card stays
\* until its run settles it; a refusal is a note in the status line.
PressKey(a) ==
  /\ prompt = NoCard /\ live /\ front \in Cards \ Typed
  /\ Resolve(front, a)
  /\ UNCHANGED terminalVars

\* open_ask_prompt: i on a question without options, live or not, or y once it is
\* live.  The prompt owns the keyboard and covers the card on the next frame, which
\* is drawn before the next key is read.
OpenPrompt ==
  /\ prompt = NoCard /\ front \in Typed
  /\ prompt' = front /\ opened' = opened \cup {front}
  /\ live' = FALSE
  /\ UNCHANGED <<brokerVars, front, queue, seen, missed>>

\* Mutant of SubmitPrompt: the words go to the card in front by now.
SubmitPromptMutant ==
  /\ prompt # NoCard /\ prompt' = NoCard
  /\ front # NoCard /\ Resolve(front, "yes")
  /\ UNCHANGED <<front, queue, live, seen, opened, missed>>

\* submit_prompt: Enter sends the words to the question the prompt was opened for,
\* whichever card is in front by now.
SubmitPrompt ==
  /\ prompt # NoCard /\ prompt' = NoCard
  /\ Resolve(prompt, "yes")
  /\ UNCHANGED <<front, queue, live, seen, opened, missed>>

\* Enter with nothing typed, or for a card that is gone; Esc; the kill switch.
ClosePrompt ==
  /\ prompt # NoCard /\ prompt' = NoCard
  /\ UNCHANGED <<brokerVars, front, queue, live, seen, opened, missed>>

RunsBesideTerminal == (\E c \in Cards : RunStep(c)) /\ UNCHANGED terminalVars

TerminalNext ==
  \/ RunsBesideTerminal \/ DeliverNext \/ TerminalLag \/ Arm \/ Disarm
  \/ \E a \in Answers : PressKey(a)
  \/ OpenPrompt \/ SubmitPrompt \/ ClosePrompt

TerminalSpec == TerminalInit /\ [][TerminalNext]_stackVars

-----------------------------------------------------------------------------
\* An answer is to the card it was given to, not to the one that took its place: y, n
\* and digits answer a card whose own sentence was live, words the question whose own
\* prompt was opened while it was in front.
AnswersWereMeant ==
  \A c \in Cards : told[c] # <<>> => c \in (IF c \in Typed THEN opened ELSE seen)

\* The run that asked is still at its card, or its settlement is on its way here.
Attended(c) ==
  \/ run[c] \in {"waiting", "awake"}
  \/ \E i \in 1..Len(feed) : feed[i].kind = "settled" /\ feed[i].card = c

\* A card on the stack is one a run waits on, or is about to be taken down, unless
\* the run was stopped under it or the channel dropped its settlement.
StackedCardIsAttended ==
  \A c \in Shown \ {NoCard} : Attended(c) \/ c \in missed \/ run[c] = "dropped"
=============================================================================
