----------------------------- MODULE AgentTurn -----------------------------
(***************************************************************************)
(* One agent turn (neo-agent/src/agent/metal.rs).  The graph runs in a     *)
(* task of its own: a model call streams its text, a batch of tool calls   *)
(* runs, and so on until an answer, the node budget, a failure or a stop.  *)
(* Its tools hand their cards to a queue and wait for them to be applied;  *)
(* the turn's loop is the one place anything is published from, and polls  *)
(* the stream, then the queue.  Meanwhile the user may stop the turn or    *)
(* steer it through its inbox.  The graph's executor (metalcraft) is       *)
(* outside the repository and modelled from how the loop uses it.          *)
(***************************************************************************)
EXTENDS Integers, FiniteSets, SequencesExt

CONSTANTS
  Tools,      \* the tool calls one model call may ask for
  Steers,     \* what the user types while the turn works
  MaxSteps,   \* ChatRequest.max_steps
  MaxTokens   \* bound: slices of one model call's text

ASSUME TurnAssumption == MaxSteps \in Nat /\ MaxTokens \in Nat

VARIABLES
  graph,    \* the executor: "unborn", "agent", "tools", "boundary", "over"
  next,     \* the node after a boundary
  nodes,    \* nodes run so far
  call,     \* model calls so far
  said,     \* AgentState: the text of the current model call
  silent,   \* the current call streams no tokens
  last,     \* AgentState: the last assistant text
  convo,    \* AgentState.messages added by this run
  tools,    \* each tool call of the batch
  stream,   \* the executor's event channel
  cards,    \* the card queue: <<call, tool, "started" or "done">>
  loop,     \* the turn's own task
  answer,   \* Answer.said: everything published as a delta
  flushed,  \* Answer.flushed
  row,      \* the text of the assistant row in the store
  closed,   \* calls whose card was published as finished: <<call, tool>>
  ending,   \* what sealed the turn
  stop,     \* ChatRequest.cancel
  live,     \* Runtime.runs holds the run
  inbox,    \* Steering.queue
  steer,    \* each steer call
  thread    \* steered messages recorded in the store

graphVars == <<graph, next, nodes, call, said, silent, last, convo>>
loopVars == <<loop, answer, flushed, row, closed, ending, live>>
steerVars == <<inbox, steer, thread>>
turnVars == <<graphVars, tools, stream, cards, loopVars, stop, steerVars>>

Calls == 1 .. MaxSteps + 1
Earlier == <<0, 1>>   \* the previous turn's answer, in the history
Spent == <<0, 2>>     \* exhausted_sentence
Slices == (Calls \X (1 .. MaxTokens)) \cup {Earlier, Spent}

\* Mutant of Budget: one more round trip than the user's actions pay for.
BudgetMutant == 2 * MaxSteps + 4

\* node_budget: nodes the graph may run
Budget == 2 * MaxSteps + 2

\* The types of the turn's state.
TurnTypeOK ==
  /\ graph \in {"unborn", "agent", "tools", "boundary", "over"}
  /\ next \in {"agent", "tools"}
  /\ nodes \in 0 .. 2 * MaxSteps + 2 /\ call \in 0 .. MaxSteps + 1
  /\ \A text \in {said, last, answer, row} : text \in Seq(Slices)
  /\ silent \in BOOLEAN /\ stop \in BOOLEAN /\ live \in BOOLEAN
  /\ tools \in [Tools -> {"none", "asked", "opening", "working", "closing", "done"}]
  /\ cards \in Seq(Calls \X Tools \X {"started", "done"})
  /\ loop \in {"start", "live", "stream", "cards", "leaving", "left"}
  /\ flushed \in 0 .. Len(answer)
  /\ closed \subseteq Calls \X Tools
  /\ ending \in {"none", "finished", "failed"}
  /\ inbox \in Seq(Steers)
  /\ steer \in [Steers -> {"typed", "found", "posted", "recorded", "accepted", "refused", "failed"}]
  /\ thread \in Seq(Steers)

Token(slice) == [kind |-> "token", slice |-> slice]
Finished(how) == [kind |-> "finished", how |-> how]

\* The thread may or may not end in an earlier answer of the model.
TurnInit ==
  /\ graph = "unborn" /\ next = "agent" /\ nodes = 0 /\ call = 0
  /\ said = <<>> /\ silent = FALSE /\ last \in {<<>>, <<Earlier>>} /\ convo = <<>>
  /\ tools = [t \in Tools |-> "none"] /\ stream = <<>> /\ cards = <<>>
  /\ loop = "start" /\ answer = <<>> /\ flushed = 0 /\ row = <<>> /\ closed = {}
  /\ ending = "none" /\ stop = FALSE /\ live = FALSE
  /\ inbox = <<>> /\ steer = [m \in Steers |-> "typed"] /\ thread = <<>>

-----------------------------------------------------------------------------
(* What the loop publishes.  Each delta may be written to the store, and any
   write may fail: the slices then wait for the next one. *)

\* Mutant of Written: the slices already stored are written again.
WrittenMutant(upto, all) == row' = row \o SubSeq(all, 1, upto) /\ flushed' = upto

\* flush: the store holds the answer up to upto.
Written(upto, all) == row' = row \o SubSeq(all, flushed + 1, upto) /\ flushed' = upto

\* delta
Say(slices) ==
  /\ answer' = answer \o slices
  /\ \E upto \in {flushed, Len(answer')} : Written(upto, answer')

\* Mutant of WithAnswer: a whole answer is said without a look at what was streamed.
WithAnswerMutant(text) == answer \o text

\* whole_answer: what was streamed already is not said twice.
WithAnswer(text) == IF IsSuffix(text, answer) THEN answer ELSE answer \o text

\* Mutant of Seal: the words of the state are not looked at.
SealMutant(how, text, more) ==
  /\ answer' = answer \o more /\ ending' = how /\ loop' = "leaving"
  /\ Written(Len(answer'), answer')

\* whole_answer, the exhausted sentence, then Reporter::finish or fail: a last
\* flush, the ending, the Message; drive returns.
Seal(how, text, more) ==
  /\ answer' = WithAnswer(text) \o more
  /\ \E upto \in {flushed, Len(WithAnswer(text)), Len(answer')} :
        upto >= flushed /\ Written(upto, answer')
  /\ ending' = how
  /\ loop' = "leaving"

-----------------------------------------------------------------------------
(* The executor. *)

Send(event) == stream' = Append(stream, event)

\* A slice of the call's text.
Generate ==
  /\ graph = "agent" /\ Len(said) < MaxTokens
  /\ said' = Append(said, <<call, Len(said) + 1>>)
  /\ IF silent THEN UNCHANGED stream ELSE Send(Token(<<call, Len(said) + 1>>))
  /\ UNCHANGED <<graph, next, nodes, call, silent, last, convo, tools, cards, loopVars, stop, steerVars>>

\* The text of the call becomes an assistant message of the state.
Kept == last' = IF said = <<>> THEN last ELSE said

\* The model asks for tools: a boundary, then the tool node.
AskTools(batch) ==
  /\ graph = "agent" /\ batch # {}
  /\ Kept
  /\ convo' = Append(convo, [kind |-> "calls", call |-> call, batch |-> batch])
  /\ graph' = "boundary" /\ next' = "tools" /\ nodes' = nodes + 1
  /\ UNCHANGED <<call, said, silent, tools, stream, cards, loopVars, stop, steerVars>>

\* The model answers: RunOutcome::Completed.
Complete ==
  /\ graph = "agent"
  /\ last' = said /\ nodes' = nodes + 1
  /\ graph' = "over" /\ Send(Finished("completed"))
  /\ UNCHANGED <<next, call, said, silent, convo, tools, cards, loopVars, stop, steerVars>>

\* A model call fails: RunOutcome::Failed, or an error on the stream.
NodeFails ==
  /\ graph = "agent"
  /\ graph' = "over" /\ Send(Finished("failed"))
  /\ UNCHANGED <<next, nodes, call, said, silent, last, convo, tools, cards, loopVars, stop, steerVars>>

\* The executor races every node against the token: it drops the node, with its
\* tools, and hands back what the model had said.
StopGraph ==
  /\ graph \in {"agent", "tools", "boundary"} /\ stop
  /\ IF graph = "agent" THEN Kept ELSE UNCHANGED last
  /\ tools' = [t \in Tools |-> "none"]
  /\ graph' = "over" /\ Send(Finished("cancelled"))
  /\ UNCHANGED <<next, nodes, call, said, silent, convo, cards, loopVars, stop, steerVars>>

\* Mutant of Absorbs: the mailbox delivers after every step.
AbsorbsMutant == TRUE

\* mailbox: only when the model itself is about to run.
Absorbs == next = "agent"

Absorb ==
  IF Absorbs
  THEN /\ convo' = convo \o [i \in DOMAIN inbox |-> [kind |-> "user", text |-> inbox[i]]]
       /\ inbox' = <<>>
  ELSE UNCHANGED <<convo, inbox>>

\* The next node starts; whether the vendor streams this call's text is its affair.
Proceed ==
  /\ graph = "boundary" /\ nodes < Budget
  /\ Absorb
  /\ graph' = next
  /\ IF next = "agent"
     THEN call' = call + 1 /\ said' = <<>> /\ silent' \in BOOLEAN /\ UNCHANGED tools
     ELSE /\ tools' = [t \in Tools |-> IF t \in Last(convo).batch THEN "asked" ELSE "none"]
          /\ UNCHANGED <<call, said, silent>>
  /\ UNCHANGED <<next, nodes, last, stream, cards, loopVars, stop, steer, thread>>

\* The budget is spent: RunOutcome::Interrupted.
Interrupt ==
  /\ graph = "boundary" /\ nodes >= Budget
  /\ graph' = "over" /\ Send(Finished("interrupted"))
  /\ UNCHANGED <<next, nodes, call, said, silent, last, convo, tools, cards, loopVars, stop, steerVars>>

-----------------------------------------------------------------------------
(* A tool call (observed): a card, the work, a card. *)

\* Mutant of Queue: the tool carries on without waiting for its card to go out.
QueueMutant(t, kind) ==
  /\ cards' = Append(cards, <<call, t, kind>>)
  /\ tools' = [tools EXCEPT ![t] = IF kind = "started" THEN "working" ELSE "done"]

\* Reporter::queue
Queue(t, kind) ==
  /\ cards' = Append(cards, <<call, t, kind>>)
  /\ tools' = [tools EXCEPT ![t] = IF kind = "started" THEN "opening" ELSE "closing"]

\* step_started
StartTool(t) ==
  /\ tools[t] = "asked" /\ Queue(t, "started")
  /\ UNCHANGED <<graphVars, stream, loopVars, stop, steerVars>>

\* The work is done, failed or stopped: step_done or step_note.
EndTool(t) ==
  /\ tools[t] = "working" /\ Queue(t, "done")
  /\ UNCHANGED <<graphVars, stream, loopVars, stop, steerVars>>

\* Every tool of the batch returned; their results join the conversation.
Results ==
  /\ graph = "tools" /\ \A t \in Tools : tools[t] \in {"none", "done"}
  /\ convo' = Append(convo, [kind |-> "results"])
  /\ graph' = "boundary" /\ next' = "agent" /\ nodes' = nodes + 1
  /\ tools' = [t \in Tools |-> "none"]
  /\ UNCHANGED <<call, said, silent, last, stream, cards, loopVars, stop, steerVars>>

-----------------------------------------------------------------------------
(* The turn's own task. *)

Moves(from, to) == loop = from /\ loop' = to

\* turn, stopped before it started; or a model that cannot be built.
EndEarly ==
  /\ loop = "start"
  /\ Seal(IF stop THEN "finished" ELSE "failed", <<>>, <<>>)
  /\ UNCHANGED <<graphVars, tools, stream, cards, closed, live, stop, steerVars>>

\* runtime_guard: the turn can be steered from here.
Register ==
  /\ ~stop /\ Moves("start", "live")
  /\ live' = TRUE
  /\ UNCHANGED <<graphVars, tools, stream, cards, answer, flushed, row, closed, ending, stop, steerVars>>

\* The graph cannot be built: drive returns at the `?`, and nothing is published.
GraphUnbuilt ==
  /\ Moves("live", "leaving")
  /\ UNCHANGED <<graphVars, tools, stream, cards, answer, flushed, row, closed, ending, live, stop, steerVars>>

\* The history has no message to answer.
NothingToAnswer ==
  /\ loop = "live" /\ last = <<>>
  /\ Seal("failed", <<>>, <<>>)
  /\ UNCHANGED <<graphVars, tools, stream, cards, closed, live, stop, steerVars>>

\* Executor::stream: the graph's task starts at the model.
Launch ==
  /\ Moves("live", "stream")
  /\ graph' = "boundary"
  /\ UNCHANGED <<next, nodes, call, said, silent, last, convo, tools, stream, cards, answer, flushed, row,
                 closed, ending, live, stop, steerVars>>

\* Mutant of Applied: a finished call's card is published and its tool left waiting.
AppliedMutant(applied) ==
  /\ closed' = closed \cup {<<c[1], c[2]>> : c \in {x \in Range(applied) : x[3] = "done"}}
  /\ tools' = [t \in Tools |->
       IF tools[t] = "opening" /\ \E c \in Range(applied) : c[2] = t THEN "working" ELSE tools[t]]

\* apply: a card is published and its tool released.
Applied(applied) ==
  /\ closed' = closed \cup {<<c[1], c[2]>> : c \in {x \in Range(applied) : x[3] = "done"}}
  /\ tools' = [t \in Tools |->
       IF \E c \in Range(applied) : c[2] = t
       THEN CASE tools[t] = "opening" -> "working" [] tools[t] = "closing" -> "done" [] OTHER -> tools[t]
       ELSE tools[t]]

\* One poll of the stream that finds a token.
TakeToken ==
  /\ loop = "stream" /\ stream # <<>> /\ Head(stream).kind = "token"
  /\ Say(<<Head(stream).slice>>)
  /\ stream' = Tail(stream)
  /\ UNCHANGED <<graphVars, tools, cards, loop, closed, ending, live, stop, steerVars>>

\* One poll of the stream that finds nothing: the queue is polled next.
StreamIdle ==
  /\ stream = <<>> /\ Moves("stream", "cards")
  /\ UNCHANGED <<graphVars, tools, stream, cards, answer, flushed, row, closed, ending, live, stop, steerVars>>

\* Mutant of TakeCard: the select is not biased, and the queue may be polled first.
TakeCardMutant ==
  /\ loop \in {"stream", "cards"} /\ loop' = "stream"
  /\ cards # <<>> /\ Applied(<<Head(cards)>>) /\ cards' = Tail(cards)
  /\ UNCHANGED <<graphVars, stream, answer, flushed, row, ending, live, stop, steerVars>>

\* The poll of the card queue that follows.
TakeCard ==
  /\ Moves("cards", "stream")
  /\ IF cards = <<>>
     THEN UNCHANGED <<tools, cards, closed>>
     ELSE Applied(<<Head(cards)>>) /\ cards' = Tail(cards)
  /\ UNCHANGED <<graphVars, stream, answer, flushed, row, ending, live, stop, steerVars>>

\* The outcome: the cards queued before it, then finish.  A failed run that was
\* not a stop is published as a failure, with no word of the state.
TakeOutcome ==
  /\ loop = "stream" /\ stream # <<>> /\ Head(stream).kind = "finished"
  /\ Applied(cards) /\ cards' = <<>>
  /\ LET how == Head(stream).how IN
     \/ how = "failed" /\ Seal("failed", <<>>, <<>>)
     \/ how = "interrupted" /\ Seal("finished", last, <<Spent>>)
     \/ how \in {"completed", "cancelled"} /\ Seal("finished", last, <<>>)
  /\ stream' = Tail(stream)
  /\ UNCHANGED <<graphVars, live, stop, steerVars>>

\* LiveRun::drop
Leave ==
  /\ Moves("leaving", "left")
  /\ live' = FALSE
  /\ UNCHANGED <<graphVars, tools, stream, cards, answer, flushed, row, closed, ending, stop, steerVars>>

-----------------------------------------------------------------------------
(* The user. *)

\* ChatRequest.cancel is fired from another thread.
PressStop ==
  /\ ~stop /\ stop' = TRUE
  /\ UNCHANGED <<graphVars, tools, stream, cards, loopVars, steerVars>>

Goes(m, from, to) == steer[m] = from /\ steer' = [steer EXCEPT ![m] = to]

\* live_run
FindRun(m) ==
  /\ Goes(m, "typed", IF live THEN "found" ELSE "refused")
  /\ UNCHANGED <<graphVars, tools, stream, cards, loopVars, stop, inbox, thread>>

\* Steering::post, through the handle found: the run may have ended since.
Post(m) ==
  /\ Goes(m, "found", "posted") /\ inbox' = Append(inbox, m)
  /\ UNCHANGED <<graphVars, tools, stream, cards, loopVars, stop, thread>>

\* record_agent_message; its failure is the caller's, the message stays queued.
Record(m) ==
  /\ \/ Goes(m, "posted", "accepted") /\ thread' = Append(thread, m)
     \/ Goes(m, "posted", "failed") /\ UNCHANGED thread
  /\ UNCHANGED <<graphVars, tools, stream, cards, loopVars, stop, inbox>>

-----------------------------------------------------------------------------
Executes ==
  \/ Generate \/ Complete \/ NodeFails \/ StopGraph \/ Proceed \/ Interrupt \/ Results
  \/ \E batch \in SUBSET Tools : AskTools(batch)

RunsTool(t) == StartTool(t) \/ EndTool(t)

Loops ==
  \/ EndEarly \/ Register \/ GraphUnbuilt \/ NothingToAnswer \/ Launch
  \/ TakeToken \/ StreamIdle \/ TakeCard \/ TakeOutcome \/ Leave

TurnNext ==
  \/ Executes \/ Loops \/ PressStop
  \/ \E t \in Tools : RunsTool(t)
  \/ \E m \in Steers : FindRun(m) \/ Post(m) \/ Record(m)

\* The runtime's workers poll every task that is ready; a model call, and a tool's
\* work, end (their clients' and the shell's deadlines).
TurnFairness == WF_turnVars(Executes) /\ WF_turnVars(Loops) /\ \A t \in Tools : WF_turnVars(RunsTool(t))

TurnSpec == TurnInit /\ [][TurnNext]_turnVars /\ TurnFairness

-----------------------------------------------------------------------------
(* Properties. *)

AskedIn(c) == UNION {entry.batch : entry \in {e \in Range(convo) : e.kind = "calls" /\ e.call = c}}

\* metal.rs, Queued: a tool waits for its card, so that by the time a later model
\* call's words reach a front end, every call the model asked for before them has
\* been shown as finished.
CardsPrecedeLaterText ==
  \A slice \in Range(answer) :
    slice[1] > 0 => \A c \in 1 .. slice[1] - 1 : \A t \in AskedIn(c) : <<c, t>> \in closed

\* metal.rs, drive: "the stream is always drained first".  A call's card may open
\* before the words that asked for it (the two polls of one select are two steps,
\* and the graph runs between them), but it never closes before them.
ResultsFollowTheirText ==
  \A card \in closed : \A event \in Range(stream) :
    event.kind = "token" => event.slice[1] > card[1]

\* The order a reader sees: the words that ask for a tool, its card, the words of a later call.
CardsKeepTheirPlace == CardsPrecedeLaterText /\ ResultsFollowTheirText

\* metal.rs, mailbox: a steered message lands where the model is about to run,
\* never between a model's tool calls and the results that answer them.
NoOrphanedCalls ==
  \A i \in 1 .. Len(convo) - 1 : convo[i].kind = "calls" => convo[i + 1].kind = "results"

Before(x, y) == x[1] < y[1] \/ (x[1] = y[1] /\ x[2] < y[2])

\* metal.rs, whole_answer: streamed or not, stopped or not, every slice a model call
\* said is published at most once, and in the order it was said.
SlicesInOrder ==
  \A i, j \in DOMAIN answer :
    i < j /\ answer[i][1] > 0 /\ answer[j][1] > 0 => Before(answer[i], answer[j])

\* metal.rs, finish: a turn that ran and was sealed as finished has told the user
\* the last thing the model said, whole, whatever the vendor streamed.
LastWordsAreTold ==
  ending = "finished" /\ graph # "unborn" =>
    IsSuffix(last, answer) \/ IsSuffix(Append(last, Spent), answer)

\* What the model said is told once, in order, to its last words.
SlicesAreTold == SlicesInOrder /\ LastWordsAreTold

\* metal.rs, flush: whatever writes failed, the assistant row is a prefix of what
\* was published: no slice twice, none out of order, no gap.
StoredIsAPrefix == IsPrefix(row, answer)

\* Runtime::chat returns: no wait of a tool on the loop, or of the loop on the
\* graph, outlives the turn.
TurnReturns == <>(loop = "left")

\* agent/mod.rs, TurnOutcome.text: "A stopped turn carries what the model had
\* already said, which may be nothing": never the answer of an earlier turn.
StoppedTurnCarriesItsOwn == stop => Earlier \notin Range(answer)
=============================================================================
