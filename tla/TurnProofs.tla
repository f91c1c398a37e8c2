----------------------------- MODULE TurnProofs -----------------------------
(***************************************************************************)
(* What holds of a turn of any length, with any tools and any messages     *)
(* typed into it: the types of its state, that a stored answer is a prefix *)
(* of the published one, that no tool call is left without its results,    *)
(* the two orders a front end relies on, cards before later text and text  *)
(* before the results it asked for, and that what the model said is told   *)
(* once, in order, to its last words.                                      *)
(***************************************************************************)
EXTENDS AgentTurn, SequenceTheorems, TLAPS

-----------------------------------------------------------------------------
(* The types, with the nodes counted. *)

Hows == {"completed", "failed", "cancelled", "interrupted"}
Events == [kind : {"token"}, slice : Slices] \cup [kind : {"finished"}, how : Hows]

Entries ==
  [kind : {"calls"}, call : Calls, batch : SUBSET Tools]
    \cup [kind : {"user"}, text : Steers] \cup [kind : {"results"}]

\* A model call is one node and so is its batch: the calls are half of the nodes.
CountInv ==
  /\ graph = "unborn" => nodes = 0 /\ call = 0 /\ next = "agent"
  /\ graph = "agent" => call \in Calls /\ nodes = 2 * call - 2
  /\ graph = "tools" => call \in Calls /\ nodes = 2 * call - 1
  /\ graph = "boundary" /\ next = "tools" => call \in Calls /\ nodes = 2 * call - 1
  /\ graph = "boundary" /\ next = "agent" => nodes = 2 * call

\* The graph is born at the launch, and no node's tools outlive it.
PhaseInv ==
  /\ loop \in {"start", "live"} => graph = "unborn"
  /\ graph # "tools" => tools = [t \in Tools |-> "none"]

TypeInv ==
  TurnTypeOK /\ stream \in Seq(Events) /\ convo \in Seq(Entries) /\ CountInv /\ PhaseInv

\* A steering message in the conversation is a "user" entry.
LEMMA InboxEntries ==
  ASSUME TypeInv
  PROVE  [i \in DOMAIN inbox |-> [kind |-> "user", text |-> inbox[i]]] \in Seq(Entries)
<1>1. inbox \in Seq(Steers)
  BY DEF TypeInv, TurnTypeOK
<1>2. Len(inbox) \in Nat /\ DOMAIN inbox = 1 .. Len(inbox)
  BY <1>1, LenProperties
<1>3. \A i \in 1 .. Len(inbox) : inbox[i] \in Steers
  BY <1>1, ElementOfSeq
<1>4. \A i \in 1 .. Len(inbox) : [kind |-> "user", text |-> inbox[i]] \in Entries
  BY <1>3 DEF Entries
<1>5. [i \in 1 .. Len(inbox) |-> [kind |-> "user", text |-> inbox[i]]] \in Seq(Entries)
  BY <1>2, <1>4, IsASeq
<1> QED BY <1>2, <1>5

\* A turn starts with its types right.
LEMMA TypeInit == TurnInit => TypeInv
<1>1. Earlier \in Slices
  BY DEF Slices
<1>2. <<>> \in Seq(Slices) /\ <<Earlier>> \in Seq(Slices)
  BY <1>1
<1> SUFFICES ASSUME TurnInit PROVE TypeInv
  OBVIOUS
<1>3. \A text \in {said, last, answer, row} : text \in Seq(Slices)
  BY <1>2 DEF TurnInit
<1>4. inbox \in Seq(Steers) /\ thread \in Seq(Steers) /\ cards \in Seq(Calls \X Tools \X {"started", "done"})
  BY DEF TurnInit
<1>5. tools \in [Tools -> {"none", "asked", "opening", "working", "closing", "done"}]
  BY DEF TurnInit
<1>6. steer \in [Steers -> {"typed", "found", "posted", "recorded", "accepted", "refused", "failed"}]
  BY DEF TurnInit
<1>7. nodes \in 0 .. 2 * MaxSteps + 2 /\ call \in 0 .. MaxSteps + 1 /\ flushed \in 0 .. Len(answer)
  BY TurnAssumption DEF TurnInit
<1>8. TurnTypeOK
  BY <1>3, <1>4, <1>5, <1>6, <1>7 DEF TurnInit, TurnTypeOK
<1>9. stream \in Seq(Events) /\ convo \in Seq(Entries) /\ CountInv /\ PhaseInv
  BY DEF TurnInit, CountInv, PhaseInv
<1> QED BY <1>8, <1>9 DEF TypeInv

\* What Say and Seal do to the answer and to the row: the answer is extended, and
\* the row takes what is missing of it up to some slice.
LEMMA WrittenKeeps ==
  ASSUME answer \in Seq(Slices), NEW extra \in Seq(Slices), answer' = answer \o extra,
         flushed \in 0 .. Len(answer), row \in Seq(Slices),
         NEW upto \in flushed .. Len(answer'), Written(upto, answer')
  PROVE  /\ answer' \in Seq(Slices) /\ row' \in Seq(Slices)
         /\ flushed' \in 0 .. Len(answer')
         /\ row = SubSeq(answer, 1, flushed) => row' = SubSeq(answer', 1, flushed')
<1>1. answer' \in Seq(Slices) /\ Len(answer') = Len(answer) + Len(extra)
  BY ConcatProperties
<1>2. Len(answer) \in Nat /\ Len(extra) \in Nat
  BY LenProperties
<1>3. flushed' = upto /\ row' = row \o SubSeq(answer', flushed + 1, upto)
  BY DEF Written
<1>4. \A i \in flushed + 1 .. upto : answer'[i] \in Slices
  BY <1>1, <1>2, ElementOfSeq
<1>5. SubSeq(answer', flushed + 1, upto) \in Seq(Slices)
  BY <1>1, <1>2, <1>4, SubSeqProperties
<1>6. row' \in Seq(Slices)
  BY <1>3, <1>5, ConcatProperties
<1>7. ASSUME row = SubSeq(answer, 1, flushed)
      PROVE  row' = SubSeq(answer', 1, flushed')
  <2>1. SubSeq(answer, 1, flushed) = SubSeq(answer', 1, flushed)
    <3>1. CASE flushed = 0
      BY <3>1, SubSeqEmpty
    <3>2. CASE flushed # 0
      BY <3>2, <1>2, SubSeqOfConcat1
    <3> QED BY <3>1, <3>2
  <2>2. SubSeq(answer', 1, flushed) \o SubSeq(answer', flushed + 1, upto) = SubSeq(answer', 1, upto)
    BY <1>1, <1>2, ConcatAdjacentSubSeq
  <2> QED BY <1>3, <1>7, <2>1, <2>2
<1>8. flushed' \in 0 .. Len(answer')
  BY <1>1, <1>2, <1>3
<1> QED BY <1>1, <1>6, <1>7, <1>8

\* How a step treats what was published.
Published(extra) ==
  /\ extra \in Seq(Slices)
  /\ answer' = answer \o extra
  /\ \E upto \in flushed .. Len(answer') : Written(upto, answer')

\* A delta, as one of them.
LEMMA SayPublishes ==
  ASSUME TurnTypeOK, NEW slices \in Seq(Slices), Say(slices)
  PROVE  Published(slices)
<1>1. answer \in Seq(Slices) /\ flushed \in 0 .. Len(answer)
  BY DEF TurnTypeOK
<1>2. answer' = answer \o slices /\ Len(answer') = Len(answer) + Len(slices)
  BY <1>1, ConcatProperties DEF Say
<1>3. Len(answer) \in Nat /\ Len(slices) \in Nat
  BY <1>1, LenProperties
<1>4. flushed \in flushed .. Len(answer') /\ Len(answer') \in flushed .. Len(answer')
  BY <1>1, <1>2, <1>3
<1> QED BY <1>2, <1>4 DEF Say, Published

\* So does the end of a turn: the answer is extended by the last words, or by
\* nothing if they were streamed, and then by the sentence of a spent budget.
LEMMA SealPublishes ==
  ASSUME TurnTypeOK, NEW text \in Seq(Slices), NEW more \in Seq(Slices), NEW how,
         Seal(how, text, more)
  PROVE  Published(more) \/ Published(text \o more)
<1>1. answer \in Seq(Slices) /\ flushed \in 0 .. Len(answer)
  BY DEF TurnTypeOK
<1>2. PICK upto \in {flushed, Len(WithAnswer(text)), Len(answer')} :
        upto >= flushed /\ Written(upto, answer')
  BY DEF Seal
<1>3. answer' = WithAnswer(text) \o more
  BY DEF Seal
<1>4. Len(answer) \in Nat /\ Len(text) \in Nat /\ Len(more) \in Nat
  BY <1>1, LenProperties
<1>5. CASE WithAnswer(text) = answer
  <2>1. Len(answer') = Len(answer) + Len(more)
    BY <1>1, <1>3, <1>5, ConcatProperties
  <2>2. upto \in flushed .. Len(answer')
    BY <1>1, <1>2, <1>4, <1>5, <2>1
  <2> QED BY <1>2, <1>3, <1>5, <2>2 DEF Published
<1>6. CASE WithAnswer(text) = answer \o text
  <2>1. answer \o text \in Seq(Slices) /\ Len(answer \o text) = Len(answer) + Len(text)
    BY <1>1, ConcatProperties
  <2>2. Len(answer') = Len(answer) + Len(text) + Len(more)
    BY <1>3, <1>4, <1>6, <2>1, ConcatProperties
  <2>3. upto \in flushed .. Len(answer')
    BY <1>1, <1>2, <1>4, <1>6, <2>1, <2>2
  <2>4. answer' = answer \o (text \o more) /\ text \o more \in Seq(Slices)
    BY <1>1, <1>3, <1>6, ConcatAssociative, ConcatProperties
  <2> QED BY <1>2, <2>3, <2>4 DEF Published
<1> QED BY <1>5, <1>6 DEF WithAnswer

\* What publishing more leaves: the types, and the row a prefix if it was one.
LEMMA PublishedKeeps ==
  ASSUME TurnTypeOK, NEW extra, Published(extra)
  PROVE  /\ answer' = answer \o extra /\ answer' \in Seq(Slices) /\ row' \in Seq(Slices)
         /\ flushed' \in 0 .. Len(answer')
         /\ row = SubSeq(answer, 1, flushed) => row' = SubSeq(answer', 1, flushed')
<1>1. answer \in Seq(Slices) /\ row \in Seq(Slices) /\ flushed \in 0 .. Len(answer)
  BY DEF TurnTypeOK
<1>2. extra \in Seq(Slices) /\ answer' = answer \o extra
  BY DEF Published
<1>3. PICK upto \in flushed .. Len(answer') : Written(upto, answer')
  BY DEF Published
<1> QED BY <1>1, <1>2, <1>3, WrittenKeeps

\* The token taken from the stream, a slice to publish.
LEMMA TokenTaken ==
  ASSUME TypeInv, TakeToken
  PROVE  /\ 1 \in 1 .. Len(stream) /\ Head(stream) = stream[1] /\ stream[1].kind = "token"
         /\ Head(stream).slice \in Slices /\ Say(<<Head(stream).slice>>)
         /\ stream' \in Seq(Events)
<1>1. stream \in Seq(Events) /\ stream # <<>> /\ Head(stream).kind = "token" /\ stream' = Tail(stream)
  BY DEF TakeToken, TypeInv
<1>2. Head(stream) \in Events /\ Head(stream) = stream[1] /\ 1 \in 1 .. Len(stream)
  BY <1>1, HeadTailProperties, EmptySeq
<1>3. Head(stream).slice \in Slices
  BY <1>1, <1>2 DEF Events
<1>4. Say(<<Head(stream).slice>>)
  BY DEF TakeToken
<1> QED BY <1>1, <1>2, <1>3, <1>4, HeadTailProperties

\* Whatever a step does, the answer stays, or more of it is published.
LEMMA Publishing ==
  ASSUME TypeInv, [TurnNext]_turnVars
  PROVE  UNCHANGED <<answer, flushed, row>> \/ \E extra : Published(extra)
<1>1. TurnTypeOK /\ <<>> \in Seq(Slices) /\ last \in Seq(Slices)
  BY DEF TypeInv, TurnTypeOK
<1>2. <<Spent>> \in Seq(Slices)
  BY DEF Slices
<1>3. CASE TakeToken
  <2>1. <<Head(stream).slice>> \in Seq(Slices) /\ Say(<<Head(stream).slice>>)
    BY <1>3, TokenTaken
  <2> QED BY <1>1, <2>1, SayPublishes
<1>4. CASE EndEarly
  BY <1>1, <1>4, SealPublishes DEF EndEarly
<1>5. CASE NothingToAnswer
  BY <1>1, <1>5, SealPublishes DEF NothingToAnswer
<1>6. CASE TakeOutcome
  BY <1>1, <1>2, <1>6, SealPublishes DEF TakeOutcome
<1>7. CASE Executes
  BY <1>7 DEF Executes, Generate, AskTools, Complete, NodeFails, StopGraph, Proceed, Interrupt,
    Results, loopVars
<1>8. CASE \E t \in Tools : RunsTool(t)
  BY <1>8 DEF RunsTool, StartTool, EndTool, loopVars
<1>9. CASE PressStop \/ \E m \in Steers : FindRun(m) \/ Post(m) \/ Record(m)
  BY <1>9 DEF PressStop, FindRun, Post, Record, loopVars
<1>10. CASE Register \/ GraphUnbuilt \/ Launch \/ StreamIdle \/ TakeCard \/ Leave
  BY <1>10 DEF Register, GraphUnbuilt, Launch, StreamIdle, TakeCard, Leave
<1>11. CASE UNCHANGED turnVars
  BY <1>11 DEF turnVars, loopVars
<1> QED BY <1>3, <1>4, <1>5, <1>6, <1>7, <1>8, <1>9, <1>10, <1>11 DEF TurnNext, Loops

\* An event sent is an event more.
LEMMA SendKeeps ==
  ASSUME stream \in Seq(Events), NEW event \in Events, UNCHANGED stream \/ Send(event)
  PROVE  stream' \in Seq(Events)
  BY AppendProperties DEF Send

\* Whatever the executor does, the types hold.
LEMMA ExecutesTypes == TypeInv /\ Executes => TypeInv'
<1> SUFFICES ASSUME TypeInv, Executes PROVE TypeInv'
  OBVIOUS
<1> USE TurnAssumption DEF graphVars, loopVars, steerVars, TypeInv, TurnTypeOK, CountInv, PhaseInv
<1>1. CASE Generate
  <2> DEFINE slice == <<call, Len(said) + 1>>
  <2>1. slice \in Slices
    BY <1>1, LenProperties DEF Generate, Slices
  <2>2. said' = Append(said, slice) /\ said' \in Seq(Slices)
    BY <1>1, <2>1, AppendProperties DEF Generate
  <2>3. Token(slice) \in Events
    BY <2>1 DEF Token, Events
  <2>4. stream' \in Seq(Events)
    <3>1. UNCHANGED stream \/ stream' = Append(stream, Token(slice))
      BY <1>1 DEF Generate, Send
    <3>2. stream \in Seq(Events)
      OBVIOUS
    <3> HIDE DEF slice
    <3> QED BY <2>3, <3>1, <3>2, SendKeeps DEF Send
  <2> HIDE DEF slice
  <2> QED BY <1>1, <2>2, <2>4 DEF Generate
<1>2. ASSUME NEW batch \in SUBSET Tools, AskTools(batch) PROVE TypeInv'
  BY <1>2 DEF AskTools, Kept, Entries
<1>3. CASE Complete
  BY <1>3 DEF Complete, Send, Finished, Events, Hows
<1>4. CASE NodeFails
  BY <1>4 DEF NodeFails, Send, Finished, Events, Hows
<1>5. CASE StopGraph
  BY <1>5 DEF StopGraph, Kept, Send, Finished, Events, Hows
<1>6. CASE Proceed
  <2>1. convo' \in Seq(Entries) /\ inbox' \in Seq(Steers)
    <3>1. CASE Absorbs
      <4>1. [i \in DOMAIN inbox |-> [kind |-> "user", text |-> inbox[i]]] \in Seq(Entries)
        BY InboxEntries
      <4>2. convo' = convo \o [i \in DOMAIN inbox |-> [kind |-> "user", text |-> inbox[i]]] /\ inbox' = <<>>
        BY <1>6, <3>1 DEF Proceed, Absorb
      <4> QED BY <4>1, <4>2, ConcatProperties
    <3>2. CASE ~ Absorbs
      BY <1>6, <3>2 DEF Proceed, Absorb
    <3> QED BY <3>1, <3>2
  <2>2. CASE next = "agent"
    <3>1. call + 1 \in Calls /\ nodes = 2 * (call + 1) - 2
      <4>1. nodes = 2 * call /\ nodes < 2 * MaxSteps + 2 /\ call \in 0 .. MaxSteps + 1
        BY <1>6, <2>2 DEF Proceed, Budget
      <4> QED BY <4>1 DEF Calls
    <3>2. said' = <<>> /\ said' \in Seq(Slices)
      BY <1>6, <2>2 DEF Proceed
    <3> QED BY <1>6, <2>1, <2>2, <3>1, <3>2 DEF Proceed, Calls
  <2>3. CASE next = "tools"
    <3>1. tools' \in [Tools -> {"none", "asked", "opening", "working", "closing", "done"}]
      BY <1>6, <2>3 DEF Proceed
    <3> QED BY <1>6, <2>1, <2>3, <3>1 DEF Proceed
  <2> QED BY <2>2, <2>3
<1>7. CASE Interrupt
  BY <1>7 DEF Interrupt, Send, Finished, Events, Hows
<1>8. CASE Results
  BY <1>8 DEF Results, Entries
<1> QED BY <1>1, <1>2, <1>3, <1>4, <1>5, <1>6, <1>7, <1>8 DEF Executes

\* The cards applied are of known calls and tools.
LEMMA AppliedKeeps ==
  ASSUME TypeInv, NEW applied \in Seq(Calls \X Tools \X {"started", "done"}), Applied(applied)
  PROVE  /\ closed' \subseteq Calls \X Tools
         /\ tools' \in [Tools -> {"none", "asked", "opening", "working", "closing", "done"}]
         /\ graph # "tools" => tools' = [t \in Tools |-> "none"]
<1>1. closed \subseteq Calls \X Tools
  BY DEF TypeInv, TurnTypeOK
<1>2. \A c \in Range(applied) : c \in Calls \X Tools \X {"started", "done"}
  BY RangeOfSeq
<1>3. \A c \in Range(applied) : <<c[1], c[2]>> \in Calls \X Tools
  BY <1>2
<1>4. closed' \subseteq Calls \X Tools
  BY <1>1, <1>3 DEF Applied
<1>5. tools \in [Tools -> {"none", "asked", "opening", "working", "closing", "done"}]
  BY DEF TypeInv, TurnTypeOK
<1>6. tools' \in [Tools -> {"none", "asked", "opening", "working", "closing", "done"}]
  BY <1>5 DEF Applied
<1>7. ASSUME graph # "tools" PROVE tools' = [t \in Tools |-> "none"]
  <2>1. tools = [t \in Tools |-> "none"]
    BY <1>7 DEF TypeInv, PhaseInv
  <2> QED BY <2>1 DEF Applied
<1> QED BY <1>4, <1>6, <1>7

\* Whatever the tools do, the types hold.
LEMMA RunsToolTypes ==
  ASSUME TypeInv, NEW t \in Tools, RunsTool(t)
  PROVE  TypeInv'
<1> USE DEF graphVars, loopVars, steerVars, TypeInv, TurnTypeOK, CountInv, PhaseInv
<1>1. graph = "tools" /\ call \in Calls
  BY DEF RunsTool, StartTool, EndTool
<1>2. PICK kind \in {"started", "done"} : Queue(t, kind)
  BY DEF RunsTool, StartTool, EndTool
<1>3. cards' = Append(cards, <<call, t, kind>>) /\ <<call, t, kind>> \in Calls \X Tools \X {"started", "done"}
  BY <1>1, <1>2 DEF Queue
<1>4. cards \in Seq(Calls \X Tools \X {"started", "done"})
  OBVIOUS
<1>5. cards' \in Seq(Calls \X Tools \X {"started", "done"})
  BY <1>3, <1>4, AppendProperties
<1>6. PICK state \in {"opening", "closing"} : tools' = [tools EXCEPT ![t] = state]
  BY <1>2 DEF Queue
<1>7. tools' \in [Tools -> {"none", "asked", "opening", "working", "closing", "done"}]
  BY <1>6
<1> QED BY <1>1, <1>5, <1>7 DEF RunsTool, StartTool, EndTool

\* Whatever the turn's own task does, the types hold.
LEMMA LoopsTypes == TypeInv /\ Loops => TypeInv'
<1> SUFFICES ASSUME TypeInv, Loops PROVE TypeInv'
  OBVIOUS
<1>1. answer' \in Seq(Slices) /\ row' \in Seq(Slices) /\ flushed' \in 0 .. Len(answer')
  <2>1. TurnTypeOK /\ [TurnNext]_turnVars
    BY DEF TypeInv, TurnNext
  <2>2. CASE UNCHANGED <<answer, flushed, row>>
    BY <2>1, <2>2 DEF TurnTypeOK
  <2>3. CASE \E extra : Published(extra)
    BY <2>1, <2>3, PublishedKeeps
  <2> QED BY <2>1, <2>2, <2>3, Publishing
<1>2. stream' \in Seq(Events)
  BY HeadTailProperties
  DEF Loops, EndEarly, Register, GraphUnbuilt, NothingToAnswer, Launch, TakeToken, StreamIdle, TakeCard,
    TakeOutcome, Leave, TypeInv
<1> USE DEF graphVars, loopVars, steerVars, TypeInv, TurnTypeOK, CountInv, PhaseInv, Moves
<1>3. CASE EndEarly
  BY <1>1, <1>2, <1>3 DEF EndEarly, Seal
<1>4. CASE Register
  BY <1>4 DEF Register
<1>5. CASE GraphUnbuilt
  BY <1>5 DEF GraphUnbuilt
<1>6. CASE NothingToAnswer
  BY <1>1, <1>2, <1>6 DEF NothingToAnswer, Seal
<1>7. CASE Launch
  BY <1>7 DEF Launch
<1>8. CASE TakeToken
  BY <1>1, <1>2, <1>8 DEF TakeToken
<1>9. CASE StreamIdle
  BY <1>9 DEF StreamIdle
<1>10. CASE TakeCard
  <2>1. CASE cards = <<>>
    BY <1>10, <2>1 DEF TakeCard
  <2>2. CASE cards # <<>>
    <3>1. /\ Head(cards) \in Calls \X Tools \X {"started", "done"}
          /\ Tail(cards) \in Seq(Calls \X Tools \X {"started", "done"})
      BY <2>2, HeadTailProperties
    <3>2. Applied(<<Head(cards)>>) /\ cards' = Tail(cards)
      BY <1>10, <2>2 DEF TakeCard
    <3>3. <<Head(cards)>> \in Seq(Calls \X Tools \X {"started", "done"})
      BY <3>1
    <3>4. /\ closed' \subseteq Calls \X Tools
          /\ tools' \in [Tools -> {"none", "asked", "opening", "working", "closing", "done"}]
          /\ graph # "tools" => tools' = [t \in Tools |-> "none"]
      BY <3>2, <3>3, AppliedKeeps
    <3> QED BY <1>10, <3>1, <3>2, <3>4 DEF TakeCard
  <2> QED BY <2>1, <2>2
<1>11. CASE TakeOutcome
  <2>1. /\ closed' \subseteq Calls \X Tools
        /\ tools' \in [Tools -> {"none", "asked", "opening", "working", "closing", "done"}]
        /\ graph # "tools" => tools' = [t \in Tools |-> "none"]
    BY <1>11, AppliedKeeps DEF TakeOutcome
  <2>2. PICK text \in {<<>>, last}, more \in {<<>>, <<Spent>>}, how \in {"finished", "failed"} : Seal(how, text, more)
    BY <1>11 DEF TakeOutcome
  <2>3. UNCHANGED <<graphVars, live, stop, steerVars>> /\ cards' = <<>>
    BY <1>11 DEF TakeOutcome
  <2>4. ending' = how /\ loop' = "leaving"
    BY <2>2 DEF Seal
  <2>5. cards' \in Seq(Calls \X Tools \X {"started", "done"})
    BY <2>3
  <2> QED BY <1>1, <1>2, <2>1, <2>3, <2>4, <2>5
<1>12. CASE Leave
  BY <1>12 DEF Leave
<1> QED BY <1>3, <1>4, <1>5, <1>6, <1>7, <1>8, <1>9, <1>10, <1>11, <1>12 DEF Loops

\* Whatever the user does, the types hold.
LEMMA UserTypes ==
  ASSUME TypeInv, PressStop \/ \E m \in Steers : FindRun(m) \/ Post(m) \/ Record(m)
  PROVE  TypeInv'
<1>0. ASSUME NEW m \in Steers PROVE Append(thread, m) \in Seq(Steers)
  BY AppendProperties DEF TypeInv, TurnTypeOK
<1> USE DEF graphVars, loopVars, steerVars, TypeInv, TurnTypeOK, CountInv, PhaseInv, Goes
<1>1. CASE PressStop
  BY <1>1 DEF PressStop
<1>2. ASSUME NEW m \in Steers, FindRun(m) PROVE TypeInv'
  BY <1>2 DEF FindRun
<1>3. ASSUME NEW m \in Steers, Post(m) PROVE TypeInv'
  BY <1>3, AppendProperties DEF Post
<1>4. ASSUME NEW m \in Steers, Record(m) PROVE TypeInv'
  <2>1. thread' \in Seq(Steers)
    BY <1>0, <1>4 DEF Record
  <2>2. steer' \in [Steers -> {"typed", "found", "posted", "recorded", "accepted", "refused", "failed"}]
    BY <1>4 DEF Record
  <2> QED BY <1>4, <2>1, <2>2 DEF Record
<1> QED BY <1>1, <1>2, <1>3, <1>4

\* One step of anybody keeps the types.
LEMMA TypeStep == TypeInv /\ [TurnNext]_turnVars => TypeInv'
<1> SUFFICES ASSUME TypeInv, [TurnNext]_turnVars PROVE TypeInv'
  OBVIOUS
<1>1. CASE UNCHANGED turnVars
  BY <1>1 DEF turnVars, graphVars, loopVars, steerVars, TypeInv, TurnTypeOK, CountInv, PhaseInv
<1> QED BY <1>1, ExecutesTypes, RunsToolTypes, LoopsTypes, UserTypes DEF TurnNext

\* The types of a turn of any length.
THEOREM TurnTypes == TurnSpec => []TurnTypeOK
<1>1. TypeInv => TurnTypeOK
  BY DEF TypeInv
<1> QED BY <1>1, TypeInit, TypeStep, PTL DEF TurnSpec

-----------------------------------------------------------------------------
(* The stored answer. *)

\* The row holds what was flushed.
RowInv == row = SubSeq(answer, 1, flushed)

\* The row follows the answer by publishing, and by nothing else.
LEMMA RowStep == TypeInv /\ RowInv /\ [TurnNext]_turnVars => RowInv'
  BY Publishing, PublishedKeeps DEF RowInv, TypeInv

\* metal.rs, flush.  Whichever writes fail, of an answer of any length, the assistant
\* row is a prefix of what was published.
THEOREM StoredAnswerIsAPrefix == TurnSpec => []StoredIsAPrefix
<1>1. TurnInit => RowInv
  BY SubSeqEmpty DEF TurnInit, RowInv
<1>2. TypeInv /\ RowInv => StoredIsAPrefix
  <2> SUFFICES ASSUME TypeInv, RowInv PROVE StoredIsAPrefix
    OBVIOUS
  <2>1. answer \in Seq(Slices) /\ row \in Seq(Slices) /\ flushed \in 0 .. Len(answer)
    BY DEF TypeInv, TurnTypeOK
  <2>2. \A i \in 1 .. flushed : answer[i] \in Slices
    BY <2>1, ElementOfSeq, LenProperties
  <2>3. Len(row) = flushed
    BY <2>1, <2>2, LenProperties, SubSeqProperties DEF RowInv
  <2>4. SubSeq(row, 1, Len(row)) = row
    BY <2>1, SubSeqFull
  <2> QED BY <2>1, <2>3, <2>4 DEF RowInv, StoredIsAPrefix, IsPrefix
<1> QED BY <1>1, <1>2, TypeInit, TypeStep, RowStep, PTL DEF TurnSpec

-----------------------------------------------------------------------------
(* The conversation. *)

\* The model has asked, and the results of its batch are not in yet.
Asking == graph = "tools" \/ (graph = "boundary" /\ next = "tools")

\* The model is about to run, or running.
Thinking == graph \in {"unborn", "agent"} \/ (graph = "boundary" /\ next = "agent")

\* Where the conversation ends, by what the graph is doing.
ConvoInv ==
  /\ NoOrphanedCalls
  /\ Asking => convo # <<>> /\ Last(convo).kind = "calls" /\ Last(convo).call = call
  /\ Thinking => convo = <<>> \/ Last(convo).kind # "calls"

\* A user message, or none, joins after an entry that is no tool call.
LEMMA UsersJoin ==
  ASSUME convo \in Seq(Entries), NoOrphanedCalls, convo = <<>> \/ Last(convo).kind # "calls",
         NEW users \in Seq(Entries), \A i \in 1 .. Len(users) : users[i].kind = "user",
         convo' = convo \o users
  PROVE  NoOrphanedCalls' /\ (convo' = <<>> \/ Last(convo').kind # "calls")
<1>1. Len(convo) \in Nat /\ Len(users) \in Nat
  BY LenProperties
<1>2. /\ convo' \in Seq(Entries) /\ Len(convo') = Len(convo) + Len(users)
      /\ \A i \in 1 .. Len(convo) + Len(users) :
           convo'[i] = IF i <= Len(convo) THEN convo[i] ELSE users[i - Len(convo)]
  BY ConcatProperties
<1>3. \A i \in 1 .. Len(convo) : convo'[i] = convo[i]
  BY <1>1, <1>2
<1>4. \A i \in Len(convo) + 1 .. Len(convo') : convo'[i].kind = "user"
  <2> TAKE i \in Len(convo) + 1 .. Len(convo')
  <2>1. i - Len(convo) \in 1 .. Len(users) /\ convo'[i] = users[i - Len(convo)]
    BY <1>1, <1>2
  <2> QED BY <2>1
<1>5. ASSUME NEW i \in 1 .. Len(convo') - 1, convo'[i].kind = "calls"
      PROVE  convo'[i + 1].kind = "results"
  <2>1. i \in 1 .. Len(convo)
    BY <1>1, <1>2, <1>4, <1>5
  <2>2. i # Len(convo)
    BY <1>1, <1>3, <1>5, <2>1 DEF Last
  <2>3. i \in 1 .. Len(convo) - 1 /\ i + 1 \in 1 .. Len(convo)
    BY <1>1, <2>1, <2>2
  <2> QED BY <1>3, <1>5, <2>1, <2>3 DEF NoOrphanedCalls
<1>6. convo' = <<>> \/ Last(convo').kind # "calls"
  <2>1. CASE Len(users) = 0
    <3>1. users = <<>> /\ convo' = convo
      BY <2>1, ConcatEmptySeq, EmptySeq
    <3> QED BY <3>1
  <2>2. CASE Len(users) # 0
    BY <1>1, <1>2, <1>4, <2>2 DEF Last
  <2> QED BY <2>1, <2>2
<1> QED BY <1>5, <1>6 DEF NoOrphanedCalls

\* One step of anybody keeps the conversation well formed.
LEMMA ConvoStep == TypeInv /\ ConvoInv /\ [TurnNext]_turnVars => ConvoInv'
<1> SUFFICES ASSUME TypeInv, ConvoInv, [TurnNext]_turnVars PROVE ConvoInv'
  OBVIOUS
<1>1. convo \in Seq(Entries) /\ Len(convo) \in Nat
  BY LenProperties DEF TypeInv
<1>2. CASE UNCHANGED <<graph, next, call, convo>>
  BY <1>2 DEF ConvoInv, NoOrphanedCalls, Asking, Thinking
<1>3. ASSUME graph' = "over", UNCHANGED convo PROVE ConvoInv'
  BY <1>3 DEF ConvoInv, NoOrphanedCalls, Asking, Thinking
<1>4. ASSUME NEW batch \in SUBSET Tools, AskTools(batch) PROVE ConvoInv'
  <2> DEFINE entry == [kind |-> "calls", call |-> call, batch |-> batch]
  <2>1. entry \in Entries /\ convo' = Append(convo, entry)
    BY <1>4 DEF AskTools, Entries, TypeInv, CountInv
  <2>2. convo = <<>> \/ Last(convo).kind # "calls"
    BY <1>4 DEF AskTools, ConvoInv, Thinking
  <2>3. /\ Len(convo') = Len(convo) + 1 /\ convo'[Len(convo) + 1] = entry
        /\ \A i \in 1 .. Len(convo) : convo'[i] = convo[i]
    BY <1>1, <2>1, AppendProperties
  <2>4. ASSUME NEW i \in 1 .. Len(convo') - 1, convo'[i].kind = "calls"
        PROVE  convo'[i + 1].kind = "results"
    <3>1. i \in 1 .. Len(convo) /\ convo[i].kind = "calls"
      BY <1>1, <2>3, <2>4
    <3>2. i # Len(convo)
      BY <1>1, <2>2, <3>1 DEF Last
    <3>3. i \in 1 .. Len(convo) - 1 /\ i + 1 \in 1 .. Len(convo)
      BY <1>1, <3>1, <3>2
    <3> QED BY <2>3, <3>1, <3>3 DEF ConvoInv, NoOrphanedCalls
  <2>5. convo' # <<>> /\ Last(convo').kind = "calls" /\ Last(convo').call = call
    BY <1>1, <2>3 DEF Last
  <2> QED BY <1>4, <2>4, <2>5 DEF ConvoInv, NoOrphanedCalls, AskTools, Asking, Thinking
<1>5. CASE Proceed /\ next = "tools"
  BY <1>5 DEF Proceed, Absorb, Absorbs, ConvoInv, NoOrphanedCalls, Asking, Thinking
<1>6. CASE Proceed /\ next = "agent"
  <2> DEFINE users == [i \in DOMAIN inbox |-> [kind |-> "user", text |-> inbox[i]]]
  <2>1. users \in Seq(Entries) /\ convo' = convo \o users
    BY <1>6, InboxEntries DEF Proceed, Absorb, Absorbs
  <2>2. \A i \in 1 .. Len(users) : users[i].kind = "user"
    BY <2>1, LenProperties
  <2>3. NoOrphanedCalls /\ (convo = <<>> \/ Last(convo).kind # "calls")
    BY <1>6 DEF Proceed, ConvoInv, Thinking
  <2>4. NoOrphanedCalls' /\ (convo' = <<>> \/ Last(convo').kind # "calls")
    <3> HIDE DEF users
    <3> QED BY <1>1, <2>1, <2>2, <2>3, UsersJoin
  <2> QED BY <1>6, <2>4 DEF Proceed, ConvoInv, Asking, Thinking
<1>7. CASE Results
  <2> DEFINE entry == [kind |-> "results"]
  <2>1. entry \in Entries /\ convo' = Append(convo, entry)
    BY <1>7 DEF Results, Entries
  <2>2. /\ Len(convo') = Len(convo) + 1 /\ convo'[Len(convo) + 1] = entry
        /\ \A i \in 1 .. Len(convo) : convo'[i] = convo[i]
    BY <1>1, <2>1, AppendProperties
  <2>3. ASSUME NEW i \in 1 .. Len(convo') - 1, convo'[i].kind = "calls"
        PROVE  convo'[i + 1].kind = "results"
    <3>1. CASE i = Len(convo)
      BY <2>2, <3>1
    <3>2. CASE i # Len(convo)
      <4>1. i \in 1 .. Len(convo) - 1 /\ i + 1 \in 1 .. Len(convo) /\ i \in 1 .. Len(convo)
        BY <1>1, <2>2, <3>2
      <4> QED BY <2>2, <2>3, <4>1 DEF ConvoInv, NoOrphanedCalls
    <3> QED BY <3>1, <3>2
  <2>4. convo' # <<>> /\ Last(convo').kind # "calls"
    BY <1>1, <2>2 DEF Last
  <2> QED BY <1>7, <2>3, <2>4 DEF ConvoInv, NoOrphanedCalls, Results, Asking, Thinking
<1>8. CASE Launch
  BY <1>8 DEF Launch, Moves, ConvoInv, NoOrphanedCalls, Asking, Thinking, TypeInv, CountInv, PhaseInv
<1>9. CASE Complete \/ NodeFails \/ StopGraph \/ Interrupt
  BY <1>3, <1>9 DEF Complete, NodeFails, StopGraph, Interrupt
<1>10. CASE Generate \/ \E t \in Tools : RunsTool(t)
  BY <1>2, <1>10 DEF Generate, RunsTool, StartTool, EndTool, graphVars
<1>11. CASE EndEarly \/ Register \/ GraphUnbuilt \/ NothingToAnswer
  BY <1>2, <1>11 DEF EndEarly, Register, GraphUnbuilt, NothingToAnswer, graphVars
<1>12. CASE TakeToken \/ StreamIdle \/ TakeCard \/ TakeOutcome \/ Leave
  BY <1>2, <1>12 DEF TakeToken, StreamIdle, TakeCard, TakeOutcome, Leave, graphVars
<1>13. CASE PressStop \/ \E m \in Steers : FindRun(m) \/ Post(m) \/ Record(m)
  BY <1>2, <1>13 DEF PressStop, FindRun, Post, Record, graphVars
<1>14. CASE UNCHANGED turnVars
  BY <1>2, <1>14 DEF turnVars, graphVars
<1>15. Proceed => next \in {"agent", "tools"}
  BY DEF TypeInv, TurnTypeOK
<1> QED BY <1>4, <1>5, <1>6, <1>7, <1>8, <1>9, <1>10, <1>11, <1>12, <1>13, <1>14, <1>15
  DEF TurnNext, Executes, Loops

\* metal.rs, mailbox.  However many messages are typed into a turn, and whenever, none
\* comes between the model's calls and their results.
THEOREM CallsKeepTheirResults == TurnSpec => []NoOrphanedCalls
<1>1. TurnInit => ConvoInv
  BY DEF TurnInit, ConvoInv, NoOrphanedCalls, Asking, Thinking
<1>2. ConvoInv => NoOrphanedCalls
  BY DEF ConvoInv
<1> QED BY <1>1, <1>2, TypeInit, TypeStep, ConvoStep, PTL DEF TurnSpec

-----------------------------------------------------------------------------
(* The stream and the queue. *)

\* The outcome is the last event, and nothing runs once it is sent.
StreamInv ==
  \A i \in 1 .. Len(stream) : stream[i].kind = "finished" => graph = "over" /\ i = Len(stream)

\* A tool that waits has its one card in the queue, and no other tool has one.
QueueInv ==
  /\ graph = "tools" =>
       /\ \A i \in 1 .. Len(cards) :
            /\ cards[i][1] = call
            /\ tools[cards[i][2]] = IF cards[i][3] = "started" THEN "opening" ELSE "closing"
       /\ \A i, j \in 1 .. Len(cards) : cards[i][2] = cards[j][2] => i = j
  /\ graph \in {"unborn", "agent", "boundary"} => cards = <<>>

\* What an append to the stream, and a look at its head, leave there.
LEMMA SentEvents ==
  ASSUME stream \in Seq(Events), NEW event \in Events, Send(event)
  PROVE  /\ Len(stream') = Len(stream) + 1 /\ Len(stream) \in Nat
         /\ stream'[Len(stream) + 1] = event
         /\ \A i \in 1 .. Len(stream) : stream'[i] = stream[i]
  BY AppendProperties, LenProperties DEF Send

\* What taking the first event leaves.
LEMMA TakenEvents ==
  ASSUME stream \in Seq(Events), stream # <<>>, stream' = Tail(stream)
  PROVE  /\ Len(stream') = Len(stream) - 1 /\ Len(stream) \in Nat /\ Len(stream) > 0
         /\ \A i \in 1 .. Len(stream') : i + 1 \in 1 .. Len(stream) /\ stream'[i] = stream[i + 1]
         /\ Head(stream) = stream[1]
<1>1. Len(stream) \in Nat \ {0}
  BY EmptySeq
<1>2. Len(stream') = Len(stream) - 1 /\ \A i \in 1 .. Len(stream') : stream'[i] = stream[i + 1]
  BY HeadTailProperties
<1> QED BY <1>1, <1>2

\* Only what the graph is doing decides whether the last event may be the outcome.
LEMMA StreamStep == TypeInv /\ StreamInv /\ [TurnNext]_turnVars => StreamInv'
<1> SUFFICES ASSUME TypeInv, StreamInv, [TurnNext]_turnVars PROVE StreamInv'
  OBVIOUS
<1>1. stream \in Seq(Events)
  BY DEF TypeInv
<1>2. CASE UNCHANGED stream /\ (graph # "over" \/ graph' = graph)
  BY <1>2 DEF StreamInv
<1>3. ASSUME NEW how \in Hows, Send(Finished(how)), graph # "over", graph' = "over" PROVE StreamInv'
  <2>1. Finished(how) \in Events
    BY DEF Finished, Events
  <2> QED BY <1>1, <1>3, <2>1, SentEvents DEF StreamInv
<1>4. CASE Generate
  <2>1. CASE UNCHANGED stream
    BY <1>2, <1>4, <2>1 DEF Generate
  <2>2. CASE Send(Token(<<call, Len(said) + 1>>))
    <3>1. Token(<<call, Len(said) + 1>>) \in Events
      <4>1. said \in Seq(Slices) /\ MaxTokens \in Nat /\ Len(said) < MaxTokens /\ call \in Calls
        BY <1>4, TurnAssumption DEF Generate, TypeInv, TurnTypeOK, CountInv
      <4>2. <<call, Len(said) + 1>> \in Slices
        BY <4>1, LenProperties DEF Slices
      <4> QED BY <4>2 DEF Token, Events
    <3>2. Token(<<call, Len(said) + 1>>).kind = "token"
      BY DEF Token
    <3> QED BY <1>1, <1>4, <2>2, <3>1, <3>2, SentEvents DEF Generate, StreamInv
  <2> QED BY <1>4, <2>1, <2>2 DEF Generate
<1>5. CASE Complete \/ NodeFails \/ StopGraph \/ Interrupt
  BY <1>3, <1>5 DEF Complete, NodeFails, StopGraph, Interrupt, Hows
<1>6. CASE TakeToken \/ TakeOutcome
  <2>1. stream # <<>> /\ stream' = Tail(stream) /\ graph' = graph
    BY <1>6 DEF TakeToken, TakeOutcome, graphVars
  <2>2. /\ Len(stream') = Len(stream) - 1 /\ Len(stream) \in Nat
        /\ \A i \in 1 .. Len(stream') : i + 1 \in 1 .. Len(stream) /\ stream'[i] = stream[i + 1]
    BY <1>1, <2>1, TakenEvents
  <2>3. ASSUME NEW i \in 1 .. Len(stream'), stream'[i].kind = "finished"
        PROVE  graph' = "over" /\ i = Len(stream')
    <3>1. graph = "over" /\ i + 1 = Len(stream)
      BY <2>2, <2>3 DEF StreamInv
    <3>2. i \in Int /\ i = Len(stream')
      BY <2>2, <3>1
    <3> QED BY <2>1, <3>1, <3>2
  <2> QED BY <2>3 DEF StreamInv
<1>7. CASE Proceed \/ Results \/ \E batch \in SUBSET Tools : AskTools(batch)
  BY <1>2, <1>7 DEF Proceed, Results, AskTools
<1>8. CASE \E t \in Tools : RunsTool(t)
  BY <1>2, <1>8 DEF RunsTool, StartTool, EndTool, graphVars
<1>9. CASE EndEarly \/ Register \/ GraphUnbuilt \/ NothingToAnswer
  BY <1>2, <1>9 DEF EndEarly, Register, GraphUnbuilt, NothingToAnswer, graphVars
<1>10. CASE Launch
  BY <1>2, <1>10 DEF Launch, Moves, TypeInv, PhaseInv
<1>11. CASE StreamIdle \/ TakeCard \/ Leave
  BY <1>2, <1>11 DEF StreamIdle, TakeCard, Leave, graphVars
<1>12. CASE PressStop \/ \E m \in Steers : FindRun(m) \/ Post(m) \/ Record(m)
  BY <1>2, <1>12 DEF PressStop, FindRun, Post, Record, graphVars
<1>13. CASE UNCHANGED turnVars
  BY <1>2, <1>13 DEF turnVars, graphVars
<1> QED BY <1>4, <1>5, <1>6, <1>7, <1>8, <1>9, <1>10, <1>11, <1>12, <1>13 DEF TurnNext, Executes, Loops

\* The loop takes the outcome once the graph is over, as the only event left.
LEMMA OutcomeIsLast ==
  ASSUME TypeInv, StreamInv, TakeOutcome
  PROVE  graph = "over" /\ Len(stream) = 1 /\ stream' = <<>>
<1>1. stream \in Seq(Events) /\ stream # <<>> /\ stream' = Tail(stream) /\ Head(stream).kind = "finished"
  BY DEF TypeInv, TakeOutcome
<1>2. Head(stream) = stream[1] /\ Len(stream) \in Nat /\ Len(stream) > 0 /\ Len(stream') = Len(stream) - 1
  BY <1>1, TakenEvents
<1>3. graph = "over" /\ Len(stream) = 1
  <2>1. 1 \in 1 .. Len(stream) /\ stream[1].kind = "finished"
    BY <1>1, <1>2
  <2> QED BY <2>1 DEF StreamInv
<1>4. stream' \in Seq(Events) /\ Len(stream') = 0
  BY <1>1, <1>2, <1>3, HeadTailProperties
<1> QED BY <1>3, <1>4, EmptySeq

\* A card applied alone: its tool moves on, and no other.
LEMMA AppliedHead ==
  ASSUME TypeInv, cards # <<>>, Applied(<<Head(cards)>>)
  PROVE  /\ Head(cards) = cards[1] /\ cards[1] \in Calls \X Tools \X {"started", "done"}
         /\ Len(cards) \in Nat /\ Len(cards) > 0
         /\ closed' = closed \cup (IF cards[1][3] = "done" THEN {<<cards[1][1], cards[1][2]>>} ELSE {})
         /\ \A t \in Tools :
              tools'[t] = IF t = cards[1][2] /\ tools[t] = "opening" THEN "working"
                          ELSE IF t = cards[1][2] /\ tools[t] = "closing" THEN "done" ELSE tools[t]
<1>1. cards \in Seq(Calls \X Tools \X {"started", "done"})
  BY DEF TypeInv, TurnTypeOK
<1>2. Head(cards) = cards[1] /\ Len(cards) \in Nat /\ Len(cards) > 0
  BY <1>1, EmptySeq
<1>3. cards[1] \in Calls \X Tools \X {"started", "done"}
  BY <1>1, <1>2, ElementOfSeq
<1>4. Range(<<Head(cards)>>) = {cards[1]}
  BY <1>2 DEF Range
<1>5. closed' = closed \cup (IF cards[1][3] = "done" THEN {<<cards[1][1], cards[1][2]>>} ELSE {})
  BY <1>4 DEF Applied
<1>6. ASSUME NEW t \in Tools
      PROVE  tools'[t] = IF t = cards[1][2] /\ tools[t] = "opening" THEN "working"
                         ELSE IF t = cards[1][2] /\ tools[t] = "closing" THEN "done" ELSE tools[t]
  BY <1>4 DEF Applied
<1> QED BY <1>2, <1>3, <1>5, <1>6

\* A tool that queues a card had none there.
LEMMA QueueGrows ==
  ASSUME TypeInv, QueueInv, NEW t \in Tools, RunsTool(t)
  PROVE  QueueInv'
<1>1. graph = "tools" /\ call \in Calls /\ UNCHANGED <<graph, call>> /\ tools[t] \in {"asked", "working"}
  BY DEF RunsTool, StartTool, EndTool, TypeInv, CountInv, PhaseInv, graphVars
<1>2. PICK kind \in {"started", "done"} : Queue(t, kind)
  BY DEF RunsTool, StartTool, EndTool
<1>3. /\ cards \in Seq(Calls \X Tools \X {"started", "done"})
      /\ <<call, t, kind>> \in Calls \X Tools \X {"started", "done"}
  BY <1>1 DEF TypeInv, TurnTypeOK
<1>4. /\ Len(cards') = Len(cards) + 1 /\ Len(cards) \in Nat /\ cards'[Len(cards) + 1] = <<call, t, kind>>
      /\ \A i \in 1 .. Len(cards) : cards'[i] = cards[i]
  BY <1>2, <1>3, AppendProperties, LenProperties DEF Queue
<1>5. \A i \in 1 .. Len(cards) : cards[i][2] \in Tools /\ cards[i][2] # t
  <2> TAKE i \in 1 .. Len(cards)
  <2>1. cards[i] \in Calls \X Tools \X {"started", "done"}
    BY <1>3, ElementOfSeq
  <2>2. tools[cards[i][2]] \in {"opening", "closing"}
    BY <1>1 DEF QueueInv
  <2> QED BY <1>1, <2>1, <2>2
<1>6. tools' = [tools EXCEPT ![t] = IF kind = "started" THEN "opening" ELSE "closing"]
  BY <1>2 DEF Queue
<1>7. tools'[t] = (IF kind = "started" THEN "opening" ELSE "closing") /\ \A u \in Tools \ {t} : tools'[u] = tools[u]
  BY <1>6 DEF TypeInv, TurnTypeOK
<1>8. \A i \in 1 .. Len(cards') :
        /\ cards'[i][1] = call
        /\ tools'[cards'[i][2]] = IF cards'[i][3] = "started" THEN "opening" ELSE "closing"
  <2> TAKE i \in 1 .. Len(cards')
  <2>1. CASE i = Len(cards) + 1
    BY <1>4, <1>7, <2>1
  <2>2. CASE i # Len(cards) + 1
    <3>1. i \in 1 .. Len(cards) /\ cards'[i] = cards[i]
      BY <1>4, <2>2
    <3>2. cards[i][2] \in Tools \ {t}
      BY <1>5, <3>1
    <3> QED BY <1>1, <1>7, <3>1, <3>2 DEF QueueInv
  <2> QED BY <2>1, <2>2
<1>9. \A i, j \in 1 .. Len(cards') : cards'[i][2] = cards'[j][2] => i = j
  <2>1. \A i \in 1 .. Len(cards') : i = Len(cards) + 1 \/ i \in 1 .. Len(cards)
    BY <1>4
  <2>2. \A i \in 1 .. Len(cards) : cards'[i][2] # t
    BY <1>4, <1>5
  <2>3. cards'[Len(cards) + 1][2] = t
    BY <1>4
  <2>4. \A i, j \in 1 .. Len(cards) : cards'[i][2] = cards'[j][2] => i = j
    BY <1>1, <1>4 DEF QueueInv
  <2> QED BY <2>1, <2>2, <2>3, <2>4
<1> QED BY <1>1, <1>8, <1>9 DEF QueueInv

\* The card applied was its tool's only one.
LEMMA QueueShrinks ==
  ASSUME TypeInv, QueueInv, cards # <<>>, Applied(<<Head(cards)>>), cards' = Tail(cards),
         UNCHANGED <<graph, call>>
  PROVE  QueueInv'
<1>1. cards \in Seq(Calls \X Tools \X {"started", "done"})
  BY DEF TypeInv, TurnTypeOK
<1>2. CASE graph = "tools"
  <2>1. /\ Len(cards') = Len(cards) - 1 /\ Len(cards) \in Nat
        /\ \A i \in 1 .. Len(cards') : cards'[i] = cards[i + 1]
    BY <1>1, HeadTailProperties, LenProperties
  <2>2. \A i \in 1 .. Len(cards') : i + 1 \in 1 .. Len(cards) /\ i + 1 # 1
    BY <2>1
  <2>3. \A i \in 1 .. Len(cards') : cards[i + 1][2] \in Tools
    BY <1>1, <2>2, ElementOfSeq
  <2>4. 1 \in 1 .. Len(cards)
    BY AppliedHead
  <2>5. \A i \in 1 .. Len(cards') : tools'[cards[i + 1][2]] = tools[cards[i + 1][2]]
    BY <1>2, <2>2, <2>3, <2>4, AppliedHead DEF QueueInv
  <2>6. \A i \in 1 .. Len(cards') :
          /\ cards'[i][1] = call
          /\ tools'[cards'[i][2]] = IF cards'[i][3] = "started" THEN "opening" ELSE "closing"
    BY <1>2, <2>1, <2>2, <2>5 DEF QueueInv
  <2>7. ASSUME NEW i \in 1 .. Len(cards'), NEW j \in 1 .. Len(cards'), cards'[i][2] = cards'[j][2]
        PROVE  i = j
    <3>1. i + 1 = j + 1
      BY <1>2, <2>1, <2>2, <2>7 DEF QueueInv
    <3> QED BY <3>1
  <2> QED BY <1>2, <2>6, <2>7 DEF QueueInv
<1>3. CASE graph # "tools"
  BY <1>3 DEF QueueInv
<1> QED BY <1>2, <1>3

\* One step of anybody keeps the queue in line with the tools.
LEMMA QueueStep == TypeInv /\ StreamInv /\ QueueInv /\ [TurnNext]_turnVars => QueueInv'
<1> SUFFICES ASSUME TypeInv, StreamInv, QueueInv, [TurnNext]_turnVars PROVE QueueInv'
  OBVIOUS
<1>1. CASE UNCHANGED <<graph, call, tools, cards>>
  BY <1>1 DEF QueueInv
<1>2. ASSUME graph' = "over" PROVE QueueInv'
  BY <1>2 DEF QueueInv
<1>3. ASSUME cards = <<>>, UNCHANGED cards PROVE QueueInv'
  BY <1>3 DEF QueueInv
<1>4. CASE Generate \/ Complete \/ NodeFails \/ StopGraph \/ Interrupt
  BY <1>1, <1>2, <1>4 DEF Generate, Complete, NodeFails, StopGraph, Interrupt
<1>5. CASE Proceed \/ \E batch \in SUBSET Tools : AskTools(batch)
  BY <1>3, <1>5 DEF Proceed, AskTools, QueueInv
<1>6. CASE Results
  <2>1. graph = "tools" /\ UNCHANGED cards /\ \A t \in Tools : tools[t] \in {"none", "done"}
    BY <1>6 DEF Results
  <2>2. cards \in Seq(Calls \X Tools \X {"started", "done"})
    BY DEF TypeInv, TurnTypeOK
  <2>3. ASSUME cards # <<>> PROVE FALSE
    <3>1. 1 \in 1 .. Len(cards)
      BY <2>2, <2>3, EmptySeq
    <3>2. cards[1][2] \in Tools
      BY <2>2, <3>1, ElementOfSeq
    <3>3. tools[cards[1][2]] \in {"opening", "closing"}
      BY <2>1, <3>1 DEF QueueInv
    <3> QED BY <2>1, <3>2, <3>3
  <2> QED BY <1>3, <2>1, <2>3
<1>7. CASE \E t \in Tools : RunsTool(t)
  BY <1>7, QueueGrows
<1>8. CASE EndEarly \/ Register \/ GraphUnbuilt \/ NothingToAnswer
  BY <1>1, <1>8 DEF EndEarly, Register, GraphUnbuilt, NothingToAnswer, graphVars
<1>9. CASE Launch
  BY <1>3, <1>9 DEF Launch, Moves, TypeInv, PhaseInv, QueueInv
<1>10. CASE TakeToken \/ StreamIdle \/ Leave
  BY <1>1, <1>10 DEF TakeToken, StreamIdle, Leave, graphVars
<1>11. CASE TakeCard
  BY <1>1, <1>11, QueueShrinks DEF TakeCard, graphVars
<1>12. CASE TakeOutcome
  BY <1>2, <1>12, OutcomeIsLast DEF TakeOutcome, graphVars
<1>13. CASE PressStop \/ \E m \in Steers : FindRun(m) \/ Post(m) \/ Record(m)
  BY <1>1, <1>13 DEF PressStop, FindRun, Post, Record, graphVars
<1>14. CASE UNCHANGED turnVars
  BY <1>1, <1>14 DEF turnVars, graphVars
<1> QED BY <1>4, <1>5, <1>6, <1>7, <1>8, <1>9, <1>10, <1>11, <1>12, <1>13, <1>14
  DEF TurnNext, Executes, Loops

-----------------------------------------------------------------------------
(* Cards come before later text. *)

\* Every tool of the batch that runs was asked for, and one that is done was closed.
ToolInv ==
  graph = "tools" => \A t \in Last(convo).batch :
    tools[t] # "none" /\ (tools[t] = "done" => <<call, t>> \in closed)

\* An entry whose batch may be open: the last call's, until its results are in.
OpenBatch(i) == i = Len(convo) /\ convo[i].call = call /\ (Asking \/ graph = "over")

\* Every other call's tools were shown as finished.
BatchInv ==
  \A i \in 1 .. Len(convo) : convo[i].kind = "calls" =>
    /\ convo[i].call \in Calls /\ convo[i].call <= call /\ convo[i].batch \subseteq Tools
    /\ OpenBatch(i) \/ \A t \in convo[i].batch : <<convo[i].call, t>> \in closed

CardInv == TypeInv /\ StreamInv /\ QueueInv /\ ConvoInv

\* Where the conversation and the call stay, closing cards and ending the graph only help.
LEMMA BatchesStay ==
  ASSUME BatchInv, UNCHANGED <<convo, call>>, closed \subseteq closed',
         (Asking \/ graph = "over") => (Asking' \/ graph' = "over")
  PROVE  BatchInv'
  BY DEF BatchInv, OpenBatch

\* An entry that is no tool call joins the conversation while no batch is open.
LEMMA BatchesJoined ==
  ASSUME convo \in Seq(Entries), convo' \in Seq(Entries), Len(convo') >= Len(convo),
         \A i \in 1 .. Len(convo) : convo'[i] = convo[i],
         \A i \in Len(convo) + 1 .. Len(convo') : convo'[i].kind # "calls",
         \A i \in 1 .. Len(convo) : convo[i].kind = "calls" =>
           /\ convo[i].call \in Calls /\ convo[i].call <= call' /\ convo[i].batch \subseteq Tools
           /\ \A t \in convo[i].batch : <<convo[i].call, t>> \in closed',
         UNCHANGED closed
  PROVE  BatchInv'
<1>1. Len(convo) \in Nat /\ Len(convo') \in Nat
  BY LenProperties
<1>2. ASSUME NEW i \in 1 .. Len(convo'), convo'[i].kind = "calls"
      PROVE  /\ convo'[i].call \in Calls /\ convo'[i].call <= call' /\ convo'[i].batch \subseteq Tools
             /\ \A t \in convo'[i].batch : <<convo'[i].call, t>> \in closed'
  <2>1. i \in 1 .. Len(convo) /\ convo'[i] = convo[i]
    BY <1>1, <1>2
  <2> QED BY <1>2, <2>1
<1> QED BY <1>2 DEF BatchInv

\* The batch at work is of tools there are.
LEMMA LastBatch ==
  ASSUME CardInv, Asking
  PROVE  Last(convo).batch \subseteq Tools
<1>1. convo \in Seq(Entries) /\ convo # <<>> /\ Last(convo).kind = "calls"
  BY DEF CardInv, TypeInv, ConvoInv
<1>2. Last(convo) \in Entries
  BY <1>1, EmptySeq, ElementOfSeq DEF Last
<1> QED BY <1>1, <1>2 DEF Entries

\* Nothing but its own results ends a batch, and they come when its cards are closed.
LEMMA BatchStep == CardInv /\ ToolInv /\ BatchInv /\ [TurnNext]_turnVars => ToolInv' /\ BatchInv'
<1> SUFFICES ASSUME CardInv, ToolInv, BatchInv, [TurnNext]_turnVars PROVE ToolInv' /\ BatchInv'
  OBVIOUS
<1>1. convo \in Seq(Entries) /\ Len(convo) \in Nat /\ call \in 0 .. MaxSteps + 1 /\ MaxSteps \in Nat
  BY LenProperties, TurnAssumption DEF CardInv, TypeInv, TurnTypeOK
<1>2. CASE UNCHANGED <<graph, next, call, convo, tools, closed>>
  BY <1>2, BatchesStay DEF ToolInv, Asking
<1>3. ASSUME graph' = "over", UNCHANGED <<call, convo, closed>> PROVE ToolInv' /\ BatchInv'
  BY <1>3, BatchesStay DEF ToolInv
<1>4. CASE Complete \/ NodeFails \/ StopGraph \/ Interrupt
  BY <1>3, <1>4 DEF Complete, NodeFails, StopGraph, Interrupt, loopVars
<1>5. ASSUME NEW batch \in SUBSET Tools, AskTools(batch) PROVE ToolInv' /\ BatchInv'
  <2> DEFINE entry == [kind |-> "calls", call |-> call, batch |-> batch]
  <2>1. call \in Calls /\ entry \in Entries /\ convo' = Append(convo, entry) /\ UNCHANGED <<call, closed>>
    BY <1>5 DEF AskTools, Entries, CardInv, TypeInv, CountInv, loopVars
  <2>2. /\ Len(convo') = Len(convo) + 1 /\ convo'[Len(convo) + 1] = entry
        /\ \A i \in 1 .. Len(convo) : convo'[i] = convo[i]
    BY <1>1, <2>1, AppendProperties
  <2>3. graph = "agent" /\ graph' = "boundary" /\ next' = "tools"
    BY <1>5 DEF AskTools
  <2>4. ASSUME NEW i \in 1 .. Len(convo'), convo'[i].kind = "calls"
        PROVE  /\ convo'[i].call \in Calls /\ convo'[i].call <= call' /\ convo'[i].batch \subseteq Tools
               /\ OpenBatch(i)' \/ \A t \in convo'[i].batch : <<convo'[i].call, t>> \in closed'
    <3>1. CASE i = Len(convo) + 1
      <4>1. convo'[i] = entry /\ i = Len(convo') /\ Asking'
        BY <2>2, <2>3, <3>1 DEF Asking
      <4>2. call <= call'
        BY <1>1, <2>1
      <4> QED BY <2>1, <4>1, <4>2 DEF OpenBatch
    <3>2. CASE i # Len(convo) + 1
      <4>1. i \in 1 .. Len(convo) /\ convo'[i] = convo[i]
        BY <1>1, <2>2, <3>2
      <4>2. ~ OpenBatch(i)
        BY <2>3 DEF OpenBatch, Asking
      <4> QED BY <2>1, <2>4, <4>1, <4>2 DEF BatchInv
    <3> QED BY <3>1, <3>2
  <2>5. BatchInv'
    BY <2>4 DEF BatchInv
  <2> QED BY <2>3, <2>5 DEF ToolInv
<1>6. CASE Proceed /\ next = "tools"
  <2>1. /\ UNCHANGED <<call, convo, closed>> /\ graph = "boundary" /\ graph' = "tools"
        /\ tools' = [t \in Tools |-> IF t \in Last(convo).batch THEN "asked" ELSE "none"]
    BY <1>6 DEF Proceed, Absorb, Absorbs, loopVars
  <2>2. Last(convo).batch \subseteq Tools
    BY <1>6, <2>1, LastBatch DEF Asking
  <2>3. BatchInv'
    BY <2>1, BatchesStay DEF Asking
  <2> QED BY <2>1, <2>2, <2>3 DEF ToolInv
<1>7. CASE Proceed /\ next = "agent"
  <2> DEFINE users == [i \in DOMAIN inbox |-> [kind |-> "user", text |-> inbox[i]]]
  <2>1. users \in Seq(Entries) /\ convo' = convo \o users
    BY <1>7, InboxEntries DEF CardInv, Proceed, Absorb, Absorbs
  <2>2. \A i \in 1 .. Len(users) : users[i].kind = "user"
    BY <2>1, LenProperties
  <2> HIDE DEF users
  <2>3. /\ convo' \in Seq(Entries) /\ Len(convo') = Len(convo) + Len(users) /\ Len(users) \in Nat
        /\ \A i \in 1 .. Len(convo) + Len(users) :
             convo'[i] = IF i <= Len(convo) THEN convo[i] ELSE users[i - Len(convo)]
    BY <1>1, <2>1, ConcatProperties, LenProperties
  <2>4. \A i \in 1 .. Len(convo) : convo'[i] = convo[i]
    BY <1>1, <2>3
  <2>5. \A i \in Len(convo) + 1 .. Len(convo') : convo'[i].kind # "calls"
    <3> TAKE i \in Len(convo) + 1 .. Len(convo')
    <3>1. i - Len(convo) \in 1 .. Len(users) /\ convo'[i] = users[i - Len(convo)]
      BY <1>1, <2>3
    <3> QED BY <2>2, <3>1
  <2>6. graph = "boundary" /\ graph' = "agent" /\ call' = call + 1 /\ UNCHANGED closed
    BY <1>7 DEF Proceed, loopVars
  <2>7. \A i \in 1 .. Len(convo) : convo[i].kind = "calls" =>
           /\ convo[i].call \in Calls /\ convo[i].call <= call' /\ convo[i].batch \subseteq Tools
           /\ \A t \in convo[i].batch : <<convo[i].call, t>> \in closed'
    <3>1. \A i \in 1 .. Len(convo) : ~ OpenBatch(i)
      BY <1>7, <2>6 DEF OpenBatch, Asking
    <3>2. \A c \in Calls : c <= call => c <= call'
      BY <1>1, <2>6 DEF Calls
    <3> QED BY <2>6, <3>1, <3>2 DEF BatchInv
  <2>8. BatchInv'
    BY <1>1, <2>3, <2>4, <2>5, <2>6, <2>7, BatchesJoined
  <2> QED BY <2>6, <2>8 DEF ToolInv
<1>8. CASE Results
  <2> DEFINE entry == [kind |-> "results"]
  <2>1. entry \in Entries /\ convo' = Append(convo, entry) /\ UNCHANGED <<call, closed>>
    BY <1>8 DEF Results, Entries, loopVars
  <2>2. /\ Len(convo') = Len(convo) + 1 /\ convo'[Len(convo) + 1] = entry /\ convo' \in Seq(Entries)
        /\ \A i \in 1 .. Len(convo) : convo'[i] = convo[i]
    BY <1>1, <2>1, AppendProperties
  <2>3. graph = "tools" /\ graph' = "boundary" /\ \A t \in Tools : tools[t] \in {"none", "done"}
    BY <1>8 DEF Results
  <2>4. ASSUME NEW i \in 1 .. Len(convo), convo[i].kind = "calls"
        PROVE  /\ convo[i].call \in Calls /\ convo[i].call <= call' /\ convo[i].batch \subseteq Tools
               /\ \A t \in convo[i].batch : <<convo[i].call, t>> \in closed'
    <3>1. convo[i].call \in Calls /\ convo[i].call <= call' /\ convo[i].batch \subseteq Tools
      BY <2>1, <2>4 DEF BatchInv
    <3>2. CASE OpenBatch(i)
      <4>1. convo[i] = Last(convo) /\ convo[i].call = call
        BY <3>2 DEF OpenBatch, Last
      <4>2. \A t \in convo[i].batch : tools[t] = "done"
        BY <2>3, <3>1, <4>1 DEF ToolInv
      <4> QED BY <2>1, <2>3, <3>1, <4>1, <4>2 DEF ToolInv
    <3>3. CASE ~ OpenBatch(i)
      BY <2>1, <2>4, <3>1, <3>3 DEF BatchInv
    <3> QED BY <3>2, <3>3
  <2>5. \A i \in Len(convo) + 1 .. Len(convo') : convo'[i].kind # "calls"
    BY <1>1, <2>2
  <2>6. BatchInv'
    <3>1. Len(convo') >= Len(convo)
      BY <1>1, <2>2
    <3> HIDE DEF entry
    <3> QED BY <1>1, <2>1, <2>2, <2>4, <2>5, <3>1, BatchesJoined
  <2> QED BY <2>3, <2>6 DEF ToolInv
<1>9. ASSUME NEW t \in Tools, RunsTool(t) PROVE ToolInv' /\ BatchInv'
  <2>1. PICK state \in {"opening", "closing"} : tools' = [tools EXCEPT ![t] = state]
    BY <1>9 DEF RunsTool, StartTool, EndTool, Queue
  <2>2. UNCHANGED <<graph, next, call, convo, closed>>
    BY <1>9 DEF RunsTool, StartTool, EndTool, graphVars, loopVars
  <2>3. tools \in [Tools -> {"none", "asked", "opening", "working", "closing", "done"}]
    BY DEF CardInv, TypeInv, TurnTypeOK
  <2>4. \A u : u \in Tools => (tools'[u] = state /\ u = t) \/ tools'[u] = tools[u]
    BY <2>1, <2>3
  <2>5. ToolInv'
    <3> SUFFICES ASSUME graph = "tools", NEW u \in Last(convo).batch
                 PROVE  tools'[u] # "none" /\ (tools'[u] = "done" => <<call, u>> \in closed)
      BY <2>2 DEF ToolInv
    <3>1. u \in Tools
      BY LastBatch DEF Asking
    <3> QED BY <2>4, <3>1 DEF ToolInv
  <2> QED BY <2>2, <2>5, BatchesStay DEF Asking
<1>10. CASE TakeCard
  <2>1. UNCHANGED <<graph, next, call, convo>>
    BY <1>10 DEF TakeCard, graphVars
  <2>2. CASE cards = <<>>
    BY <1>2, <1>10, <2>1, <2>2 DEF TakeCard
  <2>3. CASE cards # <<>>
    <3>1. Applied(<<Head(cards)>>)
      BY <1>10, <2>3 DEF TakeCard
    <3>2. /\ cards[1] \in Calls \X Tools \X {"started", "done"} /\ 1 \in 1 .. Len(cards)
          /\ closed' = closed \cup (IF cards[1][3] = "done" THEN {<<cards[1][1], cards[1][2]>>} ELSE {})
          /\ \A t \in Tools :
               tools'[t] = IF t = cards[1][2] /\ tools[t] = "opening" THEN "working"
                           ELSE IF t = cards[1][2] /\ tools[t] = "closing" THEN "done" ELSE tools[t]
      BY <2>3, <3>1, AppliedHead DEF CardInv
    <3>3. BatchInv'
      BY <2>1, <3>2, BatchesStay DEF Asking
    <3>4. ASSUME graph = "tools", NEW u \in Last(convo).batch
          PROVE  tools'[u] # "none" /\ (tools'[u] = "done" => <<call, u>> \in closed')
      <4>1. u \in Tools
        BY <3>4, LastBatch DEF Asking
      <4>2. cards[1][1] = call /\ tools[cards[1][2]] = IF cards[1][3] = "started" THEN "opening" ELSE "closing"
        BY <3>2, <3>4 DEF CardInv, QueueInv
      <4>3. tools[u] # "none" /\ (tools[u] = "done" => <<call, u>> \in closed)
        BY <3>4 DEF ToolInv
      <4> QED BY <3>2, <4>1, <4>2, <4>3
    <3> QED BY <2>1, <3>3, <3>4 DEF ToolInv
  <2> QED BY <2>2, <2>3
<1>11. CASE TakeOutcome
  <2>1. graph = "over" /\ UNCHANGED <<graph, next, call, convo>>
    BY <1>11, OutcomeIsLast DEF CardInv, TakeOutcome, graphVars
  <2>2. closed \subseteq closed'
    BY <1>11 DEF TakeOutcome, Applied
  <2> QED BY <2>1, <2>2, BatchesStay DEF ToolInv
<1>12. CASE Launch
  <2>1. graph = "unborn" /\ graph' = "boundary" /\ UNCHANGED <<call, convo, closed>>
    BY <1>12 DEF Launch, Moves, CardInv, TypeInv, PhaseInv
  <2> QED BY <2>1, BatchesStay DEF ToolInv, Asking
<1>13. CASE Generate \/ EndEarly \/ Register \/ GraphUnbuilt \/ NothingToAnswer
  BY <1>2, <1>13 DEF Generate, EndEarly, Register, GraphUnbuilt, NothingToAnswer, graphVars, loopVars
<1>14. CASE TakeToken \/ StreamIdle \/ Leave
  BY <1>2, <1>14 DEF TakeToken, StreamIdle, Leave, graphVars
<1>15. CASE PressStop \/ \E m \in Steers : FindRun(m) \/ Post(m) \/ Record(m)
  BY <1>2, <1>15 DEF PressStop, FindRun, Post, Record, graphVars, loopVars
<1>16. CASE UNCHANGED turnVars
  BY <1>2, <1>16 DEF turnVars, graphVars, loopVars
<1>17. Proceed => next \in {"agent", "tools"}
  BY DEF CardInv, TypeInv, TurnTypeOK
<1> QED BY <1>4, <1>5, <1>6, <1>7, <1>8, <1>9, <1>10, <1>11, <1>12, <1>13, <1>14, <1>15, <1>16, <1>17
  DEF TurnNext, Executes, Loops

\* No text is of a call not made yet.
Known(text) == \A i \in 1 .. Len(text) : text[i][1] <= call

SliceInv ==
  /\ Known(said) /\ Known(last) /\ Known(answer)
  /\ \A i \in 1 .. Len(stream) : stream[i].kind = "token" => stream[i].slice[1] <= call

\* Nothing is said of a call before it is made.
LEMMA SliceStep == TypeInv /\ SliceInv /\ [TurnNext]_turnVars => SliceInv'
<1> SUFFICES ASSUME TypeInv, SliceInv, [TurnNext]_turnVars PROVE SliceInv'
  OBVIOUS
<1>1. /\ TurnTypeOK /\ <<>> \in Seq(Slices) /\ call \in 0 .. MaxSteps + 1 /\ MaxSteps \in Nat
      /\ \A text \in {said, last, answer} : text \in Seq(Slices)
  BY TurnAssumption DEF TypeInv, TurnTypeOK
<1>2. <<Spent>> \in Seq(Slices) /\ Known(<<Spent>>) /\ Known(<<>>)
  BY <1>1 DEF Slices, Spent, Known
<1>3. stream \in Seq(Events)
  BY DEF TypeInv
<1>4. CASE UNCHANGED <<said, last, answer, stream, call>>
  BY <1>4 DEF SliceInv, Known
<1>5. ASSUME NEW s1 \in Seq(Slices), NEW s2 \in Seq(Slices), Known(s1), Known(s2) PROVE Known(s1 \o s2)
  <2>1. /\ Len(s1) \in Nat /\ Len(s2) \in Nat /\ Len(s1 \o s2) = Len(s1) + Len(s2)
        /\ \A i \in 1 .. Len(s1) + Len(s2) : (s1 \o s2)[i] = IF i <= Len(s1) THEN s1[i] ELSE s2[i - Len(s1)]
    BY ConcatProperties, LenProperties
  <2>2. ASSUME NEW i \in 1 .. Len(s1) + Len(s2) PROVE (s1 \o s2)[i][1] <= call
    <3>1. CASE i <= Len(s1)
      BY <1>5, <2>1, <3>1 DEF Known
    <3>2. CASE i > Len(s1)
      <4>1. i - Len(s1) \in 1 .. Len(s2) /\ (s1 \o s2)[i] = s2[i - Len(s1)]
        BY <2>1, <3>2
      <4> QED BY <1>5, <4>1 DEF Known
    <3> QED BY <2>1, <3>1, <3>2
  <2> QED BY <2>1, <2>2 DEF Known
<1>6. ASSUME NEW extra, Published(extra), Known(extra), UNCHANGED <<said, last, call>>,
             stream' = stream \/ (stream # <<>> /\ stream' = Tail(stream))
      PROVE  SliceInv'
  <2>1. answer' = answer \o extra /\ extra \in Seq(Slices)
    BY <1>6 DEF Published
  <2>2. Known(answer') /\ Known(said') /\ Known(last')
    BY <1>1, <1>5, <1>6, <2>1 DEF SliceInv
  <2>3. \A i \in 1 .. Len(stream') : stream'[i].kind = "token" => stream'[i].slice[1] <= call
    BY <1>3, <1>6, TakenEvents DEF SliceInv
  <2> QED BY <1>6, <2>2, <2>3 DEF SliceInv, Known
<1>7. ASSUME NEW how \in Hows, Send(Finished(how)), last' \in {last, said}, UNCHANGED <<said, answer, call>>
      PROVE  SliceInv'
  <2>1. Finished(how) \in Events /\ Finished(how).kind = "finished"
    BY DEF Finished, Events
  <2>2. \A i \in 1 .. Len(stream') : stream'[i].kind = "token" => stream'[i].slice[1] <= call
    BY <1>3, <1>7, <2>1, SentEvents DEF SliceInv
  <2> QED BY <1>7, <2>2 DEF SliceInv, Known
<1>8. CASE Generate
  <2> DEFINE slice == <<call, Len(said) + 1>>
  <2>1. /\ graph = "agent" /\ said' = Append(said, slice) /\ UNCHANGED <<last, answer, call>>
        /\ UNCHANGED stream \/ Send(Token(slice))
    BY <1>8 DEF Generate, loopVars
  <2>2. slice \in Slices /\ slice[1] = call
    <3>1. MaxTokens \in Nat /\ Len(said) < MaxTokens /\ call \in Calls
      BY <1>8, TurnAssumption DEF Generate, TypeInv, CountInv
    <3> QED BY <1>1, <3>1, LenProperties DEF Slices
  <2> HIDE DEF slice
  <2>3. Known(said')
    <3>1. /\ Len(said') = Len(said) + 1 /\ Len(said) \in Nat /\ said'[Len(said) + 1] = slice
          /\ \A i \in 1 .. Len(said) : said'[i] = said[i]
      BY <1>1, <2>1, <2>2, AppendProperties, LenProperties
    <3> QED BY <1>1, <2>2, <3>1 DEF Known, SliceInv
  <2>4. Token(slice) \in Events /\ Token(slice).slice[1] = call
    BY <2>2 DEF Token, Events
  <2>5. \A i \in 1 .. Len(stream') : stream'[i].kind = "token" => stream'[i].slice[1] <= call
    <3>1. CASE UNCHANGED stream
      BY <3>1 DEF SliceInv
    <3>2. CASE Send(Token(slice))
      BY <1>1, <1>3, <2>4, <3>2, SentEvents DEF SliceInv
    <3> QED BY <2>1, <3>1, <3>2
  <2> QED BY <2>1, <2>3, <2>5 DEF SliceInv, Known
<1>9. CASE Complete \/ NodeFails \/ StopGraph \/ Interrupt
  BY <1>7, <1>9 DEF Complete, NodeFails, StopGraph, Interrupt, Kept, loopVars, Hows
<1>10. ASSUME NEW batch \in SUBSET Tools, AskTools(batch) PROVE SliceInv'
  BY <1>10 DEF AskTools, Kept, loopVars, SliceInv, Known
<1>11. CASE Proceed
  <2>1. /\ UNCHANGED <<last, answer, stream>>
        /\ (said' = <<>> /\ call' = call + 1) \/ UNCHANGED <<said, call>>
    BY <1>11 DEF Proceed, loopVars
  <2>2. CASE UNCHANGED <<said, call>>
    BY <1>4, <2>1, <2>2
  <2>3. CASE said' = <<>> /\ call' = call + 1
    <3>1. \A slice \in Slices : slice[1] <= call => slice[1] <= call'
      <4>1. \A slice \in Slices : slice[1] \in Int
        BY <1>1 DEF Slices, Calls, Earlier, Spent
      <4> QED BY <1>1, <2>3, <4>1
    <3>2. /\ \A i \in 1 .. Len(last) : last[i] \in Slices
          /\ \A i \in 1 .. Len(answer) : answer[i] \in Slices
      BY <1>1, ElementOfSeq
    <3>3. \A i \in 1 .. Len(stream) : stream[i].kind = "token" => stream[i].slice \in Slices
      BY <1>3, ElementOfSeq DEF Events
    <3> QED BY <2>1, <2>3, <3>1, <3>2, <3>3 DEF SliceInv, Known
  <2> QED BY <2>1, <2>2, <2>3
<1>12. CASE TakeToken
  <2>1. stream # <<>> /\ stream' = Tail(stream) /\ Say(<<Head(stream).slice>>)
    BY <1>12 DEF TakeToken
  <2>3. Head(stream).slice \in Slices /\ Head(stream).slice[1] <= call
    BY <1>12, TokenTaken DEF SliceInv
  <2>4. <<Head(stream).slice>> \in Seq(Slices) /\ Known(<<Head(stream).slice>>)
    BY <2>3 DEF Known
  <2> QED BY <1>1, <1>6, <1>12, <2>1, <2>4, SayPublishes DEF TakeToken, graphVars
<1>13. ASSUME NEW text \in {<<>>, last}, NEW more \in {<<>>, <<Spent>>}, NEW how, Seal(how, text, more),
              UNCHANGED <<said, last, call>>, stream' = stream \/ (stream # <<>> /\ stream' = Tail(stream))
       PROVE  SliceInv'
  <2>1. text \in Seq(Slices) /\ more \in Seq(Slices) /\ Known(text) /\ Known(more)
    BY <1>1, <1>2 DEF SliceInv
  <2> QED BY <1>1, <1>5, <1>6, <1>13, <2>1, SealPublishes
<1>14. CASE EndEarly \/ NothingToAnswer
  BY <1>13, <1>14 DEF EndEarly, NothingToAnswer, graphVars
<1>15. CASE TakeOutcome
  BY <1>13, <1>15 DEF TakeOutcome, graphVars
<1>16. CASE Results \/ \E t \in Tools : RunsTool(t)
  BY <1>4, <1>16 DEF Results, RunsTool, StartTool, EndTool, graphVars, loopVars
<1>17. CASE Register \/ GraphUnbuilt \/ Launch \/ StreamIdle \/ TakeCard \/ Leave
  BY <1>4, <1>17 DEF Register, GraphUnbuilt, Launch, StreamIdle, TakeCard, Leave, graphVars
<1>18. CASE PressStop \/ \E m \in Steers : FindRun(m) \/ Post(m) \/ Record(m)
  BY <1>4, <1>18 DEF PressStop, FindRun, Post, Record, graphVars, loopVars
<1>19. CASE UNCHANGED turnVars
  BY <1>4, <1>19 DEF turnVars, graphVars, loopVars
<1> QED BY <1>8, <1>9, <1>10, <1>11, <1>12, <1>14, <1>15, <1>16, <1>17, <1>18, <1>19 DEF TurnNext, Executes, Loops

\* All of it, for the theorems below.
ShownInv == CardInv /\ ToolInv /\ BatchInv /\ SliceInv

\* It holds of a turn that has not begun.
LEMMA ShownInit == TurnInit => ShownInv
<1> SUFFICES ASSUME TurnInit PROVE ShownInv
  OBVIOUS
<1>1. StreamInv /\ QueueInv /\ ConvoInv /\ ToolInv /\ BatchInv
  BY DEF TurnInit, StreamInv, QueueInv, ConvoInv, NoOrphanedCalls, Asking, Thinking, ToolInv, BatchInv
<1>2. SliceInv
  BY DEF TurnInit, SliceInv, Known, Earlier
<1> QED BY <1>1, <1>2, TypeInit DEF ShownInv, CardInv

\* One step of anybody keeps it.
LEMMA ShownStep == ShownInv /\ [TurnNext]_turnVars => ShownInv'
  BY TypeStep, StreamStep, QueueStep, ConvoStep, BatchStep, SliceStep DEF ShownInv, CardInv

\* metal.rs, Queued.  Of a turn of any length, whatever stops, fails or lags: where a
\* model call's words were published, every call asked for by an earlier one has been
\* shown as finished.
THEOREM EarlierCardsAreClosed == TurnSpec => []CardsPrecedeLaterText
<1>1. ShownInv => CardsPrecedeLaterText
  <2> SUFFICES ASSUME ShownInv, NEW slice \in Range(answer), slice[1] > 0,
                      NEW c \in 1 .. slice[1] - 1, NEW t \in AskedIn(c)
               PROVE  <<c, t>> \in closed
    BY DEF CardsPrecedeLaterText
  <2>1. answer \in Seq(Slices) /\ convo \in Seq(Entries) /\ call \in 0 .. MaxSteps + 1 /\ MaxSteps \in Nat
    BY TurnAssumption DEF ShownInv, CardInv, TypeInv, TurnTypeOK
  <2>2. PICK i \in 1 .. Len(answer) : slice = answer[i]
    BY <2>1, RangeEquality
  <2>3. slice \in Slices /\ slice[1] <= call
    BY <2>1, <2>2, ElementOfSeq DEF ShownInv, SliceInv, Known
  <2>4. slice[1] \in Int
    BY <2>1, <2>3 DEF Slices, Calls, Earlier, Spent
  <2>5. c < call
    BY <2>1, <2>3, <2>4
  <2>6. PICK entry \in Range(convo) : entry.kind = "calls" /\ entry.call = c /\ t \in entry.batch
    BY DEF AskedIn
  <2>7. PICK k \in 1 .. Len(convo) : entry = convo[k]
    BY <2>1, RangeEquality
  <2>8. ~ OpenBatch(k)
    BY <2>1, <2>5, <2>6, <2>7 DEF OpenBatch
  <2> QED BY <2>6, <2>7, <2>8 DEF ShownInv, BatchInv
<1> QED BY <1>1, ShownInit, ShownStep, PTL DEF TurnSpec

-----------------------------------------------------------------------------
(* A card closes after the text that asked for it. *)

\* Every token still in the stream is of a later call than c.
After(c) == \A i \in 1 .. Len(stream) : stream[i].kind = "token" => stream[i].slice[1] > c

\* While the loop looks at the queue with tools at work, the stream holds no token:
\* it was drained, and a graph that runs its tools says nothing.
LaterInv ==
  /\ \A k \in 1 .. Len(cards) : cards[k][1] <= call
  /\ \A card \in closed : card[1] <= call /\ (graph = "agent" => card[1] < call) /\ After(card[1])
  /\ loop = "cards" => \A k \in 1 .. Len(cards) : cards[k][3] = "done" => After(cards[k][1])
  /\ loop = "cards" /\ graph = "tools" =>
       \A t \in Tools : tools[t] \in {"working", "closing"} =>
         \A i \in 1 .. Len(stream) : stream[i].kind # "token"

\* One step of anybody keeps the order of text and cards.
LEMMA LaterStep == CardInv /\ LaterInv /\ [TurnNext]_turnVars => LaterInv'
<1> SUFFICES ASSUME CardInv, LaterInv, [TurnNext]_turnVars PROVE LaterInv'
  OBVIOUS
<1>1. /\ stream \in Seq(Events) /\ call \in 0 .. MaxSteps + 1 /\ MaxSteps \in Nat
      /\ cards \in Seq(Calls \X Tools \X {"started", "done"}) /\ closed \subseteq Calls \X Tools
      /\ tools \in [Tools -> {"none", "asked", "opening", "working", "closing", "done"}]
  BY TurnAssumption DEF CardInv, TypeInv, TurnTypeOK
<1>2. CASE UNCHANGED <<graph, call, tools, stream, cards, loop, closed>>
  BY <1>2 DEF LaterInv, After
<1>3. ASSUME UNCHANGED <<graph, call, tools, stream, cards, closed>>, loop' # "cards" PROVE LaterInv'
  BY <1>3 DEF LaterInv, After
<1>4. ASSUME UNCHANGED <<call, stream, cards, loop, closed>>, graph' \in {"boundary", "over"} PROVE LaterInv'
  BY <1>4 DEF LaterInv, After
<1>5. ASSUME NEW how \in Hows, Send(Finished(how)), UNCHANGED <<call, cards, loop, closed>>, graph' = "over"
      PROVE  LaterInv'
  <2>1. Finished(how) \in Events /\ Finished(how).kind = "finished"
    BY DEF Finished, Events
  <2>2. ASSUME NEW c, After(c) PROVE After(c)'
    BY <1>1, <1>5, <2>1, <2>2, SentEvents DEF After
  <2> QED BY <1>5, <2>2 DEF LaterInv
<1>6. CASE Generate
  <2> DEFINE slice == <<call, Len(said) + 1>>
  <2>1. /\ graph = "agent" /\ cards = <<>> /\ UNCHANGED <<graph, call, tools, cards, loop, closed>>
        /\ UNCHANGED stream \/ Send(Token(slice))
    BY <1>6 DEF Generate, loopVars, CardInv, QueueInv
  <2>2. Token(slice) \in Events /\ Token(slice).slice[1] = call
    <3>1. MaxTokens \in Nat /\ Len(said) < MaxTokens /\ call \in Calls /\ said \in Seq(Slices)
      BY <1>6, TurnAssumption DEF Generate, CardInv, TypeInv, TurnTypeOK, CountInv
    <3>2. slice \in Slices
      BY <3>1, LenProperties DEF Slices
    <3> QED BY <3>2 DEF Token, Events
  <2> HIDE DEF slice
  <2>3. ASSUME NEW c \in Int, c < call, After(c) PROVE After(c)'
    <3>1. CASE UNCHANGED stream
      BY <2>1, <2>3, <3>1 DEF After
    <3>2. CASE Send(Token(slice))
      BY <1>1, <2>1, <2>2, <2>3, <3>2, SentEvents DEF After
    <3> QED BY <2>1, <3>1, <3>2
  <2>4. \A card \in closed : card[1] \in Int
    BY <1>1 DEF Calls
  <2>5. \A card \in closed : card[1] < call /\ After(card[1])'
    BY <2>1, <2>3, <2>4 DEF LaterInv
  <2>6. Len(cards') = 0
    BY <2>1
  <2> QED BY <1>1, <2>1, <2>4, <2>5, <2>6 DEF LaterInv
<1>7. CASE Results \/ \E batch \in SUBSET Tools : AskTools(batch)
  BY <1>4, <1>7 DEF Results, AskTools, loopVars
<1>8. CASE Complete \/ NodeFails \/ StopGraph \/ Interrupt
  BY <1>5, <1>8 DEF Complete, NodeFails, StopGraph, Interrupt, loopVars, Hows
<1>9. CASE Proceed
  <2>1. UNCHANGED <<stream, cards, loop, closed>> /\ cards = <<>> /\ graph' = next
    BY <1>9 DEF Proceed, loopVars, CardInv, QueueInv
  <2>2. CASE next = "agent"
    <3>1. call' = call + 1
      BY <1>9, <2>2 DEF Proceed
    <3>2. \A card \in closed : card[1] \in Int
      BY <1>1 DEF Calls
    <3>3. \A card \in closed : card[1] <= call' /\ card[1] < call' /\ After(card[1])'
      BY <1>1, <2>1, <3>1, <3>2 DEF LaterInv, After
    <3> QED BY <2>1, <2>2, <3>3 DEF LaterInv
  <2>3. CASE next = "tools"
    <3>1. UNCHANGED call /\ \A t \in Tools : tools'[t] \in {"asked", "none"}
      BY <1>9, <2>3 DEF Proceed
    <3>2. \A c : After(c)' = After(c)
      BY <2>1 DEF After
    <3> QED BY <2>1, <2>3, <3>1, <3>2 DEF LaterInv
  <2> QED BY <2>2, <2>3 DEF CardInv, TypeInv, TurnTypeOK
<1>10. ASSUME NEW t \in Tools, RunsTool(t) PROVE LaterInv'
  <2>1. UNCHANGED <<graph, call, stream, loop, closed>> /\ graph = "tools" /\ call \in Calls
    BY <1>10 DEF RunsTool, StartTool, EndTool, graphVars, loopVars, CardInv, TypeInv, CountInv, PhaseInv
  <2>2. PICK kind \in {"started", "done"} : Queue(t, kind) /\ (kind = "done" => tools[t] = "working")
    BY <1>10 DEF RunsTool, StartTool, EndTool
  <2>3. /\ Len(cards') = Len(cards) + 1 /\ Len(cards) \in Nat /\ cards'[Len(cards) + 1] = <<call, t, kind>>
        /\ \A k \in 1 .. Len(cards) : cards'[k] = cards[k]
    <3>1. <<call, t, kind>> \in Calls \X Tools \X {"started", "done"}
      BY <2>1
    <3> QED BY <1>1, <2>2, <3>1, AppendProperties, LenProperties DEF Queue
  <2>4. \A c : After(c)' = After(c)
    BY <2>1 DEF After
  <2>5. ASSUME loop = "cards", NEW k \in 1 .. Len(cards'), cards'[k][3] = "done" PROVE After(cards'[k][1])
    <3>1. CASE k = Len(cards) + 1
      <4>1. tools[t] = "working"
        BY <2>2, <2>3, <2>5, <3>1
      <4>2. \A i \in 1 .. Len(stream) : stream[i].kind # "token"
        BY <2>1, <2>5, <4>1 DEF LaterInv
      <4> QED BY <4>2 DEF After
    <3>2. CASE k # Len(cards) + 1
      BY <2>3, <2>5, <3>2 DEF LaterInv
    <3> QED BY <3>1, <3>2
  <2>6. \A u \in Tools : tools'[u] \in {"working", "closing"} => tools[u] \in {"working", "closing"}
    BY <1>1, <2>2 DEF Queue
  <2>8. \A k \in 1 .. Len(cards') : cards'[k][1] <= call
    <3> TAKE k \in 1 .. Len(cards')
    <3>1. CASE k = Len(cards) + 1
      BY <1>1, <2>3, <3>1
    <3>2. CASE k # Len(cards) + 1
      BY <2>3, <3>2 DEF LaterInv
    <3> QED BY <3>1, <3>2
  <2>7. loop = "cards" => \A u \in Tools : tools'[u] \in {"working", "closing"} =>
          \A i \in 1 .. Len(stream) : stream[i].kind # "token"
    BY <2>1, <2>6 DEF LaterInv
  <2> QED BY <2>1, <2>4, <2>5, <2>7, <2>8 DEF LaterInv
<1>11. CASE EndEarly \/ NothingToAnswer \/ Register \/ GraphUnbuilt \/ Leave
  BY <1>3, <1>11 DEF EndEarly, NothingToAnswer, Seal, Register, GraphUnbuilt, Leave, Moves, graphVars
<1>12. CASE Launch
  <2>1. UNCHANGED <<call, stream, cards, closed>> /\ graph' = "boundary" /\ loop' = "stream"
    BY <1>12 DEF Launch, Moves
  <2> QED BY <2>1 DEF LaterInv, After
<1>13. CASE TakeToken
  <2>1. stream # <<>> /\ stream' = Tail(stream) /\ loop' = "stream" /\ UNCHANGED <<graph, call, cards, closed>>
    BY <1>13 DEF TakeToken, graphVars
  <2>2. ASSUME NEW c, After(c) PROVE After(c)'
    BY <1>1, <2>1, <2>2, TakenEvents DEF After
  <2> QED BY <2>1, <2>2 DEF LaterInv
<1>14. CASE StreamIdle
  <2>1. Len(stream') = 0 /\ UNCHANGED <<graph, call, cards, closed>>
    BY <1>14 DEF StreamIdle, graphVars
  <2>2. \A c : After(c)'
    BY <2>1 DEF After
  <2>3. \A i \in 1 .. Len(stream') : stream'[i].kind # "token"
    BY <2>1
  <2> QED BY <2>1, <2>2, <2>3 DEF LaterInv
<1>15. CASE TakeCard
  <2>1. loop = "cards" /\ loop' = "stream" /\ UNCHANGED <<graph, call, stream>>
    BY <1>15 DEF TakeCard, Moves, graphVars
  <2>2. \A c : After(c)' = After(c)
    BY <2>1 DEF After
  <2>3. CASE cards = <<>>
    BY <1>15, <2>1, <2>2, <2>3 DEF TakeCard, LaterInv
  <2>4. CASE cards # <<>>
    <3>1. Applied(<<Head(cards)>>)
      BY <1>15, <2>4 DEF TakeCard
    <3>2. /\ 1 \in 1 .. Len(cards) /\ cards[1] \in Calls \X Tools \X {"started", "done"}
          /\ closed' = closed \cup (IF cards[1][3] = "done" THEN {<<cards[1][1], cards[1][2]>>} ELSE {})
      BY <2>4, <3>1, AppliedHead DEF CardInv
    <3>3. cards[1][3] = "done" => After(cards[1][1])
      BY <2>1, <3>2 DEF LaterInv
    <3>4. graph \in {"tools", "over"}
      BY <2>4 DEF CardInv, QueueInv, TypeInv, TurnTypeOK
    <3>5. cards[1][1] <= call
      BY <3>2 DEF LaterInv
    <3>6. \A k \in 1 .. Len(cards') : cards'[k][1] <= call
      <4>1. cards' = Tail(cards)
        BY <1>15, <2>4 DEF TakeCard
      <4>2. Len(cards') = Len(cards) - 1 /\ \A k \in 1 .. Len(cards') : cards'[k] = cards[k + 1]
        BY <1>1, <2>4, <4>1, HeadTailProperties
      <4>3. \A k \in 1 .. Len(cards') : k + 1 \in 1 .. Len(cards)
        BY <1>1, <4>2, LenProperties
      <4> QED BY <4>2, <4>3 DEF LaterInv
    <3> QED BY <2>1, <2>2, <3>2, <3>3, <3>4, <3>5, <3>6 DEF LaterInv
  <2> QED BY <2>3, <2>4
<1>16. CASE TakeOutcome
  <2>1. graph = "over" /\ Len(stream') = 0 /\ UNCHANGED <<graph, call>> /\ loop' = "leaving"
    BY <1>16, OutcomeIsLast DEF CardInv, TakeOutcome, Seal, graphVars
  <2>2. \A c : After(c)'
    BY <2>1 DEF After
  <2>3. ASSUME NEW card \in closed' PROVE card[1] <= call
    <3>1. CASE card \in closed
      BY <3>1 DEF LaterInv
    <3>2. CASE card \notin closed
      <4>1. PICK c \in Range(cards) : card = <<c[1], c[2]>>
        BY <1>16, <2>3, <3>2 DEF TakeOutcome, Applied
      <4>2. PICK k \in 1 .. Len(cards) : c = cards[k]
        BY <1>1, <4>1, RangeEquality
      <4> QED BY <4>1, <4>2 DEF LaterInv
    <3> QED BY <3>1, <3>2
  <2>4. Len(cards') = 0
    BY <1>16 DEF TakeOutcome
  <2> QED BY <2>1, <2>2, <2>3, <2>4 DEF LaterInv
<1>17. CASE PressStop \/ \E m \in Steers : FindRun(m) \/ Post(m) \/ Record(m)
  BY <1>2, <1>17 DEF PressStop, FindRun, Post, Record, graphVars, loopVars
<1>18. CASE UNCHANGED turnVars
  BY <1>2, <1>18 DEF turnVars, graphVars, loopVars
<1> QED BY <1>6, <1>7, <1>8, <1>9, <1>10, <1>11, <1>12, <1>13, <1>14, <1>15, <1>16, <1>17, <1>18
  DEF TurnNext, Executes, Loops

\* metal.rs, drive.  Of a turn of any length: no card closes before the words that
\* asked for its tool have been published.
THEOREM CardsCloseAfterTheirText == TurnSpec => []ResultsFollowTheirText
<1>1. TurnInit => LaterInv
  BY DEF TurnInit, LaterInv
<1>2. CardInv /\ LaterInv => ResultsFollowTheirText
  <2> SUFFICES ASSUME CardInv, LaterInv, NEW card \in closed, NEW event \in Range(stream), event.kind = "token"
               PROVE  event.slice[1] > card[1]
    BY DEF ResultsFollowTheirText
  <2>1. stream \in Seq(Events)
    BY DEF CardInv, TypeInv
  <2>2. PICK i \in 1 .. Len(stream) : event = stream[i]
    BY <2>1, RangeEquality
  <2> QED BY <2>2 DEF LaterInv, After
<1>3. ShownInv => CardInv
  BY DEF ShownInv
<1> QED BY <1>1, <1>2, <1>3, ShownInit, ShownStep, LaterStep, PTL DEF TurnSpec

\* metal.rs, drive and Queued: a card closes after the words that asked for it and before
\* those of a later call.
THEOREM CardsStayInPlace == TurnSpec => []CardsKeepTheirPlace
BY EarlierCardsAreClosed, CardsCloseAfterTheirText, PTL DEF CardsKeepTheirPlace

-----------------------------------------------------------------------------
(* What the model said is told once, in order, to its last words. *)

\* The tokens in the stream: all of it, but for the outcome once that is sent.
Words == IF graph = "over" THEN Len(stream) - 1 ELSE Len(stream)

\* What was published, and what is on its way to be.
Told == Len(answer) + Words
Line == [k \in 1 .. Told |-> IF k <= Len(answer) THEN answer[k] ELSE stream[k - Len(answer)].slice]

\* The text stands at the end of what is told.
EndsLine(text) ==
  Len(text) <= Told /\ \A k \in 1 .. Len(text) : Line[Told - Len(text) + k] = text[k]

\* The text is one call's, from its first slice on.
OneCall(text, c) == \A k \in 1 .. Len(text) : text[k] = <<c, k>>

\* The slices are in the order they were said, each is of a call made so far, and the
\* call at work has told what it streamed, or nothing if it does not stream.
LineInv ==
  /\ \A i, j \in 1 .. Told : i < j => Before(Line[i], Line[j])
  /\ \A i \in 1 .. Told : /\ Line[i][1] \in 1 .. call
                          /\ Line[i][1] = call => ~silent /\ Line[i][2] <= Len(said)
  /\ OneCall(said, call)
  /\ ~silent => EndsLine(said)

\* The last message of the state is up to date: no call is at work on a newer one.
UpToDate ==
  /\ graph = "agent" => said = <<>>
  /\ \A i \in 1 .. Len(stream) : stream[i].kind = "finished" => stream[i].how # "failed"

\* What became of an earlier call's text: told as it came, or kept off the line.
EarlierText(c) ==
  /\ OneCall(last, c)
  /\ EndsLine(last) \/ \A i \in 1 .. Told : Line[i][1] < c

\* The last message is the earlier turn's, or this call's, or one of an earlier call
\* that nothing was said after.
LastInv ==
  \/ last \in {<<>>, <<Earlier>>, said}
  \/ said = <<>> /\ \E c \in 0 .. call - 1 : EarlierText(c)

\* A turn that was sealed does nothing more, and a graph that is over has sent its outcome.
SealedInv ==
  /\ ending # "none" => loop \in {"leaving", "left"} /\ graph \in {"unborn", "over"}
  /\ graph = "over" /\ ending = "none" => Len(stream) > 0 /\ stream[Len(stream)].kind = "finished"

TellInv ==
  /\ SealedInv
  /\ ending = "none" => LineInv /\ (UpToDate => LastInv)
  /\ ending # "none" => SlicesAreTold

\* A suffix, slice by slice.
LEMMA SuffixIs ==
  ASSUME NEW s \in Seq(Slices), NEW t \in Seq(Slices)
  PROVE  IsSuffix(s, t) <=> Len(s) <= Len(t) /\ \A k \in 1 .. Len(s) : s[k] = t[Len(t) - Len(s) + k]
<1> DEFINE m == Len(s)
           n == Len(t)
<1>1. m \in Nat /\ n \in Nat
  BY LenProperties
<1>2. /\ \A i \in 1 .. m : s[m - i + 1] \in Slices
      /\ \A i \in 1 .. n : t[n - i + 1] \in Slices
  <2>1. \A i \in 1 .. m : m - i + 1 \in 1 .. m
    BY <1>1
  <2>2. \A i \in 1 .. n : n - i + 1 \in 1 .. n
    BY <1>1
  <2> QED BY <2>1, <2>2, ElementOfSeq
<1>3. Reverse(s) \in Seq(Slices) /\ Reverse(t) \in Seq(Slices)
  BY <1>1, <1>2, IsASeq DEF Reverse
<1>4. Len(Reverse(s)) = m /\ Len(Reverse(t)) = n
  BY <1>1, <1>3, LenProperties DEF Reverse
<1>5. /\ \A i \in 1 .. m : Reverse(s)[i] = s[m - i + 1]
      /\ \A i \in 1 .. n : Reverse(t)[i] = t[n - i + 1]
  BY DEF Reverse
<1>6. ASSUME m <= n
      PROVE  SubSeq(Reverse(s), 1, m) = SubSeq(Reverse(t), 1, m)
               <=> \A k \in 1 .. m : s[k] = t[n - m + k]
  <2>1. SubSeq(Reverse(s), 1, m) = Reverse(s)
    BY <1>3, <1>4, SubSeqFull
  <2>2. \A i \in 1 .. m : Reverse(t)[i] \in Slices
    BY <1>1, <1>3, <1>4, <1>6, ElementOfSeq
  <2>3. /\ SubSeq(Reverse(t), 1, m) \in Seq(Slices) /\ Len(SubSeq(Reverse(t), 1, m)) = m
        /\ \A i \in 1 .. m : SubSeq(Reverse(t), 1, m)[i] = Reverse(t)[i]
    BY <1>1, <2>2, SubSeqProperties
  <2>4. \A i \in 1 .. m : SubSeq(Reverse(t), 1, m)[i] = t[n - i + 1]
    BY <1>1, <1>5, <1>6, <2>3
  <2>5. ASSUME SubSeq(Reverse(t), 1, m) = Reverse(s), NEW k \in 1 .. m PROVE s[k] = t[n - m + k]
    <3>1. m - k + 1 \in 1 .. m /\ m - (m - k + 1) + 1 = k /\ n - (m - k + 1) + 1 = n - m + k
      BY <1>1
    <3> QED BY <1>5, <2>4, <2>5, <3>1
  <2>6. ASSUME \A k \in 1 .. m : s[k] = t[n - m + k] PROVE SubSeq(Reverse(t), 1, m) = Reverse(s)
    <3>1. ASSUME NEW i \in 1 .. m PROVE SubSeq(Reverse(t), 1, m)[i] = Reverse(s)[i]
      <4>1. m - i + 1 \in 1 .. m /\ n - m + (m - i + 1) = n - i + 1
        BY <1>1
      <4> QED BY <1>5, <2>4, <2>6, <4>1
    <3> QED BY <1>3, <1>4, <2>3, <3>1, SeqEqual
  <2> QED BY <2>1, <2>5, <2>6
<1> QED BY <1>4, <1>6 DEF IsSuffix, IsPrefix

\* While the turn is not sealed, the line is made of slices.
LEMMA LineTypes ==
  ASSUME TypeInv, StreamInv, SealedInv, ending = "none"
  PROVE  /\ Len(answer) \in Nat /\ Len(stream) \in Nat /\ Words \in Nat /\ Words <= Len(stream)
         /\ Told \in Nat /\ Told = Len(answer) + Words
         /\ graph = "over" => Words = Len(stream) - 1 /\ stream[Len(stream)].kind = "finished"
         /\ graph # "over" => Words = Len(stream)
         /\ \A i \in 1 .. Words : stream[i].kind = "token" /\ stream[i].slice \in Slices
         /\ \A k \in 1 .. Told : Line[k] \in Slices
<1>1. answer \in Seq(Slices) /\ stream \in Seq(Events)
  BY DEF TypeInv, TurnTypeOK
<1>2. Len(answer) \in Nat /\ Len(stream) \in Nat
  BY <1>1, LenProperties
<1>3. Words \in Nat /\ Words <= Len(stream)
  BY <1>2 DEF Words, SealedInv
<1>4. ASSUME NEW i \in 1 .. Words PROVE stream[i].kind = "token" /\ stream[i].slice \in Slices
  <2>1. i \in 1 .. Len(stream)
    BY <1>2, <1>3
  <2>2. stream[i] \in Events
    BY <1>1, <2>1, ElementOfSeq
  <2>3. stream[i].kind # "finished"
    BY <1>2, <2>1 DEF StreamInv, Words
  <2> QED BY <2>2, <2>3 DEF Events
<1>5. Told \in Nat /\ Told = Len(answer) + Words
  BY <1>2, <1>3 DEF Told
<1>6. ASSUME NEW k \in 1 .. Told PROVE Line[k] \in Slices
  <2>1. CASE k <= Len(answer)
    <3>1. k \in 1 .. Len(answer)
      BY <1>2, <1>5, <2>1
    <3>2. answer[k] \in Slices
      BY <1>1, <3>1, ElementOfSeq
    <3> QED BY <2>1, <3>2 DEF Line
  <2>2. CASE ~ (k <= Len(answer))
    <3>1. k - Len(answer) \in 1 .. Words
      BY <1>2, <1>3, <1>5, <2>2
    <3> QED BY <1>4, <2>2, <3>1 DEF Line
  <2> QED BY <2>1, <2>2
<1>7. /\ graph = "over" => Words = Len(stream) - 1 /\ stream[Len(stream)].kind = "finished"
      /\ graph # "over" => Words = Len(stream)
  BY DEF Words, SealedInv
<1> QED BY <1>2, <1>3, <1>4, <1>5, <1>6, <1>7

\* Two lines with the same slices are the same.
LEMMA SameLine ==
  ASSUME Told' = Told, Told \in Nat,
         \A k \in 1 .. Told :
           (IF k <= Len(answer) THEN answer[k] ELSE stream[k - Len(answer)].slice)
             = (IF k <= Len(answer)' THEN answer'[k] ELSE stream'[k - Len(answer)'].slice)
  PROVE  Line' = Line
BY DEF Line

\* The line does not change where the stream and the answer stay, nor when the outcome is sent.
LEMMA LineKept ==
  ASSUME TypeInv, StreamInv, SealedInv, ending = "none", UNCHANGED answer,
         \/ UNCHANGED stream /\ ((graph = "over") <=> (graph' = "over"))
         \/ graph # "over" /\ graph' = "over" /\ \E how \in Hows : Send(Finished(how))
  PROVE  Told' = Told /\ Line' = Line
<1>1. /\ Len(answer) \in Nat /\ Len(stream) \in Nat /\ Words \in Nat /\ Words <= Len(stream)
      /\ Told \in Nat /\ Told = Len(answer) + Words
  BY LineTypes
<1>2. CASE UNCHANGED stream /\ ((graph = "over") <=> (graph' = "over"))
  <2>1. Words' = Words
    BY <1>2 DEF Words
  <2> QED BY <2>1, <1>1, <1>2, SameLine DEF Told
<1>3. ASSUME graph # "over", graph' = "over", NEW how \in Hows, Send(Finished(how))
      PROVE  Told' = Told /\ Line' = Line
  <2>1. stream \in Seq(Events) /\ Finished(how) \in Events
    BY DEF TypeInv, Events, Finished
  <2>2. Len(stream') = Len(stream) + 1 /\ \A i \in 1 .. Len(stream) : stream'[i] = stream[i]
    BY <1>3, <2>1, SentEvents
  <2>3. Words' = Words /\ Words = Len(stream) /\ Told' = Told
    BY <1>1, <1>3, <2>2 DEF Words, Told
  <2>4. ASSUME NEW k \in 1 .. Told, ~ (k <= Len(answer)) PROVE stream'[k - Len(answer)] = stream[k - Len(answer)]
    <3>1. k - Len(answer) \in 1 .. Len(stream)
      BY <1>1, <2>3, <2>4
    <3> QED BY <2>2, <3>1
  <2> QED BY <1>1, <2>3, <2>4, SameLine
<1> QED BY <1>2, <1>3

\* A token published takes its place in the line.
LEMMA LineMoves ==
  ASSUME TypeInv, StreamInv, SealedInv, ending = "none", TakeToken
  PROVE  Told' = Told /\ Line' = Line
<1>1. /\ Len(answer) \in Nat /\ Len(stream) \in Nat /\ Words \in Nat /\ Words <= Len(stream)
      /\ Told \in Nat /\ Told = Len(answer) + Words
      /\ graph = "over" => Words = Len(stream) - 1 /\ stream[Len(stream)].kind = "finished"
      /\ graph # "over" => Words = Len(stream)
  BY LineTypes
<1>2. Head(stream) = stream[1] /\ stream[1].kind = "token" /\ stream[1].slice \in Slices
  BY TokenTaken
<1>3. stream \in Seq(Events) /\ answer \in Seq(Slices)
  BY DEF TypeInv, TurnTypeOK
<1>4. /\ stream # <<>> /\ stream' = Tail(stream) /\ answer' = answer \o <<stream[1].slice>>
      /\ UNCHANGED graph
  BY <1>2 DEF TakeToken, Say, graphVars
<1>5. /\ Len(stream') = Len(stream) - 1 /\ Len(stream) > 0
      /\ \A i \in 1 .. Len(stream') : i + 1 \in 1 .. Len(stream) /\ stream'[i] = stream[i + 1]
  BY <1>3, <1>4, TakenEvents
<1>6. <<stream[1].slice>> \in Seq(Slices) /\ Len(<<stream[1].slice>>) = 1
  BY <1>2
<1>7. /\ Len(answer') = Len(answer) + 1 /\ answer'[Len(answer) + 1] = stream[1].slice
      /\ \A i \in 1 .. Len(answer) : answer'[i] = answer[i]
  BY <1>1, <1>3, <1>4, <1>6, ConcatProperties
<1>8. Words' = Words - 1 /\ Words > 0 /\ Told' = Told
  <2>1. CASE graph = "over"
    <3>1. Len(stream) # 1
      BY <1>1, <1>2, <2>1
    <3> QED BY <1>1, <1>4, <1>5, <1>7, <2>1, <3>1 DEF Words, Told
  <2>2. CASE graph # "over"
    <3>1. Words' = Len(stream') /\ Words = Len(stream)
      BY <1>4, <2>2 DEF Words
    <3>2. Len(stream') = Len(stream) - 1 /\ Len(stream) > 0 /\ Len(answer') = Len(answer) + 1
      BY <1>5, <1>7
    <3> QED BY <1>1, <3>1, <3>2 DEF Told
  <2> QED BY <2>1, <2>2
<1>9. ASSUME NEW k \in 1 .. Told
      PROVE  (IF k <= Len(answer) THEN answer[k] ELSE stream[k - Len(answer)].slice)
               = (IF k <= Len(answer)' THEN answer'[k] ELSE stream'[k - Len(answer)'].slice)
  <2>1. CASE k <= Len(answer)
    BY <1>1, <1>7, <2>1
  <2>2. CASE k = Len(answer) + 1
    BY <1>1, <1>7, <2>2
  <2>3. CASE k > Len(answer) + 1
    <3>1. k - Len(answer') \in 1 .. Len(stream') /\ k - Len(answer') + 1 = k - Len(answer)
      BY <1>1, <1>5, <1>7, <1>8, <2>3
    <3>2. stream'[k - Len(answer')] = stream[k - Len(answer)]
      BY <1>5, <3>1
    <3>3. ~ (k <= Len(answer)) /\ ~ (k <= Len(answer'))
      BY <1>1, <1>7, <2>3
    <3> QED BY <3>2, <3>3
  <2> QED BY <1>1, <2>1, <2>2, <2>3
<1> QED BY <1>1, <1>8, <1>9, SameLine

\* A slice streamed is one more in the line.
LEMMA LineGrows ==
  ASSUME TypeInv, StreamInv, SealedInv, ending = "none", graph # "over", UNCHANGED <<answer, graph>>,
         NEW slice \in Slices, Send(Token(slice))
  PROVE  /\ Told' = Told + 1 /\ Line'[Told + 1] = slice
         /\ \A k \in 1 .. Told : Line'[k] = Line[k]
<1>1. /\ Len(answer) \in Nat /\ Len(stream) \in Nat /\ Told \in Nat /\ Told = Len(answer) + Len(stream)
  BY LineTypes
<1>2. stream \in Seq(Events) /\ Token(slice) \in Events /\ Token(slice).slice = slice
  BY DEF TypeInv, Events, Token
<1>3. /\ Len(stream') = Len(stream) + 1 /\ stream'[Len(stream) + 1] = Token(slice)
      /\ \A i \in 1 .. Len(stream) : stream'[i] = stream[i]
  BY <1>2, SentEvents
<1>4. Told' = Told + 1
  BY <1>1, <1>3 DEF Told, Words
<1>5. Line'[Told + 1] = slice
  <2>1. PICK k \in 1 .. Told' : k = Told + 1 /\ ~ (k <= Len(answer')) /\ k - Len(answer') = Len(stream) + 1
    BY <1>1, <1>4
  <2>2. Line'[k] = stream'[k - Len(answer')].slice
    BY <2>1 DEF Line
  <2>3. stream'[k - Len(answer')] = Token(slice)
    BY <1>3, <2>1
  <2> QED BY <1>2, <2>1, <2>2, <2>3
<1>6. ASSUME NEW k \in 1 .. Told PROVE Line'[k] = Line[k]
  <2>1. k \in 1 .. Told' /\ Len(answer') = Len(answer)
    BY <1>1, <1>4
  <2>2. CASE k <= Len(answer)
    BY <2>1, <2>2 DEF Line
  <2>3. CASE ~ (k <= Len(answer))
    <3>1. k - Len(answer) \in 1 .. Len(stream)
      BY <1>1, <2>3
    <3> QED BY <1>3, <2>1, <2>3, <3>1 DEF Line
  <2> QED BY <2>2, <2>3
<1> QED BY <1>4, <1>5, <1>6

\* Where the line and the call's text stay, so does what is known of them.
LEMMA LineInvKept ==
  ASSUME LineInv, Told' = Told, Line' = Line, UNCHANGED <<call, said, silent>>
  PROVE  LineInv'
BY DEF LineInv, EndsLine, OneCall

\* So does what is known of the last message.
LEMMA LastInvKept ==
  ASSUME LastInv, Told' = Told, Line' = Line, UNCHANGED <<call, said, last>>
  PROVE  LastInv'
BY DEF LastInv, EarlierText, EndsLine, OneCall

\* A slice said is the last of its call.
LEMMA GenerateTells ==
  ASSUME TypeInv, StreamInv, TellInv, ending = "none", Generate
  PROVE  LineInv'
<1> DEFINE n == Len(said) + 1
           slice == <<call, n>>
<1>1. /\ graph = "agent" /\ said' = Append(said, slice) /\ UNCHANGED <<graph, call, silent, answer>>
      /\ Len(said) < MaxTokens /\ (silent => UNCHANGED stream) /\ (~ silent => Send(Token(slice)))
  BY DEF Generate, loopVars
<1>2. said \in Seq(Slices) /\ Len(said) \in Nat /\ call \in Calls /\ MaxTokens \in Nat /\ MaxSteps \in Nat
  BY <1>1, TurnAssumption, LenProperties DEF TypeInv, TurnTypeOK, CountInv
<1>3. slice \in Slices /\ slice[1] = call /\ slice[2] = n /\ n \in Nat /\ call \in Nat /\ call > 0
  BY <1>1, <1>2 DEF Slices, Calls
<1>4. /\ Len(said') = n /\ said'[n] = slice /\ \A k \in 1 .. Len(said) : said'[k] = said[k]
  BY <1>1, <1>2, <1>3, AppendProperties
<1>5. LineInv /\ SealedInv
  BY DEF TellInv
<1>6. Told \in Nat /\ \A i \in 1 .. Told : Line[i] \in Slices
  BY <1>5, LineTypes
<1>7. \A i \in 1 .. Told : Line[i][2] \in Int
  BY <1>6 DEF Slices, Earlier, Spent
<1> HIDE DEF slice
<1>8. OneCall(said, call)'
  <2>1. ASSUME NEW k \in 1 .. n PROVE said'[k] = <<call, k>>
    <3>1. CASE k = n
      BY <1>4, <3>1 DEF slice
    <3>2. CASE k # n
      <4>1. k \in 1 .. Len(said)
        BY <1>2, <1>3, <3>2
      <4> QED BY <1>4, <1>5, <4>1 DEF LineInv, OneCall
    <3> QED BY <3>1, <3>2
  <2> QED BY <1>1, <1>4, <2>1 DEF OneCall
<1>9. CASE silent
  <2>1. Told' = Told /\ Line' = Line
    BY <1>1, <1>5, <1>9, LineKept
  <2>2. \A i \in 1 .. Told : Line[i][1] \in 1 .. call /\ Line[i][1] # call
    BY <1>5, <1>9 DEF LineInv
  <2> QED BY <1>1, <1>5, <1>8, <1>9, <2>1, <2>2 DEF LineInv
<1>10. CASE ~ silent
  <2>1. Send(Token(slice))
    BY <1>1, <1>10
  <2>2. /\ Told' = Told + 1 /\ Line'[Told + 1] = slice
        /\ \A k \in 1 .. Told : Line'[k] = Line[k]
    BY <1>1, <1>3, <1>5, <2>1, LineGrows
  <2>3. ASSUME NEW i \in 1 .. Told', NEW j \in 1 .. Told', i < j PROVE Before(Line'[i], Line'[j])
    <3>1. i \in 1 .. Told /\ Line'[i] = Line[i]
      BY <1>6, <2>2, <2>3
    <3>2. CASE j = Told + 1
      <4>1. Line[i][1] \in 1 .. call /\ (Line[i][1] = call => Line[i][2] <= Len(said))
        BY <1>5, <3>1 DEF LineInv
      <4> QED BY <1>2, <1>3, <1>7, <2>2, <3>1, <3>2, <4>1 DEF Before
    <3>3. CASE j # Told + 1
      <4>1. j \in 1 .. Told /\ Line'[j] = Line[j]
        BY <1>6, <2>2, <3>3
      <4> QED BY <1>5, <2>3, <3>1, <4>1 DEF LineInv
    <3> QED BY <3>2, <3>3
  <2>4. ASSUME NEW i \in 1 .. Told'
        PROVE  Line'[i][1] \in 1 .. call /\ (Line'[i][1] = call => Line'[i][2] <= n)
    <3>1. CASE i = Told + 1
      BY <1>3, <2>2, <3>1
    <3>2. CASE i # Told + 1
      <4>1. i \in 1 .. Told /\ Line'[i] = Line[i]
        BY <1>6, <2>2, <3>2
      <4>2. Line[i][1] \in 1 .. call /\ (Line[i][1] = call => Line[i][2] <= Len(said))
        BY <1>5, <4>1 DEF LineInv
      <4> QED BY <1>2, <1>7, <4>1, <4>2
    <3> QED BY <3>1, <3>2
  <2>5. n <= Told' /\ \A k \in 1 .. n : Line'[Told' - n + k] = said'[k]
    <3>1. Len(said) <= Told /\ \A k \in 1 .. Len(said) : Line[Told - Len(said) + k] = said[k]
      BY <1>5, <1>10 DEF LineInv, EndsLine
    <3>2. n <= Told'
      BY <1>2, <1>6, <2>2, <3>1
    <3>3. ASSUME NEW k \in 1 .. n PROVE Line'[Told' - n + k] = said'[k]
      <4>1. CASE k = n
        <5>1. Told' - n + k = Told + 1
          BY <1>6, <1>3, <2>2, <4>1
        <5> QED BY <1>4, <2>2, <4>1, <5>1
      <4>2. CASE k # n
        <5>1. k \in 1 .. Len(said) /\ Told' - n + k = Told - Len(said) + k /\ Told - Len(said) + k \in 1 .. Told
          BY <1>2, <1>6, <2>2, <3>1, <4>2
        <5> QED BY <1>4, <2>2, <3>1, <5>1
      <4> QED BY <4>1, <4>2
    <3> QED BY <3>2, <3>3
  <2>6. EndsLine(said)'
    BY <1>4, <2>5 DEF EndsLine
  <2> HIDE DEF n
  <2> QED BY <1>1, <1>4, <1>8, <1>10, <2>3, <2>4, <2>6 DEF LineInv
<1> QED BY <1>9, <1>10

\* The next call: what its predecessor said stands at the end of the line, or was kept off it.
LEMMA ProceedTells ==
  ASSUME TypeInv, StreamInv, TellInv, ending = "none", Proceed
  PROVE  LineInv' /\ LastInv'
<1>1. /\ graph = "boundary" /\ graph' = next /\ next \in {"agent", "tools"}
      /\ UNCHANGED <<last, answer, stream>>
  BY DEF Proceed, loopVars, TypeInv, TurnTypeOK
<1>2. LineInv /\ LastInv /\ SealedInv
  <2>1. UpToDate
    BY <1>1 DEF UpToDate, StreamInv
  <2> QED BY <2>1 DEF TellInv
<1>3. Told' = Told /\ Line' = Line /\ Told \in Nat
  <2>1. (graph = "over") <=> (graph' = "over")
    BY <1>1
  <2> QED BY <1>1, <1>2, <2>1, LineKept, LineTypes
<1>4. CASE next = "tools"
  <2>1. UNCHANGED <<call, said, silent>>
    BY <1>4 DEF Proceed
  <2> QED BY <1>1, <1>2, <1>3, <2>1, LineInvKept, LastInvKept
<1>5. CASE next = "agent"
  <2>1. call' = call + 1 /\ said' = <<>> /\ Len(said') = 0 /\ call \in Nat
    BY <1>5, TurnAssumption DEF Proceed, TypeInv, TurnTypeOK
  <2>2. ASSUME NEW i \in 1 .. Told PROVE Line[i][1] \in 1 .. call' /\ Line[i][1] # call'
    <3>1. Line[i][1] \in 1 .. call
      BY <1>2 DEF LineInv
    <3> QED BY <2>1, <3>1
  <2>3. LineInv'
    <3>1. EndsLine(said)'
      BY <1>3, <2>1 DEF EndsLine
    <3>2. OneCall(said, call)'
      BY <2>1 DEF OneCall
    <3> QED BY <1>2, <1>3, <2>2, <3>1, <3>2 DEF LineInv
  <2>4. LastInv'
    <3>1. CASE last \in {<<>>, <<Earlier>>}
      BY <1>1, <3>1 DEF LastInv
    <3>2. CASE last = said
      <4>1. EarlierText(call)
        <5>1. silent => \A i \in 1 .. Told : Line[i][1] < call
          <6>1. ASSUME silent, NEW i \in 1 .. Told PROVE Line[i][1] < call
            <7>1. Line[i][1] \in 1 .. call /\ Line[i][1] # call
              BY <1>2, <6>1 DEF LineInv
            <7> QED BY <2>1, <7>1
          <6> QED BY <6>1
        <5> QED BY <1>2, <3>2, <5>1 DEF LineInv, EarlierText
      <4>2. /\ \A k \in 1 .. Len(last') : last'[k] = <<call, k>>
            /\ EndsLine(last)' \/ \A i \in 1 .. Told' : Line'[i][1] < call
        BY <1>1, <1>3, <4>1 DEF EarlierText, OneCall, EndsLine
      <4>3. call \in 0 .. call' - 1
        BY <2>1
      <4> QED BY <2>1, <4>2, <4>3 DEF LastInv, EarlierText, OneCall
    <3>3. ASSUME NEW c \in 0 .. call - 1, EarlierText(c) PROVE LastInv'
      <4>1. c \in 0 .. call' - 1
        BY <2>1, <3>3
      <4>2. /\ \A k \in 1 .. Len(last') : last'[k] = <<c, k>>
            /\ EndsLine(last)' \/ \A i \in 1 .. Told' : Line'[i][1] < c
        BY <1>1, <1>3, <3>3 DEF EarlierText, OneCall, EndsLine
      <4> QED BY <2>1, <4>1, <4>2 DEF LastInv, EarlierText, OneCall
    <3> QED BY <1>2, <3>1, <3>2, <3>3 DEF LastInv
  <2> QED BY <2>3, <2>4
<1> QED BY <1>1, <1>4, <1>5

\* A text whose slices come in the order they were said.
InOrder(text) ==
  \A i, j \in 1 .. Len(text) : i < j /\ text[i][1] > 0 /\ text[j][1] > 0 => Before(text[i], text[j])

\* The line's order is that of what was published.
LEMMA LineOrder ==
  ASSUME TypeInv, StreamInv, SealedInv, LineInv, ending = "none"
  PROVE  InOrder(answer) /\ SlicesInOrder
<1>1. Len(answer) \in Nat /\ Told \in Nat /\ Words \in Nat /\ Told = Len(answer) + Words
  BY LineTypes
<1>2. \A i \in 1 .. Len(answer) : i \in 1 .. Told /\ Line[i] = answer[i]
  <2> TAKE i \in 1 .. Len(answer)
  <2>1. i \in 1 .. Told /\ i <= Len(answer)
    BY <1>1
  <2> QED BY <2>1 DEF Line
<1>3. \A i, j \in 1 .. Len(answer) : i < j => Before(answer[i], answer[j])
  BY <1>2 DEF LineInv
<1>4. DOMAIN answer = 1 .. Len(answer)
  BY LenProperties DEF TypeInv, TurnTypeOK
<1> QED BY <1>3, <1>4 DEF InOrder, SlicesInOrder

\* A turn sealed with no word of the state publishes nothing more.
LEMMA SealsNothing ==
  ASSUME TypeInv, NEW how, Seal(how, <<>>, <<>>)
  PROVE  answer' = answer
<1>1. answer \in Seq(Slices) /\ <<>> \in Seq(Slices) /\ Len(<<>>) = 0
  BY DEF TypeInv, TurnTypeOK
<1>2. Len(answer) \in Nat
  BY <1>1, LenProperties
<1>3. IsSuffix(<<>>, answer)
  <2> DEFINE none == <<>>
  <2>1. none \in Seq(Slices) /\ Len(none) <= Len(answer) /\ \A k \in 1 .. Len(none) : FALSE
    BY <1>1, <1>2
  <2> HIDE DEF none
  <2>2. IsSuffix(none, answer)
    BY <1>1, <2>1, SuffixIs
  <2> QED BY <2>2 DEF none
<1>4. answer \o <<>> = answer
  BY <1>1, ConcatEmptySeq
<1> QED BY <1>3, <1>4 DEF Seal, WithAnswer

\* What is left of the line when the loop takes the outcome is the answer.
LEMMA OutcomeLine ==
  ASSUME TypeInv, StreamInv, TellInv, TakeOutcome
  PROVE  /\ ending = "none" /\ LineInv /\ SealedInv /\ Told = Len(answer) /\ Len(answer) \in Nat
         /\ \A i \in 1 .. Len(answer) : Line[i] = answer[i]
         /\ Head(stream).how # "failed" => LastInv
<1>1. loop = "stream" /\ stream # <<>> /\ Head(stream).kind = "finished"
  BY DEF TakeOutcome
<1>2. ending = "none" /\ LineInv /\ SealedInv
  BY <1>1 DEF TellInv, SealedInv
<1>3. graph = "over" /\ Len(stream) = 1
  BY OutcomeIsLast
<1>4. Told = Len(answer) /\ Len(answer) \in Nat
  BY <1>2, <1>3, LineTypes
<1>5. \A i \in 1 .. Len(answer) : Line[i] = answer[i]
  BY <1>4 DEF Line
<1>6. ASSUME Head(stream).how # "failed" PROVE LastInv
  <2>1. stream \in Seq(Events)
    BY DEF TypeInv
  <2>2. Head(stream) = stream[1]
    BY <1>1, <2>1
  <2>3. \A i \in 1 .. Len(stream) : stream[i].how # "failed"
    BY <1>3, <1>6, <2>2
  <2>4. UpToDate
    BY <1>3, <2>3 DEF UpToDate
  <2> QED BY <1>2, <2>4 DEF TellInv
<1> QED BY <1>2, <1>4, <1>5, <1>6

\* The last words are at the end of the answer, or they are those of a later call than
\* all that is in it, or of no call of this turn.
LEMMA LastWords ==
  ASSUME TypeInv, StreamInv, TellInv, TakeOutcome, Head(stream).how # "failed", ~ IsSuffix(last, answer)
  PROVE  \/ last = <<Earlier>>
         \/ \E c \in Nat : OneCall(last, c) /\ \A i \in 1 .. Len(answer) : answer[i][1] < c
<1>1. /\ LineInv /\ LastInv /\ Told = Len(answer) /\ Len(answer) \in Nat
      /\ \A i \in 1 .. Len(answer) : Line[i] = answer[i]
  BY OutcomeLine
<1>2. last \in Seq(Slices) /\ answer \in Seq(Slices) /\ call \in Nat
  BY TurnAssumption DEF TypeInv, TurnTypeOK
<1>3. Len(last) \in Nat
  BY <1>2, LenProperties
<1>4. ~ EndsLine(last)
  <2> SUFFICES ASSUME EndsLine(last) PROVE FALSE
    OBVIOUS
  <2>1. Len(last) <= Len(answer)
    BY <1>1 DEF EndsLine
  <2>2. ASSUME NEW k \in 1 .. Len(last) PROVE last[k] = answer[Len(answer) - Len(last) + k]
    <3>1. Len(answer) - Len(last) + k \in 1 .. Len(answer)
      BY <1>1, <1>3, <2>1
    <3> QED BY <1>1, <3>1 DEF EndsLine
  <2> QED BY <1>2, <2>1, <2>2, SuffixIs
<1>5. last # <<>>
  BY <1>1, <1>4 DEF EndsLine
<1>6. CASE last = said
  <2>1. silent /\ OneCall(last, call)
    BY <1>1, <1>4, <1>6 DEF LineInv
  <2>2. ASSUME NEW i \in 1 .. Len(answer) PROVE answer[i][1] < call
    <3>1. answer[i][1] \in 1 .. call /\ answer[i][1] # call
      BY <1>1, <2>1 DEF LineInv
    <3> QED BY <1>2, <3>1
  <2> QED BY <1>2, <2>1, <2>2
<1>7. ASSUME NEW c \in 0 .. call - 1, EarlierText(c)
      PROVE  c \in Nat /\ OneCall(last, c) /\ \A i \in 1 .. Len(answer) : answer[i][1] < c
  BY <1>1, <1>2, <1>4, <1>7 DEF EarlierText
<1> QED BY <1>1, <1>5, <1>6, <1>7 DEF LastInv

\* The answer with the last words: they are its end, and it is in order.
LEMMA WholeAnswer ==
  ASSUME TypeInv, StreamInv, TellInv, TakeOutcome, Head(stream).how # "failed"
  PROVE  /\ WithAnswer(last) \in Seq(Slices) /\ IsSuffix(last, WithAnswer(last))
         /\ InOrder(WithAnswer(last))
<1>1. last \in Seq(Slices) /\ answer \in Seq(Slices)
  BY DEF TypeInv, TurnTypeOK
<1>2. InOrder(answer) /\ Len(answer) \in Nat /\ Len(last) \in Nat
  BY <1>1, OutcomeLine, LineOrder, LenProperties
<1>3. CASE IsSuffix(last, answer)
  BY <1>1, <1>2, <1>3 DEF WithAnswer
<1>4. CASE ~ IsSuffix(last, answer)
  <2> DEFINE n == Len(answer)
             whole == answer \o last
  <2>1. WithAnswer(last) = whole
    BY <1>4 DEF WithAnswer
  <2>2. /\ whole \in Seq(Slices) /\ Len(whole) = n + Len(last)
        /\ \A i \in 1 .. n + Len(last) : whole[i] = IF i <= n THEN answer[i] ELSE last[i - n]
    BY <1>1, ConcatProperties
  <2> HIDE DEF whole
  <2>3. \A i \in 1 .. n : whole[i] = answer[i]
    BY <1>2, <2>2
  <2>4. \A k \in 1 .. Len(last) : whole[n + k] = last[k]
    <3> TAKE k \in 1 .. Len(last)
    <3>1. n + k \in 1 .. n + Len(last) /\ ~ (n + k <= n) /\ n + k - n = k
      BY <1>2
    <3> QED BY <2>2, <3>1
  <2>5. IsSuffix(last, whole)
    <3>1. Len(whole) - Len(last) = n /\ Len(last) <= Len(whole)
      BY <1>2, <2>2
    <3> QED BY <1>1, <2>2, <2>4, <3>1, SuffixIs
  <2>6. InOrder(whole)
    <3>1. ASSUME NEW i \in 1 .. Len(whole), NEW j \in 1 .. Len(whole), i < j,
                 whole[i][1] > 0, whole[j][1] > 0
          PROVE  Before(whole[i], whole[j])
      <4>1. CASE j <= n
        <5>1. i \in 1 .. n /\ j \in 1 .. n
          BY <1>2, <2>2, <3>1, <4>1
        <5> QED BY <1>2, <2>3, <3>1, <5>1 DEF InOrder
      <4>2. CASE ~ (j <= n)
        <5>1. PICK l \in 1 .. Len(last) : j = n + l
          <6>1. j - n \in 1 .. Len(last) /\ j = n + (j - n)
            BY <1>2, <2>2, <4>2
          <6> QED BY <6>1
        <5>2. whole[j] = last[l]
          BY <2>4, <5>1
        <5>3. CASE last = <<Earlier>>
          BY <3>1, <5>2, <5>3 DEF Earlier
        <5>4. ASSUME NEW c \in Nat, OneCall(last, c), \A m \in 1 .. n : answer[m][1] < c
              PROVE  Before(whole[i], whole[j])
          <6>1. whole[j] = <<c, l>>
            BY <5>2, <5>4 DEF OneCall
          <6>2. CASE i <= n
            <7>1. i \in 1 .. n /\ whole[i][1] < c
              BY <1>2, <2>2, <2>3, <5>4, <6>2
            <7> QED BY <6>1, <7>1 DEF Before
          <6>3. CASE ~ (i <= n)
            <7>1. PICK k \in 1 .. Len(last) : i = n + k
              <8>1. i - n \in 1 .. Len(last) /\ i = n + (i - n)
                BY <1>2, <2>2, <6>3
              <8> QED BY <8>1
            <7>2. whole[i] = <<c, k>> /\ k < l
              <8>1. k < l
                BY <1>2, <3>1, <5>1, <7>1
              <8> QED BY <2>4, <5>4, <7>1, <8>1 DEF OneCall
            <7> QED BY <6>1, <7>2 DEF Before
          <6> QED BY <6>2, <6>3
        <5> QED BY <1>4, <5>3, <5>4, LastWords
      <4> QED BY <4>1, <4>2
    <3> QED BY <3>1 DEF InOrder
  <2> QED BY <2>1, <2>2, <2>5, <2>6
<1> QED BY <1>3, <1>4

\* The sentence of a spent budget after a text: it is of no call, so the order stays.
LEMMA SpentAfter ==
  ASSUME NEW text \in Seq(Slices), NEW whole \in Seq(Slices), IsSuffix(text, whole), InOrder(whole)
  PROVE  /\ IsSuffix(Append(text, Spent), whole \o <<Spent>>)
         /\ InOrder(whole \o <<Spent>>)
<1>1. Spent \in Slices /\ Spent[1] = 0
  BY DEF Slices, Spent
<1>2. whole \o <<Spent>> = Append(whole, Spent)
  BY <1>1, AppendIsConcat
<1> DEFINE longer == Append(whole, Spent)
           more == Append(text, Spent)
<1>3. /\ more \in Seq(Slices) /\ Len(more) = Len(text) + 1 /\ more[Len(text) + 1] = Spent
      /\ \A k \in 1 .. Len(text) : more[k] = text[k]
  BY <1>1, AppendProperties
<1>4. /\ longer \in Seq(Slices) /\ Len(longer) = Len(whole) + 1 /\ longer[Len(whole) + 1] = Spent
      /\ \A k \in 1 .. Len(whole) : longer[k] = whole[k]
  BY <1>1, AppendProperties
<1>5. Len(text) \in Nat /\ Len(whole) \in Nat
  BY LenProperties
<1>6. Len(text) <= Len(whole) /\ \A k \in 1 .. Len(text) : text[k] = whole[Len(whole) - Len(text) + k]
  BY SuffixIs
<1> HIDE DEF longer, more
<1>7. ASSUME NEW k \in 1 .. Len(more) PROVE more[k] = longer[Len(longer) - Len(more) + k]
  <2>1. CASE k = Len(text) + 1
    <3>1. Len(longer) - Len(more) + k = Len(whole) + 1
      BY <1>3, <1>4, <1>5, <2>1
    <3> QED BY <1>3, <1>4, <2>1, <3>1
  <2>2. CASE k # Len(text) + 1
    <3>1. /\ k \in 1 .. Len(text) /\ Len(longer) - Len(more) + k = Len(whole) - Len(text) + k
          /\ Len(whole) - Len(text) + k \in 1 .. Len(whole)
      BY <1>3, <1>4, <1>5, <1>6, <2>2
    <3> QED BY <1>3, <1>4, <1>6, <3>1
  <2> QED BY <2>1, <2>2
<1>8. IsSuffix(more, longer)
  <2>1. Len(more) <= Len(longer)
    BY <1>3, <1>4, <1>5, <1>6
  <2> QED BY <1>3, <1>4, <1>7, <2>1, SuffixIs
<1>9. InOrder(longer)
  <2>1. ASSUME NEW i \in 1 .. Len(longer), NEW j \in 1 .. Len(longer), i < j,
               longer[i][1] > 0, longer[j][1] > 0
        PROVE  Before(longer[i], longer[j])
    <3>1. j # Len(whole) + 1
      BY <1>1, <1>4, <2>1
    <3>2. i \in 1 .. Len(whole) /\ j \in 1 .. Len(whole)
      BY <1>4, <1>5, <2>1, <3>1
    <3> QED BY <1>4, <2>1, <3>2 DEF InOrder
  <2> QED BY <2>1 DEF InOrder
<1> QED BY <1>2, <1>8, <1>9 DEF longer, more

\* The turn is sealed on the outcome with the last words told, all in order.
LEMMA OutcomeTells ==
  ASSUME TypeInv, StreamInv, TellInv, TakeOutcome
  PROVE  SlicesAreTold' /\ ending' # "none" /\ loop' = "leaving" /\ graph' = "over"
<1>1. UNCHANGED <<graph, last>> /\ graph = "over"
  BY OutcomeIsLast DEF TakeOutcome, graphVars
<1>2. answer \in Seq(Slices) /\ last \in Seq(Slices)
  BY DEF TypeInv, TurnTypeOK
<1>3. ASSUME NEW text \in Seq(Slices), answer' = text, InOrder(text),
             ending' = "finished" => IsSuffix(last, text) \/ IsSuffix(Append(last, Spent), text)
      PROVE  SlicesAreTold'
  <2>1. DOMAIN answer' = 1 .. Len(text)
    BY <1>3, LenProperties
  <2>2. SlicesInOrder'
    BY <1>3, <2>1 DEF SlicesInOrder, InOrder
  <2>3. LastWordsAreTold'
    BY <1>1, <1>3 DEF LastWordsAreTold
  <2> QED BY <2>2, <2>3 DEF SlicesAreTold
<1>4. CASE Head(stream).how = "failed" /\ Seal("failed", <<>>, <<>>)
  <2>1. answer' = answer /\ ending' = "failed" /\ loop' = "leaving"
    BY <1>4, SealsNothing DEF Seal
  <2>2. InOrder(answer)
    BY OutcomeLine, LineOrder
  <2> QED BY <1>1, <1>2, <1>3, <2>1, <2>2
<1>5. ASSUME Head(stream).how # "failed", NEW more \in {<<>>, <<Spent>>}, Seal("finished", last, more)
      PROVE  SlicesAreTold' /\ ending' # "none" /\ loop' = "leaving" /\ graph' = "over"
  <2> DEFINE whole == WithAnswer(last)
  <2>1. whole \in Seq(Slices) /\ IsSuffix(last, whole) /\ InOrder(whole)
    BY <1>5, WholeAnswer
  <2>2. answer' = whole \o more /\ ending' = "finished" /\ loop' = "leaving"
    BY <1>5 DEF Seal
  <2> HIDE DEF whole
  <2>3. CASE more = <<>>
    <3>1. answer' = whole
      BY <2>1, <2>2, <2>3, ConcatEmptySeq
    <3> QED BY <1>1, <1>3, <2>1, <2>2, <3>1
  <2>4. CASE more = <<Spent>>
    <3>1. IsSuffix(Append(last, Spent), answer') /\ InOrder(whole \o <<Spent>>)
      BY <1>2, <2>1, <2>2, <2>4, SpentAfter
    <3>2. whole \o <<Spent>> \in Seq(Slices)
      <4>1. <<Spent>> \in Seq(Slices)
        BY DEF Slices
      <4> QED BY <2>1, <4>1, ConcatProperties
    <3> QED BY <1>1, <1>3, <2>2, <2>4, <3>1, <3>2
  <2> QED BY <1>5, <2>3, <2>4
<1>6. \/ Head(stream).how = "failed" /\ Seal("failed", <<>>, <<>>)
      \/ Head(stream).how # "failed" /\ \E more \in {<<>>, <<Spent>>} : Seal("finished", last, more)
  BY DEF TakeOutcome
<1> QED BY <1>1, <1>4, <1>5, <1>6

\* One step of anybody keeps the line, and what a sealed turn told.
LEMMA TellStep == TypeInv /\ StreamInv /\ TellInv /\ [TurnNext]_turnVars => TellInv'
<1> SUFFICES ASSUME TypeInv, StreamInv, TellInv, [TurnNext]_turnVars PROVE TellInv'
  OBVIOUS
<1>0. SealedInv
  BY DEF TellInv
\* A turn that is sealed already.
<1>1. CASE ending # "none"
  <2>1. UNCHANGED <<graph, last, answer, ending>> /\ loop' \in {"leaving", "left"}
    <3>1. loop \in {"leaving", "left"} /\ graph \in {"unborn", "over"}
      BY <1>0, <1>1 DEF SealedInv
    <3>2. CASE UNCHANGED turnVars \/ PressStop \/ \E m \in Steers : FindRun(m) \/ Post(m) \/ Record(m)
      BY <3>1, <3>2 DEF turnVars, PressStop, FindRun, Post, Record, graphVars, loopVars
    <3>3. CASE \E t \in Tools : RunsTool(t)
      BY <3>1, <3>3 DEF RunsTool, StartTool, EndTool, graphVars, loopVars
    <3>4. ~ Executes
      BY <3>1 DEF Executes, Generate, AskTools, Complete, NodeFails, StopGraph, Proceed, Interrupt, Results
    <3>5. CASE Loops
      BY <3>1, <3>5 DEF Loops, EndEarly, Register, GraphUnbuilt, NothingToAnswer, Launch, TakeToken,
        StreamIdle, TakeCard, TakeOutcome, Leave, Moves, graphVars
    <3> QED BY <3>2, <3>3, <3>4, <3>5 DEF TurnNext
  <2>2. SlicesAreTold'
    BY <1>1, <2>1 DEF TellInv, SlicesAreTold, SlicesInOrder, LastWordsAreTold
  <2> QED BY <1>0, <1>1, <2>1, <2>2 DEF TellInv, SealedInv
<1>2. CASE ending = "none"
  <2>0. LineInv /\ (UpToDate => LastInv) /\ stream \in Seq(Events)
    BY <1>2 DEF TellInv, TypeInv
  \* A step that leaves the graph where it was, and the line as it is.
  <2>1. ASSUME Told' = Told, Line' = Line, UNCHANGED <<call, said, silent, ending>>, SealedInv',
               UNCHANGED last, UpToDate' => UpToDate
        PROVE  TellInv'
    <3>1. LineInv'
      BY <2>0, <2>1, LineInvKept
    <3>2. UpToDate' => LastInv'
      BY <2>0, <2>1, LastInvKept
    <3> QED BY <1>2, <2>1, <3>1, <3>2 DEF TellInv
  <2>2. ASSUME UNCHANGED <<graph, call, said, silent, last, stream, answer, ending>> PROVE TellInv'
    <3>1. Told' = Told /\ Line' = Line
      BY <1>0, <1>2, <2>2, LineKept
    <3>2. SealedInv' /\ (UpToDate' => UpToDate)
      BY <1>0, <1>2, <2>2 DEF SealedInv, UpToDate
    <3> QED BY <2>1, <2>2, <3>1, <3>2
  \* A step that ends a node, with its text kept.
  <2>3. ASSUME graph = "agent", graph' # "agent", Told' = Told, Line' = Line,
               UNCHANGED <<call, said, silent, ending>>, SealedInv',
               last' \in {said, IF said = <<>> THEN last ELSE said}
        PROVE  TellInv'
    <3>1. LineInv'
      BY <2>0, <2>3, LineInvKept
    <3>2. CASE last' = said
      BY <1>2, <2>3, <3>1, <3>2 DEF TellInv, LastInv
    <3>3. CASE last' # said
      <4>1. said = <<>> /\ UNCHANGED last
        BY <2>3, <3>3
      <4>2. UpToDate
        BY <2>3, <4>1 DEF UpToDate, StreamInv
      <4>3. LastInv'
        BY <2>0, <2>3, <4>1, <4>2, LastInvKept
      <4> QED BY <1>2, <2>3, <3>1, <4>3 DEF TellInv
    <3> QED BY <3>2, <3>3
  \* The graph sends its outcome.
  <2>4. ASSUME NEW how \in Hows, Send(Finished(how)), graph # "over", graph' = "over", UNCHANGED <<answer, ending>>
        PROVE  /\ Told' = Told /\ Line' = Line /\ SealedInv'
               /\ how = "failed" => ~ UpToDate'
               /\ \A i \in 1 .. Len(stream) : stream[i].kind # "finished"
    <3>1. Told' = Told /\ Line' = Line
      BY <1>0, <1>2, <2>4, LineKept
    <3>2. Finished(how) \in Events /\ Finished(how).kind = "finished" /\ Finished(how).how = how
      BY DEF Finished, Events
    <3>3. Len(stream') = Len(stream) + 1 /\ Len(stream) \in Nat /\ stream'[Len(stream) + 1] = Finished(how)
      BY <2>0, <2>4, <3>2, SentEvents
    <3>4. Len(stream') \in 1 .. Len(stream') /\ Len(stream') > 0 /\ stream'[Len(stream')] = Finished(how)
      BY <3>3
    <3> QED BY <1>2, <2>4, <3>1, <3>2, <3>4 DEF SealedInv, UpToDate, StreamInv
  <2>5. CASE Generate
    <3>1. LineInv'
      BY <1>2, <2>5, GenerateTells
    <3>2. said' # <<>> /\ graph' = "agent" /\ UNCHANGED ending
      <4>1. /\ said \in Seq(Slices) /\ said' = Append(said, <<call, Len(said) + 1>>)
            /\ graph' = "agent" /\ UNCHANGED ending
        BY <2>5 DEF Generate, TypeInv, TurnTypeOK, loopVars
      <4>2. Len(said) \in Nat /\ MaxTokens \in Nat /\ Len(said) < MaxTokens /\ call \in Calls
        BY <2>5, <4>1, TurnAssumption, LenProperties DEF Generate, TypeInv, CountInv
      <4>3. <<call, Len(said) + 1>> \in Slices
        BY <4>2 DEF Slices
      <4> QED BY <4>1, <4>3, AppendProperties
    <3> QED BY <1>2, <3>1, <3>2 DEF TellInv, SealedInv, UpToDate
  <2>6. ASSUME NEW batch \in SUBSET Tools, AskTools(batch) PROVE TellInv'
    <3>1. /\ graph = "agent" /\ graph' = "boundary" /\ last' = IF said = <<>> THEN last ELSE said
          /\ UNCHANGED <<call, said, silent, stream, answer, ending>>
      BY <2>6 DEF AskTools, Kept, loopVars
    <3>2. Told' = Told /\ Line' = Line
      BY <1>0, <1>2, <3>1, LineKept
    <3>3. SealedInv'
      BY <1>2, <3>1 DEF SealedInv
    <3> QED BY <2>3, <3>1, <3>2, <3>3
  <2>7. CASE Complete
    <3>1. /\ graph = "agent" /\ graph' = "over" /\ last' = said /\ Send(Finished("completed"))
          /\ UNCHANGED <<call, said, silent, answer, ending>>
      BY <2>7 DEF Complete, loopVars
    <3>2. Told' = Told /\ Line' = Line /\ SealedInv'
      BY <2>4, <3>1 DEF Hows
    <3> QED BY <2>3, <3>1, <3>2
  <2>8. CASE NodeFails
    <3>1. /\ graph = "agent" /\ graph' = "over" /\ Send(Finished("failed"))
          /\ UNCHANGED <<call, said, silent, last, answer, ending>>
      BY <2>8 DEF NodeFails, loopVars
    <3>2. Told' = Told /\ Line' = Line /\ SealedInv' /\ ~ UpToDate'
      BY <2>4, <3>1 DEF Hows
    <3> QED BY <2>1, <3>1, <3>2
  <2>9. CASE StopGraph
    <3>1. /\ graph \in {"agent", "tools", "boundary"} /\ graph' = "over" /\ Send(Finished("cancelled"))
          /\ UNCHANGED <<call, said, silent, answer, ending>>
      BY <2>9 DEF StopGraph, loopVars
    <3>2. /\ Told' = Told /\ Line' = Line /\ SealedInv'
          /\ \A i \in 1 .. Len(stream) : stream[i].kind # "finished"
      BY <2>4, <3>1 DEF Hows
    <3>3. CASE graph = "agent"
      <4>1. last' = IF said = <<>> THEN last ELSE said
        BY <2>9, <3>3 DEF StopGraph, Kept
      <4> QED BY <2>3, <3>1, <3>2, <3>3, <4>1
    <3>4. CASE graph # "agent"
      <4>1. UNCHANGED last /\ UpToDate
        BY <2>9, <3>2, <3>4 DEF StopGraph, UpToDate
      <4> QED BY <2>1, <3>1, <3>2, <4>1
    <3> QED BY <3>3, <3>4
  <2>10. CASE Proceed
    <3>1. LineInv' /\ LastInv'
      BY <1>2, <2>10, ProceedTells
    <3>2. UNCHANGED ending /\ graph' # "over"
      BY <2>10 DEF Proceed, loopVars, TypeInv, TurnTypeOK
    <3> QED BY <1>2, <3>1, <3>2 DEF TellInv, SealedInv
  <2>11. CASE Interrupt
    <3>1. /\ graph = "boundary" /\ graph' = "over" /\ Send(Finished("interrupted"))
          /\ UNCHANGED <<call, said, silent, last, answer, ending>>
      BY <2>11 DEF Interrupt, loopVars
    <3>2. /\ Told' = Told /\ Line' = Line /\ SealedInv'
          /\ \A i \in 1 .. Len(stream) : stream[i].kind # "finished"
      BY <2>4, <3>1 DEF Hows
    <3>3. UpToDate
      BY <3>1, <3>2 DEF UpToDate
    <3> QED BY <2>1, <3>1, <3>2, <3>3
  <2>12. CASE Results \/ Launch
    <3>1. /\ graph \in {"tools", "unborn"} /\ graph' = "boundary"
          /\ UNCHANGED <<call, said, silent, last, stream, answer, ending>>
      BY <2>12 DEF Results, Launch, Moves, TypeInv, PhaseInv, loopVars
    <3>2. Told' = Told /\ Line' = Line
      <4>1. (graph = "over") <=> (graph' = "over")
        BY <3>1
      <4> QED BY <1>0, <1>2, <3>1, <4>1, LineKept
    <3>3. SealedInv' /\ (UpToDate' => UpToDate)
      BY <1>2, <3>1 DEF SealedInv, UpToDate
    <3> QED BY <2>1, <3>1, <3>2, <3>3
  <2>13. CASE EndEarly \/ NothingToAnswer
    <3>1. PICK how \in {"finished", "failed"} : Seal(how, <<>>, <<>>)
      BY <2>13 DEF EndEarly, NothingToAnswer
    <3>2. answer' = answer /\ ending' = how /\ loop' = "leaving"
      BY <3>1, SealsNothing DEF Seal
    <3>3. graph' = "unborn"
      BY <2>13 DEF EndEarly, NothingToAnswer, TypeInv, PhaseInv, graphVars
    <3>4. SlicesInOrder
      BY <1>0, <1>2, <2>0, LineOrder
    <3>5. SlicesAreTold'
      BY <3>2, <3>3, <3>4 DEF SlicesAreTold, SlicesInOrder, LastWordsAreTold
    <3> QED BY <3>2, <3>3, <3>5 DEF TellInv, SealedInv
  <2>14. CASE TakeToken
    <3>1. Told' = Told /\ Line' = Line
      BY <1>0, <1>2, <2>14, LineMoves
    <3>2. /\ UNCHANGED <<graph, call, said, silent, last, ending>> /\ stream # <<>> /\ stream' = Tail(stream)
          /\ stream[1].kind = "token"
      BY <2>14, TokenTaken DEF TakeToken, graphVars
    <3>3. /\ Len(stream') = Len(stream) - 1 /\ Len(stream) \in Nat /\ Len(stream) > 0
          /\ \A i \in 1 .. Len(stream') : i + 1 \in 1 .. Len(stream) /\ stream'[i] = stream[i + 1]
      BY <2>0, <3>2, TakenEvents
    <3>4. SealedInv'
      <4>1. ASSUME graph = "over" PROVE Len(stream') > 0 /\ stream'[Len(stream')].kind = "finished"
        <5>1. stream[Len(stream)].kind = "finished" /\ Len(stream) # 1
          BY <1>0, <1>2, <3>2, <4>1 DEF SealedInv
        <5>2. Len(stream') \in 1 .. Len(stream') /\ Len(stream') + 1 = Len(stream)
          BY <3>3, <5>1
        <5>3. stream'[Len(stream')] = stream[Len(stream)]
          BY <3>3, <5>2
        <5> QED BY <5>1, <5>2, <5>3
      <4> QED BY <1>2, <3>2, <4>1 DEF SealedInv
    <3>5. ASSUME UpToDate' PROVE UpToDate
      <4>1. ASSUME NEW i \in 1 .. Len(stream), stream[i].kind = "finished" PROVE stream[i].how # "failed"
        <5>1. i # 1
          BY <3>2, <4>1
        <5>2. i - 1 \in 1 .. Len(stream') /\ i - 1 + 1 = i
          BY <3>3, <5>1
        <5>3. stream'[i - 1] = stream[i]
          BY <3>3, <5>2
        <5> QED BY <3>5, <4>1, <5>2, <5>3 DEF UpToDate
      <4> QED BY <3>2, <3>5, <4>1 DEF UpToDate
    <3> QED BY <2>1, <3>1, <3>2, <3>4, <3>5
  <2>15. CASE TakeOutcome
    BY <2>15, OutcomeTells DEF TellInv, SealedInv
  <2>16. CASE \E t \in Tools : RunsTool(t)
    BY <2>2, <2>16 DEF RunsTool, StartTool, EndTool, graphVars, loopVars
  <2>17. CASE Register \/ GraphUnbuilt \/ StreamIdle \/ TakeCard \/ Leave
    BY <2>2, <2>17 DEF Register, GraphUnbuilt, StreamIdle, TakeCard, Leave, graphVars
  <2>18. CASE PressStop \/ \E m \in Steers : FindRun(m) \/ Post(m) \/ Record(m)
    BY <2>2, <2>18 DEF PressStop, FindRun, Post, Record, graphVars, loopVars
  <2>19. CASE UNCHANGED turnVars
    BY <2>2, <2>19 DEF turnVars, graphVars, loopVars
  <2> QED BY <2>5, <2>6, <2>7, <2>8, <2>9, <2>10, <2>11, <2>12, <2>13, <2>14, <2>15, <2>16, <2>17, <2>18, <2>19
    DEF TurnNext, Executes, Loops
<1> QED BY <1>1, <1>2

\* metal.rs, whole_answer and finish.  Of a turn of any length, whose calls stream or do
\* not, stopped or spent at any moment: each slice is told at most once and in the order
\* it was said, and a turn sealed as finished has told its last words whole.
THEOREM EverythingSaidIsTold == TurnSpec => []SlicesAreTold
<1>1. TurnInit => TellInv
  <2> SUFFICES ASSUME TurnInit PROVE TellInv
    OBVIOUS
  <2>1. Told = 0 /\ Len(said) = 0 /\ ending = "none" /\ said = <<>>
    BY DEF TurnInit, Told, Words
  <2>2. LineInv
    BY <2>1 DEF LineInv, OneCall, EndsLine
  <2>3. LastInv /\ SealedInv
    BY DEF TurnInit, LastInv, SealedInv
  <2> QED BY <2>1, <2>2, <2>3 DEF TellInv
<1>2. TypeInv /\ StreamInv /\ TellInv => SlicesAreTold
  <2> SUFFICES ASSUME TypeInv, StreamInv, TellInv, ending = "none" PROVE SlicesAreTold
    BY DEF TellInv
  <2>1. SlicesInOrder
    BY LineOrder DEF TellInv
  <2> QED BY <2>1 DEF SlicesAreTold, LastWordsAreTold
<1>3. ShownInv => TypeInv /\ StreamInv
  BY DEF ShownInv, CardInv
<1> QED BY <1>1, <1>2, <1>3, ShownInit, ShownStep, TellStep, PTL DEF TurnSpec
=============================================================================
