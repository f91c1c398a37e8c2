---------------------------- MODULE WindowThread ----------------------------
(***************************************************************************)
(* The thread and the runs a webview shows (ui/src/store, src-tauri), over *)
(* the event stream and the turns it starts.  A task of the desktop        *)
(* process forwards the stream in order; the webview applies one envelope  *)
(* at a time and repairs itself with commands, each answered by a snapshot *)
(* the core read at some moment and the webview applies at a later one.    *)
(* A new, renamed or deleted conversation is left out, and the switcher's  *)
(* rows: only its re-read is here, for the busy flag it shares.            *)
(***************************************************************************)
EXTENDS TurnStream

CONSTANT MaxCalls   \* bound: commands on their way at once

ASSUME CallsAssumption == MaxCalls \in Nat \ {0} /\ IsFiniteSet(Turns)

VARIABLES
  wire,       \* envelopes emitted to the webview
  delivered,  \* forward: the last number emitted
  lastSeq,    \* SyncState
  needsBootstrap,
  active,     \* ConversationState
  messages,
  listStale,
  records,    \* RunsState: each run's status
  order,      \* RunsState.order, newest first
  names,      \* the conversation of each record, None when unknown
  calls,      \* commands on their way, and the answers coming back
  busy,       \* UiState.busy
  unsent,     \* sentences not typed yet
  overtaken   \* history: rows a late snapshot kept off the screen

syncVars == <<lastSeq, needsBootstrap>>
threadVars == <<active, messages, listStale, overtaken>>
recordVars == <<records, order, names>>
windowVars == <<wire, delivered, syncVars, threadVars, recordVars, calls, busy, unsent>>

Gap == [kind |-> "gap"]
Ids(rows) == {rows[i].id : i \in DOMAIN rows}
Call(kind, talk_, sentence) ==
  [kind |-> kind, at |-> "asked", talk |-> talk_, sentence |-> sentence, runs |-> {}, rows |-> <<>>, run |-> None]

\* useAppEvents: subscribed, and then the first bootstrap.
WindowInit ==
  /\ wire = <<>> /\ delivered = 0 /\ lastSeq = 0 /\ needsBootstrap = FALSE
  /\ active = None /\ messages = <<>> /\ listStale = FALSE /\ overtaken = {}
  /\ records = [t \in Turns |-> "none"] /\ order = <<>> /\ names = [t \in Turns |-> None]
  /\ calls = <<Call("boot", None, None)>> /\ busy = TRUE /\ unsent = Typed

-----------------------------------------------------------------------------
(* events.rs, forward *)

Forwards ==
  /\ Receive /\ wire' = Append(wire, Head(queue)) /\ delivered' = Head(queue).seq
  /\ UNCHANGED <<turnVars, syncVars, threadVars, recordVars, calls, busy, unsent>>

\* Mutant of ForwardsGap: a lag says nothing of itself to the webview.
ForwardsGapMutant ==
  /\ Lagged /\ delivered' = 0
  /\ UNCHANGED <<turnVars, wire, syncVars, threadVars, recordVars, calls, busy, unsent>>

ForwardsGap ==
  /\ Lagged /\ wire' = Append(wire, [seq |-> delivered, event |-> Gap])
  /\ UNCHANGED <<turnVars, delivered, syncVars, threadVars, recordVars, calls, busy, unsent>>

-----------------------------------------------------------------------------
(* store.ts, applyEvent *)

\* reduceSync
Sync(envelope) ==
  /\ lastSeq' = IF envelope.seq > lastSeq THEN envelope.seq ELSE lastSeq
  /\ needsBootstrap' =
       (needsBootstrap \/ envelope.event = Gap \/ (lastSeq # 0 /\ envelope.seq > lastSeq + 1))

\* reduceConversation
Converse(e) ==
  /\ messages' = IF e.kind = "message" /\ e.talk = active /\ e.row.id \notin Ids(messages)
                 THEN Append(messages, e.row) ELSE messages
  /\ listStale' = (listStale \/ (e.kind = "message" /\ e.talk # active))
  /\ UNCHANGED <<active, overtaken>>

\* ensure: a run this window never started still has a record.
Ensured(t) == IF records[t] = "none" THEN [records EXCEPT ![t] = "running"] ELSE records
Listed(t) == IF records[t] = "none" THEN <<t>> \o order ELSE order

\* reduceRuns
Follow(e) ==
  IF e.kind \in {"started", "steered", "finished"}
  THEN /\ order' = Listed(e.run)
       /\ records' = IF e.kind = "finished" THEN [Ensured(e.run) EXCEPT ![e.run] = "ended"] ELSE Ensured(e.run)
       /\ names' = IF e.kind = "started" THEN [names EXCEPT ![e.run] = e.talk] ELSE names
  ELSE UNCHANGED recordVars

\* Each envelope repairs what is still stale, also when a repair is under way.
Applies ==
  /\ wire # <<>> /\ wire' = Tail(wire)
  /\ LET envelope == Head(wire) IN Sync(envelope) /\ Converse(envelope.event) /\ Follow(envelope.event)
  /\ LET repair == IF needsBootstrap' THEN <<Call("boot", None, None)>>
                   ELSE IF listStale' THEN <<Call("list", None, None)>> ELSE <<>> IN
       /\ Len(calls) + Len(repair) <= MaxCalls
       /\ calls' = calls \o repair /\ busy' = (busy \/ repair # <<>>)
  /\ UNCHANGED <<streamVars, turnVars, delivered, unsent>>

-----------------------------------------------------------------------------
(* What the user does. *)

Asked(call) == calls' = Append(calls, call) /\ busy' = TRUE

\* currentChatRun
Current ==
  LET here == {i \in DOMAIN order : names[order[i]] = active} IN
  IF here = {} THEN None ELSE order[CHOOSE i \in here : \A j \in here : i <= j]

Steers(t) == t # None /\ records[t] = "running"

\* AgentComposer.accept, then send: steer the turn of this thread, or start one.
PressSend(m) ==
  /\ m \in unsent /\ unsent' = unsent \ {m} /\ ~busy /\ active # None /\ Len(calls) < MaxCalls
  /\ Asked(IF Steers(Current) THEN [Call("steer", active, m) EXCEPT !.run = Current]
           ELSE Call("send", active, m))
  /\ UNCHANGED <<streamVars, turnVars, wire, delivered, syncVars, threadVars, recordVars>>

\* selectConversation
PressSelect(c) ==
  /\ active \notin {None, c} /\ Len(calls) < MaxCalls /\ Asked(Call("load", c, None))
  /\ UNCHANGED <<streamVars, turnVars, wire, delivered, syncVars, threadVars, recordVars, unsent>>

\* The webview is loaded again; bound: while no command is on its way.
Reload ==
  /\ calls = <<>> /\ active # None /\ wire' = <<>>
  /\ lastSeq' = 0 /\ needsBootstrap' = FALSE
  /\ active' = None /\ messages' = <<>> /\ listStale' = FALSE
  /\ records' = [t \in Turns |-> "none"] /\ order' = <<>> /\ names' = [t \in Turns |-> None]
  /\ calls' = <<Call("boot", None, None)>> /\ busy' = TRUE
  /\ UNCHANGED <<streamVars, turnVars, delivered, unsent, overtaken>>

-----------------------------------------------------------------------------
(* src-tauri/src/commands.rs *)

Serves(i, from, call) == calls[i].at = from /\ calls' = [calls EXCEPT ![i] = call]
Unseen == <<wire, delivered, syncVars, threadVars, recordVars, busy, unsent>>

\* get_bootstrap: the runs, and then the newest conversation, whichever that is,
\* and its rows.
ReadsRuns(i) ==
  /\ calls[i].kind = "boot"
  /\ Serves(i, "asked", [calls[i] EXCEPT !.at = "runs", !.runs = {t \in Turns : phase[t] \notin {"none", "left"}}])
  /\ UNCHANGED <<streamVars, turnVars, Unseen>>

ReadsStore(i) ==
  /\ calls[i].kind = "boot"
  /\ \E c \in Conversations :
       Serves(i, "runs", [calls[i] EXCEPT !.at = "answered", !.talk = c, !.rows = stored[c]])
  /\ UNCHANGED <<streamVars, turnVars, Unseen>>

\* load_thread
ReadsThread(i) ==
  /\ calls[i].kind = "load"
  /\ Serves(i, "asked", [calls[i] EXCEPT !.at = "answered", !.rows = stored[calls[i].talk]])
  /\ UNCHANGED <<streamVars, turnVars, Unseen>>

ReadsList(i) ==
  /\ calls[i].kind = "list" /\ Serves(i, "asked", [calls[i] EXCEPT !.at = "answered"])
  /\ UNCHANGED <<streamVars, turnVars, Unseen>>

\* An error of the store; a steer was posted by then.
Refuses(i) ==
  /\ \E from \in {"asked", "posted"} : Serves(i, from, [calls[i] EXCEPT !.at = "failed"])
  /\ UNCHANGED <<streamVars, turnVars, Unseen>>

\* start_turn: the row is recorded and announced, and then the turn starts.
RecordsSend(i) ==
  /\ calls[i].kind = "send" /\ Serves(i, "asked", [calls[i] EXCEPT !.at = "recorded"])
  /\ Save(Row(calls[i].sentence, "typed"), calls[i].talk)
  /\ UNCHANGED <<phase, talk, registry, results, Unseen>>

StartsTurn(i, t) ==
  /\ calls[i].kind = "send" /\ Serves(i, "recorded", [calls[i] EXCEPT !.at = "answered", !.run = t])
  /\ Asks(t, calls[i].talk) /\ UNCHANGED <<streamVars, stored, Unseen>>

\* steer_run: a run the registry does not hold answers false.
FindsRun(i) ==
  /\ calls[i].kind = "steer"
  /\ Serves(i, "asked", IF calls[i].run \in registry THEN [calls[i] EXCEPT !.at = "posted"]
                        ELSE [calls[i] EXCEPT !.at = "answered"])
  /\ UNCHANGED <<streamVars, turnVars, Unseen>>

RecordsSteer(i) ==
  /\ calls[i].kind = "steer" /\ Serves(i, "posted", [calls[i] EXCEPT !.at = "told"])
  /\ Save(Row(calls[i].sentence, "typed"), talk[calls[i].run])
  /\ UNCHANGED <<phase, talk, registry, results, Unseen>>

TellsSteer(i) ==
  /\ calls[i].kind = "steer" /\ Serves(i, "told", [calls[i] EXCEPT !.at = "accepted"])
  /\ Number(Ui, TurnSteered(calls[i].run, "typed"))
  /\ UNCHANGED <<turnVars, Unseen>>

DesktopSends == Send(Ui) /\ UNCHANGED <<turnVars, windowVars>>

Serve(i) ==
  \/ ReadsRuns(i) \/ ReadsStore(i) \/ ReadsThread(i) \/ ReadsList(i) \/ Refuses(i) \/ RecordsSend(i)
  \/ FindsRun(i) \/ RecordsSteer(i) \/ TellsSteer(i) \/ \E t \in Turns : StartsTurn(i, t)

-----------------------------------------------------------------------------
(* An answer reaches the webview, in any order.  The guard that ends clears
   the flag it shares with every other. *)

Done(i) == calls' = RemoveAt(calls, i) /\ busy' = FALSE

\* Rows of the store that a snapshot lacks and no envelope will bring.
Brought(c) ==
  {e.row.id : e \in {d \in Coming \cup {wire[i].event : i \in DOMAIN wire} : d.kind = "message" /\ d.talk = c}}
Gone(c, rows) == Ids(stored[c]) \ (Ids(rows) \cup Brought(c))

\* applyBootstrap; a run it names for the first time has no conversation.
Boots(i) ==
  /\ calls[i].kind = "boot" /\ calls[i].at = "answered" /\ Done(i)
  /\ needsBootstrap' = FALSE /\ active' = calls[i].talk /\ messages' = calls[i].rows /\ listStale' = FALSE
  /\ records' = [t \in Turns |-> IF t \in calls[i].runs THEN Ensured(t)[t] ELSE records[t]]
  /\ order' = SetToSeq({t \in calls[i].runs : records[t] = "none"}) \o order
  /\ overtaken' = overtaken \cup Gone(calls[i].talk, calls[i].rows)
  /\ UNCHANGED <<streamVars, turnVars, wire, delivered, lastSeq, names, unsent>>

\* reloadThread
Loads(i) ==
  /\ calls[i].kind = "load" /\ calls[i].at = "answered" /\ Done(i)
  /\ active' = calls[i].talk /\ messages' = calls[i].rows
  /\ overtaken' = overtaken \cup Gone(calls[i].talk, calls[i].rows)
  /\ UNCHANGED <<streamVars, turnVars, wire, delivered, syncVars, listStale, recordVars, unsent>>

Lists(i) ==
  /\ calls[i].kind = "list" /\ calls[i].at = "answered" /\ Done(i) /\ listStale' = FALSE
  /\ UNCHANGED <<streamVars, turnVars, wire, delivered, syncVars, active, messages, overtaken, recordVars, unsent>>

\* registerRun
Registered(i) ==
  /\ calls[i].kind = "send" /\ calls[i].at = "answered" /\ Done(i)
  /\ LET t == calls[i].run IN
       /\ records' = Ensured(t) /\ order' = Listed(t)
       /\ names' = [names EXCEPT ![t] = IF @ = None THEN calls[i].talk ELSE @]
  /\ UNCHANGED <<streamVars, turnVars, wire, delivered, syncVars, threadVars, unsent>>

\* A steer that missed is sent as a new turn, under the same guard.
Resends(i) ==
  /\ calls[i].kind = "steer" /\ calls[i].at = "answered"
  /\ calls' = [calls EXCEPT ![i] = Call("send", calls[i].talk, calls[i].sentence)]
  /\ UNCHANGED <<streamVars, turnVars, Unseen>>

Closes(i) ==
  /\ calls[i].at \in {"accepted", "failed"} /\ Done(i)
  /\ UNCHANGED <<streamVars, turnVars, wire, delivered, syncVars, threadVars, recordVars, unsent>>

Hears(i) == Boots(i) \/ Loads(i) \/ Lists(i) \/ Registered(i) \/ Resends(i) \/ Closes(i)

WindowNext ==
  \/ Forwards \/ ForwardsGap \/ Applies \/ Reload \/ DesktopSends
  \/ \E m \in Typed : PressSend(m)
  \/ \E c \in Conversations : PressSelect(c)
  \/ \E i \in DOMAIN calls : Serve(i) \/ Hears(i)
  \/ \E t \in Turns : TurnStep(t) /\ UNCHANGED windowVars

WindowSpec ==
  StreamInit /\ TurnInit /\ WindowInit /\ [][WindowNext]_<<streamVars, turnVars, windowVars>>

-----------------------------------------------------------------------------
(* Properties. *)

\* The window's types.
WindowTypeOK ==
  /\ active \in Conversations \cup {None} /\ Ids(messages) \subseteq Typed \cup Turns
  /\ records \in [Turns -> {"none", "running", "ended"}] /\ order \in Seq(Turns)
  /\ names \in [Turns -> Conversations \cup {None}]
  /\ Len(calls) <= MaxCalls /\ unsent \subseteq Typed

AtRest == Quiet /\ wire = <<>> /\ calls = <<>> /\ ~needsBootstrap /\ active # None
Missing == {i \in DOMAIN stored[active] : Told(stored[active][i]) /\ stored[active][i].id \notin Ids(messages)}

\* events.rs: "Saying nothing would leave it rendering a thread it cannot trust".
\* With nothing on its way and no repair owed, a row is missing from the screen
\* only when a snapshot older than its message replaced the thread.
OnlyOvertakenRowsAreMissing ==
  AtRest => \A i \in Missing : stored[active][i].id \in overtaken

\* store.ts, send: "A second concurrent chat run in one thread is never started."
TurnsDoNotOverlap ==
  \A t, u \in Turns : t # u /\ phase[t] \in InProgress /\ phase[u] \in InProgress => talk[t] # talk[u]
=============================================================================
