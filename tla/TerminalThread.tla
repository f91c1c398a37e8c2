--------------------------- MODULE TerminalThread ---------------------------
(***************************************************************************)
(* The thread and the runs a terminal shows (crates/neo-tui/src/run.rs,    *)
(* state.rs), over the event stream and the turns it starts.  One frame    *)
(* reads one key and executes its command, polls the jobs and drains the   *)
(* stream until it is empty; turns run beside it.  A turn's deltas and     *)
(* steps change no row and are left out; the store always answers a read.  *)
(***************************************************************************)
EXTENDS TurnStream

CONSTANT Words   \* what a sentence may say

ASSUME WordsAssumption == Words \cap {None, "part", "whole"} = {}

VARIABLES
  word,       \* what each sentence says
  made,       \* conversations that exist
  at,         \* where the frame is
  composed,   \* the sentence a command carries
  due,        \* the envelope taken before a re-read
  expected,   \* the next number, 0 before the first
  shown,      \* State.conversation
  thread,     \* State.thread
  turn,       \* State.turn
  runs,       \* State.runs
  heard       \* history: the turns each sentence was given to

drainVars == <<due, expected>>
screenVars == <<shown, thread>>
paneVars == <<turn, runs>>
terminalVars == <<word, made, at, composed, heard, drainVars, screenVars, paneVars>>

ThreadRow(row) == [id |-> row.id, text |-> row.text, pending |-> FALSE]
Steered(text) == [id |-> None, text |-> text, pending |-> TRUE]   \* push_steered

TerminalInit ==
  /\ word \in [Typed -> Words] /\ made = {Blank}
  /\ at = "keys" /\ composed = None /\ due = <<>> /\ expected = 0
  /\ shown = Blank /\ thread = <<>> /\ turn = None
  /\ runs = [t \in Turns |-> "none"] /\ heard = [m \in Typed |-> {}]

-----------------------------------------------------------------------------
(* A key and its command. *)

Goes(from, to) == at = from /\ at' = to

\* send_message
PressEnter(m) ==
  /\ heard[m] = {} /\ composed' = m
  /\ \/ turn = None /\ Goes("keys", "record") /\ UNCHANGED thread
     \/ turn # None /\ Goes("keys", "steer") /\ thread' = Append(thread, Steered(word[m]))
  /\ UNCHANGED <<streamVars, turnVars, word, made, heard, drainVars, shown, paneVars>>

\* Mutant of Steer: the sentence is not sent again.
SteerMutant ==
  /\ \/ turn \in registry /\ Goes("steer", "post") /\ heard' = [heard EXCEPT ![composed] = @ \cup {turn}]
     \/ turn \notin registry /\ Goes("steer", "jobs") /\ UNCHANGED heard
  /\ UNCHANGED <<streamVars, turnVars, word, made, composed, drainVars, screenVars, paneVars>>

\* steer_missed: the newest such row goes away.
Missed(text) ==
  LET mine == {i \in DOMAIN thread : thread[i].pending /\ thread[i].text = text} IN
  thread' = IF mine = {} THEN thread
            ELSE RemoveAt(thread, CHOOSE i \in mine : \A j \in mine : j <= i)

\* Runtime::steer: the post, then the record, which may fail, then the note.
Steer ==
  /\ \/ /\ turn \in registry /\ Goes("steer", "post") /\ UNCHANGED thread
        /\ heard' = [heard EXCEPT ![composed] = @ \cup {turn}]
     \/ turn \notin registry /\ Goes("steer", "record") /\ Missed(word[composed]) /\ UNCHANGED heard
  /\ UNCHANGED <<streamVars, turnVars, word, made, composed, drainVars, shown, paneVars>>

\* One sentence of the composer, recorded in a conversation; the write may fail.
Records(c) == Save(Row(composed, word[composed]), c) /\ UNCHANGED <<phase, talk, registry, results>>

RecordSteer ==
  /\ \/ Goes("post", "tell") /\ Records(talk[turn]) /\ UNCHANGED thread
     \/ Goes("post", "record") /\ Missed(word[composed]) /\ UNCHANGED <<turnVars, streamVars>>
  /\ UNCHANGED <<word, made, composed, heard, drainVars, shown, paneVars>>

TellSteer ==
  /\ Goes("tell", "jobs") /\ Number(Ui, TurnSteered(turn, word[composed]))
  /\ UNCHANGED <<turnVars, word, made, composed, heard, drainVars, screenVars, paneVars>>

\* send: a message that cannot be saved still starts its turn.
Record ==
  /\ Goes("record", "spawn")
  /\ Records(shown) \/ UNCHANGED <<turnVars, streamVars>>
  /\ UNCHANGED <<word, made, composed, heard, drainVars, screenVars, paneVars>>

UiSends == Send(Ui) /\ UNCHANGED <<turnVars, terminalVars>>

\* start_run and Jobs::spawn
Spawn(t) ==
  /\ held[Ui] = <<>> /\ Goes("spawn", "jobs")
  /\ Asks(t, shown) /\ turn' = t /\ runs' = [runs EXCEPT ![t] = "running"]
  /\ heard' = [heard EXCEPT ![composed] = @ \cup {t}]
  /\ UNCHANGED <<streamVars, stored, word, made, composed, drainVars, screenVars>>

\* Mutant of PressNew: shown before it is made.
PressNewMutant(c) ==
  /\ c \notin made /\ Goes("keys", "jobs") /\ Number(Ui, Reset(c))
  /\ shown' = c /\ thread' = <<>>
  /\ UNCHANGED <<turnVars, word, made, composed, heard, drainVars, paneVars>>

\* NewConversation: published by the core, then loaded empty.
PressNew(c) ==
  /\ c \notin made /\ made' = made \cup {c}
  /\ Goes("keys", "jobs") /\ Number(Ui, Reset(c))
  /\ shown' = c /\ thread' = <<>>
  /\ UNCHANGED <<turnVars, word, composed, heard, drainVars, paneVars>>

\* What a read of the store puts in the thread.
Loaded(c) == [i \in DOMAIN stored[c] |-> ThreadRow(stored[c][i])]

\* SwitchConversation
PressSwitch(c) ==
  /\ c \in made \ {shown} /\ Goes("keys", "jobs")
  /\ shown' = c /\ thread' = Loaded(c)
  /\ UNCHANGED <<streamVars, turnVars, word, made, composed, heard, drainVars, paneVars>>

Command ==
  \/ Steer \/ RecordSteer \/ Record \/ TellSteer \/ UiSends
  \/ \E m \in Typed : PressEnter(m)
  \/ \E t \in Turns : Spawn(t)
  \/ \E c \in Conversations : PressNew(c) \/ PressSwitch(c)

-----------------------------------------------------------------------------
(* The rest of the frame. *)

\* Run::settle, and the in-flight block goes away
Settled(t) ==
  /\ runs' = [runs EXCEPT ![t] = "settled"]
  /\ turn' = IF turn = t THEN None ELSE turn

\* Mutant of PollJobs: only a terminal event settles a chat run.
PollJobsMutant ==
  /\ at \in {"keys", "jobs"} /\ held[Ui] = <<>>
  /\ results' = {} /\ at' = "drain" /\ composed' = None
  /\ UNCHANGED <<streamVars, stored, phase, talk, registry, word, made, heard, drainVars, screenVars, paneVars>>

\* poll_jobs, in every frame, whether a key was read or not
PollJobs ==
  /\ at \in {"keys", "jobs"} /\ held[Ui] = <<>>
  /\ \/ \E t \in results :
          /\ results' = results \ {t} /\ at' = "jobs" /\ UNCHANGED composed
          /\ IF runs[t] = "settled" THEN UNCHANGED paneVars ELSE Settled(t)
     \/ results = {} /\ at' = "drain" /\ composed' = None /\ UNCHANGED <<results, paneVars>>
  /\ UNCHANGED <<streamVars, stored, phase, talk, registry, word, made, heard, drainVars, screenVars>>

\* adopt_steered, or one more row.
Received(row) ==
  LET mine == {i \in DOMAIN thread : thread[i].pending /\ thread[i].text = row.text} IN
  thread' = IF mine = {} THEN Append(thread, ThreadRow(row))
            ELSE [thread EXCEPT ![CHOOSE i \in mine : \A j \in mine : i <= j] = ThreadRow(row)]

\* State::apply and reduce_run
Apply(e) ==
  \/ e.kind = "message" /\ e.talk = shown /\ Received(e.row) /\ UNCHANGED paneVars
  \/ e.kind = "message" /\ e.talk # shown /\ UNCHANGED <<thread, paneVars>>
  \/ e.kind = "started" /\ UNCHANGED <<thread, paneVars>>
  \/ e.kind = "reset" /\ thread' = (IF e.talk = shown THEN <<>> ELSE thread) /\ UNCHANGED paneVars
  \/ e.kind = "finished" /\ Settled(e.run) /\ UNCHANGED thread
  \/ /\ e.kind = "steered" /\ UNCHANGED paneVars
     /\ thread' = IF \E i \in DOMAIN thread : thread[i].text = e.text THEN thread
                  ELSE Append(thread, Steered(e.text))

\* drain: one envelope; a number that was not expected re-reads first.
Drain ==
  /\ at = "drain" /\ Receive /\ expected' = Head(queue).seq + 1
  /\ \/ expected \in {0, Head(queue).seq} /\ Apply(Head(queue).event) /\ UNCHANGED <<at, due>>
     \/ /\ expected \notin {0, Head(queue).seq} /\ at' = "reread" /\ due' = <<Head(queue).event>>
        /\ UNCHANGED <<thread, paneVars>>
  /\ UNCHANGED <<turnVars, word, made, composed, heard, shown>>

DrainLag ==
  /\ Goes("drain", "reread") /\ Lagged /\ expected' = 0
  /\ UNCHANGED <<turnVars, word, made, composed, heard, due, screenVars, paneVars>>

DrainEmpty ==
  /\ Goes("drain", "keys") /\ Empty
  /\ UNCHANGED <<streamVars, turnVars, word, made, composed, heard, drainVars, screenVars, paneVars>>

\* Mutant of Reread: a gap is noted, and the thread stays as it is.
RereadMutant ==
  /\ Goes("reread", IF due = <<>> THEN "drain" ELSE "apply")
  /\ UNCHANGED <<streamVars, turnVars, word, made, composed, heard, drainVars, screenVars, paneVars>>

\* rebootstrap: the thread is read from the store again.
Reread ==
  /\ Goes("reread", IF due = <<>> THEN "drain" ELSE "apply") /\ thread' = Loaded(shown)
  /\ UNCHANGED <<streamVars, turnVars, word, made, composed, heard, drainVars, shown, paneVars>>

ApplyDue ==
  /\ Goes("apply", "drain") /\ Apply(due[1]) /\ due' = <<>>
  /\ UNCHANGED <<streamVars, turnVars, word, made, composed, heard, expected, shown>>

Frame == Command \/ PollJobs \/ Drain \/ DrainLag \/ DrainEmpty \/ Reread \/ ApplyDue

TerminalNext == Frame \/ \E t \in Turns : TurnStep(t) /\ UNCHANGED terminalVars

TerminalSpec ==
  StreamInit /\ TurnInit /\ TerminalInit /\ [][TerminalNext]_<<streamVars, turnVars, terminalVars>>

-----------------------------------------------------------------------------
(* Properties. *)

\* The terminal's types.
TerminalTypeOK ==
  /\ at \in {"keys", "steer", "post", "tell", "record", "spawn", "jobs", "drain", "reread", "apply"}
  /\ composed \in Typed \cup {None} /\ shown \in made /\ made \subseteq Conversations
  /\ turn \in Turns \cup {None}
  /\ runs \in [Turns -> {"none", "running", "settled"}]
  /\ heard \in [Typed -> SUBSET Turns]

\* run.rs: "a thread missing one line is worse than one read again".  Between two
\* frames with nothing on its way, every announced row of the conversation on
\* screen is in the thread, whatever was dropped, reordered or read meanwhile.
InThread(row) == \E i \in DOMAIN thread : thread[i].id = row.id /\ thread[i].text \in {row.text, "whole"}
NothingIsMissing ==
  at = "keys" /\ Quiet =>
    \A i \in DOMAIN stored[shown] : Told(stored[shown][i]) => InThread(stored[shown][i])

\* run.rs, steer: "What the user typed is not lost: it becomes the next turn."  A
\* sentence that left the composer was given to a turn.
TypedReachesATurn == at = "jobs" /\ composed # None => heard[composed] # {}

\* The composer steers only a turn that the pane shows as live, and a run whose
\* job has reported is settled, also when the turn published no ending.
RunsSettle ==
  /\ turn # None => runs[turn] = "running"
  /\ \A t \in Turns : phase[t] = "left" /\ t \notin results => runs[t] = "settled"
=============================================================================
