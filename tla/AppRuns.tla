------------------------------ MODULE AppRuns ------------------------------
(***************************************************************************)
(* Runs that drive an application (run_app, and the steps of a routine),   *)
(* each holding the screen and talking to an accessibility actor of its    *)
(* own: a thread with an inbox (crates/neo-ax, the mac and the Linux one). *)
(* The client awaits one reply at a time, but the thread outlives the      *)
(* call: a run that is cancelled or dropped leaves it in the middle of a   *)
(* command.                                                                *)
(*                                                                         *)
(* The screen is what ScreenExclusion promises of it.                      *)
(***************************************************************************)
EXTENDS Integers, Sequences, FiniteSets

CONSTANTS
  Drivers,      \* runs; each is started once
  Script,       \* per driver: the steps of its routine, <<>> for an app run
  NoDriver,
  Platforms,    \* of "mac", "linux", and "seated": Linux with NEO_TAKE_SEAT
  Chunks,       \* bound: chunks in the longest text
  MaxTables     \* bound: observations of one run.  An application shows no wall (ax.rs
                \* gives no signals), so each of an app run's costs it a decision

ASSUME AppRunsAssumption ==
  /\ Script \in [Drivers -> Seq({"activate", "wait", "type"})]
  /\ NoDriver \notin Drivers /\ Platforms \subseteq {"mac", "linux", "seated"}
  /\ Chunks \in Nat \ {0} /\ MaxTables \in Nat

VARIABLES
  users, leader, invited,   \* the screen
  platform,  \* which backend was built, and whether it may raise windows
  front,     \* whose application is frontmost
  client,    \* per driver: the call it is about to make or awaits, or where else it is
  aim,       \* per app run: what its decision is to do
  at,        \* per routine: steps behind it
  tables,    \* per app run: observations taken
  waiting,   \* per driver: its call was sent
  answer,    \* per driver: what came back
  kill,      \* AxHandle::kill
  inbox,     \* the channel of AxCmds
  thread,    \* per driver: where its actor is
  order,     \* the command the actor has in hand
  left,      \* chunks it has still to type
  halted,    \* Actor::run's own `stopped`
  gens,      \* Actor::generations: whether the process each was read from still runs
  late       \* history: effects on the application after the stop

screenVars == <<users, leader, invited>>
worldVars  == <<platform, front>>
clientVars == <<client, aim, at, tables, waiting, answer>>
actorVars  == <<thread, order, left, halted, gens, late>>
appVars    == <<screenVars, worldVars, clientVars, kill, inbox, actorVars>>

Screen == INSTANCE ScreenExclusion
  WITH Procs <- {"here"}, Tasks <- Drivers, Runs <- Drivers, NoRun <- NoDriver,
       HomeOf <- [d \in Drivers |-> "here"], RunOf <- [d \in Drivers |-> d]

Calls == {"activate", "wait", "table", "guard", "again", "press", "scroll", "type", "last"}
Reads == {"wait", "table", "again", "last"}
Nobody == "shutdown"

AppRunsTypeOK ==
  /\ users \subseteq Drivers /\ front \in Drivers \cup {NoDriver} /\ platform \in Platforms
  /\ client \in [Drivers -> Calls \cup {"off", "spawn", "drop", "leave", "gone"}]
  /\ aim \in [Drivers -> {"none", "press", "type", "scroll", "end"}]
  /\ answer \in [Drivers -> {"none", "ok", "stale", "error"}]
  /\ thread \in [Drivers -> {"none", "drain", "work", "check", "post", "gone"}]
  /\ \A d \in Drivers : /\ at[d] \in 0..Len(Script[d]) /\ tables[d] \in 0..MaxTables
                        /\ left[d] \in 0..Chunks /\ Len(gens[d]) <= 2 /\ Len(inbox[d]) <= 2

AppRunsInit ==
  /\ Screen!Init /\ platform \in Platforms /\ front = NoDriver
  /\ client = [d \in Drivers |-> "off"]
  /\ aim = [d \in Drivers |-> "none"] /\ at = [d \in Drivers |-> 0] /\ tables = [d \in Drivers |-> 0]
  /\ waiting = [d \in Drivers |-> FALSE] /\ answer = [d \in Drivers |-> "none"]
  /\ kill = [d \in Drivers |-> FALSE] /\ inbox = [d \in Drivers |-> <<>>]
  /\ thread = [d \in Drivers |-> "none"] /\ order = [d \in Drivers |-> Nobody]
  /\ left = [d \in Drivers |-> 0] /\ halted = [d \in Drivers |-> FALSE]
  /\ gens = [d \in Drivers |-> <<>>] /\ late = [d \in Drivers |-> 0]

-----------------------------------------------------------------------------
(* The run *)

Routine(d) == Script[d] # <<>>

\* acquire_screen_within, around the whole run.
Acquire(d) ==
  /\ client[d] = "off" /\ Screen!Take(d)
  /\ client' = [client EXCEPT ![d] = "spawn"]
  /\ UNCHANGED <<worldVars, aim, at, tables, waiting, answer, kill, inbox, actorVars>>

\* AxHandle::spawn.  An app run activates its application first.
Spawn(d) ==
  /\ client[d] = "spawn"
  /\ thread' = [thread EXCEPT ![d] = "drain"]
  /\ client' = [client EXCEPT ![d] = IF Routine(d) THEN Script[d][1] ELSE "activate"]
  /\ UNCHANGED <<screenVars, worldVars, aim, at, tables, waiting, answer, kill, inbox,
                 order, left, halted, gens, late>>

\* AxHandle::call
Call(d) ==
  /\ client[d] \in Calls /\ ~waiting[d] /\ answer[d] = "none" /\ ~kill[d]
  /\ waiting' = [waiting EXCEPT ![d] = TRUE]
  /\ inbox' = [inbox EXCEPT ![d] = Append(@, client[d])]
  /\ UNCHANGED <<screenVars, worldVars, client, aim, at, tables, answer, kill, actorVars>>

\* Where a reply takes an app run: the Observer protocol under Navigator::drive.
\* An observation is followed by a decision; a decision with a target is guarded
\* and executed, one without is guarded and compared with one more observation.
AfterReply(d) ==
  LET ok == answer[d] = "ok" IN
  IF answer[d] = "error"
  THEN IF client[d] \in {"table", "guard", "again", "press", "scroll", "type"} THEN {"last"} ELSE {"drop"}
  ELSE
  CASE client[d] = "activate" -> {"table"}
    [] client[d] = "table" -> {"guard"}
    [] client[d] = "guard" -> CASE ~ok -> {"table"}
                                [] ok /\ aim[d] \in {"press", "type"} -> {aim[d]}
                                [] OTHER -> {"again"}
    [] client[d] = "again" -> {"table", IF aim[d] = "end" THEN "last" ELSE "scroll"}
    [] client[d] = "last" -> {"drop"}
    [] OTHER -> {"table"}

Decide(d) ==
  /\ ~Routine(d) /\ answer[d] # "none"
  /\ \E next \in AfterReply(d) :
       client' = [client EXCEPT ![d] = IF next = "table" /\ tables[d] = MaxTables THEN "last" ELSE next]
  /\ aim' \in IF client'[d] = "guard"
              THEN {[aim EXCEPT ![d] = a] : a \in {"press", "type", "scroll", "end"}} ELSE {aim}
  /\ tables' = [tables EXCEPT ![d] = IF client'[d] = "table" THEN @ + 1 ELSE @]
  /\ answer' = [answer EXCEPT ![d] = "none"]
  /\ UNCHANGED <<screenVars, worldVars, at, waiting, kill, inbox, actorVars>>

\* A routine goes from step to step: a failed one stops it, but wait_for looks
\* again until its deadline, and the last look may fail.
NextStep(d) ==
  /\ Routine(d) /\ answer[d] # "none"
  /\ answer' = [answer EXCEPT ![d] = "none"]
  /\ \/ /\ client[d] = "wait" /\ tables[d] < MaxTables
        /\ tables' = [tables EXCEPT ![d] = @ + 1] /\ UNCHANGED <<client, at>>
     \/ /\ client[d] \in {"wait", "last"} \/ answer[d] # "ok"
        /\ client' = [client EXCEPT ![d] = "drop"] /\ UNCHANGED <<at, tables>>
     \/ /\ client[d] # "last" /\ answer[d] = "ok"
        /\ at' = [at EXCEPT ![d] = @ + 1] /\ UNCHANGED tables
        /\ client' = [client EXCEPT ![d] = IF at'[d] = Len(Script[d]) THEN "last" ELSE Script[d][at'[d] + 1]]
  /\ UNCHANGED <<screenVars, worldVars, aim, waiting, kill, inbox, actorVars>>

Driving(d) == client[d] \in Calls

\* A routine looks at its token between two steps.
Between(d) ==
  /\ Routine(d) /\ Driving(d) /\ ~waiting[d] /\ answer[d] = "none"
  /\ client' = [client EXCEPT ![d] = "drop"]
  /\ UNCHANGED <<screenVars, worldVars, aim, at, tables, waiting, answer, kill, inbox, actorVars>>

\* The token wins the select of drive_app: the call is abandoned and the actor
\* is stopped.  Activation is not raced.
Cancelled(d) ==
  /\ ~Routine(d) /\ Driving(d) /\ client[d] \notin {"activate", "last"}
  /\ kill' = [kill EXCEPT ![d] = TRUE]
  /\ client' = [client EXCEPT ![d] = "drop"]
  /\ waiting' = [waiting EXCEPT ![d] = FALSE] /\ answer' = [answer EXCEPT ![d] = "none"]
  /\ UNCHANGED <<screenVars, worldVars, aim, at, tables, inbox, actorVars>>

\* The turn is stopped: the tool's whole future is dropped where it stands, and
\* nothing after its await runs.
Dropped(d) ==
  /\ Driving(d)
  /\ client' = [client EXCEPT ![d] = "drop"]
  /\ waiting' = [waiting EXCEPT ![d] = FALSE] /\ answer' = [answer EXCEPT ![d] = "none"]
  /\ UNCHANGED <<screenVars, worldVars, aim, at, tables, kill, inbox, actorVars>>

\* Drop of the AxHandle (of both clones, whose second Shutdown nobody reads),
\* with everything else the run had.
Shutdown(d) ==
  /\ client[d] = "drop"
  /\ inbox' = [inbox EXCEPT ![d] = Append(@, Nobody)]
  /\ client' = [client EXCEPT ![d] = "leave"]
  /\ aim' = [aim EXCEPT ![d] = "none"] /\ at' = [at EXCEPT ![d] = 0] /\ tables' = [tables EXCEPT ![d] = 0]
  /\ UNCHANGED <<screenVars, worldVars, waiting, answer, kill, actorVars>>

\* Drop of the ScreenGuard, which is declared first and so goes last.
LetGo(d) ==
  /\ client[d] = "leave" /\ Screen!Leave(d)
  /\ client' = [client EXCEPT ![d] = "gone"]
  /\ UNCHANGED <<worldVars, aim, at, tables, waiting, answer, kill, inbox, actorVars>>

-----------------------------------------------------------------------------
(* The actor *)

\* oneshot::Sender::send: to a client that still awaits it.
Respond(d, how) ==
  /\ waiting' = [waiting EXCEPT ![d] = FALSE]
  /\ answer' = IF waiting[d] THEN [answer EXCEPT ![d] = how] ELSE answer

\* mac Actor::run: between two drains of its channel the run loop has a slice
\* and the flag is read; a slice that finds nothing new changes nothing.
Slice(d) ==
  /\ platform = "mac" /\ thread[d] = "drain" /\ kill[d] /\ ~halted[d]
  /\ halted' = [halted EXCEPT ![d] = TRUE]
  /\ UNCHANGED <<screenVars, worldVars, clientVars, kill, inbox, thread, order, left, gens, late>>

Refuses(d) == IF platform = "mac" THEN halted[d] ELSE kill[d]

\* The next command: mac drains its channel between two slices, Linux awaits it
\* and reads the flag for each.
Receive(d) ==
  /\ thread[d] = "drain" /\ inbox[d] # <<>>
  /\ inbox' = [inbox EXCEPT ![d] = Tail(@)]
  /\ LET cmd == Head(inbox[d]) IN
     /\ thread' = [thread EXCEPT ![d] = IF cmd = Nobody THEN "gone" ELSE IF Refuses(d) THEN "drain" ELSE "work"]
     /\ order' = [order EXCEPT ![d] = IF Refuses(d) THEN Nobody ELSE cmd]
     /\ IF cmd # Nobody /\ Refuses(d) THEN Respond(d, "error") ELSE UNCHANGED <<waiting, answer>>
     /\ gens' = IF cmd = Nobody THEN [gens EXCEPT ![d] = <<>>] ELSE gens
  /\ UNCHANGED <<screenVars, worldVars, client, aim, at, tables, kill, left, halted, late>>

Finish(d, how) ==
  /\ Respond(d, how)
  /\ thread' = [thread EXCEPT ![d] = "drain"] /\ order' = [order EXCEPT ![d] = Nobody]

\* Those of an application that still runs.
Living(generations) == [i \in 1 .. Cardinality({j \in DOMAIN generations : generations[j]}) |-> TRUE]

\* cmd_activate.  Linux forgets what it read of incarnations that are gone; mac's
\* retain never drops one.  The application may not come forward in time, and
\* without the seat it is not asked to.
Activate(d) ==
  /\ thread[d] = "work" /\ order[d] = "activate"
  /\ front' \in IF platform = "linux" THEN {front} ELSE {front, d}
  /\ gens' = [gens EXCEPT ![d] = IF platform # "mac" THEN Living(@) ELSE @]
  /\ \E how \in {"ok", "error"} : Finish(d, how)
  /\ UNCHANGED <<screenVars, platform, client, aim, at, tables, kill, inbox, left, halted, late>>

\* cmd_table: a new generation, of which GENERATIONS_KEPT stay.
Table(d) ==
  /\ thread[d] = "work" /\ order[d] \in Reads
  /\ \/ /\ gens' = [gens EXCEPT ![d] = Append(IF Len(@) = 2 THEN Tail(@) ELSE @, TRUE)]
        /\ Finish(d, "ok")
     \/ gens' = gens /\ Finish(d, "error")
  /\ UNCHANGED <<screenVars, worldVars, client, aim, at, tables, kill, inbox, left, halted, late>>

\* The newest generation is there, and so is its process.
Alive(d) == gens[d] # <<>> /\ gens[d][Len(gens[d])]

\* refocus: with the seat, a window that is behind is asked forward once more.
Refocused(d) == IF platform = "seated" THEN {front, d} ELSE {front}

\* cmd_guard: whatever else it finds, a dead application is stale, and so is one
\* that is behind another, where it could have been raised.
Inspect(d) ==
  /\ thread[d] = "work" /\ order[d] = "guard"
  /\ front' \in Refocused(d)
  /\ \E how \in IF Alive(d) /\ (front' = d \/ platform = "linux") THEN {"ok", "stale"} ELSE {"stale"} :
       Finish(d, how)
  /\ UNCHANGED <<screenVars, platform, client, aim, at, tables, kill, inbox, left, halted, gens, late>>

\* cmd_act: no generation, or a dead application, is a stale ref; typed text and
\* a scroll want it frontmost, and the seat.
CanAct(d) == Alive(d) /\ (order[d] \in {"type", "scroll"} => front' = d /\ platform # "linux")

\* An effect: a press, a scroll (on Linux a burst of arrow keys), a chunk.
Felt(d) == late' = [late EXCEPT ![d] = IF kill[d] THEN @ + 1 ELSE @]

Perform(d) ==
  /\ thread[d] = "work" /\ order[d] \in {"press", "scroll"}
  /\ front' \in IF order[d] = "scroll" THEN Refocused(d) ELSE {front}
  /\ CanAct(d) /\ Finish(d, "ok") /\ Felt(d)
  /\ UNCHANGED <<screenVars, platform, client, aim, at, tables, kill, inbox, left, halted, gens>>

StartTyping(d) ==
  /\ thread[d] = "work" /\ order[d] = "type" /\ UNCHANGED worldVars /\ CanAct(d)
  /\ \E n \in 1..Chunks : left' = [left EXCEPT ![d] = n]
  /\ thread' = [thread EXCEPT ![d] = "check"]
  /\ UNCHANGED <<screenVars, clientVars, kill, inbox, order, halted, gens, late>>

RefuseAct(d) ==
  /\ thread[d] = "work" /\ order[d] \in {"press", "scroll", "type"}
  /\ front' \in IF order[d] = "scroll" THEN Refocused(d) ELSE {front}
  /\ Finish(d, "error")
  /\ UNCHANGED <<screenVars, platform, client, aim, at, tables, kill, inbox, left, halted, gens, late>>

\* Mutant of Check: the flag is read before the text and not again.
CheckMutant(d) ==
  /\ thread[d] = "check"
  /\ IF left[d] = 0
     THEN \E how \in {"ok", "error"} : Finish(d, how)
     ELSE thread' = [thread EXCEPT ![d] = "post"] /\ UNCHANGED <<waiting, answer, order>>
  /\ UNCHANGED <<screenVars, worldVars, client, aim, at, tables, kill, inbox, left, halted, gens, late>>

\* type_text: the flag is read before every chunk (mac) or key (Linux, where the
\* keys that go to the end of a field to clear it count as one); the value may not
\* appear.
Check(d) ==
  /\ thread[d] = "check"
  /\ IF left[d] = 0 \/ kill[d]
     THEN \E how \in IF left[d] = 0 THEN {"ok", "error"} ELSE {"error"} : Finish(d, how)
     ELSE thread' = [thread EXCEPT ![d] = "post"] /\ UNCHANGED <<waiting, answer, order>>
  /\ UNCHANGED <<screenVars, worldVars, client, aim, at, tables, kill, inbox, left, halted, gens, late>>

Post(d) ==
  /\ thread[d] = "post" /\ Felt(d)
  /\ left' = [left EXCEPT ![d] = @ - 1]
  /\ thread' = [thread EXCEPT ![d] = "check"]
  /\ UNCHANGED <<screenVars, worldVars, clientVars, kill, inbox, order, halted, gens>>

\* protected: a command that panics fails, and mac forgets every generation;
\* Linux does so for an observation.
Panic(d) ==
  /\ thread[d] = "work" /\ Finish(d, "error")
  /\ gens' = [gens EXCEPT ![d] = IF platform = "mac" \/ order[d] \in Reads THEN <<>> ELSE @]
  /\ UNCHANGED <<screenVars, worldVars, client, aim, at, tables, kill, inbox, left, halted, late>>

-----------------------------------------------------------------------------

\* The application is restarted: its process is another one.
Restart(d) ==
  /\ \E i \in DOMAIN gens[d] : gens[d][i]
  /\ gens' = [gens EXCEPT ![d] = [i \in DOMAIN @ |-> FALSE]]
  /\ UNCHANGED <<screenVars, worldVars, clientVars, kill, inbox, thread, order, left, halted, late>>

\* The person at the machine brings another application forward.
Refocus ==
  /\ front # NoDriver /\ front' = NoDriver
  /\ UNCHANGED <<screenVars, platform, clientVars, kill, inbox, actorVars>>

\* A task that is runnable runs, and so does a thread: every command of an actor is
\* bounded by a deadline.
RunStep(d) == Spawn(d) \/ Call(d) \/ Decide(d) \/ NextStep(d) \/ Shutdown(d) \/ LetGo(d)
Handle(d) == Activate(d) \/ Table(d) \/ Inspect(d) \/ Perform(d) \/ StartTyping(d) \/ RefuseAct(d)
             \/ Check(d) \/ Post(d) \/ Panic(d)
ActorStep(d) == Slice(d) \/ Receive(d) \/ Handle(d)

AppRunsNext ==
  \/ \E d \in Drivers : Acquire(d) \/ RunStep(d) \/ Between(d) \/ Cancelled(d) \/ Dropped(d)
                        \/ ActorStep(d) \/ Restart(d)
  \/ Refocus

AppRunsSpec == AppRunsInit /\ [][AppRunsNext]_appVars

-----------------------------------------------------------------------------

\* AxHandle::stop, "stops within one chunk": whatever the actor had in hand and
\* whatever was queued, the application feels at most one more effect.
StopIsPrompt == \A d \in Drivers : late[d] <= 1

\* However a run ends, answered, failed, cancelled or dropped in the middle of a
\* call, the keyboard is given back and its thread does not outlive it for ever.  That
\* it ends is MaxTables: a run over an application is never handed over, so its budget
\* of decisions bounds its observations, and a deadline those of wait_for.
RunsLetGo == \A d \in Drivers : d \in users ~> d \notin users /\ thread[d] \in {"none", "gone"}

\* In the middle of a text that nobody stopped.
Typing(d) == thread[d] \in {"check", "post"} /\ left[d] > 0 /\ ~kill[d]

\* tools.rs, run_app: "the only mutual exclusion on the keyboard".  Two runs are
\* never in the middle of a text at the same time.
OneTypist == \A d, e \in Drivers : Typing(d) /\ Typing(e) => d = e
=============================================================================
