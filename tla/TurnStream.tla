----------------------------- MODULE TurnStream -----------------------------
(***************************************************************************)
(* Turns as the front ends meet them: what each writes to the thread in    *)
(* the store, what it publishes, when a steer can reach it and when its    *)
(* caller hears that it is over (crates/neo-agent/src/agent/metal.rs,      *)
(* runtime.rs).  AgentTurn has the inside of a turn.  Steps, deltas, notes *)
(* and costs change no row and no run's end, and are left out.             *)
(***************************************************************************)
EXTENDS EventStream

CONSTANTS
  Turns,           \* chat runs
  Typed,           \* sentences the user types, by the id of their row
  Conversations,
  Blank,           \* the conversation opened at boot
  Ui,              \* the front end, as a publisher
  None

ASSUME TurnAssumption ==
  /\ Publishers = Turns \cup {Ui} /\ Ui \notin Turns
  /\ Blank \in Conversations /\ None \notin Turns \cup Typed \cup Conversations
  /\ Turns \cap Typed = {}

VARIABLES
  stored,     \* each conversation's rows in the store
  phase,      \* each turn's progress
  talk,       \* the conversation of each turn
  registry,   \* Runtime.runs: the turns a steer can reach
  results     \* turns whose caller has their result and has not looked at it

turnVars == <<stored, phase, talk, registry, results>>

Row(id, text) == [id |-> id, text |-> text]
Message(row, c) == [kind |-> "message", row |-> row, talk |-> c]
Started(t) == [kind |-> "started", run |-> t, talk |-> talk[t]]
Finished(t) == [kind |-> "finished", run |-> t]
TurnSteered(t, text) == [kind |-> "steered", run |-> t, text |-> text]
Reset(c) == [kind |-> "reset", talk |-> c]

Phases == {"none", "asked", "starting", "live", "grown", "ended", "announced", "left", "dead"}
InProgress == {"asked", "starting", "live", "grown"}

TurnInit ==
  /\ stored = [c \in Conversations |-> <<>>]
  /\ phase = [t \in Turns |-> "none"] /\ talk = [t \in Turns |-> Blank]
  /\ registry = {} /\ results = {}

\* A front end starts a turn.
Asks(t, c) ==
  /\ phase[t] = "none" /\ phase' = [phase EXCEPT ![t] = "asked"] /\ talk' = [talk EXCEPT ![t] = c]
  /\ UNCHANGED <<registry, results>>

\* append_message, then publish
Save(row, c) ==
  stored' = [stored EXCEPT ![c] = Append(@, row)] /\ Number(Ui, Message(row, c))

Becomes(t, from, to) == phase[t] \in from /\ held[t] = <<>> /\ phase' = [phase EXCEPT ![t] = to]

\* Reporter::new
Starts(t) ==
  /\ Becomes(t, {"asked"}, "starting") /\ Number(t, Started(t))
  /\ UNCHANGED <<stored, talk, registry, results>>

\* runtime_guard: a steer reaches the turn once its model is ready, which may
\* have taken a token refresh.
Registers(t) ==
  /\ Becomes(t, {"starting"}, "live") /\ registry' = registry \cup {t}
  /\ UNCHANGED <<streamVars, stored, talk, results>>

\* grow_agent_answer: the row is created, then grown, and nothing is announced.
Grown(t, text) ==
  LET c == talk[t] IN
  IF \E i \in DOMAIN stored[c] : stored[c][i].id = t
  THEN stored' = [stored EXCEPT ![c] = [i \in DOMAIN @ |-> IF @[i].id = t THEN Row(t, text) ELSE @[i]]]
  ELSE stored' = [stored EXCEPT ![c] = Append(@, Row(t, text))]

Grows(t) ==
  /\ Becomes(t, {"live"}, "grown") /\ Grown(t, "part")
  /\ UNCHANGED <<streamVars, talk, registry, results>>

\* finish, fail: the last slice is flushed, which may fail, and the ending is
\* published; a turn that said nothing has no row to announce.
Ends(t) ==
  /\ \/ Becomes(t, {"live", "grown"}, "ended") /\ Grown(t, "whole")
     \/ Becomes(t, {"grown"}, "ended") /\ UNCHANGED stored
     \/ Becomes(t, {"starting", "live"}, "announced") /\ UNCHANGED stored
  /\ Number(t, Finished(t))
  /\ UNCHANGED <<talk, registry, results>>

\* Mutant of Announces: an answer that was painted as it grew is not announced.
AnnouncesMutant(t) ==
  /\ Becomes(t, {"ended"}, "announced")
  /\ UNCHANGED <<streamVars, stored, talk, registry, results>>

\* announce_answer
Announces(t) ==
  /\ Becomes(t, {"ended"}, "announced") /\ Number(t, Message(Row(t, "whole"), talk[t]))
  /\ UNCHANGED <<stored, talk, registry, results>>

\* chat returns; a turn that could not be built returns with no ending published.
Returns(t) ==
  /\ Becomes(t, {"announced", "asked", "live"}, "left")
  /\ registry' = registry \ {t} /\ results' = results \cup {t}
  /\ UNCHANGED <<streamVars, stored, talk>>

\* The task panics: the guard forgets the run, the caller hears nothing.
Dies(t) ==
  /\ Becomes(t, InProgress \cup {"ended"}, "dead") /\ registry' = registry \ {t}
  /\ UNCHANGED <<streamVars, stored, talk, results>>

Sends(t) == Send(t) /\ UNCHANGED turnVars

TurnStep(t) ==
  \/ Starts(t) \/ Registers(t) \/ Grows(t) \/ Ends(t) \/ Announces(t)
  \/ Returns(t) \/ Dies(t) \/ Sends(t)

-----------------------------------------------------------------------------
\* The types of the stream and of the turns.
TurnTypeOK ==
  /\ seq \in Nat /\ lagged \in BOOLEAN /\ Len(queue) <= Capacity
  /\ phase \in [Turns -> Phases] /\ talk \in [Turns -> Conversations]
  /\ registry \subseteq Turns /\ results \subseteq Turns

\* Nothing is on its way from the core.
Quiet == Empty /\ \A p \in Publishers : held[p] = <<>>

\* A typed row is announced where it is stored, an answer when its turn is over.
Told(row) == row.id \in Turns => phase[row.id] = "left"
=============================================================================
