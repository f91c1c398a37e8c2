---------------------------- MODULE ChromeLease ----------------------------
(***************************************************************************)
(* The roster and the managed browser's lease: the sessions and leases     *)
(* tables of crates/neo-store/src/presence.rs, as crates/neo-agent uses    *)
(* them (announce, hold, heartbeat, sessions, depart, LeaseGuard).         *)
(*                                                                         *)
(* Every statement is one SQLite write transaction, so one action.  Time   *)
(* is kept as ages: ticks since a row was last seen, ticks until the lease *)
(* expires.                                                                *)
(***************************************************************************)
EXTENDS Integers, FiniteSets

CONSTANTS
  Programs, Browsings, ProgramOf,  \* processes, browsing runs, the process of a run
  Beating,   \* processes whose front end heartbeats: the terminal's frame loop
  Punctual,  \* of those, the ones that are never late
  Every,     \* bound: ticks between two beats of a punctual process
  Ttl,       \* LEASE_TTL_MS
  Stale,     \* SESSION_STALE_MS
  NoOne

ASSUME BrowserLeaseAssumption ==
  /\ ProgramOf \in [Browsings -> Programs]
  /\ Punctual \subseteq Beating /\ Beating \subseteq Programs
  /\ {Every, Ttl, Stale} \subseteq Nat
  /\ NoOne \notin Programs

VARIABLES
  alive,    \* processes running
  named,    \* processes that have a session id (Runtime.session)
  age,      \* per process: ticks since its row was seen, -1 when it has none
  holder,   \* the lease's holder, NoOne when there is no row
  left,     \* ticks until the lease expires; -1 once it has
  driving   \* runs that drive the managed browser behind a LeaseGuard

chromeVars == <<alive, named, age, holder, left, driving>>

\* The state's types; a row's age and a lease's expiry stop counting where nothing
\* depends on them any more.
ChromeTypeOK ==
  /\ alive \subseteq Programs /\ named \subseteq Programs
  /\ age \in [Programs -> -1..(Stale + 1)]
  /\ holder \in Programs \cup {NoOne}
  /\ left \in -1..Ttl
  /\ driving \subseteq Browsings

\* Mutant of ChromeInit: the lease is handed out to a process with no row.
ChromeInitMutant ==
  /\ alive = Programs /\ named = {} /\ driving = {}
  /\ age = [p \in Programs |-> -1] /\ holder = NoOne /\ left = Ttl + 1

ChromeInit ==
  /\ alive = Programs /\ named = {} /\ driving = {}
  /\ age = [p \in Programs |-> -1]
  /\ holder = NoOne /\ left = -1

Listed(p) == age[p] # -1
BrowsingsOf(p) == {r \in Browsings : ProgramOf[r] = p}

\* A second of wall clock.  A punctual process beats before this one is due.
Tick ==
  /\ \A p \in Punctual \cap alive \cap named : age[p] < Every
  /\ age' = [p \in Programs |-> IF Listed(p) /\ age[p] <= Stale THEN age[p] + 1 ELSE age[p]]
  /\ left' = IF left = -1 THEN -1 ELSE left - 1
  /\ UNCHANGED <<alive, named, holder, driving>>

\* Runtime::announce, by a front end that starts.
Announce(p) ==
  /\ p \in alive \ named
  /\ named' = named \cup {p}
  /\ age' = [age EXCEPT ![p] = 0]
  /\ UNCHANGED <<alive, holder, left, driving>>

\* Mutant of Free: an expired lease is not taken over.
FreeMutant(p) == holder \in {NoOne, p}

\* The conflict clause of acquire.
Free(p) == holder \in {NoOne, p} \/ left = -1

\* Runtime::hold: session_id announces a process that has no id, then acquire.  A
\* process whose row is gone fails on the foreign key and is not announced again.
Hold(r) ==
  LET p == ProgramOf[r] IN
  /\ p \in alive /\ r \notin driving
  /\ p \in named => Listed(p)
  /\ Free(p)
  /\ named' = named \cup {p}
  /\ age' = [age EXCEPT ![p] = IF p \in named THEN @ ELSE 0]
  /\ holder' = p /\ left' = Ttl
  /\ driving' = driving \cup {r}
  /\ UNCHANGED alive

\* Mutant of Kept: the sweep does not look at the leases.
KeptMutant(p) == ~Listed(p) \/ age[p] <= Stale

\* The rows the sweep of sessions() leaves: fresh ones, and the holder of a lease
\* that has not expired.
Kept(p) == ~Listed(p) \/ age[p] <= Stale \/ (holder = p /\ left >= 0)

\* sessions(), read by a picker, by doctor and by a refused hold: delete the stale
\* rows, and their leases by cascade.
Sweep ==
  /\ \E p \in Programs : ~Kept(p)
  /\ age' = [p \in Programs |-> IF Kept(p) THEN age[p] ELSE -1]
  /\ IF holder # NoOne /\ ~Kept(holder)
     THEN holder' = NoOne /\ left' = -1 ELSE UNCHANGED <<holder, left>>
  /\ UNCHANGED <<alive, named, driving>>

\* Mutant of Beat: the heartbeat refreshes the row and not the lease.
BeatMutant(p) ==
  /\ p \in alive \cap named \cap Beating /\ Listed(p)
  /\ age' = [age EXCEPT ![p] = 0]
  /\ UNCHANGED <<alive, named, holder, left, driving>>

\* Presence::beat renews the row and the lease.  A row that is gone is
\* SessionEvicted, which beat logs.
Beat(p) ==
  /\ p \in alive \cap named \cap Beating /\ Listed(p)
  /\ age' = [age EXCEPT ![p] = 0]
  /\ left' = IF holder = p THEN Ttl ELSE left
  /\ UNCHANGED <<alive, named, holder, driving>>

\* LeaseGuard::drop deletes the lease its process holds, whoever else holds it.
LetGo(r) ==
  /\ r \in driving
  /\ driving' = driving \ {r}
  /\ IF holder = ProgramOf[r] THEN holder' = NoOne /\ left' = -1 ELSE UNCHANGED <<holder, left>>
  /\ UNCHANGED <<alive, named, age>>

\* Runtime::drop departs; the lease goes by cascade.
Exit(p) ==
  /\ p \in alive /\ driving \cap BrowsingsOf(p) = {}
  /\ alive' = alive \ {p}
  /\ age' = [age EXCEPT ![p] = -1]
  /\ IF holder = p THEN holder' = NoOne /\ left' = -1 ELSE UNCHANGED <<holder, left>>
  /\ UNCHANGED <<named, driving>>

\* Killed: the rows stay.
ProgramDies(p) ==
  /\ p \in alive
  /\ alive' = alive \ {p}
  /\ driving' = driving \ BrowsingsOf(p)
  /\ UNCHANGED <<named, age, holder, left>>

ChromeNext ==
  \/ Tick \/ Sweep
  \/ \E p \in Programs : Announce(p) \/ Beat(p) \/ Exit(p) \/ ProgramDies(p)
  \/ \E r \in Browsings : Hold(r) \/ LetGo(r)

\* The clock goes on, and a frame loop that runs beats in the end.
ChromeSpec ==
  ChromeInit /\ [][ChromeNext]_chromeVars /\ WF_chromeVars(Tick)
  /\ \A p \in Programs : WF_chromeVars(Beat(p))

-----------------------------------------------------------------------------
\* "it is leased for as long as a run drives it" (tools.rs:471): while a run drives
\* the browser its process holds the lease - if that process renews it in time and
\* has no second run, which would share the claim and could release it.
Steady(r) == ProgramOf[r] \in Punctual /\ BrowsingsOf(ProgramOf[r]) = {r}
SteadyHoldLasts == \A r \in driving : Steady(r) => holder = ProgramOf[r]

\* A claim that has not expired is given up by its holder alone: no other process's
\* acquire or sweep of the roster revokes it, however late the holder's heartbeat.
UnexpiredIsSafe ==
  [][left >= 0 /\ left' # left - 1 /\ holder' # holder /\ holder # NoOne
       => holder' = NoOne /\ (driving' # driving \/ alive' # alive)]_chromeVars

\* A claim is kept: it lasts while its run is renewed, and is safe from others until it expires.
ClaimsAreKept == []SteadyHoldLasts /\ UnexpiredIsSafe

\* The expiry is the backstop for a killed process (runtime.rs:1806): once the holder
\* is dead, another has the browser in the end, or each that runs can take it.
DeadHolderIsReplaceable ==
  holder \notin alive \cup {NoOne} ~> (holder \in alive \/ \A p \in alive : Free(p))
=============================================================================
