---------------------------- MODULE MachineProofs ----------------------------
(***************************************************************************)
(* Proofs about what the programs of one install share, for any number of  *)
(* them: the managed browser's lease, which is kept while it is renewed;   *)
(* the projects' clocks, with one heartbeat at a time, a flag that is put  *)
(* back and the one way to lose a deadline; the settings store, one        *)
(* transaction at a time, each of which changes what its user meant; and   *)
(* these beside the screen's lease, in the machine they share.             *)
(***************************************************************************)
EXTENDS MCMachine, ScreenLeaseProofs, SequenceTheorems, TLAPS

-----------------------------------------------------------------------------
(* The browser's lease. *)

\* A beat is due before the lease expires and before its row is stale: the terminal beats every
\* 10 s (HEARTBEAT in run.rs), a lease lasts 30 s (LEASE_TTL_MS), a row 90 s (SESSION_STALE_MS).
BeatsInTime == Every <= Ttl /\ Every <= Stale

\* A punctual process has beaten lately, and the lease was renewed when its row was.
SteadyInv ==
  /\ \A p \in Punctual \cap alive \cap named : age[p] <= Every
  /\ \A r \in driving : ProgramOf[r] \in alive \cap named
  /\ \A r \in driving : Steady(r) =>
       LET p == ProgramOf[r] IN Listed(p) /\ holder = p /\ left + age[p] >= Ttl

ClaimInv == ChromeTypeOK /\ SteadyInv

\* Nobody drives the browser.
LEMMA LeaseInitially == ChromeInit => ClaimInv
BY BrowserLeaseAssumption DEF ChromeInit, ClaimInv, ChromeTypeOK, SteadyInv

\* Wherever its claim stands, a steady run's lease has not expired.
LEMMA SteadyIsUnexpired ==
  ASSUME BeatsInTime, ClaimInv, NEW r \in driving, Steady(r)
  PROVE  /\ ProgramOf[r] \in Programs /\ ProgramOf[r] \in Punctual \cap alive \cap named
         /\ holder = ProgramOf[r] /\ age[ProgramOf[r]] \in 0 .. Every /\ left \in 0 .. Ttl
         /\ left + age[ProgramOf[r]] >= Ttl
BY BrowserLeaseAssumption DEF BeatsInTime, ClaimInv, ChromeTypeOK, SteadyInv, Steady, Listed

\* What the lease remembers keeps its types, however late the beats are.
LEMMA ChromeTyped == ChromeTypeOK /\ [ChromeNext]_chromeVars => ChromeTypeOK'
<1> SUFFICES ASSUME ChromeTypeOK, [ChromeNext]_chromeVars PROVE ChromeTypeOK'  OBVIOUS
<1> USE BrowserLeaseAssumption DEF ChromeTypeOK
<1>1. CASE Tick BY <1>1 DEF Tick, Listed
<1>2. CASE Sweep BY <1>2 DEF Sweep
<1>3. ASSUME NEW p \in Programs, Announce(p) \/ Beat(p) PROVE ChromeTypeOK'
  BY <1>3 DEF Announce, Beat
<1>4. ASSUME NEW p \in Programs, Exit(p) \/ ProgramDies(p) PROVE ChromeTypeOK'
  BY <1>4 DEF Exit, ProgramDies
<1>5. ASSUME NEW b \in Browsings, Hold(b) PROVE ChromeTypeOK'
  BY <1>5 DEF Hold
<1>6. ASSUME NEW b \in Browsings, LetGo(b) PROVE ChromeTypeOK'
  BY <1>6 DEF LetGo
<1>7. CASE UNCHANGED chromeVars BY <1>7 DEF chromeVars
<1> QED BY <1>1, <1>2, <1>3, <1>4, <1>5, <1>6, <1>7 DEF ChromeNext

\* A tick, a beat, a sweep, a run's start and end, a death: each keeps the invariant.
LEMMA LeaseStep ==
  ASSUME BeatsInTime, ClaimInv, ChromeNext
  PROVE  ClaimInv'
<1> USE BrowserLeaseAssumption
<1>1. CASE Tick
  <2>1. ChromeTypeOK'
    BY ChromeTyped DEF ClaimInv
  <2>2. \A p \in Punctual \cap alive \cap named : age'[p] <= Every
    BY <1>1 DEF Tick, ClaimInv, ChromeTypeOK, Listed
  <2>3. ASSUME NEW r \in driving, Steady(r)
        PROVE  LET p == ProgramOf[r] IN Listed(p)' /\ holder' = p /\ left' + age'[p] >= Ttl
    BY <1>1, <2>3, SteadyIsUnexpired DEF Tick, Listed, BeatsInTime
  <2> QED BY <1>1, <2>1, <2>2, <2>3 DEF Tick, ClaimInv, SteadyInv, Steady, BrowsingsOf
<1>2. CASE Sweep
  <2>1. ChromeTypeOK'
    BY ChromeTyped DEF ClaimInv
  <2>2. \A p \in Programs : age'[p] = age[p] \/ age'[p] = -1
    BY <1>2 DEF Sweep, ClaimInv, ChromeTypeOK
  <2>3. ASSUME NEW r \in driving, Steady(r)
        PROVE  UNCHANGED <<holder, left>> /\ age'[ProgramOf[r]] = age[ProgramOf[r]]
    BY <1>2, <2>3, SteadyIsUnexpired DEF Sweep, Kept, ClaimInv, ChromeTypeOK
  <2>4. \A p \in Punctual \cap alive \cap named : age'[p] <= Every
    BY <2>2 DEF ClaimInv, SteadyInv
  <2>5. UNCHANGED <<alive, named, driving>>
    BY <1>2 DEF Sweep
  <2> QED BY <2>1, <2>3, <2>4, <2>5 DEF ClaimInv, SteadyInv, Steady, BrowsingsOf, Listed
<1>3. ASSUME NEW p \in Programs, Announce(p) \/ Beat(p) PROVE ClaimInv'
  <2>1. ChromeTypeOK'
    BY ChromeTyped DEF ClaimInv
  <2>2. age'[p] = 0 /\ (\A q \in Programs \ {p} : age'[q] = age[q]) /\ UNCHANGED <<alive, holder, driving>>
        /\ named' = named \cup {p}
    BY <1>3 DEF Announce, Beat, ClaimInv, ChromeTypeOK
  <2>3. \A q \in Punctual \cap alive \cap named' : age'[q] <= Every
    BY <2>2 DEF ClaimInv, SteadyInv
  <2>4. ASSUME NEW r \in driving, Steady(r)
        PROVE  LET q == ProgramOf[r] IN Listed(q)' /\ holder' = q /\ left' + age'[q] >= Ttl
    BY <1>3, <2>2, <2>4, SteadyIsUnexpired DEF Announce, Beat, Listed
  <2> QED BY <2>1, <2>2, <2>3, <2>4 DEF ClaimInv, SteadyInv, Steady, BrowsingsOf
<1>4. ASSUME NEW p \in Programs, Exit(p) \/ ProgramDies(p) PROVE ClaimInv'
  <2>1. ChromeTypeOK'
    BY ChromeTyped DEF ClaimInv
  <2>2. /\ alive' = alive \ {p} /\ named' = named /\ driving' \subseteq driving
        /\ \A q \in Programs \ {p} : age'[q] = age[q]
        /\ holder # p => UNCHANGED <<holder, left>>
    BY <1>4 DEF Exit, ProgramDies, ClaimInv, ChromeTypeOK
  <2>3. \A r \in driving' : ProgramOf[r] # p
    BY <1>4 DEF Exit, ProgramDies, BrowsingsOf, ClaimInv, ChromeTypeOK
  <2>4. \A q \in Punctual \cap alive' \cap named' : age'[q] <= Every
    BY <2>2 DEF ClaimInv, SteadyInv
  <2>5. ASSUME NEW r \in driving', Steady(r)
        PROVE  LET q == ProgramOf[r] IN Listed(q)' /\ holder' = q /\ left' + age'[q] >= Ttl
    BY <2>2, <2>3, <2>5, SteadyIsUnexpired DEF Listed
  <2> QED BY <2>1, <2>2, <2>3, <2>4, <2>5 DEF ClaimInv, SteadyInv, Steady, BrowsingsOf
<1>5. ASSUME NEW b \in Browsings, Hold(b) PROVE ClaimInv'
  <2> DEFINE p == ProgramOf[b]
  <2>1. ChromeTypeOK'
    BY ChromeTyped DEF ClaimInv
  <2>2. /\ p \in Programs /\ p \in alive /\ b \notin driving /\ driving' = driving \cup {b} /\ alive' = alive
        /\ named' = named \cup {p} /\ holder' = p /\ left' = Ttl
        /\ (\A q \in Programs \ {p} : age'[q] = age[q]) /\ age'[p] >= 0 /\ (p \in named => age'[p] = age[p])
        /\ (p \notin named => age'[p] = 0)
    BY <1>5 DEF Hold, ClaimInv, ChromeTypeOK, Listed
  <2>3. Free(p)
    BY <1>5 DEF Hold
  <2>4. \A q \in Punctual \cap alive \cap named' : age'[q] <= Every
    BY <2>2 DEF ClaimInv, SteadyInv
  <2>5. ASSUME NEW r \in driving, Steady(r)
        PROVE  FALSE
    <3>1. holder = p /\ ProgramOf[r] = p
      BY <2>3, <2>5, SteadyIsUnexpired DEF Free
    <3>2. r \in BrowsingsOf(p) /\ b \in BrowsingsOf(p)
      BY <3>1 DEF BrowsingsOf, ClaimInv, ChromeTypeOK
    <3> QED BY <2>2, <2>5, <3>1, <3>2 DEF Steady
  <2>6. left' + age'[p] >= Ttl
    BY <2>1, <2>2 DEF ChromeTypeOK
  <2> QED BY <2>1, <2>2, <2>4, <2>5, <2>6 DEF ClaimInv, SteadyInv, Steady, BrowsingsOf, Listed
<1>6. ASSUME NEW b \in Browsings, LetGo(b) PROVE ClaimInv'
  <2>1. ChromeTypeOK'
    BY ChromeTyped DEF ClaimInv
  <2>2. UNCHANGED <<alive, named, age>> /\ b \in driving /\ driving' = driving \ {b}
        /\ (holder # ProgramOf[b] => UNCHANGED <<holder, left>>)
    BY <1>6 DEF LetGo
  <2>3. ASSUME NEW r \in driving', Steady(r) PROVE holder # ProgramOf[b]
    <3>1. r \in driving /\ r # b /\ holder = ProgramOf[r]
      BY <2>2, <2>3, SteadyIsUnexpired
    <3> QED BY <2>2, <2>3, <3>1 DEF Steady, BrowsingsOf, ClaimInv, ChromeTypeOK
  <2> QED BY <2>1, <2>2, <2>3 DEF ClaimInv, SteadyInv, Steady, BrowsingsOf, Listed
<1> QED BY <1>1, <1>2, <1>3, <1>4, <1>5, <1>6 DEF ChromeNext

\* A claim that has not expired is taken by nobody: the sweep and the takeover look at it.
LEMMA UnexpiredStep ==
  ASSUME ClaimInv, ChromeNext, left >= 0, left' # left - 1, holder' # holder, holder # NoOne
  PROVE  holder' = NoOne /\ (driving' # driving \/ alive' # alive)
<1> USE BrowserLeaseAssumption DEF ClaimInv, ChromeTypeOK
<1>1. CASE Tick BY <1>1 DEF Tick
<1>2. CASE Sweep BY <1>2 DEF Sweep, Kept
<1>3. ASSUME NEW p \in Programs, Announce(p) \/ Beat(p) \/ Exit(p) \/ ProgramDies(p)
      PROVE  holder' = NoOne /\ (driving' # driving \/ alive' # alive)
  BY <1>3 DEF Announce, Beat, Exit, ProgramDies
<1>4. ASSUME NEW b \in Browsings, Hold(b) \/ LetGo(b)
      PROVE  holder' = NoOne /\ (driving' # driving \/ alive' # alive)
  BY <1>4 DEF Hold, LetGo, Free
<1> QED BY <1>1, <1>2, <1>3, <1>4 DEF ChromeNext

\* Every step keeps the claims, a stutter too.
LEMMA ClaimStep == BeatsInTime /\ ClaimInv /\ [ChromeNext]_chromeVars => ClaimInv'
<1>1. ClaimInv /\ UNCHANGED chromeVars => ClaimInv'
  BY DEF chromeVars, ClaimInv, ChromeTypeOK, SteadyInv, Steady, BrowsingsOf, Listed
<1> QED BY <1>1, LeaseStep

\* "it is leased for as long as a run drives it" (tools.rs:471), for any processes, runs and
\* times in that order: the lease of a run whose process renews it in time lasts while it
\* drives, and no process's acquire or sweep revokes a claim that has not expired.
THEOREM LeaseIsKept == BeatsInTime /\ ChromeInit /\ [][ChromeNext]_chromeVars => ClaimsAreKept
<1> SUFFICES ASSUME BeatsInTime PROVE ChromeInit /\ [][ChromeNext]_chromeVars => ClaimsAreKept
  OBVIOUS
<1>1. ClaimInv /\ [ChromeNext]_chromeVars => ClaimInv'
  BY ClaimStep
<1>2. ClaimInv => SteadyHoldLasts
  BY SteadyIsUnexpired DEF SteadyHoldLasts
<1>3. ClaimInv /\ [ChromeNext]_chromeVars =>
        [left >= 0 /\ left' # left - 1 /\ holder' # holder /\ holder # NoOne
           => holder' = NoOne /\ (driving' # driving \/ alive' # alive)]_chromeVars
  BY UnexpiredStep DEF chromeVars
<1> QED BY LeaseInitially, <1>1, <1>2, <1>3, PTL DEF ClaimsAreKept, UnexpiredIsSafe

-----------------------------------------------------------------------------
(* The projects' clocks. *)

\* Whoever is past the flock owns it, until its file is closed.
LockInv == \A r \in Runners : at[r] \in {"locked", "ticking", "done", "unslotted"} => locker = r

\* A runner that is under way has a project.
JobInv == \A r \in Runners : at[r] # "idle" => job[r] \in Projects

\* A scheduler holds the Project of its poll, which was enabled, until it reads it again.
PollInv ==
  \A r \in Runners : r[2] = "timer" /\ at[r] \in {"chosen", "slotted", "refused"} => wants[r]

\* A tick that had read its project switched off, when it is on by now, was overtaken.
TickInv ==
  \A r \in Runners :
    at[r] = "ticking" /\ ~wants[r] /\ enabled[job[r]] => job[r] \in overtaken

HeartbeatInv ==
  HeartbeatTypeOK /\ LockInv /\ JobInv /\ PollInv /\ TickInv /\ SlotIsFreed /\ ScheduledUnlessOvertaken

-----------------------------------------------------------------------------
\* The initial state: nobody runs, nothing is switched on.
LEMMA InitInv == HeartbeatInit => HeartbeatInv
  BY DEF HeartbeatInit, HeartbeatInv, HeartbeatTypeOK, LockInv, JobInv, PollInv, TickInv, SlotIsFreed,
         ScheduledUnlessOvertaken, HeartPoints, Runners

\* A deadline passes, or a clock is set: the runners stand still.
LEMMA ClockStep ==
  ASSUME HeartbeatInv, NEW p \in Projects, Elapse(p) \/ \E on \in BOOLEAN : Configure(p, on)
  PROVE  HeartbeatInv'
<1> USE DEF HeartbeatInv
<1>1. CASE Elapse(p)
  BY <1>1 DEF Elapse, HeartbeatTypeOK, LockInv, JobInv, PollInv, TickInv, SlotIsFreed, ScheduledUnlessOvertaken
<1>2. ASSUME NEW on \in BOOLEAN, Configure(p, on) PROVE HeartbeatInv'
  <2>1. HeartbeatTypeOK'
    BY <1>2 DEF Configure, HeartbeatTypeOK
  <2>2. LockInv' /\ JobInv' /\ PollInv' /\ SlotIsFreed'
    BY <1>2 DEF Configure, LockInv, JobInv, PollInv, SlotIsFreed
  <2>3. TickInv'
    BY <1>2 DEF Configure, HeartbeatTypeOK, TickInv, JobInv
  <2>4. ScheduledUnlessOvertaken'
    BY <1>2 DEF Configure, HeartbeatTypeOK, ScheduledUnlessOvertaken
  <2> QED BY <2>1, <2>2, <2>3, <2>4
<1> QED BY <1>1, <1>2

\* A pass is read, a program dies or is started.
LEMMA HostStep ==
  ASSUME HeartbeatInv, NEW h \in Hosts, Poll(h) \/ Die(h) \/ Start(h)
  PROVE  HeartbeatInv'
<1> USE DEF HeartbeatInv
<1>1. CASE Poll(h)
  BY <1>1 DEF Poll, HeartbeatTypeOK, LockInv, JobInv, PollInv, TickInv, SlotIsFreed, ScheduledUnlessOvertaken
<1>2. CASE Start(h)
  BY <1>2 DEF Start, HeartbeatTypeOK, LockInv, JobInv, PollInv, TickInv, SlotIsFreed, ScheduledUnlessOvertaken
<1>3. CASE Die(h)
  <2>1. HeartbeatTypeOK'
    BY <1>3 DEF Die, HeartbeatTypeOK, HeartPoints
  <2>2. LockInv'
    BY <1>3 DEF Die, HeartbeatTypeOK, LockInv, HostOf
  <2>3. JobInv' /\ PollInv' /\ TickInv'
    BY <1>3 DEF Die, HeartbeatTypeOK, JobInv, PollInv, TickInv
  <2>4. SlotIsFreed' /\ ScheduledUnlessOvertaken'
    BY <1>3 DEF Die, HeartbeatTypeOK, SlotIsFreed, ScheduledUnlessOvertaken
  <2> QED BY <2>1, <2>2, <2>3, <2>4
<1> QED BY <1>1, <1>2, <1>3

\* Before the flock: choosing, the flag, the lock and a refusal.
LEMMA EntryStep ==
  ASSUME HeartbeatInv, NEW r \in Runners,
         (\E p \in Projects : Choose(r, p)) \/ TakeSlot(r) \/ TakeLock(r)
  PROVE  HeartbeatInv'
<1> USE DEF HeartbeatInv
<1>h. HostOf(r) \in Hosts
  BY DEF Runners, HostOf
<1>1. ASSUME NEW p \in Projects, Choose(r, p) PROVE HeartbeatInv'
  <2>1. HeartbeatTypeOK'
    BY <1>1, <1>h DEF Choose, Steps, HeartbeatTypeOK, HeartPoints
  <2>2. LockInv' /\ JobInv' /\ PollInv'
    BY <1>1 DEF Choose, Steps, HeartbeatTypeOK, LockInv, JobInv, PollInv
  <2>3. TickInv' /\ SlotIsFreed' /\ ScheduledUnlessOvertaken'
    BY <1>1 DEF Choose, Steps, HeartbeatTypeOK, TickInv, SlotIsFreed, ScheduledUnlessOvertaken
  <2> QED BY <2>1, <2>2, <2>3
<1>2. CASE TakeSlot(r)
  <2>1. HeartbeatTypeOK'
    BY <1>2, <1>h DEF TakeSlot, Steps, HeartbeatTypeOK, HeartPoints
  <2>2. LockInv' /\ JobInv' /\ PollInv'
    BY <1>2 DEF TakeSlot, Steps, HeartbeatTypeOK, LockInv, JobInv, PollInv
  <2>3. TickInv' /\ SlotIsFreed' /\ ScheduledUnlessOvertaken'
    BY <1>2, <1>h DEF TakeSlot, Steps, HeartbeatTypeOK, TickInv, SlotIsFreed, ScheduledUnlessOvertaken
  <2> QED BY <2>1, <2>2, <2>3
<1>3. CASE TakeLock(r)
  <2>1. HeartbeatTypeOK'
    BY <1>3, <1>h DEF TakeLock, Steps, HeartbeatTypeOK, HeartPoints
  <2>2. LockInv'
    BY <1>3, HeartbeatAssumption DEF TakeLock, Steps, HeartbeatTypeOK, LockInv, Runners
  <2>3. JobInv' /\ PollInv' /\ TickInv'
    BY <1>3 DEF TakeLock, Steps, HeartbeatTypeOK, JobInv, PollInv, TickInv
  <2>4. SlotIsFreed' /\ ScheduledUnlessOvertaken'
    BY <1>3, <1>h DEF TakeLock, Steps, HeartbeatTypeOK, SlotIsFreed, ScheduledUnlessOvertaken
  <2> QED BY <2>1, <2>2, <2>3, <2>4
<1> QED BY <1>1, <1>2, <1>3

\* A refused runner leaves; its drop is written with an enabled Project.
LEMMA DropStep ==
  ASSUME HeartbeatInv, NEW r \in Runners, Drop(r)
  PROVE  HeartbeatInv'
<1> USE DEF HeartbeatInv
<1>1. job[r] \in Projects
  BY DEF Drop, Returns, Steps, JobInv
<1>2. due' = due \/ due' = [due EXCEPT ![job[r]] = "later"]
  BY DEF Drop, Returns, Steps, PollInv, FinishTick
<1>3. HeartbeatTypeOK'
  <2>1. /\ at' = [at EXCEPT ![r] = "idle"] /\ job' = [job EXCEPT ![r] = Idle]
        /\ wants' = [wants EXCEPT ![r] = FALSE]
    BY DEF Drop, Returns, Steps
  <2>2. UNCHANGED <<enabled, up, slot, locker, todo, overtaken>>
    BY DEF Drop
  <2>3. due' \in [Projects -> {"never", "later", "reached"}]
    BY <1>2 DEF HeartbeatTypeOK
  <2> QED BY <2>1, <2>2, <2>3 DEF HeartbeatTypeOK, HeartPoints
<1>4. LockInv' /\ JobInv' /\ PollInv' /\ TickInv'
  BY DEF Drop, Returns, Steps, HeartbeatTypeOK, LockInv, JobInv, PollInv, TickInv
<1>5. SlotIsFreed'
  BY DEF Drop, Returns, Steps, HeartbeatTypeOK, SlotIsFreed
<1>6. ScheduledUnlessOvertaken'
  BY <1>1, <1>2 DEF Drop, HeartbeatTypeOK, ScheduledUnlessOvertaken
<1> QED BY <1>3, <1>4, <1>5, <1>6

\* Under the flock: the row is read, the turn ends, the slot is given back.
LEMMA TickStep ==
  ASSUME HeartbeatInv, NEW r \in Runners, ReadProject(r) \/ EndTick(r) \/ FreeSlot(r) \/ Unlock(r)
  PROVE  HeartbeatInv'
<1> USE DEF HeartbeatInv
<1>h. HostOf(r) \in Hosts
  BY DEF Runners, HostOf
<1>1. CASE ReadProject(r)
  <2>1. job[r] \in Projects
    BY <1>1 DEF ReadProject, Steps, JobInv
  <2>2. HeartbeatTypeOK'
    BY <1>1, <2>1 DEF ReadProject, Steps, HeartbeatTypeOK, HeartPoints
  <2>3. LockInv' /\ JobInv' /\ PollInv'
    BY <1>1 DEF ReadProject, Steps, HeartbeatTypeOK, LockInv, JobInv, PollInv
  <2>4. TickInv'
    BY <1>1, <2>1 DEF ReadProject, Steps, HeartbeatTypeOK, TickInv
  <2>5. SlotIsFreed' /\ ScheduledUnlessOvertaken'
    BY <1>1 DEF ReadProject, Steps, HeartbeatTypeOK, SlotIsFreed, ScheduledUnlessOvertaken
  <2> QED BY <2>2, <2>3, <2>4, <2>5
<1>2. CASE EndTick(r)
  <2>1. job[r] \in Projects /\ (~wants[r] /\ enabled[job[r]] => job[r] \in overtaken)
    BY <1>2 DEF EndTick, Steps, JobInv, TickInv
  <2>2. HeartbeatTypeOK'
    BY <1>2, <2>1 DEF EndTick, FinishTick, Steps, HeartbeatTypeOK, HeartPoints
  <2>3. LockInv' /\ JobInv' /\ PollInv' /\ TickInv'
    BY <1>2 DEF EndTick, Steps, HeartbeatTypeOK, LockInv, JobInv, PollInv, TickInv
  <2>4. SlotIsFreed'
    BY <1>2 DEF EndTick, Steps, HeartbeatTypeOK, SlotIsFreed
  <2>5. ScheduledUnlessOvertaken'
    BY <1>2, <2>1 DEF EndTick, FinishTick, HeartbeatTypeOK, ScheduledUnlessOvertaken
  <2> QED BY <2>2, <2>3, <2>4, <2>5
<1>3. CASE FreeSlot(r)
  <2>1. HeartbeatTypeOK' /\ LockInv' /\ JobInv' /\ PollInv' /\ TickInv'
    BY <1>3, <1>h DEF FreeSlot, Steps, HeartbeatTypeOK, HeartPoints, LockInv, JobInv, PollInv, TickInv
  <2>2. SlotIsFreed' /\ ScheduledUnlessOvertaken'
    BY <1>3, <1>h DEF FreeSlot, Steps, HeartbeatTypeOK, SlotIsFreed, ScheduledUnlessOvertaken
  <2> QED BY <2>1, <2>2
<1>4. CASE Unlock(r)
  <2>1. HeartbeatTypeOK' /\ JobInv' /\ PollInv' /\ TickInv'
    BY <1>4 DEF Unlock, Returns, Steps, HeartbeatTypeOK, HeartPoints, JobInv, PollInv, TickInv
  <2>2. LockInv'
    BY <1>4 DEF Unlock, Returns, Steps, HeartbeatTypeOK, LockInv
  <2>3. SlotIsFreed' /\ ScheduledUnlessOvertaken'
    BY <1>4 DEF Unlock, Returns, Steps, HeartbeatTypeOK, SlotIsFreed, ScheduledUnlessOvertaken
  <2> QED BY <2>1, <2>2, <2>3
<1> QED BY <1>1, <1>2, <1>3, <1>4

\* A stuttering step changes nothing.
LEMMA Stutter == HeartbeatInv /\ UNCHANGED heartVars => HeartbeatInv'
  BY DEF heartVars, HeartbeatInv, HeartbeatTypeOK, LockInv, JobInv, PollInv, TickInv, SlotIsFreed,
         ScheduledUnlessOvertaken

\* Every step of the clocks: one case per kind of action.
LEMMA HeartbeatStep == HeartbeatInv /\ [HeartbeatNext]_heartVars => HeartbeatInv'
<1>1. HeartbeatInv /\ HeartbeatNext => HeartbeatInv'
  BY ClockStep, HostStep, EntryStep, DropStep, TickStep DEF HeartbeatNext
<1> QED BY <1>1, Stutter

\* projects.rs, the state of the slot and of the clock: HeartbeatInv always holds.
THEOREM HeartbeatInvariant == HeartbeatSpec => []HeartbeatInv
BY InitInv, HeartbeatStep, PTL DEF HeartbeatSpec

\* projects.rs:190-223: of all the heartbeats of an install one runs at a time.
THEOREM HeartbeatsNeverOverlap == HeartbeatSpec => []OneHeartbeat
<1>1. HeartbeatInv => OneHeartbeat
  BY DEF HeartbeatInv, LockInv, OneHeartbeat
<1> QED BY HeartbeatInvariant, <1>1, PTL

\* projects.rs:79-90, 210-220: no way out of a heartbeat leaves the flag taken.
THEOREM SlotIsAlwaysFreed == HeartbeatSpec => []SlotIsFreed
<1>1. HeartbeatInv => SlotIsFreed
  BY DEF HeartbeatInv
<1> QED BY HeartbeatInvariant, <1>1, PTL

\* projects.rs:307-345: a project that is on has a deadline, unless it was switched
\* on under a tick that had read it off.
THEOREM DeadlineIsKept == HeartbeatSpec => []ScheduledUnlessOvertaken
<1>1. HeartbeatInv => ScheduledUnlessOvertaken
  BY DEF HeartbeatInv
<1> QED BY HeartbeatInvariant, <1>1, PTL

\* projects.rs:190-223: heartbeats take turns, and no turn keeps the flag.
THEOREM HeartbeatsInTurn == HeartbeatSpec => []HeartbeatsTakeTurns
BY HeartbeatsNeverOverlap, SlotIsAlwaysFreed, PTL DEF HeartbeatsTakeTurns

-----------------------------------------------------------------------------
(* The settings. *)

\* A writer thread serves its own process's callers, and a transaction holds the lock.
Local(p) == {s \in Savers : FrontOf[s] = p}
WriterInv ==
  /\ \A p \in Fronts : inbox[p] \in Seq(Local(p)) /\ (serving[p] # NoSaver => serving[p] \in Local(p))
  /\ \A s \in Savers : stage[s] \in InTransaction => serving[FrontOf[s]] = s /\ writing = FrontOf[s]

\* A patch names what its user meant.
NamesInv ==
  /\ \A s \in Savers : stage[s] = "reading" => ModelId \in meant[s]
  /\ \A s \in Savers : stage[s] \in {"reading", "queued", "merging", "committing"} =>
       \A l \in Leaves : patch[s][l] # Unnamed => l \in meant[s]

\* What is about to be committed differs from the rows where the patch names a leaf, or where
\* the build knows none.
MergedInv ==
  \A s \in Savers : stage[s] = "committing" =>
    /\ merged[s].at = version + 1
    /\ \A l \in Leaves : merged[s].of[l] # rows[l] => l \in meant[s] \/ l \notin Knows[FrontOf[s]]

\* The last change of a screen's own process is drawn, or on its way: an event that waits, or a
\* commit whose caller has not published yet.  The terminal's arrive in order.
Unpublished(q) == \E s \in Local(q) : stage[s] = "stored" /\ merged[s].at >= own[q]
OnItsWay(q) ==
  /\ own[q] <= version
  /\ \/ seen[q] >= own[q]
     \/ Unpublished(q)
     \/ \E i \in 1 .. Len(feed[q]) : feed[q][i].at >= own[q]
ShownInv ==
  /\ \A q \in Screens : OnItsWay(q)
  /\ \A s \in Local(Terminal) : stage[s] = "stored" => merged[s].at >= own[Terminal]
  /\ LET news == feed[Terminal] IN
     Unpublished(Terminal) \/ IF news = <<>> THEN shown[Terminal].at >= own[Terminal]
                              ELSE news[Len(news)].at >= own[Terminal]

SettingsInv == SettingsTypeOK /\ WriterInv /\ NamesInv /\ MergedInv

-----------------------------------------------------------------------------
\* The empty store with no saves out is a state the invariant allows.
LEMMA SettingsInitially == SettingsInit => SettingsInv
<1> SUFFICES ASSUME SettingsInit PROVE SettingsInv OBVIOUS
<1> USE SettingsAssumption DEF SettingsInit
<1>1. First \in Snapshots /\ NoChange \in Patches
  BY DEF First, Snapshots, Settings, NoChange, Patches
<1>2. SettingsTypeOK
  BY <1>1 DEF SettingsTypeOK, Stages, First, Snapshots, Settings, Screens
<1>3. WriterInv /\ NamesInv /\ MergedInv
  BY DEF WriterInv, NamesInv, MergedInv, InTransaction
<1> QED BY <1>2, <1>3 DEF SettingsInv

\* A job is appended to its own process's queue.
LEMMA QueuedTypes ==
  ASSUME SettingsTypeOK, WriterInv, NEW s \in Savers, Queued(s)
  PROVE  inbox' \in [Fronts -> Seq(Savers)] /\ \A q \in Fronts : inbox'[q] \in Seq(Local(q))
<1> DEFINE p == FrontOf[s]
<1>1. p \in Fronts /\ s \in Local(p)
  BY SettingsAssumption DEF Local
<1>2. inbox[p] \in Seq(Savers) /\ inbox[p] \in Seq(Local(p))
  BY <1>1 DEF SettingsTypeOK, WriterInv
<1>3. Append(inbox[p], s) \in Seq(Savers) /\ Append(inbox[p], s) \in Seq(Local(p))
  BY <1>1, <1>2
<1>4. inbox' = [inbox EXCEPT ![p] = Append(inbox[p], s)]
  BY DEF Queued
<1> QED BY <1>1, <1>3, <1>4 DEF SettingsTypeOK, WriterInv

\* A saver's patch goes on its way.
LEMMA AskStep ==
  ASSUME SettingsInv, NEW s \in Savers, NEW p \in Patches, NEW m \in SUBSET Leaves,
         NEW to \in {"reading", "queued"},
         Asks(s, p, m), \A l \in Leaves : p[l] # Unnamed => l \in m, to = "reading" => ModelId \in m,
         stage' = [stage EXCEPT ![s] = to],
         IF to = "queued" THEN Queued(s) ELSE UNCHANGED inbox,
         UNCHANGED <<rows, version, writing, serving, merged, own, screenVars, kills>>
  PROVE  SettingsInv'
<1> USE SettingsAssumption DEF SettingsInv, Asks, screenVars
<1>0. inbox' \in [Fronts -> Seq(Savers)] /\ \A q \in Fronts : inbox'[q] \in Seq(Local(q))
  BY QueuedTypes DEF SettingsTypeOK, WriterInv
<1>a. stage' \in [Savers -> Stages] /\ patch' \in [Savers -> Patches]
  BY DEF SettingsTypeOK, Stages
<1>b. meant' \in [Savers -> SUBSET Leaves] /\ asks' \in Nat
  BY DEF SettingsTypeOK
<1>1. SettingsTypeOK'
  <2> USE DEF SettingsTypeOK
  <2>1. UNCHANGED <<rows, version, writing, serving, merged, own, feed, shown, form, reload, reread, seen, kills>>
    OBVIOUS
  <2> HIDE DEF Asks
  <2> QED BY <1>0, <1>a, <1>b, <2>1
<1>2. WriterInv'
  BY <1>0 DEF SettingsTypeOK, WriterInv, InTransaction
<1>3. NamesInv' /\ MergedInv'
  BY DEF SettingsTypeOK, NamesInv, MergedInv
<1> QED BY <1>1, <1>2, <1>3

\* What the users do.
LEMMA UserStep ==
  ASSUME SettingsInv, NEW s \in Savers, NEW v \in Values, NEW w \in Values, NEW l \in Leaves,
         Save(s) \/ ChooseProvider(s, v) \/ ChooseModel(s, v, w) \/ SetLeaf(s, l, v) \/ Reset(s, l)
  PROVE  SettingsInv'
<1> USE SettingsAssumption
<1>t. SettingsTypeOK /\ Window \in Screens
  BY DEF SettingsInv, Screens
<1>1. CASE Save(s)
  <2>1. FormPatch \in Patches
    BY <1>t DEF FormPatch, Drawn, Patches, SettingsTypeOK, Snapshots, Settings
  <2>2. \A k \in Leaves : FormPatch[k] # Unnamed => k \in {j \in Leaves : KeyOf[j] \in Changed}
    BY DEF FormPatch
  <2> QED BY <1>1, <2>1, <2>2, AskStep DEF Save
<1>2. CASE ChooseProvider(s, v)
  <2>1. [NoChange EXCEPT ![Provider] = v] \in Patches
    BY DEF NoChange, Patches
  <2>2. \A k \in Leaves : [NoChange EXCEPT ![Provider] = v][k] # Unnamed => k \in {Provider, ModelId}
    BY DEF NoChange
  <2> QED BY <1>2, <2>1, <2>2, AskStep DEF ChooseProvider
<1>3. CASE ChooseModel(s, v, w)
  <2>1. [NoChange EXCEPT ![Provider] = v, ![ModelId] = w] \in Patches
    BY DEF NoChange, Patches
  <2>2. \A k \in Leaves :
          [NoChange EXCEPT ![Provider] = v, ![ModelId] = w][k] # Unnamed => k \in {Provider, ModelId}
    BY DEF NoChange
  <2> QED BY <1>3, <2>1, <2>2, AskStep DEF ChooseModel
<1>4. CASE SetLeaf(s, l, v)
  <2>1. [NoChange EXCEPT ![l] = v] \in Patches /\ {l} \in SUBSET Leaves
    BY DEF NoChange, Patches
  <2>2. \A k \in Leaves : [NoChange EXCEPT ![l] = v][k] # Unnamed => k \in {l}
    BY DEF NoChange
  <2> QED BY <1>4, <2>1, <2>2, AskStep DEF SetLeaf
<1>5. CASE Reset(s, l)
  <2> DEFINE section == {k \in Leaves : SectionOf[k] = SectionOf[l]}
             p == [k \in Leaves |-> IF k \in section THEN Default ELSE Unnamed]
  <2>1. p \in Patches /\ section \in SUBSET Leaves /\ \A k \in Leaves : p[k] # Unnamed => k \in section
    BY DEF Patches
  <2>2. Asks(s, p, section)
    BY <1>5 DEF Reset
  <2> HIDE DEF p, section
  <2> QED BY <1>5, <2>1, <2>2, AskStep DEF Reset
<1> QED BY <1>1, <1>2, <1>3, <1>4, <1>5

\* A picker reads the model id, or starts to choose from the one it read.
LEMMA ReadStep ==
  ASSUME SettingsInv, NEW s \in Savers, ReadModelId(s) PROVE SettingsInv'
<1> USE SettingsAssumption DEF SettingsInv, ReadModelId, screenVars
<1>0. rows[ModelId] \in Values
  BY DEF SettingsTypeOK, Settings
<1>1. SettingsTypeOK'
  BY <1>0, QueuedTypes DEF SettingsTypeOK, Stages, Patches
<1>2. WriterInv'
  BY QueuedTypes DEF SettingsTypeOK, WriterInv, InTransaction
<1>3. NamesInv' /\ MergedInv'
  BY DEF SettingsTypeOK, NamesInv, MergedInv, Patches
<1> QED BY <1>1, <1>2, <1>3

\* The writer threads.
LEMMA TakeStep ==
  ASSUME SettingsInv, NEW p \in Fronts, Take(p) PROVE SettingsInv'
<1> USE SettingsAssumption DEF SettingsInv, Take, screenVars, askVars
<1>1. Head(inbox[p]) \in Local(p) /\ Tail(inbox[p]) \in Seq(Local(p))
  BY DEF WriterInv
<1>2. Tail(inbox[p]) \in Seq(Savers) /\ Head(inbox[p]) \in Savers
  BY <1>1 DEF SettingsTypeOK, Local
<1>3. SettingsTypeOK'
  BY <1>2 DEF SettingsTypeOK
<1>4. WriterInv'
  BY <1>1 DEF SettingsTypeOK, WriterInv, Local
<1> QED BY <1>3, <1>4 DEF NamesInv, MergedInv

\* The step of a job; nobody else is in a transaction with it.
LEMMA AloneInTransaction ==
  ASSUME SettingsInv, NEW p \in Fronts, NEW s \in Savers, serving[p] = s
  PROVE  /\ FrontOf[s] = p
         /\ stage[s] \in InTransaction => \A t \in Savers \ {s} : stage[t] \notin InTransaction
BY SettingsAssumption DEF SettingsInv, WriterInv, Local

\* One step of the job a writer thread is in: only it is in a transaction.
LEMMA JobStep ==
  ASSUME SettingsInv, NEW p \in Fronts, NEW s \in Savers,
         Begin(p, s) \/ Busy(p, s) \/ Merge(p, s) \/ RollBack(p, s) \/ Commit(p, s)
  PROVE  SettingsInv'
<1> USE SettingsAssumption DEF SettingsInv, screenVars, askVars, Replies, InTransaction
<1>0. FrontOf[s] = p /\ (stage[s] \in InTransaction => \A t \in Savers \ {s} : stage[t] \notin InTransaction)
  BY AloneInTransaction DEF Begin, Busy, Merge, RollBack, Commit
<1>1. CASE Begin(p, s)
  BY <1>0, <1>1 DEF Begin, SettingsTypeOK, Stages, WriterInv, NamesInv, MergedInv
<1>2. CASE Busy(p, s)
  <2>1. SettingsTypeOK' BY <1>2 DEF Busy, SettingsTypeOK, Stages
  <2>2. WriterInv' BY <1>2, <1>0 DEF Busy, SettingsTypeOK, WriterInv
  <2> QED BY <1>2, <2>1, <2>2 DEF Busy, SettingsTypeOK, NamesInv, MergedInv
<1>3. CASE Merge(p, s)
  <2>1. [at |-> version + 1, of |-> Merged(p, s)] \in Snapshots
    BY DEF Merged, SettingsTypeOK, Snapshots, Settings, Patches
  <2>2. SettingsTypeOK' BY <1>3, <2>1 DEF Merge, SettingsTypeOK, Stages
  <2>3. WriterInv' BY <1>3, <1>0 DEF Merge, SettingsTypeOK, WriterInv
  <2>4. NamesInv' BY <1>3 DEF Merge, SettingsTypeOK, NamesInv
  <2>5. MergedInv' BY <1>3, <1>0 DEF Merge, Merged, SettingsTypeOK, NamesInv, MergedInv
  <2> QED BY <2>2, <2>3, <2>4, <2>5
<1>4. CASE RollBack(p, s)
  <2>1. SettingsTypeOK' BY <1>4 DEF RollBack, SettingsTypeOK, Stages
  <2>2. WriterInv' BY <1>4, <1>0 DEF RollBack, SettingsTypeOK, WriterInv
  <2> QED BY <1>4, <2>1, <2>2 DEF RollBack, SettingsTypeOK, NamesInv, MergedInv
<1>5. CASE Commit(p, s)
  <2>1. merged[s].of \in Settings
    BY DEF SettingsTypeOK, Snapshots
  <2>2. SettingsTypeOK' BY <1>5, <2>1 DEF Commit, SettingsTypeOK, Stages, Settings
  <2>3. WriterInv' BY <1>5, <1>0 DEF Commit, SettingsTypeOK, WriterInv
  <2>4. NamesInv' BY <1>5 DEF Commit, SettingsTypeOK, NamesInv
  <2>5. MergedInv' BY <1>5, <1>0 DEF Commit, SettingsTypeOK, MergedInv
  <2> QED BY <2>2, <2>3, <2>4, <2>5
<1> QED BY <1>1, <1>2, <1>3, <1>4, <1>5

\* What a screen draws is a snapshot.
LEMMA DrawsTypes ==
  ASSUME SettingsTypeOK, NEW q \in Screens, NEW snapshot \in Snapshots, Draws(q, snapshot)
  PROVE  shown' \in [Screens -> Snapshots] /\ seen' \in [Screens -> Nat] /\ form' \in Patches
BY DEF SettingsTypeOK, Draws, Snapshots, Patches, NoChange

\* The screens, and a process's death.
LEMMA ScreenStep ==
  ASSUME SettingsInv,
         \/ Revert \/ OpenSettings \/ ServeReload \/ HearReload
         \/ \E l \in Leaves, v \in Values : Type(l, v)
         \/ \E q \in Screens : Hear(q)
  PROVE  SettingsInv'
<1> USE SettingsAssumption DEF SettingsInv, storeVars, askVars
<1>0. Window \in Screens /\ Now \in Snapshots /\ First \in Snapshots
  BY DEF Screens, Now, First, Snapshots, Settings, SettingsTypeOK
<1>1. SettingsTypeOK'
  <2>0. CASE Revert BY <2>0 DEF Revert, SettingsTypeOK, NoChange, Patches
  <2>1. CASE OpenSettings BY <2>1 DEF OpenSettings, SettingsTypeOK
  <2>2. CASE ServeReload BY <2>2, <1>0 DEF ServeReload, SettingsTypeOK
  <2>3. CASE HearReload
    <3>1. shown' \in [Screens -> Snapshots] /\ seen' \in [Screens -> Nat] /\ form' \in Patches
      BY <2>3, <1>0, DrawsTypes DEF HearReload, SettingsTypeOK
    <3> QED BY <2>3, <3>1, <1>0 DEF HearReload, SettingsTypeOK
  <2>4. ASSUME NEW l \in Leaves, NEW v \in Values, Type(l, v) PROVE SettingsTypeOK'
    <3>1. form' \in Patches BY <2>4 DEF Type, Patches, SettingsTypeOK
    <3> QED BY <2>4, <3>1 DEF Type, SettingsTypeOK
  <2>5. ASSUME NEW q \in Screens, Hear(q) PROVE SettingsTypeOK'
    <3>1. Head(feed[q]) \in Snapshots /\ Tail(feed[q]) \in Seq(Snapshots)
      BY <2>5 DEF Hear, SettingsTypeOK
    <3>2. shown' \in [Screens -> Snapshots] /\ seen' \in [Screens -> Nat] /\ form' \in Patches
      BY <2>5, <3>1, DrawsTypes DEF Hear
    <3> QED BY <2>5, <3>1, <3>2 DEF Hear, SettingsTypeOK
  <2> QED BY <2>0, <2>1, <2>2, <2>3, <2>4, <2>5
<1>2. WriterInv' /\ NamesInv' /\ MergedInv'
  BY DEF Revert, OpenSettings, ServeReload, HearReload, Type, Hear, WriterInv, NamesInv, MergedInv
<1> QED BY <1>1, <1>2

\* The caller of a save that has its reply numbers the event and sends it.
LEMMA PublishStep ==
  ASSUME SettingsInv, NEW s \in Savers, Publish(s) PROVE SettingsInv'
<1> USE SettingsAssumption DEF SettingsInv, Publish, askVars
<1>1. \A q \in Screens : Append(feed[q], merged[s]) \in Seq(Snapshots)
  BY DEF SettingsTypeOK
<1>2. SettingsTypeOK'
  BY <1>1 DEF SettingsTypeOK, Stages
<1>3. WriterInv' /\ NamesInv' /\ MergedInv'
  BY DEF SettingsTypeOK, WriterInv, NamesInv, MergedInv, InTransaction
<1> QED BY <1>2, <1>3

\* What a saver is left with after its answer has the type of a saver.
LEMMA ForgetsTypes ==
  ASSUME SettingsTypeOK, NEW S, Forgets(S)
  PROVE  /\ patch' \in [Savers -> Patches] /\ meant' \in [Savers -> SUBSET Leaves]
         /\ merged' \in [Savers -> Snapshots]
BY SettingsAssumption DEF SettingsTypeOK, Forgets, NoChange, Patches, First, Snapshots, Settings

\* The answer of a save reaches its form.
LEMMA AnswerStep ==
  ASSUME SettingsInv, NEW s \in Savers, Answer(s) PROVE SettingsInv'
<1> USE SettingsAssumption DEF SettingsInv, Answer
<1>0. Window \in Screens /\ merged[s] \in Snapshots
  BY DEF Screens, SettingsTypeOK
<1>1. shown' \in [Screens -> Snapshots] /\ seen' \in [Screens -> Nat] /\ form' \in Patches
  BY <1>0, DrawsTypes DEF SettingsTypeOK
<1>2. SettingsTypeOK'
  BY <1>1, ForgetsTypes DEF SettingsTypeOK, Stages
<1>3. WriterInv' /\ NamesInv' /\ MergedInv'
  BY DEF SettingsTypeOK, WriterInv, NamesInv, MergedInv, InTransaction, Forgets
<1> QED BY <1>2, <1>3

\* A process dies with its queue, its transaction and its screens.
LEMMA KilledStep ==
  ASSUME SettingsInv, NEW p \in Fronts, Killed(p) PROVE SettingsInv'
<1> USE SettingsAssumption DEF SettingsInv, Killed
<1>0. Now \in Snapshots /\ First \in Snapshots /\ NoChange \in Patches
  BY DEF Now, First, Snapshots, Settings, SettingsTypeOK, NoChange, Patches
<1>1. inbox' \in [Fronts -> Seq(Savers)] /\ \A q \in Fronts : inbox'[q] \in Seq(Local(q))
  BY DEF SettingsTypeOK, WriterInv
<1>2. shown' \in [Screens -> Snapshots] /\ feed' \in [Screens -> Seq(Snapshots)] /\ seen' \in [Screens -> Nat]
  BY <1>0 DEF SettingsTypeOK
<1>3. SettingsTypeOK'
  BY <1>0, <1>1, <1>2, ForgetsTypes DEF SettingsTypeOK, Stages
<1>4. WriterInv'
  BY <1>1 DEF SettingsTypeOK, WriterInv, InTransaction
<1>5. NamesInv' /\ MergedInv'
  BY DEF SettingsTypeOK, NamesInv, MergedInv, Forgets
<1> QED BY <1>3, <1>4, <1>5

\* Every step keeps the inductive invariant of the store: one case per action.
LEMMA SettingsStep == SettingsInv /\ [SettingsNext]_settingsVars => SettingsInv'
<1>1. ASSUME SettingsInv, UNCHANGED settingsVars PROVE SettingsInv'
  BY <1>1 DEF settingsVars, storeVars, askVars, screenVars, SettingsInv, SettingsTypeOK, WriterInv,
              NamesInv, MergedInv
<1>2. ASSUME SettingsInv, SettingsNext PROVE SettingsInv'
  <2>1. Default \in Values BY SettingsAssumption
  <2>2. ASSUME NEW s \in Savers, Save(s) PROVE SettingsInv'
    BY <1>2, <2>1, <2>2, UserStep, SettingsAssumption
  <2>3. ASSUME NEW s \in Savers, NEW l \in Leaves, Reset(s, l) PROVE SettingsInv'
    BY <1>2, <2>1, <2>3, UserStep
  <2>4. ASSUME NEW s \in Savers, NEW v \in Values, ChooseProvider(s, v) PROVE SettingsInv'
    BY <1>2, <2>4, UserStep, SettingsAssumption
  <2>5. ASSUME NEW s \in Savers, NEW v \in Values, NEW w \in Values, ChooseModel(s, v, w) PROVE SettingsInv'
    BY <1>2, <2>5, UserStep, SettingsAssumption
  <2>6. ASSUME NEW s \in Savers, NEW v \in Values, NEW l \in Leaves, SetLeaf(s, l, v) PROVE SettingsInv'
    BY <1>2, <2>6, UserStep
  <2>7. ASSUME NEW p \in Fronts, Writes(p) PROVE SettingsInv'
    BY <1>2, <2>7, TakeStep, JobStep DEF Writes
  <2> QED BY <1>2, <2>2, <2>3, <2>4, <2>5, <2>6, <2>7, ReadStep, PublishStep, AnswerStep, KilledStep, ScreenStep
          DEF SettingsNext
<1> QED BY <1>1, <1>2

\* The inductive invariant of the store.
LEMMA SettingsInvariant == SettingsSpec => []SettingsInv
BY SettingsInitially, SettingsStep, PTL DEF SettingsSpec

\* actor.rs, connection.rs:90, settings.rs:43, SettingsEditor.tsx:205: whoever else saves and
\* whoever dies, a transaction changes the leaves its user meant, and those of its section that
\* its build does not know.
THEOREM SavesLeaveTheRest == SettingsSpec => SavesKeepTheRest
<1>1. SettingsInv /\ [SettingsNext]_settingsVars =>
        [\A l \in Leaves : rows'[l] # rows[l] =>
           \E s \in Savers : /\ stage[s] = "committing" /\ stage'[s] = "stored"
                             /\ l \in meant[s] \/ l \notin Knows[FrontOf[s]]]_settingsVars
  <2> SUFFICES ASSUME SettingsInv, SettingsNext, NEW l \in Leaves, rows'[l] # rows[l]
               PROVE  \E s \in Savers : /\ stage[s] = "committing" /\ stage'[s] = "stored"
                                        /\ l \in meant[s] \/ l \notin Knows[FrontOf[s]]
    OBVIOUS
  <2>1. PICK p \in Fronts, s \in Savers : Commit(p, s)
    BY DEF SettingsNext, Revert, OpenSettings, ServeReload, HearReload, Type, Save, ReadModelId, Publish, Answer,
           ChooseProvider, ChooseModel, SetLeaf, Reset, Writes, Killed, Hear, Take, Begin, Busy, Merge,
           RollBack, storeVars
  <2>2. merged[s].of[l] # rows[l] /\ stage'[s] = "stored"
    BY <2>1 DEF Commit, Replies, SettingsInv, SettingsTypeOK, Settings
  <2> QED BY <2>1, <2>2 DEF Commit, SettingsInv, MergedInv
<1> QED BY <1>1, SettingsInvariant, PTL DEF SettingsSpec, SavesKeepTheRest

-----------------------------------------------------------------------------
(* Back to the screens. *)

\* No commit comes or is published.
StoredStays ==
  \A s \in Savers : /\ stage[s] = "stored" => stage'[s] = "stored" /\ merged'[s] = merged[s]
                    /\ stage'[s] = "stored" => stage[s] = "stored"

\* A step that leaves the screens alone, and every unpublished commit unpublished.
LEMMA QuietShown ==
  ASSUME ShownInv, SettingsTypeOK, UNCHANGED <<feed, shown, seen, own, version>>,
         StoredStays
  PROVE  ShownInv'
<1>1. ASSUME NEW q \in Screens, Unpublished(q) PROVE Unpublished(q)'
  <2>1. PICK s \in Local(q) : stage[s] = "stored" /\ merged[s].at >= own[q]
    BY <1>1 DEF Unpublished
  <2>2. stage'[s] = "stored" /\ merged'[s].at >= own'[q]
    BY <2>1 DEF StoredStays, Local
  <2> QED BY <2>1, <2>2 DEF Unpublished, Local
<1>2. Terminal \in Screens
  BY DEF Screens
<1>3. ASSUME NEW s \in Local(Terminal), stage'[s] = "stored" PROVE merged'[s].at >= own'[Terminal]
  <2>1. stage[s] = "stored" /\ merged'[s] = merged[s]
    BY <1>3 DEF StoredStays, Local
  <2> QED BY <2>1 DEF ShownInv, OnItsWay
<1> QED BY <1>1, <1>2, <1>3 DEF ShownInv, OnItsWay

\* A commit is unpublished: its screens are owed an event, which is on its way.
LEMMA CommitShown ==
  ASSUME ShownInv, SettingsInv, NEW p \in Fronts, NEW s \in Savers, Commit(p, s)
  PROVE  ShownInv'
<1> USE DEF SettingsInv, Commit, Replies, screenVars
<1>1. FrontOf[s] = p /\ merged[s].at = version + 1 /\ version \in Nat /\ version' = version + 1
  BY AloneInTransaction DEF MergedInv, SettingsTypeOK
<1>2. Terminal \in Screens /\ own \in [Screens -> Nat] /\ stage' = [stage EXCEPT ![s] = "stored"]
  BY DEF Screens, SettingsTypeOK
<1>3. \A q \in Screens : q = p => own'[q] = version + 1 /\ Unpublished(q)'
  BY <1>1, <1>2 DEF Unpublished, Local, SettingsTypeOK
<1>4. \A q \in Screens : q # p => own'[q] = own[q] /\ (Unpublished(q) => Unpublished(q)')
  BY <1>1, <1>2 DEF Unpublished, Local, SettingsTypeOK
<1>5. ASSUME NEW q \in Screens PROVE OnItsWay(q)'
  <2> USE DEF OnItsWay
  <2>1. CASE q = p BY <2>1, <1>1, <1>3
  <2>2. CASE q # p
    <3>1. own[q] <= version /\ own[q] \in Nat BY <1>2 DEF ShownInv, OnItsWay
    <3>2. own'[q] <= version' BY <2>2, <3>1, <1>1, <1>4
    <3> QED BY <2>2, <3>2, <1>4 DEF ShownInv, OnItsWay
  <2> QED BY <2>1, <2>2
<1>6. \A t \in Local(Terminal) : stage'[t] = "stored" => merged'[t].at >= own'[Terminal]
  <2>1. CASE p = Terminal
    <3>1. \A t \in Local(Terminal) : t = s
      BY <2>1, <1>1, SettingsAssumption DEF Local
    <3> QED BY <2>1, <3>1, <1>1, <1>2, <1>3
  <2>2. CASE p # Terminal BY <2>2, <1>1, <1>2, <1>4 DEF ShownInv, OnItsWay, Local
  <2> QED BY <2>1, <2>2
<1>7. LET news == feed'[Terminal] IN
      Unpublished(Terminal)' \/ IF news = <<>> THEN shown'[Terminal].at >= own'[Terminal]
                                ELSE news[Len(news)].at >= own'[Terminal]
  <2>1. CASE p = Terminal BY <2>1, <1>2, <1>3
  <2>2. CASE p # Terminal BY <2>2, <1>2, <1>4 DEF ShownInv, OnItsWay
  <2> QED BY <2>1, <2>2
<1> QED BY <1>5, <1>6, <1>7 DEF ShownInv, OnItsWay

\* An event appended to a feed is its last, and moves none before it.
LEMMA Appended ==
  \A f \in Seq(Snapshots), e \in Snapshots :
    /\ Len(Append(f, e)) = Len(f) + 1 /\ Len(f) \in Nat /\ Append(f, e) # <<>>
    /\ Append(f, e)[Len(f) + 1] = e /\ \A i \in 1 .. Len(f) : Append(f, e)[i] = f[i]
BY AppendProperties

\* A published change stands in the event its process sends.
LEMMA PublishShown ==
  ASSUME ShownInv, SettingsInv, NEW s \in Savers, Publish(s)
  PROVE  ShownInv'
<1> USE SettingsAssumption DEF SettingsInv, Publish, askVars
<1> DEFINE p == FrontOf[s]
<1>1. Terminal \in Screens /\ merged[s] \in Snapshots
  BY DEF Screens, SettingsTypeOK
<1>2. ASSUME NEW q \in Screens, q # p PROVE feed'[q] = feed[q] /\ (Unpublished(q) => Unpublished(q)')
  BY <1>2 DEF Unpublished, Local, SettingsTypeOK
<1>3. ASSUME NEW q \in Screens, q = p
      PROVE  /\ feed'[q] = Append(feed[q], merged[s])
             /\ Unpublished(q) => Unpublished(q)' \/ merged[s].at >= own'[q]
  BY <1>3 DEF Unpublished, Local, SettingsTypeOK
<1>4. ASSUME NEW q \in Screens, q = p
      PROVE  /\ Len(feed'[q]) = Len(feed[q]) + 1 /\ Len(feed[q]) \in Nat
             /\ feed'[q][Len(feed[q]) + 1] = merged[s]
             /\ \A i \in 1 .. Len(feed[q]) : feed'[q][i] = feed[q][i]
             /\ feed'[q] # <<>>
  <2>1. feed[q] \in Seq(Snapshots) /\ feed'[q] = Append(feed[q], merged[s])
    BY <1>3, <1>4 DEF SettingsTypeOK
  <2> HIDE DEF SettingsInv, Publish
  <2>2. LET g == Append(feed[q], merged[s])
        IN  /\ Len(g) = Len(feed[q]) + 1 /\ Len(feed[q]) \in Nat /\ g # <<>>
            /\ g[Len(feed[q]) + 1] = merged[s] /\ \A i \in 1 .. Len(feed[q]) : g[i] = feed[q][i]
    BY <1>1, <2>1, Appended
  <2> QED BY <2>1, <2>2, Zenon
<1>5. ASSUME NEW q \in Screens PROVE OnItsWay(q)'
  <2> USE DEF OnItsWay
  <2>1. CASE q # p BY <2>1, <1>2 DEF ShownInv, OnItsWay
  <2>2. CASE q = p
    <3>1. own'[q] <= version' /\ seen' = seen /\ own' = own
      BY DEF ShownInv, OnItsWay
    <3>2. CASE seen[q] >= own[q] BY <3>1, <3>2
    <3>3. CASE Unpublished(q)
      <4>1. CASE Unpublished(q)' BY <3>1, <4>1
      <4>2. CASE merged[s].at >= own'[q]
        <5>1. Len(feed[q]) + 1 \in 1 .. Len(feed'[q]) /\ feed'[q][Len(feed[q]) + 1].at >= own'[q]
          BY <2>2, <1>4, <4>2
        <5> QED BY <3>1, <5>1
      <4> QED BY <2>2, <3>3, <1>3, <4>1, <4>2
    <3>4. CASE \E i \in 1 .. Len(feed[q]) : feed[q][i].at >= own[q]
      <4>1. PICK i \in 1 .. Len(feed[q]) : feed[q][i].at >= own[q] BY <3>4
      <4>2. i \in 1 .. Len(feed'[q]) /\ feed'[q][i].at >= own'[q]
        BY <2>2, <1>4, <4>1, <3>1
      <4> QED BY <3>1, <4>2
    <3> QED BY <3>2, <3>3, <3>4 DEF ShownInv, OnItsWay
  <2> QED BY <2>1, <2>2
<1>6. LET news == feed'[Terminal] IN
      Unpublished(Terminal)' \/ IF news = <<>> THEN shown'[Terminal].at >= own'[Terminal]
                                ELSE news[Len(news)].at >= own'[Terminal]
  <2>1. CASE Terminal # p BY <2>1, <1>1, <1>2 DEF ShownInv, OnItsWay
  <2>2. CASE Terminal = p
    <3>1. \A t \in Local(Terminal) : t = s
      BY <2>2 DEF Local
    <3>2. merged[s].at >= own'[Terminal]
      BY <2>2 DEF ShownInv, OnItsWay, Local
    <3>3. feed'[Terminal] # <<>> /\ feed'[Terminal][Len(feed'[Terminal])] = merged[s]
      <4>1. Len(feed'[Terminal]) = Len(feed[Terminal]) + 1 /\ Len(feed[Terminal]) \in Nat
        BY <2>2, <1>1, <1>4
      <4>2. feed'[Terminal] # <<>> BY <2>2, <1>1, <1>4
      <4>3. feed'[Terminal][Len(feed'[Terminal])] = merged[s] BY <2>2, <1>1, <1>4, <4>1
      <4> QED BY <4>2, <4>3
    <3> QED BY <3>2, <3>3
  <2> QED BY <2>1, <2>2
<1>7. \A t \in Local(Terminal) : stage'[t] = "stored" => merged'[t].at >= own'[Terminal]
  BY DEF ShownInv, OnItsWay, Local, SettingsTypeOK
<1> QED BY <1>5, <1>6, <1>7 DEF ShownInv, OnItsWay

\* The window draws what is not an event: a re-read, or the answer to its form.
LEMMA WindowDrawsShown ==
  ASSUME ShownInv, SettingsTypeOK, NEW snapshot \in Snapshots, Draws(Window, snapshot),
         UNCHANGED <<feed, own, version>>,
         StoredStays
  PROVE  ShownInv'
<1> USE SettingsAssumption
<1>1. ASSUME NEW q \in Screens, Unpublished(q) PROVE Unpublished(q)'
  <2>1. PICK s \in Local(q) : stage[s] = "stored" /\ merged[s].at >= own[q]
    BY <1>1 DEF Unpublished
  <2>2. stage'[s] = "stored" /\ merged'[s].at >= own'[q]
    BY <2>1 DEF StoredStays, Local
  <2> QED BY <2>1, <2>2 DEF Unpublished, Local
<1>2. Terminal \in Screens /\ Window \in Screens /\ shown'[Terminal] = shown[Terminal]
  BY DEF Screens, Draws, SettingsTypeOK
<1>3. ASSUME NEW s \in Local(Terminal), stage'[s] = "stored" PROVE merged'[s].at >= own'[Terminal]
  <2>1. stage[s] = "stored" /\ merged'[s] = merged[s]
    BY <1>3 DEF StoredStays, Local
  <2> QED BY <2>1 DEF ShownInv, OnItsWay
<1>4. \A q \in Screens : seen'[q] >= seen[q] /\ seen[q] \in Nat /\ seen'[q] \in Nat /\ own[q] \in Nat
  BY DEF Draws, SettingsTypeOK, Snapshots
<1>5. \A q \in Screens : seen[q] >= own[q] => seen'[q] >= own'[q]
  BY <1>4
<1> QED BY <1>1, <1>2, <1>3, <1>5 DEF ShownInv, OnItsWay

\* A screen that hears an event draws what that event carries or something later.
LEMMA HearShown ==
  ASSUME ShownInv, SettingsInv, NEW q \in Screens, Hear(q)
  PROVE  ShownInv'
<1> USE SettingsAssumption DEF SettingsInv, Hear, storeVars, askVars
<1>1. Terminal \in Screens /\ Head(feed[q]) \in Snapshots /\ feed[q] \in Seq(Snapshots)
  BY DEF Screens, SettingsTypeOK
<1>2. /\ \A r \in Screens \ {q} : seen'[r] = seen[r] /\ feed'[r] = feed[r] /\ shown'[r] = shown[r]
      /\ feed'[q] = Tail(feed[q]) /\ shown'[q] = Head(feed[q])
      /\ seen'[q] >= seen[q] /\ seen'[q] >= Head(feed[q]).at /\ seen'[q] \in Nat /\ seen[q] \in Nat
  <2>1. Head(feed[q]).at \in Nat BY <1>1 DEF Snapshots
  <2>2. seen' = [seen EXCEPT ![q] = IF Head(feed[q]).at > @ THEN Head(feed[q]).at ELSE @]
    BY DEF Draws
  <2>3. seen'[q] >= seen[q] /\ seen'[q] >= Head(feed[q]).at /\ seen'[q] \in Nat /\ seen[q] \in Nat
    BY <2>1, <2>2 DEF SettingsTypeOK
  <2> QED BY <2>2, <2>3 DEF Draws, SettingsTypeOK
<1>3. /\ Len(feed[q]) \in Nat \ {0} /\ Head(feed[q]) = feed[q][1] /\ Len(Tail(feed[q])) = Len(feed[q]) - 1
      /\ \A i \in 2 .. Len(feed[q]) : Tail(feed[q])[i - 1] = feed[q][i]
  BY <1>1
<1>4. \A r \in Screens : Unpublished(r) => Unpublished(r)'
  BY DEF Unpublished
<1>5. ASSUME NEW r \in Screens PROVE OnItsWay(r)'
  <2> USE DEF OnItsWay
  <2>0. own' = own /\ version' = version /\ own[r] <= version /\ own[r] \in Nat
    BY DEF ShownInv, OnItsWay, SettingsTypeOK
  <2>1. CASE r # q BY <2>0, <2>1, <1>2, <1>4 DEF ShownInv, OnItsWay
  <2>2. CASE r = q
    <3>1. CASE seen[q] >= own[q] BY <2>0, <2>2, <3>1, <1>2
    <3>2. CASE Unpublished(q) BY <2>0, <2>2, <3>2, <1>4
    <3>3. CASE \E i \in 1 .. Len(feed[q]) : feed[q][i].at >= own[q]
      <4>1. PICK i \in 1 .. Len(feed[q]) : feed[q][i].at >= own[q] BY <3>3
      <4>2. feed[q][i].at \in Nat
        <5>1. feed[q][i] \in Snapshots BY <1>1, <4>1, ElementOfSeq
        <5> QED BY <5>1 DEF Snapshots
      <4>3. CASE i = 1 BY <2>0, <2>2, <4>1, <4>2, <4>3, <1>2, <1>3
      <4>4. CASE i # 1
        <5>1. i \in 2 .. Len(feed[q]) /\ i - 1 \in 1 .. Len(feed'[q]) BY <4>1, <4>4, <1>2, <1>3
        <5>2. feed'[q][i - 1].at >= own'[q] BY <5>1, <4>1, <1>2, <1>3, <2>0, <2>2
        <5> QED BY <2>0, <2>2, <5>1, <5>2
      <4> QED BY <4>3, <4>4
    <3> QED BY <2>2, <3>1, <3>2, <3>3 DEF ShownInv, OnItsWay
  <2> QED BY <2>1, <2>2
<1>6. LET news == feed'[Terminal] IN
      Unpublished(Terminal)' \/ IF news = <<>> THEN shown'[Terminal].at >= own'[Terminal]
                                ELSE news[Len(news)].at >= own'[Terminal]
  <2>1. CASE Terminal # q BY <2>1, <1>1, <1>2, <1>4 DEF ShownInv, OnItsWay
  <2>2. CASE Terminal = q
    <3>1. CASE Unpublished(Terminal) BY <3>1, <1>1, <1>4
    <3>2. CASE feed[q][Len(feed[q])].at >= own[q]
      <4>1. CASE Len(feed[q]) = 1
        <5>1. feed'[q] = <<>>
          <6>1. Tail(feed[q]) \in Seq(Snapshots) /\ Len(Tail(feed[q])) = 0 BY <1>1, <1>3, <4>1
          <6> QED BY <6>1, <1>2, EmptySeq
        <5> QED BY <2>2, <3>2, <4>1, <5>1, <1>2, <1>3
      <4>2. CASE Len(feed[q]) # 1
        <5>0. Len(feed[q]) \in 2 .. Len(feed[q])
          <6>1. \A n \in Nat \ {0} : n # 1 => n \in 2 .. n OBVIOUS
          <6> QED BY <6>1, <1>3, <4>2
        <5>1. Tail(feed[q])[Len(feed[q]) - 1] = feed[q][Len(feed[q])] BY <5>0, <1>3
        <5>2. Tail(feed[q]) # <<>>
          <6>1. Tail(feed[q]) \in Seq(Snapshots) /\ Len(Tail(feed[q])) # 0 BY <1>1, <1>3, <4>2
          <6> QED BY <6>1, EmptySeq
        <5> QED BY <2>2, <3>2, <5>1, <5>2, <1>2, <1>3
      <4> QED BY <4>1, <4>2
    <3> QED BY <2>2, <3>1, <3>2 DEF ShownInv, OnItsWay
  <2> QED BY <2>1, <2>2
<1>7. \A s \in Local(Terminal) : stage'[s] = "stored" => merged'[s].at >= own'[Terminal]
  BY DEF ShownInv, OnItsWay, Local
<1> QED BY <1>5, <1>6, <1>7 DEF ShownInv, OnItsWay

\* A dead process owes its screens nothing.
LEMMA KilledShown ==
  ASSUME ShownInv, SettingsInv, NEW p \in Fronts, Killed(p)
  PROVE  ShownInv'
<1> USE SettingsAssumption DEF SettingsInv, Killed, Forgets
<1>1. Terminal \in Screens /\ version \in Nat /\ own' = own /\ version' = version
  BY DEF Screens, SettingsTypeOK
<1>2. ASSUME NEW q \in Screens, q # p PROVE Unpublished(q) => Unpublished(q)'
  BY <1>2 DEF Unpublished, Local
<1>3. \A q \in Screens : q = p => seen'[q] = version /\ shown'[q].at = version /\ feed'[q] = <<>>
  BY DEF SettingsTypeOK, Now
<1>4. \A q \in Screens : q # p => seen'[q] = seen[q] /\ shown'[q] = shown[q] /\ feed'[q] = feed[q]
  BY DEF SettingsTypeOK
<1>5. \A s \in Local(Terminal) : stage'[s] = "stored" => merged'[s].at >= own'[Terminal]
  BY DEF ShownInv, OnItsWay, Local
<1>6. \A q \in Screens : q = p => seen'[q] >= own'[q] /\ shown'[q].at >= own'[q]
  <2>1. \A q \in Screens : own[q] <= version /\ own[q] \in Nat BY DEF ShownInv, OnItsWay, SettingsTypeOK
  <2> QED BY <2>1, <1>1, <1>3
<1>7. CASE p = Terminal BY <1>1, <1>2, <1>3, <1>4, <1>5, <1>6, <1>7 DEF ShownInv, OnItsWay
<1>8. CASE p # Terminal BY <1>1, <1>2, <1>4, <1>5, <1>6, <1>8 DEF ShownInv, OnItsWay
<1> QED BY <1>7, <1>8

\* Every step keeps the promise to the screens: one case per action.
LEMMA ShownStep == ShownInv /\ SettingsInv /\ [SettingsNext]_settingsVars => ShownInv'
<1> SUFFICES ASSUME ShownInv, SettingsInv, [SettingsNext]_settingsVars PROVE ShownInv' OBVIOUS
<1> USE SettingsAssumption
<1>0. SettingsTypeOK /\ Window \in Screens BY DEF SettingsInv, Screens
<1>1. CASE UNCHANGED settingsVars \/ Revert \/ OpenSettings \/ ServeReload \/ \E l \in Leaves, v \in Values : Type(l, v)
  BY <1>0, <1>1, QuietShown
  DEF settingsVars, storeVars, askVars, screenVars, Revert, OpenSettings, ServeReload, Type, StoredStays
<1>2. ASSUME NEW s \in Savers, NEW v \in Values, NEW w \in Values, NEW l \in Leaves,
             Save(s) \/ ReadModelId(s) \/ ChooseProvider(s, v) \/ ChooseModel(s, v, w) \/ SetLeaf(s, l, v)
               \/ Reset(s, l)
      PROVE  ShownInv'
  <2>1. /\ UNCHANGED <<feed, shown, seen, own, version, merged>> /\ stage[s] \in {"idle", "reading"}
        /\ \E to \in {"reading", "queued"} : stage' = [stage EXCEPT ![s] = to]
    BY <1>2 DEF Save, ReadModelId, ChooseProvider, ChooseModel, SetLeaf, Reset, Asks, screenVars
  <2>2. StoredStays
    BY <2>1, <1>0 DEF SettingsTypeOK, StoredStays
  <2>3. UNCHANGED <<feed, shown, seen, own, version>>
    BY <2>1
  <2> QED BY <1>0, <2>2, <2>3, QuietShown
<1>3. ASSUME NEW p \in Fronts, NEW s \in Savers,
             Take(p) \/ Begin(p, s) \/ Busy(p, s) \/ Merge(p, s) \/ RollBack(p, s)
      PROVE  ShownInv'
  <2>1. UNCHANGED <<feed, shown, seen, own, version>>
    BY <1>3 DEF Take, Begin, Busy, Merge, RollBack, Replies, screenVars
  <2>2. StoredStays
    BY <1>0, <1>3 DEF Take, Begin, Busy, Merge, RollBack, Replies, InTransaction, SettingsTypeOK, StoredStays
  <2> QED BY <1>0, <2>1, <2>2, QuietShown
<1>4. ASSUME NEW s \in Savers, Answer(s) PROVE ShownInv'
  <2>1. StoredStays
    BY <1>0, <1>4 DEF Answer, Forgets, SettingsTypeOK, StoredStays
  <2>2. UNCHANGED <<feed, own, version>>
    BY <1>4 DEF Answer
  <2>3. CASE Draws(Window, merged[s])
    <3>1. merged[s] \in Snapshots BY <1>0 DEF SettingsTypeOK
    <3> QED BY <1>0, <2>1, <2>2, <2>3, <3>1, WindowDrawsShown
  <2>4. CASE UNCHANGED <<shown, seen>>
    <3>1. UNCHANGED <<feed, shown, seen, own, version>> BY <2>2, <2>4
    <3> QED BY <1>0, <2>1, <3>1, QuietShown
  <2> QED BY <1>4, <2>3, <2>4 DEF Answer
<1>5. CASE HearReload
  BY <1>0, <1>5, WindowDrawsShown DEF HearReload, storeVars, SettingsTypeOK, StoredStays
<1>6. Default \in Values OBVIOUS
<1>7. ModelId \in Leaves OBVIOUS
<1> QED
  BY <1>1, <1>2, <1>3, <1>4, <1>5, <1>6, <1>7, CommitShown, PublishShown, HearShown, KilledShown
  DEF SettingsNext, Writes

\* At first nobody has changed anything.
LEMMA ShownInitially == SettingsInit => ShownInv
BY SettingsAssumption DEF SettingsInit, ShownInv, OnItsWay, First, Screens, Local

\* A screen at rest waits for no event, and its process for no commit.
LEMMA ShownIsEnough == ShownInv /\ SettingsInv => SavesAreShown
<1> SUFFICES ASSUME ShownInv, SettingsInv, NEW q \in Screens, Resting(q)
             PROVE  seen[q] >= own[q] /\ (q = Terminal => shown[q].at >= own[q])
  BY DEF SavesAreShown
<1>1. ~Unpublished(q) /\ feed[q] = <<>>
  BY DEF Resting, Unpublished, Local
<1>2. Len(feed[q]) = 0
  BY <1>1
<1> QED BY <1>1, <1>2 DEF ShownInv, OnItsWay

\* runtime.rs:973, store.ts:459, run.rs:2067: whoever else saves and whoever dies, a screen at rest
\* has drawn its process's last change, and the terminal still draws it or a later one.
THEOREM ScreensComeToTheirSaves == SettingsSpec => []SavesAreShown
BY ShownInitially, ShownIsEnough, ShownStep, SettingsInvariant, PTL DEF SettingsSpec

-----------------------------------------------------------------------------
(* The machine: the four side by side. *)

MachineInv == LeaseInv /\ ChromeTypeOK /\ HeartbeatInv /\ SettingsInv /\ ShownInv

\* A step of one part is a step of it, whatever the behaviour is about, and none of the others.
LEMMA PartsStep ==
  [MachineNext]_machineVars =>
    /\ [Next]_leaseVars /\ [ChromeNext]_chromeVars
    /\ [HeartbeatNext]_heartVars /\ [SettingsNext]_settingsVars
BY DEF MachineNext, Screen, Browser, Clocks, Saves, machineVars

\* No part disturbs another: each keeps its own invariant.
LEMMA MachineStep == MachineInv /\ [MachineNext]_machineVars => MachineInv'
BY PartsStep, LeaseInvStep, ChromeTyped, HeartbeatStep, SettingsStep, ShownStep DEF MachineInv

\* The types of the lock, the roster, the lease, the clocks and the settings; and what the run
\* checks of each, of the programs of one install together.
THEOREM MachineIsSafe ==
  MachineSpec => [](/\ MachineTypeOK /\ RecordNamesTheOwner /\ HeartbeatsTakeTurns
                    /\ ScheduledUnlessOvertaken /\ SavesAreShown)
<1>1. MachineInit => MachineInv
  BY LeaseInitOK, LeaseInitially, InitInv, SettingsInitially, ShownInitially DEF MachineInit, MachineInv, ClaimInv
<1>2. MachineInv => MachineTypeOK
  BY DEF MachineInv, LeaseInv, HeartbeatInv, SettingsInv, MachineTypeOK
<1>3. MachineInv => RecordNamesTheOwner
  BY DEF MachineInv, LeaseInv, RecordInv, RecordNamesTheOwner
<1>4. MachineInv => HeartbeatsTakeTurns /\ ScheduledUnlessOvertaken
  BY DEF MachineInv, HeartbeatInv, LockInv, OneHeartbeat, HeartbeatsTakeTurns
<1>5. MachineInv => SavesAreShown
  BY ShownIsEnough DEF MachineInv
<1> QED BY <1>1, <1>2, <1>3, <1>4, <1>5, MachineStep, PTL DEF MachineSpec

\* What a step of one program may never do to another holds of them all: the screen stays
\* exclusive, a claim that lasts is taken by nobody, a transaction changes what its user meant.
THEOREM MachineKeepsItsPromises ==
  BeatsInTime /\ MachineSpec => KeepsThePromise /\ ClaimsAreKept /\ SavesKeepTheRest
<1>1. MachineSpec => Spec /\ ChromeInit /\ [][ChromeNext]_chromeVars /\ SettingsSpec
  <2>1. MachineInit => Init /\ ChromeInit /\ SettingsInit
    BY DEF MachineInit
  <2> QED BY <2>1, PartsStep, PTL DEF MachineSpec, Spec, SettingsSpec
<1> QED BY <1>1, ScreenImplementsExclusion, LeaseIsKept, SavesLeaveTheRest
=============================================================================
