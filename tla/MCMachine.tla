----------------------------- MODULE MCMachine -----------------------------
(***************************************************************************)
(* What the programs of one install share, one part at a time: the screen, *)
(* the managed browser's lease, the projects' clocks and the settings.     *)
(*                                                                         *)
(* The screen: in the terminal a suite and a case it starts under another  *)
(* run id, and work of the suite's own run; in the desktop app one         *)
(* unrelated run.  The browser: a terminal that may be late, one that      *)
(* never is, and a command that does not beat at all; the first has two    *)
(* browsing runs.  A lease of two ticks, a row stale after three, a beat   *)
(* due every tick: 30 s, 90 s and the frame loop's beat in the same order. *)
(* The clocks: two programs, one project (the slot is one for all).        *)
(* The settings: two sections, one with two keys of which one has two      *)
(* leaves; a shell of an older build that does not know the other.  A      *)
(* behaviour has a cast: the form beside a shell, the picker beside a      *)
(* shell and beside a re-read, the terminal beside a shell with kills.     *)
(***************************************************************************)
EXTENDS ScreenLease, ChromeLease, Heartbeats, SettingsStore

CONSTANTS
  tui, desktop, suite, step, case, work, r1, r2, r3,    \* the screen
  terminal, other, command, chat, eval, elsewhere, nav, \* the browser
  window, shell, saving, picker, row, cli,                \* the settings
  provider, id, effort, listening, inference, models, listener

ScreenHomes == [t \in {suite, step, case, work} |-> IF t = work THEN desktop ELSE tui]
ScreenRuns  ==
  [t \in {suite, step, case, work} |-> IF t \in {suite, step} THEN r1 ELSE IF t = case THEN r2 ELSE r3]

BrowserHomes == [b \in {chat, eval, elsewhere, nav} |->
                   CASE b = elsewhere -> other [] b = nav -> command [] OTHER -> terminal]

SaverHomes == [s \in {saving, picker, row, cli} |->
                 CASE s = row -> terminal [] s = cli -> shell [] OTHER -> window]
LeafSections == [l \in {provider, id, effort, listening} |-> IF l = listening THEN listener ELSE models]
LeafKeys == [l \in {provider, id, effort, listening} |-> IF l \in {provider, id} THEN inference ELSE l]
Builds == [p \in {window, terminal, shell} |->
             {provider, id, listening} \cup IF p = shell THEN {} ELSE {effort}]

VARIABLE shared   \* the one this behaviour is about

machineVars == <<leaseVars, chromeVars, heartVars, settingsVars, shared>>

MachineInit ==
  /\ Init /\ ChromeInit /\ HeartbeatInit /\ SettingsInit
  /\ shared \in {"screen", "browser", "clocks", "forms", "pickers", "rereads", "kills"}

Screen(action)  == shared = "screen" /\ action /\ UNCHANGED <<chromeVars, heartVars, settingsVars, shared>>
Browser(action) == shared = "browser" /\ action /\ UNCHANGED <<leaseVars, heartVars, settingsVars, shared>>
Clocks(action)  == shared = "clocks" /\ action /\ UNCHANGED <<leaseVars, chromeVars, settingsVars, shared>>

Cast == CASE shared = "forms" -> {saving, cli} [] shared = "pickers" -> {picker, cli}
          [] shared = "rereads" -> {picker} [] OTHER -> {row, cli}
Saves(action) ==
  /\ shared \notin {"screen", "browser", "clocks"} /\ action
  /\ \A s \in Savers \ Cast : stage'[s] = "idle"
  /\ shared = "rereads" \/ reload' = "none"
  /\ shared = "kills" \/ kills' = 0
  /\ form' \in {form, NoChange} \/ (shared = "forms" /\ asks < MaxAsks)   \* else nobody types
  /\ UNCHANGED <<leaseVars, chromeVars, heartVars, shared>>

MachineNext == Screen(Next) \/ Browser(ChromeNext) \/ Clocks(HeartbeatNext) \/ Saves(SettingsNext)

MachineSpec ==
  /\ MachineInit /\ [][MachineNext]_machineVars
  /\ \A p \in Procs : WF_machineVars(Screen(Inside(p))) /\ WF_machineVars(Screen(EndProbe(p)))
  /\ \A t \in Tasks : WF_machineVars(Screen(Release(t)))
  /\ WF_machineVars(Browser(Tick))
  /\ \A p \in Programs : WF_machineVars(Browser(Beat(p)))
  /\ \A p \in Fronts : WF_machineVars(shared = "kills" /\ Saves(Writes(p)))

\* The types of the lock, the roster, the lease, the clocks and the settings.
MachineTypeOK == LeaseTypeOK /\ ChromeTypeOK /\ HeartbeatTypeOK /\ SettingsTypeOK

\* What is taken is given back in the end, by a process that lives and for one that was killed:
\* the screen's lock, the managed browser's lease, the settings' transactions.
HoldsComeToAnEnd ==
  /\ LockIsNotLeaked /\ DeadHolderIsReplaceable
  /\ \A s \in {row, cli} : shared = "kills" /\ Awaits(s) ~> ~Awaits(s)
=============================================================================
