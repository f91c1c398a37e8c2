---------------------------- MODULE BrowserRuns ----------------------------
(***************************************************************************)
(* Browsing runs on the managed profile: browse and cap_owned_tabs         *)
(* (crates/neo-agent/src/agent/tools.rs) over Browser::attach_or_launch    *)
(* (crates/neo-cdp).  A run joins the Chrome that its profile's port file  *)
(* names or launches one, works in a tab of its own or in a pop-up of it,  *)
(* and leaves the tab open and on the ledger.                              *)
(*                                                                         *)
(* The profile's lease is one per process (ChromeLease), as long as its    *)
(* processes renew it.  Chrome itself is external: a second one on a       *)
(* profile gives way to the first.                                         *)
(***************************************************************************)
EXTENDS Integers, Sequences, SequencesExt

CONSTANTS
  Browsers, ProcessOf,   \* browsing runs, and the process of each
  NoProcess,
  Cap,                   \* OWNED_TABS
  MaxTabs                \* bound: tabs ever opened

ASSUME BrowserAssumption ==
  /\ NoProcess \notin {ProcessOf[b] : b \in Browsers}
  /\ Cap \in Nat \ {0} /\ MaxTabs \in Nat

VARIABLES
  chrome,     \* the Chrome of this profile
  portFile,   \* DevToolsActivePort
  tabs,       \* open tabs that runs opened
  opened,     \* tabs opened so far: they are numbered
  lessee,     \* the process that holds the lease
  ledger,     \* TAB_LEDGER
  stage,      \* per run: where it is
  linked,     \* runs whose connection's Chrome still runs
  page,       \* per run: the tab it works in, 0 before it has one
  known,      \* per run: the ledger as it read it
  forgotten   \* history: tabs no ledger will hold again

chromiumVars == <<chrome, portFile, tabs, opened>>
browserVars == <<chromiumVars, lessee, ledger, stage, linked, page, known, forgotten>>

Stages == {"idle", "attach", "clear", "spawn", "endpoint", "tab", "load", "drive", "ledger", "close",
           "save", "leave", "over"}

BrowserTypeOK ==
  /\ chrome \in {"off", "starting", "up"} /\ portFile \in {"none", "live", "dead"}
  /\ tabs \cup forgotten \subseteq 1..MaxTabs /\ opened \in 0..MaxTabs
  /\ lessee \in {NoProcess} \cup {ProcessOf[b] : b \in Browsers}
  /\ stage \in [Browsers -> Stages] /\ linked \subseteq Browsers
  /\ \A b \in Browsers : page[b] \in 0..opened /\ Len(known[b]) <= Cap

BrowserInit ==
  /\ chrome = "off" /\ portFile \in {"none", "dead"} /\ tabs = {} /\ opened = 0
  /\ lessee = NoProcess /\ ledger = <<>> /\ forgotten = {}
  /\ stage = [b \in Browsers |-> "idle"] /\ known = [b \in Browsers |-> <<>>]
  /\ linked = {} /\ page = [b \in Browsers |-> 0]

-----------------------------------------------------------------------------

Goes(b, from, to) == stage[b] = from /\ stage' = [stage EXCEPT ![b] = to]

\* Runtime::hold: the holder is the process, which may ask again.
Hire(b) ==
  /\ lessee \in {NoProcess, ProcessOf[b]} /\ Goes(b, "idle", "attach")
  /\ lessee' = ProcessOf[b]
  /\ UNCHANGED <<chromiumVars, ledger, linked, page, known, forgotten>>

Connect(b, from) == Goes(b, from, "tab") /\ linked' = linked \cup {b}

\* read_endpoint and connect: a file a crash left behind fails to connect.
Attach(b) ==
  /\ IF portFile = "live" THEN Connect(b, "attach") ELSE Goes(b, "attach", "clear") /\ UNCHANGED linked
  /\ UNCHANGED <<chromiumVars, lessee, ledger, page, known, forgotten>>

\* launch: the port file is removed, then Chrome is spawned.
ClearPort(b) ==
  /\ Goes(b, "clear", "spawn") /\ portFile' = "none"
  /\ UNCHANGED <<chrome, tabs, opened, lessee, ledger, linked, page, known, forgotten>>

SpawnChrome(b) ==
  /\ Goes(b, "spawn", "endpoint") /\ chrome' = IF chrome = "off" THEN "starting" ELSE chrome
  /\ UNCHANGED <<portFile, tabs, opened, lessee, ledger, linked, page, known, forgotten>>

\* wait_for_endpoint, and connect.
Endpoint(b) ==
  /\ portFile # "none"
  /\ IF portFile = "live" THEN Connect(b, "endpoint") ELSE Goes(b, "endpoint", "leave") /\ UNCHANGED linked
  /\ UNCHANGED <<chromiumVars, lessee, ledger, page, known, forgotten>>

\* new_page: a tab this run owns.
OpenTab(b) ==
  /\ b \in linked /\ opened < MaxTabs /\ Goes(b, "tab", "load")
  /\ opened' = opened + 1 /\ tabs' = tabs \cup {opened'}
  /\ page' = [page EXCEPT ![b] = opened']
  /\ UNCHANGED <<chrome, portFile, lessee, ledger, linked, known, forgotten>>

Load(b) ==
  /\ Goes(b, "load", "drive")
  /\ UNCHANGED <<chromiumVars, lessee, ledger, linked, page, known, forgotten>>

\* Chrome did not start in time, or a call failed before there was a page to
\* drive: nobody has heard of the tab.
FailEarly(b) ==
  /\ stage[b] \in {"endpoint", "tab", "load"} /\ Goes(b, stage[b], "leave")
  /\ forgotten' = forgotten \cup ({page[b]} \ {0})
  /\ UNCHANGED <<chromiumVars, lessee, ledger, linked, page, known>>

\* CdpObserver::observe after a click: a pop-up of the tab becomes the page.
Adopt(b) ==
  /\ stage[b] = "drive" /\ b \in linked /\ opened < MaxTabs
  /\ opened' = opened + 1 /\ tabs' = tabs \cup {opened'}
  /\ forgotten' = forgotten \cup {page[b]} /\ page' = [page EXCEPT ![b] = opened']
  /\ UNCHANGED <<chrome, portFile, lessee, ledger, stage, linked, known>>

\* drive_with_cards has come to an end, or was cancelled.
EndDrive(b) ==
  /\ Goes(b, "drive", "ledger")
  /\ UNCHANGED <<chromiumVars, lessee, ledger, linked, page, known, forgotten>>

-----------------------------------------------------------------------------
(* cap_owned_tabs *)

\* Mutant of Keep: the newest are closed.
KeepMutant(b) == LET all == Append(RemoveFirst(known[b], page[b]), page[b])
                 IN  SubSeq(all, 1, IF Len(all) < Cap THEN Len(all) ELSE Cap)

\* capped: the page goes last, and the oldest over the cap go.  retain takes every
\* occurrence of the page; a ledger that only this wrote has one at most.
Keep(b) == LET all == Append(RemoveFirst(known[b], page[b]), page[b])
           IN  SubSeq(all, IF Len(all) > Cap THEN Len(all) - Cap + 1 ELSE 1, Len(all))
Over(b) == ToSet(known[b]) \ ToSet(Keep(b))

\* A ledger that cannot be read is taken for an empty one.
ReadLedger(b) ==
  /\ Goes(b, "ledger", "close")
  /\ \/ known' = [known EXCEPT ![b] = ledger] /\ UNCHANGED forgotten
     \/ known' = [known EXCEPT ![b] = <<>>] /\ forgotten' = forgotten \cup ToSet(ledger)
  /\ UNCHANGED <<chromiumVars, lessee, ledger, linked, page>>

\* A tab that could not be closed, of a Chrome that is gone or does not answer,
\* goes off the ledger all the same.
CloseTabs(b) ==
  /\ Goes(b, "close", "save")
  /\ \E shut \in SUBSET (IF b \in linked THEN Over(b) ELSE {}) :
       /\ tabs' = tabs \ shut
       /\ forgotten' = forgotten \cup (Over(b) \ shut)
  /\ UNCHANGED <<chrome, portFile, opened, lessee, ledger, linked, page, known>>

SaveLedger(b) ==
  /\ Goes(b, "save", "leave") /\ ledger' = Keep(b)
  /\ UNCHANGED <<chromiumVars, lessee, linked, page, known, forgotten>>

SaveFails(b) ==
  /\ Goes(b, "save", "leave") /\ forgotten' = forgotten \cup {page[b]}
  /\ UNCHANGED <<chromiumVars, lessee, ledger, linked, page, known>>

\* LeaseGuard::drop gives up the process's claim, whoever else of it browses.
GoAway(b) == lessee' = IF lessee = ProcessOf[b] THEN NoProcess ELSE lessee

Return(b) ==
  /\ Goes(b, "leave", "over") /\ GoAway(b)
  /\ UNCHANGED <<chromiumVars, ledger, linked, page, known, forgotten>>

\* The turn is stopped and the run's future dropped at an await.  A Chrome it has
\* just spawned is kept (keep_alive).
Abandon(b) ==
  /\ stage[b] \in {"attach", "endpoint", "tab", "load", "drive", "ledger", "close"} /\ Goes(b, stage[b], "over") /\ GoAway(b)
  /\ forgotten' = forgotten \cup ({page[b]} \ {0})
  /\ UNCHANGED <<chromiumVars, ledger, linked, page, known>>

-----------------------------------------------------------------------------
(* Chrome, and the person at it *)

Publish ==
  /\ chrome = "starting" /\ chrome' = "up" /\ portFile' = "live"
  /\ UNCHANGED <<tabs, opened, lessee, ledger, stage, linked, page, known, forgotten>>

\* It quits and removes its port file, or crashes and leaves it.
Quit ==
  /\ chrome = "up" /\ chrome' = "off" /\ tabs' = {} /\ linked' = {}
  /\ portFile' \in {"none", IF portFile = "live" THEN "dead" ELSE portFile}
  /\ UNCHANGED <<opened, lessee, ledger, stage, page, known, forgotten>>

CloseByHand ==
  /\ \E t \in tabs : tabs' = tabs \ {t}
  /\ UNCHANGED <<chrome, portFile, opened, lessee, ledger, stage, linked, page, known, forgotten>>

Browse(b) ==
  \/ Hire(b) \/ Attach(b) \/ ClearPort(b) \/ SpawnChrome(b) \/ Endpoint(b) \/ OpenTab(b) \/ Load(b)
  \/ FailEarly(b) \/ Adopt(b) \/ EndDrive(b)
  \/ ReadLedger(b) \/ CloseTabs(b) \/ SaveLedger(b) \/ SaveFails(b) \/ Return(b) \/ Abandon(b)

BrowserNext == (\E b \in Browsers : Browse(b)) \/ Publish \/ Quit \/ CloseByHand

BrowserSpec == BrowserInit /\ [][BrowserNext]_browserVars

-----------------------------------------------------------------------------

\* "owned tabs are capped at 8, oldest closed first" (plans/10-navigator.md:275), of
\* the runs of separate processes: an open tab is on the ledger, or a run works in
\* it, or it was forgotten at one of the points that forget one.
InHand == {page[b] : b \in {x \in Browsers : stage[x] # "over"}}
TabsAreAccounted == tabs \ forgotten \subseteq ToSet(ledger) \cup InHand /\ Len(ledger) <= Cap

\* neo-cdp/src/lib.rs: "Chrome publishes the endpoint in PORT_FILE and removes it
\* on a clean exit".  A Chrome that is up can be found by the next run.
FoundAgain == chrome = "up" => portFile = "live"
=============================================================================
