--------------------------- MODULE WindowControl ---------------------------
(***************************************************************************)
(* The desktop window's two modes and who changes them: requests over the  *)
(* control socket (src-tauri/src/mode_control.rs), the webview's queue of  *)
(* them (changeMode in ui/src/App.tsx), the transition with its rollback   *)
(* (ui/src/bridge/window.ts) and the compositor's own copy of the full     *)
(* window (src-tauri/src/window_mode.rs).                                  *)
(*                                                                         *)
(* A transition is a row of window-manager calls any of which may fail:    *)
(* the row is one step, and a failed row leaves the window as it was,      *)
(* between the modes, or already there.  The webview may be reloaded: it   *)
(* forgets what it knew, the window and the native side do not.            *)
(***************************************************************************)
EXTENDS Naturals, Sequences, FiniteSets

CONSTANTS
  Requests,    \* calls of ModeControl::request
  MaxPending,  \* MAX_PENDING
  MaxQueue,    \* bound: changes waiting in the webview
  MaxFaults    \* bound: window-manager rows that fail

ASSUME ModeAssumption == {MaxPending, MaxQueue, MaxFaults} \subseteq Nat

VARIABLES
  asked,       \* per request: its WindowAction
  waiter,      \* per request: what its caller waits for or got
  slots,     \* Requests.pending
  open,        \* the main window exists
  page,        \* the webview's listener is installed
  changes,     \* App: the changes not yet done, the running one first
  stage,       \* window.ts: the row the running transition is at
  acks,        \* complete_window_mode calls on their way
  currentMode, \* App.currentMode
  miniActive,  \* window.ts miniActive
  fullState,   \* window.ts fullState: the mode the saved bounds are of, or "none"
  snapshot,    \* window_mode.rs snapshot: likewise
  compositor,  \* the window is under Hyprland
  geometry,    \* the window itself
  faults, broken, reloaded   \* the faults so far; history: a rollback failed, a reload

controlVars == <<asked, waiter, slots, open>>
viewVars    == <<currentMode, miniActive, fullState>>
modeVars  == <<controlVars, viewVars, page, changes, stage, acks, snapshot, compositor,
                 geometry, faults, broken, reloaded>>

Modes    == {"mini", "full"}
Actions  == Modes \cup {"toggle", "status"}
Stages   == {"idle", "capture", "enter", "rollback", "forget", "restore", "clear", "reenter"}
Outcomes == {"unsent", "waiting", "answered", "refused"}   \* every refusal is one

\* The types of the requests, the webview's queue and the window.
ModeTypeOK ==
  /\ asked \in [Requests -> Actions] /\ waiter \in [Requests -> Outcomes]
  /\ slots \subseteq Requests /\ {open, page, compositor, miniActive, broken, reloaded} \subseteq BOOLEAN
  /\ changes \in Seq([by : Requests \cup {"user"}, to : Actions])
  /\ stage \in Stages /\ currentMode \in Modes
  /\ acks \subseteq [by : Requests, mode : Modes, ok : BOOLEAN]
  /\ {fullState, snapshot} \subseteq {"none", "mini", "full", "mixed"}
  /\ geometry \in {"mini", "full", "mixed"} /\ faults \in 0..MaxFaults

ModeInit ==
  /\ asked = [r \in Requests |-> "status"] /\ waiter = [r \in Requests |-> "unsent"]
  /\ slots = {} /\ open = TRUE /\ page = FALSE /\ changes = <<>>
  /\ stage = "idle" /\ acks = {}
  /\ currentMode = "full" /\ miniActive = FALSE /\ fullState = "none" /\ snapshot = "none"
  /\ compositor \in BOOLEAN /\ geometry = "full" /\ faults = 0 /\ broken = FALSE /\ reloaded = FALSE

-----------------------------------------------------------------------------
(* The socket's side. *)

Queue(by, to) == changes' = Append(changes, [by |-> by, to |-> to])

\* What an ended request asked for is no longer looked at.
Over(rs) == asked' = [r \in Requests |-> IF r \in rs THEN "status" ELSE asked[r]]

\* No window, or MAX_PENDING of them waiting.
RequestInVain(r) ==
  /\ waiter[r] = "unsent" /\ (~open \/ Cardinality(slots) >= MaxPending)
  /\ waiter' = [waiter EXCEPT ![r] = "refused"]
  /\ UNCHANGED <<asked, slots, open, viewVars, page, changes, stage, acks, snapshot, compositor,
                 geometry, faults, broken, reloaded>>

\* The slot, the event, the wait.  An event no listener is there for is lost.
Request(r, action) ==
  /\ waiter[r] = "unsent" /\ open /\ Cardinality(slots) < MaxPending
  /\ page => Len(changes) < MaxQueue
  /\ asked' = [asked EXCEPT ![r] = action]
  /\ waiter' = [waiter EXCEPT ![r] = "waiting"]
  /\ slots' = slots \cup {r}
  /\ IF page THEN Queue(r, action) ELSE UNCHANGED changes
  /\ UNCHANGED <<open, viewVars, page, stage, acks, snapshot, compositor, geometry, faults,
                 broken, reloaded>>

\* TIMEOUT; the guard takes the slot with it.
Expire(r) ==
  /\ waiter[r] = "waiting"
  /\ waiter' = [waiter EXCEPT ![r] = "refused"]
  /\ slots' = slots \ {r} /\ Over({r})
  /\ UNCHANGED <<open, viewVars, page, changes, stage, acks, snapshot, compositor,
                 geometry, faults, broken, reloaded>>

\* An acknowledgement arrives: late, it finds no slot; short of the mode asked for, it is a refusal.
Complete(k) ==
  /\ open /\ k \in acks
  /\ acks' = acks \ {k}
  /\ slots' = slots \ {k.by}
  /\ waiter' = IF k.by \notin slots THEN waiter
               ELSE [waiter EXCEPT ![k.by] =
                       IF ~k.ok \/ asked[k.by] \in Modes \ {k.mode} THEN "refused" ELSE "answered"]
  /\ Over({k.by})
  /\ UNCHANGED <<open, viewVars, page, changes, stage, snapshot, compositor, geometry,
                 faults, broken, reloaded>>

\* The window is destroyed: the latch, and every waiter is told.
Shut ==
  /\ open
  /\ open' = FALSE /\ page' = FALSE /\ changes' = <<>> /\ stage' = "idle" /\ acks' = {}
  /\ slots' = {}
  /\ waiter' = [r \in Requests |-> IF r \in slots THEN "refused" ELSE waiter[r]]
  /\ Over(Requests)
  /\ UNCHANGED <<viewVars, snapshot, compositor, geometry, faults, broken, reloaded>>

-----------------------------------------------------------------------------
(* The webview's side: one change at a time, in the order they arrived. *)

Load ==
  /\ open /\ ~page /\ page' = TRUE
  /\ UNCHANGED <<controlVars, viewVars, changes, stage, acks, snapshot, compositor, geometry,
                 faults, broken, reloaded>>

\* The page is reloaded: its queue, its running transition and its variables are gone.
Reload ==
  /\ open /\ page /\ ~reloaded
  /\ reloaded' = TRUE /\ page' = FALSE /\ changes' = <<>> /\ stage' = "idle"
  /\ currentMode' = "full" /\ miniActive' = FALSE /\ fullState' = "none"
  /\ UNCHANGED <<controlVars, acks, snapshot, compositor, geometry, faults, broken>>

\* The user's own key or button.
Press(action) ==
  /\ page /\ Len(changes) < MaxQueue /\ Queue("user", action)
  /\ UNCHANGED <<controlVars, viewVars, page, stage, acks, snapshot, compositor, geometry,
                 faults, broken, reloaded>>

\* The running change is over: its result goes to the socket when it came from there.
Answer(ok, mode) ==
  /\ changes' = Tail(changes) /\ stage' = "idle"
  /\ acks' = IF changes[1].by \in Requests
             THEN acks \cup {[by |-> changes[1].by, mode |-> mode, ok |-> ok]} ELSE acks

Succeed(mode) == currentMode' = mode /\ Answer(TRUE, mode)
Fail == Answer(FALSE, currentMode) /\ UNCHANGED currentMode

Resolved(action) ==
  IF action = "toggle" THEN IF currentMode = "mini" THEN "full" ELSE "mini" ELSE action

\* The head of the queue: `status`, a mode the bridge believes it is in, or a transition.
Begin ==
  /\ page /\ changes # <<>> /\ stage = "idle"
  /\ LET to == Resolved(changes[1].to)
     IN CASE to = "status" -> Succeed(currentMode)
          [] to = "mini" /\ miniActive -> Succeed("mini")
          [] to = "full" /\ fullState = "none" -> Succeed("full")
          [] OTHER -> /\ stage' = IF to = "full" THEN "restore"
                                  ELSE IF fullState = "none" THEN "capture" ELSE "enter"
                      /\ UNCHANGED <<currentMode, changes, acks>>
  /\ UNCHANGED <<controlVars, miniActive, fullState, page, snapshot, compositor, geometry, faults,
                 broken, reloaded>>

\* A row of calls fails somewhere: before the window moved, half way, or after.
Falls(to) == faults < MaxFaults /\ faults' = faults + 1 /\ geometry' \in {geometry, "mixed", to}
Lands(to) == geometry' = to /\ UNCHANGED faults

\* The webview's copy of the full window, and the compositor's, which is taken once.
Capture ==
  /\ stage = "capture"
  /\ \/ /\ fullState' = geometry /\ stage' = "enter"
        /\ snapshot' = IF compositor /\ snapshot = "none" THEN geometry ELSE snapshot
        /\ UNCHANGED <<changes, acks, currentMode, faults>>
     \/ Fail /\ faults < MaxFaults /\ faults' = faults + 1 /\ UNCHANGED <<fullState, snapshot>>
  /\ UNCHANGED <<controlVars, miniActive, page, compositor, geometry, broken, reloaded>>

\* enterMini, on the way in and when a restore failed.
EnterMini ==
  /\ stage = "enter"
  /\ \/ /\ Lands("mini") /\ miniActive' = TRUE /\ broken' = FALSE
        /\ Succeed("mini")
     \/ Falls("mini") /\ stage' = "rollback" /\ UNCHANGED <<changes, acks, currentMode, miniActive, broken>>
  /\ UNCHANGED <<controlVars, fullState, page, snapshot, compositor, reloaded>>

\* The bounds restoreFull brings back: the compositor's copy where there is one.
Saved == IF compositor THEN snapshot ELSE fullState

\* restoreFull after a failed entry: the copies are kept until every operation succeeded.
Rollback ==
  /\ stage = "rollback"
  /\ \/ Lands(Saved) /\ stage' = "forget" /\ UNCHANGED <<changes, acks, currentMode, broken>>
     \/ Falls(Saved) /\ Fail /\ broken' = TRUE
  /\ UNCHANGED <<controlVars, miniActive, fullState, page, snapshot, compositor, reloaded>>

\* Mutant of Restore: a restore that failed forgets the copies.
RestoreForgets ==
  /\ stage = "restore"
  /\ \/ Lands(Saved) /\ stage' = "clear" /\ UNCHANGED <<fullState, snapshot>>
     \/ Falls(Saved) /\ stage' = "reenter" /\ fullState' = "none" /\ snapshot' = "none"
  /\ UNCHANGED <<controlVars, currentMode, miniActive, page, changes, acks, compositor, broken,
                 reloaded>>

Restore ==
  /\ stage = "restore"
  /\ \/ Lands(Saved) /\ stage' = "clear"
     \/ Falls(Saved) /\ stage' = "reenter"
  /\ UNCHANGED <<controlVars, viewVars, page, changes, acks, snapshot, compositor, broken,
                 reloaded>>

Forgets == fullState' = "none" /\ snapshot' = "none" /\ miniActive' = FALSE

\* `clear` and the variables after a rollback: the entry still failed.
Forget ==
  /\ stage = "forget" /\ Fail
  /\ \/ Forgets /\ UNCHANGED <<faults, broken>>
     \/ /\ faults < MaxFaults /\ faults' = faults + 1 /\ broken' = TRUE
        /\ UNCHANGED <<fullState, snapshot, miniActive>>
  /\ UNCHANGED <<controlVars, page, compositor, geometry, reloaded>>

ClearSaved ==
  /\ stage = "clear"
  /\ \/ Succeed("full") /\ Forgets /\ broken' = FALSE /\ UNCHANGED faults
     \/ /\ faults < MaxFaults /\ faults' = faults + 1 /\ stage' = "reenter"
        /\ UNCHANGED <<currentMode, changes, acks, fullState, snapshot, miniActive, broken>>
  /\ UNCHANGED <<controlVars, page, compositor, geometry, reloaded>>

\* Mutant of Reenter: a failed restore is reported and left at that.
NoReenter ==
  /\ stage = "reenter" /\ Fail
  /\ UNCHANGED <<controlVars, miniActive, fullState, page, snapshot, compositor, geometry,
                 faults, broken, reloaded>>

Reenter ==
  /\ stage = "reenter" /\ Fail
  /\ \/ Lands("mini") /\ miniActive' = TRUE /\ UNCHANGED broken
     \/ Falls("mini") /\ broken' = TRUE /\ UNCHANGED miniActive
  /\ UNCHANGED <<controlVars, fullState, page, snapshot, compositor, reloaded>>

ModeNext ==
  \/ \E r \in Requests : RequestInVain(r) \/ (\E a \in Actions : Request(r, a)) \/ Expire(r)
  \/ \E k \in acks : Complete(k)
  \/ \E a \in {"full", "mini", "toggle"} : Press(a)
  \/ Shut \/ Load \/ Reload \/ Begin \/ Capture \/ EnterMini \/ Rollback \/ Forget \/ Restore \/ ClearSaved \/ Reenter

ModeSpec == ModeInit /\ [][ModeNext]_modeVars

-----------------------------------------------------------------------------

\* The way back is kept (window.ts:138, :221): however rows fail and requests crowd, a window
\* that is not full is one whose full bounds are saved.  A reload loses the webview's copy,
\* the compositor's survives it.
WayBackIsKept ==
  geometry # "full" => IF compositor THEN snapshot = "full" ELSE reloaded \/ fullState = "full"

\* Between transitions the webview's idea of the mode is the window's, unless a rollback failed too
\* or the page was reloaded.
ModeIsTheWindows == open /\ stage = "idle" /\ ~broken /\ ~reloaded => geometry = currentMode

\* What the user may rely on whatever failed: the window says what it is, and can be full again.
WindowIsRecoverable == WayBackIsKept /\ ModeIsTheWindows
=============================================================================
