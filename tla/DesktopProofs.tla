--------------------------- MODULE DesktopProofs ---------------------------
(***************************************************************************)
(* Proofs about the desktop app: for any windows, who may lose the control *)
(* socket's path; for any logins and pastes, that a wait can be stopped    *)
(* and that a login given up stores nothing; for any requests and failing  *)
(* rows, that the window's full bounds are kept; for any generations of    *)
(* the dictation hook, that an idle one holds no microphone.               *)
(***************************************************************************)
EXTENDS MCDesktop, SequenceTheorems, TLAPS

\* A window that bound the path uncontested is the one it leads to, and nobody who had
\* probed it before is about to clear it.
HoldInv ==
  \A w \in Windows : life[w] \in {"bound", "serving"} /\ w \notin contested =>
    door = w /\ \A v \in Windows : life[v] # "clearing"

DoorInv == DoorTypeOK /\ HoldInv

\* A login has a task once it was spawned, a handle once it was registered, and is drawn once
\* the screen has heard of it.
BegunInv ==
  /\ \A l \in LoginIds : begun[l] \in {"no", "called"} => wait[l] = "none"
  /\ registered # Nobody => begun[registered] \in {"returned", "recorded"}
  /\ panel # Nobody => begun[panel] = "recorded"

\* A login given up, and neither in doubt nor orphaned, is past storing anything: it has no
\* handle, and a task that still works is aborted.
GivenInv ==
  \A l \in givenUp \ (inDoubt \cup orphaned) :
    /\ registered # l /\ ~Storing(l)
    /\ wait[l] \in Live => l \in aborted
    /\ begun[l] \in {"returned", "recorded"}

LoginInv == LoginTypeOK /\ BegunInv /\ LiveWaitsAreHeld /\ GivenInv /\ GivenUpStaysOut

-----------------------------------------------------------------------------
(* The control socket. *)

\* A window's steps up to its probe, and the ends that leave the path alone.
LEMMA ProbeStep ==
  ASSUME DoorInv, NEW w \in Windows, Launch(w) \/ Look(w) \/ Knock(w) \/ SetMode(w) \/ End(w) \/ Kill(w)
  PROVE  DoorInv'
<1> USE DoorAssumption DEF DoorInv, DoorTypeOK, HoldInv, Moves, Lives
<1>1. CASE Launch(w) BY <1>1 DEF Launch
<1>2. CASE Look(w) BY <1>2 DEF Look
<1>3. CASE Knock(w) BY <1>3 DEF Knock, Listens
<1>4. CASE SetMode(w) BY <1>4 DEF SetMode
<1>5. CASE End(w) BY <1>5 DEF End
<1>6. CASE Kill(w) BY <1>6 DEF Kill
<1> QED BY <1>1, <1>2, <1>3, <1>4, <1>5, <1>6

\* The steps that change what the path names.
LEMMA PathStep ==
  ASSUME DoorInv, NEW w \in Windows, Clear(w) \/ Bind(w) \/ Unlink(w)
  PROVE  DoorInv'
<1> USE DoorAssumption DEF DoorInv, DoorTypeOK, HoldInv, Moves, Lives
<1>1. CASE Clear(w) BY <1>1 DEF Clear
<1>2. CASE Bind(w) BY <1>2 DEF Bind
<1>3. CASE Unlink(w) BY <1>3 DEF Unlink
<1> QED BY <1>1, <1>2, <1>3

\* Nobody has bound the path yet.
LEMMA DoorInitially == DoorInit => DoorInv
  BY DEF DoorInit, DoorInv, DoorTypeOK, HoldInv, Lives

\* One step of any window keeps it.
LEMMA DoorStep == DoorInv /\ [DoorNext]_doorVars => DoorInv'
<1>1. ASSUME DoorInv, UNCHANGED doorVars PROVE DoorInv'
  BY <1>1 DEF doorVars, DoorInv, DoorTypeOK, HoldInv
<1> QED BY <1>1, ProbeStep, PathStep DEF DoorNext

\* What it says of a path that was lost.
LEMMA DoorIsEnough == DoorInv => DoorHoldsUnlessContested
  BY DEF DoorInv, HoldInv, DoorHoldsUnlessContested

\* control.rs:143-163, main.rs:187: a window that serves is where the path leads, unless another
\* ended beside it or had probed the path before.
THEOREM DoorIsHeld == DoorSpec => []DoorHoldsUnlessContested
  BY DoorInitially, DoorStep, DoorIsEnough, PTL DEF DoorSpec

-----------------------------------------------------------------------------
(* The logins. *)

\* A login is begun and drawn.
LEMMA BeginStep ==
  ASSUME LoginInv, NEW l \in LoginIds, SignIn(l) \/ SpawnWait(l) \/ StartLogin(l) \/ Record(l)
  PROVE  LoginInv'
<1> USE LoginAssumption DEF LoginInv, screenVars, historyVars, Asks
<1>1. CASE SignIn(l)
  BY <1>1 DEF SignIn, LoginTypeOK, Begun, BegunInv, LiveWaitsAreHeld, GivenInv, GivenUpStaysOut, Storing
<1>2. CASE SpawnWait(l)
  BY <1>2 DEF SpawnWait, LoginTypeOK, Begun, Waits, Live, BegunInv, LiveWaitsAreHeld, GivenInv, GivenUpStaysOut, Storing
<1>3. CASE StartLogin(l)
  <2>1. LoginTypeOK' /\ BegunInv' /\ GivenUpStaysOut'
    BY <1>3 DEF StartLogin, LoginTypeOK, Begun, BegunInv, GivenUpStaysOut
  <2>2. LiveWaitsAreHeld'
    BY <1>3 DEF StartLogin, LoginTypeOK, LiveWaitsAreHeld
  <2>3. GivenInv'
    BY <1>3 DEF StartLogin, LoginTypeOK, GivenInv, Storing
  <2> QED BY <2>1, <2>2, <2>3
<1>4. CASE Record(l)
  BY <1>4 DEF Record, LoginTypeOK, Begun, BegunInv, LiveWaitsAreHeld, GivenInv, GivenUpStaysOut, Storing
<1> QED BY <1>1, <1>2, <1>3, <1>4

\* A task moves on where it may, and the registered login and the screen stay as they are.
LEMMA WaitStep ==
  ASSUME LoginInv, NEW l \in LoginIds,
         DropWait(l) \/ BindPort(l) \/ WaitTimesOut(l) \/ Exchanged(l) \/ Told(l)
  PROVE  LoginInv'
<1> USE LoginAssumption DEF LoginInv, screenVars, historyVars, WaitGoes, Closes, Live
<1>1. CASE DropWait(l)
  BY <1>1 DEF DropWait, LoginTypeOK, Waits, BegunInv, LiveWaitsAreHeld, GivenInv, GivenUpStaysOut, Storing
<1>2. CASE BindPort(l)
  BY <1>2 DEF BindPort, LoginTypeOK, Waits, BegunInv, LiveWaitsAreHeld, GivenInv, GivenUpStaysOut, Storing
<1>3. CASE WaitTimesOut(l)
  BY <1>3 DEF WaitTimesOut, LoginTypeOK, Waits, BegunInv, LiveWaitsAreHeld, GivenInv, GivenUpStaysOut, Storing
<1>4. CASE Exchanged(l)
  <2>1. PICK to \in {"saving", "failing"} : wait[l] = "exchanging" /\ wait' = [wait EXCEPT ![l] = to]
    BY <1>4 DEF Exchanged
  <2>2. LoginTypeOK' /\ BegunInv' /\ LiveWaitsAreHeld' /\ GivenUpStaysOut'
    BY <1>4, <2>1 DEF Exchanged, LoginTypeOK, Waits, BegunInv, LiveWaitsAreHeld, GivenUpStaysOut
  <2>3. GivenInv'
    BY <1>4, <2>1 DEF Exchanged, LoginTypeOK, GivenInv, Storing
  <2> QED BY <2>2, <2>3
<1>5. CASE Told(l)
  <2>1. PICK to \in {"finishing", "over"} : wait[l] \in {"telling", "failing"} /\ wait' = [wait EXCEPT ![l] = to]
    BY <1>5 DEF Told
  <2>2. LoginTypeOK' /\ BegunInv' /\ LiveWaitsAreHeld' /\ GivenUpStaysOut'
    BY <1>5, <2>1 DEF Told, LoginTypeOK, Waits, BegunInv, LiveWaitsAreHeld, GivenUpStaysOut
  <2>3. GivenInv'
    BY <1>5, <2>1 DEF Told, LoginTypeOK, GivenInv, Storing
  <2> QED BY <2>2, <2>3
<1> QED BY <1>1, <1>2, <1>3, <1>4, <1>5

\* A redirect moves the task that has the port.
LEMMA RedirectStep ==
  ASSUME LoginInv, NEW l \in LoginIds, Redirect(l)
  PROVE  LoginInv'
<1> USE LoginAssumption DEF LoginInv, screenVars, historyVars, WaitGoes, Live
<1>1. CASE UNCHANGED wait
  BY <1>1 DEF Redirect, LoginTypeOK, BegunInv, LiveWaitsAreHeld, GivenInv, GivenUpStaysOut, Storing
<1>2. CASE port = l /\ WaitGoes(l, {"listening"}, "exchanging")
  BY <1>2 DEF Redirect, LoginTypeOK, Waits, BegunInv, LiveWaitsAreHeld, GivenInv, GivenUpStaysOut, Storing
<1>3. CASE port \in LoginIds /\ WaitGoes(port, {"listening"}, "failing")
  BY <1>3 DEF Redirect, LoginTypeOK, Waits, BegunInv, LiveWaitsAreHeld, GivenInv, GivenUpStaysOut, Storing
<1> QED BY <1>1, <1>2, <1>3 DEF Redirect

\* A task stores its credential, and forgets the registered login at its end.
LEMMA EndStep ==
  ASSUME LoginInv, NEW l \in LoginIds, SaveWait(l) \/ FinishWait(l)
  PROVE  LoginInv'
<1> USE LoginAssumption DEF LoginInv, screenVars, WaitGoes, Live
<1>1. CASE SaveWait(l)
  <2>1. l \in givenUp => l \in inDoubt \cup orphaned
    BY <1>1 DEF SaveWait, GivenInv, Storing
  <2> QED BY <1>1, <2>1 DEF SaveWait, Stores, LoginTypeOK, Waits, BegunInv, LiveWaitsAreHeld, GivenInv,
             GivenUpStaysOut, Storing
<1>2. CASE FinishWait(l)
  <2>1. LoginTypeOK' /\ BegunInv' /\ GivenUpStaysOut'
    BY <1>2 DEF FinishWait, LoginTypeOK, Waits, BegunInv, GivenUpStaysOut
  <2>2. LiveWaitsAreHeld'
    BY <1>2 DEF FinishWait, LoginTypeOK, LiveWaitsAreHeld
  <2>3. GivenInv'
    BY <1>2 DEF FinishWait, LoginTypeOK, GivenInv, Storing
  <2> QED BY <2>1, <2>2, <2>3
<1> QED BY <1>1, <1>2

\* A paste takes the registered handle, and drops whichever is registered at its end.
LEMMA PasteStep ==
  ASSUME LoginInv, NEW p \in Pastes,
         FinishPasted(p) \/ PasteExchanged(p) \/ SavePaste(p) \/ ClearPaste(p) \/ TellPaste(p)
  PROVE  LoginInv'
<1> USE LoginAssumption DEF LoginInv, screenVars, historyVars, PasteGoes, DropsLogin
<1>1. CASE FinishPasted(p)
  BY <1>1 DEF FinishPasted, LoginTypeOK, Pasted, BegunInv, LiveWaitsAreHeld, GivenInv, GivenUpStaysOut, Storing
<1>2. CASE PasteExchanged(p)
  <2>1. LoginTypeOK' /\ BegunInv' /\ LiveWaitsAreHeld' /\ GivenUpStaysOut'
    BY <1>2 DEF PasteExchanged, LoginTypeOK, Pasted, BegunInv, LiveWaitsAreHeld, GivenUpStaysOut
  <2>2. \A l \in LoginIds : Storing(l)' => Storing(l)
    BY <1>2 DEF PasteExchanged, LoginTypeOK, Storing
  <2>3. GivenInv'
    BY <1>2, <2>2 DEF PasteExchanged, LoginTypeOK, GivenInv
  <2> QED BY <2>1, <2>3
<1>3. CASE SavePaste(p)
  <2>1. pasteOf[p] \in givenUp => pasteOf[p] \in inDoubt \cup orphaned
    BY <1>3 DEF SavePaste, GivenInv, Storing
  <2>2. pasteOf[p] \in LoginIds \cup {Nobody}
    BY DEF LoginTypeOK
  <2>3. LoginTypeOK' /\ BegunInv' /\ LiveWaitsAreHeld' /\ GivenUpStaysOut'
    BY <1>3, <2>1, <2>2 DEF SavePaste, Stores, LoginTypeOK, Pasted, BegunInv, LiveWaitsAreHeld, GivenUpStaysOut
  <2>4. GivenInv'
    BY <1>3 DEF SavePaste, Stores, LoginTypeOK, GivenInv, Storing
  <2> QED BY <2>3, <2>4
<1>4. CASE ClearPaste(p)
  <2>1. LoginTypeOK' /\ BegunInv' /\ LiveWaitsAreHeld' /\ GivenUpStaysOut'
    BY <1>4 DEF ClearPaste, LoginTypeOK, Pasted, BegunInv, LiveWaitsAreHeld, GivenUpStaysOut
  <2>2. \A l \in LoginIds : Storing(l)' => Storing(l)
    BY <1>4 DEF ClearPaste, LoginTypeOK, Storing
  <2>3. GivenInv'
    BY <1>4, <2>2 DEF ClearPaste, LoginTypeOK, GivenInv
  <2> QED BY <2>1, <2>2, <2>3
<1>5. CASE TellPaste(p)
  <2>1. LoginTypeOK' /\ BegunInv' /\ LiveWaitsAreHeld' /\ GivenUpStaysOut'
    BY <1>5 DEF TellPaste, LoginTypeOK, Pasted, BegunInv, LiveWaitsAreHeld, GivenUpStaysOut
  <2>2. \A l \in LoginIds : Storing(l)' => Storing(l)
    BY <1>5 DEF TellPaste, LoginTypeOK, Storing
  <2>3. GivenInv'
    BY <1>5, <2>2 DEF TellPaste, LoginTypeOK, GivenInv
  <2> QED BY <2>1, <2>2, <2>3
<1> QED BY <1>1, <1>2, <1>3, <1>4, <1>5

\* A cancel and a sign-out give up what is drawn and what is registered: a login that still
\* works is the registered one, aborted, or orphaned.
LEMMA GiveUpStep ==
  ASSUME LoginInv, CancelLogin \/ Disconnect
  PROVE  LoginInv'
<1> USE LoginAssumption DEF LoginInv, DropsLogin, GivesUp
<1>1. LoginTypeOK' /\ BegunInv' /\ GivenUpStaysOut'
  BY DEF CancelLogin, Disconnect, LoginTypeOK, BegunInv, GivenUpStaysOut
<1>2. LiveWaitsAreHeld'
  BY DEF CancelLogin, Disconnect, LoginTypeOK, LiveWaitsAreHeld
<1>3. ASSUME NEW l \in givenUp' \ (inDoubt' \cup orphaned'), l \notin givenUp
      PROVE  /\ registered' # l /\ ~Storing(l)' /\ (wait'[l] \in Live => l \in aborted')
             /\ begun'[l] \in {"returned", "recorded"}
  <2>1. l \in LoginIds /\ l \in {panel, registered}
    BY <1>3, <1>1 DEF CancelLogin, Disconnect, LoginTypeOK
  <2>2. begun[l] \in {"returned", "recorded"}
    BY <2>1 DEF BegunInv
  <2>3. ~Storing(l)
    BY <1>3 DEF CancelLogin, Disconnect
  <2>4. wait[l] \in Live => l \in aborted \cup orphaned \/ registered = l
    BY <2>1, <2>2 DEF LiveWaitsAreHeld
  <2> QED BY <1>3, <2>1, <2>2, <2>3, <2>4 DEF CancelLogin, Disconnect, Storing, LoginTypeOK
<1>4. ASSUME NEW l \in givenUp' \ (inDoubt' \cup orphaned'), l \in givenUp
      PROVE  /\ registered' # l /\ ~Storing(l)' /\ (wait'[l] \in Live => l \in aborted')
             /\ begun'[l] \in {"returned", "recorded"}
  BY <1>4 DEF CancelLogin, Disconnect, GivenInv, Storing, LoginTypeOK
<1>5. GivenInv'
  BY <1>3, <1>4 DEF GivenInv
<1> QED BY <1>1, <1>2, <1>5

\* What only the screen, the credential or the port sees of it.
LEMMA ScreenStep ==
  ASSUME LoginInv, OpenPage \/ LeaveScreen \/ HearDone \/ CancelReturns \/ ClearCredential \/ StrangerLeaves \/ UNCHANGED loginVars
  PROVE  LoginInv'
<1> USE LoginAssumption DEF LoginInv, screenVars, historyVars
<1>1. CASE HearDone
  BY <1>1 DEF HearDone, LoginTypeOK, BegunInv, LiveWaitsAreHeld, GivenInv, GivenUpStaysOut, Storing
<1>2. CASE CancelReturns
  BY <1>2 DEF CancelReturns, LoginTypeOK, BegunInv, LiveWaitsAreHeld, GivenInv, GivenUpStaysOut, Storing
<1>3. CASE ClearCredential
  BY <1>3 DEF ClearCredential, LoginTypeOK, BegunInv, LiveWaitsAreHeld, GivenInv, GivenUpStaysOut, Storing
<1>4. CASE StrangerLeaves
  BY <1>4 DEF StrangerLeaves, LoginTypeOK, BegunInv, LiveWaitsAreHeld, GivenInv, GivenUpStaysOut, Storing
<1>5. CASE UNCHANGED loginVars
  BY <1>5 DEF loginVars, LoginTypeOK, BegunInv, LiveWaitsAreHeld, GivenInv, GivenUpStaysOut, Storing
<1>6. CASE OpenPage
  BY <1>6 DEF OpenPage, LoginTypeOK, BegunInv, LiveWaitsAreHeld, GivenInv, GivenUpStaysOut, Storing
<1>7. CASE LeaveScreen
  BY <1>7 DEF LeaveScreen, LoginTypeOK, BegunInv, LiveWaitsAreHeld, GivenInv, GivenUpStaysOut, Storing
<1> QED BY <1>1, <1>2, <1>3, <1>4, <1>5, <1>6, <1>7

\* No login has begun.
LEMMA LoginInitially == LoginInit => LoginInv
  BY LoginAssumption DEF LoginInit, LoginInv, LoginTypeOK, BegunInv, LiveWaitsAreHeld, GivenInv, GivenUpStaysOut,
   Begun, Waits, Live, Pasted

\* One step of anybody keeps it.
LEMMA LoginStep == LoginInv /\ [LoginNext]_loginVars => LoginInv'
<1> SUFFICES ASSUME LoginInv, [LoginNext]_loginVars PROVE LoginInv'
  OBVIOUS
<1>1. ASSUME NEW l \in LoginIds, SignIn(l) \/ SpawnWait(l) \/ StartLogin(l) \/ Record(l) PROVE LoginInv'
  BY <1>1, BeginStep
<1>2. ASSUME NEW l \in LoginIds, DropWait(l) \/ BindPort(l) \/ WaitTimesOut(l) \/ Exchanged(l) \/ Told(l)
      PROVE  LoginInv'
  BY <1>2, WaitStep
<1>3. ASSUME NEW l \in LoginIds, Redirect(l) PROVE LoginInv'
  BY <1>3, RedirectStep
<1>4. ASSUME NEW l \in LoginIds, SaveWait(l) \/ FinishWait(l) PROVE LoginInv'
  BY <1>4, EndStep
<1>5. ASSUME NEW p \in Pastes,
             FinishPasted(p) \/ PasteExchanged(p) \/ SavePaste(p) \/ ClearPaste(p) \/ TellPaste(p)
      PROVE  LoginInv'
  BY <1>5, PasteStep
<1>6. CASE CancelLogin \/ Disconnect
  BY <1>6, GiveUpStep
<1>7. CASE OpenPage \/ LeaveScreen \/ HearDone \/ CancelReturns \/ ClearCredential \/ StrangerLeaves \/ UNCHANGED loginVars
  BY <1>7, ScreenStep
<1> QED BY <1>1, <1>2, <1>3, <1>4, <1>5, <1>6, <1>7, Zenon DEF LoginNext

\* commands.rs:306-411: the logins' inductive invariant.
THEOREM LoginInvariant == LoginSpec => []LoginInv
  BY LoginInitially, LoginStep, PTL DEF LoginSpec

\* What it says of a login that is drawn.
LEMMA LoginIsEnough == LoginInv => LoginsAreAnswerable
  BY DEF LoginInv, LoginsAreAnswerable

\* state.rs:88-118: a wait that works can be stopped, and a login that was given up stores
\* nothing, but for the two interleavings the property names.
THEOREM LoginsAnswer == LoginSpec => []LoginsAreAnswerable
  BY LoginInvariant, LoginIsEnough, PTL

-----------------------------------------------------------------------------
(* The window's mode. *)

\* A transition is one of a loaded page's queue; it has a copy of the window to go back to, the
\* compositor's is of the full window, the webview's is too until a reload.
CopiesInv ==
  /\ stage # "idle" => changes # <<>> /\ page
  /\ page => open
  /\ IF compositor THEN snapshot \in {"none", "full"} /\ (fullState # "none" => snapshot = "full")
     ELSE ~reloaded => fullState \in {"none", "full"}
  /\ stage \notin {"idle", "capture"} => fullState # "none"
  /\ stage = "capture" => fullState = "none"
  /\ stage \in {"clear", "forget"} => geometry = Saved

\* While no rollback failed and no page was reloaded, each row runs in the mode it leaves.
RowInv ==
  open /\ ~broken /\ ~reloaded =>
    /\ stage = "idle" => /\ geometry = currentMode /\ (miniActive <=> currentMode = "mini")
                         /\ (fullState = "none" <=> currentMode = "full")
    /\ stage \in {"capture", "enter", "rollback", "forget"} => currentMode = "full" /\ ~miniActive
    /\ stage = "capture" => geometry = "full"
    /\ stage \in {"restore", "clear", "reenter"} => currentMode = "mini" /\ miniActive

WindowInv == ModeTypeOK /\ CopiesInv /\ RowInv /\ WayBackIsKept

\* Requests and acknowledgements come and go beside the window itself.
WindowAlone == <<viewVars, page, stage, snapshot, compositor, geometry, faults, broken, reloaded, open>>

\* A change joins the end of the webview's queue.
LEMMA Queues ==
  ASSUME ModeTypeOK, NEW b \in Requests \cup {"user"}, NEW a \in Actions, Queue(b, a)
  PROVE  changes' \in Seq([by : Requests \cup {"user"}, to : Actions]) /\ changes' # <<>>
BY DEF ModeTypeOK, Queue

\* The running change is the head of the queue, and leaves it.
LEMMA Answers ==
  ASSUME ModeTypeOK, changes # <<>>, NEW ok \in BOOLEAN, NEW m \in Modes, Answer(ok, m)
  PROVE  /\ changes' \in Seq([by : Requests \cup {"user"}, to : Actions]) /\ stage' = "idle"
         /\ acks' \subseteq [by : Requests, mode : Modes, ok : BOOLEAN]
<1> DEFINE C == [by : Requests \cup {"user"}, to : Actions]
<1>1. changes \in Seq(C) BY DEF ModeTypeOK
<1> HIDE DEF C
<1>2. Tail(changes) \in Seq(C) BY <1>1, HeadTailProperties
<1> QED BY <1>2 DEF C, Answer, ModeTypeOK

\* What the socket's side does leaves the window as it is.
LEMMA SocketStep ==
  ASSUME WindowInv, NEW r \in Requests,
         RequestInVain(r) \/ (\E a \in Actions : Request(r, a)) \/ Expire(r)
  PROVE  WindowInv'
<1>1. UNCHANGED WindowAlone
  BY DEF RequestInVain, Request, Expire, WindowAlone, controlVars
<1>2. \/ changes' = changes
      \/ page /\ changes' # <<>> /\ changes' \in Seq([by : Requests \cup {"user"}, to : Actions])
  BY Queues DEF RequestInVain, Request, Expire, WindowInv
<1>3. ModeTypeOK'
  <2>1. asked' \in [Requests -> Actions] /\ waiter' \in [Requests -> Outcomes] /\ slots' \subseteq Requests
        /\ acks' = acks
    BY DEF RequestInVain, Request, Expire, Over, WindowInv, ModeTypeOK, Actions, Outcomes
  <2> QED BY <1>1, <1>2, <2>1 DEF WindowInv, ModeTypeOK, WindowAlone, viewVars
<1> QED BY <1>1, <1>2, <1>3 DEF WindowInv, CopiesInv, RowInv, WayBackIsKept, WindowAlone, viewVars, Saved

\* So do an acknowledgement and the user's own key.
LEMMA AroundStep ==
  ASSUME WindowInv, (\E k \in acks : Complete(k)) \/ (\E a \in {"full", "mini", "toggle"} : Press(a)) \/ Load
  PROVE  WindowInv'
<1>1. CASE \E k \in acks : Complete(k)
  <2>1. PICK k \in acks : Complete(k) BY <1>1
  <2>2. asked' \in [Requests -> Actions] /\ waiter' \in [Requests -> Outcomes] /\ slots' \subseteq Requests
    BY <2>1 DEF Complete, Over, WindowInv, ModeTypeOK, Actions, Outcomes
  <2> QED BY <2>1, <2>2
          DEF Complete, WindowInv, ModeTypeOK, CopiesInv, RowInv, WayBackIsKept, viewVars, Saved
<1>2. CASE \E a \in {"full", "mini", "toggle"} : Press(a)
  <2>1. PICK a \in {"full", "mini", "toggle"} : Press(a) BY <1>2
  <2>2. changes' \in Seq([by : Requests \cup {"user"}, to : Actions]) /\ changes' # <<>>
    BY <2>1, Queues DEF Press, WindowInv, Actions, Modes
  <2> QED BY <2>1, <2>2
          DEF Press, WindowInv, ModeTypeOK, CopiesInv, RowInv, WayBackIsKept, viewVars, controlVars, Saved
<1>3. CASE Load
  BY <1>3 DEF Load, WindowInv, ModeTypeOK, CopiesInv, RowInv, WayBackIsKept, viewVars, controlVars, Saved
<1> QED BY <1>1, <1>2, <1>3

\* The window or its page goes, and the running row with it.
LEMMA GoneStep ==
  ASSUME WindowInv, Shut \/ Reload
  PROVE  WindowInv'
<1>1. CASE Shut
  <2>1. changes' \in Seq([by : Requests \cup {"user"}, to : Actions]) BY <1>1 DEF Shut
  <2>2. ModeTypeOK' BY <1>1, <2>1 DEF Shut, Over, WindowInv, ModeTypeOK, viewVars, Actions, Outcomes, Stages
  <2> QED BY <1>1, <2>2 DEF Shut, WindowInv, CopiesInv, RowInv, WayBackIsKept, viewVars
<1>2. CASE Reload
  <2>1. changes' \in Seq([by : Requests \cup {"user"}, to : Actions]) BY <1>2 DEF Reload
  <2>2. ModeTypeOK' BY <1>2, <2>1 DEF Reload, WindowInv, ModeTypeOK, controlVars, Modes, Stages
  <2> QED BY <1>2, <2>2 DEF Reload, WindowInv, CopiesInv, RowInv, WayBackIsKept, controlVars
<1> QED BY <1>1, <1>2

\* The head of the queue is answered at once, or its first row begins.
LEMMA ChangeBegins ==
  ASSUME WindowInv, Begin
  PROVE  WindowInv'
<1> DEFINE to == Resolved(changes[1].to)
           Type == /\ changes' \in Seq([by : Requests \cup {"user"}, to : Actions])
                   /\ acks' \subseteq [by : Requests, mode : Modes, ok : BOOLEAN]
<1>1. changes # <<>> /\ stage = "idle" /\ page /\ open /\ UNCHANGED <<controlVars, miniActive, fullState, page,
        snapshot, compositor, geometry, faults, broken, reloaded>>
  BY DEF Begin, WindowInv, CopiesInv
<1>2. to \in {"mini", "full", "status"}
  <2>1. changes[1] \in [by : Requests \cup {"user"}, to : Actions]
    <3> DEFINE C == [by : Requests \cup {"user"}, to : Actions]
    <3>1. changes \in Seq(C) BY DEF WindowInv, ModeTypeOK
    <3> HIDE DEF C
    <3>2. changes[1] \in C BY <1>1, <3>1
    <3> QED BY <3>2 DEF C
  <2> QED BY <2>1 DEF Resolved, Actions, Modes, WindowInv, ModeTypeOK
<1>3. \/ to = "status" /\ Succeed(currentMode)
      \/ to = "mini" /\ miniActive /\ Succeed("mini")
      \/ to = "full" /\ fullState = "none" /\ Succeed("full")
      \/ to = "full" /\ fullState # "none" /\ stage' = "restore" /\ UNCHANGED <<currentMode, changes, acks>>
      \/ /\ to = "mini" /\ ~miniActive /\ UNCHANGED <<currentMode, changes, acks>>
         /\ stage' = (IF fullState = "none" THEN "capture" ELSE "enter")
  BY <1>2 DEF Begin
<1>4. ASSUME NEW m \in Modes, Succeed(m) PROVE Type /\ currentMode' = m /\ stage' = "idle"
  BY <1>1, <1>4, Answers DEF Succeed, WindowInv
<1> HIDE DEF to
<1>5. CASE to = "status" /\ Succeed(currentMode)
  <2>1. Type /\ currentMode' = currentMode /\ stage' = "idle" BY <1>4, <1>5 DEF WindowInv, ModeTypeOK
  <2> QED BY <1>1, <2>1 DEF WindowInv, ModeTypeOK, CopiesInv, RowInv, WayBackIsKept, controlVars, Saved
<1>6. CASE to = "mini" /\ miniActive /\ Succeed("mini")
  <2>1. Type /\ currentMode' = "mini" /\ stage' = "idle" BY <1>4, <1>6 DEF Modes
  <2> QED BY <1>1, <1>6, <2>1
          DEF WindowInv, ModeTypeOK, CopiesInv, RowInv, WayBackIsKept, controlVars, Saved, Modes
<1>7. CASE to = "full" /\ fullState = "none" /\ Succeed("full")
  <2>1. Type /\ currentMode' = "full" /\ stage' = "idle" BY <1>4, <1>7 DEF Modes
  <2> QED BY <1>1, <1>7, <2>1
          DEF WindowInv, ModeTypeOK, CopiesInv, RowInv, WayBackIsKept, controlVars, Saved, Modes
<1>8. CASE to = "full" /\ fullState # "none" /\ stage' = "restore" /\ UNCHANGED <<currentMode, changes, acks>>
  <2>1. ModeTypeOK' BY <1>1, <1>8 DEF WindowInv, ModeTypeOK, controlVars, Stages
  <2>2. CopiesInv' BY <1>1, <1>8 DEF WindowInv, CopiesInv, controlVars
  <2>3. RowInv' BY <1>1, <1>8 DEF WindowInv, ModeTypeOK, RowInv, Modes
  <2> QED BY <1>1, <2>1, <2>2, <2>3 DEF WindowInv, WayBackIsKept
<1>9. CASE /\ to = "mini" /\ ~miniActive /\ UNCHANGED <<currentMode, changes, acks>>
           /\ stage' = (IF fullState = "none" THEN "capture" ELSE "enter")
  <2>1. ModeTypeOK' BY <1>1, <1>9 DEF WindowInv, ModeTypeOK, controlVars, Stages
  <2>2. CopiesInv' BY <1>1, <1>9 DEF WindowInv, CopiesInv, controlVars
  <2>3. RowInv' BY <1>1, <1>9 DEF WindowInv, ModeTypeOK, RowInv, Modes
  <2> QED BY <1>1, <2>1, <2>2, <2>3 DEF WindowInv, WayBackIsKept
<1> QED BY <1>3, <1>5, <1>6, <1>7, <1>8, <1>9

\* A row lands or falls, and the queue keeps its types.
LEMMA RowTypes ==
  ASSUME WindowInv, stage # "idle",
         NEW m \in Modes, Fail \/ Succeed(m) \/ UNCHANGED <<changes, acks, currentMode>>
  PROVE  /\ changes' \in Seq([by : Requests \cup {"user"}, to : Actions])
         /\ acks' \subseteq [by : Requests, mode : Modes, ok : BOOLEAN] /\ currentMode' \in Modes
<1>1. changes # <<>> /\ currentMode \in Modes /\ ModeTypeOK BY DEF WindowInv, CopiesInv, ModeTypeOK
<1> QED BY <1>1, Answers DEF Fail, Succeed, ModeTypeOK

\* The rows of an entry and of its rollback.
LEMMA EntryStep ==
  ASSUME WindowInv, Capture \/ EnterMini \/ Rollback \/ Forget
  PROVE  WindowInv'
<1> USE ModeAssumption DEF Falls, Lands, Modes, Stages
<1>1. CASE Capture
  <2>1. /\ changes' \in Seq([by : Requests \cup {"user"}, to : Actions])
        /\ acks' \subseteq [by : Requests, mode : Modes, ok : BOOLEAN] /\ currentMode' = currentMode
    BY <1>1, RowTypes DEF Capture, Fail
  <2>2. stage' \in {"enter", "idle"} /\ faults' \in 0..MaxFaults
    BY <1>1 DEF Capture, Fail, Answer, WindowInv, ModeTypeOK
  <2> QED BY <1>1, <2>1, <2>2
          DEF Capture, Fail, Answer, WindowInv, ModeTypeOK, CopiesInv, RowInv, WayBackIsKept, controlVars, Saved
<1>2. CASE EnterMini
  <2>1. /\ changes' \in Seq([by : Requests \cup {"user"}, to : Actions])
        /\ acks' \subseteq [by : Requests, mode : Modes, ok : BOOLEAN] /\ currentMode' \in Modes
    BY <1>2, RowTypes DEF EnterMini
  <2>2. \/ stage' = "idle" /\ geometry' = "mini" /\ currentMode' = "mini" /\ miniActive' = TRUE
           /\ faults' = faults
          
           /\ broken' = FALSE
        \/ stage' = "rollback" /\ geometry' \in {"mini", "mixed", geometry} /\ faults' \in 0..MaxFaults
           /\ UNCHANGED <<changes, currentMode, miniActive, broken>>
    BY <1>2 DEF EnterMini, Succeed, Answer, WindowInv, ModeTypeOK
  <2>3. stage = "enter" /\ UNCHANGED <<controlVars, fullState, page, snapshot, compositor, reloaded>>
    BY <1>2 DEF EnterMini
  <2>4. ModeTypeOK' BY <2>1, <2>2, <2>3 DEF WindowInv, ModeTypeOK, controlVars
  <2>5. CopiesInv' BY <2>2, <2>3 DEF WindowInv, CopiesInv, controlVars
  <2>6. RowInv' BY <2>2, <2>3 DEF WindowInv, CopiesInv, RowInv, controlVars
  <2>7. WayBackIsKept' BY <2>3 DEF WindowInv, CopiesInv, WayBackIsKept, ModeTypeOK
  <2> QED BY <2>4, <2>5, <2>6, <2>7 DEF WindowInv
<1>3. CASE Rollback
  <2>1. /\ changes' \in Seq([by : Requests \cup {"user"}, to : Actions])
        /\ acks' \subseteq [by : Requests, mode : Modes, ok : BOOLEAN] /\ currentMode' = currentMode
    BY <1>3, RowTypes DEF Rollback, Fail
  <2>2. \/ stage' = "forget" /\ geometry' = Saved /\ faults' = faults /\ UNCHANGED <<changes, broken>>
        \/ stage' = "idle" /\ geometry' \in {geometry, "mixed", Saved} /\ faults' \in 0..MaxFaults
           /\ broken' = TRUE
    BY <1>3 DEF Rollback, Fail, Answer, WindowInv, ModeTypeOK
  <2>3. /\ stage = "rollback"
        /\ UNCHANGED <<controlVars, miniActive, fullState, page, snapshot, compositor, reloaded>>
    BY <1>3 DEF Rollback
  <2>4. Saved \in {"mini", "full", "mixed"} /\ (compositor \/ ~reloaded => Saved = "full") /\ Saved' = Saved
    BY <2>3 DEF Saved, WindowInv, CopiesInv, ModeTypeOK
  <2>5. ModeTypeOK' BY <2>1, <2>2, <2>3, <2>4 DEF WindowInv, ModeTypeOK, controlVars
  <2>6. CopiesInv' BY <2>2, <2>3, <2>4 DEF WindowInv, CopiesInv, controlVars
  <2>7. RowInv' BY <2>1, <2>2, <2>3, <2>4 DEF WindowInv, RowInv, controlVars
  <2>8. WayBackIsKept' BY <2>3 DEF WindowInv, CopiesInv, WayBackIsKept, ModeTypeOK
  <2> QED BY <2>5, <2>6, <2>7, <2>8 DEF WindowInv
<1>4. CASE Forget
  <2>1. /\ changes' \in Seq([by : Requests \cup {"user"}, to : Actions]) /\ stage' = "idle"
        /\ acks' \subseteq [by : Requests, mode : Modes, ok : BOOLEAN] /\ currentMode' = currentMode
    BY <1>4, RowTypes DEF Forget, Fail, Answer
  <2>2. /\ stage = "forget" /\ UNCHANGED <<controlVars, page, compositor, geometry, reloaded>>
        /\ faults' \in 0..MaxFaults
        /\ \/ Forgets /\ broken' = broken
           \/ broken' = TRUE /\ UNCHANGED <<fullState, snapshot, miniActive>>
    BY <1>4 DEF Forget, WindowInv, ModeTypeOK
  <2>3. compositor \/ ~reloaded => geometry = "full"
    BY <2>2 DEF Saved, WindowInv, CopiesInv, ModeTypeOK
  <2>4. ModeTypeOK' BY <2>1, <2>2 DEF Forgets, WindowInv, ModeTypeOK, controlVars
  <2>5. CopiesInv' /\ RowInv' /\ WayBackIsKept'
    BY <2>1, <2>2, <2>3 DEF Forgets, WindowInv, CopiesInv, RowInv, WayBackIsKept, controlVars, Saved
  <2> QED BY <2>4, <2>5 DEF WindowInv
<1> QED BY <1>1, <1>2, <1>3, <1>4

\* The rows of a restore and of the way back into mini.
LEMMA RestoreStep ==
  ASSUME WindowInv, Restore \/ ClearSaved \/ Reenter
  PROVE  WindowInv'
<1> USE ModeAssumption DEF Falls, Lands, Modes, Stages
<1>1. CASE Restore
  BY <1>1 DEF Restore, WindowInv, ModeTypeOK, CopiesInv, RowInv, WayBackIsKept, controlVars, viewVars, Saved
<1>2. CASE ClearSaved
  <2>1. /\ changes' \in Seq([by : Requests \cup {"user"}, to : Actions])
        /\ acks' \subseteq [by : Requests, mode : Modes, ok : BOOLEAN] /\ currentMode' \in Modes
    BY <1>2, RowTypes DEF ClearSaved
  <2>2. \/ stage' = "idle" /\ currentMode' = "full" /\ Forgets /\ broken' = FALSE /\ UNCHANGED faults
        \/ stage' = "reenter" /\ faults' \in 0..MaxFaults
           /\ UNCHANGED <<currentMode, changes, fullState, snapshot, miniActive, broken>>
    BY <1>2 DEF ClearSaved, Succeed, Answer, WindowInv, ModeTypeOK
  <2>3. stage = "clear" /\ UNCHANGED <<controlVars, page, compositor, geometry, reloaded>>
    BY <1>2 DEF ClearSaved
  <2>4. compositor \/ ~reloaded => geometry = "full"
    BY <2>3 DEF Saved, WindowInv, CopiesInv, ModeTypeOK
  <2>5. ModeTypeOK' BY <2>1, <2>2, <2>3 DEF Forgets, WindowInv, ModeTypeOK, controlVars
  <2>6. CopiesInv' /\ RowInv' /\ WayBackIsKept'
    BY <2>1, <2>2, <2>3, <2>4 DEF Forgets, WindowInv, CopiesInv, RowInv, WayBackIsKept, controlVars, Saved
  <2> QED BY <2>5, <2>6 DEF WindowInv
<1>3. CASE Reenter
  <2>1. /\ changes' \in Seq([by : Requests \cup {"user"}, to : Actions]) /\ stage' = "idle"
        /\ acks' \subseteq [by : Requests, mode : Modes, ok : BOOLEAN] /\ currentMode' = currentMode
    BY <1>3, RowTypes DEF Reenter, Fail, Answer
  <2>2. /\ stage = "reenter" /\ UNCHANGED <<controlVars, fullState, page, snapshot, compositor, reloaded>>
        /\ faults' \in 0..MaxFaults /\ geometry' \in {"mini", "mixed", geometry}
        /\ \/ geometry' = "mini" /\ miniActive' = TRUE /\ broken' = broken
           \/ broken' = TRUE /\ miniActive' = miniActive
    BY <1>3 DEF Reenter, WindowInv, ModeTypeOK
  <2>3. ModeTypeOK' BY <2>1, <2>2 DEF WindowInv, ModeTypeOK, controlVars
  <2>4. CopiesInv' /\ RowInv' BY <2>1, <2>2 DEF WindowInv, CopiesInv, RowInv, controlVars
  <2>5. WayBackIsKept' BY <2>2 DEF WindowInv, CopiesInv, WayBackIsKept, ModeTypeOK
  <2> QED BY <2>3, <2>4, <2>5 DEF WindowInv
<1> QED BY <1>1, <1>2, <1>3

\* The window starts full, with nothing asked.
LEMMA WindowInitially == ModeInit => WindowInv
<1> SUFFICES ASSUME ModeInit PROVE WindowInv OBVIOUS
<1>1. changes \in Seq([by : Requests \cup {"user"}, to : Actions]) BY DEF ModeInit
<1>2. asked \in [Requests -> Actions] /\ waiter \in [Requests -> Outcomes]
  BY DEF ModeInit, Actions, Outcomes
<1>3. faults \in 0..MaxFaults BY ModeAssumption DEF ModeInit
<1>4. ModeTypeOK BY <1>1, <1>2, <1>3 DEF ModeInit, ModeTypeOK, Modes, Stages
<1> QED BY <1>4 DEF ModeInit, WindowInv, CopiesInv, RowInv, WayBackIsKept

\* One step of anybody keeps it.
LEMMA WindowStep == WindowInv /\ [ModeNext]_modeVars => WindowInv'
<1> SUFFICES ASSUME WindowInv, [ModeNext]_modeVars PROVE WindowInv' OBVIOUS
<1>1. CASE UNCHANGED modeVars
  BY <1>1 DEF modeVars, controlVars, viewVars, WindowInv, ModeTypeOK, CopiesInv, RowInv, WayBackIsKept, Saved
<1>2. CASE ModeNext
  BY <1>2, SocketStep, AroundStep, GoneStep, ChangeBegins, EntryStep, RestoreStep DEF ModeNext
<1> QED BY <1>1, <1>2

\* What it says of the way back to a full window.
LEMMA WindowIsEnough == WindowInv => WindowIsRecoverable
  BY DEF WindowInv, RowInv, WindowIsRecoverable, ModeIsTheWindows

\* window.ts:121-236, window_mode.rs: whatever rows fail, however requests crowd, the window's full
\* bounds are kept while it is not full, and between transitions it is in the mode it says.
THEOREM WindowComesBack == ModeSpec => []WindowIsRecoverable
  BY WindowInitially, WindowStep, WindowIsEnough, PTL DEF ModeSpec

-----------------------------------------------------------------------------
(* Dictation. *)

\* A start nobody cancelled, by the hook of this page.
Unclaimed(g) == g > born /\ g \notin overtook

\* An answer that makes the hook idle when it is current.
Idles(c) == c.at \notin {"sent", "waiting", "rejected"} /\ PhaseAfter(c) = "idle"

\* Every call is of a generation the hook began, and a poll waits for nothing; a hook of none is
\* idle, and there is no session while the status is.
HookInv ==
  /\ \A c \in calls : c.by <= generation /\ (c.command = "status" => c.at \notin {"waiting", "ok"})
  /\ startedBy <= generation /\ born <= generation
  /\ generation = 0 => phase = "idle"
  /\ voiceStatus = "idle" => session = "none"

\* While such a start is not served the hook is neither idle nor listening, and what the hook
\* called or was served since is older.
StartInv ==
  \A d \in calls : d.command = "start" /\ d.at = "sent" /\ Unclaimed(d.by) =>
    /\ phase \notin {"idle", "listening"}
    /\ \A c \in calls : c # d /\ (c.command \notin Cancels \/ c.at # "sent") => c.by < d.by

\* While its session lasts the hook is not idle, and no answer on its way makes it so.
SessionInv ==
  session # "none" /\ Unclaimed(startedBy) =>
    /\ phase # "idle"
    /\ \A c \in calls : Idles(c) => c.by < startedBy

VoiceInv == DictationTypeOK /\ HookInv /\ StartInv /\ SessionInv

\* What a call is.
CallType == [command : Commands, by : 1..MaxGenerations,
             at : Phases \cup {"sent", "waiting", "ok", "rejected"}]

\* A call that goes from one place to another keeps its command and its generation.
LEMMA CallGoes ==
  ASSUME NEW c \in CallType, NEW at \in Phases \cup {"sent", "waiting", "ok", "rejected"}
  PROVE  LET e == [c EXCEPT !.at = at] IN e \in CallType /\ e.command = c.command /\ e.by = c.by /\ e.at = at
BY DEF CallType

\* While no start of this page is unserved, its hook may begin to listen or call again.
LEMMA NothingUnserved ==
  ASSUME VoiceInv, phase \in {"idle", "listening"}, NEW d \in calls, d.command = "start", d.at = "sent"
  PROVE  ~Unclaimed(d.by)
BY DEF VoiceInv, StartInv

\* The hook's three commands begin a generation.
LEMMA CommandStep ==
  ASSUME VoiceInv, StartDictation \/ StopDictation \/ CancelDictation
  PROVE  VoiceInv'
<1> USE DictationAssumption
<1>1. PICK command \in {"start", "stop", "cancel"} :
        /\ calls' = calls \cup {Sent(command, generation + 1)}
        /\ command \in {"start", "stop"} => phase \in {"idle", "listening"}
        /\ command = "start" => phase = "idle"
        /\ phase' = (IF command = "start" THEN "starting"
                     ELSE IF command = "stop" THEN "transcribing" ELSE phase)
  BY DEF StartDictation, StopDictation, CancelDictation, Turns
<1>2. /\ generation < MaxGenerations /\ generation' = generation + 1 /\ polling' = FALSE
      /\ cancelling' \in {cancelling, generation'}
      /\ UNCHANGED <<born, sessionVars, statusVars, detached, answersLost, overtook>>
      /\ phase' \in Phases \ {"idle"}
  BY <1>1 DEF StartDictation, StopDictation, CancelDictation, Turns, Phases, VoiceInv, DictationTypeOK
<1>3. Sent(command, generation + 1) \in CallType
  BY <1>2 DEF Sent, CallType, Commands, VoiceInv, DictationTypeOK
<1>4. DictationTypeOK'
  <2>1. calls' \subseteq CallType BY <1>1, <1>3 DEF CallType, VoiceInv, DictationTypeOK
  <2>2. {generation', cancelling', born'} \subseteq 0..MaxGenerations
    BY <1>2 DEF VoiceInv, DictationTypeOK
  <2> QED BY <1>2, <2>1, <2>2 DEF CallType, VoiceInv, DictationTypeOK, sessionVars, statusVars
<1>5. HookInv'
  BY <1>1, <1>2, <1>3 DEF Sent, VoiceInv, DictationTypeOK, HookInv, sessionVars, statusVars, CallType
<1>6. StartInv'
  <2> SUFFICES ASSUME NEW d \in calls', d.command = "start", d.at = "sent", Unclaimed(d.by)
               PROVE  /\ phase' \notin {"idle", "listening"}
                      /\ \A c \in calls' : c # d /\ (c.command \notin Cancels \/ c.at # "sent") => c.by < d.by
    BY <1>2 DEF StartInv, Unclaimed
  <2>1. CASE d \in calls
    <3>1. command = "cancel" BY <1>1, <2>1, NothingUnserved
    <3> QED BY <1>1, <2>1, <3>1 DEF VoiceInv, StartInv, Sent, Cancels
  <2>2. CASE d \notin calls
    <3>1. command = "start" /\ d.by = generation + 1 BY <1>1, <2>2 DEF Sent
    <3> QED BY <1>1, <2>2, <3>1 DEF VoiceInv, HookInv, DictationTypeOK
  <2> QED BY <2>1, <2>2
<1>7. SessionInv'
  BY <1>1, <1>2 DEF VoiceInv, SessionInv, Unclaimed, Idles, Sent, PhaseAfter, sessionVars
<1> QED BY <1>4, <1>5, <1>6, <1>7 DEF VoiceInv

\* A poll, by a hook that listens.
LEMMA PollStep ==
  ASSUME VoiceInv, AskStatus
  PROVE  VoiceInv'
<1> USE DictationAssumption
<1>1. /\ phase = "listening" /\ calls' = calls \cup {Sent("status", generation)}
      /\ UNCHANGED <<hookVars, sessionVars, statusVars, detached, answersLost, overtook>>
  BY DEF AskStatus
<1>2. Sent("status", generation) \in CallType
  BY <1>1 DEF Sent, CallType, Commands, VoiceInv, HookInv, DictationTypeOK
<1>3. DictationTypeOK'
  <2>1. calls' \subseteq CallType BY <1>1, <1>2 DEF CallType, VoiceInv, DictationTypeOK
  <2> QED BY <1>1, <2>1 DEF CallType, VoiceInv, DictationTypeOK, hookVars, sessionVars, statusVars
<1>4. HookInv'
  BY <1>1, <1>2 DEF Sent, VoiceInv, DictationTypeOK, HookInv, hookVars, sessionVars, statusVars, CallType
<1>5. StartInv'
  BY <1>1, NothingUnserved DEF StartInv, Unclaimed, Sent, hookVars
<1>6. SessionInv'
  BY <1>1 DEF VoiceInv, SessionInv, Unclaimed, Idles, Sent, hookVars, sessionVars
<1> QED BY <1>3, <1>4, <1>5, <1>6 DEF VoiceInv

\* A new page claims none of the old one's calls.
LEMMA ReloadStep ==
  ASSUME VoiceInv, ReloadHook
  PROVE  VoiceInv'
<1>1. DictationTypeOK'
  <2>1. {generation', cancelling', born'} \subseteq 0..MaxGenerations
    BY DictationAssumption DEF ReloadHook, VoiceInv, DictationTypeOK
  <2> QED BY <2>1 DEF ReloadHook, VoiceInv, DictationTypeOK, sessionVars, statusVars, Phases
<1> QED BY <1>1 DEF ReloadHook, VoiceInv, DictationTypeOK, HookInv, StartInv, SessionInv, Unclaimed,
                    sessionVars, statusVars

\* A current answer finds no start of this page unserved, and one that makes the hook idle no
\* session of such a start.
LEMMA CurrentAnswer ==
  ASSUME VoiceInv, NEW c \in calls, Current(c), c.at \notin {"sent", "waiting"}
  PROVE  /\ \A d \in calls : d.command = "start" /\ d.at = "sent" => ~Unclaimed(d.by)
         /\ Idles(c) => ~(session # "none" /\ Unclaimed(startedBy))
<1>1. \A d \in calls : d.by \in Nat /\ d.by <= generation
  BY DictationAssumption DEF VoiceInv, HookInv, DictationTypeOK
<1>2. startedBy \in Nat /\ generation \in Nat /\ startedBy <= generation
  BY DictationAssumption DEF VoiceInv, HookInv, DictationTypeOK
<1>3. ASSUME NEW d \in calls, d.command = "start", d.at = "sent", Unclaimed(d.by) PROVE FALSE
  BY <1>1, <1>2, <1>3 DEF VoiceInv, StartInv, Current
<1>4. ASSUME Idles(c), session # "none", Unclaimed(startedBy) PROVE FALSE
  BY <1>1, <1>2, <1>4 DEF VoiceInv, SessionInv, Current
<1> QED BY <1>3, <1>4

\* An answer arrives, or is lost: the hook follows it when it is current.
LEMMA DeliverStep ==
  ASSUME VoiceInv, NEW c \in calls, Deliver(c)
  PROVE  VoiceInv'
<1> USE DictationAssumption
<1>1. /\ c.at \notin {"sent", "waiting"} /\ cancelling' \in {cancelling, 0}
      /\ UNCHANGED <<generation, born, sessionVars, statusVars, detached, overtook>>
      /\ answersLost' \in 0..MaxLost
  BY DEF Deliver, VoiceInv, DictationTypeOK
<1>2. c \in CallType BY DEF VoiceInv, DictationTypeOK, CallType
<1>3. /\ calls' = calls \ {c} \/ calls' = (calls \ {c}) \cup {Sent("giveUp", c.by)}
      /\ polling' \in BOOLEAN
      /\ \/ phase' = phase
         \/ Current(c) /\ c.at # "rejected" /\ phase' = PhaseAfter(c)
  BY DEF Deliver, Rejected, Fails, Fulfilled, VoiceInv, DictationTypeOK
<1>4. phase' \in Phases
  BY <1>1, <1>2, <1>3 DEF PhaseAfter, CallType, Phases, VoiceInv, DictationTypeOK, HookInv
<1>5. Sent("giveUp", c.by) \in CallType BY <1>2 DEF Sent, CallType, Commands
<1>6. DictationTypeOK'
  <2>1. calls' \subseteq CallType BY <1>3, <1>5 DEF CallType, VoiceInv, DictationTypeOK
  <2>2. {generation', cancelling', born'} \subseteq 0..MaxGenerations
    BY <1>1 DEF VoiceInv, DictationTypeOK
  <2> QED BY <1>1, <1>3, <1>4, <2>1, <2>2 DEF CallType, VoiceInv, DictationTypeOK, sessionVars, statusVars
<1>7. HookInv'
  <2>1. generation = 0 => phase' = "idle"
    BY <1>2, <1>3 DEF VoiceInv, HookInv, Current, CallType
  <2> QED BY <1>1, <1>3, <2>1 DEF Sent, VoiceInv, HookInv, sessionVars, statusVars
<1>8. StartInv'
  BY <1>1, <1>3, CurrentAnswer DEF VoiceInv, StartInv, Unclaimed, Sent, Cancels
<1>9. SessionInv'
  BY <1>1, <1>3, CurrentAnswer DEF VoiceInv, SessionInv, Unclaimed, Sent, Idles, PhaseAfter, sessionVars
<1> QED BY <1>6, <1>7, <1>8, <1>9 DEF VoiceInv

\* A start is refused or makes the session: what is on its way to the hook is older.
LEMMA StartServed ==
  ASSUME VoiceInv, NEW c \in calls, ServeStart(c)
  PROVE  VoiceInv'
<1> USE DictationAssumption
<1>1. c \in CallType /\ c.command = "start" /\ c.at = "sent"
  BY DEF ServeStart, VoiceInv, DictationTypeOK, CallType
<1>2. PICK at \in {"rejected", "waiting"} :
        /\ calls' = Goes(c, at)
        /\ \/ at = "rejected" /\ UNCHANGED <<sessionVars, statusVars>>
           \/ /\ session' = "opening" /\ startedBy' = c.by /\ voiceStatus' = "starting" /\ broke' = FALSE
              /\ revoked' = FALSE /\ stopAsked' = FALSE /\ verdict' = "cancelled" /\ mic' = mic
        /\ UNCHANGED <<hookVars, detached, answersLost, overtook>>
  BY DEF ServeStart
<1> DEFINE e == [c EXCEPT !.at = at]
<1>3. e \in CallType /\ e.command = "start" /\ e.by = c.by /\ e.at = at
  BY <1>1, CallGoes
<1>4. calls' = (calls \ {c}) \cup {e} BY <1>2 DEF Goes
<1> HIDE DEF e
<1>5. DictationTypeOK'
  <2>1. calls' \subseteq CallType BY <1>3, <1>4 DEF CallType, VoiceInv, DictationTypeOK
  <2>2. startedBy' \in 0..MaxGenerations /\ session' \in Places /\ voiceStatus' \in Phases
        /\ verdict' \in {"text", "error", "cancelled"}
    BY <1>1, <1>2 DEF CallType, VoiceInv, DictationTypeOK, Places, Phases, sessionVars, statusVars
  <2>3. {broke', revoked', stopAsked', mic'} \subseteq BOOLEAN
    BY <1>2 DEF VoiceInv, DictationTypeOK, sessionVars, statusVars
  <2> QED BY <1>2, <2>1, <2>2, <2>3 DEF CallType, VoiceInv, DictationTypeOK, hookVars
<1>6. HookInv'
  BY <1>2, <1>3, <1>4 DEF VoiceInv, HookInv, hookVars, sessionVars, statusVars
<1>7. StartInv'
  <2> SUFFICES ASSUME NEW d \in calls', d.command = "start", d.at = "sent", Unclaimed(d.by)'
               PROVE  /\ phase' \notin {"idle", "listening"}
                      /\ \A k \in calls' : k # d /\ (k.command \notin Cancels \/ k.at # "sent") => k.by < d.by
    BY DEF StartInv
  <2>1. d \in calls /\ d # c /\ Unclaimed(d.by) BY <1>1, <1>2, <1>3, <1>4 DEF Unclaimed, hookVars
  <2>2. \A k \in calls : k # d /\ (k.command \notin Cancels \/ k.at # "sent") => k.by < d.by
    BY <2>1 DEF VoiceInv, StartInv
  <2>3. e.by < d.by BY <1>1, <1>3, <2>1, <2>2 DEF Cancels
  <2> QED BY <1>2, <1>4, <2>1, <2>2, <2>3 DEF VoiceInv, StartInv, hookVars
<1>8. SessionInv'
  <2>1. CASE at = "rejected" /\ UNCHANGED <<sessionVars, statusVars>>
    BY <1>2, <1>3, <1>4, <2>1 DEF VoiceInv, SessionInv, Unclaimed, Idles, PhaseAfter, sessionVars, hookVars
  <2>2. CASE startedBy' = c.by
    BY <1>1, <1>2, <1>3, <1>4, <2>2
    DEF VoiceInv, StartInv, SessionInv, Unclaimed, Idles, PhaseAfter, hookVars, Cancels
  <2> QED BY <1>2, <2>1, <2>2
<1> QED BY <1>5, <1>6, <1>7, <1>8 DEF VoiceInv

\* A stop, a poll or a cancel is answered or waits; only a poll of no session makes the hook idle
\* at once, and a cancel overtakes every start it was sent after.
LEMMA OthersServed ==
  ASSUME VoiceInv, NEW c \in calls, ServeStop(c) \/ ServeStatus(c) \/ ServeCancel(c)
  PROVE  VoiceInv'
<1> USE DictationAssumption
<1>1. c \in CallType /\ c.command # "start" /\ c.at = "sent"
  BY DEF ServeStop, ServeStatus, ServeCancel, Cancels, VoiceInv, DictationTypeOK, CallType
<1>2. PICK at \in Phases \cup {"rejected", "waiting", "ok"} :
        /\ calls' = Goes(c, at) /\ (c.command = "status" => at \notin {"waiting", "ok"})
        /\ at \in {"idle", "ok"} => session = "none"
        /\ at \notin {"idle", "ok", "waiting", "rejected"} => c.command = "status"
        /\ UNCHANGED <<hookVars, session, startedBy, verdict, mic, detached, answersLost>>
        /\ {broke', revoked', stopAsked'} \subseteq BOOLEAN
        /\ voiceStatus' = voiceStatus \/ voiceStatus' = "transcribing"
        /\ overtook \subseteq overtook' /\ overtook' \subseteq 1..MaxGenerations
        /\ c.command \in Cancels =>
             \A d \in calls : d.command = "start" /\ d.at = "sent" /\ d.by <= c.by => d.by \in overtook'
  <2>1. CASE ServeStop(c)
    <3>1. c.command = "stop" /\ calls' \in {Goes(c, "rejected"), Goes(c, "waiting")} /\ overtook' = overtook
      BY <2>1 DEF ServeStop
    <3> QED BY <2>1, <3>1 DEF ServeStop, Cancels, VoiceInv, DictationTypeOK
  <2>2. CASE ServeStatus(c)
    <3> DEFINE at == IF broke THEN "rejected" ELSE voiceStatus
    <3>1. at \in Phases \cup {"rejected"} /\ (at = "idle" => session = "none")
      BY DEF VoiceInv, DictationTypeOK, HookInv
    <3>2. c.command = "status" /\ calls' = Goes(c, at) BY <2>2 DEF ServeStatus
    <3> HIDE DEF at
    <3> QED BY <2>2, <3>1, <3>2
            DEF ServeStatus, Cancels, Phases, VoiceInv, DictationTypeOK, sessionVars, statusVars
  <2>3. CASE ServeCancel(c)
    <3>1. c.command \in Cancels /\ calls' = Goes(c, IF session = "none" THEN "ok" ELSE "waiting")
          /\ revoked' = (session # "none")
      BY <2>3 DEF ServeCancel
    <3>2. /\ overtook \subseteq overtook' /\ overtook' \subseteq 1..MaxGenerations
          /\ \A d \in calls : d.command = "start" /\ d.at = "sent" /\ d.by <= c.by => d.by \in overtook'
      BY <2>3 DEF ServeCancel, VoiceInv, DictationTypeOK
    <3> QED BY <2>3, <3>1, <3>2 DEF ServeCancel, Cancels, VoiceInv, DictationTypeOK
  <2> QED BY <2>1, <2>2, <2>3
<1> DEFINE e == [c EXCEPT !.at = at]
<1>3. e \in CallType /\ e.command = c.command /\ e.by = c.by /\ e.at = at
  BY <1>1, <1>2, CallGoes
<1>4. calls' = (calls \ {c}) \cup {e} BY <1>2 DEF Goes
<1> HIDE DEF e
<1>5. DictationTypeOK'
  <2>1. calls' \subseteq CallType BY <1>3, <1>4 DEF CallType, VoiceInv, DictationTypeOK
  <2> QED BY <1>2, <2>1 DEF CallType, VoiceInv, DictationTypeOK, hookVars, Phases
<1>6. HookInv'
  BY <1>2, <1>3, <1>4 DEF VoiceInv, HookInv, hookVars
<1>7. StartInv'
  <2> SUFFICES ASSUME NEW d \in calls', d.command = "start", d.at = "sent", Unclaimed(d.by)'
               PROVE  /\ phase' \notin {"idle", "listening"}
                      /\ \A k \in calls' : k # d /\ (k.command \notin Cancels \/ k.at # "sent") => k.by < d.by
    BY DEF StartInv
  <2>1. d \in calls /\ Unclaimed(d.by) BY <1>1, <1>2, <1>3, <1>4 DEF Unclaimed, hookVars
  <2>2. \A k \in calls : k # d /\ (k.command \notin Cancels \/ k.at # "sent") => k.by < d.by
    BY <2>1 DEF VoiceInv, StartInv
  <2>3. e.by < d.by
    <3>1. CASE c.command \notin Cancels BY <1>1, <1>3, <2>2, <3>1
    <3>2. CASE c.command \in Cancels
      <4>1. ~(d.by <= c.by) BY <1>2, <2>1, <3>2 DEF Unclaimed
      <4> QED BY <1>3, <2>1, <4>1 DEF VoiceInv, DictationTypeOK
    <3> QED BY <3>1, <3>2
  <2> QED BY <1>2, <1>4, <2>1, <2>2, <2>3 DEF VoiceInv, StartInv, hookVars
<1>8. SessionInv'
  <2>1. Unclaimed(startedBy)' => Unclaimed(startedBy) BY <1>2 DEF Unclaimed, hookVars
  <2>2. session # "none" => ~Idles(e)
    BY <1>2, <1>3 DEF Idles, PhaseAfter, Cancels, CallType, Commands
  <2> QED BY <1>2, <1>4, <2>1, <2>2 DEF VoiceInv, SessionInv, Idles, PhaseAfter, hookVars
<1> QED BY <1>5, <1>6, <1>7, <1>8 DEF VoiceInv

\* The task opens, records, closes and sends: no call moves.
LEMMA TaskStep ==
  ASSUME VoiceInv,
         ShutVoice \/ OpenMicrophone \/ EndRecording \/ CloseMicrophone \/ Transcribe \/ ReleaseDetached
  PROVE  VoiceInv'
<1> USE DictationAssumption
<1>1. /\ UNCHANGED <<hookVars, calls, startedBy, voiceStatus, answersLost, overtook>>
      /\ session' \in Places /\ (session = "none" => session' = "none")
      /\ (session # "none" => session' # "none")
  BY DEF ShutVoice, OpenMicrophone, EndRecording, CloseMicrophone, Transcribe, ReleaseDetached, Keeps, Places,
         statusVars, VoiceInv, DictationTypeOK
<1>2. detached' \in 0..MaxWedges
  <2>1. detached \in Nat /\ MaxWedges \in Nat /\ detached <= MaxWedges BY DEF VoiceInv, DictationTypeOK
  <2>2. \/ detached' = detached
        \/ detached < MaxWedges /\ detached' = detached + 1
        \/ detached > 0 /\ detached' = detached - 1
    BY DEF ShutVoice, OpenMicrophone, EndRecording, CloseMicrophone, Transcribe, ReleaseDetached
  <2> QED BY <2>1, <2>2
<1>5. {broke', revoked', stopAsked', mic'} \subseteq BOOLEAN
  <2>1. {broke, revoked, stopAsked, mic} \subseteq BOOLEAN BY DEF VoiceInv, DictationTypeOK
  <2>2. broke' = broke /\ stopAsked' = stopAsked /\ revoked' \in {revoked, TRUE} /\ mic' \in {mic, TRUE, FALSE}
    BY DEF ShutVoice, OpenMicrophone, EndRecording, CloseMicrophone, Transcribe, ReleaseDetached, Keeps,
           statusVars
  <2> QED BY <2>1, <2>2
<1>3. verdict' \in {"text", "error", "cancelled"}
  <2>1. verdict \in {"text", "error", "cancelled"} BY DEF VoiceInv, DictationTypeOK
  <2>2. CASE ShutVoice \/ ReleaseDetached BY <2>1, <2>2 DEF ShutVoice, ReleaseDetached
  <2>3. CASE OpenMicrophone BY <2>1, <2>3 DEF OpenMicrophone
  <2>4. CASE EndRecording BY <2>4 DEF EndRecording
  <2>5. CASE CloseMicrophone BY <2>1, <2>5 DEF CloseMicrophone
  <2>6. CASE Transcribe BY <2>6 DEF Transcribe
  <2> QED BY <2>2, <2>3, <2>4, <2>5, <2>6
<1>4. DictationTypeOK'
  BY <1>1, <1>2, <1>3, <1>5 DEF VoiceInv, DictationTypeOK, hookVars
<1> QED BY <1>1, <1>4 DEF VoiceInv, HookInv, StartInv, SessionInv, Unclaimed, Idles, PhaseAfter, hookVars

\* Calls that waited are answered, each in its place.
LEMMA ReplyStep ==
  ASSUME VoiceInv, ReportReady \/ EndSession
  PROVE  VoiceInv'
<1> USE DictationAssumption
<1>1. CASE ReportReady /\ revoked
  <2>1. /\ UNCHANGED <<hookVars, calls, startedBy, revoked, stopAsked, answersLost, overtook,
                       voiceStatus, verdict, mic, broke, detached>>
        /\ session = "opened" /\ session' = "closing"
    BY <1>1 DEF ReportReady, Keeps
  <2> QED BY <2>1 DEF VoiceInv, DictationTypeOK, HookInv, StartInv, SessionInv, Unclaimed, Idles, PhaseAfter,
                      hookVars, Places
<1>2. CASE (~revoked /\ ReportReady) \/ EndSession
  <2>1. /\ UNCHANGED <<hookVars, startedBy, revoked, stopAsked, answersLost, overtook, verdict, mic, detached>>
        /\ session' \in {"recording", "none"} /\ voiceStatus' \in {"listening", "idle"}
        /\ broke' \in BOOLEAN /\ session # "none"
        /\ session' = "none" <=> voiceStatus' = "idle"
    BY <1>2 DEF ReportReady, EndSession, Keeps, VoiceInv, DictationTypeOK
  <2>2. ASSUME NEW e \in calls'
        PROVE  /\ e \in CallType
               /\ \/ e \in calls
                  \/ /\ e.at \in {"ok", "rejected"} /\ e.command # "status"
                     /\ session' # "none" => e.command = "start"
                     /\ \E c \in calls : e.command = c.command /\ e.by = c.by /\ c.at = "waiting"
    <3>1. PICK c \in calls, at \in {"ok", "rejected"} :
            \/ e = c
            \/ /\ e = [c EXCEPT !.at = at] /\ c.at = "waiting"
               /\ session' # "none" => c.command = "start"
      <4>1. CASE ReportReady BY <1>2, <4>1 DEF ReportReady
      <4>2. CASE EndSession BY <4>2 DEF EndSession
      <4> QED BY <1>2, <4>1, <4>2
    <3>2. c \in CallType BY DEF VoiceInv, DictationTypeOK, CallType
    <3>3. CASE e = c BY <3>2, <3>3
    <3>4. CASE e # c
      <4>1. e = [c EXCEPT !.at = at] /\ at \in Phases \cup {"sent", "waiting", "ok", "rejected"}
        BY <3>1, <3>4
      <4>2. e \in CallType /\ e.command = c.command /\ e.by = c.by /\ e.at = at
        BY <3>2, <4>1, CallGoes
      <4> QED BY <3>1, <3>4, <4>2 DEF VoiceInv, HookInv
    <3> QED BY <3>3, <3>4
  <2>3. DictationTypeOK'
    BY <2>1, <2>2 DEF VoiceInv, DictationTypeOK, hookVars, Places, Phases, CallType
  <2>4. HookInv' BY <2>1, <2>2 DEF VoiceInv, HookInv, hookVars
  <2>5. StartInv'
    <3> SUFFICES ASSUME NEW d \in calls', d.command = "start", d.at = "sent", Unclaimed(d.by)',
                        NEW k \in calls', k # d, k.command \notin Cancels \/ k.at # "sent"
                 PROVE  phase' \notin {"idle", "listening"} /\ k.by < d.by
      <4>1. \A d \in calls' : d.command = "start" /\ d.at = "sent" /\ Unclaimed(d.by)' =>
              phase' \notin {"idle", "listening"}
        BY <2>1, <2>2 DEF VoiceInv, StartInv, Unclaimed, hookVars
      <4> QED BY <4>1 DEF StartInv
    <3>1. d \in calls /\ Unclaimed(d.by) BY <2>1, <2>2 DEF Unclaimed, hookVars
    <3>2. phase' \notin {"idle", "listening"} BY <2>1, <3>1 DEF VoiceInv, StartInv, hookVars
    <3>4. \A c \in calls : c # d /\ (c.command \notin Cancels \/ c.at # "sent") => c.by < d.by
      BY <3>1 DEF VoiceInv, StartInv
    <3>5. CASE k \in calls BY <3>2, <3>4, <3>5
    <3>6. CASE k \notin calls
      <4>1. PICK c \in calls : k.by = c.by /\ c.at = "waiting" BY <2>2, <3>6
      <4> QED BY <3>1, <3>2, <3>4, <4>1
    <3> QED BY <3>5, <3>6
  <2>6. SessionInv'
    <3> SUFFICES ASSUME session' # "none", Unclaimed(startedBy)'
                 PROVE  phase' # "idle" /\ \A e \in calls' : Idles(e)' => e.by < startedBy'
      BY DEF SessionInv
    <3>1. Unclaimed(startedBy) BY <2>1 DEF Unclaimed, hookVars
    <3>2. \A e \in calls' : Idles(e)' => e \in calls /\ Idles(e) BY <2>2 DEF Idles, PhaseAfter
    <3> QED BY <2>1, <3>1, <3>2 DEF VoiceInv, SessionInv, hookVars
  <2> QED BY <2>3, <2>4, <2>5, <2>6 DEF VoiceInv
<1> QED BY <1>1, <1>2 DEF ReportReady

\* The hook starts idle, with nothing called.
LEMMA VoiceInitially == DictationInit => VoiceInv
<1> SUFFICES ASSUME DictationInit PROVE VoiceInv OBVIOUS
<1>1. {0} \subseteq 0..MaxGenerations /\ 0 \in 0..MaxWedges /\ 0 \in 0..MaxLost BY DictationAssumption
<1>2. DictationTypeOK BY <1>1 DEF DictationInit, DictationTypeOK, Phases, Places
<1> QED BY <1>2 DEF DictationInit, VoiceInv, HookInv, StartInv, SessionInv

\* One step of anybody keeps it.
LEMMA VoiceStep == VoiceInv /\ [DictationNext]_dictationVars => VoiceInv'
<1> SUFFICES ASSUME VoiceInv, [DictationNext]_dictationVars PROVE VoiceInv' OBVIOUS
<1>1. CASE UNCHANGED dictationVars
  BY <1>1 DEF dictationVars, hookVars, sessionVars, statusVars, VoiceInv, DictationTypeOK, HookInv, StartInv,
              SessionInv, Unclaimed, Idles, PhaseAfter
<1>2. CASE DictationNext
  BY <1>2, CommandStep, PollStep, ReloadStep, DeliverStep, StartServed, OthersServed, TaskStep, ReplyStep
  DEF DictationNext, Serves, VoiceSettles
<1> QED BY <1>1, <1>2

\* What it says of an idle hook.
LEMMA VoiceIsEnough == VoiceInv => IdleHoldsNoMicrophone
  BY DictationAssumption DEF VoiceInv, DictationTypeOK, SessionInv, Unclaimed, IdleHoldsNoMicrophone

\* useDictation.ts:46, voice.rs: an idle hook has no session of its own page, unless its start was
\* served after a cancel that was sent later.
THEOREM IdleIsReleased == DictationSpec => []IdleHoldsNoMicrophone
  BY VoiceInitially, VoiceStep, VoiceIsEnough, PTL DEF DictationSpec

-----------------------------------------------------------------------------
(* The four parts together. *)

\* What is known of each part.
DesktopInv == DoorInv /\ WindowInv /\ VoiceInv /\ LoginInv

\* No part disturbs another, so the desktop app keeps what each of them keeps.
THEOREM DesktopInvariant == DesktopSpec => []DesktopInv
<1>1. DesktopInit => DesktopInv
  BY DoorInitially, WindowInitially, VoiceInitially, LoginInitially DEF DesktopInit, DesktopInv
<1>2. [DesktopNext]_desktopVars =>
        /\ [DoorNext]_doorVars /\ [ModeNext]_modeVars
        /\ [DictationNext]_dictationVars /\ [LoginNext]_loginVars
  BY DEF DesktopNext, Door, Window, Voice, Signing, desktopVars
<1>3. DesktopInv /\ [DesktopNext]_desktopVars => DesktopInv'
  BY <1>2, DoorStep, WindowStep, VoiceStep, LoginStep DEF DesktopInv
<1> QED BY <1>1, <1>3, PTL DEF DesktopSpec

\* The types of the socket's path, the window, the microphone and the logins; and what the run
\* checks of each of them, of the app as a whole.
THEOREM DesktopIsSafe ==
  DesktopSpec => [](/\ DesktopTypeOK /\ DoorHoldsUnlessContested /\ LoginsAreAnswerable
                    /\ WindowIsRecoverable /\ IdleHoldsNoMicrophone)
<1>1. DesktopInv => DesktopTypeOK
  BY DEF DesktopInv, DoorInv, WindowInv, VoiceInv, LoginInv, DesktopTypeOK
<1>2. DoorInv => DoorHoldsUnlessContested BY DoorIsEnough
<1>3. LoginInv => LoginsAreAnswerable BY LoginIsEnough
<1>4. WindowInv => WindowIsRecoverable BY WindowIsEnough
<1>5. VoiceInv => IdleHoldsNoMicrophone BY VoiceIsEnough
<1> QED BY DesktopInvariant, <1>1, <1>2, <1>3, <1>4, <1>5, PTL DEF DesktopInv
=============================================================================
