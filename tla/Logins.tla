------------------------------- MODULE Logins -------------------------------
(***************************************************************************)
(* Subscription logins in the desktop app, for one provider: the commands  *)
(* (src-tauri/src/commands.rs, state.rs), the wait each login spawns       *)
(* (finish_oauth over the loopback listener of oauth/callback.rs), the     *)
(* paste fallback that races it, and the screen that starts, cancels and   *)
(* draws them (Connections.tsx).                                           *)
(*                                                                         *)
(* A task that is aborted is dropped where it next awaits: what it does    *)
(* between two awaits it still does.  A pasted code's exchange is a        *)
(* command of its own and is never aborted.  What the vendor, the browser  *)
(* and the person do is any of what they may do; the stored credential is  *)
(* the login that stored it.                                               *)
(***************************************************************************)
EXTENDS Naturals

CONSTANTS
  LoginIds,    \* calls of begin_login, numbered as they are made
  Pastes,      \* calls of finish_login_pasted
  Nobody,      \* no login
  Stranger     \* another program on the provider's port

ASSUME LoginAssumption == LoginIds \subseteq Nat /\ Nobody \notin LoginIds /\ Stranger \notin LoginIds /\ Stranger # Nobody

VARIABLES
  begun,      \* per login: where its begin_login is
  wait,       \* per login: where its task is
  aborted,    \* logins whose task was aborted
  registered, \* Desktop.logins: the login with a handle, Nobody without one
  port,       \* who has the callback port
  paste,      \* per paste: where it is
  pasteOf,    \* per paste: the login whose handle it took
  account,    \* the stored credential
  authorized, \* logins whose vendor page the user has open
  panel,      \* Connections.logins: the login drawn, Nobody when none is
  cancelSent, \* a cancel_login call is out
  leaving,    \* a disconnect that has not cleared the credential yet
  news,       \* login:done events on their way
  busy,       \* Connections.busy
  givenUp, late, inDoubt, orphaned  \* history: see below

loginVars == <<begun, wait, aborted, registered, port, paste, pasteOf, account, authorized, panel,
               cancelSent, leaving, news, busy, givenUp, late, inDoubt, orphaned>>

Begun  == {"no", "called", "spawned", "returned", "recorded"}
Waits  == {"none", "spawned", "listening", "exchanging", "saving", "telling", "finishing", "failing", "over"}
Live   == {"spawned", "listening", "exchanging"}
Pasted == {"none", "exchanging", "saving", "clearing", "telling", "over"}

\* The types of the logins, their tasks and the screen.
LoginTypeOK ==
  /\ begun \in [LoginIds -> Begun] /\ wait \in [LoginIds -> Waits]
  /\ aborted \subseteq LoginIds /\ authorized \subseteq LoginIds
  /\ givenUp \subseteq LoginIds /\ late \subseteq LoginIds /\ inDoubt \subseteq LoginIds /\ orphaned \subseteq LoginIds
  /\ registered \in LoginIds \cup {Nobody} /\ account \in LoginIds \cup {Nobody} /\ panel \in LoginIds \cup {Nobody}
  /\ port \in LoginIds \cup {Nobody, Stranger}
  /\ paste \in [Pastes -> Pasted] /\ pasteOf \in [Pastes -> LoginIds \cup {Nobody}]
  /\ cancelSent \in BOOLEAN /\ leaving \in BOOLEAN /\ busy \in BOOLEAN /\ news \in BOOLEAN

LoginInit ==
  /\ begun = [l \in LoginIds |-> "no"] /\ wait = [l \in LoginIds |-> "none"] /\ aborted = {}
  /\ registered = Nobody /\ port \in {Nobody, Stranger}
  /\ paste = [p \in Pastes |-> "none"] /\ pasteOf = [p \in Pastes |-> Nobody]
  /\ account = Nobody /\ authorized = {} /\ panel = Nobody
  /\ cancelSent = FALSE /\ leaving = FALSE /\ news = FALSE /\ busy = FALSE
  /\ givenUp = {} /\ late = {} /\ inDoubt = {} /\ orphaned = {}

screenVars  == <<panel, cancelSent, leaving, news, busy>>
historyVars == <<givenUp, late, inDoubt, orphaned>>

-----------------------------------------------------------------------------
(* Beginning a login. *)

Asks(l, from, to) == begun[l] = from /\ begun' = [begun EXCEPT ![l] = to]

\* Sign in, or the fix of a readiness row.
SignIn(l) ==
  /\ Asks(l, "no", "called") /\ \A k \in LoginIds : k < l => begun[k] # "no"
  /\ ~busy /\ busy' = TRUE
  /\ UNCHANGED <<wait, aborted, registered, port, paste, pasteOf, account, authorized, panel,
                 cancelSent, leaving, news, historyVars>>

\* begin_oauth, and the spawn of the wait.
SpawnWait(l) ==
  /\ Asks(l, "called", "spawned")
  /\ wait' = [wait EXCEPT ![l] = "spawned"]
  /\ UNCHANGED <<aborted, registered, port, paste, pasteOf, account, authorized, screenVars, historyVars>>

\* Mutant of StartLogin: the earlier login's wait is left alone.
StartLoginMutant(l) ==
  /\ Asks(l, "spawned", "returned")
  /\ registered' = l
  /\ UNCHANGED <<wait, aborted, port, paste, pasteOf, account, authorized, screenVars, historyVars>>

\* Desktop::start_login: an earlier login is replaced, and its wait aborted.
StartLogin(l) ==
  /\ Asks(l, "spawned", "returned")
  /\ registered' = l /\ aborted' = aborted \cup ({registered} \ {Nobody})
  /\ UNCHANGED <<wait, port, paste, pasteOf, account, authorized, screenVars, historyVars>>

\* The screen hears that it began, draws it, and opens the vendor's page.
Record(l) ==
  /\ Asks(l, "returned", "recorded")
  /\ panel' = l /\ busy' = FALSE
  /\ UNCHANGED <<wait, aborted, registered, port, paste, pasteOf, account, authorized, cancelSent,
                 leaving, news, historyVars>>

\* open_login_page takes the URL of whichever login is registered.
OpenPage ==
  /\ panel # Nobody /\ registered # Nobody
  /\ authorized' = authorized \cup {registered}
  /\ UNCHANGED <<begun, wait, aborted, registered, port, paste, pasteOf, account, screenVars, historyVars>>

-----------------------------------------------------------------------------
(* The wait. *)

WaitGoes(l, from, to) == wait[l] \in from /\ wait' = [wait EXCEPT ![l] = to]
Closes(l) == port' = IF port = l THEN Nobody ELSE port

\* Mutant of DropWait: the listener outlives its task.
DropWaitMutant(l) ==
  /\ l \in aborted /\ WaitGoes(l, Live \cup {"telling", "failing"}, "over")
  /\ UNCHANGED <<begun, aborted, registered, port, paste, pasteOf, account, authorized, screenVars, historyVars>>

\* An aborted task is dropped at an await, and its listener with it.
DropWait(l) ==
  /\ l \in aborted /\ WaitGoes(l, Live \cup {"telling", "failing"}, "over") /\ Closes(l)
  /\ UNCHANGED <<begun, aborted, registered, paste, pasteOf, account, authorized, screenVars, historyVars>>

\* The task's first poll: the port, or the error that somebody else has it.
BindPort(l) ==
  /\ l \notin aborted /\ WaitGoes(l, {"spawned"}, IF port = Nobody THEN "listening" ELSE "failing")
  /\ port' = IF port = Nobody THEN l ELSE port
  /\ UNCHANGED <<begun, aborted, registered, paste, pasteOf, account, authorized, screenVars, historyVars>>

\* The vendor's redirect reaches whoever has the port: another login's state ends its wait.
Redirect(l) ==
  /\ l \in authorized /\ authorized' = authorized \ {l}
  /\ IF port \in LoginIds \ aborted
     THEN /\ \/ port = l /\ WaitGoes(l, {"listening"}, "exchanging")
             \/ WaitGoes(port, {"listening"}, "failing")
          /\ port' = Nobody
     ELSE UNCHANGED <<wait, port>>
  /\ UNCHANGED <<begun, aborted, registered, paste, pasteOf, account, screenVars, historyVars>>

\* LOGIN_TIMEOUT.
WaitTimesOut(l) ==
  /\ l \notin aborted /\ WaitGoes(l, {"listening"}, "failing") /\ Closes(l)
  /\ UNCHANGED <<begun, aborted, registered, paste, pasteOf, account, authorized, screenVars, historyVars>>

\* The vendor answers the exchange.
Exchanged(l) ==
  /\ l \notin aborted
  /\ WaitGoes(l, {"exchanging"}, "saving") \/ WaitGoes(l, {"exchanging"}, "failing")
  /\ UNCHANGED <<begun, aborted, registered, port, paste, pasteOf, account, authorized, screenVars, historyVars>>

Stores(l) == account' = l /\ late' = IF l \in givenUp THEN late \cup {l} ELSE late

\* The credential and the account's row, between two awaits.
SaveWait(l) ==
  /\ WaitGoes(l, {"saving"}, "telling") /\ Stores(l)
  /\ UNCHANGED <<begun, aborted, registered, port, paste, pasteOf, authorized, screenVars, givenUp, inDoubt, orphaned>>

\* The selected provider is read: the task goes on, to its event.
Told(l) ==
  /\ l \notin aborted
  /\ WaitGoes(l, {"telling"}, "finishing") \/ WaitGoes(l, {"failing"}, "over")
  /\ UNCHANGED <<begun, aborted, registered, port, paste, pasteOf, account, authorized, screenVars, historyVars>>

\* finish_login forgets whichever login is registered by now, and does not abort it; login:done.
FinishWait(l) ==
  /\ WaitGoes(l, {"finishing"}, "over")
  /\ registered' = Nobody /\ orphaned' = orphaned \cup ({registered} \ {l, Nobody}) /\ news' = TRUE
  /\ UNCHANGED <<begun, aborted, port, paste, pasteOf, account, authorized, panel, cancelSent,
                 leaving, busy, givenUp, late, inDoubt>>

-----------------------------------------------------------------------------
(* The paste, the cancel and the sign-out. *)

\* cancel_login: the registered login is dropped and its wait aborted.
DropsLogin == registered' = Nobody /\ aborted' = aborted \cup ({registered} \ {Nobody})

\* A code of this login is being exchanged by a paste, or its credential is being saved.
Storing(l) == wait[l] = "saving" \/ \E p \in Pastes : pasteOf[p] = l /\ paste[p] \in {"exchanging", "saving"}

\* The user gave these logins up.
GivesUp(ls) ==
  /\ givenUp' = givenUp \cup ls
  /\ inDoubt' = inDoubt \cup {l \in ls : Storing(l)}
  /\ UNCHANGED <<late, orphaned>>

PasteGoes(p, from, to) == paste[p] = from /\ paste' = [paste EXCEPT ![p] = to]

\* Finish: the handle of whichever login is registered, and a code its state allows.
FinishPasted(p) ==
  /\ panel # Nobody /\ registered # Nobody
  /\ PasteGoes(p, "none", "exchanging") /\ pasteOf' = [pasteOf EXCEPT ![p] = registered]
  /\ busy' = TRUE
  /\ UNCHANGED <<begun, wait, aborted, registered, port, account, authorized, panel, cancelSent,
                 leaving, news, historyVars>>

PasteExchanged(p) ==
  /\ \/ PasteGoes(p, "exchanging", "saving") /\ UNCHANGED <<busy, pasteOf>>
     \/ PasteGoes(p, "exchanging", "over") /\ busy' = FALSE /\ pasteOf' = [pasteOf EXCEPT ![p] = Nobody]
  /\ UNCHANGED <<begun, wait, aborted, registered, port, account, authorized, panel,
                 cancelSent, leaving, news, historyVars>>

SavePaste(p) ==
  /\ PasteGoes(p, "saving", "clearing") /\ Stores(pasteOf[p]) /\ pasteOf' = [pasteOf EXCEPT ![p] = Nobody]
  /\ UNCHANGED <<begun, wait, aborted, registered, port, authorized, screenVars, givenUp, inDoubt, orphaned>>

\* "The loopback wait has nothing left to serve": whichever login is registered by now.
ClearPaste(p) ==
  /\ PasteGoes(p, "clearing", "telling") /\ DropsLogin
  /\ UNCHANGED <<begun, wait, port, pasteOf, account, authorized, screenVars, historyVars>>

TellPaste(p) ==
  /\ PasteGoes(p, "telling", "over") /\ news' = TRUE /\ busy' = FALSE
  /\ UNCHANGED <<begun, wait, aborted, registered, port, pasteOf, account, authorized, panel,
                 cancelSent, leaving, historyVars>>

\* login:done takes the panel down, whichever login it shows, and refreshes.
HearDone ==
  /\ news /\ news' = FALSE /\ panel' = Nobody /\ busy' = FALSE
  /\ UNCHANGED <<begun, wait, aborted, registered, port, paste, pasteOf, account, authorized,
                 cancelSent, leaving, historyVars>>

\* Mutant of CancelLogin: the handle is dropped and the wait goes on.
CancelLoginMutant ==
  /\ panel # Nobody /\ ~cancelSent
  /\ registered' = Nobody /\ UNCHANGED aborted
  /\ GivesUp({panel, registered} \ {Nobody}) /\ cancelSent' = TRUE /\ busy' = TRUE
  /\ UNCHANGED <<begun, wait, port, paste, pasteOf, account, authorized, panel, leaving, news>>

\* Cancel, which a paste that is out does not disable.
CancelLogin ==
  /\ panel # Nobody /\ ~cancelSent
  /\ DropsLogin /\ GivesUp({panel, registered} \ {Nobody}) /\ cancelSent' = TRUE /\ busy' = TRUE
  /\ UNCHANGED <<begun, wait, port, paste, pasteOf, account, authorized, panel, leaving, news>>

CancelReturns ==
  /\ cancelSent /\ cancelSent' = FALSE /\ panel' = Nobody /\ busy' = FALSE
  /\ UNCHANGED <<begun, wait, aborted, registered, port, paste, pasteOf, account, authorized,
                 leaving, news, historyVars>>

\* Sign out of a connected account: the login under way, then the credential.
Disconnect ==
  /\ panel = Nobody /\ account # Nobody /\ ~busy /\ ~leaving
  /\ DropsLogin /\ GivesUp({registered} \ {Nobody}) /\ leaving' = TRUE /\ busy' = TRUE
  /\ UNCHANGED <<begun, wait, port, paste, pasteOf, account, authorized, panel, cancelSent, news>>

\* Another screen is shown while no command is out: the panel goes with this one, the login stays.
LeaveScreen ==
  /\ panel # Nobody /\ ~busy /\ panel' = Nobody
  /\ UNCHANGED <<begun, wait, aborted, registered, port, paste, pasteOf, account, authorized,
                 cancelSent, leaving, news, busy, historyVars>>

ClearCredential ==
  /\ leaving /\ leaving' = FALSE /\ account' = Nobody /\ busy' = FALSE
  /\ UNCHANGED <<begun, wait, aborted, registered, port, paste, pasteOf, authorized, panel,
                 cancelSent, news, historyVars>>

-----------------------------------------------------------------------------

\* The terminal, or a vendor's own CLI, gives the port up.
StrangerLeaves ==
  /\ port = Stranger /\ port' = Nobody
  /\ UNCHANGED <<begun, wait, aborted, registered, paste, pasteOf, account, authorized, screenVars, historyVars>>

LoginNext ==
  \/ \E l \in LoginIds :
       \/ SignIn(l) \/ SpawnWait(l) \/ StartLogin(l) \/ Record(l)
       \/ DropWait(l) \/ BindPort(l) \/ Redirect(l) \/ WaitTimesOut(l)
       \/ Exchanged(l) \/ SaveWait(l) \/ Told(l) \/ FinishWait(l)
  \/ \E p \in Pastes : FinishPasted(p) \/ PasteExchanged(p) \/ SavePaste(p) \/ ClearPaste(p) \/ TellPaste(p)
  \/ OpenPage \/ HearDone \/ CancelLogin \/ CancelReturns \/ Disconnect \/ LeaveScreen \/ ClearCredential
  \/ StrangerLeaves

LoginSpec == LoginInit /\ [][LoginNext]_loginVars

-----------------------------------------------------------------------------

\* A wait that still listens or exchanges can be reached and stopped: it is the registered
\* login's, or aborted, or not registered yet - or the finish of another login, which forgets
\* whichever is registered (state.rs:116), forgot it.
LiveWaitsAreHeld ==
  \A l \in LoginIds :
    wait[l] \in Live => \/ l \in aborted \cup orphaned \/ registered = l
                        \/ begun[l] = "spawned"

\* "Drop the handle and the loopback wait. Nothing was stored, so there is nothing to undo"
\* (commands.rs:388): a login the user cancelled stores nothing afterwards, unless a paste was
\* exchanging its code, its credential was being saved, or no handle led to it any more.
GivenUpStaysOut == late \subseteq inDoubt \cup orphaned

\* What a login that was begun is answerable for, until it is over.
LoginsAreAnswerable == LiveWaitsAreHeld /\ GivenUpStaysOut
=============================================================================
