----------------------------- MODULE MCDriving -----------------------------
(***************************************************************************)
(* What a run drives, one part at a time: the navigator over a surface     *)
(* that moves, runs that share the keyboard, browsing runs that share a    *)
(* Chrome, and callers that share an app-server.                           *)
(***************************************************************************)
EXTENDS Navigator, AppRuns, BrowserRuns, CodexClient, TLC

CONSTANTS
  form, wall, challenge, pay, amount, next, pause,   \* surfaces and identities
  drive, routine,                                \* an app run and a routine
  b1, b2, b3, p, q, r,                           \* browsing runs and processes
  turn, login                                    \* callers of the app-server

VARIABLE level

\* A form with a payment, a field and a wait; a sign-in wall with the same button and a
\* destination that is off limits; a challenge that offers nothing.
mcOffers == (form :> {pay, amount, pause}) @@ (wall :> {pay, next}) @@ (challenge :> {})
mcOffLimits == (form :> {}) @@ (wall :> {pay}) @@ (challenge :> {})

mcScript == (drive :> <<>>) @@ (routine :> <<"activate", "wait", "type">>)

mcApart == (b1 :> p) @@ (b2 :> q) @@ (b3 :> r)
mcTogether == (b1 :> p) @@ (b2 :> p)

mcKind == (turn :> "turn") @@ (login :> "login")

drivingVars == <<navVars, appVars, browserVars, codexVars, level>>

DrivingInit ==
  /\ NavigatorInit /\ AppRunsInit /\ BrowserInit /\ CodexInit
  /\ level \in {"navigator", "apps", "browser", "codex"}
  /\ level # "navigator" => surface = form
  /\ level # "browser" => portFile = "none"
  /\ level # "apps" => platform = "mac"

NavigatorAlone == NavigatorNext /\ UNCHANGED <<appVars, browserVars, codexVars>>
AppsAlone == AppRunsNext /\ UNCHANGED <<navVars, browserVars, codexVars>>
BrowserAlone == BrowserNext /\ UNCHANGED <<navVars, appVars, codexVars>>
CodexAlone == CodexNext /\ UNCHANGED <<navVars, appVars, browserVars>>

\* Two runs in one history are looked at by KeyboardSpec.
OneRun == \E d \in Drivers : \A e \in Drivers \ {d} : client'[e] = "off"

DrivingNext ==
  /\ \/ level = "navigator" /\ NavigatorAlone
     \/ level = "apps" /\ AppsAlone /\ OneRun
     \/ level = "browser" /\ BrowserAlone
     \/ level = "codex" /\ CodexAlone
  /\ UNCHANGED level

\* The parts that come to an end by themselves are given their steps.
Works == level = "navigator" /\ Work /\ UNCHANGED <<appVars, browserVars, codexVars, level>>
Runs(d) == level = "apps" /\ RunStep(d) /\ UNCHANGED <<navVars, browserVars, codexVars, level>>
Serves(d) == level = "apps" /\ ActorStep(d) /\ UNCHANGED <<navVars, browserVars, codexVars, level>>

DrivingSpec ==
  /\ DrivingInit /\ [][DrivingNext]_drivingVars
  /\ WF_drivingVars(Works)
  /\ \A d \in Drivers : WF_drivingVars(Runs(d)) /\ WF_drivingVars(Serves(d))

\* One part alone, for the runs that look for one behaviour of it.
KeyboardSpec == DrivingInit /\ [][level = "apps" /\ AppsAlone /\ UNCHANGED level]_drivingVars
ChromeSpec == DrivingInit /\ [][level = "browser" /\ BrowserAlone /\ UNCHANGED level]_drivingVars

-----------------------------------------------------------------------------

\* The types of the four parts.
DrivingTypeOK == NavigatorTypeOK /\ AppRunsTypeOK /\ BrowserTypeOK /\ CodexTypeOK

\* The navigator comes to an end, unless it is handed over at one wall after another for
\* ever; an app run and a routine come to an end, and let go of the keyboard and of their
\* actor.
RunsEnd == (level = "navigator" => EndsOrIsHandedOn) /\ RunsLetGo
=============================================================================
