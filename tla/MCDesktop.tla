----------------------------- MODULE MCDesktop -----------------------------
(***************************************************************************)
(* What the desktop app shares with its webview and with the other windows *)
(* of the install, one part at a time: the control socket, the window's    *)
(* mode, the microphone, the logins.                                       *)
(***************************************************************************)
EXTENDS ControlSocket, WindowControl, Dictation, Logins

VARIABLE part   \* the one this behaviour is about

desktopVars == <<doorVars, modeVars, dictationVars, loginVars, part>>

DesktopInit ==
  /\ DoorInit /\ ModeInit /\ DictationInit /\ LoginInit
  /\ part \in {"door", "window", "voice", "logins"}
  /\ part # "window" => ~compositor
  /\ part # "logins" => port = Nobody

Door(action)    == part = "door" /\ action /\ UNCHANGED <<modeVars, dictationVars, loginVars, part>>
Window(action)  == part = "window" /\ action /\ UNCHANGED <<doorVars, dictationVars, loginVars, part>>
Voice(action)   == part = "voice" /\ action /\ UNCHANGED <<doorVars, modeVars, loginVars, part>>
Signing(action) == part = "logins" /\ action /\ UNCHANGED <<doorVars, modeVars, dictationVars, part>>

DesktopNext == Door(DoorNext) \/ Window(ModeNext) \/ Voice(DictationNext) \/ Signing(LoginNext)

\* A dictation's task goes on, and so does a wait that was aborted or is past its deadline.
Settles == Voice(VoiceSettles) \/ Signing(\E l \in LoginIds : DropWait(l) \/ WaitTimesOut(l))

DesktopSpec == DesktopInit /\ [][DesktopNext]_desktopVars /\ WF_desktopVars(Settles)

-----------------------------------------------------------------------------

\* The types of the four parts.
DesktopTypeOK == DoorTypeOK /\ ModeTypeOK /\ DictationTypeOK /\ LoginTypeOK

\* What is taken is given back in the end: the microphone by a recording nobody looks at, the
\* callback port by a login nobody finishes.
TakenIsGivenBack == (mic \/ port \in LoginIds) ~> (~mic /\ port \notin LoginIds)
=============================================================================
