----------------------------- MODULE Dictation -----------------------------
(***************************************************************************)
(* Dictation in the desktop app: the webview's hook (useDictation.ts), the *)
(* commands it invokes and the one native session they share               *)
(* (src-tauri/src/voice.rs over the capture thread of neo-voice).          *)
(*                                                                         *)
(* A command is a call the hook sends and awaits.  Calls are served on a   *)
(* thread pool, in any order, and one may be answered much later than it   *)
(* is served, or its answer lost, which the hook sees as a rejection.  A   *)
(* call carries the generation of the hook that sent it.  What a session   *)
(* records, its spectrum and the transcriber are left out.                 *)
(***************************************************************************)
EXTENDS Naturals, FiniteSets

CONSTANTS
  MaxGenerations,  \* bound: times the hook starts something
  MaxLost,         \* bound: answers lost on the way
  MaxWedges        \* bound: capture threads stuck in a host call, and detached

ASSUME DictationAssumption == {MaxGenerations, MaxLost, MaxWedges} \subseteq Nat

VARIABLES
  phase,       \* the hook's phase
  generation,  \* the hook's generation
  cancelling,  \* the generation whose cancel is pending, 0 when none is
  polling,     \* a poll is due or asked for
  born,        \* the generation at which this page was loaded
  calls,       \* calls served or not, with where they are
  session,     \* where the native task of the session is, "none" without a session
  startedBy,   \* the generation whose voice_start made it
  voiceStatus, \* Session.status
  broke,       \* Session.error is set
  revoked,     \* Active.cancel
  stopAsked,   \* Active.stop was taken
  verdict,     \* what the task will return
  mic,         \* the session's stream is open
  detached,    \* streams given up on while open
  answersLost,
  overtook     \* history: starts served after a cancel sent later than they were

hookVars    == <<phase, generation, cancelling, polling, born>>
sessionVars == <<session, startedBy, revoked, stopAsked, verdict, mic>>
statusVars  == <<voiceStatus, broke>>
dictationVars == <<hookVars, sessionVars, statusVars, calls, detached, answersLost, overtook>>

Phases  == {"idle", "starting", "listening", "transcribing"}
Places  == {"none", "opening", "opened", "recording", "closing", "sending", "ending"}
Commands == {"start", "stop", "status", "cancel", "giveUp"}  \* giveUp: the cancel of `fail`
Cancels == {"cancel", "giveUp"}

\* The types of the hook, the calls and the session.
DictationTypeOK ==
  /\ phase \in Phases /\ {generation, cancelling, born} \subseteq 0..MaxGenerations
  /\ {polling, broke, revoked, stopAsked, mic} \subseteq BOOLEAN
  /\ calls \subseteq [command : Commands, by : 1..MaxGenerations,
                      at : Phases \cup {"sent", "waiting", "ok", "rejected"}]
  /\ session \in Places /\ startedBy \in 0..MaxGenerations /\ voiceStatus \in Phases
  /\ verdict \in {"text", "error", "cancelled"}
  /\ detached \in 0..MaxWedges /\ answersLost \in 0..MaxLost /\ overtook \subseteq 1..MaxGenerations

DictationInit ==
  /\ phase = "idle" /\ generation = 0 /\ cancelling = 0 /\ polling = FALSE /\ born = 0
  /\ calls = {} /\ session = "none" /\ startedBy = 0 /\ voiceStatus = "idle" /\ broke = FALSE
  /\ revoked = FALSE /\ stopAsked = FALSE /\ verdict = "cancelled" /\ mic = FALSE
  /\ detached = 0 /\ answersLost = 0 /\ overtook = {}

-----------------------------------------------------------------------------
(* The hook. *)

Sent(command, g) == [command |-> command, by |-> g, at |-> "sent"]
Current(c) == c.by = generation

\* The user's three commands each begin a generation: the answers to earlier ones are stale.
\* (A cancel of an idle hook begins one and does nothing else; it is left out.)
Turns(next) == phase' = next /\ generation < MaxGenerations /\ generation' = generation + 1 /\ polling' = FALSE

StartDictation ==
  /\ phase = "idle" /\ cancelling = 0 /\ Turns("starting")
  /\ calls' = calls \cup {Sent("start", generation')}
  /\ UNCHANGED <<cancelling, born, sessionVars, statusVars, detached, answersLost, overtook>>

StopDictation ==
  /\ phase = "listening" /\ cancelling = 0 /\ Turns("transcribing")
  /\ calls' = calls \cup {Sent("stop", generation')}
  /\ UNCHANGED <<cancelling, born, sessionVars, statusVars, detached, answersLost, overtook>>

\* The phase stays until the cancel is answered.
CancelDictation ==
  /\ phase # "idle" /\ cancelling = 0 /\ Turns(phase)
  /\ calls' = calls \cup {Sent("cancel", generation')} /\ cancelling' = generation'
  /\ UNCHANGED <<born, sessionVars, statusVars, detached, answersLost, overtook>>

\* The page is reloaded: a new hook, which hears no answer to the old one's calls.
ReloadHook ==
  /\ generation > born
  /\ phase' = "idle" /\ cancelling' = 0 /\ polling' = FALSE /\ born' = generation
  /\ UNCHANGED <<generation, calls, sessionVars, statusVars, detached, answersLost, overtook>>

\* A tick of the poll's timer.
AskStatus ==
  /\ polling /\ phase = "listening" /\ ~\E c \in calls : c.command = "status" /\ Current(c)
  /\ calls' = calls \cup {Sent("status", generation)}
  /\ UNCHANGED <<hookVars, sessionVars, statusVars, detached, answersLost, overtook>>

\* The hook of this page still awaits the call's answer.
Awaited(c) == c.by > born

\* `fail`: an answer of the present generation that went wrong cancels natively.
Fails(c) ==
  /\ calls' = (calls \ {c}) \cup (IF Current(c) THEN {Sent("giveUp", c.by)} ELSE {})
  /\ polling' = (polling /\ ~Current(c)) /\ UNCHANGED phase

\* A cancel that fails leaves the phase where it was.
Rejected(c) ==
  IF c.command \in Cancels THEN calls' = calls \ {c} /\ UNCHANGED <<phase, polling>> ELSE Fails(c)

PhaseAfter(c) ==
  CASE c.command = "start" -> "listening"
    [] c.command = "status" -> c.at
    [] OTHER -> "idle"

Fulfilled(c) ==
  /\ calls' = calls \ {c}
  /\ phase' = IF Current(c) THEN PhaseAfter(c) ELSE phase
  /\ polling' = IF Current(c) THEN phase' = "listening" ELSE polling

\* An answer reaches the hook; the one to its own cancel lets it start again either way.
Deliver(c) ==
  /\ c \in calls /\ c.at \notin {"sent", "waiting"} /\ Awaited(c)
  /\ \/ (IF c.at = "rejected" THEN Rejected(c) ELSE Fulfilled(c)) /\ UNCHANGED answersLost
     \/ c.at # "rejected" /\ answersLost < MaxLost /\ answersLost' = answersLost + 1 /\ Rejected(c)
  /\ cancelling' = IF c.command = "cancel" /\ cancelling = c.by THEN 0 ELSE cancelling
  /\ UNCHANGED <<generation, born, sessionVars, statusVars, detached, overtook>>

-----------------------------------------------------------------------------
(* The commands. *)

Goes(c, at) == (calls \ {c}) \cup {[c EXCEPT !.at = at]}

\* voice_start: busy, or a new session whose task owns it from here on.
ServeStart(c) ==
  /\ c \in calls /\ c.command = "start" /\ c.at = "sent"
  /\ IF session # "none"
     THEN calls' = Goes(c, "rejected") /\ UNCHANGED <<sessionVars, statusVars>>
     ELSE /\ calls' = Goes(c, "waiting")
          /\ session' = "opening" /\ startedBy' = c.by /\ voiceStatus' = "starting" /\ broke' = FALSE
          /\ revoked' = FALSE /\ stopAsked' = FALSE /\ verdict' = "cancelled" /\ UNCHANGED mic
  /\ UNCHANGED <<hookVars, detached, answersLost, overtook>>

\* voice_stop: refused unless the status is "listening"; it may reach a task past its loop.
ServeStop(c) ==
  /\ c \in calls /\ c.command = "stop" /\ c.at = "sent"
  /\ IF voiceStatus # "listening"
     THEN calls' = Goes(c, "rejected") /\ UNCHANGED <<stopAsked, voiceStatus>>
     ELSE calls' = Goes(c, "waiting") /\ stopAsked' = TRUE /\ voiceStatus' = "transcribing"
  /\ UNCHANGED <<hookVars, session, startedBy, revoked, verdict, mic, broke, detached, answersLost, overtook>>

\* Mutant of ServeStatus: the answer says where the task is.
ServeStatusMutant(c) ==
  /\ c \in calls /\ c.command = "status" /\ c.at = "sent"
  /\ calls' = Goes(c, IF broke THEN "rejected" ELSE session)
  /\ UNCHANGED <<hookVars, sessionVars, statusVars, detached, answersLost, overtook>>

\* voice_status: the last session's error until the next start or cancel, or the status.
ServeStatus(c) ==
  /\ c \in calls /\ c.command = "status" /\ c.at = "sent"
  /\ calls' = Goes(c, IF broke THEN "rejected" ELSE voiceStatus)
  /\ UNCHANGED <<hookVars, sessionVars, statusVars, detached, answersLost, overtook>>

\* Mutant of ServeCancel: acknowledged once the token is cancelled.
ServeCancelAtOnce(c) ==
  /\ c \in calls /\ c.command \in Cancels /\ c.at = "sent"
  /\ calls' = Goes(c, "ok") /\ broke' = FALSE /\ revoked' = (session # "none")
  /\ UNCHANGED overtook
  /\ UNCHANGED <<hookVars, session, startedBy, stopAsked, verdict, mic, voiceStatus, detached, answersLost>>

\* voice_cancel: the token, and the wait for the session's end.
ServeCancel(c) ==
  /\ c \in calls /\ c.command \in Cancels /\ c.at = "sent"
  /\ calls' = Goes(c, IF session = "none" THEN "ok" ELSE "waiting")
  /\ broke' = FALSE /\ revoked' = (session # "none")
  /\ overtook' = overtook \cup {d.by : d \in {d \in calls : d.command = "start" /\ d.at = "sent" /\ d.by <= c.by}}
  /\ UNCHANGED <<hookVars, session, startedBy, stopAsked, verdict, mic, voiceStatus, detached, answersLost>>

\* The window is destroyed: Voice::shutdown.
ShutVoice ==
  /\ session # "none" /\ ~revoked /\ revoked' = TRUE
  /\ UNCHANGED <<hookVars, calls, session, startedBy, stopAsked, verdict, mic, statusVars, detached,
                 answersLost, overtook>>

-----------------------------------------------------------------------------
(* The session's task. *)

Keeps == UNCHANGED <<hookVars, startedBy, revoked, stopAsked, answersLost, overtook>>

\* No key, no device, a cancel seen in time; or the stream runs.
OpenMicrophone ==
  /\ session = "opening"
  /\ \/ session' = "ending" /\ verdict' = (IF revoked THEN "cancelled" ELSE "error") /\ UNCHANGED mic
     \/ session' = "opened" /\ mic' = TRUE /\ UNCHANGED verdict
  /\ Keeps /\ UNCHANGED <<calls, statusVars, detached>>

ReportReady ==
  /\ session = "opened"
  /\ IF revoked THEN session' = "closing" /\ UNCHANGED <<calls, voiceStatus>>
     ELSE /\ session' = "recording" /\ voiceStatus' = "listening"
          /\ calls' = {IF c.command = "start" /\ c.at = "waiting" THEN [c EXCEPT !.at = "ok"] ELSE c : c \in calls}
  /\ Keeps /\ UNCHANGED <<verdict, mic, broke, detached>>

\* Mutant of EndRecording: no MAX_UTTERANCE, and a dead stream goes unnoticed.
EndRecordingMutant ==
  /\ session = "recording" /\ (revoked \/ stopAsked)
  /\ session' = "closing" /\ verdict' = IF revoked THEN "cancelled" ELSE "text"
  /\ Keeps /\ UNCHANGED <<calls, mic, statusVars, detached>>

\* The biased select: a cancel, a stop, then the deadline or a capture that ended.
EndRecording ==
  /\ session = "recording" /\ session' = "closing"
  /\ verdict' = IF revoked THEN "cancelled" ELSE IF stopAsked THEN "text" ELSE "error"
  /\ Keeps /\ UNCHANGED <<calls, mic, statusVars, detached>>

\* Microphone::stop, or its drop: the thread reports, or is detached with the stream open.
CloseMicrophone ==
  /\ session = "closing"
  /\ mic' = FALSE
  /\ \/ UNCHANGED <<detached, verdict>>
     \/ verdict = "text" /\ verdict' = "error" /\ UNCHANGED detached
     \/ /\ detached < MaxWedges /\ detached' = detached + 1
        /\ verdict' = IF verdict = "text" THEN "error" ELSE verdict
  /\ session' = IF verdict' = "text" THEN "sending" ELSE "ending"
  /\ Keeps /\ UNCHANGED <<calls, statusVars>>

\* The transcriber answers, within its own timeout, unless a cancel is seen first.
Transcribe ==
  /\ session = "sending" /\ session' = "ending"
  /\ verdict' \in (IF revoked THEN {"cancelled"} ELSE {"text", "error"})
  /\ Keeps /\ UNCHANGED <<calls, mic, statusVars, detached>>

\* The session is over: its status and error, and everybody who waits for it.
EndSession ==
  /\ session = "ending" /\ session' = "none"
  /\ voiceStatus' = "idle" /\ broke' = (verdict = "error")
  /\ calls' = {IF c.at # "waiting" THEN c
               ELSE [c EXCEPT !.at = IF c.command \in Cancels \/ (c.command = "stop" /\ verdict = "text")
                                     THEN "ok" ELSE "rejected"] : c \in calls}
  /\ Keeps /\ UNCHANGED <<verdict, mic, detached>>

\* A stuck host call comes back.
ReleaseDetached ==
  /\ detached > 0 /\ detached' = detached - 1
  /\ Keeps /\ UNCHANGED <<calls, session, verdict, mic, statusVars>>

Serves(c) == ServeStart(c) \/ ServeStop(c) \/ ServeStatus(c) \/ ServeCancel(c)

\* What the task does by itself; opening a device waits for the host and for the user's permission.
VoiceSettles == ReportReady \/ EndRecording \/ CloseMicrophone \/ Transcribe \/ EndSession

DictationNext ==
  \/ StartDictation \/ StopDictation \/ CancelDictation \/ ReloadHook \/ AskStatus \/ ShutVoice
  \/ \E c \in calls : Deliver(c) \/ Serves(c)
  \/ OpenMicrophone \/ VoiceSettles \/ ReleaseDetached

DictationSpec == DictationInit /\ [][DictationNext]_dictationVars

-----------------------------------------------------------------------------

\* "Do not claim Idle until the native microphone has been released" (useDictation.ts:46): an
\* idle hook has no session, unless its start was served after its cancel, or the page was
\* reloaded in the middle of it.
IdleHoldsNoMicrophone ==
  phase = "idle" /\ session # "none" => startedBy \in overtook \/ startedBy <= born
=============================================================================
