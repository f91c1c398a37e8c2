--------------------------- MODULE ControlSocket ---------------------------
(***************************************************************************)
(* The desktop app's control socket (src-tauri/src/control.rs and the ends *)
(* of main.rs): one path beside the store, and the windows opened on that  *)
(* store, each of which probes it, may clear it, binds it and removes it.  *)
(*                                                                         *)
(* `door` is what the path names: nothing, or the socket a window bound,   *)
(* which outlives the window as a file nobody answers at.  exists, connect,*)
(* remove_file and bind are system calls of their own, so steps of their   *)
(* own.  A window that could not take the socket lives without one.        *)
(***************************************************************************)
CONSTANTS
  Windows,   \* the times the app is started on one data directory
  NoFile

ASSUME DoorAssumption == NoFile \notin Windows

VARIABLES
  door,        \* the socket file: the window that bound it, or NoFile
  life,        \* per window: where its process is
  contested    \* history: windows that listened while another ended, or bound the path while
               \* another was about to clear it

doorVars == <<door, life, contested>>

Lives == {"closed", "looking", "knocking", "clearing", "binding", "bound", "serving", "doorless",
          "ending", "left", "killed"}

\* The socket's state keeps its types.
DoorTypeOK == door \in Windows \cup {NoFile} /\ life \in [Windows -> Lives] /\ contested \subseteq Windows

DoorInit == door = NoFile /\ life = [w \in Windows |-> "closed"] /\ contested = {}

Moves(w, from, to) == life[w] \in from /\ life' = [life EXCEPT ![w] = to]

\* A connect to this file is accepted: the kernel answers for any listening socket.
Listens(f) == f # NoFile /\ life[f] \in {"bound", "serving"}

Launch(w) == Moves(w, {"closed"}, "looking") /\ UNCHANGED <<door, contested>>

\* `socket.exists()`
Look(w) ==
  /\ Moves(w, {"looking"}, IF door = NoFile THEN "binding" ELSE "knocking")
  /\ UNCHANGED <<door, contested>>

\* Mutant of Knock: whatever is at the path is taken for a crash's leavings.
KnockMutant(w) == Moves(w, {"knocking"}, "clearing") /\ UNCHANGED <<door, contested>>

\* Somebody answers: AddrInUse.
Knock(w) ==
  /\ Moves(w, {"knocking"}, IF Listens(door) THEN "doorless" ELSE "clearing")
  /\ UNCHANGED <<door, contested>>

\* `remove_file(socket)?`, whatever the path names by now.
Clear(w) ==
  /\ Moves(w, {"clearing"}, IF door = NoFile THEN "doorless" ELSE "binding")
  /\ door' = NoFile
  /\ UNCHANGED contested

Bind(w) ==
  /\ Moves(w, {"binding"}, IF door = NoFile THEN "bound" ELSE "doorless")
  /\ IF door = NoFile
     THEN /\ door' = w
          /\ contested' = IF \E v \in Windows \ {w} : life[v] = "clearing" THEN contested \cup {w} ELSE contested
     ELSE UNCHANGED <<door, contested>>

\* set_permissions names the path, not the descriptor: gone from there, the listener is dropped.
SetMode(w) ==
  /\ Moves(w, {"bound"}, IF door = NoFile THEN "doorless" ELSE "serving")
  /\ UNCHANGED <<door, contested>>

\* The event loop returned, or the app could not be built at all.
End(w) == Moves(w, {"closed", "serving", "doorless"}, "ending") /\ UNCHANGED <<door, contested>>

\* `remove_file(&socket)` at the end of main, and the process exits.
Unlink(w) ==
  /\ Moves(w, {"ending"}, "left")
  /\ door' = NoFile
  /\ contested' = contested \cup {v \in Windows : life[v] \in {"bound", "serving"}}

\* A process that exits without returning to main.
Kill(w) == Moves(w, Lives \ {"closed", "left", "killed"}, "killed") /\ UNCHANGED <<door, contested>>

DoorNext ==
  \E w \in Windows :
    Launch(w) \/ Look(w) \/ Knock(w) \/ Clear(w) \/ Bind(w) \/ SetMode(w) \/ End(w) \/ Unlink(w) \/ Kill(w)

DoorSpec == DoorInit /\ [][DoorNext]_doorVars

\* control.rs:134 "Take the socket, refusing to steal one that is already being served": a window
\* loses the path only to another that ended, or to one that had probed it before the first bound
\* it.  A window opened beside one that serves never takes it.
DoorHoldsUnlessContested ==
  \A w \in Windows : life[w] = "serving" /\ w \notin contested => door = w
=============================================================================
