-------------------------- MODULE ScreenExclusion --------------------------
(***************************************************************************)
(* What the screen lease promises, with no file, no lock and no scope      *)
(* number in it: the keyboard belongs to one crew at a time.  A crew is    *)
(* the task that took the screen together with the work it invited, or     *)
(* that runs under the same run id; all of it lives in one process.        *)
(* ScreenLease is shown to implement this specification.                   *)
(***************************************************************************)
CONSTANTS Procs, Tasks, Runs, HomeOf, RunOf, NoRun

VARIABLES users,    \* the tasks that may drive the keyboard now
          leader,   \* the run that took the screen, NoRun when it is free
          invited   \* the tasks the crew has asked in during this hold

exclusionVars == <<users, leader, invited>>

Init == users = {} /\ leader = NoRun /\ invited = {}

Colleagues(t) == {u \in Tasks : HomeOf[u] = HomeOf[t]}

Take(t) ==
  /\ users = {} /\ leader = NoRun
  /\ users' = {t} /\ leader' = RunOf[t] /\ invited' = {}

Join(t) ==
  /\ users # {} /\ t \notin users
  /\ users \subseteq Colleagues(t)
  /\ t \in invited \/ RunOf[t] = leader
  /\ users' = users \cup {t}
  /\ UNCHANGED <<leader, invited>>

Invite(t, u) ==
  /\ t \in users /\ u \in Colleagues(t)
  /\ invited' = invited \cup {u}
  /\ UNCHANGED <<users, leader>>

Leave(t) ==
  /\ t \in users
  /\ users' = users \ {t}
  /\ IF users' = {} THEN leader' = NoRun /\ invited' = {}
                    ELSE UNCHANGED <<leader, invited>>

\* A process dies with everything in it.
Die(p) ==
  /\ users # {} /\ \A t \in users : HomeOf[t] = p
  /\ users' = {} /\ leader' = NoRun /\ invited' = {}

Next ==
  \/ \E t \in Tasks : Take(t) \/ Join(t) \/ Leave(t)
  \/ \E t, u \in Tasks : Invite(t, u)
  \/ \E p \in Procs : Die(p)

Exclusion == Init /\ [][Next]_exclusionVars
=============================================================================
