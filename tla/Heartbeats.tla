----------------------------- MODULE Heartbeats -----------------------------
(***************************************************************************)
(* Project heartbeats (neo-agent/src/projects.rs over neo-store's projects *)
(* table).  Every long-running program of the install runs a scheduler     *)
(* that reads the due projects and ticks them one by one; a user may tick  *)
(* one by hand and may configure any project's clock at any moment.  The   *)
(* one slot is an atomic flag in each program and a flock between them.    *)
(* How long a deadline is, and the back-off that stretches it, are left    *)
(* out: a deadline is set, reached, or not set.                            *)
(***************************************************************************)
EXTENDS FiniteSets

CONSTANTS
  Hosts,      \* the programs of one install: terminals, the desktop app
  Projects,
  Idle        \* no project, no runner

ASSUME HeartbeatAssumption == Idle \notin Projects /\ Idle \notin Hosts \X {"timer", "hand"}

\* A program's two ways to a heartbeat: its scheduler, and the user's own command.
Runners == Hosts \X {"timer", "hand"}

VARIABLES
  enabled,    \* projects.heartbeat_enabled
  due,        \* projects.next_due_at: "never" (NULL), "later", "reached"
  up,         \* programs running
  slot,       \* Runtime.heartbeat_running
  locker,     \* the runner whose descriptor has heartbeat.lock
  todo,       \* per scheduler: what is left of the due set it read
  at,         \* per runner: where it is in run_project_heartbeat
  job,        \* per runner: the project it ticks
  wants,      \* per runner: heartbeat_enabled of the Project it holds
  overtaken   \* history: projects enabled under a tick that had read them disabled

heartVars == <<enabled, due, up, slot, locker, todo, at, job, wants, overtaken>>

HostOf(r) == r[1]
HeartPoints == {"idle", "chosen", "slotted", "refused", "locked", "ticking", "done", "unslotted", "unopened"}

\* The types of the clock's rows and of the runners.
HeartbeatTypeOK ==
  /\ enabled \in [Projects -> BOOLEAN]
  /\ due \in [Projects -> {"never", "later", "reached"}]
  /\ up \subseteq Hosts
  /\ slot \in [Hosts -> BOOLEAN]
  /\ locker \in Runners \cup {Idle}
  /\ todo \in [Hosts -> SUBSET Projects]
  /\ at \in [Runners -> HeartPoints]
  /\ job \in [Runners -> Projects \cup {Idle}]
  /\ wants \in [Runners -> BOOLEAN]
  /\ overtaken \subseteq Projects

HeartbeatInit ==
  /\ enabled = [p \in Projects |-> FALSE] /\ due = [p \in Projects |-> "never"]
  /\ up = Hosts /\ slot = [h \in Hosts |-> FALSE] /\ locker = Idle
  /\ todo = [h \in Hosts |-> {}]
  /\ at = [r \in Runners |-> "idle"] /\ job = [r \in Runners |-> Idle]
  /\ wants = [r \in Runners |-> FALSE] /\ overtaken = {}

Steps(r, from, to) == HostOf(r) \in up /\ at[r] = from /\ at' = [at EXCEPT ![r] = to]

\* run_project_heartbeat returns.
Returns(r, from) ==
  /\ Steps(r, from, "idle")
  /\ job' = [job EXCEPT ![r] = Idle] /\ wants' = [wants EXCEPT ![r] = FALSE]

-----------------------------------------------------------------------------
(* The clock. *)

\* A deadline passes.
Elapse(p) ==
  /\ due[p] = "later" /\ due' = [due EXCEPT ![p] = "reached"]
  /\ UNCHANGED <<enabled, up, slot, locker, todo, at, job, wants, overtaken>>

\* configure_heartbeat: the switch and a fresh deadline, in one statement.
Configure(p, on) ==
  /\ enabled' = [enabled EXCEPT ![p] = on]
  /\ due' = [due EXCEPT ![p] = IF on THEN "later" ELSE "never"]
  /\ overtaken' = IF on /\ \E r \in Runners : at[r] = "ticking" /\ job[r] = p /\ ~wants[r]
                  THEN overtaken \cup {p} ELSE overtaken \ {p}
  /\ UNCHANGED <<up, slot, locker, todo, at, job, wants>>

\* Mutant of FinishTick: a tick that ran leaves no deadline behind.
FinishTickMutant(p, on) == due' = [due EXCEPT ![p] = "never"]

\* finish_project_tick, finish_tick: the next deadline, by the Project the tick holds.
FinishTick(p, on) == due' = [due EXCEPT ![p] = IF on THEN "later" ELSE "never"]

-----------------------------------------------------------------------------
(* A heartbeat. *)

\* due: one pass of the scheduler reads the whole due set.
Poll(h) ==
  /\ h \in up /\ at[<<h, "timer">>] = "idle" /\ todo[h] = {}
  /\ todo' = [todo EXCEPT ![h] = {p \in Projects : enabled[p] /\ due[p] = "reached"}]
  /\ UNCHANGED <<enabled, due, up, slot, locker, at, job, wants, overtaken>>

\* The scheduler's next project, or the one the user picked.
Choose(r, p) ==
  /\ Steps(r, "idle", "chosen")
  /\ r[2] = "timer" => p \in todo[HostOf(r)]
  /\ todo' = IF r[2] = "timer" THEN [todo EXCEPT ![HostOf(r)] = @ \ {p}] ELSE todo
  /\ job' = [job EXCEPT ![r] = p]
  /\ wants' = [wants EXCEPT ![r] = r[2] = "timer"]
  /\ UNCHANGED <<enabled, due, up, slot, locker, overtaken>>

\* The compare_exchange on heartbeat_running.
TakeSlot(r) ==
  /\ \/ ~slot[HostOf(r)] /\ Steps(r, "chosen", "slotted") /\ slot' = [slot EXCEPT ![HostOf(r)] = TRUE]
     \/ slot[HostOf(r)] /\ Steps(r, "chosen", "refused") /\ UNCHANGED slot
  /\ UNCHANGED <<enabled, due, up, locker, todo, job, wants, overtaken>>

\* Mutant of TakeLock: the flag is not put back when the lock is another's.
TakeLockLeaks(r) ==
  /\ \/ locker = Idle /\ Steps(r, "slotted", "locked") /\ locker' = r
     \/ locker # Idle /\ Steps(r, "slotted", "refused") /\ UNCHANGED locker
  /\ UNCHANGED <<enabled, due, up, slot, todo, job, wants, overtaken>>

\* Mutant of TakeLock: the flag alone makes the slot.
TakeLockBlind(r) ==
  /\ Steps(r, "slotted", "locked") /\ locker' = r
  /\ UNCHANGED <<enabled, due, up, slot, todo, job, wants, overtaken>>

\* open and flock of heartbeat.lock, without waiting: any failure frees the flag.
TakeLock(r) ==
  /\ \/ locker = Idle /\ Steps(r, "slotted", "locked") /\ locker' = r /\ UNCHANGED slot
     \/ /\ locker # Idle /\ Steps(r, "slotted", "refused")
        /\ slot' = [slot EXCEPT ![HostOf(r)] = FALSE] /\ UNCHANGED locker
     \/ /\ Steps(r, "slotted", "unopened")
        /\ slot' = [slot EXCEPT ![HostOf(r)] = FALSE] /\ UNCHANGED locker
  /\ UNCHANGED <<enabled, due, up, todo, job, wants, overtaken>>

\* Busy: the scheduler records the drop, with the Project it read in its poll; the
\* write may fail.  A lock file that did not open is only an error.
Drop(r) ==
  /\ \/ Returns(r, "refused") /\ r[2] = "timer" /\ FinishTick(job[r], wants[r])
     \/ Returns(r, "refused") /\ UNCHANGED due
     \/ Returns(r, "unopened") /\ UNCHANGED due
  /\ UNCHANGED <<enabled, up, slot, locker, todo, overtaken>>

\* run_project_heartbeat_inner reads the row; the project or its files may be gone.
ReadProject(r) ==
  /\ Steps(r, "locked", "ticking") \/ Steps(r, "locked", "done")
  /\ wants' = [wants EXCEPT ![r] = enabled[job[r]]]
  /\ UNCHANGED <<enabled, due, up, slot, locker, todo, job, overtaken>>

\* The turn is over, whatever its outcome; or its tick could not be written.
EndTick(r) ==
  /\ Steps(r, "ticking", "done")
  /\ FinishTick(job[r], wants[r]) \/ UNCHANGED due
  /\ UNCHANGED <<enabled, up, slot, locker, todo, job, wants, overtaken>>

\* Slot::drop, then its file.
FreeSlot(r) ==
  /\ Steps(r, "done", "unslotted")
  /\ slot' = [slot EXCEPT ![HostOf(r)] = FALSE]
  /\ UNCHANGED <<enabled, due, up, locker, todo, job, wants, overtaken>>

Unlock(r) ==
  /\ Returns(r, "unslotted")
  /\ locker' = Idle
  /\ UNCHANGED <<enabled, due, up, slot, todo, overtaken>>

\* A program dies, or is quit in the middle of a tick; it may be started again.
Die(h) ==
  /\ h \in up /\ up' = up \ {h}
  /\ slot' = [slot EXCEPT ![h] = FALSE] /\ todo' = [todo EXCEPT ![h] = {}]
  /\ at' = [r \in Runners |-> IF HostOf(r) = h THEN "idle" ELSE at[r]]
  /\ job' = [r \in Runners |-> IF HostOf(r) = h THEN Idle ELSE job[r]]
  /\ wants' = [r \in Runners |-> HostOf(r) # h /\ wants[r]]
  /\ locker' = IF locker # Idle /\ locker[1] = h THEN Idle ELSE locker
  /\ UNCHANGED <<enabled, due, overtaken>>

Start(h) ==
  /\ h \notin up /\ up' = up \cup {h}
  /\ UNCHANGED <<enabled, due, slot, locker, todo, at, job, wants, overtaken>>

HeartbeatNext ==
  \/ \E p \in Projects : Elapse(p) \/ \E on \in BOOLEAN : Configure(p, on)
  \/ \E h \in Hosts : Poll(h) \/ Die(h) \/ Start(h)
  \/ \E r \in Runners :
       \/ TakeSlot(r) \/ TakeLock(r) \/ Drop(r) \/ ReadProject(r) \/ EndTick(r) \/ FreeSlot(r) \/ Unlock(r)
       \/ \E p \in Projects : Choose(r, p)

HeartbeatSpec == HeartbeatInit /\ [][HeartbeatNext]_heartVars

-----------------------------------------------------------------------------
(* Properties. *)

\* "The install-wide slot makes the keyboard and managed browser single-owner"
\* (projects.rs:191): no two heartbeats of an install run at once, in one program
\* or in two, whoever dies.
OneHeartbeat ==
  \A r, s \in Runners : at[r] \in {"locked", "ticking"} /\ at[s] \in {"locked", "ticking"} => r = s

\* Every way out of run_project_heartbeat puts the flag back: a program whose
\* runners are all outside it is never Busy for good.
SlotIsFreed ==
  \A h \in Hosts : slot[h] =>
    \E r \in Runners : HostOf(r) = h /\ at[r] \in {"slotted", "locked", "ticking", "done"}

\* Heartbeats take turns, and a turn that is over is free for the next.
HeartbeatsTakeTurns == OneHeartbeat /\ SlotIsFreed

\* "every completed/skipped tick writes its next deadline from its finish time"
\* (projects.rs:346): a project that is switched on has a deadline, but for the one
\* interleaving that loses it: it was switched on while a tick by hand, which had
\* read it switched off, was running.
ScheduledUnlessOvertaken == \A p \in Projects : enabled[p] /\ due[p] = "never" => p \in overtaken
=============================================================================
