---------------------------- MODULE ScreenLease ----------------------------
(***************************************************************************)
(* The screen lease of crates/neo-agent/src/screen.rs.                     *)
(*                                                                         *)
(* Every Starkbot process (the TUI, the desktop app, the CLI, the daemon)  *)
(* keeps one ScreenLease: a mutex over `Option<Held>`.  Above depth zero   *)
(* the process owns an exclusive flock on <data_dir>/screen.lock.  A task  *)
(* is one piece of work that may hold one ScreenGuard; it belongs to a     *)
(* process (HomeOf) and runs under a RunId (RunOf).                        *)
(*                                                                         *)
(* The mutex makes everything one process does to its own state atomic,    *)
(* but the lock file is shared: the flock, the write of the holder record, *)
(* the truncation and the close are separate steps here, and any other     *)
(* process may act, or die, between two of them.                           *)
(***************************************************************************)
EXTENDS Integers, FiniteSets

CONSTANTS
  Procs,      \* the processes sharing one data directory
  Tasks,      \* pieces of work that can hold a guard
  Runs,       \* run ids
  HomeOf,     \* the process a task runs in
  RunOf,      \* the run id a task runs under
  NoProc, NoTask, NoRun, NoHold, NoRecord,
  MaxScope,   \* bound: scopes minted by one process between two crashes
  MaxPid      \* bound: incarnations of one process

ASSUME LeaseAssumption ==
  /\ HomeOf \in [Tasks -> Procs]
  /\ RunOf \in [Tasks -> Runs]
  /\ IsFiniteSet(Tasks)
  /\ NoProc \notin Procs /\ NoTask \notin Tasks /\ NoRun \notin Runs
  /\ MaxScope \in Nat /\ MaxPid \in Nat
  /\ NoHold \notin [run : Runs, depth : Nat, scope : Nat]
  /\ NoRecord \notin [proc : Procs, pid : Nat, run : Runs]

NoScope == 0

VARIABLES
  lock,       \* the process whose descriptor has the exclusive flock
  sharers,    \* the processes whose probe has the shared flock
  record,     \* what screen.lock contains: a Holder, or nothing readable
  held,       \* per process: the Option<Held> behind the mutex
  pc,         \* per process: where the thread inside the mutex is
  who,        \* per process: the task that thread acquires for
  guard,      \* per task: the scope of its live ScreenGuard, or NoScope
  given,      \* per task: the ScreenScope it was handed, or NoScope
  nextScope,  \* per process: NEXT_SCOPE
  pid         \* per process: its process id

leaseVars == <<lock, sharers, record, held, pc, who, guard, given, nextScope, pid>>

Scopes  == Nat
Holders == [proc : Procs, pid : Nat, run : Runs]
Holds   == [run : Runs, depth : Nat, scope : Nat]
Points  == {"idle", "flock", "refused", "write", "clear", "close"}

LeaseTypeOK ==
  /\ lock \in Procs \cup {NoProc}
  /\ sharers \in SUBSET Procs
  /\ record \in Holders \cup {NoRecord}
  /\ held \in [Procs -> Holds \cup {NoHold}]
  /\ pc \in [Procs -> Points]
  /\ who \in [Procs -> Tasks \cup {NoTask}]
  /\ guard \in [Tasks -> Scopes]
  /\ given \in [Tasks -> Scopes]
  /\ nextScope \in [Procs -> Nat \ {0}]
  /\ pid \in [Procs -> Nat]

\* Mutant of Init: scopes counted from zero, the value that means "none".
InitMutant ==
  /\ lock = NoProc /\ sharers = {} /\ record = NoRecord
  /\ held = [p \in Procs |-> NoHold]
  /\ pc = [p \in Procs |-> "idle"] /\ who = [p \in Procs |-> NoTask]
  /\ guard = [t \in Tasks |-> NoScope] /\ given = [t \in Tasks |-> NoScope]
  /\ nextScope = [p \in Procs |-> 0] /\ pid = [p \in Procs |-> 0]

Init ==
  /\ lock = NoProc
  /\ sharers = {}
  /\ record = NoRecord
  /\ held = [p \in Procs |-> NoHold]
  /\ pc = [p \in Procs |-> "idle"]
  /\ who = [p \in Procs |-> NoTask]
  /\ guard = [t \in Tasks |-> NoScope]
  /\ given = [t \in Tasks |-> NoScope]
  /\ nextScope = [p \in Procs |-> 1]
  /\ pid = [p \in Procs |-> 0]

-----------------------------------------------------------------------------
Holding(t)   == guard[t] # NoScope
Guards(p)    == {t \in Tasks : HomeOf[t] = p /\ Holding(t)}
\* `scope` as acquire_within takes it: nothing, or the one that was handed down.
Presented(t) == {NoScope, given[t]}
\* Mutant of Admits: the older rule, anything in the holding process may join.
AdmitsMutant(h, t, scope) == TRUE
Admits(h, t, scope) == scope = h.scope \/ RunOf[t] = h.run
HolderOf(p, run) == [proc |-> p, pid |-> pid[p], run |-> run]

\* acquire_within with the process's own hold in place: the holder's work, or
\* work it handed its scope to, is counted in.  Anything else is refused there
\* and then, which changes nothing.
Nest(t) ==
  LET p == HomeOf[t] IN
  /\ pc[p] = "idle" /\ held[p] # NoHold /\ ~Holding(t)
  /\ \E scope \in Presented(t) : Admits(held[p], t, scope)
  /\ held' = [held EXCEPT ![p].depth = @ + 1]
  /\ guard' = [guard EXCEPT ![t] = held[p].scope]
  /\ UNCHANGED <<lock, sharers, record, pc, who, given, nextScope, pid>>

\* acquire_within with nothing held: the lock file is opened, the mutex stays taken.
OpenLockFile(t) ==
  LET p == HomeOf[t] IN
  /\ pc[p] = "idle" /\ held[p] = NoHold /\ nextScope[p] <= MaxScope
  /\ pc' = [pc EXCEPT ![p] = "flock"]
  /\ who' = [who EXCEPT ![p] = t]
  /\ UNCHANGED <<lock, sharers, record, held, guard, given, nextScope, pid>>

\* Mutant of TryFlock: an ineffective lock.
TryFlockUnlocked(p) ==
  /\ pc[p] = "flock"
  /\ lock' = p /\ pc' = [pc EXCEPT ![p] = "write"]
  /\ UNCHANGED <<sharers, record, held, who, guard, given, nextScope, pid>>

\* flock(NonBlockingLockExclusive) fails while any descriptor has the lock, shared or not.
TryFlock(p) ==
  /\ pc[p] = "flock"
  /\ IF lock = NoProc /\ sharers = {}
     THEN lock' = p /\ pc' = [pc EXCEPT ![p] = "write"]
     ELSE lock' = lock /\ pc' = [pc EXCEPT ![p] = "refused"]
  /\ UNCHANGED <<sharers, record, held, who, guard, given, nextScope, pid>>

\* The refusal quotes whatever record the file has by now.
ReadHolder(p) ==
  /\ pc[p] = "refused"
  /\ pc' = [pc EXCEPT ![p] = "idle"]
  /\ who' = [who EXCEPT ![p] = NoTask]
  /\ UNCHANGED <<lock, sharers, record, held, guard, given, nextScope, pid>>

\* write_holder is best effort: it truncates, and the write after it may fail.
\* The scope is minted, the hold recorded and the guard handed out.
WriteHolder(p) ==
  /\ pc[p] = "write"
  /\ record' \in {HolderOf(p, RunOf[who[p]]), NoRecord}
  /\ held' = [held EXCEPT ![p] = [run |-> RunOf[who[p]], depth |-> 1, scope |-> nextScope[p]]]
  /\ guard' = [guard EXCEPT ![who[p]] = nextScope[p]]
  /\ nextScope' = [nextScope EXCEPT ![p] = @ + 1]
  /\ pc' = [pc EXCEPT ![p] = "idle"]
  /\ who' = [who EXCEPT ![p] = NoTask]
  /\ UNCHANGED <<lock, sharers, given, pid>>

\* Drop of a ScreenGuard.  The last one takes the Held out and goes on, still
\* inside the mutex, to clear the record and close the file.
Release(t) ==
  LET p == HomeOf[t] IN
  /\ Holding(t) /\ pc[p] = "idle" /\ held[p] # NoHold
  /\ guard' = [guard EXCEPT ![t] = NoScope]
  /\ IF held[p].depth > 1
     THEN held' = [held EXCEPT ![p].depth = @ - 1] /\ pc' = pc
     ELSE held' = [held EXCEPT ![p] = NoHold] /\ pc' = [pc EXCEPT ![p] = "clear"]
  /\ UNCHANGED <<lock, sharers, record, who, given, nextScope, pid>>

\* Mutant of ClearRecord: the record is left behind.
ClearRecordMutant(p) ==
  /\ pc[p] = "clear"
  /\ pc' = [pc EXCEPT ![p] = "close"]
  /\ UNCHANGED <<lock, sharers, record, held, who, guard, given, nextScope, pid>>

ClearRecord(p) ==
  /\ pc[p] = "clear"
  /\ record' = NoRecord
  /\ pc' = [pc EXCEPT ![p] = "close"]
  /\ UNCHANGED <<lock, sharers, held, who, guard, given, nextScope, pid>>

\* Mutant of CloseFile: the descriptor is kept open.
CloseFileMutant(p) ==
  /\ pc[p] = "close"
  /\ pc' = [pc EXCEPT ![p] = "idle"]
  /\ UNCHANGED <<lock, sharers, record, held, who, guard, given, nextScope, pid>>

CloseFile(p) ==
  /\ pc[p] = "close"
  /\ lock' = NoProc
  /\ pc' = [pc EXCEPT ![p] = "idle"]
  /\ UNCHANGED <<sharers, record, held, who, guard, given, nextScope, pid>>

\* A holder passes ScreenGuard::scope to work it starts in its own process.
HandDown(t, u) ==
  /\ Holding(t) /\ HomeOf[u] = HomeOf[t] /\ u # t
  /\ given' = [given EXCEPT ![u] = guard[t]]
  /\ UNCHANGED <<lock, sharers, record, held, pc, who, guard, nextScope, pid>>

\* holder(): with nothing held here, the file is probed with a shared lock.
Probe(p) ==
  /\ pc[p] = "idle" /\ held[p] = NoHold /\ p \notin sharers
  /\ lock = NoProc
  /\ sharers' = sharers \cup {p}
  /\ UNCHANGED <<lock, record, held, pc, who, guard, given, nextScope, pid>>

EndProbe(p) ==
  /\ p \in sharers
  /\ sharers' = sharers \ {p}
  /\ UNCHANGED <<lock, record, held, pc, who, guard, given, nextScope, pid>>

\* The process dies at any point: the kernel closes its descriptors, the record
\* stays, and the process that starts in its place counts scopes from one.
Crash(p) ==
  /\ pid[p] < MaxPid
  /\ pid' = [pid EXCEPT ![p] = @ + 1]
  /\ lock' = IF lock = p THEN NoProc ELSE lock
  /\ sharers' = sharers \ {p}
  /\ held' = [held EXCEPT ![p] = NoHold]
  /\ pc' = [pc EXCEPT ![p] = "idle"]
  /\ who' = [who EXCEPT ![p] = NoTask]
  /\ guard' = [t \in Tasks |-> IF HomeOf[t] = p THEN NoScope ELSE guard[t]]
  /\ given' = [t \in Tasks |-> IF HomeOf[t] = p THEN NoScope ELSE given[t]]
  /\ nextScope' = [nextScope EXCEPT ![p] = 1]
  /\ UNCHANGED record

\* What a thread inside the mutex goes on to do; nothing in the process can stop it.
Inside(p) ==
  TryFlock(p) \/ ReadHolder(p) \/ WriteHolder(p) \/ ClearRecord(p) \/ CloseFile(p)

Next ==
  \/ \E t \in Tasks : Nest(t) \/ OpenLockFile(t) \/ Release(t)
  \/ \E t, u \in Tasks : HandDown(t, u)
  \/ \E p \in Procs : Inside(p) \/ Probe(p) \/ EndProbe(p) \/ Crash(p)

Spec == Init /\ [][Next]_leaseVars

\* A thread that is running goes on running, and a guard is a value on a stack:
\* the work it protects ends and drops it.
Fairness ==
  /\ \A p \in Procs : WF_leaseVars(Inside(p)) /\ WF_leaseVars(EndProbe(p))
  /\ \A t \in Tasks : WF_leaseVars(Release(t))

FairSpec == Spec /\ Fairness

-----------------------------------------------------------------------------
(* Properties *)

\* screen.rs:1-9.  One piece of work at a time has the keyboard: two live
\* guards are always in one process and in one hold of the screen.
OneHoldAtATime ==
  \A t, u \in Tasks : Holding(t) /\ Holding(u) => HomeOf[t] = HomeOf[u] /\ guard[t] = guard[u]

\* screen.rs:153-162, 292-308.  A live guard is backed by the file lock and
\* counted: `depth` is the number of live guards, so the lock goes with the last
\* one and not before it, and never stays behind it.
GuardsAreCounted ==
  \A p \in Procs :
    /\ (held[p] # NoHold) <=> (Guards(p) # {})
    /\ held[p] # NoHold => /\ held[p].depth = Cardinality(Guards(p))
                           /\ lock = p
                           /\ \A t \in Guards(p) : guard[t] = held[p].scope

\* screen.rs:303-304.  The record never names a process that is still running
\* and has already given the screen up (or never had it): whoever it names,
\* unless that process died, owns the lock.
RecordNamesTheOwner ==
  record # NoRecord /\ record.pid = pid[record.proc] => lock = record.proc

\* screen.rs:76-86.  A scope lets its bearer into the hold it was minted for
\* and into no later one: the next hold's number has been handed to nobody.
NextScopeIsFresh ==
  \A t \in Tasks : given[t] < nextScope[HomeOf[t]] /\ guard[t] < nextScope[HomeOf[t]]

\* screen.rs:21-24.  A released, crashed or killed hold cannot wedge the
\* machine: a process that owns the lock and has no guard soon gives it back
\* (or is granted the guard it was acquiring).
LockIsNotLeaked ==
  \A p \in Procs : (lock = p /\ Guards(p) = {}) ~> (lock # p \/ Guards(p) # {})

\* Who drives, under which run, and whom the live hold has handed its scope to.
Users == {t \in Tasks : Holding(t)}
Leader == IF \E p \in Procs : held[p] # NoHold
          THEN held[CHOOSE p \in Procs : held[p] # NoHold].run ELSE NoRun
Invited == {t \in Tasks : held[HomeOf[t]] # NoHold /\ given[t] = held[HomeOf[t]].scope}

Promise == INSTANCE ScreenExclusion
  WITH users <- Users, leader <- Leader, invited <- Invited

\* screen.rs:26-41.  The lease implements the promise: a stranger never joins a
\* hold, whatever scope an earlier hold left it with.
KeepsThePromise == Promise!Exclusion
=============================================================================
