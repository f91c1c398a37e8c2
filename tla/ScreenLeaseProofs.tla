------------------------- MODULE ScreenLeaseProofs -------------------------
(***************************************************************************)
(* For any number of processes and tasks, any assignment of tasks to       *)
(* processes and runs, and any bounds: the screen lease is exclusive, its  *)
(* depth counts its guards, its record is truthful about live processes,   *)
(* and its scopes never repeat within a process's life.                    *)
(*                                                                         *)
(* None of these is inductive alone.  The strengthening ties together the  *)
(* three things the code keeps apart: the kernel's lock, the Option<Held>  *)
(* behind the mutex, and the guards scattered over the tasks.              *)
(***************************************************************************)
EXTENDS ScreenLease, FiniteSetTheorems, TLAPS

\* The lock is where the hold is, or where a thread is about to make or end one.
OwnerInv ==
  \A p \in Procs :
    /\ lock = p <=> (held[p] # NoHold \/ pc[p] \in {"write", "clear", "close"})
    /\ held[p] # NoHold => pc[p] = "idle"
    /\ pc[p] \in {"flock", "refused", "write"} => who[p] \in Tasks /\ HomeOf[who[p]] = p

\* Every guard belongs to its process's hold, and the hold counts them.
GuardInv ==
  /\ \A t \in Tasks : Holding(t) => /\ held[HomeOf[t]] # NoHold
                                    /\ guard[t] = held[HomeOf[t]].scope
  /\ \A p \in Procs : held[p] # NoHold => /\ held[p].depth = Cardinality(Guards(p))
                                          /\ held[p].depth > 0
                                          /\ held[p].scope > 0
                                          /\ held[p].scope < nextScope[p]

RecordInv ==
  record # NoRecord =>
    /\ record.pid <= pid[record.proc]
    /\ record.pid = pid[record.proc] =>
         lock = record.proc /\ pc[record.proc] \in {"idle", "clear"}

LeaseInv == LeaseTypeOK /\ OwnerInv /\ GuardInv /\ RecordInv /\ NextScopeIsFresh

-----------------------------------------------------------------------------
LEMMA GuardsFinite ==
  ASSUME NEW p PROVE IsFiniteSet(Guards(p)) /\ Cardinality(Guards(p)) \in Nat
  <1>1. Guards(p) \subseteq Tasks  BY DEF Guards
  <1>2. IsFiniteSet(Tasks)  BY LeaseAssumption
  <1>3. QED  BY <1>1, <1>2, FS_Subset, FS_CardinalityType

LEMMA LeaseInitOK == Init => LeaseInv
  <1> SUFFICES ASSUME Init PROVE LeaseInv  OBVIOUS
  <1>1. LeaseTypeOK  BY LeaseAssumption DEF Init, LeaseTypeOK, NoScope, Scopes, Points
  <1>2. OwnerInv  BY LeaseAssumption DEF Init, OwnerInv
  <1>3. GuardInv  BY LeaseAssumption DEF Init, GuardInv, Holding
  <1>4. RecordInv  BY DEF Init, RecordInv
  <1>5. NextScopeIsFresh  BY LeaseAssumption DEF Init, NextScopeIsFresh, NoScope
  <1>6. QED  BY <1>1, <1>2, <1>3, <1>4, <1>5 DEF LeaseInv

\* Type correctness is inductive by itself but for who[p], which OwnerInv types.
LEMMA LeaseTypeStep ==
  ASSUME LeaseInv, [Next]_leaseVars PROVE LeaseTypeOK'
  <1> USE LeaseAssumption DEF LeaseInv, LeaseTypeOK, Scopes, Points, Holders, Holds, NoScope
  <1>1. ASSUME NEW t \in Tasks, Nest(t) PROVE LeaseTypeOK'
    BY <1>1 DEF Nest
  <1>2. ASSUME NEW t \in Tasks, OpenLockFile(t) PROVE LeaseTypeOK'
    BY <1>2 DEF OpenLockFile
  <1>3. ASSUME NEW t \in Tasks, Release(t) PROVE LeaseTypeOK'
    BY <1>3 DEF Release
  <1>4. ASSUME NEW t \in Tasks, NEW u \in Tasks, HandDown(t, u) PROVE LeaseTypeOK'
    BY <1>4 DEF HandDown
  <1>5. ASSUME NEW p \in Procs, TryFlock(p) PROVE LeaseTypeOK'
    BY <1>5 DEF TryFlock
  <1>6. ASSUME NEW p \in Procs, ReadHolder(p) PROVE LeaseTypeOK'
    BY <1>6 DEF ReadHolder
  <1>7. ASSUME NEW p \in Procs, WriteHolder(p) PROVE LeaseTypeOK'
    BY <1>7 DEF WriteHolder, HolderOf, OwnerInv
  <1>8. ASSUME NEW p \in Procs, ClearRecord(p) PROVE LeaseTypeOK'
    BY <1>8 DEF ClearRecord
  <1>9. ASSUME NEW p \in Procs, CloseFile(p) PROVE LeaseTypeOK'
    BY <1>9 DEF CloseFile
  <1>10. ASSUME NEW p \in Procs, Probe(p) \/ EndProbe(p) PROVE LeaseTypeOK'
    BY <1>10 DEF Probe, EndProbe
  <1>11. ASSUME NEW p \in Procs, Crash(p) PROVE LeaseTypeOK'
    BY <1>11 DEF Crash
  <1>12. CASE UNCHANGED leaseVars
    BY <1>12 DEF leaseVars
  <1>13. QED
    BY <1>1, <1>2, <1>3, <1>4, <1>5, <1>6, <1>7, <1>8, <1>9, <1>10, <1>11, <1>12 DEF Next, Inside

-----------------------------------------------------------------------------
\* How the acquire and release of one task move the set of guards.
LEMMA GuardAdded ==
  ASSUME LeaseTypeOK, NEW t \in Tasks, NEW s \in Nat \ {0}, ~Holding(t),
         guard' = [guard EXCEPT ![t] = s]
  PROVE  /\ Guards(HomeOf[t])' = Guards(HomeOf[t]) \cup {t}
         /\ \A p \in Procs \ {HomeOf[t]} : Guards(p)' = Guards(p)
         /\ Cardinality(Guards(HomeOf[t]))' = Cardinality(Guards(HomeOf[t])) + 1
  <1>1. Guards(HomeOf[t])' = Guards(HomeOf[t]) \cup {t}
    BY LeaseAssumption DEF Guards, Holding, LeaseTypeOK, NoScope
  <1>2. \A p \in Procs \ {HomeOf[t]} : Guards(p)' = Guards(p)
    BY LeaseAssumption DEF Guards, Holding, LeaseTypeOK, NoScope
  <1>3. t \notin Guards(HomeOf[t])
    BY DEF Guards
  <1>4. Cardinality(Guards(HomeOf[t]) \cup {t}) = Cardinality(Guards(HomeOf[t])) + 1
    BY <1>3, GuardsFinite, FS_AddElement
  <1>5. QED  BY <1>1, <1>2, <1>4

LEMMA GuardRemoved ==
  ASSUME LeaseTypeOK, NEW t \in Tasks, Holding(t),
         guard' = [guard EXCEPT ![t] = NoScope]
  PROVE  /\ Guards(HomeOf[t])' = Guards(HomeOf[t]) \ {t}
         /\ \A p \in Procs \ {HomeOf[t]} : Guards(p)' = Guards(p)
         /\ Cardinality(Guards(HomeOf[t]))' = Cardinality(Guards(HomeOf[t])) - 1
  <1>1. Guards(HomeOf[t])' = Guards(HomeOf[t]) \ {t}
    BY LeaseAssumption DEF Guards, Holding, LeaseTypeOK, NoScope
  <1>2. \A p \in Procs \ {HomeOf[t]} : Guards(p)' = Guards(p)
    BY LeaseAssumption DEF Guards, Holding, LeaseTypeOK, NoScope
  <1>3. t \in Guards(HomeOf[t])
    BY DEF Guards
  <1>4. Cardinality(Guards(HomeOf[t]) \ {t}) = Cardinality(Guards(HomeOf[t])) - 1
    BY <1>3, GuardsFinite, FS_RemoveElement
  <1>5. QED  BY <1>1, <1>2, <1>4

LEMMA GuardsKept ==
  ASSUME NEW p, \A t \in Tasks : HomeOf[t] = p => guard'[t] = guard[t]
  PROVE  Guards(p)' = Guards(p)
  BY DEF Guards, Holding, NoScope

\* A process that holds nothing has no guard.
LEMMA NoHoldNoGuards ==
  ASSUME GuardInv, NEW p \in Procs, held[p] = NoHold
  PROVE  Guards(p) = {}
  BY DEF GuardInv, Guards

LEMMA GuardInvKept ==
  ASSUME GuardInv, UNCHANGED <<held, guard, nextScope>> PROVE GuardInv'
  <1>1. \A p : Guards(p)' = Guards(p)
    BY DEF Guards, Holding, NoScope
  <1>2. QED  BY <1>1 DEF GuardInv, Holding, NoScope

LEMMA OwnerStep ==
  ASSUME LeaseInv, [Next]_leaseVars PROVE OwnerInv'
  <1> USE LeaseAssumption DEF LeaseInv, LeaseTypeOK, Scopes, Points, Holders, Holds, NoScope, OwnerInv
  <1>1. ASSUME NEW t \in Tasks, Nest(t) PROVE OwnerInv'
    <2>1. held[HomeOf[t]] # NoHold /\ held'[HomeOf[t]] # NoHold
      BY <1>1 DEF Nest
    <2>2. \A p \in Procs : held'[p] # NoHold <=> held[p] # NoHold
      BY <1>1, <2>1 DEF Nest
    <2>3. QED  BY <1>1, <2>2 DEF Nest
  <1>2. ASSUME NEW t \in Tasks, OpenLockFile(t) PROVE OwnerInv'
    BY <1>2 DEF OpenLockFile
  <1>3. ASSUME NEW t \in Tasks, Release(t) PROVE OwnerInv'
    <2>1. CASE held[HomeOf[t]].depth > 1
      <3>1. held'[HomeOf[t]] # NoHold
        BY <1>3, <2>1 DEF Release
      <3>2. \A p \in Procs : held'[p] # NoHold <=> held[p] # NoHold
        BY <1>3, <2>1, <3>1 DEF Release
      <3>3. QED  BY <1>3, <2>1, <3>2 DEF Release
    <2>2. CASE ~(held[HomeOf[t]].depth > 1)
      BY <1>3, <2>2 DEF Release
    <2>3. QED  BY <2>1, <2>2
  <1>4. ASSUME NEW t \in Tasks, NEW u \in Tasks, HandDown(t, u) PROVE OwnerInv'
    BY <1>4 DEF HandDown
  <1>5. ASSUME NEW p \in Procs, TryFlock(p) PROVE OwnerInv'
    BY <1>5 DEF TryFlock
  <1>6. ASSUME NEW p \in Procs, ReadHolder(p) PROVE OwnerInv'
    BY <1>6 DEF ReadHolder
  <1>7. ASSUME NEW p \in Procs, WriteHolder(p) PROVE OwnerInv'
    <2>1. held'[p] # NoHold
      BY <1>7 DEF WriteHolder
    <2>2. QED  BY <1>7, <2>1 DEF WriteHolder
  <1>8. ASSUME NEW p \in Procs, ClearRecord(p) PROVE OwnerInv'
    BY <1>8 DEF ClearRecord
  <1>9. ASSUME NEW p \in Procs, CloseFile(p) PROVE OwnerInv'
    BY <1>9 DEF CloseFile
  <1>10. ASSUME NEW p \in Procs, Probe(p) \/ EndProbe(p) PROVE OwnerInv'
    BY <1>10 DEF Probe, EndProbe
  <1>11. ASSUME NEW p \in Procs, Crash(p) PROVE OwnerInv'
    BY <1>11 DEF Crash
  <1>12. CASE UNCHANGED leaseVars
    BY <1>12 DEF leaseVars
  <1>13. QED
    BY <1>1, <1>2, <1>3, <1>4, <1>5, <1>6, <1>7, <1>8, <1>9, <1>10, <1>11, <1>12 DEF Next, Inside

LEMMA GuardStep ==
  ASSUME LeaseInv, [Next]_leaseVars PROVE GuardInv'
  <1> USE LeaseAssumption DEF LeaseInv, LeaseTypeOK, Scopes, Points, Holders, Holds, NoScope, GuardInv
  <1>1. ASSUME NEW t \in Tasks, Nest(t) PROVE GuardInv'
    <2> DEFINE home == HomeOf[t]
    <2>1. /\ held[home] # NoHold /\ held'[home] # NoHold
          /\ held'[home].depth = held[home].depth + 1
          /\ held'[home].scope = held[home].scope
          /\ \A q \in Procs \ {home} : held'[q] = held[q]
      BY <1>1 DEF Nest
    <2>2. held[home].scope \in Nat \ {0}
      BY <2>1
    <2>3. /\ \A q \in Procs \ {home} : Guards(q)' = Guards(q)
          /\ Cardinality(Guards(home))' = Cardinality(Guards(home)) + 1
      BY <1>1, <2>2, GuardAdded DEF Nest
    <2>4. \A u \in Tasks : Holding(u)' => held'[HomeOf[u]] # NoHold /\ guard'[u] = held'[HomeOf[u]].scope
      BY <1>1, <2>1 DEF Nest, Holding
    <2>5. \A q \in Procs : held'[q] # NoHold =>
             held'[q].depth = Cardinality(Guards(q))' /\ held'[q].depth > 0
      BY <2>1, <2>3
    <2>6. \A q \in Procs : held'[q] # NoHold => held'[q].scope > 0 /\ held'[q].scope < nextScope'[q]
      BY <1>1, <2>1 DEF Nest
    <2>7. QED  BY <2>4, <2>5, <2>6
  <1>2. ASSUME NEW t \in Tasks, OpenLockFile(t) PROVE GuardInv'
    BY <1>2, GuardInvKept DEF OpenLockFile
  <1>3. ASSUME NEW t \in Tasks, Release(t) PROVE GuardInv'
    <2> DEFINE home == HomeOf[t]
    <2>1. /\ \A q \in Procs \ {home} : Guards(q)' = Guards(q)
          /\ Guards(home)' = Guards(home) \ {t}
          /\ Cardinality(Guards(home))' = Cardinality(Guards(home)) - 1
      BY <1>3, GuardRemoved DEF Release
    <2>2. held[home] # NoHold /\ held[home].depth = Cardinality(Guards(home)) /\ held[home].depth \in Nat
      BY <1>3 DEF Release
    <2>3. CASE held[home].depth > 1
      <3>1. /\ held'[home] # NoHold
            /\ held'[home].depth = held[home].depth - 1
            /\ held'[home].scope = held[home].scope
            /\ \A q \in Procs \ {home} : held'[q] = held[q]
        BY <1>3, <2>2, <2>3 DEF Release
      <3>2. \A u \in Tasks : Holding(u)' => held'[HomeOf[u]] # NoHold /\ guard'[u] = held'[HomeOf[u]].scope
        BY <1>3, <3>1 DEF Release, Holding
      <3>3. \A q \in Procs : held'[q] # NoHold =>
               held'[q].depth = Cardinality(Guards(q))' /\ held'[q].depth > 0
        <4>1. held'[home].depth = Cardinality(Guards(home))' /\ held'[home].depth > 0
          BY <2>1, <2>2, <2>3, <3>1
        <4>2. \A q \in Procs \ {home} : held'[q] # NoHold =>
                 held'[q].depth = Cardinality(Guards(q))' /\ held'[q].depth > 0
          BY <2>1, <3>1
        <4>3. QED  BY <4>1, <4>2
      <3>4. \A q \in Procs : held'[q] # NoHold => held'[q].scope > 0 /\ held'[q].scope < nextScope'[q]
        BY <1>3, <2>2, <3>1 DEF Release
      <3>5. QED  BY <3>2, <3>3, <3>4
    <2>4. CASE ~(held[home].depth > 1)
      <3>1. held' = [held EXCEPT ![home] = NoHold] /\ nextScope' = nextScope
        BY <1>3, <2>4 DEF Release
      <3>2. Cardinality(Guards(home) \ {t}) = 0
        BY <2>1, <2>2, <2>4
      <3>3. Guards(home) \ {t} = {}
        BY <3>2, GuardsFinite, FS_Subset, FS_EmptySet
      <3>4. \A u \in Tasks : Holding(u)' => held'[HomeOf[u]] # NoHold /\ guard'[u] = held'[HomeOf[u]].scope
        BY <1>3, <2>1, <3>1, <3>3 DEF Release, Holding, Guards
      <3>5. \A q \in Procs : held'[q] # NoHold => q # home /\ held'[q] = held[q]
        BY <3>1
      <3>6. QED  BY <2>1, <3>1, <3>4, <3>5
    <2>5. QED  BY <2>3, <2>4
  <1>4. ASSUME NEW t \in Tasks, NEW u \in Tasks, HandDown(t, u) PROVE GuardInv'
    BY <1>4, GuardInvKept DEF HandDown
  <1>5. ASSUME NEW p \in Procs, TryFlock(p) PROVE GuardInv'
    BY <1>5, GuardInvKept DEF TryFlock
  <1>6. ASSUME NEW p \in Procs, ReadHolder(p) PROVE GuardInv'
    BY <1>6, GuardInvKept DEF ReadHolder
  <1>7. ASSUME NEW p \in Procs, WriteHolder(p) PROVE GuardInv'
    <2> DEFINE t == who[p]
    <2>1. t \in Tasks /\ HomeOf[t] = p /\ held[p] = NoHold
      BY <1>7 DEF WriteHolder, OwnerInv
    <2>2. Guards(p) = {} /\ ~Holding(t)
      BY <2>1, NoHoldNoGuards DEF Guards
    <2>3. nextScope[p] \in Nat \ {0} /\ guard' = [guard EXCEPT ![t] = nextScope[p]]
      BY <1>7 DEF WriteHolder
    <2>4. /\ \A q \in Procs \ {p} : Guards(q)' = Guards(q)
          /\ Cardinality(Guards(p))' = Cardinality(Guards(p)) + 1
      BY <2>1, <2>2, <2>3, GuardAdded
    <2>5. Cardinality(Guards(p))' = 1
      BY <2>2, <2>4, FS_EmptySet
    <2>6. /\ held'[p] # NoHold /\ held'[p].depth = 1 /\ held'[p].scope = nextScope[p]
          /\ \A q \in Procs \ {p} : held'[q] = held[q]
          /\ nextScope' = [nextScope EXCEPT ![p] = @ + 1]
      BY <1>7, <2>1 DEF WriteHolder
    <2>7. \A u \in Tasks : Holding(u)' => held'[HomeOf[u]] # NoHold /\ guard'[u] = held'[HomeOf[u]].scope
      BY <2>1, <2>2, <2>3, <2>6 DEF Holding, Guards
    <2>8. \A q \in Procs : held'[q] # NoHold =>
             held'[q].depth = Cardinality(Guards(q))' /\ held'[q].depth > 0
      BY <2>4, <2>5, <2>6
    <2>9. \A q \in Procs : held'[q] # NoHold => held'[q].scope > 0 /\ held'[q].scope < nextScope'[q]
      BY <2>6
    <2>10. QED  BY <2>7, <2>8, <2>9
  <1>8. ASSUME NEW p \in Procs, ClearRecord(p) PROVE GuardInv'
    BY <1>8, GuardInvKept DEF ClearRecord
  <1>9. ASSUME NEW p \in Procs, CloseFile(p) PROVE GuardInv'
    BY <1>9, GuardInvKept DEF CloseFile
  <1>10. ASSUME NEW p \in Procs, Probe(p) \/ EndProbe(p) PROVE GuardInv'
    BY <1>10, GuardInvKept DEF Probe, EndProbe
  <1>11. ASSUME NEW p \in Procs, Crash(p) PROVE GuardInv'
    <2>1. \A q \in Procs \ {p} : Guards(q)' = Guards(q) /\ held'[q] = held[q] /\ nextScope'[q] = nextScope[q]
      BY <1>11, GuardsKept DEF Crash, Guards, Holding
    <2>2. held'[p] = NoHold
      BY <1>11 DEF Crash
    <2>3. \A u \in Tasks : Holding(u)' => HomeOf[u] # p /\ guard'[u] = guard[u]
      BY <1>11 DEF Crash, Holding
    <2>4. QED  BY <2>1, <2>2, <2>3 DEF Holding
  <1>12. CASE UNCHANGED leaseVars
    BY <1>12, GuardInvKept DEF leaseVars
  <1>13. QED
    BY <1>1, <1>2, <1>3, <1>4, <1>5, <1>6, <1>7, <1>8, <1>9, <1>10, <1>11, <1>12 DEF Next, Inside

LEMMA RecordStep ==
  ASSUME LeaseInv, [Next]_leaseVars PROVE RecordInv'
  <1> USE LeaseAssumption DEF LeaseInv, LeaseTypeOK, Scopes, Points, Holders, NoScope, RecordInv
  <1>1. ASSUME NEW t \in Tasks, Nest(t) PROVE RecordInv'
    BY <1>1 DEF Nest
  <1>2. ASSUME NEW t \in Tasks, OpenLockFile(t) PROVE RecordInv'
    BY <1>2 DEF OpenLockFile, OwnerInv
  <1>3. ASSUME NEW t \in Tasks, Release(t) PROVE RecordInv'
    BY <1>3 DEF Release
  <1>4. ASSUME NEW t \in Tasks, NEW u \in Tasks, HandDown(t, u) PROVE RecordInv'
    BY <1>4 DEF HandDown
  <1>5. ASSUME NEW p \in Procs, TryFlock(p) PROVE RecordInv'
    BY <1>5 DEF TryFlock
  <1>6. ASSUME NEW p \in Procs, ReadHolder(p) PROVE RecordInv'
    BY <1>6 DEF ReadHolder
  <1>7. ASSUME NEW p \in Procs, WriteHolder(p) PROVE RecordInv'
    <2>1. lock' = p /\ pc'[p] = "idle" /\ pid' = pid
      BY <1>7 DEF WriteHolder, OwnerInv
    <2>2. record' = NoRecord \/ (record'.proc = p /\ record'.pid = pid[p])
      BY <1>7 DEF WriteHolder, HolderOf
    <2>3. QED  BY <2>1, <2>2
  <1>8. ASSUME NEW p \in Procs, ClearRecord(p) PROVE RecordInv'
    BY <1>8 DEF ClearRecord
  <1>9. ASSUME NEW p \in Procs, CloseFile(p) PROVE RecordInv'
    BY <1>9 DEF CloseFile, OwnerInv
  <1>10. ASSUME NEW p \in Procs, Probe(p) \/ EndProbe(p) PROVE RecordInv'
    BY <1>10 DEF Probe, EndProbe
  <1>11. ASSUME NEW p \in Procs, Crash(p) PROVE RecordInv'
    <2> SUFFICES ASSUME record # NoRecord
                 PROVE  /\ record.pid <= pid'[record.proc]
                        /\ record.pid = pid'[record.proc] =>
                             lock' = record.proc /\ pc'[record.proc] \in {"idle", "clear"}
      BY <1>11 DEF Crash
    <2>1. CASE record.proc = p
      BY <1>11, <2>1 DEF Crash
    <2>2. CASE record.proc # p
      BY <1>11, <2>2 DEF Crash
    <2>3. QED  BY <2>1, <2>2
  <1>12. CASE UNCHANGED leaseVars
    BY <1>12 DEF leaseVars
  <1>13. QED
    BY <1>1, <1>2, <1>3, <1>4, <1>5, <1>6, <1>7, <1>8, <1>9, <1>10, <1>11, <1>12 DEF Next, Inside

LEMMA ScopeStep ==
  ASSUME LeaseInv, [Next]_leaseVars PROVE NextScopeIsFresh'
  <1> USE LeaseAssumption DEF LeaseInv, LeaseTypeOK, Scopes, Points, NoScope, NextScopeIsFresh
  <1>1. ASSUME NEW t \in Tasks, Nest(t) PROVE NextScopeIsFresh'
    BY <1>1 DEF Nest, GuardInv
  <1>2. ASSUME NEW t \in Tasks, OpenLockFile(t) PROVE NextScopeIsFresh'
    BY <1>2 DEF OpenLockFile
  <1>3. ASSUME NEW t \in Tasks, Release(t) PROVE NextScopeIsFresh'
    BY <1>3 DEF Release
  <1>4. ASSUME NEW t \in Tasks, NEW u \in Tasks, HandDown(t, u) PROVE NextScopeIsFresh'
    BY <1>4 DEF HandDown
  <1>5. ASSUME NEW p \in Procs, TryFlock(p) \/ ReadHolder(p) PROVE NextScopeIsFresh'
    BY <1>5 DEF TryFlock, ReadHolder
  <1>6. ASSUME NEW p \in Procs, WriteHolder(p) PROVE NextScopeIsFresh'
    BY <1>6 DEF WriteHolder, OwnerInv
  <1>7. ASSUME NEW p \in Procs, ClearRecord(p) \/ CloseFile(p) PROVE NextScopeIsFresh'
    BY <1>7 DEF ClearRecord, CloseFile
  <1>8. ASSUME NEW p \in Procs, Probe(p) \/ EndProbe(p) PROVE NextScopeIsFresh'
    BY <1>8 DEF Probe, EndProbe
  <1>9. ASSUME NEW p \in Procs, Crash(p) PROVE NextScopeIsFresh'
    BY <1>9 DEF Crash
  <1>10. CASE UNCHANGED leaseVars
    BY <1>10 DEF leaseVars
  <1>11. QED
    BY <1>1, <1>2, <1>3, <1>4, <1>5, <1>6, <1>7, <1>8, <1>9, <1>10 DEF Next, Inside

-----------------------------------------------------------------------------
\* Every step keeps all of it.
LEMMA LeaseInvStep == LeaseInv /\ [Next]_leaseVars => LeaseInv'
  BY LeaseTypeStep, OwnerStep, GuardStep, RecordStep, ScopeStep DEF LeaseInv

\* The strengthening holds in every reachable state.
THEOREM LeaseInvariant == Spec => []LeaseInv
  BY LeaseInitOK, LeaseInvStep, PTL DEF Spec

\* screen.rs:144-162: the state of the lease keeps its types.
THEOREM ScreenTypeCorrect == Spec => []LeaseTypeOK
  BY LeaseInvariant, PTL DEF LeaseInv

\* screen.rs:1-9: two live guards are in one process and one hold.
THEOREM ScreenMutualExclusion == Spec => []OneHoldAtATime
  <1>1. LeaseInv => OneHoldAtATime
    BY LeaseAssumption DEF LeaseInv, OwnerInv, GuardInv, OneHoldAtATime, LeaseTypeOK
  <1>2. QED  BY LeaseInvariant, <1>1, PTL

\* screen.rs:292-308: the file lock is held for exactly as long as a guard lives.
THEOREM ScreenGuardsCounted == Spec => []GuardsAreCounted
  <1>1. ASSUME LeaseInv PROVE GuardsAreCounted
    <2> USE <1>1 DEF LeaseInv
    <2> SUFFICES ASSUME NEW p \in Procs
                 PROVE  /\ (held[p] # NoHold) <=> (Guards(p) # {})
                        /\ held[p] # NoHold => /\ held[p].depth = Cardinality(Guards(p))
                                               /\ lock = p
                                               /\ \A t \in Guards(p) : guard[t] = held[p].scope
      BY DEF GuardsAreCounted
    <2>1. CASE held[p] = NoHold
      BY <2>1, NoHoldNoGuards
    <2>2. CASE held[p] # NoHold
      <3>1. held[p].depth = Cardinality(Guards(p)) /\ held[p].depth > 0 /\ lock = p
        BY <2>2 DEF GuardInv, OwnerInv
      <3>2. Guards(p) # {}
        BY <3>1, FS_EmptySet
      <3>3. QED  BY <2>2, <3>1, <3>2 DEF GuardInv, Guards
    <2>3. QED  BY <2>1, <2>2
  <1>2. QED  BY LeaseInvariant, <1>1, PTL

\* screen.rs:303-304: the record never names a live process that has left.
THEOREM ScreenRecordTruthful == Spec => []RecordNamesTheOwner
  <1>1. LeaseInv => RecordNamesTheOwner
    BY DEF LeaseInv, RecordInv, RecordNamesTheOwner
  <1>2. QED  BY LeaseInvariant, <1>1, PTL

\* screen.rs:82-86: the scope of the next hold has been handed to nobody.
THEOREM ScreenScopesFresh == Spec => []NextScopeIsFresh
  BY LeaseInvariant, PTL DEF LeaseInv

-----------------------------------------------------------------------------
(* The lease implements ScreenExclusion.                                   *)

\* With a hold in place there is one hold, and the refinement mapping reads it.
OneHold ==
  \A p \in Procs : held[p] # NoHold =>
    /\ \A q \in Procs : held[q] # NoHold => q = p
    /\ Leader = held[p].run
    /\ Users = Guards(p) /\ Users # {}
    /\ Invited = {t \in Tasks : HomeOf[t] = p /\ given[t] = held[p].scope}

FreeScreen ==
  (\A p \in Procs : held[p] = NoHold) => Users = {} /\ Leader = NoRun /\ Invited = {}

LEMMA MappingRead == LeaseInv => OneHold /\ FreeScreen
  <1> SUFFICES ASSUME LeaseInv PROVE OneHold /\ FreeScreen  OBVIOUS
  <1>1. ASSUME NEW p \in Procs, held[p] # NoHold
        PROVE  /\ \A q \in Procs : held[q] # NoHold => q = p
               /\ Leader = held[p].run
               /\ Users = Guards(p) /\ Users # {}
               /\ Invited = {t \in Tasks : HomeOf[t] = p /\ given[t] = held[p].scope}
    <2>1. \A q \in Procs : held[q] # NoHold => q = p
      BY <1>1 DEF LeaseInv, OwnerInv
    <2>2. Leader = held[p].run
      BY <1>1, <2>1 DEF Leader
    <2>3. Users = Guards(p)
      BY <2>1, LeaseAssumption DEF LeaseInv, GuardInv, Users, Guards
    <2>4. Cardinality(Guards(p)) > 0
      BY <1>1 DEF LeaseInv, GuardInv
    <2>5. Users # {}
      BY <2>3, <2>4, FS_EmptySet
    <2>6. Invited = {t \in Tasks : HomeOf[t] = p /\ given[t] = held[p].scope}
      BY <1>1, <2>1, LeaseAssumption DEF Invited
    <2>7. QED  BY <2>1, <2>2, <2>3, <2>5, <2>6
  <1>2. OneHold  BY <1>1 DEF OneHold
  <1>3. FreeScreen
    BY LeaseAssumption DEF FreeScreen, LeaseInv, GuardInv, Users, Leader, Invited
  <1>4. QED  BY <1>2, <1>3

\* A step that touches neither guards, holds nor scopes is not seen by the promise.
LEMMA Unseen ==
  ASSUME UNCHANGED <<held, guard, given>>
  PROVE  UNCHANGED <<Users, Leader, Invited>>
  BY DEF Users, Leader, Invited, Holding, NoScope

LEMMA PromiseStep ==
  ASSUME LeaseInv, LeaseInv', [Next]_leaseVars
  PROVE  [Promise!Next]_<<Users, Leader, Invited>>
  <1> USE LeaseAssumption
  <1>a. OneHold /\ FreeScreen
    BY MappingRead
  <1>b. OneHold' /\ FreeScreen'
    BY MappingRead, PTL
  <1>1. ASSUME NEW t \in Tasks, Nest(t) PROVE Promise!Join(t)
    <2> DEFINE p == HomeOf[t]
    <2>1. /\ p \in Procs /\ held[p] # NoHold /\ held[p] \in Holds /\ ~Holding(t)
          /\ held[p].scope > 0 /\ guard \in [Tasks -> Nat] /\ held \in [Procs -> Holds \cup {NoHold}]
      BY <1>1 DEF Nest, LeaseInv, LeaseTypeOK, GuardInv, Scopes
    <2>2. /\ held' = [held EXCEPT ![p] = [held[p] EXCEPT !.depth = held[p].depth + 1]]
          /\ guard' = [guard EXCEPT ![t] = held[p].scope] /\ given' = given
      BY <1>1 DEF Nest
    <2>3. held'[p] # NoHold /\ held'[p].run = held[p].run /\ held'[p].scope = held[p].scope
      BY <2>1, <2>2 DEF Holds, LeaseInv, LeaseTypeOK
    <2>4. Users = Guards(p) /\ Users # {} /\ Leader = held[p].run
          /\ Invited = {u \in Tasks : HomeOf[u] = p /\ given[u] = held[p].scope}
      BY <1>a, <2>1 DEF OneHold
    <2>5. Leader' = Leader /\ Invited' = Invited
      <3>1. Leader' = held'[p].run
            /\ Invited' = {u \in Tasks : HomeOf[u] = p /\ given'[u] = held'[p].scope}
        BY <1>b, <2>1, <2>3 DEF OneHold
      <3>2. QED  BY <2>2, <2>3, <2>4, <3>1
    <2>6. Users' = Users \cup {t} /\ t \notin Users
      BY <2>1, <2>2 DEF Users, Holding, NoScope, Holds
    <2>7. Users \subseteq Promise!Colleagues(t)
      BY <2>4 DEF Guards, Promise!Colleagues
    <2>8. t \in Invited \/ RunOf[t] = Leader
      BY <1>1, <2>1, <2>4 DEF Nest, Presented, Admits, NoScope
    <2>9. QED  BY <2>4, <2>5, <2>6, <2>7, <2>8 DEF Promise!Join
  <1>2. ASSUME NEW t \in Tasks, Release(t) PROVE Promise!Leave(t)
    <2> DEFINE p == HomeOf[t]
    <2>1. /\ p \in Procs /\ held[p] # NoHold /\ held[p] \in Holds /\ Holding(t)
          /\ guard \in [Tasks -> Nat] /\ held \in [Procs -> Holds \cup {NoHold}]
          /\ guard' = [guard EXCEPT ![t] = NoScope] /\ given' = given
      BY <1>2 DEF Release, LeaseInv, LeaseTypeOK, Scopes
    <2>2. Users' = Users \ {t} /\ t \in Users
      BY <2>1 DEF Users, Holding, NoScope
    <2>3. CASE held[p].depth > 1
      <3>1. held'[p] # NoHold /\ held'[p].run = held[p].run /\ held'[p].scope = held[p].scope
        BY <1>2, <2>1, <2>3 DEF Release, Holds, LeaseInv, LeaseTypeOK
      <3>2. /\ Leader = held[p].run
            /\ Invited = {u \in Tasks : HomeOf[u] = p /\ given[u] = held[p].scope}
        BY <1>a, <2>1 DEF OneHold
      <3>3. /\ Leader' = held'[p].run /\ Users' # {}
            /\ Invited' = {u \in Tasks : HomeOf[u] = p /\ given'[u] = held'[p].scope}
        BY <1>b, <2>1, <3>1 DEF OneHold
      <3>4. QED  BY <2>1, <2>2, <3>1, <3>2, <3>3 DEF Promise!Leave
    <2>4. CASE ~(held[p].depth > 1)
      <3>1. held' = [held EXCEPT ![p] = NoHold]
        BY <1>2, <2>4 DEF Release
      <3>2. \A q \in Procs : held'[q] = NoHold
        BY <1>a, <2>1, <3>1 DEF OneHold
      <3>3. Users' = {} /\ Leader' = NoRun /\ Invited' = {}
        BY <1>b, <3>2 DEF FreeScreen
      <3>4. QED  BY <2>2, <3>3 DEF Promise!Leave
    <2>5. QED  BY <2>3, <2>4
  <1>3. ASSUME NEW t \in Tasks, NEW u \in Tasks, HandDown(t, u) PROVE Promise!Invite(t, u)
    <2> DEFINE p == HomeOf[t]
    <2>1. /\ p \in Procs /\ held[p] # NoHold /\ guard[t] = held[p].scope /\ HomeOf[u] = p
          /\ given \in [Tasks -> Nat] /\ given' = [given EXCEPT ![u] = guard[t]]
          /\ held' = held /\ guard' = guard
      BY <1>3 DEF HandDown, LeaseInv, LeaseTypeOK, GuardInv, Scopes
    <2>2. Invited' = Invited \cup {u}
      BY <2>1 DEF Invited
    <2>3. Users' = Users /\ Leader' = Leader
      BY <2>1 DEF Users, Leader, Holding, NoScope
    <2>4. t \in Users /\ u \in Promise!Colleagues(t)
      BY <1>3, <2>1 DEF HandDown, Users, Promise!Colleagues
    <2>5. QED  BY <2>2, <2>3, <2>4 DEF Promise!Invite
  <1>4. ASSUME NEW p \in Procs, WriteHolder(p) PROVE Promise!Take(who[p])
    <2> DEFINE t == who[p]
    <2>1. /\ t \in Tasks /\ HomeOf[t] = p /\ held[p] = NoHold /\ lock = p
          /\ held \in [Procs -> Holds \cup {NoHold}] /\ guard \in [Tasks -> Nat]
          /\ nextScope[p] \in Nat \ {0} /\ given' = given
          /\ held' = [held EXCEPT ![p] = [run |-> RunOf[t], depth |-> 1, scope |-> nextScope[p]]]
          /\ guard' = [guard EXCEPT ![t] = nextScope[p]]
      BY <1>4 DEF WriteHolder, LeaseInv, LeaseTypeOK, OwnerInv, Scopes
    <2>2. \A q \in Procs : held[q] = NoHold
      BY <2>1 DEF LeaseInv, OwnerInv
    <2>3. Users = {} /\ Leader = NoRun
      BY <1>a, <2>2 DEF FreeScreen
    <2>4. held'[p] # NoHold /\ held'[p].run = RunOf[t] /\ held'[p].scope = nextScope[p]
      BY <2>1, LeaseAssumption
    <2>5. Leader' = RunOf[t]
          /\ Invited' = {u \in Tasks : HomeOf[u] = p /\ given'[u] = held'[p].scope}
      BY <1>b, <2>1, <2>4 DEF OneHold
    <2>6. Invited' = {}
      BY <2>1, <2>4, <2>5 DEF LeaseInv, NextScopeIsFresh, LeaseTypeOK, Scopes
    <2>7. Users' = {t}
      BY <2>1, <2>3 DEF Users, Holding, NoScope
    <2>8. QED  BY <2>3, <2>5, <2>6, <2>7 DEF Promise!Take
  <1>5. ASSUME NEW p \in Procs, Crash(p)
        PROVE  Promise!Die(p) \/ UNCHANGED <<Users, Leader, Invited>>
    <2>1. CASE held[p] = NoHold
      <3>1. held' = held
        BY <1>5, <2>1 DEF Crash, LeaseInv, LeaseTypeOK
      <3>2. \A t \in Tasks : Holding(t)' <=> Holding(t)
        BY <1>5, <2>1 DEF Crash, LeaseInv, GuardInv, Holding
      <3>3. \A t \in Tasks : held[HomeOf[t]] # NoHold => given'[t] = given[t]
        BY <1>5, <2>1 DEF Crash
      <3>4. QED  BY <3>1, <3>2, <3>3 DEF Users, Leader, Invited
    <2>2. CASE held[p] # NoHold
      <3>1. \A q \in Procs : held'[q] = NoHold
        BY <1>a, <1>5, <2>2 DEF OneHold, Crash, LeaseInv, LeaseTypeOK
      <3>2. Users' = {} /\ Leader' = NoRun /\ Invited' = {}
        BY <1>b, <3>1 DEF FreeScreen
      <3>3. Users # {} /\ \A t \in Users : HomeOf[t] = p
        BY <1>a, <2>2 DEF OneHold, Guards
      <3>4. QED  BY <3>2, <3>3 DEF Promise!Die
    <2>3. QED  BY <2>1, <2>2
  <1>6. ASSUME NEW t \in Tasks, OpenLockFile(t) PROVE UNCHANGED <<Users, Leader, Invited>>
    BY <1>6, Unseen DEF OpenLockFile
  <1>7. ASSUME NEW p \in Procs,
               TryFlock(p) \/ ReadHolder(p) \/ ClearRecord(p) \/ CloseFile(p) \/ Probe(p) \/ EndProbe(p)
        PROVE  UNCHANGED <<Users, Leader, Invited>>
    BY <1>7, Unseen DEF TryFlock, ReadHolder, ClearRecord, CloseFile, Probe, EndProbe
  <1>8. CASE UNCHANGED leaseVars
    BY <1>8, Unseen DEF leaseVars
  <1>9. \A p \in Procs : WriteHolder(p) => who[p] \in Tasks
    BY DEF WriteHolder, LeaseInv, OwnerInv
  <1>10. QED
    BY <1>1, <1>2, <1>3, <1>4, <1>5, <1>6, <1>7, <1>8, <1>9 DEF Next, Inside, Promise!Next

\* screen.rs:26-41: "work that presents the live hold's scope, or that runs
\* under the same RunId, may subdivide that hold; everything else is refused".
THEOREM ScreenImplementsExclusion == Spec => KeepsThePromise
  <1>1. Init => Promise!Init
    BY LeaseInitOK, MappingRead DEF Init, FreeScreen, Promise!Init
  <1>2. LeaseInv /\ LeaseInv' /\ [Next]_leaseVars => [Promise!Next]_Promise!exclusionVars
    BY PromiseStep DEF Promise!exclusionVars
  <1>3. QED
    BY LeaseInvariant, <1>1, <1>2, PTL DEF Spec, KeepsThePromise, Promise!Exclusion
=============================================================================
