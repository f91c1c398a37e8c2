------------------------------ MODULE KeyFile ------------------------------
(***************************************************************************)
(* The file backend of crates/neo-keys/src/keychain.rs: keys.json shared   *)
(* by every process of the machine, changed by a read-modify-write under   *)
(* an flock on a sibling .lock file and published by write, sync, rename.  *)
(*                                                                         *)
(* An item is a pair <<service, account>>.  A writer is a task inside set  *)
(* or delete; writers of one process share its temporary path.             *)
(***************************************************************************)
CONSTANTS
  Writers,   \* tasks
  Procs,     \* processes
  HomeOf,    \* the process of a writer
  Items,     \* pairs <<service, account>>
  Secrets,
  Missing,   \* nothing stored under an item
  Broken,    \* a file that does not parse
  Nobody

ASSUME KeyFileAssumption ==
  /\ HomeOf \in [Writers -> Procs]
  /\ Items # {}
  /\ Missing \notin Secrets
  /\ Broken \notin [Items -> Secrets \cup {Missing}]
  /\ Nobody \notin Writers

VARIABLES
  file,      \* keys.json
  safe,      \* the bytes of keys.json have reached the disk
  lock,      \* who holds the flock
  draft,     \* per process: keys.json.tmp.<pid> and whether it was synced
  pc,
  asked,     \* per writer: the item and what to store, Missing for delete
  items      \* per writer: its service's slice, with the change made

fileVars == <<file, safe, lock, draft, pc, asked, items>>

Contents == [Items -> Secrets \cup {Missing}]
Empty == [i \in Items |-> Missing]
NoDraft == [text |-> Broken, synced |-> FALSE]
Points == {"idle", "reading", "merging", "syncing", "renaming", "leaving"}

\* The state's types.
KeyFileTypeOK ==
  /\ file \in Contents \cup {Broken}
  /\ safe \in BOOLEAN
  /\ lock \in Writers \cup {Nobody}
  /\ draft \in [Procs -> [text : Contents \cup {Broken}, synced : BOOLEAN]]
  /\ pc \in [Writers -> Points]
  /\ asked \in [Writers -> Items \X (Secrets \cup {Missing})]
  /\ items \in [Writers -> Contents]

NoRequest == CHOOSE r \in Items \X {Missing} : TRUE

\* Mutant of FileInit: a writer starts without a slice of its own.
FileInitMutant ==
  /\ file = Empty /\ safe = TRUE
  /\ lock = Nobody
  /\ draft = [p \in Procs |-> NoDraft]
  /\ pc = [w \in Writers |-> "idle"]
  /\ asked = [w \in Writers |-> NoRequest]
  /\ items = [w \in Writers |-> Missing]

FileInit ==
  /\ file = Empty /\ safe = TRUE
  /\ lock = Nobody
  /\ draft = [p \in Procs |-> NoDraft]
  /\ pc = [w \in Writers |-> "idle"]
  /\ asked = [w \in Writers |-> NoRequest]
  /\ items = [w \in Writers |-> Empty]

Goto(w, point) == pc' = [pc EXCEPT ![w] = point]

SliceOf(service) == {i \in Items : i[1] = service}

\* Mutant of Lock: the read-modify-write without its lock.
LockOpen(w) ==
  /\ pc[w] = "idle"
  /\ \E i \in Items, s \in Secrets \cup {Missing} : asked' = [asked EXCEPT ![w] = <<i, s>>]
  /\ lock' = w
  /\ Goto(w, "reading")
  /\ UNCHANGED <<file, safe, draft, items>>

\* set or delete is called; FileLock::exclusive blocks until the flock is free.
\* What was asked matters from here on, so it is chosen here.
Lock(w) ==
  /\ pc[w] = "idle"
  /\ lock = Nobody
  /\ \E i \in Items, s \in Secrets \cup {Missing} : asked' = [asked EXCEPT ![w] = <<i, s>>]
  /\ lock' = w
  /\ Goto(w, "reading")
  /\ UNCHANGED <<file, safe, draft, items>>

\* read_file, then insert or remove.  A delete that finds nothing writes nothing,
\* and a file that does not parse is an error.
Read(w) ==
  LET item == asked[w][1]
      secret == asked[w][2]
  IN
  /\ pc[w] = "reading"
  /\ IF file = Broken \/ (secret = Missing /\ file[item] = Missing)
     THEN Goto(w, "leaving") /\ UNCHANGED items
     ELSE /\ items' = [items EXCEPT ![w] = [file EXCEPT ![item] = secret]]
          /\ Goto(w, "merging")
  /\ UNCHANGED <<file, safe, lock, draft, asked>>

\* Mutant of Merge: the slice replaces the whole file.
MergeMutant(w) ==
  /\ pc[w] = "merging"
  /\ draft' = [draft EXCEPT ![HomeOf[w]] =
                 [text |-> [i \in Items |-> IF i \in SliceOf(asked[w][1][1])
                                            THEN items[w][i] ELSE Missing],
                  synced |-> FALSE]]
  /\ Goto(w, "syncing")
  /\ UNCHANGED <<file, safe, lock, asked, items>>

\* write_file re-reads the whole file, replaces its service's slice and writes
\* the temporary file of its process.
Merge(w) ==
  /\ pc[w] = "merging"
  /\ IF file = Broken
     THEN Goto(w, "leaving") /\ UNCHANGED draft
     ELSE /\ draft' = [draft EXCEPT ![HomeOf[w]] =
                 [text |-> [i \in Items |-> IF i \in SliceOf(asked[w][1][1])
                                            THEN items[w][i] ELSE file[i]],
                  synced |-> FALSE]]
          /\ Goto(w, "syncing")
  /\ UNCHANGED <<file, safe, lock, asked, items>>

\* Mutant of Sync: the rename is not ordered after the data.
SyncMutant(w) ==
  /\ pc[w] = "syncing"
  /\ Goto(w, "renaming")
  /\ UNCHANGED <<file, safe, lock, draft, asked, items>>

Sync(w) ==
  /\ pc[w] = "syncing"
  /\ draft' = [draft EXCEPT ![HomeOf[w]].synced = TRUE]
  /\ Goto(w, "renaming")
  /\ UNCHANGED <<file, safe, lock, asked, items>>

Rename(w) ==
  /\ pc[w] = "renaming"
  /\ file' = draft[HomeOf[w]].text
  /\ safe' = draft[HomeOf[w]].synced
  /\ draft' = [draft EXCEPT ![HomeOf[w]] = NoDraft]
  /\ Goto(w, "leaving")
  /\ UNCHANGED <<lock, asked, items>>

\* The disk refuses the write, the sync or the rename: set answers an error and
\* a partial temporary file may stay behind.
Fails(w) ==
  /\ pc[w] \in {"merging", "syncing", "renaming"}
  /\ draft' = [draft EXCEPT ![HomeOf[w]] = NoDraft]
  /\ Goto(w, "leaving")
  /\ UNCHANGED <<file, safe, lock, asked, items>>

\* Back at the start, remembering nothing.
Forget(ws) ==
  /\ pc' = [w \in Writers |-> IF w \in ws THEN "idle" ELSE pc[w]]
  /\ asked' = [w \in Writers |-> IF w \in ws THEN NoRequest ELSE asked[w]]
  /\ items' = [w \in Writers |-> IF w \in ws THEN Empty ELSE items[w]]
  /\ lock' = IF lock \in ws THEN Nobody ELSE lock

\* The FileLock is dropped and its descriptor closed.
Leave(w) ==
  /\ pc[w] = "leaving"
  /\ Forget({w})
  /\ UNCHANGED <<file, safe, draft>>

\* The process dies: the kernel closes its descriptors, the temporary file stays.
Crash(p) ==
  /\ Forget({w \in Writers : HomeOf[w] = p})
  /\ UNCHANGED <<file, safe, draft>>

\* The machine stops: bytes that were never synced are lost.
PowerLoss ==
  /\ Forget(Writers)
  /\ file' = IF safe THEN file ELSE Broken
  /\ safe' = TRUE
  /\ draft' = [p \in Procs |-> NoDraft]

WriterStep(w) == Lock(w) \/ Read(w) \/ Merge(w) \/ Sync(w) \/ Rename(w) \/ Fails(w) \/ Leave(w)

FileNext == (\E w \in Writers : WriterStep(w)) \/ (\E p \in Procs : Crash(p)) \/ PowerLoss

FileSpec == FileInit /\ [][FileNext]_fileVars

-----------------------------------------------------------------------------
\* keys.json is whole after any death, of a process or of the machine: the
\* store a user's credentials are in never becomes one nothing can read.
FileIsWhole == file # Broken

\* Every change of the file is the change of one item by the writer that was
\* asked for it: two processes that store two accounts at once lose neither,
\* no service's slice is dropped by another's, and no death leaves a broken file.
KeyMapSpec == INSTANCE KeyMap WITH stored <- file
WritesTouchOneItem == KeyMapSpec!Spec

\* The file a draft is renamed over is the one the draft was computed from: a
\* draft ready to be renamed differs from the file in the asked item alone.
DraftIsCurrent ==
  \A w \in Writers : pc[w] \in {"syncing", "renaming"} =>
     LET text == draft[HomeOf[w]].text IN
     /\ lock = w
     /\ text = [file EXCEPT ![asked[w][1]] = asked[w][2]]
=============================================================================
