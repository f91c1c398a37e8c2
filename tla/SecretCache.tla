---------------------------- MODULE SecretCache ----------------------------
(***************************************************************************)
(* One key account: what the key store holds, the copy each process caches *)
(* (Runtime.secrets), and the operations of neo-agent/src/runtime.rs that  *)
(* read, replace, import and re-seal it.                                   *)
(*                                                                         *)
(* The key store is one atomic cell here (KeyFile shows why it may be).    *)
(* A task does one operation at a time; the cache's mutex covers a lookup, *)
(* an insert or a removal, never two of them.                              *)
(***************************************************************************)
EXTENDS Naturals

CONSTANTS
  Programs,
  Tasks,
  ProgramOf,      \* the process of a task
  OpsOf,       \* per task: the operations it may be asked for
  Keys,
  NoKey,     \* no secret
  Unread,      \* no entry in a cache
  EnvKey,      \* the development fallback: a secret or NoKey
  Imported     \* what the login keychain holds, when it is not this store

Ops == {"read", "set", "remove", "reseal", "import"}

ASSUME SecretAssumption ==
  /\ ProgramOf \in [Tasks -> Programs]
  /\ OpsOf \in [Tasks -> SUBSET Ops]
  /\ {EnvKey, Imported} \subseteq Keys \cup {NoKey} /\ NoKey \notin Keys
  /\ Imported \in Keys \cup {NoKey}
  /\ Unread \notin Keys \cup {NoKey}

Values == Keys \cup {NoKey}

VARIABLES
  store,     \* the stored secret
  cache,     \* per process: Runtime.secrets
  op,        \* per task: what it is doing, "none" when idle
  at,        \* per task: its next step
  hand,      \* per task: the secret it has read
  crossed    \* history: processes that, since their cache was last emptied, another
             \* one wrote under, or where a write fell between a read and its
             \* insert, or where a re-seal deleted the item

cacheVars == <<store, cache, op, at, hand, crossed>>

CachePoints == {"idle", "lookup", "get", "insert", "delete", "put", "forget"}

\* The state's types.
SecretTypeOK ==
  /\ store \in Values
  /\ cache \in [Programs -> Values \cup {Unread}]
  /\ op \in [Tasks -> Ops \cup {"none"}]
  /\ at \in [Tasks -> CachePoints]
  /\ hand \in [Tasks -> Values \cup {Unread}]
  /\ crossed \subseteq Programs

CacheInit ==
  /\ store \in Values
  /\ cache = [p \in Programs |-> Unread]
  /\ op = [t \in Tasks |-> "none"]
  /\ at = [t \in Tasks |-> "idle"]
  /\ hand = [t \in Tasks |-> Unread]
  /\ crossed = {}

Home(t) == ProgramOf[t]
GoTo(t, point) == at' = [at EXCEPT ![t] = point]

\* Keychain first, then the environment (from_env).
Effective(v) == IF v = NoKey THEN EnvKey ELSE v

\* The tasks holding a value read from the store that they have yet to insert.
Inserting(p) == {t \in Tasks : Home(t) = p /\ at[t] = "insert"}

\* The writer invalidates its own process's entry in a later step; the other
\* processes are never told.
WriteStore(t, v) ==
  /\ store' = v
  /\ crossed' = crossed \cup {p \in Programs : p # Home(t) \/ Inserting(p) # {}}

LeaveOp(t) ==
  /\ op' = [op EXCEPT ![t] = "none"]
  /\ hand' = [hand EXCEPT ![t] = Unread]
  /\ GoTo(t, "idle")

BeginOp(t) ==
  /\ at[t] = "idle"
  /\ \E o \in OpsOf[t] :
       /\ op' = [op EXCEPT ![t] = o]
       /\ GoTo(t, CASE o \in {"set", "remove"} -> "put" [] o = "reseal" -> "get"
                    [] o = "import" -> "put" [] OTHER -> "lookup")
  /\ UNCHANGED <<store, cache, hand, crossed>>

\* cached_key, served from the cache
Hit(t) ==
  /\ at[t] = "lookup" /\ cache[Home(t)] # Unread
  /\ LeaveOp(t)
  /\ UNCHANGED <<store, cache, crossed>>

Miss(t) ==
  /\ at[t] = "lookup" /\ cache[Home(t)] = Unread
  /\ GoTo(t, "get")
  /\ UNCHANGED <<store, cache, op, hand, crossed>>

\* Keychain::get, with the cache unlocked
GetKey(t) ==
  /\ at[t] = "get"
  /\ IF op[t] = "reseal"
     THEN IF store = NoKey THEN LeaveOp(t)
          ELSE /\ hand' = [hand EXCEPT ![t] = store]
               /\ GoTo(t, "delete") /\ UNCHANGED op
     ELSE /\ hand' = [hand EXCEPT ![t] = Effective(store)]
          /\ GoTo(t, "insert") /\ UNCHANGED op
  /\ UNCHANGED <<store, cache, crossed>>

InsertCache(t) ==
  /\ at[t] = "insert"
  /\ cache' = [cache EXCEPT ![Home(t)] = hand[t]]
  /\ LeaveOp(t)
  /\ UNCHANGED <<store, crossed>>

\* reseal_credentials deletes the item before it writes it again, and invalidates
\* its own cache only after both.
DeleteForReseal(t) ==
  /\ at[t] = "delete"
  /\ store' = NoKey
  /\ crossed' = Programs
  /\ GoTo(t, "put")
  /\ UNCHANGED <<cache, op, hand>>

\* Mutant of PutKey: a write path that does not invalidate the cache.
PutKeyMutant(t) ==
  /\ at[t] = "put"
  /\ \E v \in Keys : WriteStore(t, v)
  /\ LeaveOp(t)
  /\ UNCHANGED cache

PutKey(t) ==
  /\ at[t] = "put"
  /\ \E v \in CASE op[t] = "set" -> Keys [] op[t] = "remove" -> {NoKey}
                [] op[t] = "reseal" -> {hand[t]} [] OTHER -> {Imported} :
       IF v = NoKey /\ op[t] # "remove"
       THEN LeaveOp(t) /\ UNCHANGED <<store, crossed>>
       ELSE /\ WriteStore(t, v)
            /\ GoTo(t, "forget") /\ UNCHANGED <<op, hand>>
  /\ UNCHANGED cache

\* The keychain refuses a write: the operation answers the error and leaves.
PutFails(t) ==
  /\ at[t] \in {"put", "delete"}
  /\ LeaveOp(t)
  /\ UNCHANGED <<store, cache, crossed>>

\* forget_secret; set_key and remove_key then report what they can read back
ForgetSecret(t) ==
  /\ at[t] = "forget"
  /\ cache' = [cache EXCEPT ![Home(t)] = Unread]
  /\ IF op[t] \in {"set", "remove"}
     THEN GoTo(t, "lookup") /\ UNCHANGED <<op, hand>>
     ELSE LeaveOp(t)
  /\ crossed' = IF Inserting(Home(t)) = {} THEN crossed \ {Home(t)} ELSE crossed
  /\ UNCHANGED store

ProgramDies(p) ==
  /\ cache' = [cache EXCEPT ![p] = Unread]
  /\ op' = [t \in Tasks |-> IF Home(t) = p THEN "none" ELSE op[t]]
  /\ at' = [t \in Tasks |-> IF Home(t) = p THEN "idle" ELSE at[t]]
  /\ hand' = [t \in Tasks |-> IF Home(t) = p THEN Unread ELSE hand[t]]
  /\ crossed' = crossed \ {p}
  /\ UNCHANGED store

TaskStep(t) ==
  \/ BeginOp(t) \/ Hit(t) \/ Miss(t) \/ GetKey(t) \/ InsertCache(t)
  \/ DeleteForReseal(t) \/ PutKey(t) \/ PutFails(t) \/ ForgetSecret(t)

CacheNext == (\E t \in Tasks : TaskStep(t)) \/ (\E p \in Programs : ProgramDies(p))

CacheSpec == CacheInit /\ [][CacheNext]_cacheVars

-----------------------------------------------------------------------------
\* A process is settled when none of its tasks has a write of its own to finish.
Settled(p) == \A t \in Tasks : Home(t) = p => at[t] # "forget"

\* A settled process serves the secret that is stored, unless since its last
\* invalidation another process wrote the account, a write fell between a read of
\* the store and the insert of what was read, or a re-seal deleted the item: every
\* other write path, failed or not, invalidates what it changed.
CacheFollowsTheStore ==
  \A p \in Programs : Settled(p) /\ p \notin crossed /\ cache[p] # Unread
                   => cache[p] = Effective(store)
=============================================================================
