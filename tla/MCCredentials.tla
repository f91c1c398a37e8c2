---------------------------- MODULE MCCredentials ----------------------------
(***************************************************************************)
(* What authorises the program's calls, side by side: a subscription and   *)
(* its rotating vendor, the key store's file, and the cache over it.  The  *)
(* file's steps are far below the other two, which see one atomic store,   *)
(* so a behaviour is of one of the three.                                  *)
(*                                                                         *)
(* The subscription has one of four casts: turns that overlap in one       *)
(* process; turns with a login and a logout; turns with the desktop's      *)
(* status check; turns of two processes.  The file has three writers, two  *)
(* of them in one process, and three items of two services.  The cache has *)
(* a desktop with a turn that reads, a settings screen that sets and       *)
(* removes, and maintenance; and a CLI.                                    *)
(***************************************************************************)
EXTENDS OauthCredentials, KeyFile, SecretCache, TLC

CONSTANTS here, there, turn1, turn2, turn3, signer, leaver, checker, abroad

Everybody == {turn1, turn2, turn3, signer, leaver, checker, abroad}
Casts == {{turn1, turn2, turn3}, {turn1, turn2, signer, leaver}, {turn1, turn2, checker}, {turn3, abroad}}

Alike == Permutations({turn1, turn2})   \* every cast holds both or neither

CallerHomes == [c \in Callers |-> IF c = abroad THEN there ELSE here]
Kind == [c \in Callers |-> IF c = signer THEN "login" ELSE IF c = leaver THEN "logout"
                           ELSE IF c = checker THEN "status" ELSE "turn"]

CONSTANTS w1, w2, w3, neo, other, openai, anthropic, turn, screen, upkeep, shell

WriterHomes == [w \in Writers |-> IF w = w3 THEN there ELSE here]
ThreeItems == {<<neo, openai>>, <<neo, anthropic>>, <<other, openai>>}

TaskHomes == [t \in Tasks |-> IF t = shell THEN there ELSE here]
TaskOps == [t \in Tasks |-> CASE t = turn -> {"read"} [] t = upkeep -> {"reseal", "import"}
                               [] OTHER -> {"read", "set", "remove"}]

VARIABLES
  level,   \* which of the three this behaviour looks at
  cast     \* who takes part in the subscription's

credentialVars == <<oauthVars, fileVars, cacheVars, level, cast>>

CredentialsInit ==
  /\ Init /\ FileInit /\ CacheInit
  /\ level \in {"oauth", "file", "cache"}
  /\ level # "cache" => store = NoKey
  /\ IF level = "oauth" THEN cast \in Casts ELSE cast = {}

CredentialsNext ==
  /\ \/ level = "oauth" /\ Next /\ (\A c \in Callers \ cast : place'[c] = "idle") /\ UNCHANGED <<fileVars, cacheVars>>
     \/ level = "file" /\ FileNext /\ UNCHANGED <<oauthVars, cacheVars>>
     \/ level = "cache" /\ CacheNext /\ UNCHANGED <<oauthVars, fileVars>>
  /\ UNCHANGED <<level, cast>>

CredentialsSpec == CredentialsInit /\ [][CredentialsNext]_credentialVars

\* The types of the credential, the file and its writers, the store and its caches.
CredentialsTypeOK == OauthTypeOK /\ KeyFileTypeOK /\ SecretTypeOK
=============================================================================
