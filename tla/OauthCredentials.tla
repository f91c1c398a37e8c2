-------------------------- MODULE OauthCredentials --------------------------
(***************************************************************************)
(* One subscription credential: the Keychain item, the copy each process   *)
(* caches, the refresh gate, and a vendor that rotates refresh tokens.     *)
(*                                                                         *)
(* From crates/neo-agent/src/runtime.rs (oauth_token, oauth_account,       *)
(* store_exchange, disconnect_oauth) and oauth/store.rs (access_token_at). *)
(* A caller is one task in one process doing one of four things: an agent  *)
(* turn wanting a token, an account status check, a login, a logout.       *)
(*                                                                         *)
(* A credential is the number of its refresh token, in the order the       *)
(* vendor minted them; 0 is none.  Whether it is inside its refresh window *)
(* is the set `due`, which the clock grows.                                *)
(***************************************************************************)
EXTENDS Integers, FiniteSets

CONSTANTS
  Clients,     \* the processes that share the Keychain
  Callers,   \* tasks
  ClientOf,    \* the process a caller runs in
  KindOf,    \* "turn", "status", "login" or "logout"
  NoCaller,
  MaxToken   \* bound: refresh tokens the vendor mints

Kinds == {"turn", "status", "login", "logout"}

ASSUME OauthAssumption ==
  /\ ClientOf \in [Callers -> Clients]
  /\ KindOf \in [Callers -> Kinds]
  /\ NoCaller \notin Callers
  /\ MaxToken \in Nat \ {0}

VARIABLES
  keychain,  \* the stored credential
  credentials,  \* per process: Runtime.credentials
  gate,      \* per process: who holds the refresh gate
  row,       \* the provider_accounts row
  place,        \* per caller: where it is
  posted,    \* per caller: the refresh token it sent
  got,       \* per caller: the credential it has in hand
  minted,    \* vendor: tokens minted so far
  live,      \* vendor: the refresh tokens it would accept
  due,       \* credentials inside their refresh window
  excused,   \* history: tokens that were revoked, or whose rotation was lost
  raced      \* history: <<token, caller>>, tokens rotated from outside the caller's gate

oauthVars == <<keychain, credentials, gate, row, place, posted, got, minted, live, due, excused, raced>>
vendorVars == <<minted, live, due, excused, raced>>

NoToken == 0
Tokens == Nat
OauthPoints == {"idle", "gate", "load", "posting", "answered", "refused", "reload", "insert",
           "exchanging", "exchanged", "forget", "signedIn", "signedOut", "unavailable"}

OauthTypeOK ==
  /\ keychain \in Tokens
  /\ credentials \in [Clients -> Tokens]
  /\ gate \in [Clients -> Callers \cup {NoCaller}]
  /\ row \in {"in", "out", "unavailable"}
  /\ place \in [Callers -> OauthPoints]
  /\ posted \in [Callers -> Tokens]
  /\ got \in [Callers -> Tokens]
  /\ minted \in Nat
  /\ live \subseteq 1..minted
  /\ due \subseteq 1..minted
  /\ excused \subseteq Nat
  /\ raced \subseteq Tokens \X Callers

\* Mutant of Init: the cache starts with a credential the vendor never minted.
InitMutant ==
  /\ keychain = 1 /\ row = "in"
  /\ credentials = [p \in Clients |-> NoToken] /\ gate = [p \in Clients |-> NoCaller]
  /\ place = [c \in Callers |-> "idle"]
  /\ posted = [c \in Callers |-> NoToken] /\ got = [c \in Callers |-> NoToken]
  /\ minted = 0 /\ live = {1} /\ due = {} /\ excused = {} /\ raced = {}

\* A user who signed in some time ago.
Init ==
  /\ keychain = 1 /\ row = "in"
  /\ credentials = [p \in Clients |-> NoToken]
  /\ gate = [p \in Clients |-> NoCaller]
  /\ place = [c \in Callers |-> "idle"]
  /\ posted = [c \in Callers |-> NoToken]
  /\ got = [c \in Callers |-> NoToken]
  /\ minted = 1 /\ live = {1} /\ due = {} /\ excused = {} /\ raced = {}

-----------------------------------------------------------------------------
(* Pieces *)

\* The callers one gate keeps apart: the turns of one process.
SameGate(c, d) == KindOf[c] = "turn" /\ KindOf[d] = "turn" /\ ClientOf[c] = ClientOf[d]

Usable(k) == k # NoToken /\ k \notin due
MovesTo(c, point) == place' = [place EXCEPT ![c] = point]
DropTokens(c) == posted' = [posted EXCEPT ![c] = NoToken] /\ got' = [got EXCEPT ![c] = NoToken]
\* Dropping the MutexGuard, on whichever path oauth_token leaves by.
OpenGate(c) == gate' = [gate EXCEPT ![ClientOf[c]] = IF @ = c THEN NoCaller ELSE @]

\* What the vendor's refusal of the grant, or its absence, means to the caller:
\* a turn fails, a status check goes on to write the row.
Finish(c, status) ==
  /\ DropTokens(c)
  /\ IF KindOf[c] = "status" THEN MovesTo(c, status) /\ UNCHANGED gate
                             ELSE MovesTo(c, "idle") /\ OpenGate(c)

-----------------------------------------------------------------------------
(* oauth_token: an agent turn asks for a token *)

\* A cached credential inside its window is returned and nothing changes, so
\* the call is only seen when it has to go on.
AskToken(c) ==
  /\ KindOf[c] = "turn" /\ place[c] = "idle"
  /\ ~Usable(credentials[ClientOf[c]])
  /\ MovesTo(c, "gate")
  /\ UNCHANGED <<keychain, credentials, gate, row, posted, got, vendorVars>>

\* Mutant of LockGate: no gate at all.
LockGateOpen(c) ==
  /\ place[c] = "gate" /\ MovesTo(c, "load")
  /\ UNCHANGED <<keychain, credentials, gate, row, posted, got, vendorVars>>

\* Behind the gate the cache is looked at again.
LockGate(c) ==
  /\ place[c] = "gate" /\ gate[ClientOf[c]] = NoCaller
  /\ IF Usable(credentials[ClientOf[c]])
     THEN MovesTo(c, "idle") /\ UNCHANGED gate
     ELSE MovesTo(c, "load") /\ gate' = [gate EXCEPT ![ClientOf[c]] = c]
  /\ UNCHANGED <<keychain, credentials, row, posted, got, vendorVars>>

(* oauth_account: a status check goes straight to the store *)
CheckStatus(c) ==
  /\ KindOf[c] = "status" /\ place[c] = "idle"
  /\ IF keychain = NoToken THEN MovesTo(c, "signedOut") ELSE MovesTo(c, "load")
  /\ UNCHANGED <<keychain, credentials, gate, row, posted, got, vendorVars>>

(* access_token_at *)
LoadCredential(c) ==
  /\ place[c] = "load"
  /\ CASE keychain = NoToken ->
            Finish(c, "signedOut")
       [] Usable(keychain) ->
            /\ IF KindOf[c] = "turn" THEN MovesTo(c, "reload") ELSE MovesTo(c, "signedIn")
            /\ UNCHANGED <<gate, posted, got>>
       [] OTHER ->
            /\ MovesTo(c, "posting") /\ posted' = [posted EXCEPT ![c] = keychain]
            /\ UNCHANGED <<gate, got>>
  /\ UNCHANGED <<keychain, credentials, row, vendorVars>>

\* The vendor takes the POST.  It retires the token it was sent and mints the
\* next one, or answers invalid_grant.
VendorRotates(c) ==
  /\ place[c] = "posting" /\ posted[c] \in live /\ minted < MaxToken
  /\ minted' = minted + 1
  /\ live' = (live \ {posted[c]}) \cup {minted + 1}
  /\ got' = [got EXCEPT ![c] = minted + 1]
  /\ raced' = raced \cup {<<posted[c], d>> : d \in {x \in Callers : ~SameGate(c, x)}}
  /\ MovesTo(c, "answered")
  /\ UNCHANGED <<keychain, credentials, gate, row, posted, due, excused>>

VendorRefuses(c) ==
  /\ place[c] = "posting" /\ posted[c] \notin live
  /\ MovesTo(c, "refused")
  /\ UNCHANGED <<keychain, credentials, gate, row, posted, got, vendorVars>>

\* The request fails before the vendor saw it: no network, a 5xx, a timeout, or
\* the run it was made for is cancelled and its future dropped.
Unreachable(c) ==
  /\ place[c] = "posting"
  /\ Finish(c, "unavailable")
  /\ UNCHANGED <<keychain, credentials, row, vendorVars>>

\* The answer was rotated but never saved: the response is lost, the future is
\* dropped, or the Keychain refuses the write.
AnswerLost(c) ==
  /\ place[c] = "answered"
  /\ excused' = excused \cup {posted[c]}
  /\ Finish(c, "unavailable")
  /\ UNCHANGED <<keychain, credentials, row, minted, live, due, raced>>

\* Mutant of SaveFresh: the rotated refresh token is not kept.
SaveFreshMutant(c) ==
  /\ place[c] = "answered" /\ keychain' = posted[c]
  /\ IF KindOf[c] = "turn" THEN MovesTo(c, "reload") ELSE MovesTo(c, "signedIn")
  /\ UNCHANGED <<credentials, gate, row, posted, got, vendorVars>>

SaveFresh(c) ==
  /\ place[c] = "answered"
  /\ keychain' = got[c]
  /\ IF KindOf[c] = "turn" THEN MovesTo(c, "reload") ELSE MovesTo(c, "signedIn")
  /\ UNCHANGED <<credentials, gate, row, posted, got, vendorVars>>

ClearRefused(c) ==
  /\ place[c] = "refused"
  /\ keychain' = NoToken
  /\ Finish(c, "signedOut")
  /\ UNCHANGED <<credentials, row, vendorVars>>

\* Back in oauth_token: whatever is stored by now goes into the cache.
Reload(c) ==
  /\ place[c] = "reload"
  /\ got' = [got EXCEPT ![c] = keychain]
  /\ MovesTo(c, "insert")
  /\ UNCHANGED <<keychain, credentials, gate, row, posted, vendorVars>>

CacheReloaded(c) ==
  /\ place[c] = "insert"
  /\ credentials' = IF got[c] = NoToken THEN credentials ELSE [credentials EXCEPT ![ClientOf[c]] = got[c]]
  /\ MovesTo(c, "idle") /\ OpenGate(c) /\ DropTokens(c)
  /\ UNCHANGED <<keychain, row, vendorVars>>

-----------------------------------------------------------------------------
(* store_exchange: the code of a finished browser login is exchanged *)

StartExchange(c) ==
  /\ KindOf[c] = "login" /\ place[c] = "idle"
  /\ MovesTo(c, "exchanging")
  /\ UNCHANGED <<keychain, credentials, gate, row, posted, got, vendorVars>>

\* The vendor answers and the credential is saved; nothing is awaited from here on.
SaveExchange(c) ==
  /\ place[c] = "exchanging" /\ minted < MaxToken
  /\ minted' = minted + 1 /\ live' = live \cup {minted + 1}
  /\ keychain' = minted + 1
  /\ MovesTo(c, "forget")
  /\ UNCHANGED <<credentials, gate, row, posted, got, due, excused, raced>>

\* A refused code, an unreachable vendor, or a login aborted by cancel_login.
ExchangeFails(c) ==
  /\ place[c] = "exchanging"
  /\ MovesTo(c, "idle")
  /\ UNCHANGED <<keychain, credentials, gate, row, posted, got, vendorVars>>

(* disconnect_oauth *)
ClearForLogout(c) ==
  /\ KindOf[c] = "logout" /\ place[c] = "idle"
  /\ keychain' = NoToken
  /\ MovesTo(c, "forget")
  /\ UNCHANGED <<credentials, gate, row, posted, got, vendorVars>>

ForgetCredential(c) ==
  /\ place[c] = "forget"
  /\ credentials' = [credentials EXCEPT ![ClientOf[c]] = NoToken]
  /\ IF KindOf[c] = "login" THEN MovesTo(c, "signedIn") ELSE MovesTo(c, "signedOut")
  /\ UNCHANGED <<keychain, gate, row, posted, got, vendorVars>>

PutAccount(c) ==
  /\ place[c] \in {"signedIn", "signedOut", "unavailable"}
  /\ row' = CASE place[c] = "signedIn" -> "in" [] place[c] = "signedOut" -> "out" [] OTHER -> "unavailable"
  /\ MovesTo(c, "idle") /\ DropTokens(c)
  /\ UNCHANGED <<keychain, credentials, gate, vendorVars>>

-----------------------------------------------------------------------------
(* The vendor and the clock *)

\* The user revokes the grant on the vendor's site.
Revoke(k) ==
  /\ k \in live
  /\ live' = live \ {k} /\ excused' = excused \cup {k}
  /\ UNCHANGED <<keychain, credentials, gate, row, place, posted, got, minted, due, raced>>

EnterWindow(k) ==
  /\ k \notin due
  /\ due' = due \cup {k}
  /\ UNCHANGED <<keychain, credentials, gate, row, place, posted, got, minted, live, excused, raced>>

\* What a caller that has started goes on to do.
Proceed(c) ==
  \/ LockGate(c) \/ LoadCredential(c) \/ VendorRotates(c) \/ VendorRefuses(c) \/ Unreachable(c)
  \/ AnswerLost(c) \/ SaveFresh(c) \/ ClearRefused(c) \/ Reload(c) \/ CacheReloaded(c)
  \/ SaveExchange(c) \/ ExchangeFails(c) \/ ForgetCredential(c) \/ PutAccount(c)

Start(c) == AskToken(c) \/ CheckStatus(c) \/ StartExchange(c) \/ ClearForLogout(c)

Next ==
  \/ \E c \in Callers : Start(c) \/ Proceed(c)
  \/ \E k \in 1..minted : Revoke(k) \/ EnterWindow(k)

Spec == Init /\ [][Next]_oauthVars

-----------------------------------------------------------------------------
(* Properties *)

\* runtime.rs:187-196.  The vendor never refuses a refresh because of what the
\* callers themselves did: a refused token was revoked by the user, or its
\* rotation was answered and lost.  Nobody is signed out by a second POST.
NoSelfInflictedRefusal ==
  \A c \in Callers : place[c] = "refused" => posted[c] \in excused

\* runtime.rs:187.  "One refresh at a time, per provider": no refresh token is
\* in the POSTs of two turns of a process at once.
NoTokenPostedTwice ==
  \A c, d \in Callers :
    c # d /\ SameGate(c, d) /\ {place[c], place[d]} \subseteq {"posting", "answered"}
      => posted[c] # posted[d]

\* runtime.rs:190-196.  What the gate does buy, whoever else is about: a turn is
\* refused only for a token that was revoked, that was lost, or that somebody
\* outside its gate had rotated - a status check or another process.
GatedTurnsDoNotRace ==
  \A c \in Callers : place[c] = "refused" =>
    posted[c] \in excused \/ <<posted[c], c>> \in raced

\* runtime.rs:635-636.  The gate is held by exactly the turn that is refreshing:
\* nobody refreshes outside it, and nobody leaves with it.
Refreshing == {"load", "posting", "answered", "refused", "reload", "insert"}
GateHeldWhileRefreshing ==
  /\ \A c \in Callers : KindOf[c] = "turn" => (place[c] \in Refreshing <=> gate[ClientOf[c]] = c)
  /\ \A p \in Clients : gate[p] # NoCaller => KindOf[gate[p]] = "turn" /\ ClientOf[gate[p]] = p
=============================================================================
