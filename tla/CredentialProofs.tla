-------------------------- MODULE CredentialProofs --------------------------
(***************************************************************************)
(* Proofs about secrets, for any writers, callers and tasks in any         *)
(* processes: that the key file implements the map it is meant to be,      *)
(* whatever fails and whoever dies; that a turn is never refused for a     *)
(* token that a turn of its own process had rotated; and that a process    *)
(* serves the key that is stored, but where the model says it does not.    *)
(***************************************************************************)
EXTENDS MCCredentials, TLAPS

-----------------------------------------------------------------------------
(* The key file.  The flock makes the read, the merge and the rename one   *)
(* critical section, so the slice a writer carries is the file as it is    *)
(* with its own item changed; and only a synced draft is renamed, so there *)
(* is nothing for a power loss to take away.                               *)

\* A writer that is past its lock holds it.
LockInv == \A w \in Writers : pc[w] # "idle" => lock = w

\* What a writer carries between its read and its merge.
SliceInv ==
  \A w \in Writers : pc[w] = "merging" => items[w] = [file EXCEPT ![asked[w][1]] = asked[w][2]]

\* What is published has reached the disk.
SyncInv == safe /\ \A w \in Writers : pc[w] = "renaming" => draft[HomeOf[w]].synced

KeyInv == KeyFileTypeOK /\ FileIsWhole /\ LockInv /\ SliceInv /\ DraftIsCurrent /\ SyncInv

\* A writer that is asked nothing is in a state of its own.
LEMMA Resting == NoRequest \in Items \X (Secrets \cup {Missing}) /\ Empty \in Contents
  <1>1. PICK i \in Items : TRUE
    BY KeyFileAssumption
  <1>2. <<i, Missing>> \in Items \X {Missing}
    BY <1>1
  <1>3. NoRequest \in Items \X {Missing}
    BY <1>2, Zenon DEF NoRequest
  <1>4. QED  BY <1>3 DEF Empty, Contents

LEMMA FileInitOK == FileInit => KeyInv
  <1> SUFFICES ASSUME FileInit PROVE KeyInv  OBVIOUS
  <1>1. NoRequest \in Items \X (Secrets \cup {Missing}) /\ Empty \in Contents
    BY Resting
  <1>2. KeyFileTypeOK
    BY <1>1 DEF FileInit, KeyFileTypeOK, NoDraft, Points
  <1>3. FileIsWhole
    BY <1>1, KeyFileAssumption DEF FileInit, FileIsWhole, Contents
  <1>4. QED  BY <1>2, <1>3 DEF KeyInv, FileInit, LockInv, SliceInv, DraftIsCurrent, SyncInv

\* The critical section: while one writer is inside, all the others are idle.
LEMMA OthersIdle ==
  ASSUME KeyInv, NEW w \in Writers, NEW v \in Writers, pc[w] # "idle", v # w
  PROVE  pc[v] = "idle"
  BY DEF KeyInv, LockInv

LEMMA LockStep ==
  ASSUME KeyInv, NEW w \in Writers, Lock(w) PROVE KeyInv'
  <1>1. \A v \in Writers : pc[v] = "idle"
    BY KeyFileAssumption DEF KeyInv, LockInv, Lock
  <1>2. KeyFileTypeOK'
    BY DEF KeyInv, KeyFileTypeOK, Lock, Goto, Points
  <1>3. QED
    BY <1>1, <1>2 DEF KeyInv, KeyFileTypeOK, FileIsWhole, LockInv, SliceInv, DraftIsCurrent, SyncInv, Lock, Goto

LEMMA ReadStep ==
  ASSUME KeyInv, NEW w \in Writers, Read(w) PROVE KeyInv'
  <1>1. PICK i \in Items, s \in Secrets \cup {Missing} : asked[w] = <<i, s>>
    BY DEF KeyInv, KeyFileTypeOK
  <1>2. file \in Contents /\ [file EXCEPT ![i] = s] \in Contents
    BY DEF KeyInv, KeyFileTypeOK, FileIsWhole, Contents
  <1>a. items'[w] \in Contents
    BY <1>1, <1>2 DEF KeyInv, KeyFileTypeOK, Read
  <1>b. \A v \in Writers : items'[v] \in Contents
    BY <1>a DEF KeyInv, KeyFileTypeOK, Read
  <1>3. KeyFileTypeOK'
    BY <1>b DEF KeyInv, KeyFileTypeOK, Read, Goto, Points
  <1>4. SliceInv'
    <2>1. /\ \A v \in Writers \ {w} : pc'[v] = "idle"
          /\ UNCHANGED <<file, asked>>
      BY OthersIdle DEF KeyInv, KeyFileTypeOK, Read, Goto
    <2>2. pc'[w] = "merging" => items'[w] = [file EXCEPT ![asked[w][1]] = asked[w][2]]
      BY DEF KeyInv, KeyFileTypeOK, Read, Goto
    <2> QED BY <2>1, <2>2 DEF SliceInv
  <1>5. QED
    BY <1>3, <1>4, OthersIdle
    DEF KeyInv, KeyFileTypeOK, FileIsWhole, LockInv, DraftIsCurrent, SyncInv, Read, Goto

LEMMA MergeStep ==
  ASSUME KeyInv, NEW w \in Writers, Merge(w) PROVE KeyInv'
  <1> DEFINE text == [i \in Items |-> IF i \in SliceOf(asked[w][1][1]) THEN items[w][i] ELSE file[i]]
  <1>1. PICK item \in Items, s \in Secrets \cup {Missing} : asked[w] = <<item, s>>
    BY DEF KeyInv, KeyFileTypeOK
  <1>2. file \in Contents /\ file # Broken /\ pc[w] = "merging" /\ lock = w
    BY DEF KeyInv, KeyFileTypeOK, FileIsWhole, LockInv, Merge
  <1>3. items[w] = [file EXCEPT ![item] = s]
    BY <1>1, <1>2 DEF KeyInv, SliceInv
  <1>4. item \in SliceOf(asked[w][1][1])
    BY <1>1 DEF SliceOf
  <1>5. text = [file EXCEPT ![item] = s]
    BY <1>2, <1>3, <1>4 DEF Contents
  <1>6. text \in Contents
    BY <1>2, <1>5 DEF Contents
  <1>7. /\ draft' = [draft EXCEPT ![HomeOf[w]] = [text |-> text, synced |-> FALSE]]
        /\ pc' = [pc EXCEPT ![w] = "syncing"]
        /\ UNCHANGED <<file, safe, lock, asked, items>>
    BY <1>2 DEF Merge, Goto
  <1> HIDE DEF text
  <1>8. KeyFileTypeOK'
    BY <1>6, <1>7, KeyFileAssumption DEF KeyInv, KeyFileTypeOK, Points
  <1>9. DraftIsCurrent'
    <2> SUFFICES ASSUME NEW v \in Writers, pc'[v] \in {"syncing", "renaming"}
                 PROVE  lock' = v /\ draft'[HomeOf[v]].text = [file EXCEPT ![asked[v][1]] = asked[v][2]]
      BY <1>7 DEF DraftIsCurrent
    <2>1. v = w
      BY <1>2, <1>7, OthersIdle DEF KeyInv, KeyFileTypeOK
    <2>2. draft'[HomeOf[w]].text = text
      BY <1>7, KeyFileAssumption DEF KeyInv, KeyFileTypeOK
    <2>3. asked[w][1] = item /\ asked[w][2] = s
      BY <1>1
    <2>4. text = [file EXCEPT ![asked[w][1]] = asked[w][2]]
      BY <1>5, <2>3
    <2>5. lock' = w
      BY <1>2, <1>7
    <2>6. QED  BY <2>1, <2>2, <2>4, <2>5
  <1>10. QED
    BY <1>2, <1>7, <1>8, <1>9, OthersIdle
    DEF KeyInv, KeyFileTypeOK, FileIsWhole, LockInv, SliceInv, SyncInv

LEMMA SyncStep ==
  ASSUME KeyInv, NEW w \in Writers, Sync(w) PROVE KeyInv'
  <1>1. KeyFileTypeOK'
    BY KeyFileAssumption DEF KeyInv, KeyFileTypeOK, Sync, Goto, Points
  <1>a. /\ \A p \in Procs : draft'[p].text = draft[p].text
        /\ draft'[HomeOf[w]].synced
    BY KeyFileAssumption DEF KeyInv, KeyFileTypeOK, Sync
  <1>b. /\ \A v \in Writers \ {w} : pc'[v] = "idle"
        /\ pc[w] # "idle" /\ UNCHANGED <<file, safe, asked>>
    BY OthersIdle DEF KeyInv, KeyFileTypeOK, Sync, Goto
  <1>c. pc[w] = "syncing" /\ lock' = lock
    BY DEF Sync
  <1>d. DraftIsCurrent'
    BY <1>a, <1>b, <1>c, KeyFileAssumption DEF KeyInv, DraftIsCurrent
  <1>e. SyncInv'
    BY <1>a, <1>b DEF KeyInv, SyncInv
  <1>2. DraftIsCurrent' /\ SyncInv'
    BY <1>d, <1>e
  <1>3. QED
    BY <1>1, <1>2, OthersIdle DEF KeyInv, KeyFileTypeOK, FileIsWhole, LockInv, SliceInv, Sync, Goto

\* The rename publishes the file with the asked item changed, and nothing else.
LEMMA RenameWrites ==
  ASSUME KeyInv, NEW w \in Writers, Rename(w)
  PROVE  /\ file' = [file EXCEPT ![asked[w][1]] = asked[w][2]]
         /\ file' \in Contents
  <1>1. PICK i \in Items, s \in Secrets \cup {Missing} : asked[w] = <<i, s>>
    BY DEF KeyInv, KeyFileTypeOK
  <1>2. file \in Contents
    BY DEF KeyInv, KeyFileTypeOK, FileIsWhole
  <1>3. file' = [file EXCEPT ![asked[w][1]] = asked[w][2]]
    BY DEF KeyInv, DraftIsCurrent, Rename
  <1>4. QED  BY <1>1, <1>2, <1>3 DEF Contents

LEMMA RenameStep ==
  ASSUME KeyInv, NEW w \in Writers, Rename(w) PROVE KeyInv'
  <1>1. KeyFileTypeOK' /\ FileIsWhole'
    BY RenameWrites, KeyFileAssumption
    DEF KeyInv, KeyFileTypeOK, FileIsWhole, Contents, NoDraft, Rename, Goto, Points
  <1>2. QED
    BY <1>1, OthersIdle, KeyFileAssumption
    DEF KeyInv, KeyFileTypeOK, LockInv, SliceInv, DraftIsCurrent, SyncInv, Rename, Goto

LEMMA FailsStep ==
  ASSUME KeyInv, NEW w \in Writers, Fails(w) PROVE KeyInv'
  <1>1. KeyFileTypeOK'
    BY KeyFileAssumption DEF KeyInv, KeyFileTypeOK, NoDraft, Fails, Goto, Points
  <1>2. QED
    BY <1>1, OthersIdle
    DEF KeyInv, KeyFileTypeOK, FileIsWhole, LockInv, SliceInv, DraftIsCurrent, SyncInv, Fails, Goto

\* Leaving and dying forget some writers; those that were not forgotten go on.
LEMMA ForgetStep ==
  ASSUME KeyInv, NEW ws \in SUBSET Writers, Forget(ws), UNCHANGED <<file, safe, draft>>
  PROVE  KeyInv'
  <1>1. NoRequest \in Items \X (Secrets \cup {Missing}) /\ Empty \in Contents
    BY Resting
  <1>2. KeyFileTypeOK'
    BY <1>1 DEF KeyInv, KeyFileTypeOK, Forget, Points
  <1>3. \A v \in Writers : pc'[v] # "idle" =>
          /\ v \notin ws /\ pc'[v] = pc[v] /\ asked'[v] = asked[v] /\ items'[v] = items[v]
          /\ lock' = v
    BY DEF KeyInv, LockInv, Forget
  <1>4. LockInv' /\ FileIsWhole' /\ SyncInv'
    BY <1>3 DEF KeyInv, LockInv, FileIsWhole, SyncInv
  <1>5. SliceInv'
    BY <1>3 DEF KeyInv, SliceInv
  <1>6. DraftIsCurrent'
    BY <1>3 DEF KeyInv, DraftIsCurrent
  <1>7. QED  BY <1>2, <1>4, <1>5, <1>6 DEF KeyInv

LEMMA PowerLossStep ==
  ASSUME KeyInv, PowerLoss PROVE KeyInv' /\ file' = file
  <1>1. file' = file /\ safe' /\ \A w \in Writers : pc'[w] = "idle"
    BY DEF KeyInv, SyncInv, PowerLoss, Forget
  <1>2. NoRequest \in Items \X (Secrets \cup {Missing}) /\ Empty \in Contents
    BY Resting
  <1>3. KeyFileTypeOK'
    BY <1>2 DEF KeyInv, KeyFileTypeOK, SyncInv, PowerLoss, Forget, NoDraft, Points
  <1>4. QED
    BY <1>1, <1>3 DEF KeyInv, FileIsWhole, LockInv, SliceInv, DraftIsCurrent, SyncInv

LEMMA KeyStep == KeyInv /\ [FileNext]_fileVars => KeyInv'
  <1> SUFFICES ASSUME KeyInv, [FileNext]_fileVars PROVE KeyInv'  OBVIOUS
  <1>1. ASSUME NEW w \in Writers, WriterStep(w) PROVE KeyInv'
    <2>1. CASE Leave(w)
      BY <2>1, ForgetStep DEF Leave
    <2>2. QED
      BY <1>1, <2>1, LockStep, ReadStep, MergeStep, SyncStep, RenameStep, FailsStep DEF WriterStep
  <1>2. ASSUME NEW p \in Procs, Crash(p) PROVE KeyInv'
    BY <1>2, ForgetStep DEF Crash
  <1>3. CASE PowerLoss
    BY <1>3, PowerLossStep
  <1>4. CASE UNCHANGED fileVars
    BY <1>4 DEF fileVars, KeyInv, KeyFileTypeOK, FileIsWhole, LockInv, SliceInv, DraftIsCurrent, SyncInv
  <1>5. QED  BY <1>1, <1>2, <1>3, <1>4 DEF FileNext

\* The inductive invariant the results below are read off.
THEOREM KeyInvariant == FileSpec => []KeyInv
  BY FileInitOK, KeyStep, PTL DEF FileSpec

\* keychain.rs:567-616: no death of a process or of the machine leaves a key file
\* that cannot be read.
THEOREM KeyFileStaysWhole == FileSpec => []FileIsWhole
  <1>1. KeyInv => FileIsWhole
    BY DEF KeyInv
  <1>2. QED  BY KeyInvariant, <1>1, PTL

\* keychain.rs:427-452: what is about to be renamed over the file is the file with
\* the asked item changed.
THEOREM KeyDraftsAreCurrent == FileSpec => []DraftIsCurrent
  <1>1. KeyInv => DraftIsCurrent
    BY DEF KeyInv
  <1>2. QED  BY KeyInvariant, <1>1, PTL

\* keychain.rs:421-426: the file implements the map, so a write loses no other.
THEOREM KeyFileImplementsMap == FileSpec => WritesTouchOneItem
  <1>1. FileInit => KeyMapSpec!Init
    BY DEF FileInit, Empty, KeyMapSpec!Init
  <1>2. KeyInv /\ [FileNext]_fileVars => [KeyMapSpec!Next]_file
    <2> SUFFICES ASSUME KeyInv, FileNext, file' # file PROVE KeyMapSpec!Next
      BY DEF fileVars
    <2>1. PICK w \in Writers : Rename(w)
      BY PowerLossStep DEF FileNext, WriterStep, Lock, Read, Merge, Sync, Fails, Leave, Crash
    <2>2. PICK i \in Items, s \in Secrets \cup {Missing} : asked[w] = <<i, s>>
      BY DEF KeyInv, KeyFileTypeOK
    <2>3. file' = [file EXCEPT ![i] = s]
      BY <2>1, <2>2, RenameWrites
    <2>4. QED  BY <2>3 DEF KeyMapSpec!Next
  <1>3. QED  BY <1>1, <1>2, KeyInvariant, PTL DEF FileSpec, WritesTouchOneItem, KeyMapSpec!Spec

-----------------------------------------------------------------------------
(* The refresh gate. *)

\* Only turns and status checks post a refresh, and only turns meet the gate.
PointsInv ==
  \A c \in Callers :
    /\ place[c] \in Refreshing => KindOf[c] \in {"turn", "status"}
    /\ place[c] \in {"gate", "reload", "insert"} => KindOf[c] = "turn"

\* A token the vendor still takes, or that was revoked or lost.
Good(k) == k \in live \cup excused

\* The stored credential is good, or its successor is on its way to the store;
\* and what a caller has posted is good, or was taken from it from outside.
TokenInv ==
  /\ keychain # NoToken =>
       Good(keychain) \/ \E c \in Callers : place[c] = "answered" /\ posted[c] = keychain
  /\ \A c \in Callers : place[c] = "posting" => Good(posted[c]) \/ <<posted[c], c>> \in raced
  /\ \A c \in Callers : place[c] = "answered" =>
       Good(got[c]) /\ \A d \in Callers : SameGate(c, d) \/ <<posted[c], d>> \in raced
  /\ \A c \in Callers : place[c] = "refused" => posted[c] \in excused \/ <<posted[c], c>> \in raced

\* A token fresh from the vendor is known only to the caller it was answered to.
FreshInv ==
  /\ keychain <= minted
  /\ \A c \in Callers : posted[c] <= minted /\ got[c] <= minted
  /\ \A c \in Callers : place[c] = "answered" =>
       /\ got[c] # NoToken /\ got[c] # keychain
       /\ \A d \in Callers : posted[d] # got[c] /\ (d # c /\ place[d] = "answered" => got[d] # got[c])

OauthInv == OauthTypeOK /\ PointsInv /\ GateHeldWhileRefreshing /\ TokenInv /\ FreshInv

-----------------------------------------------------------------------------
LEMMA OauthInitOK == Init => OauthInv
  <1> SUFFICES ASSUME Init PROVE OauthInv  OBVIOUS
  <1>1. OauthTypeOK
    BY OauthAssumption DEF Init, OauthTypeOK, Tokens, NoToken, OauthPoints
  <1>2. PointsInv /\ GateHeldWhileRefreshing
    BY OauthAssumption DEF Init, PointsInv, Refreshing, GateHeldWhileRefreshing
  <1>3. TokenInv /\ FreshInv
    BY DEF Init, TokenInv, Good, FreshInv, NoToken
  <1>4. QED  BY <1>1, <1>2, <1>3 DEF OauthInv

LEMMA OauthTypeStep ==
  ASSUME OauthTypeOK, [Next]_oauthVars PROVE OauthTypeOK'
  <1> USE OauthAssumption DEF OauthTypeOK, Tokens, NoToken, OauthPoints, Kinds, MovesTo, DropTokens,
                               OpenGate, Finish, vendorVars
  <1>1. ASSUME NEW c \in Callers, AskToken(c) PROVE OauthTypeOK'
    BY <1>1 DEF AskToken
  <1>2. ASSUME NEW c \in Callers, CheckStatus(c) PROVE OauthTypeOK'
    BY <1>2 DEF CheckStatus
  <1>3. ASSUME NEW c \in Callers, StartExchange(c) PROVE OauthTypeOK'
    BY <1>3 DEF StartExchange
  <1>4. ASSUME NEW c \in Callers, ClearForLogout(c) PROVE OauthTypeOK'
    BY <1>4 DEF ClearForLogout
  <1>5. ASSUME NEW c \in Callers, LockGate(c) PROVE OauthTypeOK'
    BY <1>5 DEF LockGate
  <1>6. ASSUME NEW c \in Callers, LoadCredential(c) PROVE OauthTypeOK'
    BY <1>6 DEF LoadCredential
  <1>7. ASSUME NEW c \in Callers, VendorRotates(c) PROVE OauthTypeOK'
    <2>0. minted' = minted + 1 /\ live' = (live \ {posted[c]}) \cup {minted + 1} /\ due' = due
      BY <1>7 DEF VendorRotates
    <2>a. minted' \in Nat /\ 1..minted \subseteq 1..minted' /\ minted + 1 \in 1..minted'
      BY <2>0
    <2>1. minted' \in Nat /\ live' \subseteq 1..minted' /\ due' \subseteq 1..minted'
      BY <2>0, <2>a, Zenon
    <2>2. QED  BY <1>7, <2>1 DEF VendorRotates
  <1>8. ASSUME NEW c \in Callers, VendorRefuses(c) PROVE OauthTypeOK'
    BY <1>8 DEF VendorRefuses
  <1>9. ASSUME NEW c \in Callers, Unreachable(c) PROVE OauthTypeOK'
    BY <1>9 DEF Unreachable
  <1>10. ASSUME NEW c \in Callers, AnswerLost(c) PROVE OauthTypeOK'
    <2>a. excused' = excused \cup {posted[c]} /\ posted[c] \in Nat
      BY <1>10 DEF AnswerLost
    <2>1. excused' \subseteq Nat
      BY <2>a
    <2>2. QED  BY <1>10, <2>1 DEF AnswerLost
  <1>11. ASSUME NEW c \in Callers, SaveFresh(c) PROVE OauthTypeOK'
    BY <1>11 DEF SaveFresh
  <1>12. ASSUME NEW c \in Callers, ClearRefused(c) PROVE OauthTypeOK'
    BY <1>12 DEF ClearRefused
  <1>13. ASSUME NEW c \in Callers, Reload(c) PROVE OauthTypeOK'
    BY <1>13 DEF Reload
  <1>14. ASSUME NEW c \in Callers, CacheReloaded(c) PROVE OauthTypeOK'
    BY <1>14 DEF CacheReloaded
  <1>15. ASSUME NEW c \in Callers, SaveExchange(c) PROVE OauthTypeOK'
    <2>1. minted' \in Nat /\ live' \subseteq 1..minted' /\ due' \subseteq 1..minted'
      BY <1>15 DEF SaveExchange
    <2>2. QED  BY <1>15, <2>1 DEF SaveExchange
  <1>16. ASSUME NEW c \in Callers, ExchangeFails(c) PROVE OauthTypeOK'
    BY <1>16 DEF ExchangeFails
  <1>17. ASSUME NEW c \in Callers, ForgetCredential(c) PROVE OauthTypeOK'
    BY <1>17 DEF ForgetCredential
  <1>18. ASSUME NEW c \in Callers, PutAccount(c) PROVE OauthTypeOK'
    BY <1>18 DEF PutAccount
  <1>19. ASSUME NEW k \in 1..minted, Revoke(k) \/ EnterWindow(k) PROVE OauthTypeOK'
    <2>a. /\ live' \subseteq live
          /\ due' \subseteq due \cup {k}
          /\ excused' \subseteq excused \cup {k}
      BY <1>19 DEF Revoke, EnterWindow
    <2>1. live' \subseteq 1..minted /\ due' \subseteq 1..minted /\ excused' \subseteq Nat
      BY <2>a
    <2>2. QED  BY <1>19, <2>1 DEF Revoke, EnterWindow
  <1>20. CASE UNCHANGED oauthVars
    BY <1>20 DEF oauthVars
  <1>21. QED
    BY <1>1, <1>2, <1>3, <1>4, <1>5, <1>6, <1>7, <1>8, <1>9, <1>10, <1>11, <1>12, <1>13, <1>14, <1>15, <1>16, <1>17, <1>18, <1>19, <1>20 DEF Next, Start, Proceed

LEMMA PointsStep ==
  ASSUME OauthInv, [Next]_oauthVars PROVE PointsInv'
  <1> USE OauthAssumption DEF OauthInv, OauthTypeOK, PointsInv, Refreshing,
                               OauthPoints, Kinds, MovesTo, Finish
  <1>1. ASSUME NEW c \in Callers, AskToken(c) PROVE PointsInv'
    BY <1>1 DEF AskToken
  <1>2. ASSUME NEW c \in Callers, CheckStatus(c) PROVE PointsInv'
    BY <1>2 DEF CheckStatus
  <1>3. ASSUME NEW c \in Callers, StartExchange(c) \/ ClearForLogout(c) PROVE PointsInv'
    BY <1>3 DEF StartExchange, ClearForLogout
  <1>4. ASSUME NEW c \in Callers, LockGate(c) PROVE PointsInv'
    BY <1>4 DEF LockGate
  <1>5. ASSUME NEW c \in Callers, LoadCredential(c) PROVE PointsInv'
    BY <1>5 DEF LoadCredential
  <1>6. ASSUME NEW c \in Callers, VendorRotates(c) \/ VendorRefuses(c) PROVE PointsInv'
    BY <1>6 DEF VendorRotates, VendorRefuses
  <1>7. ASSUME NEW c \in Callers, Unreachable(c) \/ AnswerLost(c) PROVE PointsInv'
    BY <1>7 DEF Unreachable, AnswerLost
  <1>8. ASSUME NEW c \in Callers, SaveFresh(c) PROVE PointsInv'
    BY <1>8 DEF SaveFresh
  <1>9. ASSUME NEW c \in Callers, ClearRefused(c) \/ Reload(c) \/ CacheReloaded(c) PROVE PointsInv'
    BY <1>9 DEF ClearRefused, Reload, CacheReloaded
  <1>10. ASSUME NEW c \in Callers, SaveExchange(c) \/ ExchangeFails(c) PROVE PointsInv'
    BY <1>10 DEF SaveExchange, ExchangeFails
  <1>11. ASSUME NEW c \in Callers, ForgetCredential(c) \/ PutAccount(c) PROVE PointsInv'
    BY <1>11 DEF ForgetCredential, PutAccount
  <1>12. ASSUME NEW k \in 1..minted, Revoke(k) \/ EnterWindow(k) PROVE PointsInv'
    BY <1>12 DEF Revoke, EnterWindow
  <1>13. CASE UNCHANGED oauthVars
    BY <1>13 DEF oauthVars
  <1>14. QED
    BY <1>1, <1>2, <1>3, <1>4, <1>5, <1>6, <1>7, <1>8, <1>9, <1>10, <1>11, <1>12, <1>13
    DEF Next, Start, Proceed

LEMMA GateStep ==
  ASSUME OauthInv, [Next]_oauthVars PROVE GateHeldWhileRefreshing'
  <1> USE OauthAssumption DEF OauthInv, OauthTypeOK, GateHeldWhileRefreshing, Refreshing,
                               PointsInv, OauthPoints, Kinds, MovesTo, OpenGate, Finish
  <1>1. ASSUME NEW c \in Callers, AskToken(c) PROVE GateHeldWhileRefreshing'
    BY <1>1 DEF AskToken
  <1>2. ASSUME NEW c \in Callers, CheckStatus(c) PROVE GateHeldWhileRefreshing'
    BY <1>2 DEF CheckStatus
  <1>3. ASSUME NEW c \in Callers, StartExchange(c) \/ ClearForLogout(c) PROVE GateHeldWhileRefreshing'
    BY <1>3 DEF StartExchange, ClearForLogout
  <1>4. ASSUME NEW c \in Callers, LockGate(c) PROVE GateHeldWhileRefreshing'
    BY <1>4 DEF LockGate
  <1>5. ASSUME NEW c \in Callers, LoadCredential(c) PROVE GateHeldWhileRefreshing'
    BY <1>5 DEF LoadCredential
  <1>6. ASSUME NEW c \in Callers, VendorRotates(c) \/ VendorRefuses(c) PROVE GateHeldWhileRefreshing'
    BY <1>6 DEF VendorRotates, VendorRefuses
  <1>7. ASSUME NEW c \in Callers, Unreachable(c) \/ AnswerLost(c) PROVE GateHeldWhileRefreshing'
    BY <1>7 DEF Unreachable, AnswerLost
  <1>8. ASSUME NEW c \in Callers, SaveFresh(c) PROVE GateHeldWhileRefreshing'
    BY <1>8 DEF SaveFresh
  <1>9. ASSUME NEW c \in Callers, ClearRefused(c) PROVE GateHeldWhileRefreshing'
    BY <1>9 DEF ClearRefused
  <1>10. ASSUME NEW c \in Callers, Reload(c) \/ CacheReloaded(c) PROVE GateHeldWhileRefreshing'
    BY <1>10 DEF Reload, CacheReloaded
  <1>11. ASSUME NEW c \in Callers, SaveExchange(c) \/ ExchangeFails(c) PROVE GateHeldWhileRefreshing'
    BY <1>11 DEF SaveExchange, ExchangeFails
  <1>12. ASSUME NEW c \in Callers, ForgetCredential(c) \/ PutAccount(c) PROVE GateHeldWhileRefreshing'
    BY <1>12 DEF ForgetCredential, PutAccount
  <1>13. ASSUME NEW k \in 1..minted, Revoke(k) \/ EnterWindow(k) PROVE GateHeldWhileRefreshing'
    BY <1>13 DEF Revoke, EnterWindow
  <1>14. CASE UNCHANGED oauthVars
    BY <1>14 DEF oauthVars
  <1>15. QED
    BY <1>1, <1>2, <1>3, <1>4, <1>5, <1>6, <1>7, <1>8, <1>9, <1>10, <1>11, <1>12, <1>13, <1>14
    DEF Next, Start, Proceed

\* Two callers are never both inside oauth_token's gate.
LEMMA OneRefresher ==
  ASSUME OauthInv, NEW c \in Callers, NEW d \in Callers,
         place[c] \in Refreshing, place[d] \in Refreshing, SameGate(c, d)
  PROVE  c = d
  BY DEF OauthInv, SameGate, GateHeldWhileRefreshing

LEMMA TokenStep ==
  ASSUME OauthInv, [Next]_oauthVars PROVE TokenInv'
  <1> USE OauthAssumption DEF OauthInv, OauthTypeOK, TokenInv, Good, Tokens, NoToken, OauthPoints, MovesTo,
                               DropTokens, Finish, Refreshing, vendorVars
  <1>1. ASSUME NEW c \in Callers, Start(c) PROVE TokenInv'
    BY <1>1 DEF Start, AskToken, CheckStatus, StartExchange, ClearForLogout
  <1>2. ASSUME NEW c \in Callers, LockGate(c) PROVE TokenInv'
    BY <1>2 DEF LockGate
  <1>3. ASSUME NEW c \in Callers, LoadCredential(c) PROVE TokenInv'
    <2>1. keychain # NoToken => Good(keychain) \/ <<keychain, c>> \in raced
      <3>1. \A d \in Callers : place[d] = "answered" => ~SameGate(d, c)
        BY <1>3, OneRefresher DEF LoadCredential
      <3>2. QED  BY <3>1
    <2>2. QED  BY <1>3, <2>1 DEF LoadCredential
  <1>4. ASSUME NEW c \in Callers, VendorRotates(c) PROVE TokenInv'
    <2>1. /\ place' = [place EXCEPT ![c] = "answered"] /\ got' = [got EXCEPT ![c] = minted + 1]
          /\ live' = (live \ {posted[c]}) \cup {minted + 1}
          /\ UNCHANGED <<keychain, posted, excused>> /\ place[c] = "posting"
      BY <1>4 DEF VendorRotates
    <2>2. /\ raced \subseteq raced'
          /\ \A d \in Callers : SameGate(c, d) \/ <<posted[c], d>> \in raced'
      BY <1>4 DEF VendorRotates
    <2>3. \A k : k # posted[c] /\ Good(k) => Good(k)'
      BY <2>1
    <2>4. \A d \in Callers \ {c} : place[d] = "posting" => ~SameGate(c, d)
      BY <2>1, OneRefresher
    <2>5. keychain # NoToken =>
            Good(keychain)' \/ \E d \in Callers : place'[d] = "answered" /\ posted'[d] = keychain
      BY <2>1, <2>3
    <2>6. \A d \in Callers : place'[d] = "posting" => Good(posted[d])' \/ <<posted[d], d>> \in raced'
      BY <2>1, <2>2, <2>3, <2>4
    <2>7. ASSUME NEW d \in Callers, place'[d] = "answered"
          PROVE  Good(got[d])' /\ \A e \in Callers : SameGate(d, e) \/ <<posted[d], e>> \in raced'
      <3>1. CASE d = c
        BY <2>1, <2>2, <3>1
      <3>2. CASE d # c
        <4>1. place[d] = "answered" /\ got'[d] = got[d]
          BY <2>1, <2>7, <3>2
        <4>2. Good(got[d]) /\ got[d] # posted[c]
          BY <4>1 DEF FreshInv
        <4>3. QED  BY <2>1, <2>2, <4>1, <4>2
      <3>3. QED  BY <3>1, <3>2
    <2>8. \A d \in Callers : place'[d] = "refused" => posted'[d] \in excused' \/ <<posted[d], d>>' \in raced'
      BY <2>1, <2>2
    <2>9. QED  BY <2>1, <2>5, <2>6, <2>7, <2>8
  <1>5. ASSUME NEW c \in Callers, VendorRefuses(c) PROVE TokenInv'
    BY <1>5 DEF VendorRefuses
  <1>6. ASSUME NEW c \in Callers, Unreachable(c) PROVE TokenInv'
    BY <1>6 DEF Unreachable
  <1>7. ASSUME NEW c \in Callers, AnswerLost(c) PROVE TokenInv'
    BY <1>7 DEF AnswerLost
  <1>8. ASSUME NEW c \in Callers, SaveFresh(c) PROVE TokenInv'
    BY <1>8 DEF SaveFresh
  <1>9. ASSUME NEW c \in Callers, ClearRefused(c) PROVE TokenInv'
    BY <1>9 DEF ClearRefused
  <1>10. ASSUME NEW c \in Callers, Reload(c) PROVE TokenInv'
    BY <1>10 DEF Reload
  <1>11. ASSUME NEW c \in Callers, CacheReloaded(c) PROVE TokenInv'
    BY <1>11 DEF CacheReloaded
  <1>12. ASSUME NEW c \in Callers, SaveExchange(c) PROVE TokenInv'
    BY <1>12 DEF SaveExchange
  <1>13. ASSUME NEW c \in Callers, ExchangeFails(c) \/ ForgetCredential(c) PROVE TokenInv'
    BY <1>13 DEF ExchangeFails, ForgetCredential
  <1>14. ASSUME NEW c \in Callers, PutAccount(c) PROVE TokenInv'
    BY <1>14 DEF PutAccount
  <1>15. ASSUME NEW k \in 1..minted, Revoke(k) \/ EnterWindow(k) PROVE TokenInv'
    BY <1>15 DEF Revoke, EnterWindow
  <1>16. CASE UNCHANGED oauthVars
    BY <1>16 DEF oauthVars
  <1>17. QED
    BY <1>1, <1>2, <1>3, <1>4, <1>5, <1>6, <1>7, <1>8, <1>9, <1>10, <1>11, <1>12, <1>13, <1>14,
       <1>15, <1>16
    DEF Next, Proceed

LEMMA FreshStep ==
  ASSUME OauthInv, [Next]_oauthVars PROVE FreshInv'
  <1> USE OauthAssumption DEF OauthInv, OauthTypeOK, FreshInv, Tokens, NoToken, OauthPoints, MovesTo,
                               DropTokens, Finish, vendorVars
  <1>1. ASSUME NEW c \in Callers, Start(c) PROVE FreshInv'
    BY <1>1 DEF Start, AskToken, CheckStatus, StartExchange, ClearForLogout
  <1>2. ASSUME NEW c \in Callers, LockGate(c) PROVE FreshInv'
    BY <1>2 DEF LockGate
  <1>3. ASSUME NEW c \in Callers, LoadCredential(c) PROVE FreshInv'
    BY <1>3 DEF LoadCredential
  <1>4. ASSUME NEW c \in Callers, VendorRotates(c) PROVE FreshInv'
    BY <1>4 DEF VendorRotates
  <1>5. ASSUME NEW c \in Callers, VendorRefuses(c) \/ Unreachable(c) \/ AnswerLost(c) PROVE FreshInv'
    BY <1>5 DEF VendorRefuses, Unreachable, AnswerLost
  <1>6. ASSUME NEW c \in Callers, SaveFresh(c) PROVE FreshInv'
    BY <1>6 DEF SaveFresh
  <1>7. ASSUME NEW c \in Callers, ClearRefused(c) PROVE FreshInv'
    BY <1>7 DEF ClearRefused
  <1>8. ASSUME NEW c \in Callers, Reload(c) \/ CacheReloaded(c) PROVE FreshInv'
    BY <1>8 DEF Reload, CacheReloaded
  <1>9. ASSUME NEW c \in Callers, SaveExchange(c) PROVE FreshInv'
    BY <1>9 DEF SaveExchange
  <1>10. ASSUME NEW c \in Callers, ExchangeFails(c) \/ ForgetCredential(c) \/ PutAccount(c)
         PROVE FreshInv'
    BY <1>10 DEF ExchangeFails, ForgetCredential, PutAccount
  <1>11. ASSUME NEW k \in 1..minted, Revoke(k) \/ EnterWindow(k) PROVE FreshInv'
    BY <1>11 DEF Revoke, EnterWindow
  <1>12. CASE UNCHANGED oauthVars
    BY <1>12 DEF oauthVars
  <1>13. QED
    BY <1>1, <1>2, <1>3, <1>4, <1>5, <1>6, <1>7, <1>8, <1>9, <1>10, <1>11, <1>12 DEF Next, Proceed

-----------------------------------------------------------------------------
\* The state of the credential keeps its types, whoever calls.
THEOREM OauthTypeCorrect == Spec => []OauthTypeOK
  <1>1. Init => OauthTypeOK
    BY OauthInitOK DEF OauthInv
  <1>2. OauthTypeOK /\ [Next]_oauthVars => OauthTypeOK'
    BY OauthTypeStep
  <1>3. QED  BY <1>1, <1>2, PTL DEF Spec

\* One step of anybody keeps it.
LEMMA OauthStep == OauthInv /\ [Next]_oauthVars => OauthInv'
  BY OauthTypeStep, PointsStep, GateStep, TokenStep, FreshStep DEF OauthInv

\* The inductive invariant the three results below are read off.
THEOREM OauthInvariant == Spec => []OauthInv
  BY OauthInitOK, OauthStep, PTL DEF Spec

\* What it says of a turn that was refused.
LEMMA NoRace == OauthInv => GatedTurnsDoNotRace
  BY DEF OauthInv, TokenInv, GatedTurnsDoNotRace

\* runtime.rs:190-196: a turn is refused only for a token that was revoked, that
\* was lost, or that somebody outside its gate had rotated.
THEOREM GatedTurnsNeverRace == Spec => []GatedTurnsDoNotRace
  BY OauthInvariant, NoRace, PTL

\* runtime.rs:187: no refresh token is in the POSTs of two turns of a process.
THEOREM OnePostPerToken == Spec => []NoTokenPostedTwice
  <1>1. OauthInv => NoTokenPostedTwice
    BY OneRefresher DEF NoTokenPostedTwice, Refreshing
  <1>2. QED  BY OauthInvariant, <1>1, PTL

\* runtime.rs:635-636: the gate is held by the refreshing turn, and by no other.
THEOREM GateIsHeld == Spec => []GateHeldWhileRefreshing
  <1>1. OauthInv => GateHeldWhileRefreshing
    BY DEF OauthInv
  <1>2. QED  BY OauthInvariant, <1>1, PTL

-----------------------------------------------------------------------------
(* The cache of a key account. *)

\* A task carries a secret from the store to the cache, or to its place under another key.
HandInv ==
  \A t \in Tasks :
    /\ at[t] = "insert" => hand[t] \in Values
    /\ at[t] = "delete" => op[t] = "reseal"
    /\ op[t] = "reseal" /\ at[t] \in {"delete", "put"} => hand[t] \in Keys

\* What a process serves, or is about to, is what is stored, unless one of its own writers has
\* still to invalidate it.
ServedInv ==
  \A p \in Programs \ crossed :
    /\ cache[p] # Unread /\ Settled(p) => cache[p] = Effective(store)
    /\ \A t \in Inserting(p) : hand[t] = Effective(store)

SecretInv == SecretTypeOK /\ HandInv /\ ServedInv

\* Nothing is cached and nothing goes on.
LEMMA CacheInitially == CacheInit => SecretInv
  BY SecretAssumption
DEF CacheInit, SecretInv, SecretTypeOK, HandInv, ServedInv, Inserting, Home, CachePoints, Ops

\* An operation begins, is served from the cache, looks in the store, or fails.
LEMMA LookupStep ==
  ASSUME SecretInv, NEW t \in Tasks, BeginOp(t) \/ Hit(t) \/ Miss(t) \/ GetKey(t) \/ PutFails(t)
  PROVE  SecretInv'
<1> USE SecretAssumption DEF SecretInv, GoTo, LeaveOp
<1>1. UNCHANGED <<store, cache, crossed>>
  BY DEF BeginOp, Hit, Miss, GetKey, PutFails
<1>2. SecretTypeOK' /\ HandInv'
  <2> USE DEF SecretTypeOK, HandInv, CachePoints
  <2>1. CASE BeginOp(t) BY <2>1 DEF BeginOp, Ops
  <2>2. CASE Hit(t) \/ Miss(t) \/ PutFails(t) BY <2>2 DEF Hit, Miss, PutFails
  <2>3. CASE GetKey(t) BY <2>3 DEF GetKey, Effective, Values
  <2> QED BY <2>1, <2>2, <2>3
<1>3. /\ at[t] \notin {"insert", "forget"} /\ \A u \in Tasks \ {t} : at'[u] = at[u] /\ hand'[u] = hand[u]
      /\ at'[t] # "forget" /\ (at'[t] = "insert" => hand'[t] = Effective(store))
  BY DEF BeginOp, Hit, Miss, GetKey, PutFails, SecretTypeOK
<1>4. ServedInv'
  BY <1>1, <1>3 DEF ServedInv, Settled, Inserting, Effective
<1> QED BY <1>2, <1>4

\* What was read is cached.
LEMMA InsertStep ==
  ASSUME SecretInv, NEW t \in Tasks, InsertCache(t)
  PROVE  SecretInv'
<1> USE SecretAssumption DEF SecretInv, GoTo, LeaveOp, InsertCache
<1>1. SecretTypeOK' /\ HandInv'
  BY DEF SecretTypeOK, HandInv, CachePoints, Home
<1>2. ASSUME NEW p \in Programs \ crossed
      PROVE  /\ cache'[p] = cache[p] \/ (p = Home(t) /\ cache'[p] = hand[t] /\ t \in Inserting(p))
             /\ Settled(p)' => Settled(p)
             /\ \A u \in Tasks : u \in Inserting(p)' => u \in Inserting(p) /\ hand'[u] = hand[u]
  BY DEF SecretTypeOK, Settled, Inserting, Home
<1>3. ServedInv'
  BY <1>2 DEF ServedInv, Effective, Inserting
<1> QED BY <1>1, <1>3

\* A write crosses every other process, and its own where a reader has yet to insert.
LEMMA WriteStep ==
  ASSUME SecretInv, NEW t \in Tasks, PutKey(t) \/ DeleteForReseal(t)
  PROVE  SecretInv'
<1> USE SecretAssumption DEF SecretInv, GoTo, LeaveOp
<1>1. CASE DeleteForReseal(t)
  <2>1. SecretTypeOK' /\ HandInv'
    BY <1>1 DEF DeleteForReseal, SecretTypeOK, HandInv, CachePoints, Values
  <2>2. ServedInv'
    BY <1>1 DEF DeleteForReseal, ServedInv
  <2> QED BY <2>1, <2>2
<1>2. CASE PutKey(t)
  <2>1. /\ at[t] = "put" /\ cache' = cache
        /\ \/ LeaveOp(t) /\ UNCHANGED <<store, crossed>>
           \/ /\ store' \in Values
              /\ crossed' = crossed \cup {p \in Programs : p # Home(t) \/ Inserting(p) # {}}
              /\ GoTo(t, "forget") /\ UNCHANGED <<op, hand>>
    BY <1>2 DEF PutKey, WriteStore, Values, HandInv
  <2>2. SecretTypeOK' /\ HandInv'
    BY <2>1 DEF SecretTypeOK, HandInv, CachePoints
  <2>3. CASE UNCHANGED <<store, crossed>> /\ LeaveOp(t)
    <3>1. \A u \in Tasks \ {t} : at'[u] = at[u] /\ hand'[u] = hand[u]
      BY <2>3 DEF SecretTypeOK
    <3>2. at[t] = "put" /\ at'[t] = "idle"
      BY <2>1, <2>3 DEF SecretTypeOK
    <3> QED BY <2>1, <2>2, <2>3, <3>1, <3>2 DEF ServedInv, Settled, Inserting, Effective
  <2>4. CASE crossed' = crossed \cup {p \in Programs : p # Home(t) \/ Inserting(p) # {}} /\ GoTo(t, "forget")
    <3>1. at'[t] = "forget"
      BY <2>4 DEF SecretTypeOK
    <3>2. ASSUME NEW p \in Programs \ crossed' PROVE p = Home(t) /\ ~Settled(p)' /\ Inserting(p)' = {}
      <4>1. p = Home(t) /\ Inserting(p) = {}
        BY <2>4, <3>2
      <4> QED BY <2>4, <3>1, <4>1 DEF Settled, Inserting, Home, SecretTypeOK
    <3> QED BY <2>2, <3>2 DEF ServedInv
  <2> QED BY <2>1, <2>3, <2>4
<1> QED BY <1>1, <1>2

\* A writer invalidates its process's entry.
LEMMA ForgetSecretStep ==
  ASSUME SecretInv, NEW t \in Tasks, ForgetSecret(t)
  PROVE  SecretInv'
<1> USE SecretAssumption DEF SecretInv, GoTo, LeaveOp, ForgetSecret
<1>1. SecretTypeOK' /\ HandInv'
  BY DEF SecretTypeOK, HandInv, CachePoints, Home
<1>2. cache'[Home(t)] = Unread /\ \A p \in Programs \ {Home(t)} : cache'[p] = cache[p]
  BY DEF SecretTypeOK, Home
<1>3. \A u \in Tasks \ {t} : at'[u] = at[u] /\ hand'[u] = hand[u]
  BY DEF SecretTypeOK
<1>4. at'[t] \notin {"insert", "forget"} /\ at[t] # "insert"
  BY DEF SecretTypeOK
<1>5. \A p \in Programs : Inserting(p)' = Inserting(p)
  BY <1>3, <1>4 DEF Inserting, Home
<1>6. \A p \in Programs \ {Home(t)} : /\ Settled(p)' = Settled(p)
                                      /\ p \in crossed' <=> p \in crossed
  BY <1>3 DEF Settled, Home
<1>7. Home(t) \notin crossed' => Inserting(Home(t)) = {} \/ Home(t) \notin crossed
  OBVIOUS
<1>8. ServedInv'
  BY <1>2, <1>3, <1>4, <1>5, <1>6, <1>7 DEF ServedInv, Effective, Inserting
<1> QED BY <1>1, <1>8

\* A process dies, and its cache and its tasks with it.
LEMMA ProgramDiesStep ==
  ASSUME SecretInv, NEW p \in Programs, ProgramDies(p)
  PROVE  SecretInv'
<1> USE SecretAssumption DEF SecretInv, ProgramDies
<1>1. SecretTypeOK' /\ HandInv'
  BY DEF SecretTypeOK, HandInv, CachePoints, Home
<1>2. cache'[p] = Unread /\ Inserting(p)' = {}
  BY DEF SecretTypeOK, Inserting, Home
<1>3. ASSUME NEW q \in Programs \ {p}
      PROVE  cache'[q] = cache[q] /\ Inserting(q)' = Inserting(q) /\ Settled(q)' = Settled(q)
             /\ \A t \in Inserting(q) : hand'[t] = hand[t]
  BY <1>3 DEF SecretTypeOK, Inserting, Settled, Home
<1>4. UNCHANGED store /\ crossed' = crossed \ {p}
  OBVIOUS
<1>5. ServedInv /\ \A q \in Programs : q # p => q \in Programs \ {p}
  OBVIOUS
<1> HIDE DEF SecretInv, ProgramDies
<1>6. ServedInv'
  BY <1>2, <1>3, <1>4, <1>5 DEF ServedInv, Effective
<1> QED BY <1>1, <1>6 DEF SecretInv

\* Every step keeps it.
LEMMA SecretStep == SecretInv /\ [CacheNext]_cacheVars => SecretInv'
<1> SUFFICES ASSUME SecretInv, [CacheNext]_cacheVars PROVE SecretInv'
  OBVIOUS
<1>1. CASE UNCHANGED cacheVars
  BY <1>1
  DEF cacheVars, SecretInv, SecretTypeOK, HandInv, ServedInv, Settled, Inserting, Effective
<1>2. CASE \E t \in Tasks : TaskStep(t)
  BY <1>2, LookupStep, InsertStep, WriteStep, ForgetSecretStep DEF TaskStep
<1>3. CASE \E p \in Programs : ProgramDies(p)
  BY <1>3, ProgramDiesStep
<1> QED BY <1>1, <1>2, <1>3 DEF CacheNext

\* What it says of a value that is served.
LEMMA CacheIsCurrent == SecretInv => CacheFollowsTheStore
  BY DEF SecretInv, ServedInv, CacheFollowsTheStore

\* runtime.rs (cached_key, forget_secret), for any processes and tasks: a settled process
\* serves the secret that is stored, unless since its last invalidation another process wrote
\* the account, a write fell between a read and its insert, or a re-seal deleted the item.
THEOREM CacheServesTheStore == CacheSpec => []CacheFollowsTheStore
  BY CacheInitially, SecretStep, CacheIsCurrent, PTL DEF CacheSpec

\* The types of the account, of its caches and of what the tasks carry between them.
THEOREM SecretTypes == CacheSpec => []SecretTypeOK
<1>1. SecretInv => SecretTypeOK
  BY DEF SecretInv
<1> QED BY CacheInitially, SecretStep, <1>1, PTL DEF CacheSpec

-----------------------------------------------------------------------------
(* The three together. *)

\* What is known of the subscription, of the file and of the caches.
CredentialsInv == OauthInv /\ KeyInv /\ SecretInv

\* A behaviour of one of the three leaves the other two alone.
LEMMA CredentialsStep == CredentialsInv /\ [CredentialsNext]_credentialVars => CredentialsInv'
<1>1. [CredentialsNext]_credentialVars =>
        [Next]_oauthVars /\ [FileNext]_fileVars /\ [CacheNext]_cacheVars
  BY DEF CredentialsNext, credentialVars
<1> QED BY <1>1, OauthStep, KeyStep, SecretStep DEF CredentialsInv

\* The types of the credential, the file and its writers, the store and its caches; and what the
\* run checks of each of them, side by side.
THEOREM CredentialsAreSafe ==
  CredentialsSpec => [](CredentialsTypeOK /\ GatedTurnsDoNotRace /\ CacheFollowsTheStore)
<1>1. CredentialsInit => CredentialsInv
  BY OauthInitOK, FileInitOK, CacheInitially DEF CredentialsInit, CredentialsInv
<1>2. CredentialsInv => CredentialsTypeOK
  BY DEF CredentialsInv, OauthInv, KeyInv, SecretInv, CredentialsTypeOK
<1>3. CredentialsInv => GatedTurnsDoNotRace /\ CacheFollowsTheStore
  BY NoRace, CacheIsCurrent DEF CredentialsInv
<1> QED BY <1>1, <1>2, <1>3, CredentialsStep, PTL DEF CredentialsSpec

\* Beside the subscription and the caches, too, every step of the file changes one item of it.
THEOREM CredentialsTouchOneItem == CredentialsSpec => WritesTouchOneItem
<1>1. CredentialsInit => FileInit
  BY DEF CredentialsInit
<1>2. [CredentialsNext]_credentialVars => [FileNext]_fileVars
  BY DEF CredentialsNext, credentialVars, fileVars
<1>3. CredentialsSpec => FileSpec
  BY <1>1, <1>2, PTL DEF CredentialsSpec, FileSpec
<1> QED BY <1>3, KeyFileImplementsMap
=============================================================================
