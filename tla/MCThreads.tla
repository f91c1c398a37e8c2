----------------------------- MODULE MCThreads -----------------------------
(***************************************************************************)
(* The two front ends over the event stream, one at a time.  Two turns and *)
(* two sentences, and a channel of two envelopes, so that it overflows;    *)
(* each level bounds what the others are about.                            *)
(***************************************************************************)
EXTENDS TerminalThread, WindowThread

CONSTANTS t1, t2, m1, m2, c1, c2

VARIABLE level

threadsVars == <<streamVars, turnVars, terminalVars, windowVars, level>>

Interchangeable == Permutations(Turns) \cup Permutations(Typed)

ThreadsInit ==
  /\ StreamInit /\ TurnInit /\ TerminalInit /\ WindowInit
  /\ level \in {"turns", "talks", "repairs", "switches", "steers"}
  /\ IF level = "turns" THEN word[m1] # word[m2] ELSE word = [m \in Typed |-> "yes"]

NobodyDies == \A t \in Turns : phase'[t] # "dead"
OneLives == \E t \in Turns : \A u \in Turns \ {t} : phase'[u] \in {"none", "asked", "left"}
OneRuns == \E t \in Turns : \A u \in Turns \ {t} : phase'[u] = "none"
In(conversations) ==
  active' \in conversations \cup {None} /\ \A i \in DOMAIN calls' : calls'[i].talk \in conversations \cup {None}

ThreadsNext ==
  /\ \/ TerminalNext /\ UNCHANGED windowVars
        /\ \/ level = "turns" /\ made' = {c1} /\ OneLives
           \/ level = "talks" /\ OneRuns
     \/ WindowNext /\ UNCHANGED terminalVars /\ OneRuns
        /\ \/ level = "repairs" /\ unsent' # {} /\ In({c1})
           \/ /\ level = "switches" /\ unsent' # {}
              /\ \A t \in Turns : phase'[t] \in {"none", "asked", "left"}
           \/ level = "steers" /\ Len(calls') <= 1 /\ In({c1}) /\ ~lagged' /\ Len(wire') <= 1
  /\ level = "talks" \/ NobodyDies
  /\ UNCHANGED level

ThreadsSpec == ThreadsInit /\ [][ThreadsNext]_threadsVars

\* Any number of turns at once, in the window.
OverlapNext == WindowNext /\ level = "turns" /\ UNCHANGED <<terminalVars, level>>
OverlapSpec == ThreadsInit /\ [][OverlapNext]_threadsVars

\* The types of the stream, the turns and both front ends.
ThreadsTypeOK == TurnTypeOK /\ TerminalTypeOK /\ WindowTypeOK

\* No row of the thread on screen goes missing unnoticed, in either front end.
ThreadsAreWhole ==
  /\ level \in {"turns", "talks"} => NothingIsMissing
  /\ OnlyOvertakenRowsAreMissing
=============================================================================
