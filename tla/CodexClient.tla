---------------------------- MODULE CodexClient ----------------------------
(***************************************************************************)
(* The codex app-server's client (crates/neo-agent/src/codex): requests    *)
(* and their replies over one pipe each way, notifications broadcast to    *)
(* whoever waits for the end of a login or of a turn, and a read loop that *)
(* ends once and for all.  The app-server is external: it answers in any   *)
(* order, or not at all.                                                   *)
(*                                                                         *)
(* A caller makes its request (a turn, two: its thread's and its own) and  *)
(* then, unless it is plain, waits for a notification.                     *)
(***************************************************************************)
EXTENDS Integers, Sequences, SequencesExt

CONSTANTS
  Callers, Kind,   \* what each caller is: "plain", "login" or "turn"
  NoCaller,        \* who a notification for no caller is for
  Capacity,        \* NOTIFICATION_CAPACITY
  MaxPipe,         \* bound: lines in the pipe from the server
  MaxNoise         \* bound: lines that answer nobody

ASSUME CodexAssumption ==
  /\ Kind \in [Callers -> {"plain", "login", "turn"}] /\ NoCaller \notin Callers
  /\ Capacity \in Nat \ {0} /\ {MaxPipe, MaxNoise} \subseteq Nat

VARIABLES
  serving,   \* the app-server runs
  shut,      \* ClientInner::closed
  pending,   \* ClientInner::pending: the requests in flight, <<caller, part>>
  part,      \* per caller: "thread" is a turn's first request, "main" the one that counts
  doing,     \* per caller: where its request is
  reply,     \* per caller: what its oneshot holds
  told,      \* callers whose end the read loop has dispatched
  listens,   \* callers that are subscribed
  feed, lag, \* per caller: its receiver, and whether it has lost something
  owed,      \* requests the server has read and not answered
  down,      \* the pipe from the server
  noise      \* lines that answered nobody, so far

serverVars == <<serving, owed, down, noise>>
channelVars == <<listens, feed, lag, told>>
callerVars == <<part, doing, reply>>
codexVars == <<serverVars, shut, pending, callerVars, channelVars>>

CodexTypeOK ==
  /\ pending \cup owed \subseteq Callers \X {"thread", "main"}
  /\ part \in [Callers -> {"thread", "main"}]
  /\ doing \in [Callers -> {"begin", "write", "answer", "wait", "over"}]
  /\ reply \in [Callers -> {"none", "ok", "error"}]
  /\ \A c \in Callers : Len(feed[c]) <= Capacity

CodexInit ==
  /\ serving = TRUE /\ shut = FALSE /\ pending = {} /\ owed = {} /\ down = <<>> /\ noise = 0
  /\ part = [c \in Callers |-> IF Kind[c] = "turn" THEN "thread" ELSE "main"]
  /\ doing = [c \in Callers |-> "begin"] /\ reply = [c \in Callers |-> "none"]
  /\ listens = {c \in Callers : Kind[c] = "login"} /\ told = {}
  /\ feed = [c \in Callers |-> <<>>] /\ lag = [c \in Callers |-> FALSE]

-----------------------------------------------------------------------------
(* request *)

Request(c) == <<c, part[c]>>
Line(kind, for) == [kind |-> kind, for |-> for]

\* Mutant of Issue: the latch is not read under the lock.
IssueMutant(c) ==
  /\ doing[c] = "begin"
  /\ pending' = pending \cup {Request(c)} /\ doing' = [doing EXCEPT ![c] = "write"]
  /\ UNCHANGED <<serverVars, shut, part, reply, channelVars>>

\* Under the lock of pending: refused once the read loop has ended.
Issue(c) ==
  /\ doing[c] = "begin"
  /\ IF shut THEN doing' = [doing EXCEPT ![c] = "over"] /\ UNCHANGED pending
     ELSE pending' = pending \cup {Request(c)} /\ doing' = [doing EXCEPT ![c] = "write"]
  /\ UNCHANGED <<serverVars, shut, part, reply, channelVars>>

\* write_message: the server may have gone.
Write(c) ==
  /\ doing[c] = "write"
  /\ \/ serving /\ owed' = owed \cup {Request(c)} /\ doing' = [doing EXCEPT ![c] = "answer"]
        /\ UNCHANGED pending
     \/ ~serving /\ pending' = pending \ {Request(c)} /\ doing' = [doing EXCEPT ![c] = "over"]
        /\ UNCHANGED owed
  /\ UNCHANGED <<serving, down, noise, shut, part, reply, channelVars>>

\* The oneshot is answered.  complete_text subscribes between its two requests, as
\* start_chatgpt_login does before its one.
Answered(c) ==
  /\ doing[c] = "answer" /\ reply[c] # "none"
  /\ reply' = [reply EXCEPT ![c] = "none"]
  /\ part' = [part EXCEPT ![c] = "main"]
  /\ doing' = [doing EXCEPT ![c] = IF reply[c] = "error" \/ Kind[c] = "plain" THEN "over"
                                   ELSE IF part[c] = "thread" THEN "begin" ELSE "wait"]
  /\ listens' = IF part[c] = "thread" THEN listens \cup {c} ELSE listens
  /\ UNCHANGED <<serverVars, shut, pending, feed, lag, told>>

\* request_timeout, or the deadline of a wait.
TimesOut(c) ==
  /\ doing[c] \in {"answer", "wait"} /\ doing' = [doing EXCEPT ![c] = "over"]
  /\ pending' = IF doing[c] = "answer" THEN pending \ {Request(c)} ELSE pending
  /\ listens' = listens \ {c}
  /\ UNCHANGED <<serverVars, shut, part, reply, feed, lag, told>>

\* The caller's future is dropped: its entry stays until an answer or the end.
DropCaller(c) ==
  /\ doing[c] \in {"write", "answer", "wait"} /\ doing' = [doing EXCEPT ![c] = "over"]
  /\ listens' = listens \ {c}
  /\ UNCHANGED <<serverVars, shut, pending, part, reply, feed, lag, told>>

\* One notification: a turn that has lost some gives up, a login goes on.
Hear(c) ==
  /\ doing[c] = "wait"
  /\ IF lag[c]
     THEN /\ lag' = [lag EXCEPT ![c] = FALSE] /\ UNCHANGED feed
          /\ doing' = [doing EXCEPT ![c] = IF Kind[c] = "turn" THEN "over" ELSE @]
     ELSE /\ feed[c] # <<>> /\ feed' = [feed EXCEPT ![c] = Tail(@)] /\ UNCHANGED lag
          /\ doing' = [doing EXCEPT ![c] = IF Head(feed[c]) = c THEN "over" ELSE @]
  /\ listens' = IF doing'[c] = "over" THEN listens \ {c} ELSE listens
  /\ UNCHANGED <<serverVars, shut, pending, part, reply, told>>

-----------------------------------------------------------------------------
(* read_loop *)

\* close: the latch goes up and every request in flight is answered.
Close ==
  /\ shut' = TRUE /\ pending' = {}
  /\ reply' = [c \in Callers |-> IF Request(c) \in pending /\ doing[c] # "over" THEN "error" ELSE reply[c]]

\* broadcast: a receiver that is full loses its oldest.
Announce(who) ==
  /\ feed' = [c \in Callers |-> IF c \notin listens THEN feed[c]
                                ELSE Append(IF Len(feed[c]) = Capacity THEN Tail(feed[c]) ELSE feed[c], who)]
  /\ lag' = [c \in Callers |-> lag[c] \/ (c \in listens /\ Len(feed[c]) = Capacity)]
  /\ told' = told \cup {who}

\* dispatch_message.  A request of the server's is refused: if that cannot be
\* written the loop ends, and so it does on a line it cannot parse.
Dispatch ==
  /\ ~shut /\ down # <<>> /\ down' = Tail(down)
  /\ LET line == Head(down) IN
     CASE line.kind = "reply" ->
            /\ pending' = pending \ {line.for}
            /\ reply' = [c \in Callers |-> IF line.for \in pending /\ line.for = Request(c) /\ doing[c] # "over"
                                           THEN "ok" ELSE reply[c]]
            /\ UNCHANGED <<shut, feed, lag, told>>
       [] line.kind = "end" -> Announce(line.for) /\ UNCHANGED <<shut, pending, reply>>
       [] line.kind = "bad" \/ (line.kind = "ask" /\ ~serving) -> Close /\ UNCHANGED <<feed, lag, told>>
       [] OTHER -> UNCHANGED <<shut, pending, reply, feed, lag, told>>
  /\ UNCHANGED <<serving, owed, noise, part, doing, listens>>

EndOfFile ==
  /\ ~shut /\ ~serving /\ down = <<>> /\ Close
  /\ UNCHANGED <<serverVars, part, doing, channelVars>>

-----------------------------------------------------------------------------
(* The app-server *)

Say(line) == serving /\ Len(down) < MaxPipe /\ down' = Append(down, line)

Responds ==
  /\ \E r \in owed : Say(Line("reply", r)) /\ owed' = owed \ {r}
  /\ UNCHANGED <<serving, noise, shut, pending, callerVars, channelVars>>

\* What a login or a turn waits for: once it has been asked for, and once.
Complete(c) ==
  /\ Kind[c] # "plain" /\ c \notin told /\ Line("end", c) \notin ToSet(down)
  /\ <<c, "main">> \in owed \/ doing[c] = "wait" \/ Line("reply", <<c, "main">>) \in ToSet(down)
  /\ Say(Line("end", c))
  /\ UNCHANGED <<serving, owed, noise, shut, pending, callerVars, channelVars>>

MakesNoise ==
  /\ noise < MaxNoise /\ noise' = noise + 1
  /\ \E kind \in {"end", "ask", "bad"} : Say(Line(kind, NoCaller))
  /\ UNCHANGED <<serving, owed, shut, pending, callerVars, channelVars>>

\* It exits, or shutdown kills it.
Stops ==
  /\ serving /\ serving' = FALSE
  /\ UNCHANGED <<owed, down, noise, shut, pending, callerVars, channelVars>>

CodexNext ==
  \/ \E c \in Callers : Issue(c) \/ Write(c) \/ Answered(c) \/ TimesOut(c) \/ DropCaller(c) \/ Hear(c)
                        \/ Complete(c)
  \/ Dispatch \/ EndOfFile \/ Responds \/ MakesNoise \/ Stops

CodexSpec == CodexInit /\ [][CodexNext]_codexVars

-----------------------------------------------------------------------------

\* Nobody awaits what can no longer come (the comment on ClientInner::closed): a
\* request without an answer is in the map of a loop that still reads, and a turn
\* whose completion has been dispatched finds it in its receiver, or that it has
\* missed some.
NothingIsAwaitedInVain ==
  \A c \in Callers :
    /\ doing[c] \in {"write", "answer"} /\ reply[c] = "none" => ~shut /\ Request(c) \in pending
    /\ Kind[c] = "turn" /\ c \in told /\ doing[c] \in {"answer", "wait"}
         => lag[c] \/ c \in ToSet(feed[c])
=============================================================================
