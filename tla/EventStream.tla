----------------------------- MODULE EventStream -----------------------------
(***************************************************************************)
(* The runtime's one stream of events (crates/neo-agent/src/runtime.rs),   *)
(* as one receiver sees it.  publish takes a number and sends the envelope *)
(* in two steps, so two publishers can send in the other order; a tokio    *)
(* broadcast channel keeps Capacity envelopes for a receiver, drops the    *)
(* oldest, and owns up at the next receive.                                *)
(***************************************************************************)
EXTENDS Integers, SequencesExt

CONSTANTS Publishers, Capacity

ASSUME CapacityAssumption == Capacity \in Nat \ {0}

VARIABLES
  seq,      \* Runtime.seq
  held,     \* each publisher's envelope between its number and its send
  queue,    \* what the receiver has not taken yet
  lagged    \* envelopes were dropped since the last receive

streamVars == <<seq, held, queue, lagged>>

StreamInit ==
  /\ seq = 1 /\ held = [p \in Publishers |-> <<>>]
  /\ queue = <<>> /\ lagged = FALSE

Number(p, event) ==
  /\ held[p] = <<>>
  /\ held' = [held EXCEPT ![p] = <<[seq |-> seq, event |-> event]>>]
  /\ seq' = seq + 1
  /\ UNCHANGED <<queue, lagged>>

Send(p) ==
  /\ held[p] # <<>>
  /\ held' = [held EXCEPT ![p] = <<>>]
  /\ \/ Len(queue) < Capacity /\ queue' = queue \o held[p] /\ UNCHANGED lagged
     \/ Len(queue) = Capacity /\ queue' = Tail(queue) \o held[p] /\ lagged' = TRUE
  /\ UNCHANGED seq

\* try_recv: the drop is reported before anything else.
Lagged == lagged /\ lagged' = FALSE /\ UNCHANGED <<seq, held, queue>>
Receive == ~lagged /\ queue # <<>> /\ queue' = Tail(queue) /\ UNCHANGED <<seq, held, lagged>>
Empty == ~lagged /\ queue = <<>>

\* What is still on its way to the receiver.
Coming == {queue[i].event : i \in DOMAIN queue}
             \cup {held[p][1].event : p \in {q \in Publishers : held[q] # <<>>}}
=============================================================================
