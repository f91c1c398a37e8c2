---------------------------- MODULE ThreadProofs ----------------------------
(***************************************************************************)
(* Proofs about the threads of both front ends: for any turns, sentences   *)
(* and conversations and a channel of any capacity, which rows a thread at *)
(* rest can be missing, that what was typed reaches a turn, and that a run *)
(* whose job reported is settled.  The argument follows each announced row *)
(* from the store to the thread: it is in the thread, or its message is    *)
(* still to come, or the front end knows that something was dropped.       *)
(***************************************************************************)
EXTENDS MCThreads, SequenceTheorems, FiniteSetTheorems, TLAPS

Texts == Words \cup {"part", "whole", "typed"}
Rows == [id : Turns \cup Typed, text : Texts]
Events ==
  [kind : {"message"}, row : Rows, talk : Conversations] \cup [kind : {"started"}, run : Turns,
      talk : Conversations]
    \cup [kind : {"finished"}, run : Turns] \cup [kind : {"steered"}, run : Turns, text : Texts]
    \cup [kind : {"reset"}, talk : Conversations]
Envelopes == [seq : Nat, event : Events]
Slots == {<<>>} \cup {<<e>> : e \in Envelopes}

\* What the stream carries, and what the store keeps.
StreamInv == queue \in Seq(Envelopes) /\ held \in [Publishers -> Slots] /\ seq \in Nat /\ lagged \in BOOLEAN
Saying == {"grown", "ended", "announced", "left", "dead"}
RowsInv ==
  /\ stored \in [Conversations -> Seq(Rows)]
  /\ \A c \in Conversations : \A i \in DOMAIN stored[c] :
       LET t == stored[c][i].id IN t \in Turns => talk[t] = c /\ phase[t] \in Saying
CoreInv == TurnTypeOK /\ StreamInv /\ RowsInv

\* A row whose message was published: it is carried by an event on its way, in a publisher's
\* hands or behind the first k envelopes of the queue.
Final(row) == row.id \in Turns => phase[row.id] \in {"announced", "left"}
Carries(e, row, c) == e.kind = "message" /\ e.talk = c /\ e.row.id = row.id /\ e.row.text \in {row.text, "whole"}
HeldFor(row, c) == \E p \in Publishers : held[p] # <<>> /\ Carries(held[p][1].event, row, c)
After(k, row, c) == HeldFor(row, c) \/ \E j \in DOMAIN queue : j > k /\ Carries(queue[j].event, row, c)

\* A step that takes nothing from the stream, and one that leaves no row final unannounced.
NothingTaken == queue' = queue /\ lagged' = lagged /\ \A p \in Publishers : held[p] # <<>> => held'[p] = held[p]
News ==
  \A c \in Conversations : \A i \in DOMAIN stored'[c] : Final(stored[c][i])' =>
    \/ HeldFor(stored[c][i], c)'
    \/ i \in DOMAIN stored[c] /\ stored'[c][i] = stored[c][i] /\ Final(stored[c][i])

\* A set of numbers that has an element has a least one.
LEMMA Least ==
  ASSUME NEW S \in SUBSET Nat, S # {}
  PROVE  \E i \in S : \A j \in S : i <= j
<1> DEFINE R == {p \in Nat \X Nat : p[1] < p[2]}
<1>1. IsWellFoundedOn(R, Nat)
  BY NatLessThanWellFounded DEF OpToRel
<1> HIDE DEF R
<1>2. PICK i \in S : \A j \in S : <<j, i>> \notin R
  BY <1>1, WFMin
<1>3. ASSUME NEW j \in S PROVE i <= j
  <2>1. i \in Nat /\ j \in Nat OBVIOUS
  <2>2. CASE j < i
    <3>1. <<j, i>> \in R BY <2>1, <2>2 DEF R
    <3> QED BY <3>1, <1>2
  <2> QED BY <2>1, <2>2
<1> QED BY <1>3

\* A set of places of a sequence that has an element has a greatest one.
LEMMA Greatest ==
  ASSUME NEW n \in Nat, NEW S \in SUBSET (1..n), S # {}
  PROVE  \E i \in S : \A j \in S : j <= i
<1> DEFINE T == {n - i : i \in S}
<1>1. T \in SUBSET Nat /\ T # {}
  <2>1. ASSUME NEW i \in S PROVE n - i \in Nat OBVIOUS
  <2> QED BY <2>1
<1> HIDE DEF T
<1>2. PICK a \in T : \A b \in T : a <= b
  BY <1>1, Least
<1>3. PICK i \in S : a = n - i
  BY DEF T
<1>4. ASSUME NEW j \in S PROVE j <= i
  <2>1. n - j \in T BY DEF T
  <2> QED BY <2>1, <1>2, <1>3
<1> QED BY <1>4

\* A sequence without one of its elements.
LEMMA RemoveAtIs ==
  ASSUME NEW S, NEW s \in Seq(S), NEW k \in 1..Len(s)
  PROVE  /\ RemoveAt(s, k) \in Seq(S) /\ Len(RemoveAt(s, k)) = Len(s) - 1
         /\ \A i \in 1..(Len(s) - 1) : RemoveAt(s, k)[i] = IF i <= k - 1 THEN s[i] ELSE s[i + 1]
<1> DEFINE n == Len(s)
           front == SubSeq(s, 1, k - 1)
           back == SubSeq(s, k + 1, n)
<1>1. n \in Nat /\ \A i \in 1..n : s[i] \in S
  BY LenProperties, ElementOfSeq
<1> HIDE DEF n
<1>2. /\ front \in Seq(S) /\ Len(front) = k - 1
      /\ \A i \in 1..(k - 1) : front[i] = s[i]
  <2>1. \A i \in 1..(k - 1) : s[i] \in S BY <1>1 DEF n
  <2>2. /\ front \in Seq(S) /\ Len(front) = IF 1 <= k - 1 THEN (k - 1) - 1 + 1 ELSE 0
        /\ \A i \in 1..((k - 1) - 1 + 1) : front[i] = s[1 + i - 1]
    BY <2>1, <1>1, SubSeqProperties DEF n
  <2> QED BY <2>2, <1>1 DEF n
<1>3. /\ back \in Seq(S) /\ Len(back) = n - k
      /\ \A i \in 1..(n - k) : back[i] = s[k + i]
  <2>1. \A i \in (k + 1)..n : s[i] \in S BY <1>1 DEF n
  <2>2. /\ back \in Seq(S) /\ Len(back) = IF k + 1 <= n THEN n - (k + 1) + 1 ELSE 0
        /\ \A i \in 1..(n - (k + 1) + 1) : back[i] = s[(k + 1) + i - 1]
    BY <2>1, <1>1, SubSeqProperties DEF n
  <2> QED BY <2>2, <1>1 DEF n
<1>4. RemoveAt(s, k) = front \o back
  BY DEF RemoveAt, n
<1> HIDE DEF front, back
<1>5. /\ front \o back \in Seq(S) /\ Len(front \o back) = Len(front) + Len(back)
      /\ \A i \in 1..(Len(front) + Len(back)) :
           (front \o back)[i] = IF i <= Len(front) THEN front[i] ELSE back[i - Len(front)]
  BY <1>2, <1>3, ConcatProperties
<1>6. Len(front) + Len(back) = n - 1
  BY <1>1, <1>2, <1>3 DEF n
<1>7. ASSUME NEW i \in 1..(n - 1) PROVE (front \o back)[i] = IF i <= k - 1 THEN s[i] ELSE s[i + 1]
  <2>1. CASE i <= k - 1
    <3>1. (front \o back)[i] = front[i] BY <1>5, <1>6, <1>2, <1>1, <2>1
    <3> QED BY <3>1, <1>2, <1>1, <2>1
  <2>2. CASE ~(i <= k - 1)
    <3>1. (front \o back)[i] = back[i - (k - 1)] BY <1>5, <1>6, <1>2, <1>1, <2>2
    <3>2. i - (k - 1) \in 1..(n - k) /\ k + (i - (k - 1)) = i + 1 BY <1>1, <2>2 DEF n
    <3> QED BY <3>1, <3>2, <1>3, <2>2
  <2> QED BY <2>1, <2>2
<1> QED BY <1>4, <1>5, <1>6, <1>7 DEF n

-----------------------------------------------------------------------------
(* The stream. *)

\* A publisher takes a number: its envelope is held, and nothing else moves.
LEMMA NumberStep ==
  ASSUME StreamInv, NEW p \in Publishers, NEW e \in Events, Number(p, e)
  PROVE  /\ StreamInv' /\ NothingTaken /\ held[p] = <<>>
         /\ held'[p] # <<>> /\ held'[p][1].event = e
         /\ \A q \in Publishers \ {p} : held'[q] = held[q]
<1> DEFINE env == [seq |-> seq, event |-> e]
<1>1. env \in Envelopes
  BY DEF StreamInv, Envelopes
<1>2. <<env>> \in Slots /\ <<env>> # <<>> /\ <<env>>[1] = env
  BY <1>1 DEF Slots
<1>3. held' = [held EXCEPT ![p] = <<env>>] /\ held[p] = <<>> /\ seq' = seq + 1 /\ UNCHANGED <<queue, lagged>>
  BY DEF Number
<1> HIDE DEF env
<1>4. held'[p] = <<env>> /\ \A q \in Publishers \ {p} : held'[q] = held[q]
  BY <1>3 DEF StreamInv
<1>5. StreamInv'
  BY <1>2, <1>3 DEF StreamInv
<1>6. held'[p][1].event = e
  BY <1>2, <1>4 DEF env
<1> QED BY <1>2, <1>3, <1>4, <1>5, <1>6 DEF NothingTaken

\* A held envelope goes to the end of the queue; a full queue loses its first, and knows it.
LEMMA SendStep ==
  ASSUME CapacityAssumption, StreamInv, Len(queue) <= Capacity, NEW p \in Publishers, Send(p)
  PROVE  /\ StreamInv' /\ Len(queue)' <= Capacity /\ held[p] # <<>> /\ held'[p] = <<>>
         /\ \A q \in Publishers \ {p} : held'[q] = held[q]
         /\ \E d \in {0, 1} :
              /\ d <= Len(queue) /\ Len(queue') = Len(queue) + 1 - d
              /\ d = 1 => lagged'
              /\ d = 0 => lagged' = lagged
              /\ \A i \in 1..(Len(queue) - d) : queue'[i] = queue[i + d]
              /\ queue'[Len(queue')] = held[p][1]
<1>1. held[p] # <<>> /\ held' = [held EXCEPT ![p] = <<>>] /\ seq' = seq
  BY DEF Send
<1>2. PICK e \in Envelopes : held[p] = <<e>>
  BY <1>1 DEF StreamInv, Slots
<1>3. held' \in [Publishers -> Slots] /\ held'[p] = <<>> /\ \A q \in Publishers \ {p} : held'[q] = held[q]
  BY <1>1 DEF StreamInv, Slots
<1>4. <<e>> \in Seq(Envelopes) /\ Len(<<e>>) = 1 /\ <<e>>[1] = e
  BY <1>2
<1>5. queue \in Seq(Envelopes) /\ Len(queue) \in Nat /\ Capacity \in Nat /\ Capacity > 0 /\ lagged \in BOOLEAN
  BY CapacityAssumption, LenProperties DEF StreamInv
<1> HIDE DEF Envelopes
<1>6. CASE Len(queue) < Capacity /\ queue' = queue \o held[p] /\ UNCHANGED lagged
  <2>1. /\ queue' \in Seq(Envelopes) /\ Len(queue') = Len(queue) + 1
        /\ \A i \in 1..Len(queue) : queue'[i] = queue[i]
        /\ queue'[Len(queue) + 1] = e
    BY <1>2, <1>4, <1>5, <1>6, ConcatProperties
  <2>2. 0 \in {0, 1} /\ 0 <= Len(queue) /\ Len(queue') = Len(queue) + 1 - 0 /\ queue'[Len(queue')] = held[p][1]
    BY <2>1, <1>2, <1>4, <1>5
  <2>3. \A i \in 1..(Len(queue) - 0) : queue'[i] = queue[i + 0]
    BY <2>1, <1>5
  <2>4. Len(queue)' <= Capacity BY <2>1, <1>5, <1>6
  <2>5. StreamInv' BY <2>1, <1>1, <1>3, <1>5, <1>6 DEF StreamInv
  <2> QED BY <2>2, <2>3, <2>4, <2>5, <1>1, <1>3, <1>6
<1>7. CASE Len(queue) = Capacity /\ queue' = Tail(queue) \o held[p] /\ lagged' = TRUE
  <2>1. queue # <<>> BY <1>5, <1>7
  <2>2. /\ Tail(queue) \in Seq(Envelopes) /\ Len(Tail(queue)) = Len(queue) - 1
        /\ \A i \in 1..Len(Tail(queue)) : Tail(queue)[i] = queue[i + 1]
    BY <1>5, <2>1, HeadTailProperties
  <2>3. /\ queue' \in Seq(Envelopes) /\ Len(queue') = Len(queue)
        /\ \A i \in 1..(Len(queue) - 1) : queue'[i] = queue[i + 1]
        /\ queue'[Len(queue)] = e
    <3>1. /\ queue' \in Seq(Envelopes) /\ Len(queue') = Len(Tail(queue)) + 1
          /\ \A i \in 1..(Len(Tail(queue)) + 1) : queue'[i] = IF i <= Len(Tail(queue)) THEN Tail(queue)[i]
                                                             ELSE <<e>>[i - Len(Tail(queue))]
      BY <1>2, <1>4, <1>7, <2>2, ConcatProperties
    <3> QED BY <3>1, <2>2, <1>4, <1>5, <1>7
  <2>4. \E d \in {0, 1} :
          /\ d <= Len(queue) /\ Len(queue') = Len(queue) + 1 - d
          /\ d = 1 => lagged'
          /\ d = 0 => lagged' = lagged
          /\ \A i \in 1..(Len(queue) - d) : queue'[i] = queue[i + d]
          /\ queue'[Len(queue')] = held[p][1]
    <3>1. 1 \in {0, 1} /\ 1 <= Len(queue) /\ Len(queue') = Len(queue) + 1 - 1 /\ queue'[Len(queue')] = held[p][1]
      BY <2>3, <1>2, <1>4, <1>5, <1>7
    <3>2. lagged' /\ ~(1 = 0)
      BY <1>7
    <3> WITNESS 1 \in {0, 1}
    <3> QED BY <3>1, <3>2, <2>3
  <2>5. Len(queue)' <= Capacity BY <2>3, <1>5, <1>7
  <2>6. StreamInv' BY <2>3, <1>1, <1>3, <1>7 DEF StreamInv
  <2> QED BY <2>4, <2>5, <2>6, <1>1, <1>3
<1> QED BY <1>6, <1>7 DEF Send

\* The receiver takes the first envelope.
LEMMA ReceiveStep ==
  ASSUME StreamInv, Receive
  PROVE  /\ StreamInv' /\ Len(queue') = Len(queue) - 1 /\ Len(queue) \in Nat \ {0} /\ held' = held
         /\ Head(queue) = queue[1] /\ Head(queue) \in Envelopes /\ ~lagged /\ ~lagged'
         /\ \A i \in 1..(Len(queue) - 1) : queue'[i] = queue[i + 1]
<1>1. queue \in Seq(Envelopes) /\ queue # <<>> /\ queue' = Tail(queue) /\ UNCHANGED <<seq, held, lagged>>
      /\ ~lagged
  BY DEF StreamInv, Receive
<1> HIDE DEF Envelopes
<1>2. /\ Head(queue) \in Envelopes /\ Tail(queue) \in Seq(Envelopes) /\ Len(Tail(queue)) = Len(queue) - 1
      /\ \A i \in 1..Len(Tail(queue)) : Tail(queue)[i] = queue[i + 1]
  BY <1>1, HeadTailProperties
<1>3. Len(queue) \in Nat \ {0}
  BY <1>1, EmptySeq, LenProperties
<1> QED BY <1>1, <1>2, <1>3 DEF StreamInv

\* What is carried by the stream stays carried while nothing is taken from it,
LEMMA StaysAfter ==
  ASSUME NothingTaken, NEW k, NEW row, NEW c, After(k, row, c)
  PROVE  After(k, row, c)'
BY DEF NothingTaken, After, HeldFor

\* when an envelope is sent,
LEMMA SentStaysAfter ==
  ASSUME CapacityAssumption, StreamInv, NEW p \in Publishers, NEW d \in {0, 1}, NEW k \in Nat, NEW row, NEW c,
         held[p] # <<>>, \A q \in Publishers \ {p} : held'[q] = held[q],
         d <= Len(queue), Len(queue') = Len(queue) + 1 - d, StreamInv',
         \A i \in 1..(Len(queue) - d) : queue'[i] = queue[i + d], queue'[Len(queue')] = held[p][1],
         k < Len(queue'), After(k + d, row, c)
  PROVE  After(k, row, c)'
<1>1. DOMAIN queue = 1..Len(queue) /\ DOMAIN queue' = 1..Len(queue') /\ Len(queue) \in Nat
  BY DEF StreamInv
<1>2. CASE HeldFor(row, c)
  <2>1. PICK q \in Publishers : held[q] # <<>> /\ Carries(held[q][1].event, row, c)
    BY <1>2 DEF HeldFor
  <2>2. CASE q = p
    <3>1. Len(queue') \in DOMAIN queue' /\ Len(queue') > k /\ queue'[Len(queue')] = held[q][1]
      BY <1>1, <2>2
    <3> QED BY <3>1, <2>1 DEF After, Carries
  <2>3. CASE q # p
    BY <2>1, <2>3 DEF After, HeldFor, Carries
  <2> QED BY <2>2, <2>3
<1>3. CASE \E j \in DOMAIN queue : j > k + d /\ Carries(queue[j].event, row, c)
  <2>1. PICK j \in DOMAIN queue : j > k + d /\ Carries(queue[j].event, row, c)
    BY <1>3
  <2>2. j - d \in 1..(Len(queue) - d) /\ j - d \in DOMAIN queue' /\ j - d > k /\ (j - d) + d = j
    BY <2>1, <1>1
  <2>3. queue'[j - d] = queue[j]
    BY <2>2
  <2> QED BY <2>1, <2>2, <2>3 DEF After, Carries
<1> QED BY <1>2, <1>3 DEF After

\* and when one is received that did not carry it.
LEMMA ReceivedStaysAfter ==
  ASSUME StreamInv, StreamInv', NEW k \in Nat, NEW row, NEW c, held' = held, Len(queue) \in Nat \ {0},
         Len(queue') = Len(queue) - 1, \A i \in 1..(Len(queue) - 1) : queue'[i] = queue[i + 1],
         After(k + 1, row, c)
  PROVE  After(k, row, c)'
<1>1. DOMAIN queue = 1..Len(queue) /\ DOMAIN queue' = 1..Len(queue')
  BY DEF StreamInv
<1>2. CASE HeldFor(row, c)
  BY <1>2 DEF After, HeldFor, Carries
<1>3. CASE \E j \in DOMAIN queue : j > k + 1 /\ Carries(queue[j].event, row, c)
  <2>1. PICK j \in DOMAIN queue : j > k + 1 /\ Carries(queue[j].event, row, c)
    BY <1>3
  <2>2. j - 1 \in 1..(Len(queue) - 1) /\ j - 1 \in DOMAIN queue' /\ j - 1 > k /\ (j - 1) + 1 = j
    BY <2>1, <1>1
  <2>3. queue'[j - 1] = queue[j]
    BY <2>2
  <2> QED BY <2>1, <2>2, <2>3 DEF After, Carries
<1> QED BY <1>2, <1>3 DEF After

-----------------------------------------------------------------------------
(* The turns. *)

\* A turn that moves on without writing: rows it has not written need no word of it, and rows it
\* has were final before.
LEMMA PhaseMoves ==
  ASSUME TurnTypeOK, RowsInv, NEW t \in Turns, NEW x \in Phases, stored' = stored, talk' = talk,
         phase' = [phase EXCEPT ![t] = x], phase[t] \in Saying => x \in Saying
  PROVE  /\ RowsInv'
         /\ (x \in {"announced", "left"} /\ phase[t] \in Saying => phase[t] \in {"announced", "left"}) => News
<1>1. phase \in [Turns -> Phases] /\ phase'[t] = x /\ \A u \in Turns \ {t} : phase'[u] = phase[u]
  BY DEF TurnTypeOK
<1>2. ASSUME NEW c \in Conversations, NEW i \in DOMAIN stored[c], stored[c][i].id \in Turns
      PROVE  /\ talk[stored[c][i].id] = c
             /\ phase[stored[c][i].id] \in Saying /\ phase'[stored[c][i].id] \in Saying
  BY <1>1, <1>2 DEF RowsInv
<1>3. RowsInv'
  BY <1>2 DEF RowsInv
<1>4. ASSUME x \in {"announced", "left"} /\ phase[t] \in Saying => phase[t] \in {"announced", "left"} PROVE News
  <2>1. ASSUME NEW c \in Conversations, NEW i \in DOMAIN stored[c], Final(stored[c][i])'
        PROVE  Final(stored[c][i])
    <3>1. CASE stored[c][i].id \notin Turns BY <3>1 DEF Final
    <3>2. CASE stored[c][i].id \in Turns \ {t} BY <3>2, <2>1, <1>1 DEF Final
    <3>3. CASE stored[c][i].id = t
      <4>1. x \in {"announced", "left"} BY <3>3, <2>1, <1>1 DEF Final
      <4>2. phase[t] \in Saying BY <3>3, <1>2
      <4> QED BY <4>1, <4>2, <1>4, <3>3 DEF Final
    <3> QED BY <3>1, <3>2, <3>3
  <2> QED BY <2>1 DEF News
<1> QED BY <1>3, <1>4

\* A turn writes its own row, in the conversation it belongs to.
LEMMA GrownWrites ==
  ASSUME TurnTypeOK, RowsInv, NEW t \in Turns, NEW text \in Texts, Grown(t, text)
  PROVE  /\ stored' \in [Conversations -> Seq(Rows)]
         /\ \A c \in Conversations : c # talk[t] => stored'[c] = stored[c]
         /\ \A c \in Conversations : \A i \in DOMAIN stored'[c] :
              \/ stored'[c][i].id = t /\ c = talk[t]
              \/ i \in DOMAIN stored[c] /\ stored'[c][i] = stored[c][i]
<1> DEFINE c == talk[t]
           new == Row(t, text)
<1>1. c \in Conversations /\ new \in Rows /\ new.id = t /\ stored \in [Conversations -> Seq(Rows)]
      /\ stored[c] \in Seq(Rows)
  BY DEF TurnTypeOK, RowsInv, Rows, Row
<1> HIDE DEF new, Rows
<1>2. CASE \E i \in DOMAIN stored[c] : stored[c][i].id = t
  <2> DEFINE rows == [i \in DOMAIN stored[c] |-> IF stored[c][i].id = t THEN new ELSE stored[c][i]]
  <2>1. stored' = [stored EXCEPT ![c] = rows]
    BY <1>2 DEF Grown, new
  <2>2. DOMAIN stored[c] = 1..Len(stored[c]) /\ Len(stored[c]) \in Nat
        /\ \A i \in 1..Len(stored[c]) : stored[c][i] \in Rows
    BY <1>1, ElementOfSeq, LenProperties
  <2>3. rows \in [1..Len(stored[c]) -> Rows]
    BY <2>2, <1>1
  <2>4. rows \in Seq(Rows)
    BY <2>3, <2>2, SeqDef
  <2>5. \A i \in DOMAIN rows : rows[i].id = t \/ (i \in DOMAIN stored[c] /\ rows[i] = stored[c][i])
    BY <1>1
  <2> HIDE DEF rows
  <2>6. stored' \in [Conversations -> Seq(Rows)] /\ stored'[c] = rows
        /\ \A e \in Conversations : e # c => stored'[e] = stored[e]
    BY <2>1, <2>4, <1>1
  <2> QED BY <2>5, <2>6
<1>3. CASE ~ \E i \in DOMAIN stored[c] : stored[c][i].id = t
  <2> DEFINE rows == Append(stored[c], new)
  <2>1. stored' = [stored EXCEPT ![c] = rows]
    BY <1>3, <1>1 DEF Grown, new
  <2>2. /\ rows \in Seq(Rows) /\ DOMAIN rows = 1..Len(rows) /\ Len(rows) = Len(stored[c]) + 1
        /\ DOMAIN stored[c] = 1..Len(stored[c]) /\ Len(stored[c]) \in Nat
        /\ \A i \in 1..Len(stored[c]) : rows[i] = stored[c][i]
        /\ rows[Len(stored[c]) + 1] = new
    BY <1>1, AppendProperties, LenProperties
  <2> HIDE DEF rows
  <2>3. ASSUME NEW i \in DOMAIN rows PROVE rows[i].id = t \/ (i \in DOMAIN stored[c] /\ rows[i] = stored[c][i])
    <3>1. i \in 1..Len(stored[c]) \/ i = Len(stored[c]) + 1 BY <2>2
    <3>2. CASE i \in 1..Len(stored[c]) BY <3>2, <2>2
    <3>3. CASE i = Len(stored[c]) + 1 BY <3>3, <2>2, <1>1
    <3> QED BY <3>1, <3>2, <3>3
  <2>4. stored' \in [Conversations -> Seq(Rows)] /\ stored'[c] = rows
        /\ \A e \in Conversations : e # c => stored'[e] = stored[e]
    BY <2>1, <2>2, <1>1
  <2> QED BY <2>3, <2>4
<1> QED BY <1>2, <1>3

\* A turn that writes is not over: what it writes is final of no row.
LEMMA GrownMoves ==
  ASSUME TurnTypeOK, RowsInv, NEW t \in Turns, NEW text \in Texts, NEW x \in {"grown", "ended"}, Grown(t, text),
         talk' = talk, phase' = [phase EXCEPT ![t] = x]
  PROVE  RowsInv' /\ News
<1>1. phase \in [Turns -> Phases] /\ phase'[t] = x /\ \A u \in Turns \ {t} : phase'[u] = phase[u]
  BY DEF TurnTypeOK
<1>2. ASSUME NEW c \in Conversations, NEW i \in DOMAIN stored'[c]
      PROVE  \/ stored'[c][i].id = t /\ c = talk[t]
             \/ i \in DOMAIN stored[c] /\ stored'[c][i] = stored[c][i]
  BY GrownWrites
<1>3. ASSUME NEW c \in Conversations, NEW i \in DOMAIN stored'[c], stored'[c][i].id \in Turns
      PROVE  talk'[stored'[c][i].id] = c /\ phase'[stored'[c][i].id] \in Saying
  <2>1. CASE stored'[c][i].id = t /\ c = talk[t] BY <2>1, <1>1 DEF Saying
  <2>2. CASE i \in DOMAIN stored[c] /\ stored'[c][i] = stored[c][i]
    <3>1. talk[stored'[c][i].id] = c /\ phase[stored'[c][i].id] \in Saying
      BY <2>2, <1>3 DEF RowsInv
    <3> QED BY <3>1, <1>1, <1>3 DEF Saying
  <2> QED BY <2>1, <2>2, <1>2
<1>4. RowsInv'
  BY <1>3, GrownWrites DEF RowsInv
<1>5. ASSUME NEW c \in Conversations, NEW i \in DOMAIN stored'[c], Final(stored[c][i])'
      PROVE  i \in DOMAIN stored[c] /\ stored'[c][i] = stored[c][i] /\ Final(stored[c][i])
  <2>1. stored'[c][i].id # t BY <1>1, <1>5 DEF Final
  <2>2. i \in DOMAIN stored[c] /\ stored'[c][i] = stored[c][i] BY <2>1, <1>2
  <2> QED BY <2>1, <2>2, <1>1, <1>5 DEF Final
<1> QED BY <1>4, <1>5 DEF News

\* What a turn publishes.
LEMMA TurnEvents ==
  ASSUME TurnTypeOK, TurnAssumption, NEW t \in Turns
  PROVE  t \in Publishers /\ Started(t) \in Events /\ Finished(t) \in Events
         /\ Message(Row(t, "whole"), talk[t]) \in Events
BY DEF TurnTypeOK, TurnAssumption, Started, Finished, Message, Row, Events, Rows, Texts

\* A step of a turn, other than a send, takes nothing from the stream and leaves no row final
\* unannounced.
LEMMA TurnMoves ==
  ASSUME TurnAssumption, CoreInv, NEW t \in Turns,
         Starts(t) \/ Registers(t) \/ Grows(t) \/ Ends(t) \/ Announces(t) \/ Returns(t) \/ Dies(t)
  PROVE  /\ CoreInv' /\ NothingTaken /\ News /\ talk' = talk
         /\ \A p \in Publishers : p # t \/ held' = held => held'[p] = held[p]
         /\ held'[t] # held[t] => held'[t] # <<>> /\ held'[t][1].event.kind # "reset"
<1> USE DEF CoreInv
<1>2. t \in Publishers /\ Started(t) \in Events /\ Finished(t) \in Events
      /\ Message(Row(t, "whole"), talk[t]) \in Events
  BY TurnEvents
<1>3. Started(t).kind # "reset" /\ Finished(t).kind # "reset" /\ Message(Row(t, "whole"), talk[t]).kind # "reset"
  BY DEF Started, Finished, Message
<1>4. ASSUME UNCHANGED streamVars PROVE StreamInv' /\ NothingTaken /\ held' = held
  BY <1>4 DEF StreamInv, NothingTaken, streamVars
<1>5. ASSUME NEW x \in Phases, phase' = [phase EXCEPT ![t] = x], talk' = talk, queue' = queue,
             StreamInv', registry' \subseteq Turns, results' \subseteq Turns
      PROVE  TurnTypeOK'
  BY <1>5 DEF TurnTypeOK, StreamInv
<1>6. CASE Starts(t)
  <2>1. StreamInv' /\ NothingTaken /\ held'[t] # <<>> /\ held'[t][1].event = Started(t)
        /\ \A q \in Publishers \ {t} : held'[q] = held[q]
    BY <1>2, <1>6, NumberStep DEF Starts
  <2>2. /\ phase[t] = "asked" /\ phase' = [phase EXCEPT ![t] = "starting"]
        /\ UNCHANGED <<stored, talk, registry, results>> /\ "starting" \in Phases
    BY <1>6 DEF Starts, Becomes, Phases
  <2>3. RowsInv' /\ News
    BY <2>2, PhaseMoves DEF Saying
  <2>4. TurnTypeOK'
    BY <1>5, <2>1, <2>2 DEF NothingTaken, TurnTypeOK
  <2> QED BY <1>3, <2>1, <2>2, <2>3, <2>4
<1>7. CASE Registers(t)
  <2>1. StreamInv' /\ NothingTaken /\ held' = held
    BY <1>4, <1>7 DEF Registers
  <2>2. /\ phase[t] = "starting" /\ phase' = [phase EXCEPT ![t] = "live"] /\ registry' = registry \cup {t}
        /\ UNCHANGED <<stored, talk, results>> /\ "live" \in Phases
    BY <1>7 DEF Registers, Becomes, Phases
  <2>3. RowsInv' /\ News
    BY <2>2, PhaseMoves DEF Saying
  <2>4. TurnTypeOK'
    BY <1>5, <2>1, <2>2 DEF NothingTaken, TurnTypeOK
  <2> QED BY <2>1, <2>2, <2>3, <2>4
<1>8. CASE Grows(t)
  <2>1. StreamInv' /\ NothingTaken /\ held' = held
    BY <1>4, <1>8 DEF Grows
  <2>2. /\ phase' = [phase EXCEPT ![t] = "grown"] /\ Grown(t, "part")
        /\ UNCHANGED <<talk, registry, results>> /\ "grown" \in Phases
    BY <1>8 DEF Grows, Becomes, Phases
  <2>3. RowsInv' /\ News
    BY <2>2, GrownMoves DEF Texts
  <2>4. TurnTypeOK'
    BY <1>5, <2>1, <2>2 DEF NothingTaken, TurnTypeOK
  <2> QED BY <2>1, <2>2, <2>3, <2>4
<1>9. CASE Ends(t)
  <2>1. StreamInv' /\ NothingTaken /\ held'[t] # <<>> /\ held'[t][1].event = Finished(t)
        /\ \A q \in Publishers \ {t} : held'[q] = held[q]
    BY <1>2, <1>9, NumberStep DEF Ends
  <2>2. PICK x \in {"ended", "announced"} :
          /\ phase' = [phase EXCEPT ![t] = x]
          /\ \/ x = "ended" /\ Grown(t, "whole")
             \/ x = "ended" /\ phase[t] = "grown" /\ stored' = stored
             \/ x = "announced" /\ phase[t] \in {"starting", "live"} /\ stored' = stored
    BY <1>9 DEF Ends, Becomes
  <2>3. UNCHANGED <<talk, registry, results>> /\ x \in Phases
    BY <1>9 DEF Ends, Phases
  <2>4. RowsInv' /\ News
    <3>1. CASE x = "ended" /\ Grown(t, "whole") BY <3>1, <2>2, <2>3, GrownMoves DEF Texts
    <3>2. CASE x = "ended" /\ phase[t] = "grown" /\ stored' = stored BY <3>2, <2>2, <2>3, PhaseMoves DEF Saying
    <3>3. CASE x = "announced" /\ phase[t] \in {"starting", "live"} /\ stored' = stored
      BY <3>3, <2>2, <2>3, PhaseMoves DEF Saying
    <3> QED BY <3>1, <3>2, <3>3, <2>2
  <2>5. TurnTypeOK'
    BY <1>5, <2>1, <2>2, <2>3 DEF NothingTaken, TurnTypeOK
  <2> QED BY <1>3, <2>1, <2>3, <2>4, <2>5
<1>10. CASE Announces(t)
  <2> DEFINE e == Message(Row(t, "whole"), talk[t])
  <2>1. StreamInv' /\ NothingTaken /\ held'[t] # <<>> /\ held'[t][1].event = e
        /\ \A q \in Publishers \ {t} : held'[q] = held[q]
    BY <1>2, <1>10, NumberStep DEF Announces
  <2>2. /\ phase[t] = "ended" /\ phase' = [phase EXCEPT ![t] = "announced"]
        /\ UNCHANGED <<stored, talk, registry, results>> /\ "announced" \in Phases
    BY <1>10 DEF Announces, Becomes, Phases
  <2>3. RowsInv'
    BY <2>2, PhaseMoves DEF Saying
  <2>4. ASSUME NEW c \in Conversations, NEW i \in DOMAIN stored[c], Final(stored[c][i])'
        PROVE  HeldFor(stored[c][i], c)' \/ Final(stored[c][i])
    <3>1. CASE stored[c][i].id = t
      <4>1. talk[t] = c BY <3>1 DEF RowsInv
      <4>2. e.kind = "message" /\ e.talk = c /\ e.row.id = t /\ e.row.text = "whole"
        BY <4>1 DEF Message, Row
      <4> HIDE DEF e
      <4>3. Carries(held[t][1].event, stored[c][i], c)'
        BY <4>2, <3>1, <2>1, <2>2 DEF Carries
      <4> QED BY <4>3, <2>1, <1>2 DEF HeldFor
    <3>2. CASE stored[c][i].id # t
      BY <3>2, <2>4, <2>2 DEF Final, TurnTypeOK
    <3> QED BY <3>1, <3>2
  <2>5. News
    BY <2>2, <2>4 DEF News
  <2>6. TurnTypeOK'
    BY <1>5, <2>1, <2>2 DEF NothingTaken, TurnTypeOK
  <2> QED BY <1>3, <2>1, <2>2, <2>3, <2>5, <2>6
<1>11. CASE Returns(t)
  <2>1. StreamInv' /\ NothingTaken /\ held' = held
    BY <1>4, <1>11 DEF Returns
  <2>2. /\ phase[t] \in {"announced", "asked", "live"} /\ phase' = [phase EXCEPT ![t] = "left"]
        /\ registry' = registry \ {t} /\ results' = results \cup {t}
        /\ UNCHANGED <<stored, talk>> /\ "left" \in Phases
    BY <1>11 DEF Returns, Becomes, Phases
  <2>3. RowsInv' /\ News
    BY <2>2, PhaseMoves DEF Saying
  <2>4. TurnTypeOK'
    BY <1>5, <2>1, <2>2 DEF NothingTaken, TurnTypeOK
  <2> QED BY <2>1, <2>2, <2>3, <2>4
<1>12. CASE Dies(t)
  <2>1. StreamInv' /\ NothingTaken /\ held' = held
    BY <1>4, <1>12 DEF Dies
  <2>2. /\ phase' = [phase EXCEPT ![t] = "dead"] /\ registry' = registry \ {t}
        /\ UNCHANGED <<stored, talk, results>> /\ "dead" \in Phases
    BY <1>12 DEF Dies, Becomes, Phases
  <2>3. RowsInv' /\ News
    BY <2>2, PhaseMoves DEF Saying
  <2>4. TurnTypeOK'
    BY <1>5, <2>1, <2>2 DEF NothingTaken, TurnTypeOK
  <2> QED BY <2>1, <2>2, <2>3, <2>4
<1> QED BY <1>6, <1>7, <1>8, <1>9, <1>10, <1>11, <1>12

\* Where a turn's step leaves everything as it is: the other turns, and the other conversations.
LEMMA TurnElsewhere ==
  ASSUME CoreInv, NEW t \in Turns,
         Starts(t) \/ Registers(t) \/ Grows(t) \/ Ends(t) \/ Announces(t) \/ Returns(t) \/ Dies(t)
  PROVE  /\ phase[t] # "none" /\ \A u \in Turns : u # t => phase'[u] = phase[u]
         /\ \A c \in Conversations : c # talk[t] => stored'[c] = stored[c]
         /\ phase'[t] = "left" => t \in results'
         /\ \A u \in Turns : u \notin results' => u \notin results
<1> USE DEF CoreInv, Becomes, TurnTypeOK
<1>1. CASE Starts(t) BY <1>1 DEF Starts
<1>2. CASE Registers(t) BY <1>2 DEF Registers
<1>3. CASE Grows(t)
  <2>1. Grown(t, "part") /\ "part" \in Texts BY <1>3 DEF Grows, Texts
  <2>2. \A c \in Conversations : c # talk[t] => stored'[c] = stored[c] BY <2>1, GrownWrites
  <2> QED BY <1>3, <2>2 DEF Grows
<1>4. CASE Ends(t)
  <2>1. Grown(t, "whole") => \A c \in Conversations : c # talk[t] => stored'[c] = stored[c]
    BY GrownWrites DEF Texts
  <2>2. \A c \in Conversations : c # talk[t] => stored'[c] = stored[c] BY <2>1, <1>4 DEF Ends
  <2> QED BY <1>4, <2>2 DEF Ends, InProgress
<1>5. CASE Announces(t) BY <1>5 DEF Announces
<1>6. CASE Returns(t) BY <1>6 DEF Returns
<1>7. CASE Dies(t) BY <1>7 DEF Dies, InProgress
<1> QED BY <1>1, <1>2, <1>3, <1>4, <1>5, <1>6, <1>7

-----------------------------------------------------------------------------
(* The steps of a front end that reach the stream or the store. *)

\* A sentence that is recorded is announced in the same step.
LEMMA SaveMoves ==
  ASSUME TurnAssumption, CoreInv, NEW row \in Rows, row.id \in Typed, NEW c \in Conversations,
         Save(row, c), UNCHANGED <<phase, talk, registry, results>>
  PROVE  /\ CoreInv' /\ NothingTaken /\ News
         /\ held[Ui] = <<>> /\ held'[Ui][1].event = Message(row, c)
         /\ \A p \in Publishers : p # Ui => held'[p] = held[p]
         /\ \A e \in Conversations : e # c => stored'[e] = stored[e]
<1>1. Ui \in Publishers /\ Message(row, c) \in Events /\ Turns \cap Typed = {}
  BY DEF TurnAssumption, Events, Message
<1>2. /\ StreamInv' /\ NothingTaken /\ held[Ui] = <<>> /\ held'[Ui] # <<>> /\ held'[Ui][1].event = Message(row, c)
      /\ \A p \in Publishers \ {Ui} : held'[p] = held[p]
  BY <1>1, NumberStep DEF Save, CoreInv
<1>3. stored \in [Conversations -> Seq(Rows)] /\ stored' = [stored EXCEPT ![c] = Append(stored[c], row)]
  BY DEF Save, CoreInv, RowsInv
<1> HIDE DEF Rows
<1>4. /\ Append(stored[c], row) \in Seq(Rows) /\ DOMAIN stored[c] = 1..Len(stored[c]) /\ Len(stored[c]) \in Nat
      /\ DOMAIN Append(stored[c], row) = 1..(Len(stored[c]) + 1)
      /\ \A i \in 1..Len(stored[c]) : Append(stored[c], row)[i] = stored[c][i]
      /\ Append(stored[c], row)[Len(stored[c]) + 1] = row
  BY <1>3, AppendProperties, LenProperties
<1>5. stored' \in [Conversations -> Seq(Rows)] /\ stored'[c] = Append(stored[c], row)
      /\ \A e \in Conversations : e # c => stored'[e] = stored[e]
  BY <1>3, <1>4
<1>6. ASSUME NEW e \in Conversations, NEW i \in DOMAIN stored'[e]
      PROVE  \/ e = c /\ stored'[e][i] = row
             \/ i \in DOMAIN stored[e] /\ stored'[e][i] = stored[e][i]
  <2>1. CASE e = c
    <3>1. i \in 1..Len(stored[c]) \/ i = Len(stored[c]) + 1 BY <2>1, <1>4, <1>5
    <3>2. CASE i \in 1..Len(stored[c]) BY <3>2, <2>1, <1>4, <1>5
    <3>3. CASE i = Len(stored[c]) + 1 BY <3>3, <2>1, <1>4, <1>5
    <3> QED BY <3>1, <3>2, <3>3
  <2>2. CASE e # c BY <2>2, <1>5
  <2> QED BY <2>1, <2>2
<1>7. RowsInv'
  <2>1. ASSUME NEW e \in Conversations, NEW i \in DOMAIN stored'[e], stored'[e][i].id \in Turns
        PROVE  talk'[stored'[e][i].id] = e /\ phase'[stored'[e][i].id] \in Saying
    <3>1. i \in DOMAIN stored[e] /\ stored'[e][i] = stored[e][i] BY <1>1, <1>6, <2>1
    <3> QED BY <3>1, <2>1 DEF CoreInv, RowsInv
  <2> QED BY <2>1, <1>5 DEF RowsInv
<1>8. Carries(held[Ui][1].event, row, c)'
  BY <1>2 DEF Carries, Message
<1>9. News
  <2>1. HeldFor(row, c)' BY <1>1, <1>2, <1>8 DEF HeldFor
  <2>2. ASSUME NEW e \in Conversations, NEW i \in DOMAIN stored'[e], Final(stored[e][i])'
        PROVE  \/ HeldFor(stored[e][i], e)'
               \/ i \in DOMAIN stored[e] /\ stored'[e][i] = stored[e][i] /\ Final(stored[e][i])
    <3>1. CASE e = c /\ stored'[e][i] = row BY <3>1, <2>1
    <3>2. CASE i \in DOMAIN stored[e] /\ stored'[e][i] = stored[e][i] BY <3>2, <2>2 DEF Final
    <3> QED BY <3>1, <3>2, <1>6
  <2> QED BY <2>2 DEF News
<1>10. TurnTypeOK'
  BY <1>2 DEF CoreInv, TurnTypeOK, NothingTaken, StreamInv
<1> QED BY <1>2, <1>5, <1>7, <1>9, <1>10 DEF CoreInv

\* A turn that is asked for has no row yet.
LEMMA AskMoves ==
  ASSUME CoreInv, NEW t \in Turns, NEW c \in Conversations, Asks(t, c), UNCHANGED streamVars, stored' = stored
  PROVE  CoreInv' /\ NothingTaken /\ News /\ phase[t] = "none"
         /\ \A u \in Turns : u # t => phase'[u] = phase[u] /\ talk'[u] = talk[u]
<1>1. /\ phase[t] = "none" /\ phase'[t] = "asked" /\ talk'[t] = c /\ UNCHANGED <<registry, results>>
      /\ \A u \in Turns : u # t => phase'[u] = phase[u] /\ talk'[u] = talk[u]
      /\ phase' \in [Turns -> Phases] /\ talk' \in [Turns -> Conversations]
  BY DEF Asks, CoreInv, TurnTypeOK, Phases
<1>2. StreamInv' /\ NothingTaken /\ TurnTypeOK'
  BY <1>1 DEF CoreInv, TurnTypeOK, StreamInv, NothingTaken, streamVars
<1>3. ASSUME NEW e \in Conversations, NEW i \in DOMAIN stored[e]
      PROVE  stored[e][i].id # t /\ (stored[e][i].id \in Turns => talk[stored[e][i].id] = e
             /\ phase[stored[e][i].id] \in Saying)
  BY <1>1 DEF CoreInv, RowsInv, Saying
<1>4. RowsInv'
  <2>1. ASSUME NEW e \in Conversations, NEW i \in DOMAIN stored[e], stored[e][i].id \in Turns
        PROVE  talk'[stored[e][i].id] = e /\ phase'[stored[e][i].id] \in Saying
    BY <1>1, <1>3, <2>1
  <2> QED BY <2>1 DEF CoreInv, RowsInv
<1>5. News
  BY <1>1, <1>3 DEF News, Final
<1> QED BY <1>1, <1>2, <1>4, <1>5 DEF CoreInv

\* An event that is numbered changes no row.
LEMMA NumberMoves ==
  ASSUME CoreInv, NEW p \in Publishers, NEW e \in Events, Number(p, e), UNCHANGED turnVars
  PROVE  /\ CoreInv' /\ NothingTaken /\ News /\ held[p] = <<>> /\ held'[p] # <<>> /\ held'[p][1].event = e
         /\ \A q \in Publishers : q # p => held'[q] = held[q]
<1>1. /\ StreamInv' /\ NothingTaken /\ held[p] = <<>> /\ held'[p] # <<>> /\ held'[p][1].event = e
      /\ \A q \in Publishers \ {p} : held'[q] = held[q]
  BY NumberStep DEF CoreInv
<1>2. TurnTypeOK' /\ RowsInv' /\ News
  BY <1>1 DEF CoreInv, TurnTypeOK, RowsInv, News, Final, turnVars, NothingTaken, StreamInv
<1> QED BY <1>1, <1>2 DEF CoreInv

\* Nor does any step that leaves the stream and the turns alone.
LEMMA StillMoves ==
  ASSUME CoreInv, UNCHANGED <<streamVars, stored, phase, talk, registry>>, results' \subseteq results
  PROVE  CoreInv' /\ NothingTaken /\ News
BY DEF CoreInv, TurnTypeOK, StreamInv, RowsInv, News, Final, NothingTaken, streamVars

\* A send changes no row.
LEMMA SendMoves ==
  ASSUME CapacityAssumption, CoreInv, NEW p \in Publishers, Send(p), UNCHANGED turnVars
  PROVE  CoreInv'
<1>1. StreamInv' /\ Len(queue)' <= Capacity
  BY SendStep DEF CoreInv, TurnTypeOK
<1> QED BY <1>1 DEF CoreInv, TurnTypeOK, RowsInv, turnVars, StreamInv

\* Nor does a receive.
LEMMA ReceiveMoves ==
  ASSUME CapacityAssumption, CoreInv, Receive, UNCHANGED turnVars
  PROVE  CoreInv'
<1>1. StreamInv' /\ Len(queue') = Len(queue) - 1 /\ Len(queue) \in Nat \ {0}
  BY ReceiveStep DEF CoreInv
<1> QED BY <1>1, CapacityAssumption DEF CoreInv, TurnTypeOK, RowsInv, turnVars, StreamInv

-----------------------------------------------------------------------------
(* The terminal's thread. *)

ThreadRows == [id : Turns \cup Typed \cup {None}, text : Texts, pending : BOOLEAN]
Dues == {<<>>} \cup {<<e>> : e \in Events}

\* Rows and turns are of conversations that exist.
MadeInv ==
  /\ \A c \in Conversations : stored[c] # <<>> => c \in made
  /\ \A t \in Turns : talk[t] \in made

TerminalTypes ==
  /\ TerminalTypeOK /\ word \in [Typed -> Words] /\ thread \in Seq(ThreadRows) /\ due \in Dues
  /\ \A i \in DOMAIN thread : thread[i].pending => thread[i].id = None

\* Where the frame is says what it carries; a sentence past its post, or past the start of a run,
\* was given to a turn.
PlaceInv ==
  /\ at \notin {"reread", "apply"} => due = <<>>
  /\ at = "apply" => due # <<>>
  /\ at \in {"post", "tell"} => turn \in Turns
  /\ at \in {"steer", "post", "tell", "record", "spawn"} => composed \in Typed
  /\ at \in {"keys", "drain", "reread", "apply"} => composed = None
  /\ at \in {"post", "tell", "jobs"} /\ composed # None => heard[composed] # {}

\* A reset was published while its conversation was empty, so that the rows written since are
\* announced behind it.
HeldResets ==
  /\ \A t \in Turns : held[t] # <<>> => held[t][1].event.kind # "reset"
  /\ held[Ui] # <<>> /\ held[Ui][1].event.kind = "reset" =>
       LET c == held[Ui][1].event.talk IN
       stored[c] = <<>> /\ \A t \in Turns : talk[t] = c => phase[t] = "none"
AnnouncedAfter(k, c) == \A i \in DOMAIN stored[c] : Final(stored[c][i]) => After(k, stored[c][i], c)
QueuedResets ==
  \A k \in DOMAIN queue : queue[k].event.kind = "reset" => AnnouncedAfter(k, queue[k].event.talk)
DueReset == due # <<>> /\ due[1].kind = "reset" /\ ~lagged => AnnouncedAfter(0, due[1].talk)
ResetInv == HeldResets /\ QueuedResets /\ DueReset

\* A final row of the conversation on screen is in the thread or its message is on its way, unless
\* the terminal is about to learn of a drop or to read the store again.
ThreadInv ==
  at # "reread" /\ ~lagged =>
    \A i \in DOMAIN stored[shown] :
      Final(stored[shown][i]) => InThread(stored[shown][i]) \/ After(0, stored[shown][i], shown)

TerminalInv ==
  /\ CoreInv /\ TerminalTypes /\ MadeInv /\ PlaceInv /\ ResetInv /\ ThreadInv
  /\ RunsSettle

\* A row that has its id keeps its place in the thread.
RowsStay == \A i \in DOMAIN thread : thread[i].id # None => \E j \in DOMAIN thread' : thread'[j] = thread[i]

\* A row of the store that is in the thread stays in it.
LEMMA StaysInThread ==
  ASSUME TurnAssumption, RowsStay, NEW row \in Rows, InThread(row)
  PROVE  InThread(row)'
<1>1. PICK i \in DOMAIN thread : thread[i].id = row.id /\ thread[i].text \in {row.text, "whole"}
  BY DEF InThread
<1>2. row.id # None
  BY DEF TurnAssumption, Rows
<1> QED BY <1>1, <1>2 DEF RowsStay, InThread

\* A thread that grows at its end keeps its rows.
LEMMA AppendStays ==
  ASSUME TerminalTypes, NEW r \in ThreadRows, thread' = Append(thread, r), r.pending => r.id = None
  PROVE  /\ thread' \in Seq(ThreadRows) /\ RowsStay
            /\ \A i \in DOMAIN thread' : thread'[i].pending => thread'[i].id = None
         /\ \E j \in DOMAIN thread' : thread'[j] = r
<1> HIDE DEF ThreadRows
<1>1. /\ thread' \in Seq(ThreadRows) /\ Len(thread) \in Nat /\ DOMAIN thread = 1..Len(thread)
      /\ DOMAIN thread' = 1..(Len(thread) + 1)
      /\ \A i \in 1..Len(thread) : thread'[i] = thread[i]
      /\ thread'[Len(thread) + 1] = r
  BY AppendProperties, LenProperties DEF TerminalTypes
<1>2. RowsStay
  BY <1>1 DEF RowsStay
<1>3. ASSUME NEW i \in DOMAIN thread' PROVE thread'[i].pending => thread'[i].id = None
  <2>1. i \in 1..Len(thread) \/ i = Len(thread) + 1 BY <1>1
  <2>2. CASE i \in 1..Len(thread) BY <2>2, <1>1 DEF TerminalTypes
  <2>3. CASE i = Len(thread) + 1 BY <2>3, <1>1
  <2> QED BY <2>1, <2>2, <2>3
<1>4. Len(thread) + 1 \in DOMAIN thread'
  BY <1>1
<1> QED BY <1>1, <1>2, <1>3, <1>4

\* What is shown of a row of the store.
LEMMA RowTypes ==
  ASSUME TurnAssumption
  PROVE  /\ \A row \in Rows : ThreadRow(row) \in ThreadRows /\ ~ThreadRow(row).pending
                             /\ ThreadRow(row).id = row.id /\ ThreadRow(row).text = row.text
         /\ \A text \in Texts : Steered(text) \in ThreadRows /\ Steered(text).id = None
BY DEF Rows, ThreadRows, ThreadRow, Steered

\* A message adopts the pending row of its sentence, or is one more row.
LEMMA ReceivedRow ==
  ASSUME TurnAssumption, TerminalTypes, NEW row \in Rows, Received(row)
  PROVE  /\ thread' \in Seq(ThreadRows) /\ RowsStay
            /\ \A i \in DOMAIN thread' : thread'[i].pending => thread'[i].id = None
         /\ \E j \in DOMAIN thread' : thread'[j] = ThreadRow(row)
<1> DEFINE mine == {i \in DOMAIN thread : thread[i].pending /\ thread[i].text = row.text}
<1>1. ThreadRow(row) \in ThreadRows /\ ~ThreadRow(row).pending
  BY RowTypes
<1>2. CASE mine = {}
  BY <1>1, <1>2, AppendStays DEF Received
<1>3. CASE mine # {}
  <2> DEFINE first == CHOOSE i \in mine : \A j \in mine : i <= j
             r == ThreadRow(row)
  <2>1. DOMAIN thread = 1..Len(thread) /\ thread \in Seq(ThreadRows) /\ Len(thread) \in Nat
    BY LenProperties DEF TerminalTypes
  <2>2. mine \in SUBSET Nat
    BY <2>1
  <2>3. first \in mine
    <3> HIDE DEF mine
    <3>1. \E i \in mine : \A j \in mine : i <= j BY <1>3, <2>2, Least
    <3> QED BY <3>1
  <2>4. thread' = [thread EXCEPT ![first] = r]
    BY <1>3 DEF Received
  <2>5. first \in 1..Len(thread) /\ thread[first].pending
    BY <2>1, <2>3
  <2> HIDE DEF first, mine, r, ThreadRows
  <2>6. /\ thread' \in Seq(ThreadRows) /\ Len(thread') = Len(thread)
        /\ \A j \in 1..Len(thread) : thread'[j] = IF j = first THEN r ELSE thread[j]
    BY <1>1, <2>1, <2>4, <2>5, ExceptSeq DEF r
  <2>7. DOMAIN thread' = 1..Len(thread)
    BY <2>6, <2>1
  <2>8. RowsStay
    <3>1. ASSUME NEW i \in DOMAIN thread, thread[i].id # None PROVE thread'[i] = thread[i] /\ i \in DOMAIN thread'
      BY <3>1, <2>1, <2>5, <2>6, <2>7 DEF TerminalTypes
    <3> QED BY <3>1 DEF RowsStay
  <2>9. \A i \in DOMAIN thread' : thread'[i].pending => thread'[i].id = None
    BY <1>1, <2>1, <2>6, <2>7 DEF r, TerminalTypes
  <2>10. thread'[first] = r /\ first \in DOMAIN thread'
    BY <2>5, <2>6, <2>7
  <2> QED BY <2>6, <2>8, <2>9, <2>10 DEF r
<1> QED BY <1>2, <1>3

\* A steer that missed takes its own pending row back.
LEMMA MissedRow ==
  ASSUME TerminalTypes, NEW text, Missed(text)
  PROVE  /\ thread' \in Seq(ThreadRows) /\ RowsStay
            /\ \A i \in DOMAIN thread' : thread'[i].pending => thread'[i].id = None
<1> DEFINE mine == {i \in DOMAIN thread : thread[i].pending /\ thread[i].text = text}
<1>1. CASE mine = {}
  BY <1>1 DEF Missed, RowsStay, TerminalTypes
<1>2. CASE mine # {}
  <2> DEFINE last == CHOOSE i \in mine : \A j \in mine : j <= i
             n == Len(thread)
  <2>1. DOMAIN thread = 1..n /\ thread \in Seq(ThreadRows) /\ n \in Nat /\ \A i \in 1..n : thread[i] \in ThreadRows
    BY LenProperties, ElementOfSeq DEF TerminalTypes
  <2>2. mine \in SUBSET (1..n)
    BY <2>1
  <2>3. last \in mine
    <3> HIDE DEF mine, n
    <3>1. \E i \in mine : \A j \in mine : j <= i BY <1>2, <2>1, <2>2, Greatest
    <3> QED BY <3>1
  <2>4. thread' = RemoveAt(thread, last)
    BY <1>2 DEF Missed
  <2>5. last \in 1..n /\ thread[last].pending
    BY <2>1, <2>3
  <2> HIDE DEF last, mine, ThreadRows, n
  <2>8. /\ thread' \in Seq(ThreadRows) /\ Len(thread') = n - 1
        /\ \A i \in 1..(n - 1) : thread'[i] = IF i <= last - 1 THEN thread[i] ELSE thread[i + 1]
    BY <2>1, <2>4, <2>5, RemoveAtIs DEF n
  <2>9. DOMAIN thread' = 1..(n - 1)
    BY <2>8, LenProperties
  <2>10. RowsStay
    <3>1. ASSUME NEW i \in 1..n, thread[i].id # None PROVE \E j \in 1..(n - 1) : thread'[j] = thread[i]
      <4>1. i # last BY <3>1, <2>1, <2>5 DEF TerminalTypes
      <4>2. CASE i < last
        <5>1. i \in 1..(n - 1) /\ thread'[i] = thread[i] BY <4>2, <2>1, <2>5, <2>8
        <5> QED BY <5>1
      <4>3. CASE i > last
        <5>1. i - 1 \in 1..(n - 1) /\ thread'[i - 1] = thread[i] BY <4>3, <2>1, <2>5, <2>8
        <5> QED BY <5>1
      <4> QED BY <4>1, <4>2, <4>3, <2>1, <2>5
    <3> QED BY <3>1, <2>1, <2>9 DEF RowsStay
  <2>11. ASSUME NEW i \in DOMAIN thread' PROVE thread'[i].pending => thread'[i].id = None
    <3>1. PICK j \in 1..n : thread'[i] = thread[j]
      <4>1. i \in 1..n /\ i + 1 \in 1..n BY <2>1, <2>9
      <4> QED BY <4>1, <2>8, <2>9
    <3> QED BY <3>1, <2>1 DEF TerminalTypes
  <2> QED BY <2>8, <2>10, <2>11
<1> QED BY <1>1, <1>2

\* A thread read from the store has every row of it.
LEMMA LoadedRows ==
  ASSUME TurnAssumption, CoreInv, NEW c \in Conversations, thread' = Loaded(c), stored' = stored
  PROVE  /\ thread' \in Seq(ThreadRows) /\ \A i \in DOMAIN thread' : thread'[i].pending => thread'[i].id = None
         /\ \A i \in DOMAIN stored[c] : InThread(stored[c][i])'
<1>1. DOMAIN stored[c] = 1..Len(stored[c]) /\ Len(stored[c]) \in Nat
      /\ \A i \in 1..Len(stored[c]) : stored[c][i] \in Rows
  BY ElementOfSeq, LenProperties DEF CoreInv, RowsInv
<1>2. thread' = [i \in 1..Len(stored[c]) |-> ThreadRow(stored[c][i])]
  BY <1>1 DEF Loaded
<1>3. thread' \in [1..Len(stored[c]) -> ThreadRows]
  BY <1>1, <1>2, RowTypes
<1>4. thread' \in Seq(ThreadRows)
  BY <1>1, <1>3, SeqDef
<1>5. \A i \in DOMAIN thread' : ~thread'[i].pending
  BY <1>1, <1>2, RowTypes
<1>6. \A i \in DOMAIN stored[c] : InThread(stored[c][i])'
  BY <1>1, <1>2, RowTypes DEF InThread
<1> QED BY <1>4, <1>5, <1>6

\* What was announced behind a reset stays so.
LEMMA AnnouncedStays ==
  ASSUME NothingTaken, News, NEW c \in Conversations, NEW k, AnnouncedAfter(k, c)
  PROVE  AnnouncedAfter(k, c)'
<1>1. ASSUME NEW i \in DOMAIN stored'[c], Final(stored[c][i])' PROVE After(k, stored[c][i], c)'
  <2>1. CASE HeldFor(stored[c][i], c)' BY <2>1 DEF After
  <2>2. CASE i \in DOMAIN stored[c] /\ stored'[c][i] = stored[c][i] /\ Final(stored[c][i])
    <3>1. PICK row : row = stored[c][i] OBVIOUS
    <3>2. After(k, row, c) BY <2>2, <3>1 DEF AnnouncedAfter
    <3>3. After(k, row, c)' BY <3>2, StaysAfter
    <3>4. stored'[c][i] = row BY <2>2, <3>1
    <3> QED BY <3>3, <3>4 DEF After, HeldFor
  <2> QED BY <2>1, <2>2, <1>1 DEF News
<1> QED BY <1>1 DEF AnnouncedAfter

\* The resets on their way stay behind nothing that is final.
LEMMA ResetsStay ==
  ASSUME CoreInv, QueuedResets, DueReset, NothingTaken, News, due \in Dues, due' = due \/ due' = <<>>
  PROVE  QueuedResets' /\ DueReset'
<1>1. ASSUME NEW e \in Events, e.kind = "reset" PROVE e.talk \in Conversations
  BY <1>1 DEF Events
<1>2. QueuedResets'
  <2>1. ASSUME NEW k \in DOMAIN queue, queue[k].event.kind = "reset" PROVE queue[k].event.talk \in Conversations
    <3>1. queue[k] \in Envelopes
      <4> HIDE DEF Envelopes
      <4> QED BY ElementOfSeq, LenProperties DEF CoreInv, StreamInv
    <3>2. queue[k].event \in Events BY <3>1 DEF Envelopes
    <3> QED BY <1>1, <2>1, <3>2
  <2>2. ASSUME NEW k \in DOMAIN queue, queue[k].event.kind = "reset" PROVE AnnouncedAfter(k, queue[k].event.talk)'
    BY <2>1, <2>2, AnnouncedStays DEF QueuedResets, AnnouncedAfter, After, HeldFor, NothingTaken
  <2> QED BY <2>2 DEF QueuedResets, NothingTaken
<1>3. DueReset'
  <2>1. ASSUME due # <<>>, due[1].kind = "reset" PROVE due[1].talk \in Conversations
    BY <1>1, <2>1 DEF Dues
  <2>2. ASSUME due # <<>>, due[1].kind = "reset", ~lagged, due' = due PROVE AnnouncedAfter(0, due[1].talk)'
    <3>1. AnnouncedAfter(0, due[1].talk) BY <2>2 DEF DueReset
    <3>2. PICK c \in Conversations : c = due[1].talk BY <2>1, <2>2
    <3>3. AnnouncedAfter(0, c)' BY <3>1, <3>2, AnnouncedStays
    <3> QED BY <2>2, <3>2, <3>3 DEF AnnouncedAfter
  <2> QED BY <2>2 DEF DueReset, NothingTaken
<1> QED BY <1>2, <1>3

\* A thread that keeps its rows keeps up.
LEMMA ThreadStays ==
  ASSUME TurnAssumption, CoreInv, TerminalTypes, ThreadInv, NothingTaken, News, shown' = shown, RowsStay,
         at # "reread" \/ at' = "reread"
  PROVE  ThreadInv'
<1>1. shown \in Conversations
  BY DEF TerminalTypes, TerminalTypeOK
<1>2. ASSUME at' # "reread", ~lagged', NEW i \in DOMAIN stored'[shown], Final(stored[shown][i])'
      PROVE  InThread(stored[shown][i])' \/ After(0, stored[shown][i], shown)'
  <2>1. CASE HeldFor(stored[shown][i], shown)' BY <2>1 DEF After
  <2>2. CASE i \in DOMAIN stored[shown] /\ stored'[shown][i] = stored[shown][i] /\ Final(stored[shown][i])
    <3> DEFINE row == stored[shown][i]
    <3>1. row \in Rows BY <1>1, <2>2, ElementOfSeq, LenProperties DEF CoreInv, RowsInv
    <3>2. InThread(row) \/ After(0, row, shown) BY <1>2, <2>2 DEF ThreadInv, NothingTaken
    <3>3. stored'[shown][i] = row BY <2>2
    <3> HIDE DEF row
    <3>4. PICK r \in Rows : r = row BY <3>1
    <3>5. InThread(r)' \/ After(0, r, shown)' BY <3>2, <3>4, StaysInThread, StaysAfter
    <3> QED BY <3>3, <3>4, <3>5 DEF InThread, After, HeldFor
  <2> QED BY <2>1, <2>2, <1>1, <1>2 DEF News
<1> QED BY <1>2 DEF ThreadInv

\* A key that is read, or a sentence that is given to a turn: the thread keeps its rows.
LEMMA PressEnterStep ==
  ASSUME TurnAssumption, TerminalInv, NEW m \in Typed, PressEnter(m)
  PROVE  TerminalInv'
<1> USE DEF TerminalInv
<1>1. /\ UNCHANGED <<streamVars, turnVars, word, made, heard, due, expected, shown, turn, runs>>
      /\ composed' = m /\ at = "keys" /\ at' \in {"record", "steer"}
  BY DEF PressEnter, drainVars, paneVars, Goes
<1>2. CoreInv' /\ NothingTaken /\ News
  BY <1>1, StillMoves DEF turnVars
<1>3. thread' \in Seq(ThreadRows) /\ RowsStay
      /\ \A i \in DOMAIN thread' : thread'[i].pending => thread'[i].id = None
  <2>1. CASE thread' = thread BY <2>1 DEF RowsStay, TerminalTypes
  <2>2. CASE thread' = Append(thread, Steered(word[m]))
    <3>1. Steered(word[m]) \in ThreadRows /\ Steered(word[m]).id = None BY RowTypes DEF TerminalTypes, Texts
    <3> QED BY <2>2, <3>1, AppendStays
  <2> QED BY <2>1, <2>2 DEF PressEnter
<1>4. TerminalTypes'
  BY <1>1, <1>3 DEF TerminalTypes, TerminalTypeOK
<1>5. MadeInv'
  BY <1>1 DEF MadeInv, turnVars
<1>6. PlaceInv'
  BY <1>1 DEF PlaceInv
<1>7. ResetInv'
  <2>1. HeldResets' BY <1>1 DEF ResetInv, HeldResets, streamVars, turnVars
  <2> QED BY <2>1, <1>1, <1>2, ResetsStay DEF ResetInv, TerminalTypes
<1>8. ThreadInv'
  BY <1>1, <1>2, <1>3, ThreadStays
<1>9. RunsSettle'
  BY <1>1 DEF RunsSettle, turnVars
<1> QED BY <1>2, <1>4, <1>5, <1>6, <1>7, <1>8, <1>9

\* A steer is posted, or the sentence goes on to become the next turn.
LEMMA SteerStep ==
  ASSUME TurnAssumption, TerminalInv, Steer
  PROVE  TerminalInv'
<1> USE DEF TerminalInv
<1>1. /\ UNCHANGED <<streamVars, turnVars, word, made, composed, due, expected, shown, turn, runs>>
      /\ at = "steer"
  BY DEF Steer, drainVars, paneVars, Goes
<1>2. CoreInv' /\ NothingTaken /\ News
  BY <1>1, StillMoves DEF turnVars
<1>3. composed \in Typed
  BY <1>1 DEF PlaceInv
<1>4. thread' \in Seq(ThreadRows) /\ RowsStay
      /\ \A i \in DOMAIN thread' : thread'[i].pending => thread'[i].id = None
  <2>1. CASE thread' = thread BY <2>1 DEF RowsStay, TerminalTypes
  <2>2. CASE Missed(word[composed]) BY <2>2, MissedRow
  <2> QED BY <2>1, <2>2 DEF Steer
<1>5. /\ heard' \in [Typed -> SUBSET Turns]
      /\ at' = "record" \/ (at' = "post" /\ turn \in Turns /\ heard'[composed] # {})
  <2>1. heard \in [Typed -> SUBSET Turns] /\ registry \subseteq Turns
    BY DEF TerminalTypes, TerminalTypeOK, CoreInv, TurnTypeOK
  <2> QED BY <2>1, <1>3 DEF Steer, Goes
<1>6. TerminalTypes'
  BY <1>1, <1>4, <1>5 DEF TerminalTypes, TerminalTypeOK
<1>7. MadeInv'
  BY <1>1 DEF MadeInv, turnVars
<1>8. PlaceInv'
  BY <1>1, <1>3, <1>5 DEF PlaceInv
<1>9. ResetInv'
  <2>1. HeldResets' BY <1>1 DEF ResetInv, HeldResets, streamVars, turnVars
  <2> QED BY <2>1, <1>1, <1>2, ResetsStay DEF ResetInv, TerminalTypes
<1>10. ThreadInv'
  BY <1>1, <1>2, <1>4, ThreadStays
<1>11. RunsSettle'
  BY <1>1 DEF RunsSettle, turnVars
<1> QED BY <1>2, <1>6, <1>7, <1>8, <1>9, <1>10, <1>11

\* A sentence is recorded: it is held by the front end, and no reset was.
LEMMA RecordsStep ==
  ASSUME TurnAssumption, TerminalInv, NEW c \in made, composed \in Typed, Records(c), shown' = shown,
             due' = due, thread' = thread,
         at # "reread", word' = word, made' = made
  PROVE  CoreInv' /\ MadeInv' /\ ResetInv' /\ ThreadInv'
<1> USE DEF TerminalInv
<1> DEFINE row == Row(composed, word[composed])
<1>1. row \in Rows /\ row.id \in Typed /\ c \in Conversations
  BY DEF Rows, Row, Texts, TerminalTypes, TerminalTypeOK
<1>2. Save(row, c) /\ UNCHANGED <<phase, talk, registry, results>>
  BY DEF Records
<1> HIDE DEF row
<1>3. /\ CoreInv' /\ NothingTaken /\ News /\ held[Ui] = <<>> /\ held'[Ui][1].event = Message(row, c)
      /\ \A p \in Publishers : p # Ui => held'[p] = held[p]
      /\ \A e \in Conversations : e # c => stored'[e] = stored[e]
  BY <1>1, <1>2, SaveMoves
<1>4. MadeInv'
  BY <1>2, <1>3 DEF MadeInv
<1>5. HeldResets'
  <2>1. \A t \in Turns : held'[t] = held[t] BY <1>3 DEF TurnAssumption
  <2> QED BY <1>3, <2>1 DEF ResetInv, HeldResets, Message
<1>6. QueuedResets' /\ DueReset'
  BY <1>3, ResetsStay DEF ResetInv, TerminalTypes
<1>7. ThreadInv'
  <2>1. RowsStay BY DEF RowsStay
  <2> QED BY <2>1, <1>3, ThreadStays
<1> QED BY <1>3, <1>4, <1>5, <1>6, <1>7 DEF ResetInv

\* The record of a steer, which may fail.
LEMMA RecordSteerStep ==
  ASSUME TurnAssumption, TerminalInv, RecordSteer
  PROVE  TerminalInv'
<1> USE DEF TerminalInv
<1>1. /\ UNCHANGED <<word, made, composed, heard, due, expected, shown, turn, runs>>
      /\ at = "post" /\ at' \in {"tell", "record"} /\ composed \in Typed /\ turn \in Turns
  BY DEF RecordSteer, drainVars, paneVars, Goes, PlaceInv
<1>2. talk[turn] \in made
  BY <1>1 DEF MadeInv
<1>3. /\ CoreInv' /\ MadeInv' /\ ResetInv' /\ ThreadInv' /\ phase' = phase /\ results' = results
      /\ thread' \in Seq(ThreadRows) /\ \A i \in DOMAIN thread' : thread'[i].pending => thread'[i].id = None
  <2>1. CASE Records(talk[turn]) /\ thread' = thread
    <3>1. CoreInv' /\ MadeInv' /\ ResetInv' /\ ThreadInv' BY <1>1, <1>2, <2>1, RecordsStep
    <3> QED BY <3>1, <2>1 DEF Records, TerminalTypes
  <2>2. CASE Missed(word[composed]) /\ UNCHANGED <<turnVars, streamVars>>
    <3>1. CoreInv' /\ NothingTaken /\ News
      BY <2>2, StillMoves DEF turnVars
    <3>2. thread' \in Seq(ThreadRows) /\ RowsStay
          /\ \A i \in DOMAIN thread' : thread'[i].pending => thread'[i].id = None
      BY <2>2, MissedRow
    <3>3. MadeInv' /\ HeldResets' BY <1>1, <2>2 DEF MadeInv, ResetInv, HeldResets, streamVars, turnVars
    <3>4. QueuedResets' /\ DueReset' BY <1>1, <3>1, ResetsStay DEF ResetInv, TerminalTypes
    <3>5. ThreadInv' BY <1>1, <3>1, <3>2, ThreadStays
    <3> QED BY <3>1, <3>2, <3>3, <3>4, <3>5, <2>2 DEF ResetInv, turnVars
  <2> QED BY <2>1, <2>2 DEF RecordSteer
<1>4. TerminalTypes'
  BY <1>1, <1>3 DEF TerminalTypes, TerminalTypeOK
<1>5. PlaceInv'
  BY <1>1 DEF PlaceInv
<1>6. RunsSettle'
  BY <1>1, <1>3 DEF RunsSettle
<1> QED BY <1>3, <1>4, <1>5, <1>6

\* The record of a message, which may fail.
LEMMA RecordStep ==
  ASSUME TurnAssumption, TerminalInv, Record
  PROVE  TerminalInv'
<1> USE DEF TerminalInv
<1>1. /\ UNCHANGED <<word, made, composed, heard, due, expected, shown, turn, runs, thread>>
      /\ at = "record" /\ at' = "spawn" /\ composed \in Typed /\ shown \in made
  BY DEF Record, drainVars, paneVars, screenVars, Goes, PlaceInv, TerminalTypes, TerminalTypeOK
<1>2. CoreInv' /\ MadeInv' /\ ResetInv' /\ ThreadInv' /\ phase' = phase /\ results' = results
  <2>1. CASE Records(shown)
    <3>1. CoreInv' /\ MadeInv' /\ ResetInv' /\ ThreadInv' BY <1>1, <2>1, RecordsStep
    <3> QED BY <3>1, <2>1 DEF Records
  <2>2. CASE UNCHANGED <<turnVars, streamVars>>
    <3>1. CoreInv' /\ NothingTaken /\ News
      BY <2>2, StillMoves DEF turnVars
    <3>2. MadeInv' /\ HeldResets' BY <1>1, <2>2 DEF MadeInv, ResetInv, HeldResets, streamVars, turnVars
    <3>3. QueuedResets' /\ DueReset' BY <1>1, <3>1, ResetsStay DEF ResetInv, TerminalTypes
    <3>4. RowsStay BY <1>1 DEF RowsStay
    <3>5. ThreadInv' BY <1>1, <3>1, <3>4, ThreadStays
    <3> QED BY <3>1, <3>2, <3>3, <3>5, <2>2 DEF ResetInv, turnVars
  <2> QED BY <2>1, <2>2 DEF Record
<1>3. TerminalTypes'
  BY <1>1 DEF TerminalTypes, TerminalTypeOK
<1>4. PlaceInv'
  BY <1>1 DEF PlaceInv
<1>5. RunsSettle'
  BY <1>1, <1>2 DEF RunsSettle
<1> QED BY <1>2, <1>3, <1>4, <1>5

\* An event of the front end, other than a reset, takes its number.
LEMMA TellSteerStep ==
  ASSUME TurnAssumption, TerminalInv, TellSteer
  PROVE  TerminalInv'
<1> USE DEF TerminalInv
<1>1. /\ UNCHANGED <<turnVars, word, made, composed, heard, due, expected, shown, thread, turn, runs>>
      /\ at = "tell" /\ at' = "jobs" /\ turn \in Turns /\ composed \in Typed /\ heard[composed] # {}
      /\ Number(Ui, TurnSteered(turn, word[composed]))
  BY DEF TellSteer, drainVars, paneVars, screenVars, Goes, PlaceInv, TurnAssumption
<1>2. /\ Ui \in Publishers /\ TurnSteered(turn, word[composed]) \in Events
      /\ TurnSteered(turn, word[composed]).kind # "reset"
  BY <1>1 DEF TurnAssumption, TurnSteered, Events, Texts, TerminalTypes
<1>3. /\ CoreInv' /\ NothingTaken /\ News /\ held[Ui] = <<>>
      /\ held'[Ui] # <<>> /\ held'[Ui][1].event = TurnSteered(turn, word[composed])
      /\ \A q \in Publishers : q # Ui => held'[q] = held[q]
  BY <1>1, <1>2, NumberMoves
<1>4. TerminalTypes' /\ MadeInv' /\ PlaceInv' /\ RunsSettle'
  BY <1>1 DEF TerminalTypes, TerminalTypeOK, MadeInv, PlaceInv, RunsSettle, turnVars
<1>5. HeldResets'
  <2>1. \A t \in Turns : held'[t] = held[t] BY <1>3 DEF TurnAssumption
  <2> QED BY <1>2, <1>3, <2>1 DEF ResetInv, HeldResets
<1>6. QueuedResets' /\ DueReset'
  BY <1>1, <1>3, ResetsStay DEF ResetInv, TerminalTypes
<1>7. ThreadInv'
  <2>1. RowsStay BY <1>1 DEF RowsStay
  <2> QED BY <2>1, <1>1, <1>3, ThreadStays
<1> QED BY <1>3, <1>4, <1>5, <1>6, <1>7 DEF ResetInv

\* A send: the queue grows at its end, or loses its first and is known to have.
LEMMA SendsStep ==
  ASSUME CapacityAssumption, TurnAssumption, TerminalInv, NEW p \in Publishers, Send(p),
         UNCHANGED <<turnVars, terminalVars>>
  PROVE  TerminalInv'
<1> USE DEF TerminalInv
<1>1. UNCHANGED <<stored, phase, talk, registry, results, word, made, at, composed, heard, due, expected,
          shown, thread, turn, runs>>
  BY DEF turnVars, terminalVars, drainVars, screenVars, paneVars
<1>2. CoreInv'
  BY SendMoves
<1>3. TerminalTypes' /\ MadeInv' /\ PlaceInv' /\ RunsSettle'
  BY <1>1 DEF TerminalTypes, TerminalTypeOK, MadeInv, PlaceInv, RunsSettle
<1>4. PICK d \in {0, 1} :
        /\ d <= Len(queue) /\ Len(queue') = Len(queue) + 1 - d
        /\ d = 1 => lagged'
        /\ d = 0 => lagged' = lagged
        /\ \A i \in 1..(Len(queue) - d) : queue'[i] = queue[i + d]
        /\ queue'[Len(queue')] = held[p][1]
  BY SendStep DEF CoreInv, TurnTypeOK
<1>5. held[p] # <<>> /\ held'[p] = <<>> /\ \A q \in Publishers \ {p} : held'[q] = held[q]
  BY SendStep DEF CoreInv, TurnTypeOK
<1>6. /\ DOMAIN queue = 1..Len(queue) /\ Len(queue) \in Nat /\ DOMAIN queue' = 1..Len(queue')
         /\ Len(queue') \in Nat
      /\ StreamInv /\ StreamInv' /\ 0 < Len(queue')
  BY <1>2, <1>4, LenProperties DEF CoreInv, StreamInv
<1>7. HeldResets'
  <2>1. Turns \subseteq Publishers /\ Ui \in Publishers BY DEF TurnAssumption
  <2>2. \A q \in Publishers : held'[q] = held[q] \/ held'[q] = <<>> BY <1>5
  <2> QED BY <1>1, <2>1, <2>2 DEF ResetInv, HeldResets
<1>8. ASSUME NEW c, NEW k \in Nat, k < Len(queue'), NEW row, After(k + d, row, c) PROVE After(k, row, c)'
  BY <1>4, <1>5, <1>6, <1>8, SentStaysAfter
<1>9. ASSUME NEW c \in Conversations, NEW k \in Nat, k < Len(queue'), AnnouncedAfter(k + d, c)
      PROVE AnnouncedAfter(k, c)'
  BY <1>8, <1>1, <1>9 DEF AnnouncedAfter, Final, After, HeldFor
<1>10. ASSUME NEW e \in Events, e.kind = "reset" PROVE e.talk \in Conversations
  BY <1>10 DEF Events
<1>11. QueuedResets'
  <2>1. ASSUME NEW k \in DOMAIN queue', queue'[k].event.kind = "reset"
        PROVE  \E c \in Conversations : c = queue'[k].event.talk /\ AnnouncedAfter(k, c)'
    <3>1. queue'[k].event \in Events
      <4>1. queue'[k] \in Envelopes
        <5> HIDE DEF Envelopes
        <5> QED BY <1>6, ElementOfSeq DEF StreamInv
      <4> QED BY <4>1 DEF Envelopes
    <3>2. PICK c \in Conversations : c = queue'[k].event.talk BY <1>10, <2>1, <3>1
    <3>3. CASE k < Len(queue')
      <4>1. k \in 1..(Len(queue) - d) /\ k \in Nat /\ k + d \in DOMAIN queue BY <1>4, <1>6, <3>3
      <4>2. queue'[k] = queue[k + d] BY <4>1, <1>4
      <4>3. AnnouncedAfter(k + d, c) BY <4>1, <4>2, <2>1, <3>2 DEF ResetInv, QueuedResets
      <4>4. AnnouncedAfter(k, c)' BY <4>1, <4>3, <3>3, <1>9
      <4> QED BY <4>4, <3>2
    <3>4. CASE k = Len(queue')
      <4>1. held[p][1].event.kind = "reset" /\ held[p][1].event.talk = c BY <3>4, <1>4, <2>1, <3>2
      <4>2. p = Ui BY <4>1, <1>5 DEF ResetInv, HeldResets, TurnAssumption
      <4>3. stored'[c] = <<>> BY <4>1, <4>2, <1>1, <1>5 DEF ResetInv, HeldResets
      <4>4. AnnouncedAfter(k, c)' BY <4>3 DEF AnnouncedAfter
      <4> QED BY <4>4, <3>2
    <3> QED BY <3>3, <3>4, <1>6
  <2> QED BY <2>1 DEF QueuedResets, AnnouncedAfter, After, HeldFor
<1>12. DueReset'
  <2>1. ASSUME due # <<>>, due[1].kind = "reset", ~lagged' PROVE AnnouncedAfter(0, due[1].talk)'
    <3>1. d = 0 /\ ~lagged BY <2>1, <1>4
    <3>2. PICK c \in Conversations : c = due[1].talk
      <4>1. due[1] \in Events BY <2>1 DEF TerminalTypes, Dues
      <4> QED BY <4>1, <2>1, <1>10
    <3>3. AnnouncedAfter(0 + d, c) BY <3>1, <3>2, <2>1 DEF ResetInv, DueReset
    <3>4. AnnouncedAfter(0, c)' BY <3>3, <1>6, <1>9
    <3> QED BY <3>2, <3>4, <1>1 DEF AnnouncedAfter
  <2> QED BY <2>1, <1>1 DEF DueReset
<1>13. ThreadInv'
  <2>1. ASSUME at # "reread", ~lagged', NEW i \in DOMAIN stored[shown], Final(stored[shown][i])
        PROVE  LET row == stored[shown][i] IN InThread(row) \/ After(0, row, shown)'
    <3>1. d = 0 /\ ~lagged BY <2>1, <1>4
    <3>2. PICK row : row = stored[shown][i] OBVIOUS
    <3>3. InThread(row) \/ After(0 + d, row, shown) BY <3>1, <3>2, <2>1 DEF ThreadInv
    <3>4. After(0 + d, row, shown) => After(0, row, shown)' BY <1>8, <1>1, <1>6 DEF After, HeldFor
    <3> QED BY <3>2, <3>3, <3>4, <1>1 DEF After, HeldFor
  <2> QED BY <2>1, <1>1 DEF ThreadInv, Final, InThread, After, HeldFor
<1> QED BY <1>2, <1>3, <1>7, <1>11, <1>12, <1>13 DEF ResetInv

\* A run starts, in a conversation that no reset is held for.
LEMMA SpawnStep ==
  ASSUME TurnAssumption, TerminalInv, NEW t \in Turns, Spawn(t)
  PROVE  TerminalInv'
<1> USE DEF TerminalInv
<1>1. /\ UNCHANGED <<streamVars, stored, word, made, composed, due, expected, shown, thread>>
      /\ held[Ui] = <<>> /\ at = "spawn" /\ at' = "jobs" /\ composed \in Typed /\ Asks(t, shown)
      /\ turn' = t /\ runs' = [runs EXCEPT ![t] = "running"] /\ heard' = [heard EXCEPT ![composed] = @ \cup {t}]
  BY DEF Spawn, drainVars, screenVars, Goes, PlaceInv
<1>2. shown \in made /\ shown \in Conversations
  BY DEF TerminalTypes, TerminalTypeOK
<1>3. CoreInv' /\ NothingTaken /\ News /\ phase[t] = "none" /\ \A u \in Turns : u # t => phase'[u] = phase[u]
      /\ talk'[u] = talk[u]
  BY <1>1, <1>2, AskMoves
<1>4. talk' = [talk EXCEPT ![t] = shown] /\ phase'[t] = "asked" /\ results' = results
  BY <1>1 DEF Asks, CoreInv, TurnTypeOK
<1>5. /\ runs' \in [Turns -> {"none", "running", "settled"}] /\ runs'[t] = "running"
         /\ \A u \in Turns : u # t => runs'[u] = runs[u]
      /\ heard' \in [Typed -> SUBSET Turns] /\ heard'[composed] # {}
  BY <1>1 DEF TerminalTypes, TerminalTypeOK
<1>6. TerminalTypes'
  BY <1>1, <1>5 DEF TerminalTypes, TerminalTypeOK
<1>7. MadeInv'
  BY <1>1, <1>2, <1>3, <1>4 DEF MadeInv, CoreInv, TurnTypeOK
<1>8. PlaceInv'
  BY <1>1, <1>5 DEF PlaceInv
<1>9. HeldResets'
  BY <1>1 DEF ResetInv, HeldResets, streamVars
<1>10. QueuedResets' /\ DueReset'
  BY <1>1, <1>3, ResetsStay DEF ResetInv, TerminalTypes
<1>11. ThreadInv'
  <2>1. RowsStay BY <1>1 DEF RowsStay
  <2> QED BY <2>1, <1>1, <1>3, ThreadStays
<1>12. RunsSettle'
  BY <1>1, <1>3, <1>4, <1>5 DEF RunsSettle
<1> QED BY <1>3, <1>6, <1>7, <1>8, <1>9, <1>10, <1>11, <1>12 DEF ResetInv

\* A new conversation: its reset is published while it is empty, and nothing is of it yet.
LEMMA PressNewStep ==
  ASSUME TurnAssumption, TerminalInv, NEW c \in Conversations, PressNew(c)
  PROVE  TerminalInv'
<1> USE DEF TerminalInv
<1>1. /\ UNCHANGED <<turnVars, word, composed, heard, due, expected, turn, runs>>
      /\ c \notin made /\ made' = made \cup {c} /\ at = "keys" /\ at' = "jobs" /\ Number(Ui, Reset(c))
      /\ shown' = c /\ thread' = <<>>
  BY DEF PressNew, drainVars, paneVars, Goes
<1>2. Ui \in Publishers /\ Reset(c) \in Events /\ Reset(c).talk = c
  BY DEF TurnAssumption, Reset, Events
<1>3. /\ CoreInv' /\ NothingTaken /\ News /\ held[Ui] = <<>>
      /\ held'[Ui] # <<>> /\ held'[Ui][1].event = Reset(c)
      /\ \A q \in Publishers : q # Ui => held'[q] = held[q]
  BY <1>1, <1>2, NumberMoves
<1>4. stored[c] = <<>> /\ \A t \in Turns : talk[t] # c
  BY <1>1 DEF MadeInv
<1>5. thread' \in Seq(ThreadRows) /\ DOMAIN thread' = {}
  BY <1>1
<1>6. TerminalTypes'
  BY <1>1, <1>5 DEF TerminalTypes, TerminalTypeOK
<1>7. MadeInv' /\ PlaceInv' /\ RunsSettle'
  BY <1>1 DEF MadeInv, PlaceInv, RunsSettle, turnVars
<1>8. HeldResets'
  <2>1. \A t \in Turns : held'[t] = held[t] BY <1>3 DEF TurnAssumption
  <2> QED BY <1>1, <1>2, <1>3, <1>4, <2>1 DEF ResetInv, HeldResets, turnVars
<1>9. QueuedResets' /\ DueReset'
  BY <1>1, <1>3, ResetsStay DEF ResetInv, TerminalTypes
<1>10. ThreadInv'
  BY <1>1, <1>4 DEF ThreadInv, turnVars
<1> QED BY <1>3, <1>6, <1>7, <1>8, <1>9, <1>10 DEF ResetInv

\* Another conversation is shown, read from the store.
LEMMA PressSwitchStep ==
  ASSUME TurnAssumption, TerminalInv, NEW c \in Conversations, PressSwitch(c)
  PROVE  TerminalInv'
<1> USE DEF TerminalInv
<1>1. /\ UNCHANGED <<streamVars, turnVars, word, made, composed, heard, due, expected, turn, runs>>
      /\ c \in made /\ at = "keys" /\ at' = "jobs" /\ shown' = c /\ thread' = Loaded(c)
  BY DEF PressSwitch, drainVars, paneVars, Goes
<1>2. CoreInv' /\ NothingTaken /\ News
  BY <1>1, StillMoves DEF turnVars
<1>3. /\ thread' \in Seq(ThreadRows) /\ \A i \in DOMAIN thread' : thread'[i].pending => thread'[i].id = None
      /\ \A i \in DOMAIN stored[c] : InThread(stored[c][i])'
  BY <1>1, LoadedRows DEF turnVars
<1>4. TerminalTypes'
  BY <1>1, <1>3 DEF TerminalTypes, TerminalTypeOK
<1>5. MadeInv' /\ PlaceInv' /\ RunsSettle' /\ HeldResets'
  BY <1>1 DEF MadeInv, PlaceInv, RunsSettle, ResetInv, HeldResets, turnVars, streamVars
<1>6. QueuedResets' /\ DueReset'
  BY <1>1, <1>2, ResetsStay DEF ResetInv, TerminalTypes
<1>7. ThreadInv'
  BY <1>1, <1>3 DEF ThreadInv, InThread, turnVars
<1> QED BY <1>2, <1>4, <1>5, <1>6, <1>7 DEF ResetInv

\* The jobs are looked at: a run whose job reported is settled.
LEMMA PollJobsStep ==
  ASSUME TurnAssumption, TerminalInv, PollJobs
  PROVE  TerminalInv'
<1> USE DEF TerminalInv
<1>1. /\ UNCHANGED <<streamVars, stored, phase, talk, registry, word, made, heard, due, expected, shown, thread>>
      /\ at \in {"keys", "jobs"} /\ results' \subseteq results
      /\ (at' = "jobs" /\ composed' = composed) \/ (at' = "drain" /\ composed' = None)
  <2>1. /\ UNCHANGED <<streamVars, stored, phase, talk, registry, word, made, heard, due, expected, shown, thread>>
        /\ at \in {"keys", "jobs"}
    BY DEF PollJobs, drainVars, screenVars
  <2>2. CASE \E t \in results : results' = results \ {t} /\ at' = "jobs" /\ UNCHANGED composed
    BY <2>1, <2>2
  <2>3. CASE results = {} /\ at' = "drain" /\ composed' = None /\ UNCHANGED <<results, paneVars>>
    BY <2>1, <2>3
  <2> QED BY <2>2, <2>3 DEF PollJobs
<1>2. CoreInv' /\ NothingTaken /\ News
  BY <1>1, StillMoves
<1>3. /\ runs' \in [Turns -> {"none", "running", "settled"}] /\ turn' \in Turns \cup {None} /\ RunsSettle'
  <2>1. /\ runs \in [Turns -> {"none", "running", "settled"}] /\ turn \in Turns \cup {None}
        /\ results \subseteq Turns /\ phase' = phase
    BY <1>1 DEF TerminalTypes, TerminalTypeOK, CoreInv, TurnTypeOK
  <2>2. CASE UNCHANGED <<turn, runs, results>>
    BY <2>1, <2>2 DEF RunsSettle
  <2>3. ASSUME NEW t \in results, results' = results \ {t},
               IF runs[t] = "settled" THEN UNCHANGED paneVars ELSE Settled(t)
        PROVE  /\ runs' \in [Turns -> {"none", "running", "settled"}] /\ turn' \in Turns \cup {None} /\ RunsSettle'
    <3>1. CASE runs[t] = "settled" /\ UNCHANGED paneVars BY <3>1, <2>1, <2>3 DEF RunsSettle, paneVars
    <3>2. CASE Settled(t)
      <4>1. /\ runs' \in [Turns -> {"none", "running", "settled"}] /\ turn' \in Turns \cup {None}
            /\ runs'[t] = "settled" /\ \A u \in Turns : u # t => runs'[u] = runs[u]
            /\ turn' # None => turn' = turn /\ turn # t
        BY <3>2, <2>1 DEF Settled
      <4> QED BY <4>1, <2>1, <2>3 DEF RunsSettle
    <3> QED BY <3>1, <3>2, <2>3
  <2> QED BY <2>2, <2>3 DEF PollJobs, paneVars
<1>4. TerminalTypes'
  BY <1>1, <1>3 DEF TerminalTypes, TerminalTypeOK
<1>5. MadeInv' /\ PlaceInv' /\ HeldResets'
  BY <1>1 DEF MadeInv, PlaceInv, ResetInv, HeldResets, streamVars
<1>6. QueuedResets' /\ DueReset'
  BY <1>1, <1>2, ResetsStay DEF ResetInv, TerminalTypes
<1>7. ThreadInv'
  <2>1. RowsStay BY <1>1 DEF RowsStay
  <2> QED BY <2>1, <1>1, <1>2, ThreadStays
<1> QED BY <1>2, <1>3, <1>4, <1>5, <1>6, <1>7 DEF ResetInv

\* What an event does to the thread: it keeps its rows, a message of the conversation puts its own
\* there, and a reset of it empties it.
LEMMA ApplyThread ==
  ASSUME TurnAssumption, TerminalTypes, NEW e \in Events, Apply(e)
  PROVE  /\ thread' \in Seq(ThreadRows) /\ \A i \in DOMAIN thread' : thread'[i].pending => thread'[i].id = None
         /\ RowsStay \/ (e.kind = "reset" /\ e.talk = shown)
         /\ e.kind = "message" /\ e.talk = shown => \E j \in DOMAIN thread' : thread'[j] = ThreadRow(e.row)
<1>1. CASE thread' = thread /\ ~(e.kind = "message" /\ e.talk = shown)
  BY <1>1 DEF RowsStay, TerminalTypes
<1>2. CASE e.kind = "message" /\ e.talk = shown /\ Received(e.row)
  <2>1. e.row \in Rows BY <1>2 DEF Events
  <2> QED BY <2>1, <1>2, ReceivedRow
<1>3. CASE e.kind = "reset" /\ e.talk = shown /\ thread' = <<>>
  <2>1. thread' \in Seq(ThreadRows) /\ DOMAIN thread' = {} BY <1>3
  <2> QED BY <2>1, <1>3
<1>4. CASE e.kind = "steered" /\ thread' = Append(thread, Steered(e.text))
  <2>1. Steered(e.text) \in ThreadRows /\ Steered(e.text).id = None
    <3>1. e.text \in Texts BY <1>4 DEF Events
    <3> QED BY <3>1, RowTypes
  <2> QED BY <2>1, <1>4, AppendStays
<1> QED BY <1>1, <1>2, <1>3, <1>4 DEF Apply

\* What it does to the runs.
LEMMA ApplyRuns ==
  ASSUME TerminalTypes, RunsSettle, NEW e, Apply(e), phase' = phase, results' = results
  PROVE  runs' \in [Turns -> {"none", "running", "settled"}] /\ turn' \in Turns \cup {None} /\ RunsSettle'
<1>1. runs \in [Turns -> {"none", "running", "settled"}] /\ turn \in Turns \cup {None}
  BY DEF TerminalTypes, TerminalTypeOK
<1>2. CASE UNCHANGED paneVars
  BY <1>1, <1>2 DEF RunsSettle, paneVars
<1>3. CASE Settled(e.run)
  <2>1. /\ runs' \in [Turns -> {"none", "running", "settled"}] /\ turn' \in Turns \cup {None}
        /\ \A u \in Turns : runs'[u] = runs[u] \/ runs'[u] = "settled"
        /\ turn' # None => turn' = turn /\ turn # e.run /\ runs'[turn] = runs[turn]
    BY <1>3, <1>1 DEF Settled
  <2> QED BY <2>1, <1>1 DEF RunsSettle
<1> QED BY <1>2, <1>3 DEF Apply

\* An event that carries a row puts it in the thread.
LEMMA CarriedIsShown ==
  ASSUME TurnAssumption, TerminalTypes, NEW e \in Events, NEW row, NEW thread2,
         \E j \in DOMAIN thread2 : thread2[j] = ThreadRow(e.row), Carries(e, row, shown)
  PROVE  \E i \in DOMAIN thread2 : thread2[i].id = row.id /\ thread2[i].text \in {row.text, "whole"}
<1>1. e.row \in Rows /\ e.row.id = row.id /\ e.row.text \in {row.text, "whole"}
  BY DEF Carries, Events
<1>2. ThreadRow(e.row).id = e.row.id /\ ThreadRow(e.row).text = e.row.text
  BY <1>1, RowTypes
<1> QED BY <1>1, <1>2

\* One envelope is drained: it is applied, or kept for after a re-read.
LEMMA DrainStep ==
  ASSUME CapacityAssumption, TurnAssumption, TerminalInv, Drain
  PROVE  TerminalInv'
<1> USE DEF TerminalInv
<1> DEFINE e == queue[1].event
<1>1. /\ UNCHANGED <<turnVars, word, made, composed, heard, shown>>
      /\ at = "drain" /\ Receive
      /\ \/ Apply(Head(queue).event) /\ UNCHANGED <<at, due>>
         \/ at' = "reread" /\ due' = <<Head(queue).event>> /\ UNCHANGED <<thread, paneVars>>
  BY DEF Drain
<1>2. /\ StreamInv /\ StreamInv' /\ Len(queue') = Len(queue) - 1 /\ Len(queue) \in Nat \ {0} /\ held' = held
      /\ Head(queue) = queue[1] /\ queue[1] \in Envelopes /\ ~lagged /\ ~lagged'
      /\ \A i \in 1..(Len(queue) - 1) : queue'[i] = queue[i + 1]
  BY <1>1, ReceiveStep DEF CoreInv
<1>3. CoreInv'
  BY <1>1, ReceiveMoves
<1>4. e \in Events
  BY <1>2 DEF Envelopes
<1> HIDE DEF e
<1>5. due = <<>> /\ composed = None
  BY <1>1 DEF PlaceInv
<1>6. \/ Apply(e) /\ at' = "drain" /\ due' = <<>>
      \/ at' = "reread" /\ due' = <<e>> /\ UNCHANGED <<thread, paneVars>>
  BY <1>1, <1>2, <1>5 DEF e
<1>7. /\ thread' \in Seq(ThreadRows) /\ \A i \in DOMAIN thread' : thread'[i].pending => thread'[i].id = None
      /\ runs' \in [Turns -> {"none", "running", "settled"}] /\ turn' \in Turns \cup {None} /\ RunsSettle'
  <2>1. CASE Apply(e) BY <2>1, <1>1, <1>4, ApplyThread, ApplyRuns DEF turnVars
  <2>2. CASE UNCHANGED <<thread, paneVars>>
    BY <2>2, <1>1 DEF TerminalTypes, TerminalTypeOK, RunsSettle, paneVars, turnVars
  <2> QED BY <2>1, <2>2, <1>6
<1>8. TerminalTypes'
  <2>1. due' \in Dues BY <1>4, <1>6 DEF Dues
  <2> QED BY <2>1, <1>1, <1>6, <1>7 DEF TerminalTypes, TerminalTypeOK
<1>9. MadeInv' /\ PlaceInv' /\ HeldResets'
  BY <1>1, <1>2, <1>5, <1>6 DEF MadeInv, PlaceInv, ResetInv, HeldResets, turnVars
<1>10. DOMAIN queue = 1..Len(queue) /\ DOMAIN queue' = 1..Len(queue')
  BY <1>2, LenProperties DEF StreamInv
<1>11. ASSUME NEW c, NEW k \in Nat, NEW row, After(k + 1, row, c) PROVE After(k, row, c)'
  BY <1>2, <1>11, ReceivedStaysAfter
<1>12. ASSUME NEW c, NEW k \in Nat, AnnouncedAfter(k + 1, c) PROVE AnnouncedAfter(k, c)'
  BY <1>11, <1>12, <1>1 DEF AnnouncedAfter, Final, After, HeldFor, turnVars
<1>13. QueuedResets'
  <2>1. ASSUME NEW k \in DOMAIN queue', queue'[k].event.kind = "reset"
        PROVE  \E c : c = queue'[k].event.talk /\ AnnouncedAfter(k, c)'
    <3>1. k \in 1..(Len(queue) - 1) /\ k + 1 \in DOMAIN queue /\ k \in Nat /\ queue'[k] = queue[k + 1]
      BY <1>2, <1>10
    <3>2. PICK c : c = queue'[k].event.talk OBVIOUS
    <3>3. AnnouncedAfter(k + 1, c) BY <2>1, <3>1, <3>2 DEF ResetInv, QueuedResets
    <3> QED BY <3>1, <3>2, <3>3, <1>12
  <2> QED BY <2>1 DEF QueuedResets, AnnouncedAfter, After, HeldFor
<1>14. e.kind = "reset" => AnnouncedAfter(0 + 1, e.talk)
  BY <1>2, <1>10 DEF ResetInv, QueuedResets, e
<1>15. DueReset'
  <2>1. CASE due' = <<>> BY <2>1 DEF DueReset
  <2>2. CASE due' = <<e>>
    <3>1. PICK c : c = e.talk OBVIOUS
    <3>2. e.kind = "reset" => AnnouncedAfter(0, c)' BY <1>14, <1>12, <3>1
    <3> QED BY <2>2, <3>1, <3>2 DEF DueReset, AnnouncedAfter
  <2> QED BY <2>1, <2>2, <1>6
<1>16. ThreadInv'
  <2>1. CASE at' = "reread" BY <2>1 DEF ThreadInv
  <2>2. CASE Apply(e)
    <3>1. ASSUME NEW i \in DOMAIN stored[shown], Final(stored[shown][i])
          PROVE  \E row \in Rows : row = stored[shown][i] /\ (InThread(row)' \/ After(0, row, shown)')
      <4>1. PICK row \in Rows : row = stored[shown][i]
        BY ElementOfSeq, LenProperties DEF CoreInv, RowsInv, TerminalTypes, TerminalTypeOK
      <4>2. InThread(row) \/ After(0, row, shown)
        BY <3>1, <4>1, <1>1, <1>2 DEF ThreadInv
      <4>3. ASSUME After(0 + 1, row, shown) PROVE After(0, row, shown)'
        BY <4>3, <1>11, <1>1 DEF After, HeldFor
      <4>4. CASE e.kind = "reset" /\ e.talk = shown
        <5>1. After(0 + 1, row, shown) BY <4>1, <4>4, <3>1, <1>14 DEF AnnouncedAfter
        <5> QED BY <5>1, <4>3, <4>1
      <4>5. CASE RowsStay /\ InThread(row)
        <5>1. InThread(row)' BY <4>5, StaysInThread
        <5> QED BY <5>1, <4>1
      <4>6. CASE After(0, row, shown)
        <5>1. After(0 + 1, row, shown) \/ Carries(e, row, shown)
          <6>1. CASE HeldFor(row, shown) BY <6>1 DEF After
          <6>2. CASE \E j \in DOMAIN queue : j > 0 /\ Carries(queue[j].event, row, shown)
            <7>1. PICK j \in DOMAIN queue : j > 0 /\ Carries(queue[j].event, row, shown) BY <6>2
            <7>2. j = 1 \/ j > 0 + 1 BY <7>1, <1>10
            <7> QED BY <7>1, <7>2 DEF After, e
          <6> QED BY <6>1, <6>2, <4>6 DEF After
        <5>2. CASE Carries(e, row, shown)
          <6>1. \E j \in DOMAIN thread' : thread'[j] = ThreadRow(e.row)
            BY <5>2, <2>2, <1>4, ApplyThread DEF Carries
          <6>2. InThread(row)' BY <6>1, <5>2, <1>4, CarriedIsShown DEF InThread
          <6> QED BY <6>2, <4>1
        <5> QED BY <5>1, <5>2, <4>1, <4>3
      <4> QED BY <4>2, <4>4, <4>5, <4>6, <2>2, <1>4, ApplyThread
    <3> QED BY <3>1, <1>1 DEF ThreadInv, Final, InThread, After, HeldFor, turnVars
  <2> QED BY <2>1, <2>2, <1>6
<1> QED BY <1>3, <1>7, <1>8, <1>9, <1>13, <1>15, <1>16 DEF ResetInv

\* A drop is reported: the store is to be read again.
LEMMA DrainLagStep ==
  ASSUME TurnAssumption, TerminalInv, DrainLag
  PROVE  TerminalInv'
<1> USE DEF TerminalInv
<1>1. /\ UNCHANGED <<turnVars, word, made, composed, heard, due, shown, thread, turn, runs, seq, held, queue>>
      /\ at = "drain" /\ at' = "reread" /\ lagged' = FALSE
  BY DEF DrainLag, Goes, Lagged, screenVars, paneVars
<1>2. CoreInv'
  BY <1>1 DEF CoreInv, TurnTypeOK, StreamInv, RowsInv, turnVars
<1>3. due = <<>> /\ due' = <<>>
  BY <1>1 DEF PlaceInv
<1>4. TerminalTypes' /\ MadeInv' /\ PlaceInv' /\ RunsSettle' /\ HeldResets'
  BY <1>1 DEF TerminalTypes, TerminalTypeOK, MadeInv, PlaceInv, RunsSettle, ResetInv, HeldResets, turnVars
<1>5. QueuedResets' /\ DueReset' /\ ThreadInv'
  BY <1>1, <1>3 DEF ResetInv, QueuedResets, DueReset, ThreadInv, AnnouncedAfter, After, HeldFor, Final, turnVars
<1> QED BY <1>2, <1>4, <1>5 DEF ResetInv

\* The queue is empty: the next frame reads a key.
LEMMA DrainEmptyStep ==
  ASSUME TurnAssumption, TerminalInv, DrainEmpty
  PROVE  TerminalInv'
<1> USE DEF TerminalInv
<1>1. /\ UNCHANGED <<streamVars, turnVars, word, made, composed, heard, due, shown, thread, turn, runs>>
      /\ at = "drain" /\ at' = "keys"
  BY DEF DrainEmpty, Goes, drainVars, screenVars, paneVars
<1>2. CoreInv' /\ NothingTaken /\ News
  BY <1>1, StillMoves DEF turnVars
<1>3. TerminalTypes' /\ MadeInv' /\ PlaceInv' /\ RunsSettle' /\ HeldResets'
  BY <1>1 DEF TerminalTypes, TerminalTypeOK, MadeInv, PlaceInv, RunsSettle, ResetInv, HeldResets, turnVars,
      streamVars
<1>4. QueuedResets' /\ DueReset'
  BY <1>1, <1>2, ResetsStay DEF ResetInv, TerminalTypes
<1>5. ThreadInv'
  <2>1. RowsStay BY <1>1 DEF RowsStay
  <2> QED BY <2>1, <1>1, <1>2, ThreadStays
<1> QED BY <1>2, <1>3, <1>4, <1>5 DEF ResetInv

\* The thread is read from the store again.
LEMMA RereadStep ==
  ASSUME TurnAssumption, TerminalInv, Reread
  PROVE  TerminalInv'
<1> USE DEF TerminalInv
<1>1. /\ UNCHANGED <<streamVars, turnVars, word, made, composed, heard, due, shown, turn, runs>>
      /\ at = "reread" /\ at' = (IF due = <<>> THEN "drain" ELSE "apply") /\ thread' = Loaded(shown)
  BY DEF Reread, Goes, drainVars, paneVars
<1>2. CoreInv' /\ NothingTaken /\ News
  BY <1>1, StillMoves DEF turnVars
<1>3. shown \in Conversations
  BY DEF TerminalTypes, TerminalTypeOK
<1>4. /\ thread' \in Seq(ThreadRows) /\ \A i \in DOMAIN thread' : thread'[i].pending => thread'[i].id = None
      /\ \A i \in DOMAIN stored[shown] : InThread(stored[shown][i])'
  BY <1>1, <1>3, LoadedRows DEF turnVars
<1>5. TerminalTypes'
  BY <1>1, <1>4 DEF TerminalTypes, TerminalTypeOK
<1>6. MadeInv' /\ PlaceInv' /\ RunsSettle' /\ HeldResets'
  BY <1>1 DEF MadeInv, PlaceInv, RunsSettle, ResetInv, HeldResets, turnVars, streamVars
<1>7. QueuedResets' /\ DueReset'
  BY <1>1, <1>2, ResetsStay DEF ResetInv, TerminalTypes
<1>8. ThreadInv'
  BY <1>1, <1>4 DEF ThreadInv, InThread, turnVars
<1> QED BY <1>2, <1>5, <1>6, <1>7, <1>8 DEF ResetInv

\* The envelope that was kept is applied to the thread that was read.
LEMMA ApplyDueStep ==
  ASSUME TurnAssumption, TerminalInv, ApplyDue
  PROVE  TerminalInv'
<1> USE DEF TerminalInv
<1>1. /\ UNCHANGED <<streamVars, turnVars, word, made, composed, heard, shown>>
      /\ at = "apply" /\ at' = "drain" /\ Apply(due[1]) /\ due' = <<>>
  BY DEF ApplyDue, Goes
<1>2. CoreInv' /\ NothingTaken /\ News
  BY <1>1, StillMoves DEF turnVars
<1>3. PICK e \in Events : due = <<e>> /\ due[1] = e
  BY <1>1 DEF PlaceInv, TerminalTypes, Dues
<1>4. /\ thread' \in Seq(ThreadRows) /\ \A i \in DOMAIN thread' : thread'[i].pending => thread'[i].id = None
      /\ runs' \in [Turns -> {"none", "running", "settled"}] /\ turn' \in Turns \cup {None} /\ RunsSettle'
  BY <1>1, <1>3, ApplyThread, ApplyRuns DEF turnVars
<1>5. TerminalTypes'
  BY <1>1, <1>4 DEF TerminalTypes, TerminalTypeOK, Dues
<1>6. MadeInv' /\ PlaceInv' /\ HeldResets'
  BY <1>1 DEF MadeInv, PlaceInv, ResetInv, HeldResets, turnVars, streamVars
<1>7. QueuedResets' /\ DueReset'
  BY <1>1, <1>2, ResetsStay DEF ResetInv, TerminalTypes
<1>8. ThreadInv'
  <2>1. CASE RowsStay BY <2>1, <1>1, <1>2, ThreadStays
  <2>2. CASE e.kind = "reset" /\ e.talk = shown
    <3>1. ~lagged => AnnouncedAfter(0, shown) BY <2>2, <1>3 DEF ResetInv, DueReset
    <3> QED BY <3>1, <1>1 DEF ThreadInv, AnnouncedAfter, After, HeldFor, Final, turnVars, streamVars
  <2> QED BY <2>1, <2>2, <1>1, <1>3, ApplyThread
<1> QED BY <1>2, <1>4, <1>5, <1>6, <1>7, <1>8 DEF ResetInv

\* A turn goes on beside the frame.
LEMMA TurnBeside ==
  ASSUME TurnAssumption, TerminalInv, NEW t \in Turns, UNCHANGED terminalVars,
         Starts(t) \/ Registers(t) \/ Grows(t) \/ Ends(t) \/ Announces(t) \/ Returns(t) \/ Dies(t)
  PROVE  TerminalInv'
<1> USE DEF TerminalInv
<1>1. UNCHANGED <<word, made, at, composed, heard, due, expected, shown, thread, turn, runs>>
  BY DEF terminalVars, drainVars, screenVars, paneVars
<1>2. /\ CoreInv' /\ NothingTaken /\ News /\ talk' = talk
      /\ \A p \in Publishers : p # t \/ held' = held => held'[p] = held[p]
      /\ held'[t] # held[t] => held'[t] # <<>> /\ held'[t][1].event.kind # "reset"
  BY TurnMoves
<1>3. /\ phase[t] # "none" /\ \A u \in Turns : u # t => phase'[u] = phase[u]
      /\ \A c \in Conversations : c # talk[t] => stored'[c] = stored[c]
      /\ phase'[t] = "left" => t \in results'
      /\ \A u \in Turns : u \notin results' => u \notin results
  BY TurnElsewhere
<1>4. TerminalTypes' /\ PlaceInv'
  BY <1>1 DEF TerminalTypes, TerminalTypeOK, PlaceInv
<1>5. MadeInv'
  BY <1>1, <1>2, <1>3 DEF MadeInv
<1>6. HeldResets'
  <2>1. Turns \subseteq Publishers /\ Ui \in Publishers /\ Ui # t BY DEF TurnAssumption
  <2>2. held'[Ui] = held[Ui] /\ \A u \in Turns : u # t => held'[u] = held[u] BY <1>2, <2>1
  <2>3. \A u \in Turns : held'[u] # <<>> => held'[u][1].event.kind # "reset"
    BY <1>2, <2>1, <2>2 DEF ResetInv, HeldResets
  <2>4. ASSUME held[Ui] # <<>>, held[Ui][1].event.kind = "reset"
        PROVE  LET c == held[Ui][1].event.talk IN stored'[c] = <<>>
               /\ \A u \in Turns : talk[u] = c => phase'[u] = "none"
    <3>1. PICK c : c = held[Ui][1].event.talk OBVIOUS
    <3>2. stored[c] = <<>> /\ \A u \in Turns : talk[u] = c => phase[u] = "none"
      BY <2>4, <3>1 DEF ResetInv, HeldResets
    <3>3. c # talk[t] BY <3>2, <1>3
    <3>4. c \in Conversations
      <4>1. held[Ui][1].event \in Events
        BY <2>4, <2>1 DEF CoreInv, StreamInv, Slots, Envelopes
      <4> QED BY <4>1, <2>4, <3>1 DEF Events
    <3>5. stored'[c] = <<>> /\ \A u \in Turns : talk[u] = c => phase'[u] = "none"
      BY <3>2, <3>3, <3>4, <1>3
    <3> QED BY <3>1, <3>5
  <2> QED BY <2>2, <2>3, <2>4, <1>2 DEF HeldResets
<1>7. QueuedResets' /\ DueReset'
  BY <1>1, <1>2, ResetsStay DEF ResetInv, TerminalTypes
<1>8. ThreadInv'
  <2>1. RowsStay BY <1>1 DEF RowsStay
  <2> QED BY <2>1, <1>1, <1>2, ThreadStays
<1>9. RunsSettle'
  BY <1>1, <1>3 DEF RunsSettle
<1> QED BY <1>2, <1>4, <1>5, <1>6, <1>7, <1>8, <1>9 DEF ResetInv

\* Nothing is written and nothing is on its way at first.
LEMMA CoreInitially ==
  ASSUME CapacityAssumption, TurnAssumption, StreamInit, TurnInit
  PROVE  CoreInv
<1>1. Len(<<>>) = 0 /\ <<>> \in Seq(Envelopes) /\ <<>> \in Seq(Rows)
  OBVIOUS
<1>2. TurnTypeOK
  <2>1. Len(queue) <= Capacity BY <1>1, CapacityAssumption DEF StreamInit
  <2>2. seq \in Nat /\ lagged \in BOOLEAN BY DEF StreamInit
  <2>3. phase \in [Turns -> Phases] /\ talk \in [Turns -> Conversations] BY DEF TurnInit, TurnAssumption, Phases
  <2> QED BY <2>1, <2>2, <2>3 DEF TurnTypeOK, TurnInit
<1>3. StreamInv
  BY <1>1 DEF StreamInv, StreamInit, Slots
<1>4. RowsInv
  BY <1>1 DEF RowsInv, TurnInit
<1> QED BY <1>2, <1>3, <1>4 DEF CoreInv

\* The terminal starts with nothing written and nothing on its way.
LEMMA TerminalInitially ==
  ASSUME CapacityAssumption, TurnAssumption, StreamInit, TurnInit, TerminalInit
  PROVE  TerminalInv
<1>1. CoreInv
  BY CoreInitially
<1>2. TerminalTypes
  BY DEF TerminalTypes, TerminalTypeOK, TerminalInit, TurnAssumption, Dues
<1>3. MadeInv /\ PlaceInv /\ RunsSettle
  BY DEF MadeInv, PlaceInv, RunsSettle, TerminalInit, TurnInit
<1>4. ResetInv /\ ThreadInv
  BY DEF ResetInv, HeldResets, QueuedResets, DueReset, ThreadInv, TerminalInit, TurnInit, StreamInit,
      TurnAssumption
<1> QED BY <1>1, <1>2, <1>3, <1>4 DEF TerminalInv

\* Every step of the terminal and of the turns beside it.
LEMMA TerminalStep ==
  ASSUME TerminalInv, [TerminalNext]_<<streamVars, turnVars, terminalVars>>
  PROVE  TerminalInv'
<1> USE CapacityAssumption, TurnAssumption
<1>1. CASE Command
  <2>1. CASE UiSends
    <3>1. Ui \in Publishers BY DEF TurnAssumption
    <3> QED BY <2>1, <3>1, SendsStep DEF UiSends
  <2> QED BY <1>1, <2>1, SteerStep, RecordSteerStep, RecordStep, TellSteerStep, PressEnterStep, SpawnStep,
          PressNewStep,
             PressSwitchStep DEF Command
<1>2. CASE PollJobs \/ Drain \/ DrainLag \/ DrainEmpty \/ Reread \/ ApplyDue
  BY <1>2, PollJobsStep, DrainStep, DrainLagStep, DrainEmptyStep, RereadStep, ApplyDueStep
<1>3. CASE \E t \in Turns : TurnStep(t) /\ UNCHANGED terminalVars
  <2>1. PICK t \in Turns : TurnStep(t) /\ UNCHANGED terminalVars BY <1>3
  <2>2. CASE Sends(t)
    <3>1. t \in Publishers BY DEF TurnAssumption
    <3> QED BY <2>1, <2>2, <3>1, SendsStep DEF Sends
  <2> QED BY <2>1, <2>2, TurnBeside DEF TurnStep
<1>4. CASE UNCHANGED <<streamVars, turnVars, terminalVars>>
  <2>1. UNCHANGED <<word, made, at, composed, heard, due, expected, shown, thread, turn, runs>>
    BY <1>4 DEF terminalVars, drainVars, screenVars, paneVars
  <2>2. CoreInv' /\ NothingTaken /\ News
    BY <1>4, StillMoves DEF TerminalInv, turnVars
  <2>3. TerminalTypes' /\ MadeInv' /\ PlaceInv' /\ RunsSettle' /\ HeldResets'
    BY <1>4, <2>1 DEF TerminalInv, TerminalTypes, TerminalTypeOK, MadeInv, PlaceInv, RunsSettle, ResetInv,
        HeldResets,
                      turnVars, streamVars
  <2>4. QueuedResets' /\ DueReset'
    BY <2>1, <2>2, ResetsStay DEF ResetInv, TerminalTypes, TerminalInv
  <2>5. ThreadInv'
    <3>1. RowsStay BY <2>1 DEF RowsStay
    <3> QED BY <3>1, <2>1, <2>2, ThreadStays DEF TerminalInv
  <2> QED BY <2>2, <2>3, <2>4, <2>5 DEF TerminalInv, ResetInv
<1> QED BY <1>1, <1>2, <1>3, <1>4 DEF TerminalNext, Frame

\* The inductive invariant of the terminal: where each final row is, and where the frame is.
THEOREM TerminalInvariant == TerminalSpec => []TerminalInv
<1>1. StreamInit /\ TurnInit /\ TerminalInit => TerminalInv
  BY CapacityAssumption, TurnAssumption, TerminalInitially
<1>2. TerminalInv /\ [TerminalNext]_<<streamVars, turnVars, terminalVars>> => TerminalInv'
  BY TerminalStep
<1> QED BY <1>1, <1>2, PTL DEF TerminalSpec

\* Between frames nothing is on its way, so a row the invariant speaks of is in the thread.
LEMMA TerminalIsWhole ==
  ASSUME TerminalInv
  PROVE  NothingIsMissing
<1> SUFFICES ASSUME at = "keys", Quiet, NEW i \in DOMAIN stored[shown], Told(stored[shown][i])
             PROVE  InThread(stored[shown][i])
  BY DEF NothingIsMissing
<1>1. ~lagged /\ queue = <<>> /\ \A p \in Publishers : held[p] = <<>>
  BY DEF Quiet, Empty
<1>2. Final(stored[shown][i])
  BY DEF Told, Final
<1>3. ~After(0, stored[shown][i], shown)
  BY <1>1 DEF After, HeldFor
<1> QED BY <1>1, <1>2, <1>3 DEF TerminalInv, ThreadInv

\* run.rs ("a thread missing one line is worse than one read again"), for any turns, sentences and
\* conversations and a channel of any capacity: between two frames with nothing on its way, every
\* announced row of the conversation on screen is in the thread.
THEOREM TerminalMissesNothing == TerminalSpec => []NothingIsMissing
BY TerminalInvariant, TerminalIsWhole, PTL

\* run.rs, steer ("What the user typed is not lost: it becomes the next turn"): a sentence that left
\* the composer was given to a turn.
THEOREM TypedIsNotLost == TerminalSpec => []TypedReachesATurn
<1>1. TerminalInv => TypedReachesATurn
  BY DEF TerminalInv, PlaceInv, TypedReachesATurn
<1> QED BY <1>1, TerminalInvariant, PTL

\* run.rs, finish_run: the pane's run is live, and a run whose job has reported is settled, whether
\* or not its turn published an ending.
THEOREM RunsComeToRest == TerminalSpec => []RunsSettle
<1>1. TerminalInv => RunsSettle
  BY DEF TerminalInv
<1> QED BY <1>1, TerminalInvariant, PTL

-----------------------------------------------------------------------------
(* The window's thread. *)

Wires == [seq : Nat, event : Events \cup {Gap}]
CallRecords ==
  [kind : {"boot", "list", "load", "send", "steer"},
   at : {"asked", "runs", "recorded", "posted", "told", "answered", "accepted", "failed"},
   talk : Conversations \cup {None}, sentence : Typed \cup {None}, runs : SUBSET Turns, rows : Seq(Rows),
   run : Turns \cup {None}]
Calls ==
  {c \in CallRecords :
     /\ c.kind \in {"load", "send", "steer"} \/ (c.kind = "boot" /\ c.at = "answered") => c.talk \in Conversations
     /\ c.kind \in {"send", "steer"} => c.sentence \in Typed
     /\ c.kind = "steer" \/ (c.kind = "send" /\ c.at = "answered") => c.run \in Turns}

WindowTypes ==
  /\ WindowTypeOK /\ wire \in Seq(Wires) /\ delivered \in Nat /\ messages \in Seq(Rows) /\ calls \in Seq(Calls)

\* The window knows, or is about to be told, that it may have missed something.
Unsure == lagged \/ needsBootstrap \/ \E i \in DOMAIN wire : wire[i].event = Gap

\* A final row of the conversation on screen is in the thread, or on its way to it, or was kept off
\* it by a late snapshot.
WholeInv ==
  active # None /\ ~Unsure =>
    \A i \in DOMAIN stored[active] : Final(stored[active][i]) =>
      stored[active][i].id \in Ids(messages) \cup overtaken \cup Brought(active)

WindowInv == CoreInv /\ WindowTypes /\ WholeInv

Says(e, x, c) == e.kind = "message" /\ e.talk = c /\ e.row.id = x
Brings(x, c) ==
  \/ \E p \in Publishers : held[p] # <<>> /\ Says(held[p][1].event, x, c)
  \/ \E j \in DOMAIN queue : Says(queue[j].event, x, c)
  \/ \E j \in DOMAIN wire : Says(wire[j].event, x, c)

\* What is brought is what some envelope on its way says.
LEMMA BroughtIs ==
  ASSUME NEW x, NEW c
  PROVE  x \in Brought(c) <=> Brings(x, c)
BY DEF Brought, Brings, Says, Coming

\* The same, a step later.
LEMMA BroughtThen ==
  ASSUME NEW x, NEW c
  PROVE  x \in Brought(c)' <=> Brings(x, c)'
BY DEF Brought, Brings, Says, Coming

\* A thread that keeps its rows, and whose messages stay on their way, stays whole.
LEMMA StaysWhole ==
  ASSUME CoreInv, WindowTypes, WholeInv, News, active' = active, overtaken' = overtaken,
         Unsure => Unsure' , Ids(messages) \subseteq Ids(messages'),
         \A x : Brings(x, active) => Brings(x, active)' \/ Unsure' \/ x \in Ids(messages')
  PROVE  WholeInv'
<1> SUFFICES ASSUME active # None, ~Unsure', NEW i \in DOMAIN stored'[active], Final(stored[active][i])'
             PROVE  stored'[active][i].id \in Ids(messages') \cup overtaken \cup Brought(active)'
  BY DEF WholeInv, Ids, Brought, Coming
<1>1. active \in Conversations
  BY DEF WindowTypes, WindowTypeOK
<1>2. PICK x : x = stored'[active][i].id
  OBVIOUS
<1>3. CASE HeldFor(stored[active][i], active)'
  <2>1. Brings(x, active)' BY <1>2, <1>3 DEF HeldFor, Carries, Brings, Says
  <2> QED BY <2>1, <1>2, BroughtThen
<1>4. CASE i \in DOMAIN stored[active] /\ stored'[active][i] = stored[active][i] /\ Final(stored[active][i])
  <2>1. x \in Ids(messages) \cup overtaken \cup Brought(active)
    BY <1>2, <1>4 DEF WholeInv
  <2>2. Brings(x, active) => Brings(x, active)' \/ x \in Ids(messages')
    OBVIOUS
  <2> QED BY <2>1, <2>2, <1>2, BroughtIs, BroughtThen
<1> QED BY <1>1, <1>3, <1>4 DEF News

\* A thread that is replaced by a snapshot is whole, with what the snapshot overtook.
LEMMA ReplacedIsWhole ==
  ASSUME CoreInv, NEW c \in Conversations, NEW rows, active' = c, messages' = rows,
         overtaken' = overtaken \cup Gone(c, rows), UNCHANGED <<streamVars, turnVars, wire>>
  PROVE  WholeInv'
<1> SUFFICES ASSUME NEW i \in DOMAIN stored[c]
             PROVE  stored[c][i].id \in Ids(rows) \cup overtaken' \cup Brought(c)
  BY DEF WholeInv, Ids, Brought, Coming, streamVars, turnVars
<1>1. stored[c][i].id \in Ids(stored[c])
  BY DEF Ids
<1> QED BY <1>1 DEF Gone

\* What the stream brings, it still brings when nothing is taken from it,
LEMMA StillBrought ==
  ASSUME NothingTaken, wire' = wire, NEW x, NEW c, Brings(x, c)
  PROVE  Brings(x, c)'
BY DEF NothingTaken, Brings

\* when an envelope is sent, unless one is dropped,
LEMMA SentIsBrought ==
  ASSUME CapacityAssumption, CoreInv, NEW p \in Publishers, Send(p), wire' = wire, NEW x, NEW c, Brings(x, c)
  PROVE  Brings(x, c)' \/ lagged'
<1>1. PICK d \in {0, 1} :
        /\ d <= Len(queue) /\ Len(queue') = Len(queue) + 1 - d
        /\ d = 1 => lagged'
        /\ d = 0 => lagged' = lagged
        /\ \A i \in 1..(Len(queue) - d) : queue'[i] = queue[i + d]
        /\ queue'[Len(queue')] = held[p][1]
  BY SendStep DEF CoreInv, TurnTypeOK
<1>2. held[p] # <<>> /\ held'[p] = <<>> /\ (\A q \in Publishers \ {p} : held'[q] = held[q]) /\ StreamInv'
  BY SendStep DEF CoreInv, TurnTypeOK
<1>3. DOMAIN queue = 1..Len(queue) /\ Len(queue) \in Nat /\ DOMAIN queue' = 1..Len(queue')
  BY <1>2, LenProperties DEF CoreInv, StreamInv
<1>4. CASE d = 0
  <2>1. CASE \E q \in Publishers : held[q] # <<>> /\ Says(held[q][1].event, x, c)
    <3>1. PICK q \in Publishers : held[q] # <<>> /\ Says(held[q][1].event, x, c) BY <2>1
    <3>2. CASE q = p
      <4>1. Len(queue') \in DOMAIN queue' /\ queue'[Len(queue')] = held[q][1] BY <3>2, <1>1, <1>3, <1>4
      <4> QED BY <4>1, <3>1 DEF Brings
    <3>3. CASE q # p BY <3>1, <3>3, <1>2 DEF Brings
    <3> QED BY <3>2, <3>3
  <2>2. CASE \E j \in DOMAIN queue : Says(queue[j].event, x, c)
    <3>1. PICK j \in DOMAIN queue : Says(queue[j].event, x, c) BY <2>2
    <3>2. j \in DOMAIN queue' /\ queue'[j] = queue[j] BY <1>1, <1>3, <1>4
    <3> QED BY <3>1, <3>2 DEF Brings
  <2>3. CASE \E j \in DOMAIN wire : Says(wire[j].event, x, c) BY <2>3 DEF Brings
  <2> QED BY <2>1, <2>2, <2>3 DEF Brings
<1> QED BY <1>1, <1>4

\* An envelope is forwarded to the webview.
LEMMA ForwardsStep ==
  ASSUME CapacityAssumption, WindowInv, Forwards
  PROVE  WindowInv'
<1> USE DEF WindowInv
<1>1. /\ UNCHANGED <<turnVars, lastSeq, needsBootstrap, active, messages, listStale, overtaken, records,
             order, names, calls, unsent>>
      /\ Receive /\ wire' = Append(wire, Head(queue)) /\ delivered' = Head(queue).seq
  BY DEF Forwards, syncVars, threadVars, recordVars
<1>2. /\ StreamInv /\ StreamInv' /\ Len(queue') = Len(queue) - 1 /\ Len(queue) \in Nat \ {0} /\ held' = held
      /\ Head(queue) = queue[1] /\ queue[1] \in Envelopes /\ ~lagged /\ ~lagged'
      /\ \A i \in 1..(Len(queue) - 1) : queue'[i] = queue[i + 1]
  BY <1>1, ReceiveStep DEF CoreInv
<1>3. CoreInv'
  BY <1>1, ReceiveMoves
<1>4. queue[1] \in Wires /\ queue[1].seq \in Nat
  BY <1>2 DEF Envelopes, Wires
<1> HIDE DEF Wires
<1>5. /\ wire' \in Seq(Wires) /\ Len(wire) \in Nat /\ DOMAIN wire = 1..Len(wire)
         /\ DOMAIN wire' = 1..(Len(wire) + 1)
      /\ \A i \in 1..Len(wire) : wire'[i] = wire[i]
      /\ wire'[Len(wire) + 1] = queue[1]
  BY <1>1, <1>2, <1>4, AppendProperties, LenProperties DEF WindowTypes
<1>6. WindowTypes'
  BY <1>1, <1>2, <1>4, <1>5 DEF WindowTypes, WindowTypeOK, Ids
<1>7. News
  BY <1>1 DEF News, Final, turnVars
<1>8. Unsure => Unsure'
  BY <1>1, <1>2, <1>5 DEF Unsure
<1>9. DOMAIN queue = 1..Len(queue) /\ DOMAIN queue' = 1..Len(queue')
  BY <1>2, LenProperties DEF StreamInv
<1>10. ASSUME NEW x, Brings(x, active) PROVE Brings(x, active)'
  <2>1. CASE \E q \in Publishers : held[q] # <<>> /\ Says(held[q][1].event, x, active)
    BY <2>1, <1>1, <1>2 DEF Brings
  <2>2. CASE \E j \in DOMAIN queue : Says(queue[j].event, x, active)
    <3>1. PICK j \in DOMAIN queue : Says(queue[j].event, x, active) BY <2>2
    <3>2. CASE j = 1
      <4>1. Len(wire) + 1 \in DOMAIN wire' /\ wire'[Len(wire) + 1] = queue[j] BY <3>2, <1>5
      <4> QED BY <4>1, <3>1, <1>1 DEF Brings
    <3>3. CASE j # 1
      <4>1. j - 1 \in 1..(Len(queue) - 1) /\ j - 1 \in DOMAIN queue' /\ (j - 1) + 1 = j BY <3>3, <1>2, <1>9
      <4>2. queue'[j - 1] = queue[j] BY <4>1, <1>2
      <4> QED BY <4>1, <4>2, <3>1, <1>1 DEF Brings
    <3> QED BY <3>2, <3>3
  <2>3. CASE \E j \in DOMAIN wire : Says(wire[j].event, x, active)
    <3>1. PICK j \in DOMAIN wire : Says(wire[j].event, x, active) BY <2>3
    <3>2. j \in DOMAIN wire' /\ wire'[j] = wire[j] BY <1>5
    <3> QED BY <3>1, <3>2, <1>1 DEF Brings
  <2> QED BY <2>1, <2>2, <2>3, <1>10 DEF Brings
<1>11. WholeInv'
  BY <1>1, <1>7, <1>8, <1>10, StaysWhole DEF Ids
<1> QED BY <1>3, <1>6, <1>11

\* A drop is passed on as a gap.
LEMMA ForwardsGapStep ==
  ASSUME WindowInv, ForwardsGap
  PROVE  WindowInv'
<1> USE DEF WindowInv
<1> DEFINE gap == [seq |-> delivered, event |-> Gap]
<1>1. /\ UNCHANGED <<turnVars, seq, held, queue, delivered, needsBootstrap, active, messages, overtaken,
             records, order,
                     names, calls, unsent>>
      /\ lagged' = FALSE /\ wire' = Append(wire, gap)
  BY DEF ForwardsGap, Lagged, syncVars, threadVars, recordVars
<1>2. gap \in Wires /\ gap.event = Gap
  BY DEF Wires, WindowTypes
<1> HIDE DEF Wires, gap
<1>3. /\ wire' \in Seq(Wires) /\ Len(wire) \in Nat /\ DOMAIN wire' = 1..(Len(wire) + 1)
         /\ wire'[Len(wire) + 1] = gap
  BY <1>1, <1>2, AppendProperties, LenProperties DEF WindowTypes
<1>4. CoreInv'
  BY <1>1 DEF CoreInv, TurnTypeOK, StreamInv, RowsInv, turnVars
<1>5. WindowTypes'
  BY <1>1, <1>3 DEF WindowTypes, WindowTypeOK, Ids
<1>6. Unsure'
  <2>1. Len(wire) + 1 \in DOMAIN wire' BY <1>3
  <2> QED BY <2>1, <1>2, <1>3 DEF Unsure
<1> QED BY <1>4, <1>5, <1>6 DEF WholeInv

\* What follows one envelope keeps the records' types.
LEMMA FollowTypes ==
  ASSUME WindowTypes, NEW e \in Events \cup {Gap}, Follow(e)
  PROVE  /\ records' \in [Turns -> {"none", "running", "ended"}] /\ order' \in Seq(Turns)
         /\ names' \in [Turns -> Conversations \cup {None}]
<1>1. /\ records \in [Turns -> {"none", "running", "ended"}] /\ order \in Seq(Turns)
      /\ names \in [Turns -> Conversations \cup {None}]
  BY DEF WindowTypes, WindowTypeOK
<1>2. CASE e.kind \in {"started", "steered", "finished"}
  <2>1. e.run \in Turns /\ (e.kind = "started" => e.talk \in Conversations)
    BY <1>2 DEF Events, Gap
  <2>2. Listed(e.run) \in Seq(Turns)
    <3>1. <<e.run>> \in Seq(Turns) BY <2>1
    <3> QED BY <3>1, <1>1, ConcatProperties DEF Listed
  <2>3. Ensured(e.run) \in [Turns -> {"none", "running", "ended"}]
    BY <1>1, <2>1 DEF Ensured
  <2> QED BY <1>1, <1>2, <2>1, <2>2, <2>3 DEF Follow
<1>3. CASE e.kind \notin {"started", "steered", "finished"}
  BY <1>1, <1>3 DEF Follow, recordVars
<1> QED BY <1>2, <1>3

\* A call that is asked.
LEMMA CallIs ==
  ASSUME NEW c \in Conversations \cup {None}, NEW m \in Typed \cup {None}
  PROVE  /\ Call("boot", None, None) \in Calls /\ Call("list", None, None) \in Calls
         /\ c # None => Call("load", c, None) \in Calls
         /\ c # None /\ m # None => Call("send", c, m) \in Calls
         /\ c # None /\ m # None => \A t \in Turns : [Call("steer", c, m) EXCEPT !.run = t] \in Calls
<1>1. <<>> \in Seq(Rows) /\ {} \in SUBSET Turns
  OBVIOUS
<1> QED BY <1>1 DEF Calls, CallRecords, Call

\* An envelope is applied, and repaired after.
LEMMA AppliesStep ==
  ASSUME TurnAssumption, WindowInv, Applies
  PROVE  WindowInv'
<1> USE DEF WindowInv
<1> DEFINE e == wire[1].event
<1>1. /\ UNCHANGED <<streamVars, turnVars, delivered, unsent, active, overtaken>>
      /\ wire # <<>> /\ wire' = Tail(wire) /\ Sync(Head(wire)) /\ Converse(Head(wire).event)
         /\ Follow(Head(wire).event)
  BY DEF Applies, Converse
<1>2. PICK repair \in {<<>>, <<Call("boot", None, None)>>, <<Call("list", None, None)>>} :
        Len(calls) + Len(repair) <= MaxCalls /\ calls' = calls \o repair
  BY DEF Applies
<1> HIDE DEF Wires
<1>3. /\ Head(wire) \in Wires /\ Head(wire) = wire[1] /\ Tail(wire) \in Seq(Wires)
         /\ Len(Tail(wire)) = Len(wire) - 1
      /\ \A i \in 1..Len(Tail(wire)) : Tail(wire)[i] = wire[i + 1]
      /\ Len(wire) \in Nat \ {0} /\ DOMAIN wire = 1..Len(wire) /\ DOMAIN Tail(wire) = 1..(Len(wire) - 1)
  BY <1>1, HeadTailProperties, LenProperties, EmptySeq DEF WindowTypes
<1>4. e \in Events \cup {Gap} /\ e = Head(wire).event
  BY <1>3 DEF Wires
<1>5. CoreInv' /\ NothingTaken /\ News
  BY <1>1, StillMoves DEF turnVars
<1> HIDE DEF e
<1>6. calls' \in Seq(Calls) /\ Len(calls') <= MaxCalls
  <2>1. repair \in Seq(Calls)
    <3>1. Call("boot", None, None) \in Calls /\ Call("list", None, None) \in Calls BY CallIs
    <3>2. PICK b, l : b = Call("boot", None, None) /\ l = Call("list", None, None) OBVIOUS
    <3> HIDE DEF Calls
    <3>3. b \in Calls /\ l \in Calls BY <3>1, <3>2
    <3>4. <<>> \in Seq(Calls) /\ <<b>> \in Seq(Calls) /\ <<l>> \in Seq(Calls) BY <3>3
    <3>5. repair \in {<<>>, <<b>>, <<l>>} BY <1>2, <3>2
    <3> QED BY <3>4, <3>5
  <2>2. calls \in Seq(Calls) BY DEF WindowTypes
  <2> HIDE DEF Calls
  <2> QED BY <2>1, <2>2, <1>2, ConcatProperties
<1>7. /\ messages' \in Seq(Rows) /\ Ids(messages) \subseteq Ids(messages')
      /\ e.kind = "message" /\ e.talk = active => e.row.id \in Ids(messages')
      /\ Ids(messages') \subseteq Typed \cup Turns
  <2>1. messages \in Seq(Rows) /\ DOMAIN messages = 1..Len(messages) /\ Len(messages) \in Nat
    BY LenProperties DEF WindowTypes
  <2>2. CASE messages' = messages /\ (e.kind = "message" /\ e.talk = active => e.row.id \in Ids(messages))
    BY <2>2 DEF WindowTypes, WindowTypeOK, Ids
  <2>3. CASE e.kind = "message" /\ messages' = Append(messages, e.row)
    <3>1. e.row \in Rows BY <2>3, <1>4 DEF Events, Gap
    <3>2. /\ messages' \in Seq(Rows) /\ DOMAIN messages' = 1..(Len(messages) + 1)
          /\ \A i \in 1..Len(messages) : messages'[i] = messages[i]
          /\ messages'[Len(messages) + 1] = e.row
      <4> HIDE DEF Rows
      <4> QED BY <2>1, <2>3, <3>1, AppendProperties, LenProperties
    <3>3. \A i \in DOMAIN messages' : messages'[i] \in Rows
      BY <3>2, ElementOfSeq, LenProperties
    <3>4. \A r \in Rows : r.id \in Typed \cup Turns
      BY DEF Rows
    <3>5. Len(messages) + 1 \in DOMAIN messages' BY <3>2, <2>1
    <3> QED BY <2>1, <3>2, <3>3, <3>4, <3>5 DEF Ids
  <2> QED BY <2>2, <2>3, <1>1, <1>4 DEF Converse
<1>8. WindowTypes'
  <2>1. /\ records' \in [Turns -> {"none", "running", "ended"}] /\ order' \in Seq(Turns)
        /\ names' \in [Turns -> Conversations \cup {None}]
    BY <1>1, <1>4, FollowTypes
  <2> QED BY <1>1, <1>3, <1>6, <1>7, <2>1 DEF WindowTypes, WindowTypeOK
<1>9. Unsure => Unsure'
  <2>1. CASE lagged BY <2>1, <1>1 DEF Unsure, streamVars
  <2>2. CASE needsBootstrap \/ e = Gap BY <2>2, <1>1, <1>4 DEF Unsure, Sync
  <2>3. CASE e # Gap /\ \E i \in DOMAIN wire : wire[i].event = Gap
    <3>1. PICK i \in DOMAIN wire : wire[i].event = Gap BY <2>3
    <3>2. i # 1 BY <3>1, <2>3 DEF e
    <3>3. i - 1 \in 1..(Len(wire) - 1) /\ (i - 1) + 1 = i BY <3>1, <3>2, <1>3
    <3>4. i - 1 \in DOMAIN wire' /\ wire'[i - 1] = wire[i] BY <3>3, <1>1, <1>3
    <3> QED BY <3>1, <3>4 DEF Unsure
  <2> QED BY <2>1, <2>2, <2>3 DEF Unsure
<1>10. ASSUME NEW x, Brings(x, active) PROVE Brings(x, active)' \/ x \in Ids(messages')
  <2>1. CASE \E q \in Publishers : held[q] # <<>> /\ Says(held[q][1].event, x, active)
    BY <2>1, <1>1 DEF Brings, streamVars
  <2>2. CASE \E j \in DOMAIN queue : Says(queue[j].event, x, active)
    BY <2>2, <1>1 DEF Brings, streamVars
  <2>3. CASE \E j \in DOMAIN wire : Says(wire[j].event, x, active)
    <3>1. PICK j \in DOMAIN wire : Says(wire[j].event, x, active) BY <2>3
    <3>2. CASE j = 1 BY <3>1, <3>2, <1>7 DEF Says, e
    <3>3. CASE j # 1
      <4>1. j - 1 \in 1..(Len(wire) - 1) /\ (j - 1) + 1 = j BY <3>1, <3>3, <1>3
      <4>2. j - 1 \in DOMAIN wire' /\ wire'[j - 1] = wire[j] BY <4>1, <1>1, <1>3
      <4> QED BY <3>1, <4>2, <1>1 DEF Brings
    <3> QED BY <3>2, <3>3
  <2> QED BY <2>1, <2>2, <2>3, <1>10 DEF Brings
<1>11. WholeInv'
  BY <1>1, <1>5, <1>7, <1>9, <1>10, StaysWhole
<1> QED BY <1>5, <1>8, <1>11

\* What a step beside the thread leaves as it was: only calls, runs and sentences may change.
ThreadStill == UNCHANGED <<wire, delivered, active, messages, overtaken, lastSeq, needsBootstrap>>

\* A step beside the thread, which takes nothing from the stream.
LEMMA BesideThread ==
  ASSUME WindowInv, CoreInv', NothingTaken, News, ThreadStill, calls' \in Seq(Calls), Len(calls') <= MaxCalls,
         records' \in [Turns -> {"none", "running", "ended"}], order' \in Seq(Turns),
         names' \in [Turns -> Conversations \cup {None}], unsent' \subseteq Typed
  PROVE  WindowInv'
<1> USE DEF WindowInv, ThreadStill
<1>1. WindowTypes'
  BY DEF WindowTypes, WindowTypeOK, Ids
<1>2. Unsure => Unsure'
  BY DEF Unsure, NothingTaken
<1>3. WholeInv'
  BY <1>2, StillBrought, StaysWhole DEF Ids
<1> QED BY <1>1, <1>3

\* A command that is served.
LEMMA ServesStep ==
  ASSUME WindowInv, NEW i \in DOMAIN calls, NEW from, NEW c \in Calls, Serves(i, from, c)
  PROVE  calls' \in Seq(Calls) /\ Len(calls') <= MaxCalls
<1>1. calls \in Seq(Calls) /\ Len(calls) <= MaxCalls
  BY DEF WindowInv, WindowTypes, WindowTypeOK
<1> HIDE DEF Calls
<1>2. i \in 1..Len(calls)
  BY <1>1, LenProperties
<1>3. /\ [calls EXCEPT ![i] = c] \in Seq(Calls)
      /\ Len([calls EXCEPT ![i] = c]) = Len(calls)
  BY <1>1, <1>2, ExceptSeq
<1> QED BY <1>1, <1>3 DEF Serves

\* An answer that is heard.
LEMMA DoneStep ==
  ASSUME WindowInv, NEW i \in DOMAIN calls, Done(i)
  PROVE  calls' \in Seq(Calls) /\ Len(calls') <= MaxCalls
<1>1. calls \in Seq(Calls) /\ Len(calls) <= MaxCalls
  BY DEF WindowInv, WindowTypes, WindowTypeOK
<1> HIDE DEF Calls
<1>2. i \in 1..Len(calls) /\ Len(calls) \in Nat
  BY <1>1, LenProperties
<1>3. RemoveAt(calls, i) \in Seq(Calls) /\ Len(RemoveAt(calls, i)) = Len(calls) - 1
  BY <1>1, <1>2, RemoveAtIs
<1>4. MaxCalls \in Nat
  BY CallsAssumption
<1> QED BY <1>1, <1>2, <1>3, <1>4 DEF Done

\* A command on its way is of its kind.
LEMMA CallOf ==
  ASSUME WindowInv, NEW i \in DOMAIN calls
  PROVE  calls[i] \in Calls
<1>1. calls \in Seq(Calls)
  BY DEF WindowInv, WindowTypes
<1> HIDE DEF Calls
<1> QED BY <1>1, ElementOfSeq, LenProperties

\* The run a sentence of this thread steers is one the window knows.
LEMMA CurrentIs ==
  ASSUME WindowTypes
  PROVE  Current \in Turns \cup {None}
<1> DEFINE here == {i \in DOMAIN order : names[order[i]] = active}
<1>1. order \in Seq(Turns) /\ DOMAIN order = 1..Len(order) /\ Len(order) \in Nat
  BY LenProperties DEF WindowTypes, WindowTypeOK
<1>2. CASE here # {}
  <2>1. here \in SUBSET Nat /\ here \subseteq DOMAIN order BY <1>1
  <2>2. PICK k : k = CHOOSE i \in here : \A j \in here : i <= j OBVIOUS
  <2>3. k \in here
    <3> HIDE DEF here
    <3>1. \E i \in here : \A j \in here : i <= j BY <2>1, <1>2, Least
    <3> QED BY <3>1, <2>2
  <2>4. order[k] \in Turns BY <2>1, <2>3, <1>1, ElementOfSeq
  <2> QED BY <1>2, <2>2, <2>4 DEF Current
<1> QED BY <1>2 DEF Current

\* The user sends a sentence.
LEMMA PressSendStep ==
  ASSUME TurnAssumption, WindowInv, NEW m \in Typed, PressSend(m)
  PROVE  WindowInv'
<1>1. /\ UNCHANGED <<stored, phase, talk, registry, results, streamVars, records, order, names>> /\ ThreadStill
      /\ active # None /\ Len(calls) < MaxCalls /\ unsent' = unsent \ {m}
  BY DEF PressSend, turnVars, syncVars, threadVars, recordVars, ThreadStill
<1>2. PICK c : calls' = Append(calls, c)
           /\ c \in {Call("send", active, m), [Call("steer", active, m) EXCEPT !.run = Current]}
                 /\ (c = Call("send", active, m) \/ Current # None)
  BY DEF PressSend, Asked, Steers
<1>3. active \in Conversations /\ m # None /\ Current \in Turns \cup {None}
  BY <1>1, CurrentIs DEF WindowInv, WindowTypes, WindowTypeOK, TurnAssumption
<1>4. c \in Calls
  BY <1>1, <1>2, <1>3, CallIs
<1>5. calls' \in Seq(Calls) /\ Len(calls') <= MaxCalls
  <2>1. calls \in Seq(Calls) BY DEF WindowInv, WindowTypes
  <2> HIDE DEF Calls
  <2>2. Append(calls, c) \in Seq(Calls) /\ Len(Append(calls, c)) = Len(calls) + 1 /\ Len(calls) \in Nat
    BY <2>1, <1>4, AppendProperties, LenProperties
  <2> QED BY <2>2, <1>1, <1>2, CallsAssumption
<1>6. CoreInv' /\ NothingTaken /\ News
  BY <1>1, StillMoves DEF WindowInv
<1> QED BY <1>1, <1>5, <1>6, BesideThread DEF WindowInv, WindowTypes, WindowTypeOK

\* The user selects another conversation.
LEMMA PressSelectStep ==
  ASSUME TurnAssumption, WindowInv, NEW c \in Conversations, PressSelect(c)
  PROVE  WindowInv'
<1>1. /\ UNCHANGED <<stored, phase, talk, registry, results, streamVars, records, order, names, unsent>>
         /\ ThreadStill
      /\ Len(calls) < MaxCalls /\ calls' = Append(calls, Call("load", c, None))
  BY DEF PressSelect, Asked, turnVars, syncVars, threadVars, recordVars, ThreadStill
<1>2. Call("load", c, None) \in Calls
  BY CallIs DEF TurnAssumption
<1>3. PICK call : call = Call("load", c, None)
  OBVIOUS
<1>4. calls' \in Seq(Calls) /\ Len(calls') <= MaxCalls
  <2>1. calls \in Seq(Calls) BY DEF WindowInv, WindowTypes
  <2> HIDE DEF Calls
  <2>2. Append(calls, call) \in Seq(Calls) /\ Len(Append(calls, call)) = Len(calls) + 1 /\ Len(calls) \in Nat
    BY <2>1, <1>2, <1>3, AppendProperties, LenProperties
  <2> QED BY <2>2, <1>1, <1>3, CallsAssumption
<1>5. CoreInv' /\ NothingTaken /\ News
  BY <1>1, StillMoves DEF WindowInv
<1> QED BY <1>1, <1>4, <1>5, BesideThread DEF WindowInv, WindowTypes, WindowTypeOK

\* The webview is loaded again.
LEMMA ReloadStep ==
  ASSUME WindowInv, Reload
  PROVE  WindowInv'
<1>1. /\ UNCHANGED <<stored, phase, talk, registry, results, streamVars, delivered, unsent>>
      /\ wire' = <<>> /\ active' = None /\ messages' = <<>> /\ calls' = <<Call("boot", None, None)>>
      /\ records' = [t \in Turns |-> "none"] /\ order' = <<>> /\ names' = [t \in Turns |-> None]
  BY DEF Reload, turnVars
<1>2. CoreInv'
  BY <1>1, StillMoves DEF WindowInv
<1>3. calls' \in Seq(Calls) /\ Len(calls') <= MaxCalls
  <2>1. PICK b \in Calls : b = Call("boot", None, None) BY CallIs
  <2> HIDE DEF Calls
  <2>2. <<b>> \in Seq(Calls) /\ Len(<<b>>) = 1 OBVIOUS
  <2> QED BY <2>1, <2>2, <1>1, CallsAssumption
<1>4. WindowTypes'
  <2>1. <<>> \in Seq(Wires) /\ <<>> \in Seq(Rows) /\ <<>> \in Seq(Turns) /\ Ids(<<>>) = {} BY DEF Ids
  <2>2. Ids(messages)' = {} BY <2>1, <1>1 DEF Ids
  <2> QED BY <2>1, <2>2, <1>1, <1>3 DEF WindowInv, WindowTypes, WindowTypeOK
<1>5. WholeInv'
  BY <1>1 DEF WholeInv
<1> QED BY <1>2, <1>4, <1>5 DEF WindowInv

\* A held envelope is sent.
LEMMA SendsBeside ==
  ASSUME CapacityAssumption, WindowInv, NEW p \in Publishers, Send(p), UNCHANGED <<turnVars, windowVars>>
  PROVE  WindowInv'
<1> USE DEF WindowInv
<1>1. /\ UNCHANGED <<wire, delivered, lastSeq, needsBootstrap, active, messages, listStale, overtaken,
             records, order, names,
                     calls, busy, unsent>>
      /\ UNCHANGED <<stored, phase>>
  BY DEF windowVars, syncVars, threadVars, recordVars, turnVars
<1>2. CoreInv'
  BY SendMoves
<1>3. WindowTypes'
  BY <1>1 DEF WindowTypes, WindowTypeOK, Ids
<1>4. News
  BY <1>1 DEF News, Final
<1>5. lagged => lagged'
  BY SendStep DEF CoreInv, TurnTypeOK
<1>6. Unsure => Unsure'
  BY <1>1, <1>5 DEF Unsure
<1>7. WholeInv'
  <2>1. \A x : Brings(x, active) => Brings(x, active)' \/ lagged' BY <1>1, SentIsBrought
  <2> QED BY <1>1, <1>4, <1>6, <2>1, StaysWhole DEF Ids, Unsure
<1> QED BY <1>2, <1>3, <1>7

\* A turn goes on beside the window.
LEMMA TurnBesideWindow ==
  ASSUME CapacityAssumption, TurnAssumption, WindowInv, NEW t \in Turns, TurnStep(t), UNCHANGED windowVars
  PROVE  WindowInv'
<1>1. CASE Sends(t)
  <2>1. t \in Publishers BY DEF TurnAssumption
  <2> QED BY <1>1, <2>1, SendsBeside DEF Sends
<1>2. CASE Starts(t) \/ Registers(t) \/ Grows(t) \/ Ends(t) \/ Announces(t) \/ Returns(t) \/ Dies(t)
  <2>1. CoreInv' /\ NothingTaken /\ News
    BY <1>2, TurnMoves DEF WindowInv
  <2>2. ThreadStill /\ UNCHANGED <<records, order, names, calls, unsent>>
    BY DEF windowVars, syncVars, threadVars, recordVars, ThreadStill
  <2> QED BY <2>1, <2>2, BesideThread DEF WindowInv, WindowTypes, WindowTypeOK
<1> QED BY <1>1, <1>2 DEF TurnStep

\* A command that is served changes calls, and no other part of the window.
LEMMA ServedBeside ==
  ASSUME WindowInv, CoreInv', NothingTaken, News, UNCHANGED Unseen,
         NEW i \in DOMAIN calls, NEW from, NEW c \in Calls, Serves(i, from, c)
  PROVE  WindowInv'
<1>1. ThreadStill /\ UNCHANGED <<records, order, names, unsent>>
  BY DEF Unseen, syncVars, threadVars, recordVars, ThreadStill
<1>2. calls' \in Seq(Calls) /\ Len(calls') <= MaxCalls
  BY ServesStep
<1> QED BY <1>1, <1>2, BesideThread DEF WindowInv, WindowTypes, WindowTypeOK

\* Each step of a command that is served.
LEMMA ServeStep ==
  ASSUME TurnAssumption, WindowInv, NEW i \in DOMAIN calls, Serve(i)
  PROVE  WindowInv'
<1>1. PICK c \in Calls : c = calls[i]
  BY CallOf
<1>2. /\ c \in CallRecords /\ CoreInv /\ stored \in [Conversations -> Seq(Rows)]
      /\ c.kind \in {"load", "send", "steer"} => c.talk \in Conversations
      /\ c.kind \in {"send", "steer"} => c.sentence \in Typed
      /\ c.kind = "steer" => c.run \in Turns
  BY <1>1 DEF Calls, WindowInv, CoreInv, RowsInv
<1>3. ASSUME UNCHANGED <<streamVars, turnVars>> PROVE CoreInv' /\ NothingTaken /\ News
  BY <1>2, <1>3, StillMoves DEF turnVars
<1>4. ASSUME NEW a \in {"asked", "runs", "recorded", "posted", "told", "accepted", "failed"}
      PROVE  [c EXCEPT !.at = a] \in Calls
  BY <1>1, <1>4 DEF Calls, CallRecords
<1>5. CASE ReadsRuns(i)
  <2>1. PICK S \in SUBSET Turns : S = {t \in Turns : phase[t] \notin {"none", "left"}}
    OBVIOUS
  <2>2. [c EXCEPT !.at = "runs", !.runs = S] \in Calls
    <3>1. c.kind = "boot" /\ c.talk \in Conversations \cup {None} /\ c.sentence \in Typed \cup {None}
          /\ c.rows \in Seq(Rows) /\ c.run \in Turns \cup {None}
      BY <1>1, <1>2, <1>5 DEF ReadsRuns, CallRecords
    <3> QED BY <3>1, <1>1, <1>2 DEF Calls, CallRecords
  <2>3. Serves(i, "asked", [c EXCEPT !.at = "runs", !.runs = S]) /\ UNCHANGED <<streamVars, turnVars, Unseen>>
    BY <1>1, <1>5, <2>1 DEF ReadsRuns
  <2> QED BY <1>3, <2>2, <2>3, ServedBeside
<1>6. CASE ReadsStore(i)
  <2>1. PICK e \in Conversations : Serves(i, "runs", [c EXCEPT !.at = "answered", !.talk = e, !.rows = stored[e]])
    BY <1>1, <1>6 DEF ReadsStore
  <2>2. PICK rows \in Seq(Rows) : rows = stored[e]
    BY <1>2
  <2>3. [c EXCEPT !.at = "answered", !.talk = e, !.rows = rows] \in Calls
    BY <1>1, <1>2, <1>6 DEF Calls, CallRecords, ReadsStore
  <2> QED BY <1>3, <1>6, <2>1, <2>2, <2>3, ServedBeside DEF ReadsStore
<1>7. CASE ReadsThread(i)
  <2>1. c.kind = "load" /\ c.talk \in Conversations
    BY <1>1, <1>2, <1>7 DEF ReadsThread
  <2>2. PICK rows \in Seq(Rows) : rows = stored[c.talk]
    BY <1>2, <2>1
  <2>3. [c EXCEPT !.at = "answered", !.rows = rows] \in Calls
    BY <1>1, <2>1 DEF Calls, CallRecords
  <2>4. Serves(i, "asked", [c EXCEPT !.at = "answered", !.rows = rows])
    BY <1>1, <1>7, <2>2 DEF ReadsThread
  <2> QED BY <1>3, <1>7, <2>3, <2>4, ServedBeside DEF ReadsThread
<1>8. CASE ReadsList(i)
  <2>1. [c EXCEPT !.at = "answered"] \in Calls /\ Serves(i, "asked", [c EXCEPT !.at = "answered"])
    BY <1>1, <1>8 DEF Calls, CallRecords, ReadsList
  <2> QED BY <1>3, <1>8, <2>1, ServedBeside DEF ReadsList
<1>9. CASE Refuses(i)
  <2>1. PICK from \in {"asked", "posted"} : Serves(i, from, [c EXCEPT !.at = "failed"])
    BY <1>1, <1>9 DEF Refuses
  <2>2. [c EXCEPT !.at = "failed"] \in Calls
    BY <1>4
  <2> QED BY <1>3, <1>9, <2>1, <2>2, ServedBeside DEF Refuses
<1>10. CASE FindsRun(i)
  <2>1. [c EXCEPT !.at = "posted"] \in Calls /\ [c EXCEPT !.at = "answered"] \in Calls
    BY <1>1, <1>10 DEF Calls, CallRecords, FindsRun
  <2>2. PICK d \in Calls : Serves(i, "asked", d)
    BY <1>1, <1>10, <2>1 DEF FindsRun
  <2> QED BY <1>3, <1>10, <2>2, ServedBeside DEF FindsRun
<1>11. CASE RecordsSend(i)
  <2>1. /\ Serves(i, "asked", [c EXCEPT !.at = "recorded"]) /\ Save(Row(c.sentence, "typed"), c.talk)
        /\ UNCHANGED <<phase, talk, registry, results>> /\ UNCHANGED Unseen /\ c.kind = "send"
    BY <1>1, <1>11 DEF RecordsSend
  <2>2. Row(c.sentence, "typed") \in Rows /\ Row(c.sentence, "typed").id \in Typed
    BY <1>2, <2>1 DEF Rows, Row, Texts
  <2>3. CoreInv' /\ NothingTaken /\ News
    BY <1>2, <2>1, <2>2, SaveMoves
  <2> QED BY <1>4, <2>1, <2>3, ServedBeside
<1>12. CASE RecordsSteer(i)
  <2>1. /\ Serves(i, "posted", [c EXCEPT !.at = "told"]) /\ Save(Row(c.sentence, "typed"), talk[c.run])
        /\ UNCHANGED <<phase, talk, registry, results>> /\ UNCHANGED Unseen /\ c.kind = "steer"
    BY <1>1, <1>12 DEF RecordsSteer
  <2>2. Row(c.sentence, "typed") \in Rows /\ Row(c.sentence, "typed").id \in Typed /\ talk[c.run] \in Conversations
    BY <1>2, <2>1 DEF Rows, Row, Texts, CoreInv, TurnTypeOK
  <2>3. CoreInv' /\ NothingTaken /\ News
    BY <1>2, <2>1, <2>2, SaveMoves
  <2> QED BY <1>4, <2>1, <2>3, ServedBeside
<1>13. CASE TellsSteer(i)
  <2>1. /\ Serves(i, "told", [c EXCEPT !.at = "accepted"]) /\ Number(Ui, TurnSteered(c.run, "typed"))
        /\ UNCHANGED turnVars /\ UNCHANGED Unseen /\ c.kind = "steer"
    BY <1>1, <1>13 DEF TellsSteer
  <2>2. Ui \in Publishers /\ TurnSteered(c.run, "typed") \in Events
    BY <1>2, <2>1 DEF TurnAssumption, TurnSteered, Events, Texts
  <2>3. CoreInv' /\ NothingTaken /\ News
    BY <1>2, <2>1, <2>2, NumberMoves
  <2> QED BY <1>4, <2>1, <2>3, ServedBeside
<1>14. CASE \E t \in Turns : StartsTurn(i, t)
  <2>1. PICK t \in Turns : StartsTurn(i, t)
    BY <1>14
  <2>2. /\ Serves(i, "recorded", [c EXCEPT !.at = "answered", !.run = t]) /\ Asks(t, c.talk) /\ c.kind = "send"
        /\ UNCHANGED streamVars /\ stored' = stored /\ UNCHANGED Unseen
    BY <1>1, <2>1 DEF StartsTurn
  <2>3. [c EXCEPT !.at = "answered", !.run = t] \in Calls
    BY <1>1, <2>2 DEF Calls, CallRecords
  <2>4. CoreInv' /\ NothingTaken /\ News
    BY <1>2, <2>2, AskMoves
  <2> QED BY <2>2, <2>3, <2>4, ServedBeside
<1> QED BY <1>5, <1>6, <1>7, <1>8, <1>9, <1>10, <1>11, <1>12, <1>13, <1>14 DEF Serve

\* Rows that are shown have ids of sentences and turns.
LEMMA IdsOfRows ==
  ASSUME NEW rows \in Seq(Rows)
  PROVE  Ids(rows) \subseteq Typed \cup Turns
<1>1. \A i \in DOMAIN rows : rows[i] \in Rows
  BY ElementOfSeq, LenProperties
<1> QED BY <1>1 DEF Ids, Rows

\* Runs put in some order.
LEMMA ListedIs ==
  ASSUME NEW S \in SUBSET Turns
  PROVE  SetToSeq(S) \in Seq(Turns)
<1>1. IsFiniteSet(S)
  BY CallsAssumption, FS_Subset
<1>2. Cardinality(S) \in Nat /\ ExistsBijection(1..Cardinality(S), S)
  BY <1>1, FS_CardinalityType
<1>3. PICK f \in [1..Cardinality(S) -> S] : IsInjective(f)
  BY <1>2 DEF ExistsBijection, Bijection, Injection, Surjection, IsInjective
<1>4. SetToSeq(S) \in [1..Cardinality(S) -> S]
  BY <1>3 DEF SetToSeq
<1>5. PICK g : g = SetToSeq(S)
  OBVIOUS
<1>6. PICK n \in Nat : n = Cardinality(S)
  BY <1>2
<1>7. g \in [1..n -> Turns]
  BY <1>4, <1>5, <1>6
<1> QED BY <1>5, <1>7, IsASeq

\* A bootstrap is applied.
LEMMA BootsStep ==
  ASSUME TurnAssumption, WindowInv, NEW i \in DOMAIN calls, Boots(i)
  PROVE  WindowInv'
<1>1. PICK c \in Calls : c = calls[i]
  BY CallOf
<1>2. /\ UNCHANGED <<streamVars, turnVars, wire, delivered, lastSeq, names, unsent>> /\ Done(i)
      /\ needsBootstrap' = FALSE /\ active' = c.talk /\ messages' = c.rows
      /\ records' = [t \in Turns |-> IF t \in c.runs THEN Ensured(t)[t] ELSE records[t]]
      /\ order' = SetToSeq({t \in c.runs : records[t] = "none"}) \o order
      /\ overtaken' = overtaken \cup Gone(c.talk, c.rows)
  BY <1>1 DEF Boots
<1>3. c.talk \in Conversations /\ c.rows \in Seq(Rows) /\ c.runs \in SUBSET Turns
  BY <1>1 DEF Calls, CallRecords, Boots
<1>4. CoreInv'
  BY <1>2, StillMoves DEF turnVars, WindowInv
<1>5. calls' \in Seq(Calls) /\ Len(calls') <= MaxCalls
  BY <1>2, DoneStep
<1>6. records' \in [Turns -> {"none", "running", "ended"}]
  <2>1. records \in [Turns -> {"none", "running", "ended"}]
    BY DEF WindowInv, WindowTypes, WindowTypeOK
  <2>2. ASSUME NEW t \in Turns PROVE Ensured(t)[t] \in {"none", "running", "ended"}
    BY <2>1 DEF Ensured
  <2> QED BY <2>1, <2>2, <1>2
<1>7. order' \in Seq(Turns)
  <2>1. PICK S \in SUBSET Turns : S = {t \in c.runs : records[t] = "none"}
    BY <1>3
  <2>2. SetToSeq(S) \in Seq(Turns) /\ order \in Seq(Turns)
    BY ListedIs DEF WindowInv, WindowTypes, WindowTypeOK
  <2> QED BY <2>1, <2>2, <1>2, ConcatProperties
<1>8. Ids(messages)' \subseteq Typed \cup Turns
  <2>1. Ids(c.rows) \subseteq Typed \cup Turns BY <1>3, IdsOfRows
  <2> QED BY <2>1, <1>2 DEF Ids
<1>9. WindowTypes'
  BY <1>2, <1>3, <1>5, <1>6, <1>7, <1>8 DEF WindowInv, WindowTypes, WindowTypeOK
<1>10. WholeInv'
  BY <1>2, <1>3, ReplacedIsWhole DEF WindowInv
<1> QED BY <1>4, <1>9, <1>10 DEF WindowInv

\* A thread that was read is shown.
LEMMA LoadsStep ==
  ASSUME TurnAssumption, WindowInv, NEW i \in DOMAIN calls, Loads(i)
  PROVE  WindowInv'
<1>1. PICK c \in Calls : c = calls[i]
  BY CallOf
<1>2. /\ UNCHANGED <<streamVars, turnVars, wire, delivered, records, order, names, unsent>> /\ Done(i)
      /\ active' = c.talk /\ messages' = c.rows /\ overtaken' = overtaken \cup Gone(c.talk, c.rows)
  BY <1>1 DEF Loads, recordVars
<1>3. c.talk \in Conversations /\ c.rows \in Seq(Rows)
  BY <1>1 DEF Calls, CallRecords, Loads
<1>4. CoreInv'
  BY <1>2, StillMoves DEF turnVars, WindowInv
<1>5. calls' \in Seq(Calls) /\ Len(calls') <= MaxCalls
  BY <1>2, DoneStep
<1>6. Ids(messages)' \subseteq Typed \cup Turns
  <2>1. Ids(c.rows) \subseteq Typed \cup Turns BY <1>3, IdsOfRows
  <2> QED BY <2>1, <1>2 DEF Ids
<1>7. WindowTypes'
  BY <1>2, <1>3, <1>5, <1>6 DEF WindowInv, WindowTypes, WindowTypeOK
<1>8. WholeInv'
  BY <1>2, <1>3, ReplacedIsWhole DEF WindowInv
<1> QED BY <1>4, <1>7, <1>8 DEF WindowInv

\* Each other answer that is heard leaves the thread as it is.
LEMMA HearsStep ==
  ASSUME TurnAssumption, WindowInv, NEW i \in DOMAIN calls, Hears(i)
  PROVE  WindowInv'
<1>1. PICK c \in Calls : c = calls[i]
  BY CallOf
<1>2. /\ records \in [Turns -> {"none", "running", "ended"}] /\ order \in Seq(Turns)
      /\ names \in [Turns -> Conversations \cup {None}] /\ unsent \subseteq Typed
  BY DEF WindowInv, WindowTypes, WindowTypeOK
<1>3. ASSUME UNCHANGED <<streamVars, turnVars>> PROVE CoreInv' /\ NothingTaken /\ News
  BY <1>3, StillMoves DEF turnVars, WindowInv
<1>4. CASE Lists(i) \/ Closes(i)
  <2>1. UNCHANGED <<streamVars, turnVars, records, order, names, unsent>> /\ ThreadStill /\ Done(i)
    BY <1>4 DEF Lists, Closes, syncVars, threadVars, recordVars, ThreadStill
  <2>2. calls' \in Seq(Calls) /\ Len(calls') <= MaxCalls
    BY <2>1, DoneStep
  <2> QED BY <1>2, <1>3, <2>1, <2>2, BesideThread
<1>5. CASE Registered(i)
  <2>1. /\ UNCHANGED <<streamVars, turnVars, unsent>> /\ ThreadStill /\ Done(i)
        /\ records' = Ensured(c.run) /\ order' = Listed(c.run)
        /\ names' = [names EXCEPT ![c.run] = IF @ = None THEN c.talk ELSE @]
    BY <1>1, <1>5 DEF Registered, syncVars, threadVars, ThreadStill
  <2>2. c.run \in Turns /\ c.talk \in Conversations
    BY <1>1, <1>5 DEF Calls, Registered
  <2>3. calls' \in Seq(Calls) /\ Len(calls') <= MaxCalls
    BY <2>1, DoneStep
  <2>4. records' \in [Turns -> {"none", "running", "ended"}]
    BY <1>2, <2>1, <2>2 DEF Ensured
  <2>5. order' \in Seq(Turns)
    <3>1. <<c.run>> \in Seq(Turns) BY <2>2
    <3> QED BY <3>1, <1>2, <2>1, ConcatProperties DEF Listed
  <2>6. names' \in [Turns -> Conversations \cup {None}]
    BY <1>2, <2>1, <2>2
  <2> QED BY <1>2, <1>3, <2>1, <2>3, <2>4, <2>5, <2>6, BesideThread
<1>6. CASE Resends(i)
  <2>1. /\ UNCHANGED <<streamVars, turnVars>> /\ UNCHANGED Unseen
        /\ c.kind = "steer" /\ Serves(i, "answered", Call("send", c.talk, c.sentence))
    BY <1>1, <1>6 DEF Resends, Serves
  <2>2. c.talk \in Conversations /\ c.sentence \in Typed
    BY <1>1, <2>1 DEF Calls
  <2>3. Call("send", c.talk, c.sentence) \in Calls
    BY <2>2, CallIs DEF TurnAssumption
  <2> QED BY <1>3, <2>1, <2>3, ServedBeside
<1> QED BY <1>4, <1>5, <1>6, BootsStep, LoadsStep DEF Hears

\* The window starts with its first bootstrap asked.
LEMMA WindowInitially ==
  ASSUME CapacityAssumption, TurnAssumption, StreamInit, TurnInit, WindowInit
  PROVE  WindowInv
<1>1. CoreInv
  BY CoreInitially
<1>2. WindowTypes
  <2>1. <<>> \in Seq(Wires) /\ <<>> \in Seq(Rows) /\ <<>> \in Seq(Turns) /\ Ids(<<>>) = {}
    BY DEF Ids
  <2>2. calls \in Seq(Calls) /\ Len(calls) <= MaxCalls
    <3>1. PICK b \in Calls : b = Call("boot", None, None) BY CallIs
    <3> HIDE DEF Calls
    <3>2. <<b>> \in Seq(Calls) /\ Len(<<b>>) = 1 OBVIOUS
    <3> QED BY <3>1, <3>2, CallsAssumption DEF WindowInit
  <2> QED BY <2>1, <2>2 DEF WindowInit, WindowTypes, WindowTypeOK
<1> QED BY <1>1, <1>2 DEF WindowInv, WholeInv, WindowInit

\* Every step of the window, of the commands it sends and of the turns beside it.
LEMMA WindowStep ==
  ASSUME WindowInv, [WindowNext]_<<streamVars, turnVars, windowVars>>
  PROVE  WindowInv'
<1> USE CapacityAssumption, TurnAssumption
<1>1. CASE DesktopSends
  <2>1. Ui \in Publishers BY DEF TurnAssumption
  <2> QED BY <1>1, <2>1, SendsBeside DEF DesktopSends
<1>2. CASE \E i \in DOMAIN calls : Serve(i) \/ Hears(i)
  BY <1>2, ServeStep, HearsStep
<1>3. CASE UNCHANGED <<streamVars, turnVars, windowVars>>
  <2>1. ThreadStill /\ UNCHANGED <<records, order, names, calls, unsent>>
    BY <1>3 DEF windowVars, syncVars, threadVars, recordVars, ThreadStill
  <2>2. CoreInv' /\ NothingTaken /\ News
    BY <1>3, StillMoves DEF turnVars, WindowInv
  <2> QED BY <2>1, <2>2, BesideThread DEF WindowInv, WindowTypes, WindowTypeOK
<1> QED BY <1>1, <1>2, <1>3, ForwardsStep, ForwardsGapStep, AppliesStep, ReloadStep, PressSendStep,
        PressSelectStep,
           TurnBesideWindow DEF WindowNext

\* The inductive invariant of the window: a final row is on screen, or on its way, or was overtaken,
\* unless the window knows that it may have missed something.
THEOREM WindowInvariant == WindowSpec => []WindowInv
<1>1. StreamInit /\ TurnInit /\ WindowInit => WindowInv
  BY CapacityAssumption, TurnAssumption, WindowInitially
<1>2. WindowInv /\ [WindowNext]_<<streamVars, turnVars, windowVars>> => WindowInv'
  BY WindowStep
<1> QED BY <1>1, <1>2, PTL DEF WindowSpec

\* At rest nothing is on its way, so a row the invariant speaks of is on screen or was overtaken.
LEMMA AtRestIsWhole ==
  ASSUME WindowInv
  PROVE  OnlyOvertakenRowsAreMissing
<1> SUFFICES ASSUME AtRest, NEW i \in Missing
             PROVE  stored[active][i].id \in overtaken
  BY DEF OnlyOvertakenRowsAreMissing
<1>1. ~lagged /\ queue = <<>> /\ wire = <<>> /\ ~needsBootstrap /\ active # None
      /\ \A p \in Publishers : held[p] = <<>>
  BY DEF AtRest, Quiet, Empty
<1>2. ~Unsure
  BY <1>1 DEF Unsure
<1>3. i \in DOMAIN stored[active] /\ Final(stored[active][i]) /\ stored[active][i].id \notin Ids(messages)
  BY DEF Missing, Told, Final
<1>4. PICK x : x = stored[active][i].id
  OBVIOUS
<1>5. x \notin Brought(active)
  <2>1. ~Brings(x, active) BY <1>1 DEF Brings
  <2> QED BY <2>1, BroughtIs
<1> QED BY <1>1, <1>2, <1>3, <1>4, <1>5 DEF WindowInv, WholeInv

\* events.rs ("Saying nothing would leave it rendering a thread it cannot trust"), for any turns,
\* sentences and conversations, a channel of any capacity and any number of commands on their way:
\* with no repair owed, a row is missing only when a snapshot older than its message replaced the thread.
THEOREM WindowMissesOnlyTheOvertaken == WindowSpec => []OnlyOvertakenRowsAreMissing
BY WindowInvariant, AtRestIsWhole, PTL

-----------------------------------------------------------------------------
(* Both front ends, one at a time. *)

\* The front end that is not in use stays as it started.
ThreadsInv ==
  /\ level \in {"turns", "talks"} => TerminalInv /\ WindowInit
  /\ level \notin {"turns", "talks"} => WindowInv /\ TerminalInit
     /\ \A t \in Turns : phase[t] = "left" => t \in results

\* A turn that has left has a result, until the terminal takes it.
LEMMA LeftHasResult ==
  ASSUME WindowInv, WindowNext, \A t \in Turns : phase[t] = "left" => t \in results
  PROVE  \A t \in Turns : phase'[t] = "left" => t \in results'
<1>1. CASE UNCHANGED <<phase, results>>
  BY <1>1
<1>2. ASSUME NEW i \in DOMAIN calls, NEW t \in Turns, StartsTurn(i, t)
      PROVE  \A u \in Turns : phase'[u] = "left" => u \in results'
  BY <1>2 DEF StartsTurn, Asks, WindowInv, CoreInv, TurnTypeOK
<1>3. ASSUME NEW t \in Turns, Starts(t) \/ Registers(t) \/ Grows(t) \/ Ends(t) \/ Announces(t) \/ Returns(t)
             \/ Dies(t)
      PROVE  \A u \in Turns : phase'[u] = "left" => u \in results'
  <2>1. /\ \A u \in Turns : u # t => phase'[u] = phase[u]
        /\ phase'[t] = "left" => t \in results'
        /\ \A u \in Turns : u \notin results' => u \notin results
    BY <1>3, TurnElsewhere DEF WindowInv
  <2> QED BY <2>1
<1>4. CASE \E i \in DOMAIN calls : Serve(i) \/ Hears(i)
  <2>1. PICK i \in DOMAIN calls : Serve(i) \/ Hears(i) BY <1>4
  <2>2. CASE \E t \in Turns : StartsTurn(i, t) BY <2>2, <1>2
  <2>3. CASE RecordsSend(i) \/ RecordsSteer(i) BY <1>1, <2>3 DEF RecordsSend, RecordsSteer
  <2>4. CASE ReadsRuns(i) \/ ReadsStore(i) \/ ReadsThread(i) \/ ReadsList(i) \/ Refuses(i) \/ FindsRun(i)
             \/ TellsSteer(i)
    BY <1>1, <2>4 DEF ReadsRuns, ReadsStore, ReadsThread, ReadsList, Refuses, FindsRun, TellsSteer, turnVars
  <2>5. CASE Hears(i)
    BY <1>1, <2>5 DEF Hears, Boots, Loads, Lists, Registered, Resends, Closes, turnVars
  <2> QED BY <2>1, <2>2, <2>3, <2>4, <2>5 DEF Serve
<1>5. CASE \E t \in Turns : TurnStep(t) /\ UNCHANGED windowVars
  <2>1. PICK t \in Turns : TurnStep(t) BY <1>5
  <2>2. CASE Sends(t) BY <1>1, <2>2 DEF Sends, turnVars
  <2> QED BY <2>1, <2>2, <1>3 DEF TurnStep
<1>6. CASE Forwards \/ ForwardsGap \/ Applies \/ Reload \/ DesktopSends
  BY <1>1, <1>6 DEF Forwards, ForwardsGap, Applies, Reload, DesktopSends, turnVars
<1>7. CASE (\E m \in Typed : PressSend(m)) \/ (\E c \in Conversations : PressSelect(c))
  BY <1>1, <1>7 DEF PressSend, PressSelect, turnVars
<1> QED BY <1>4, <1>5, <1>6, <1>7 DEF WindowNext

\* The inductive invariant of both front ends.
THEOREM ThreadsInvariant == ThreadsSpec => []ThreadsInv
<1> USE CapacityAssumption, TurnAssumption
<1>1. ThreadsInit => ThreadsInv
  BY TerminalInitially, WindowInitially DEF ThreadsInit, ThreadsInv, TurnInit
<1>2. ThreadsInv /\ [ThreadsNext]_threadsVars => ThreadsInv'
  <2> SUFFICES ASSUME ThreadsInv, [ThreadsNext]_threadsVars PROVE ThreadsInv' OBVIOUS
  <2>1. level' = level
    BY DEF ThreadsNext, threadsVars
  <2>2. UNCHANGED windowVars /\ WindowInit => WindowInit'
    BY DEF WindowInit, windowVars, syncVars, threadVars, recordVars
  <2>3. UNCHANGED terminalVars /\ TerminalInit => TerminalInit'
    BY DEF TerminalInit, terminalVars, drainVars, screenVars, paneVars
  <2>4. CASE level \in {"turns", "talks"}
    <3>1. [TerminalNext]_<<streamVars, turnVars, terminalVars>> /\ UNCHANGED windowVars
      BY <2>4 DEF ThreadsNext, threadsVars
    <3> QED BY <2>1, <2>2, <2>4, <3>1, TerminalStep DEF ThreadsInv
  <2>5. CASE level \notin {"turns", "talks"}
    <3>1. [WindowNext]_<<streamVars, turnVars, windowVars>> /\ UNCHANGED terminalVars
      BY <2>5 DEF ThreadsNext, threadsVars
    <3>2. \A t \in Turns : phase'[t] = "left" => t \in results'
      BY <2>5, <3>1, LeftHasResult DEF ThreadsInv, turnVars
    <3> QED BY <2>1, <2>3, <2>5, <3>1, <3>2, WindowStep DEF ThreadsInv
  <2> QED BY <2>4, <2>5
<1> QED BY <1>1, <1>2, PTL DEF ThreadsSpec

\* The types of the stream, the turns and both front ends.
THEOREM ThreadsHaveTypes == ThreadsSpec => []ThreadsTypeOK
<1>1. ThreadsInv => ThreadsTypeOK
  <2> SUFFICES ASSUME ThreadsInv PROVE ThreadsTypeOK OBVIOUS
  <2>1. TurnTypeOK
    BY DEF ThreadsInv, TerminalInv, WindowInv, CoreInv
  <2>2. TerminalInit => TerminalTypeOK
    BY TurnAssumption DEF TerminalTypeOK, TerminalInit, TurnAssumption
  <2>3. WindowInit => WindowTypeOK
    <3>1. <<>> \in Seq(Turns) /\ Len(<<Call("boot", None, None)>>) = 1 /\ Ids(<<>>) = {}
      BY DEF Ids
    <3> QED BY <3>1, CallsAssumption DEF WindowInit, WindowTypeOK
  <2> QED BY <2>1, <2>2, <2>3 DEF ThreadsInv, ThreadsTypeOK, TerminalInv, TerminalTypes, WindowInv, WindowTypes
<1> QED BY <1>1, ThreadsInvariant, PTL

\* No row of the thread on screen goes missing unnoticed, in either front end.
THEOREM ThreadsStayWhole == ThreadsSpec => []ThreadsAreWhole
<1>1. ThreadsInv => ThreadsAreWhole
  <2>1. WindowInit => OnlyOvertakenRowsAreMissing
    BY DEF WindowInit, OnlyOvertakenRowsAreMissing, AtRest
  <2> QED BY <2>1, AtRestIsWhole, TerminalIsWhole DEF ThreadsInv, ThreadsAreWhole
<1> QED BY <1>1, ThreadsInvariant, PTL

\* What was typed reaches a turn, and runs settle, whichever front end is in use.
THEOREM SentencesAndRunsSettle == ThreadsSpec => [](TypedReachesATurn /\ RunsSettle)
<1>1. ThreadsInv => TypedReachesATurn /\ RunsSettle
  <2>1. TerminalInv => TypedReachesATurn /\ RunsSettle
    BY DEF TerminalInv, PlaceInv, TypedReachesATurn
  <2>2. TerminalInit /\ (\A t \in Turns : phase[t] = "left" => t \in results) => TypedReachesATurn /\ RunsSettle
    BY DEF TerminalInit, TypedReachesATurn, RunsSettle
  <2> QED BY <2>1, <2>2 DEF ThreadsInv
<1> QED BY <1>1, ThreadsInvariant, PTL
=============================================================================
