------------------------- MODULE ChartFanout_proofs -------------------------
(***************************************************************************)
(* Proofs about ChartFanout, for any clients, limits, batches, bars and    *)
(* numbers of messages, connections, redeliveries and REST calls.          *)
(***************************************************************************)
EXTENDS ChartFanout, TLAPS

(***************************************************************************)
(* Sequences.                                                              *)
(***************************************************************************)

(* Taking the head off a non-empty sequence.                               *)
LEMMA TailFacts ==
  ASSUME NEW S, NEW q \in Seq(S), q # <<>>
  PROVE  /\ Head(q) \in S
         /\ Head(q) = q[1]
         /\ 1 \in 1..Len(q)
         /\ Tail(q) \in Seq(S)
         /\ Len(Tail(q)) = Len(q) - 1
         /\ \A i \in 1..Len(Tail(q)) : Tail(q)[i] = q[i + 1] /\ i + 1 \in 1..Len(q)
         /\ \A i \in 1..Len(q) : i = 1 \/ (i - 1 \in 1..Len(Tail(q)) /\ Tail(q)[i - 1] = q[i])
  OBVIOUS

(* Putting an element at the end of one.                                   *)
LEMMA AppendFacts ==
  ASSUME NEW S, NEW q \in Seq(S), NEW e \in S
  PROVE  /\ Append(q, e) \in Seq(S)
         /\ Len(Append(q, e)) = Len(q) + 1
         /\ \A i \in 1..Len(q) : i \in 1..Len(Append(q, e)) /\ Append(q, e)[i] = q[i]
         /\ Append(q, e)[Len(q) + 1] = e
         /\ Len(q) + 1 \in 1..Len(Append(q, e))
         /\ \A i \in 1..Len(Append(q, e)) : i \in 1..Len(q) \/ i = Len(q) + 1
  OBVIOUS

(* Cutting one after its n-th element.                                     *)
LEMMA CutFacts ==
  ASSUME NEW S, NEW q \in Seq(S), NEW n \in Nat, n <= Len(q)
  PROVE  /\ SubSeq(q, 1, n) \in Seq(S)
         /\ Len(SubSeq(q, 1, n)) = n
         /\ \A i \in 1..n : SubSeq(q, 1, n)[i] = q[i] /\ i \in 1..Len(q)
         /\ SubSeq(q, n + 1, Len(q)) \in Seq(S)
         /\ Len(SubSeq(q, n + 1, Len(q))) = Len(q) - n
         /\ \A i \in 1..(Len(q) - n) :
              SubSeq(q, n + 1, Len(q))[i] = q[i + n] /\ i + n \in 1..Len(q)
  OBVIOUS

(***************************************************************************)
(* The steps by what they do to the candle state, the broadcasts and the   *)
(* clients.                                                                *)
(***************************************************************************)

(* The feed, NATS and the fetches, and every refused event.                *)
Quiet == UNCHANGED <<cast, sending, live, finalized, lastSrc, eventSeq, conn, sub, got>>

(* An event is accepted, from a consumer loop or over HTTP.                *)
Accepts(t, m) ==
  /\ cast[t] = Nothing
  /\ Accept(t, m)
  /\ UNCHANGED <<conn, sub>>

(* A broadcast goes on to its next client.                                 *)
GoesOn(t, c) ==
  /\ Waits(t, c)
  /\ Broadcasting(t, cast[t].event, cast[t].left, [sending EXCEPT ![c] = Tail(@)])
  /\ conn' \in {conn, [conn EXCEPT ![c] = "closing"]}
  /\ conn' # conn => conn[c] # "out"
  /\ UNCHANGED <<live, finalized, lastSrc, eventSeq, sub>>

(***************************************************************************)
(* Messages: what the ingest service publishes and what is delivered.      *)
(***************************************************************************)
FeedOK ==
  /\ openBar \in Bars
  /\ nextSrc \in 1..(MaxMessages + 1)
  /\ inbox \in [Lanes -> Seq(Message)]
  /\ linked \in BOOLEAN
  /\ gen \in 0..MaxConnects
  /\ redelivered \in 0..MaxRedelivered
  /\ rests \in 0..MaxRest
  /\ batch \in [Loops -> Seq(Message)]

(* While there is a connection, its two loops exist.                       *)
LinkedLoops == linked => \A l \in Lanes : <<l, gen>> \in Loops

(* Every update carries a source_seq.                                      *)
Numbered(m) == m.kind = "partial" => m.src > 0

PartialsNumbered ==
  /\ \A l \in Lanes : \A i \in 1..Len(inbox[l]) : Numbered(inbox[l][i])
  /\ \A t \in Loops : \A i \in 1..Len(batch[t]) : Numbered(batch[t][i])

FeedInv == FeedOK /\ LinkedLoops /\ PartialsNumbered

LEMMA FeedInit == Init => FeedInv
<1> SUFFICES ASSUME Init PROVE FeedInv
  OBVIOUS
<1>1. /\ openBar \in Bars /\ nextSrc \in 1..(MaxMessages + 1) /\ gen \in 0..MaxConnects
      /\ redelivered \in 0..MaxRedelivered /\ rests \in 0..MaxRest
  BY FanoutAssumption DEF Init, Bars
<1>2. inbox \in [Lanes -> Seq(Message)] /\ batch \in [Loops -> Seq(Message)]
  BY DEF Init
<1>3. FeedOK
  BY <1>1, <1>2 DEF Init, FeedOK
<1> QED BY <1>3 DEF Init, FeedInv, LinkedLoops, PartialsNumbered

LEMMA PublishKeepsFeed ==
  ASSUME FeedInv, NEW kind \in Kinds, NEW bar \in Bars, Publish(kind, bar)
  PROVE  FeedInv'
<1> DEFINE m == [kind |-> kind, bar |-> bar, src |-> nextSrc]
<1>1. /\ nextSrc \in 0..MaxMessages /\ nextSrc > 0
      /\ nextSrc' \in 1..(MaxMessages + 1)
      /\ openBar' \in Bars
  BY FanoutAssumption DEF Publish, FeedInv, FeedOK, Bars
<1>2. m \in Message /\ Numbered(m) /\ Lane(m) \in Lanes
  BY <1>1 DEF Message, Numbered, Lane, Lanes
<1>3. inbox \in [Lanes -> Seq(Message)] /\ inbox[Lane(m)] \in Seq(Message)
  BY <1>2 DEF FeedInv, FeedOK
<1>4. inbox' = [inbox EXCEPT ![Lane(m)] = Append(inbox[Lane(m)], m)]
  BY DEF Publish
<1> HIDE DEF m
<1>5. inbox' \in [Lanes -> Seq(Message)]
  BY <1>2, <1>3, <1>4, AppendFacts
<1>6. \A l \in Lanes : \A i \in 1..Len(inbox'[l]) : Numbered(inbox'[l][i])
  <2> SUFFICES ASSUME NEW l \in Lanes, NEW i \in 1..Len(inbox'[l])
               PROVE  Numbered(inbox'[l][i])
    OBVIOUS
  <2>1. CASE l # Lane(m)
    <3>1. inbox'[l] = inbox[l]
      BY <1>2, <1>3, <1>4, <2>1
    <3> QED BY <3>1 DEF FeedInv, PartialsNumbered
  <2>2. CASE l = Lane(m)
    <3>1. inbox'[l] = Append(inbox[l], m)
      BY <1>2, <1>3, <1>4, <2>2
    <3>2. \/ i \in 1..Len(inbox[l]) /\ inbox'[l][i] = inbox[l][i]
          \/ inbox'[l][i] = m
      BY <3>1, <2>2, <1>2, <1>3, AppendFacts
    <3> QED BY <3>2, <1>2 DEF FeedInv, PartialsNumbered
  <2> QED BY <2>1, <2>2
<1> QED BY <1>1, <1>5, <1>6 DEF Publish, FeedInv, FeedOK, LinkedLoops, PartialsNumbered, Loops

LEMMA ConnectKeepsFeed ==
  ASSUME FeedInv, Connect
  PROVE  FeedInv'
<1>1. gen' \in 1..MaxConnects /\ gen' \in 0..MaxConnects /\ linked' = TRUE
  BY FanoutAssumption DEF Connect, FeedInv, FeedOK
<1>2. inbox' \in [Lanes -> Seq(Message)] /\ \A l \in Lanes : inbox'[l] = <<>> /\ Len(inbox'[l]) = 0
  BY DEF Connect
<1>3. UNCHANGED <<openBar, nextSrc, redelivered, rests, batch>>
  BY DEF Connect, feedVars
<1>4. LinkedLoops'
  BY <1>1 DEF LinkedLoops, Loops
<1>5. PartialsNumbered'
  BY <1>2, <1>3 DEF FeedInv, PartialsNumbered, Loops
<1> QED BY <1>1, <1>2, <1>3, <1>4, <1>5 DEF FeedInv, FeedOK, Loops

LEMMA FetchKeepsFeed ==
  ASSUME FeedInv, NEW l \in Lanes, Fetch(l)
  PROVE  FeedInv'
<1> DEFINE t == <<l, gen>>
<1>1. PICK n \in 1..FetchBatch :
        /\ n <= Len(inbox[l])
        /\ batch' = [batch EXCEPT ![t] = SubSeq(inbox[l], 1, n)]
        /\ inbox' = [inbox EXCEPT ![l] = SubSeq(inbox[l], n + 1, Len(inbox[l]))]
  BY DEF Fetch
<1>2. t \in Loops
  BY DEF Fetch, FeedInv, LinkedLoops
<1> HIDE DEF t
<1>3. /\ inbox \in [Lanes -> Seq(Message)] /\ inbox[l] \in Seq(Message)
      /\ batch \in [Loops -> Seq(Message)] /\ n \in Nat
  BY FanoutAssumption DEF FeedInv, FeedOK
<1>4. /\ inbox'[l] = SubSeq(inbox[l], n + 1, Len(inbox[l]))
      /\ batch'[t] = SubSeq(inbox[l], 1, n)
      /\ \A k \in Lanes \ {l} : inbox'[k] = inbox[k]
      /\ \A u \in Loops \ {t} : batch'[u] = batch[u]
  BY <1>1, <1>2, <1>3
<1>5. /\ inbox'[l] \in Seq(Message) /\ batch'[t] \in Seq(Message)
      /\ \A i \in 1..Len(inbox'[l]) : inbox'[l][i] = inbox[l][i + n] /\ i + n \in 1..Len(inbox[l])
      /\ \A i \in 1..Len(batch'[t]) : batch'[t][i] = inbox[l][i] /\ i \in 1..Len(inbox[l])
  <2>1. /\ SubSeq(inbox[l], 1, n) \in Seq(Message)
        /\ Len(SubSeq(inbox[l], 1, n)) = n
        /\ \A i \in 1..n : SubSeq(inbox[l], 1, n)[i] = inbox[l][i] /\ i \in 1..Len(inbox[l])
    BY <1>1, <1>3, CutFacts
  <2>2. /\ inbox'[l] \in Seq(Message)
        /\ Len(inbox'[l]) = Len(inbox[l]) - n
        /\ \A i \in 1..(Len(inbox[l]) - n) :
             inbox'[l][i] = inbox[l][i + n] /\ i + n \in 1..Len(inbox[l])
    BY <1>1, <1>3, <1>4, CutFacts
  <2> QED BY <2>1, <2>2, <1>4
<1>6. inbox' \in [Lanes -> Seq(Message)] /\ batch' \in [Loops -> Seq(Message)]
  BY <1>1, <1>2, <1>3, <1>4, <1>5
<1>7. PartialsNumbered'
  <2>0. \A j \in 1..Len(inbox[l]) : Numbered(inbox[l][j])
    BY DEF FeedInv, PartialsNumbered
  <2>1. ASSUME NEW k \in Lanes, NEW i \in 1..Len(inbox'[k]) PROVE Numbered(inbox'[k][i])
    <3>1. CASE k = l
      <4>1. inbox'[l][i] = inbox[l][i + n] /\ i + n \in 1..Len(inbox[l])
        BY <1>5, <3>1
      <4> QED BY <2>0, <3>1, <4>1
    <3>2. CASE k # l
      <4>1. inbox'[k] = inbox[k]
        BY <1>4, <3>2
      <4> QED BY <4>1 DEF FeedInv, PartialsNumbered
    <3> QED BY <3>1, <3>2
  <2>2. ASSUME NEW u \in Loops, NEW i \in 1..Len(batch'[u]) PROVE Numbered(batch'[u][i])
    <3>1. CASE u = t
      <4>1. batch'[t][i] = inbox[l][i] /\ i \in 1..Len(inbox[l])
        BY <1>5, <3>1
      <4> QED BY <2>0, <3>1, <4>1
    <3>2. CASE u # t
      <4>1. batch'[u] = batch[u]
        BY <1>4, <3>2
      <4> QED BY <4>1 DEF FeedInv, PartialsNumbered
    <3> QED BY <3>1, <3>2
  <2> QED BY <2>1, <2>2 DEF PartialsNumbered, Loops
<1>8. UNCHANGED <<openBar, nextSrc, linked, gen, redelivered, rests>>
  BY DEF Fetch, feedVars
<1> QED BY <1>6, <1>7, <1>8 DEF FeedInv, FeedOK, LinkedLoops, Loops

LEMMA RedeliverKeepsFeed ==
  ASSUME FeedInv, NEW l \in Lanes, NEW i \in 1..MaxMessages, Redeliver(l, i)
  PROVE  FeedInv'
<1> DEFINE m == batch[<<l, gen>>][i]
<1>1. <<l, gen>> \in Loops
  BY DEF Redeliver, FeedInv, LinkedLoops
<1>2. /\ batch[<<l, gen>>] \in Seq(Message) /\ i \in 1..Len(batch[<<l, gen>>])
      /\ inbox \in [Lanes -> Seq(Message)] /\ inbox[l] \in Seq(Message)
  BY <1>1, FanoutAssumption DEF Redeliver, FeedInv, FeedOK
<1>3. m \in Message /\ Numbered(m)
  BY <1>1, <1>2 DEF FeedInv, PartialsNumbered
<1>4. inbox' = [inbox EXCEPT ![l] = Append(inbox[l], m)]
  BY DEF Redeliver
<1> HIDE DEF m
<1>5. inbox' \in [Lanes -> Seq(Message)]
  BY <1>2, <1>3, <1>4, AppendFacts
<1>6. \A k \in Lanes : \A j \in 1..Len(inbox'[k]) : Numbered(inbox'[k][j])
  <2> SUFFICES ASSUME NEW k \in Lanes, NEW j \in 1..Len(inbox'[k])
               PROVE  Numbered(inbox'[k][j])
    OBVIOUS
  <2>1. CASE k # l
    <3>1. inbox'[k] = inbox[k]
      BY <1>2, <1>4, <2>1
    <3> QED BY <3>1 DEF FeedInv, PartialsNumbered
  <2>2. CASE k = l
    <3>1. inbox'[k] = Append(inbox[k], m)
      BY <1>2, <1>4, <2>2
    <3>2. \/ j \in 1..Len(inbox[k]) /\ inbox'[k][j] = inbox[k][j]
          \/ inbox'[k][j] = m
      BY <3>1, <2>2, <1>2, <1>3, AppendFacts
    <3> QED BY <3>2, <1>3 DEF FeedInv, PartialsNumbered
  <2> QED BY <2>1, <2>2
<1>7. redelivered' \in 0..MaxRedelivered
  BY FanoutAssumption DEF Redeliver, FeedInv, FeedOK
<1>8. UNCHANGED <<openBar, nextSrc, linked, gen, rests, batch>>
  BY DEF Redeliver, feedVars
<1> QED BY <1>5, <1>6, <1>7, <1>8 DEF FeedInv, FeedOK, LinkedLoops, PartialsNumbered, Loops

(* A loop is done with the message it holds.                               *)
LEMMA AckKeepsFeed ==
  ASSUME FeedInv, NEW t \in Loops, batch[t] # <<>>, batch' = [batch EXCEPT ![t] = Tail(batch[t])],
         UNCHANGED <<openBar, nextSrc, inbox, linked, gen, redelivered, rests>>
  PROVE  FeedInv'
<1>1. batch \in [Loops -> Seq(Message)] /\ batch[t] \in Seq(Message)
  BY DEF FeedInv, FeedOK
<1>2. /\ batch'[t] \in Seq(Message)
      /\ \A i \in 1..Len(batch'[t]) : batch'[t][i] = batch[t][i + 1] /\ i + 1 \in 1..Len(batch[t])
      /\ \A u \in Loops \ {t} : batch'[u] = batch[u]
  BY <1>1, TailFacts
<1>3. batch' \in [Loops -> Seq(Message)]
  BY <1>1, <1>2
<1>4. ASSUME NEW u \in Loops, NEW i \in 1..Len(batch'[u]) PROVE Numbered(batch'[u][i])
  BY <1>2 DEF FeedInv, PartialsNumbered
<1>5. PartialsNumbered'
  BY <1>4 DEF FeedInv, PartialsNumbered, Loops
<1> QED BY <1>3, <1>5 DEF FeedInv, FeedOK, LinkedLoops, Loops

LEMMA SameFeed ==
  ASSUME FeedInv, UNCHANGED <<openBar, nextSrc, inbox, linked, gen, redelivered, batch>>,
         rests' \in 0..MaxRest
  PROVE  FeedInv'
BY DEF FeedInv, FeedOK, LinkedLoops, PartialsNumbered, Loops

(***************************************************************************)
(* Broadcasts and clients.                                                 *)
(***************************************************************************)
CastOK ==
  /\ cast \in [Tasks -> {Nothing} \cup [event : Event, left : SUBSET Clients]]
  /\ sending \in [Clients -> Seq(Tasks)]
  /\ live \in {Nothing} \cup Event
  /\ finalized \in Seq(Bars) /\ Len(finalized) <= FinalizedLimit
  /\ lastSrc \in 0..MaxMessages
  /\ eventSeq \in Nat
  /\ conn \in [Clients -> {"out", "open", "closing"}]
  /\ sub \subseteq Clients
  /\ got \in [Clients -> SUBSET (1..eventSeq)]

(* A send that has not returned is that of a broadcast under way.          *)
SendingBusy ==
  \A c \in Clients : \A i \in 1..Len(sending[c]) :
    cast[sending[c][i]] \in [event : Event, left : SUBSET Clients]

(* A number that is broadcast or kept has been given out.                  *)
SeqBounded ==
  /\ \A t \in Tasks : cast[t] # Nothing => cast[t].event.seq \in 1..eventSeq
  /\ live # Nothing => live.seq \in 1..eventSeq

CastInv == CastOK /\ SendingBusy /\ SeqBounded

(* The broadcast of a task to the clients still to come.                   *)
Broadcast == [event : Event, left : SUBSET Clients]

Written(t, e, ahead, queue, S) ==
  /\ cast' \in [Tasks -> {Nothing} \cup Broadcast]
  /\ cast'[t] \in Broadcast /\ cast'[t].event = e /\ cast'[t].left \subseteq ahead
  /\ \A u \in Tasks \ {t} : cast'[u] = cast[u]
  /\ sending' \in [Clients -> Seq(Tasks)]
  /\ \A c \in Clients : \A i \in 1..Len(sending'[c]) :
       sending'[c][i] = t \/ (i \in 1..Len(queue[c]) /\ sending'[c][i] = queue[c][i])
  /\ \A c \in Clients : \A i \in 1..Len(queue[c]) :
       i \in 1..Len(sending'[c]) /\ sending'[c][i] = queue[c][i]
  /\ cast'[t].left = {} \/ \E c \in Clients : \E i \in 1..Len(sending'[c]) : sending'[c][i] = t
  /\ got' \in [Clients -> SUBSET S]
  /\ \A c \in Clients : got[c] \subseteq got'[c]
  /\ \A c \in ahead : Receives(c) => c \in cast'[t].left \/ e.seq \in got'[c]

LEMMA BroadcastFacts ==
  ASSUME CastOK, NEW t \in Tasks, NEW e \in Event, NEW ahead \in SUBSET Clients,
         NEW queue \in [Clients -> Seq(Tasks)], NEW S, got \in [Clients -> SUBSET S], e.seq \in S,
         Broadcasting(t, e, ahead, queue)
  PROVE  Written(t, e, ahead, queue, S)
<1> DEFINE to == {c \in ahead : Receives(c)}
<1>1. cast \in [Tasks -> {Nothing} \cup Broadcast]
  BY DEF CastOK, Broadcast
<1>2. CASE /\ to = {}
           /\ cast' = [cast EXCEPT ![t] = [event |-> e, left |-> {}]]
           /\ sending' = queue
           /\ UNCHANGED got
  <2>1. [event |-> e, left |-> {}] \in Broadcast
    BY DEF Broadcast
  <2>2. \A c \in ahead : ~Receives(c)
    BY <1>2
  <2> QED BY <1>1, <1>2, <2>1, <2>2 DEF Written
<1>3. ASSUME NEW c \in to,
             \A d \in to : c <= d,
             cast' = [cast EXCEPT ![t] = [event |-> e, left |-> {d \in ahead : d > c}]],
             sending' = [queue EXCEPT ![c] = Append(queue[c], t)],
             got' = [got EXCEPT ![c] = got[c] \cup {e.seq}]
      PROVE  Written(t, e, ahead, queue, S)
  <2>1. c \in Clients /\ c \in ahead /\ ahead \subseteq Nat
    BY FanoutAssumption
  <2>2. [event |-> e, left |-> {d \in ahead : d > c}] \in Broadcast
    BY DEF Broadcast
  <2>3. /\ cast' \in [Tasks -> {Nothing} \cup Broadcast]
        /\ cast'[t] = [event |-> e, left |-> {d \in ahead : d > c}]
        /\ \A u \in Tasks \ {t} : cast'[u] = cast[u]
    BY <1>1, <1>3, <2>2
  <2>4. /\ queue[c] \in Seq(Tasks)
        /\ sending'[c] = Append(queue[c], t)
        /\ \A d \in Clients \ {c} : sending'[d] = queue[d]
    BY <1>3, <2>1
  <2>5. /\ sending'[c] \in Seq(Tasks)
        /\ \A i \in 1..Len(sending'[c]) :
             sending'[c][i] = t \/ (i \in 1..Len(queue[c]) /\ sending'[c][i] = queue[c][i])
        /\ \A i \in 1..Len(queue[c]) : i \in 1..Len(sending'[c]) /\ sending'[c][i] = queue[c][i]
        /\ \E i \in 1..Len(sending'[c]) : sending'[c][i] = t
    BY <2>4, AppendFacts
  <2>6. sending' \in [Clients -> Seq(Tasks)]
    BY <1>3, <2>1, <2>4, <2>5
  <2>7. /\ got' \in [Clients -> SUBSET S]
        /\ \A d \in Clients : got[d] \subseteq got'[d]
        /\ e.seq \in got'[c]
    BY <1>1, <1>3, <2>1
  <2>8. \A d \in ahead : Receives(d) => d = c \/ d > c
    BY <1>3, <2>1
  <2>9. cast'[t] \in Broadcast /\ cast'[t].event = e /\ cast'[t].left = {d \in ahead : d > c}
    BY <2>2, <2>3
  <2> QED BY <2>1, <2>3, <2>4, <2>5, <2>6, <2>7, <2>8, <2>9 DEF Written
<1>4. CASE \E c \in to :
             /\ \A d \in to : c <= d
             /\ cast' = [cast EXCEPT ![t] = [event |-> e, left |-> {d \in ahead : d > c}]]
             /\ sending' = [queue EXCEPT ![c] = Append(queue[c], t)]
             /\ got' = [got EXCEPT ![c] = got[c] \cup {e.seq}]
  BY <1>3, <1>4
<1> QED BY <1>2, <1>4 DEF Broadcasting, Arrives

(* An accepted event is numbered next; what it leaves of the state.        *)
LEMMA AcceptFacts ==
  ASSUME CastInv, NEW t \in Tasks, NEW m \in Message, Accepts(t, m),
         NEW e, e = [msg |-> m, seq |-> eventSeq + 1]
  PROVE  /\ e \in Event /\ e.msg = m /\ e.seq = eventSeq + 1
         /\ eventSeq' = eventSeq + 1
         /\ ~Refused(m)
         /\ live' = live \/ (live' = e /\ (live = Nothing \/ m.bar >= live.msg.bar))
         /\ m.kind = "reconcile" => live' = live
         /\ live' = Nothing => m.kind = "reconcile"
         /\ lastSrc' \in 0..MaxMessages /\ lastSrc' >= lastSrc
         /\ m.kind # "reconcile" => lastSrc' >= m.src
         /\ finalized' \in Seq(Bars) /\ Len(finalized') <= FinalizedLimit
<1>1. /\ eventSeq \in Nat /\ lastSrc \in 0..MaxMessages /\ m.src \in 0..MaxMessages /\ m.bar \in Bars
      /\ finalized \in Seq(Bars) /\ Len(finalized) <= FinalizedLimit
      /\ live = Nothing \/ live \in Event
  BY DEF CastInv, CastOK, Message
<1>2. e \in Event /\ e.msg = m /\ e.seq = eventSeq + 1 /\ e # Nothing
  BY <1>1, NothingAssumption DEF Event
<1>3. CASE m.kind = "reconcile"
  BY <1>1, <1>2, <1>3 DEF Accepts, Accept
<1>4. CASE m.kind # "reconcile"
  <2>1. KeepState(m) /\ ~Refused(m)
    BY <1>4 DEF Accepts, Accept
  <2>2. finalized' \in Seq(Bars) /\ Len(finalized') <= FinalizedLimit
    <3>1. /\ Append(finalized, m.bar) \in Seq(Bars)
          /\ Len(Append(finalized, m.bar)) = Len(finalized) + 1
          /\ Append(finalized, m.bar) # <<>>
      BY <1>1, AppendFacts
    <3>2. /\ Tail(Append(finalized, m.bar)) \in Seq(Bars)
          /\ Len(Tail(Append(finalized, m.bar))) = Len(finalized)
      BY <1>1, <3>1, TailFacts
    <3>3. finalized' \in {finalized, Tail(Append(finalized, m.bar)), Append(finalized, m.bar)}
          /\ (finalized' = Append(finalized, m.bar) =>
                \/ Len(Append(finalized, m.bar)) <= FinalizedLimit
                \/ finalized' = Tail(Append(finalized, m.bar)))
      BY <1>1, <2>1, <3>1, FanoutAssumption DEF KeepState, Remember
    <3> QED BY <1>1, <3>1, <3>2, <3>3
  <2>3. /\ eventSeq' = eventSeq + 1
        /\ live' = IF live = Nothing \/ m.bar >= live.msg.bar THEN e ELSE live
        /\ lastSrc' = IF m.src > lastSrc THEN m.src ELSE lastSrc
    BY <2>1 DEF KeepState
  <2> QED BY <1>1, <1>2, <1>4, <2>1, <2>2, <2>3
<1> QED BY <1>3, <1>4

LEMMA AcceptCasts ==
  ASSUME CastInv, NEW t \in Tasks, NEW m \in Message, Accepts(t, m),
         NEW e, e = [msg |-> m, seq |-> eventSeq + 1]
  PROVE  /\ cast[t] = Nothing
         /\ cast' \in [Tasks -> {Nothing} \cup Broadcast]
         /\ cast'[t] \in Broadcast /\ cast'[t].event = e
         /\ \A u \in Tasks \ {t} : cast'[u] = cast[u]
         /\ sending' \in [Clients -> Seq(Tasks)]
         /\ \A c \in Clients : \A i \in 1..Len(sending'[c]) :
              sending'[c][i] = t \/ (i \in 1..Len(sending[c]) /\ sending'[c][i] = sending[c][i])
         /\ \A c \in Clients : \A i \in 1..Len(sending[c]) :
              i \in 1..Len(sending'[c]) /\ sending'[c][i] = sending[c][i]
         /\ cast'[t].left = {} \/ \E c \in Clients : \E i \in 1..Len(sending'[c]) : sending'[c][i] = t
         /\ got' \in [Clients -> SUBSET (1..(eventSeq + 1))]
         /\ \A c \in Clients : got[c] \subseteq got'[c]
         /\ \A c \in Clients : Receives(c) => c \in cast'[t].left \/ e.seq \in got'[c]
<1>1. e \in Event /\ e.seq \in 1..(eventSeq + 1) /\ CastOK
  BY AcceptFacts DEF CastInv, CastOK
<1>2. got \in [Clients -> SUBSET (1..(eventSeq + 1))]
  BY DEF CastInv, CastOK
<1>3. PICK ahead : ahead = Registered
  OBVIOUS
<1>4. PICK queue : queue = sending
  OBVIOUS
<1>5. PICK S : S = 1..(eventSeq + 1)
  OBVIOUS
<1>6. ahead \in SUBSET Clients /\ queue \in [Clients -> Seq(Tasks)] /\ cast[t] = Nothing
  BY <1>3, <1>4 DEF Registered, CastInv, CastOK, Accepts
<1>7. Broadcasting(t, e, ahead, queue)
  BY <1>3, <1>4 DEF Accepts, Accept
<1>8. \A c \in Clients : Receives(c) => c \in ahead
  BY <1>3 DEF Receives, Registered
<1>9. e.seq \in S /\ got \in [Clients -> SUBSET S]
  BY <1>1, <1>2, <1>5
<1>10. Written(t, e, ahead, queue, S)
  BY <1>1, <1>6, <1>7, <1>9, BroadcastFacts
<1> QED BY <1>4, <1>5, <1>6, <1>8, <1>10 DEF Written

LEMMA GoesOnCasts ==
  ASSUME CastInv, NEW t \in Tasks, NEW c \in Clients, GoesOn(t, c)
  PROVE  /\ cast[t] \in Broadcast
         /\ cast' \in [Tasks -> {Nothing} \cup Broadcast]
         /\ cast'[t] \in Broadcast /\ cast'[t].event = cast[t].event
         /\ \A u \in Tasks \ {t} : cast'[u] = cast[u]
         /\ sending' \in [Clients -> Seq(Tasks)]
         /\ \A d \in Clients : \A i \in 1..Len(sending'[d]) :
              sending'[d][i] = t \/ \E j \in 1..Len(sending[d]) : sending'[d][i] = sending[d][j]
         /\ \A d \in Clients : \A i \in 1..Len(sending[d]) :
              sending[d][i] = t \/ \E j \in 1..Len(sending'[d]) : sending'[d][j] = sending[d][i]
         /\ cast'[t].left = {} \/ \E d \in Clients : \E i \in 1..Len(sending'[d]) : sending'[d][i] = t
         /\ got' \in [Clients -> SUBSET (1..eventSeq)]
         /\ \A d \in Clients : got[d] \subseteq got'[d]
         /\ \A d \in cast[t].left : Receives(d) => d \in cast'[t].left \/ cast[t].event.seq \in got'[d]
<1>1. /\ sending \in [Clients -> Seq(Tasks)] /\ sending[c] \in Seq(Tasks) /\ sending[c] # <<>>
      /\ sending[c][1] = t /\ 1 \in 1..Len(sending[c])
      /\ CastOK
  BY TailFacts DEF CastInv, CastOK, GoesOn, Waits
<1>2. cast[t] \in Broadcast /\ cast[t] # Nothing
  BY <1>1, NothingAssumption DEF CastInv, SendingBusy, Broadcast
<1>3. PICK e : e = cast[t].event
  OBVIOUS
<1>4. PICK ahead : ahead = cast[t].left
  OBVIOUS
<1>5. PICK queue : queue = [sending EXCEPT ![c] = Tail(sending[c])]
  OBVIOUS
<1>6. PICK S : S = 1..eventSeq
  OBVIOUS
<1>7. e \in Event /\ ahead \in SUBSET Clients /\ e.seq \in S
  BY <1>2, <1>3, <1>4, <1>6 DEF Broadcast, CastInv, SeqBounded
<1>8. /\ queue \in [Clients -> Seq(Tasks)]
      /\ queue[c] = Tail(sending[c])
      /\ \A d \in Clients \ {c} : queue[d] = sending[d]
  BY <1>1, <1>5, TailFacts
<1>9. Broadcasting(t, e, ahead, queue)
  BY <1>3, <1>4, <1>5 DEF GoesOn
<1>10. got \in [Clients -> SUBSET S]
  BY <1>1, <1>6 DEF CastOK
<1>11. Written(t, e, ahead, queue, S)
  BY <1>1, <1>7, <1>8, <1>9, <1>10, BroadcastFacts
<1>12. /\ \A i \in 1..Len(queue[c]) : queue[c][i] = sending[c][i + 1] /\ i + 1 \in 1..Len(sending[c])
       /\ \A i \in 1..Len(sending[c]) :
            i = 1 \/ (i - 1 \in 1..Len(queue[c]) /\ queue[c][i - 1] = sending[c][i])
  BY <1>1, <1>8, TailFacts
<1>13. ASSUME NEW d \in Clients, NEW i \in 1..Len(sending'[d])
       PROVE  sending'[d][i] = t \/ \E j \in 1..Len(sending[d]) : sending'[d][i] = sending[d][j]
  <2>1. CASE d = c
    <3>1. sending'[c][i] = t \/ (i \in 1..Len(queue[c]) /\ sending'[c][i] = queue[c][i])
      BY <1>11, <2>1 DEF Written
    <3>2. CASE sending'[c][i] = t
      BY <2>1, <3>2
    <3>3. CASE i \in 1..Len(queue[c]) /\ sending'[c][i] = queue[c][i]
      <4>1. sending'[c][i] = sending[c][i + 1] /\ i + 1 \in 1..Len(sending[c])
        BY <1>12, <3>3
      <4> QED BY <2>1, <4>1
    <3> QED BY <3>1, <3>2, <3>3
  <2>2. CASE d # c
    <3>1. queue[d] = sending[d]
      BY <1>8, <2>2
    <3>2. sending'[d][i] = t \/ (i \in 1..Len(queue[d]) /\ sending'[d][i] = queue[d][i])
      BY <1>11 DEF Written
    <3> QED BY <3>1, <3>2
  <2> QED BY <2>1, <2>2
<1>14. ASSUME NEW d \in Clients, NEW i \in 1..Len(sending[d])
       PROVE  sending[d][i] = t \/ \E j \in 1..Len(sending'[d]) : sending'[d][j] = sending[d][i]
  <2>1. CASE d = c
    <3>1. CASE i = 1
      BY <1>1, <2>1, <3>1
    <3>2. CASE i # 1
      <4>1. i - 1 \in 1..Len(queue[c]) /\ queue[c][i - 1] = sending[c][i]
        BY <1>12, <2>1, <3>2
      <4>2. i - 1 \in 1..Len(sending'[c]) /\ sending'[c][i - 1] = queue[c][i - 1]
        BY <1>11, <4>1 DEF Written
      <4> QED BY <2>1, <4>1, <4>2
    <3> QED BY <3>1, <3>2
  <2>2. CASE d # c
    <3>1. queue[d] = sending[d]
      BY <1>8, <2>2
    <3>2. i \in 1..Len(sending'[d]) /\ sending'[d][i] = queue[d][i]
      BY <1>11, <3>1 DEF Written
    <3> QED BY <3>1, <3>2
  <2> QED BY <2>1, <2>2
<1> QED BY <1>2, <1>3, <1>4, <1>6, <1>11, <1>13, <1>14 DEF Written

(* Every step is of one of five kinds.                                     *)
LEMMA StepKinds ==
  ASSUME FeedInv, [Next]_vars
  PROVE  \/ Quiet
         \/ \E t \in Tasks, m \in Message : Numbered(m) /\ Accepts(t, m)
         \/ \E t \in Tasks, c \in Clients : GoesOn(t, c)
         \/ \E t \in Tasks : CastDone(t)
         \/ \E c \in Clients : ClientStep(c)
<1>1. UNCHANGED vars => Quiet
  BY DEF vars, Quiet
<1>2. \A kind \in Kinds, bar \in Bars : Publish(kind, bar) => Quiet
  BY DEF Publish, Quiet, castVars, stateVars, clientVars
<1>3. Connect => Quiet
  BY DEF Connect, Quiet, castVars, stateVars, clientVars
<1>4. \A l \in Lanes : ConnectionFails(l) \/ Fetch(l) => Quiet
  BY DEF ConnectionFails, Fetch, Quiet, castVars, stateVars, clientVars
<1>5. \A l \in Lanes, i \in 1..MaxMessages : Redeliver(l, i) => Quiet
  BY DEF Redeliver, Quiet, castVars, stateVars, clientVars
<1>6. ASSUME NEW bar \in Bars, RestConfirmed(bar)
      PROVE  Quiet \/ \E t \in Tasks, m \in Message : Numbered(m) /\ Accepts(t, m)
  <2>1. PICK m : m = [kind |-> "final", bar |-> bar, src |-> 0]
    OBVIOUS
  <2>2. m \in Message /\ Numbered(m) /\ Rest \in Tasks
    BY <2>1, FanoutAssumption DEF Message, Kinds, Numbered, Tasks
  <2>3. \/ Refused(m) /\ UNCHANGED <<stateVars, castVars, got>>
        \/ Accept(Rest, m)
    BY <1>6, <2>1 DEF RestConfirmed
  <2>4. cast[Rest] = Nothing /\ UNCHANGED <<conn, sub>>
    BY <1>6 DEF RestConfirmed
  <2> QED BY <2>2, <2>3, <2>4 DEF Quiet, Accepts, castVars, stateVars
<1>7. ASSUME NEW t \in Loops, Handle(t)
      PROVE  Quiet \/ \E u \in Tasks, m \in Message : Numbered(m) /\ Accepts(u, m)
  <2>1. PICK m : m = Head(batch[t])
    OBVIOUS
  <2>2. batch[t] \in Seq(Message) /\ batch[t] # <<>> /\ t \in Tasks
    BY <1>7 DEF FeedInv, FeedOK, Handle, Tasks
  <2>3. m \in Message /\ m = batch[t][1] /\ 1 \in 1..Len(batch[t])
    BY <2>1, <2>2, TailFacts
  <2>4. Numbered(m)
    BY <2>3 DEF FeedInv, PartialsNumbered
  <2>5. \/ Refused(m) /\ UNCHANGED <<stateVars, castVars, got>>
        \/ Accept(t, m)
    BY <1>7, <2>1 DEF Handle
  <2>6. cast[t] = Nothing /\ UNCHANGED <<conn, sub>>
    BY <1>7 DEF Handle
  <2> QED BY <2>2, <2>3, <2>4, <2>5, <2>6 DEF Quiet, Accepts, castVars, stateVars
<1>8. \A t \in Tasks, c \in Clients : SendReturns(t, c) => GoesOn(t, c)
  BY DEF SendReturns, GoesOn, stateVars
<1>9. \A t \in Tasks, c \in Clients : SendRaises(t, c) => GoesOn(t, c)
  BY DEF SendRaises, GoesOn, stateVars
<1>10. ASSUME NEW t \in Tasks, TaskStep(t)
       PROVE  \/ Quiet
              \/ \E u \in Tasks, m \in Message : Numbered(m) /\ Accepts(u, m)
              \/ \E u \in Tasks, c \in Clients : GoesOn(u, c)
              \/ CastDone(t)
  BY <1>7, <1>8, <1>9, <1>10 DEF TaskStep, Sends
<1> QED BY <1>1, <1>2, <1>3, <1>4, <1>5, <1>6, <1>10 DEF Next

(***************************************************************************)
(* Types of the broadcasts and of what the clients have.                   *)
(***************************************************************************)
LEMMA CastInit == Init => CastInv
<1> SUFFICES ASSUME Init PROVE CastInv
  OBVIOUS
<1>1. /\ cast \in [Tasks -> {Nothing} \cup [event : Event, left : SUBSET Clients]]
      /\ sending \in [Clients -> Seq(Tasks)]
      /\ finalized \in Seq(Bars) /\ Len(finalized) <= FinalizedLimit
      /\ lastSrc \in 0..MaxMessages
      /\ conn \in [Clients -> {"out", "open", "closing"}]
      /\ got \in [Clients -> SUBSET (1..eventSeq)]
  BY FanoutAssumption DEF Init
<1>2. CastOK
  BY <1>1 DEF Init, CastOK
<1> QED BY <1>2 DEF Init, CastInv, SendingBusy, SeqBounded

LEMMA AcceptKeepsCasts ==
  ASSUME CastInv, NEW t \in Tasks, NEW m \in Message, Accepts(t, m)
  PROVE  CastInv'
<1>1. PICK e : e = [msg |-> m, seq |-> eventSeq + 1]
  OBVIOUS
<1>2. /\ e \in Event /\ e.seq = eventSeq + 1
      /\ eventSeq \in Nat /\ eventSeq' = eventSeq + 1
      /\ live' = live \/ live' = e
      /\ lastSrc' \in 0..MaxMessages
      /\ finalized' \in Seq(Bars) /\ Len(finalized') <= FinalizedLimit
  BY <1>1, AcceptFacts DEF CastInv, CastOK
<1>3. /\ cast' \in [Tasks -> {Nothing} \cup Broadcast]
      /\ cast'[t] \in Broadcast /\ cast'[t].event = e
      /\ \A u \in Tasks \ {t} : cast'[u] = cast[u]
      /\ sending' \in [Clients -> Seq(Tasks)]
      /\ got' \in [Clients -> SUBSET (1..(eventSeq + 1))]
  BY <1>1, AcceptCasts
<1>4. \A c \in Clients : \A i \in 1..Len(sending'[c]) :
        sending'[c][i] = t \/ (i \in 1..Len(sending[c]) /\ sending'[c][i] = sending[c][i])
  BY <1>1, AcceptCasts
<1>5. CastOK'
  BY <1>2, <1>3 DEF CastInv, CastOK, Broadcast, Accepts
<1>6. SendingBusy'
  <2> SUFFICES ASSUME NEW c \in Clients, NEW i \in 1..Len(sending'[c])
               PROVE  cast'[sending'[c][i]] \in Broadcast
    BY DEF SendingBusy, Broadcast
  <2>1. CASE sending'[c][i] = t
    BY <1>3, <2>1
  <2>2. CASE sending'[c][i] # t
    <3>1. i \in 1..Len(sending[c]) /\ sending'[c][i] = sending[c][i]
      BY <1>4, <2>2
    <3>2. sending[c][i] \in Tasks
      BY <3>1 DEF CastInv, CastOK
    <3>3. cast[sending[c][i]] \in Broadcast
      BY <3>1 DEF CastInv, SendingBusy, Broadcast
    <3> QED BY <1>3, <2>2, <3>1, <3>2, <3>3
  <2> QED BY <2>1, <2>2
<1>7. SeqBounded'
  <2>1. ASSUME NEW u \in Tasks, cast'[u] # Nothing PROVE cast'[u].event.seq \in 1..eventSeq'
    BY <1>2, <1>3, <2>1 DEF CastInv, SeqBounded
  <2>2. live' # Nothing => live'.seq \in 1..eventSeq'
    BY <1>2 DEF CastInv, SeqBounded
  <2> QED BY <2>1, <2>2 DEF SeqBounded, Tasks, Loops
<1> QED BY <1>5, <1>6, <1>7 DEF CastInv

LEMMA GoesOnKeepsCasts ==
  ASSUME CastInv, NEW t \in Tasks, NEW c \in Clients, GoesOn(t, c)
  PROVE  CastInv'
<1>1. /\ cast[t] \in Broadcast
      /\ cast' \in [Tasks -> {Nothing} \cup Broadcast]
      /\ cast'[t] \in Broadcast /\ cast'[t].event = cast[t].event
      /\ \A u \in Tasks \ {t} : cast'[u] = cast[u]
      /\ sending' \in [Clients -> Seq(Tasks)]
      /\ got' \in [Clients -> SUBSET (1..eventSeq)]
  BY GoesOnCasts
<1>2. \A d \in Clients : \A i \in 1..Len(sending'[d]) :
        sending'[d][i] = t \/ \E j \in 1..Len(sending[d]) : sending'[d][i] = sending[d][j]
  BY GoesOnCasts
<1>3. conn' \in [Clients -> {"out", "open", "closing"}] /\ UNCHANGED <<live, finalized, lastSrc, eventSeq, sub>>
  BY DEF GoesOn, CastInv, CastOK
<1>4. CastOK'
  BY <1>1, <1>3 DEF CastInv, CastOK, Broadcast
<1>5. SendingBusy'
  <2> SUFFICES ASSUME NEW d \in Clients, NEW i \in 1..Len(sending'[d])
               PROVE  cast'[sending'[d][i]] \in Broadcast
    BY DEF SendingBusy, Broadcast
  <2>1. CASE sending'[d][i] = t
    BY <1>1, <2>1
  <2>2. CASE sending'[d][i] # t
    <3>1. PICK j \in 1..Len(sending[d]) : sending'[d][i] = sending[d][j]
      BY <1>2, <2>2
    <3>2. sending[d][j] \in Tasks /\ cast[sending[d][j]] \in Broadcast
      BY <3>1 DEF CastInv, CastOK, SendingBusy, Broadcast
    <3> QED BY <1>1, <2>2, <3>1, <3>2
  <2> QED BY <2>1, <2>2
<1>6. SeqBounded'
  <2>1. cast[t] # Nothing
    BY <1>1, NothingAssumption DEF Broadcast
  <2>2. ASSUME NEW u \in Tasks, cast'[u] # Nothing PROVE cast'[u].event.seq \in 1..eventSeq'
    BY <1>1, <1>3, <2>1, <2>2 DEF CastInv, SeqBounded
  <2> QED BY <1>3, <2>2 DEF CastInv, SeqBounded, Tasks, Loops
<1> QED BY <1>4, <1>5, <1>6 DEF CastInv

LEMMA CastDoneKeepsCasts ==
  ASSUME CastInv, NEW t \in Tasks, CastDone(t)
  PROVE  CastInv'
<1>1. /\ cast' = [cast EXCEPT ![t] = Nothing]
      /\ \A c \in Clients : \A i \in 1..Len(sending[c]) : sending[c][i] # t
      /\ UNCHANGED <<sending, live, finalized, lastSrc, eventSeq, conn, sub, got>>
  BY DEF CastDone, stateVars, clientVars
<1>2. /\ cast' \in [Tasks -> {Nothing} \cup [event : Event, left : SUBSET Clients]]
      /\ cast'[t] = Nothing /\ \A u \in Tasks \ {t} : cast'[u] = cast[u]
  BY <1>1 DEF CastInv, CastOK
<1>3. CastOK'
  BY <1>1, <1>2 DEF CastInv, CastOK
<1>4. SendingBusy'
  <2>1. \A c \in Clients : \A i \in 1..Len(sending[c]) : sending[c][i] \in Tasks \ {t}
    BY <1>1 DEF CastInv, CastOK
  <2> QED BY <1>1, <1>2, <2>1 DEF CastInv, SendingBusy
<1>5. SeqBounded'
  BY <1>1, <1>2 DEF CastInv, SeqBounded, Tasks, Loops
<1> QED BY <1>3, <1>4, <1>5 DEF CastInv

(* A client that leaves is left out of the broadcasts under way.           *)
LEMMA UnregisterFacts ==
  ASSUME CastInv, NEW c \in Clients, Unregister(c)
  PROVE  /\ cast' \in [Tasks -> {Nothing} \cup Broadcast]
         /\ \A t \in Tasks : cast[t] = Nothing => cast'[t] = Nothing
         /\ \A t \in Tasks : cast[t] # Nothing =>
              /\ cast[t] \in Broadcast /\ cast'[t] \in Broadcast
              /\ cast'[t] # Nothing
              /\ cast'[t].event = cast[t].event
              /\ cast'[t].left = cast[t].left \ {c}
<1>1. cast \in [Tasks -> {Nothing} \cup Broadcast]
  BY DEF CastInv, CastOK, Broadcast
<1>2. cast' = [t \in Tasks |-> IF cast[t] = Nothing THEN Nothing
                               ELSE [cast[t] EXCEPT !.left = cast[t].left \ {c}]]
  BY DEF Unregister
<1>3. ASSUME NEW t \in Tasks, cast[t] # Nothing
      PROVE  /\ cast[t] \in Broadcast /\ cast'[t] \in Broadcast
             /\ cast'[t] # Nothing
             /\ cast'[t].event = cast[t].event
             /\ cast'[t].left = cast[t].left \ {c}
  <2>1. cast[t] \in Broadcast
    BY <1>1, <1>3
  <2>2. cast'[t] = [event |-> cast[t].event, left |-> cast[t].left \ {c}]
    BY <1>2, <1>3, <2>1 DEF Broadcast
  <2>3. cast'[t] \in Broadcast
    BY <2>1, <2>2 DEF Broadcast
  <2> QED BY <2>1, <2>2, <2>3, NothingAssumption DEF Broadcast
<1>4. \A t \in Tasks : cast[t] = Nothing => cast'[t] = Nothing
  BY <1>2
<1>5. cast' \in [Tasks -> {Nothing} \cup Broadcast]
  <2>1. \A t \in Tasks : cast'[t] \in {Nothing} \cup Broadcast
    BY <1>3, <1>4
  <2>2. cast' = [t \in Tasks |-> cast'[t]]
    BY <1>2
  <2> QED BY <2>1, <2>2
<1> QED BY <1>3, <1>4, <1>5

LEMMA ClientKeepsCasts ==
  ASSUME CastInv, NEW c \in Clients, ClientStep(c)
  PROVE  CastInv'
<1>1. CASE Register(c) \/ Subscribe(c) \/ Unsubscribe(c)
  <2>1. UNCHANGED <<cast, sending, live, finalized, lastSrc, eventSeq>>
    BY <1>1 DEF Register, Subscribe, Unsubscribe, castVars, stateVars
  <2>2. /\ conn' \in [Clients -> {"out", "open", "closing"}] /\ sub' \subseteq Clients
        /\ got' \in [Clients -> SUBSET (1..eventSeq)]
    <3>1. CASE Register(c)
      BY <3>1 DEF Register, CastInv, CastOK
    <3>2. CASE Subscribe(c)
      BY <3>2 DEF Subscribe, CastInv, CastOK, SeqBounded
    <3>3. CASE Unsubscribe(c)
      BY <3>3 DEF Unsubscribe, Forget, CastInv, CastOK
    <3> QED BY <1>1, <3>1, <3>2, <3>3
  <2> QED BY <2>1, <2>2 DEF CastInv, CastOK, SendingBusy, SeqBounded, Tasks, Loops
<1>2. CASE Unregister(c)
  <2>1. UNCHANGED <<sending, live, finalized, lastSrc, eventSeq>>
    BY <1>2 DEF Unregister, stateVars
  <2>2. /\ cast' \in [Tasks -> {Nothing} \cup Broadcast]
        /\ \A t \in Tasks : cast[t] = Nothing => cast'[t] = Nothing
        /\ \A t \in Tasks : cast[t] # Nothing =>
             cast'[t] \in Broadcast /\ cast'[t].event = cast[t].event
    BY <1>2, UnregisterFacts
  <2>3. /\ conn' \in [Clients -> {"out", "open", "closing"}] /\ sub' \subseteq Clients
        /\ got' \in [Clients -> SUBSET (1..eventSeq)]
    BY <1>2 DEF Unregister, Forget, CastInv, CastOK
  <2>4. CastOK'
    BY <2>1, <2>2, <2>3 DEF CastInv, CastOK, Broadcast
  <2>5. SendingBusy'
    <3> SUFFICES ASSUME NEW d \in Clients, NEW i \in 1..Len(sending[d])
                 PROVE  cast'[sending[d][i]] \in Broadcast
      BY <2>1 DEF SendingBusy, Broadcast
    <3>1. sending[d][i] \in Tasks /\ cast[sending[d][i]] \in Broadcast
      BY DEF CastInv, CastOK, SendingBusy, Broadcast
    <3>2. cast[sending[d][i]] # Nothing
      BY <3>1, NothingAssumption DEF Broadcast
    <3> QED BY <2>2, <3>1, <3>2
  <2>6. SeqBounded'
    <3>1. ASSUME NEW t \in Tasks, cast'[t] # Nothing PROVE cast'[t].event.seq \in 1..eventSeq
      BY <2>2, <3>1 DEF CastInv, SeqBounded
    <3> QED BY <2>1, <3>1 DEF CastInv, SeqBounded, Tasks, Loops
  <2> QED BY <2>4, <2>5, <2>6 DEF CastInv
<1> QED BY <1>1, <1>2 DEF ClientStep

LEMMA CastNext ==
  ASSUME FeedInv, CastInv, [Next]_vars
  PROVE  CastInv'
<1>1. CASE Quiet
  BY <1>1 DEF Quiet, CastInv, CastOK, SendingBusy, SeqBounded, Tasks, Loops
<1> QED BY <1>1, StepKinds, AcceptKeepsCasts, GoesOnKeepsCasts, CastDoneKeepsCasts, ClientKeepsCasts

(***************************************************************************)
(* A loop that is in a broadcast holds the message the broadcast is of.    *)
(***************************************************************************)
CastsHold == \A t \in Loops : cast[t] # Nothing => batch[t] # <<>>

LEMMA CastsHoldNext ==
  ASSUME FeedInv, CastInv, CastsHold, [Next]_vars
  PROVE  CastsHold'
<1> SUFFICES ASSUME NEW t \in Loops, cast'[t] # Nothing
             PROVE  batch'[t] # <<>>
  BY DEF CastsHold, Loops
<1>0. t \in Tasks
  BY DEF Tasks
<1>1. CASE cast' = cast /\ batch' = batch
  BY <1>1 DEF CastsHold
<1>2. ASSUME NEW l \in Lanes, Fetch(l) PROVE batch'[t] # <<>>
  <2>1. cast' = cast
    BY <1>2 DEF Fetch, castVars
  <2>2. batch[t] # <<>> /\ batch[<<l, gen>>] = <<>>
    BY <1>2, <2>1 DEF CastsHold, Fetch
  <2>3. batch'[t] = batch[t]
    BY <1>2, <2>2 DEF Fetch, FeedInv, FeedOK
  <2> QED BY <2>2, <2>3
<1>3. ASSUME NEW u \in Tasks, NEW m \in Message, Accepts(u, m), batch' = batch,
             u = t => batch[t] # <<>>
      PROVE  batch'[t] # <<>>
  <2>1. \A v \in Tasks \ {u} : cast'[v] = cast[v]
    BY <1>3, AcceptCasts
  <2> QED BY <1>0, <1>3, <2>1 DEF CastsHold
<1>4. ASSUME NEW bar \in Bars, RestConfirmed(bar) PROVE batch'[t] # <<>>
  <2>1. PICK m : m = [kind |-> "final", bar |-> bar, src |-> 0]
    OBVIOUS
  <2>2. m \in Message /\ Rest \in Tasks /\ Rest # t
    BY <2>1, FanoutAssumption DEF Message, Kinds, Tasks, Loops, Lanes, Rest
  <2>3. cast' = cast \/ Accepts(Rest, m)
    BY <1>4, <2>1 DEF RestConfirmed, Accepts, castVars
  <2> QED BY <1>1, <1>3, <1>4, <2>2, <2>3 DEF RestConfirmed
<1>5. ASSUME NEW u \in Loops, Handle(u) PROVE batch'[t] # <<>>
  <2>1. CASE cast' = cast /\ batch' = [batch EXCEPT ![u] = Tail(batch[u])]
    <3>1. t # u
      BY <1>5, <2>1 DEF Handle
    <3>2. batch'[t] = batch[t]
      BY <2>1, <3>1 DEF FeedInv, FeedOK
    <3> QED BY <2>1, <3>2 DEF CastsHold
  <2>2. CASE Accept(u, Head(batch[u])) /\ batch' = batch
    <3>1. PICK m : m = Head(batch[u])
      OBVIOUS
    <3>2. batch[u] \in Seq(Message) /\ batch[u] # <<>> /\ u \in Tasks
      BY <1>5 DEF FeedInv, FeedOK, Handle, Tasks
    <3>3. m \in Message
      BY <3>1, <3>2, TailFacts
    <3>4. Accepts(u, m)
      BY <1>5, <2>2, <3>1 DEF Handle, Accepts
    <3> QED BY <1>3, <2>2, <3>2, <3>3, <3>4
  <2> QED BY <1>5, <2>1, <2>2 DEF Handle, castVars
<1>6. ASSUME NEW u \in Tasks, NEW c \in Clients, GoesOn(u, c), batch' = batch
      PROVE  batch'[t] # <<>>
  <2>1. cast[u] # Nothing /\ \A v \in Tasks \ {u} : cast'[v] = cast[v]
    BY <1>6, GoesOnCasts, NothingAssumption DEF Broadcast
  <2> QED BY <1>0, <1>6, <2>1 DEF CastsHold
<1>7. ASSUME NEW u \in Tasks, CastDone(u) PROVE batch'[t] # <<>>
  <2>1. t # u /\ cast'[t] = cast[t]
    BY <1>0, <1>7 DEF CastDone, CastInv, CastOK
  <2>2. batch'[t] = batch[t]
    BY <1>7, <2>1 DEF CastDone, FeedInv, FeedOK
  <2> QED BY <2>1, <2>2 DEF CastsHold
<1>8. ASSUME NEW c \in Clients, ClientStep(c) PROVE batch'[t] # <<>>
  <2>1. batch' = batch
    BY <1>8 DEF ClientStep, Register, Subscribe, Unsubscribe, Unregister
  <2>2. cast[t] # Nothing
    <3>1. CASE Unregister(c)
      BY <1>0, <3>1, UnregisterFacts
    <3>2. CASE ~Unregister(c)
      BY <1>8, <3>2 DEF ClientStep, Register, Subscribe, Unsubscribe, castVars
    <3> QED BY <3>1, <3>2
  <2> QED BY <2>1, <2>2 DEF CastsHold
<1>9. \A u \in Tasks, c \in Clients :
        SendReturns(u, c) \/ SendRaises(u, c) => GoesOn(u, c) /\ batch' = batch
  BY DEF SendReturns, SendRaises, GoesOn, stateVars
<1>10. ASSUME NEW u \in Tasks, TaskStep(u) PROVE batch'[t] # <<>>
  BY <1>5, <1>6, <1>7, <1>9, <1>10 DEF TaskStep, Sends
<1>11. /\ \A kind \in Kinds, bar \in Bars : Publish(kind, bar) => cast' = cast /\ batch' = batch
       /\ Connect => cast' = cast /\ batch' = batch
       /\ \A l \in Lanes : ConnectionFails(l) => cast' = cast /\ batch' = batch
       /\ \A l \in Lanes, i \in 1..MaxMessages : Redeliver(l, i) => cast' = cast /\ batch' = batch
       /\ UNCHANGED vars => cast' = cast /\ batch' = batch
  BY DEF Publish, Connect, ConnectionFails, Redeliver, castVars, vars
<1> QED BY <1>1, <1>2, <1>4, <1>8, <1>10, <1>11 DEF Next

LEMMA FeedNext ==
  ASSUME FeedInv, CastInv, CastsHold, [Next]_vars
  PROVE  FeedInv'
<1> DEFINE Same == UNCHANGED <<openBar, nextSrc, inbox, linked, gen, redelivered, batch, rests>>
<1>1. Same => FeedInv'
  BY SameFeed DEF FeedInv, FeedOK
<1>2. ASSUME NEW kind \in Kinds, NEW bar \in Bars, Publish(kind, bar) PROVE FeedInv'
  BY <1>2, PublishKeepsFeed
<1>3. ASSUME Connect PROVE FeedInv'
  BY <1>3, ConnectKeepsFeed
<1>4. ASSUME NEW l \in Lanes, ConnectionFails(l) PROVE FeedInv'
  BY <1>4 DEF ConnectionFails, feedVars, FeedInv, FeedOK, LinkedLoops, PartialsNumbered, Loops
<1>5. ASSUME NEW l \in Lanes, Fetch(l) PROVE FeedInv'
  BY <1>5, FetchKeepsFeed
<1>6. ASSUME NEW l \in Lanes, NEW i \in 1..MaxMessages, Redeliver(l, i) PROVE FeedInv'
  BY <1>6, RedeliverKeepsFeed
<1>7. ASSUME NEW bar \in Bars, RestConfirmed(bar) PROVE FeedInv'
  <2>1. rests' \in 0..MaxRest
    BY <1>7, FanoutAssumption DEF RestConfirmed, FeedInv, FeedOK
  <2> QED BY <1>7, <2>1, SameFeed DEF RestConfirmed, feedVars, natsVars
<1>8. ASSUME NEW t \in Tasks, Sends(t) PROVE FeedInv'
  <2>1. Same
    BY <1>8 DEF Sends, SendReturns, SendRaises, feedVars, natsVars
  <2> QED BY <1>1, <2>1
<1>9. ASSUME NEW t \in Tasks, CastDone(t) PROVE FeedInv'
  <2>1. CASE t = Rest
    <3>1. Same
      BY <1>9, <2>1 DEF CastDone, feedVars, natsVars
    <3> QED BY <1>1, <3>1
  <2>2. CASE t \in Loops /\ t # Rest
    <3>1. batch[t] # <<>>
      BY <1>9, <2>2 DEF CastDone, CastsHold
    <3>2. batch' = [batch EXCEPT ![t] = Tail(batch[t])]
      BY <1>9, <2>2 DEF CastDone
    <3>3. UNCHANGED <<openBar, nextSrc, inbox, linked, gen, redelivered, rests>>
      BY <1>9 DEF CastDone, feedVars, natsVars
    <3> QED BY <2>2, <3>1, <3>2, <3>3, AckKeepsFeed
  <2> QED BY <2>1, <2>2 DEF Tasks
<1>10. ASSUME NEW t \in Loops, Handle(t) PROVE FeedInv'
  <2>1. UNCHANGED <<openBar, nextSrc, inbox, linked, gen, redelivered, rests>> /\ batch[t] # <<>>
    BY <1>10 DEF Handle, feedVars, natsVars
  <2>2. batch' = batch \/ batch' = [batch EXCEPT ![t] = Tail(batch[t])]
    BY <1>10 DEF Handle
  <2> QED BY <1>1, <2>1, <2>2, AckKeepsFeed
<1>11. ASSUME NEW c \in Clients, ClientStep(c) PROVE FeedInv'
  <2>1. Same
    BY <1>11 DEF ClientStep, Register, Subscribe, Unsubscribe, Unregister, feedVars, natsVars
  <2> QED BY <1>1, <2>1
<1>12. UNCHANGED vars => Same
  BY DEF vars
<1> HIDE DEF Same
<1> QED BY <1>1, <1>2, <1>3, <1>4, <1>5, <1>6, <1>7, <1>8, <1>9, <1>10, <1>11, <1>12
        DEF Next, TaskStep

(***************************************************************************)
(* What is always true of the types.                                       *)
(***************************************************************************)
Inv == FeedInv /\ CastInv /\ CastsHold

LEMMA InvHolds == Spec => []Inv
<1>1. Init => Inv
  <2>1. Init => CastsHold
    BY DEF Init, CastsHold, Tasks
  <2> QED BY <2>1, FeedInit, CastInit DEF Inv
<1>2. Inv /\ [Next]_vars => Inv'
  BY FeedNext, CastNext, CastsHoldNext DEF Inv
<1> QED BY <1>1, <1>2, PTL DEF Spec

(* The gateway's state, its broadcasts and what the clients have are       *)
(* always of the types the code gives them; in particular no client ever   *)
(* receives a number upsert_chart_candle_live_event() did not give out.    *)
THEOREM TypeCorrect == Spec => []TypeOK
<1>1. Inv => TypeOK
  BY DEF Inv, FeedInv, FeedOK, CastInv, CastOK, TypeOK
<1> QED BY <1>1, InvHolds, PTL

(***************************************************************************)
(* The candle state never goes back.  What is kept is no newer than the    *)
(* sequence guard, so an accepted update of the same bar is later.         *)
(***************************************************************************)
SrcKept == live # Nothing => live.msg.src <= lastSrc

(* How a step can change the candle state.                                 *)
LEMMA LiveChanges ==
  ASSUME Inv, [Next]_vars, live' # live \/ lastSrc' # lastSrc
  PROVE  \E t \in Tasks, m \in Message : Numbered(m) /\ Accepts(t, m)
<1>1. ~Quiet
  BY DEF Quiet
<1>2. \A t \in Tasks, c \in Clients : ~GoesOn(t, c)
  BY DEF GoesOn
<1>3. \A t \in Tasks : ~CastDone(t)
  BY DEF CastDone, stateVars
<1>4. \A c \in Clients : ~ClientStep(c)
  BY DEF ClientStep, Register, Subscribe, Unsubscribe, Unregister, stateVars
<1> QED BY <1>1, <1>2, <1>3, <1>4, StepKinds DEF Inv

LEMMA SrcKeptNext ==
  ASSUME Inv, SrcKept, [Next]_vars
  PROVE  SrcKept'
<1>1. CASE live' = live /\ lastSrc' = lastSrc
  BY <1>1 DEF SrcKept
<1>2. ASSUME NEW t \in Tasks, NEW m \in Message, Accepts(t, m)
      PROVE  SrcKept'
  <2>1. PICK e : e = [msg |-> m, seq |-> eventSeq + 1]
    OBVIOUS
  <2>2. /\ e.msg = m
        /\ live' = live \/ live' = e
        /\ m.kind = "reconcile" => live' = live
        /\ lastSrc' \in 0..MaxMessages /\ lastSrc' >= lastSrc
        /\ m.kind # "reconcile" => lastSrc' >= m.src
    BY <1>2, <2>1, AcceptFacts DEF Inv
  <2>3. /\ m.src \in Int /\ lastSrc \in Int /\ lastSrc' \in Int
        /\ live # Nothing => live.msg.src \in Int
    BY <2>2, FanoutAssumption DEF Inv, CastInv, CastOK, Message, Event
  <2>4. CASE live' = live
    BY <2>2, <2>3, <2>4 DEF SrcKept
  <2>5. CASE live' # live
    BY <2>2, <2>3, <2>5 DEF SrcKept
  <2> QED BY <2>4, <2>5
<1> QED BY <1>1, <1>2, LiveChanges

(* Whatever is redelivered, replayed by a left-over loop or confirmed over *)
(* HTTP, the candle state never goes back to an earlier bar, from a        *)
(* remembered final, or to an earlier update of the same bar.              *)
THEOREM LiveNeverRegressesHolds == Spec => LiveNeverRegresses
<1>1. Init => SrcKept
  BY DEF Init, SrcKept
<1>2. ASSUME Inv, SrcKept, [Next]_vars
      PROVE  [live # Nothing /\ live' # live => Later(live'.msg, live.msg)]_live
  <2> SUFFICES ASSUME live # Nothing, live' # live
               PROVE  Later(live'.msg, live.msg)
    OBVIOUS
  <2>1. PICK t \in Tasks, m \in Message : Numbered(m) /\ Accepts(t, m)
    BY <1>2, LiveChanges
  <2>2. PICK e : e = [msg |-> m, seq |-> eventSeq + 1]
    OBVIOUS
  <2>3. /\ live' = e /\ e.msg = m /\ m.bar >= live.msg.bar
        /\ m.kind # "reconcile" /\ ~Refused(m)
    BY <1>2, <2>1, <2>2, AcceptFacts DEF Inv
  <2>4. /\ m.src \in Int /\ lastSrc \in Int /\ lastSrc >= 0 /\ m.kind \in Kinds /\ m.bar \in Int
        /\ live.msg.src \in Int /\ live.msg.src >= 0 /\ live.msg.bar \in Int
    BY <1>2, FanoutAssumption DEF Inv, CastInv, CastOK, Message, Event, Bars
  <2>5. live.msg.src <= lastSrc
    BY <1>2 DEF SrcKept
  <2>6. m.bar = live.msg.bar => m.bar \notin Finalized /\ (m.kind = "final" \/ m.src > live.msg.src)
    BY <2>1, <2>3, <2>4, <2>5 DEF Refused, OldPartial, Numbered, Kinds
  <2> QED BY <2>3, <2>4, <2>6 DEF Later
<1>3. Inv /\ SrcKept /\ [Next]_vars => SrcKept'
  BY SrcKeptNext
<1> QED BY <1>1, <1>2, <1>3, InvHolds, PTL DEF Spec, LiveNeverRegresses

(***************************************************************************)
(* The newest candle state reaches every subscribed client.                *)
(***************************************************************************)

(* A broadcast with clients to come waits for a send to return.            *)
LeftSending ==
  \A t \in Tasks :
    cast[t] # Nothing /\ cast[t].left # {} =>
      \E c \in Clients : \E i \in 1..Len(sending[c]) : sending[c][i] = t

(* Who has left is not subscribed.                                         *)
OutUnsubscribed == \A c \in sub : conn[c] # "out"

ReachInv == LeftSending /\ OutUnsubscribed /\ NewestReaches

LEMMA AcceptReaches ==
  ASSUME Inv, ReachInv, NEW t \in Tasks, NEW m \in Message, Accepts(t, m)
  PROVE  ReachInv'
<1>1. PICK e : e = [msg |-> m, seq |-> eventSeq + 1]
  OBVIOUS
<1>2. /\ e.seq = eventSeq + 1 /\ (live' = live \/ live' = e)
  BY <1>1, AcceptFacts DEF Inv
<1>3. /\ cast[t] = Nothing
      /\ cast'[t] \in Broadcast /\ cast'[t].event = e
      /\ \A u \in Tasks \ {t} : cast'[u] = cast[u]
      /\ cast'[t].left = {} \/ \E c \in Clients : \E i \in 1..Len(sending'[c]) : sending'[c][i] = t
      /\ \A c \in Clients : got[c] \subseteq got'[c]
      /\ \A c \in Clients : Receives(c) => c \in cast'[t].left \/ e.seq \in got'[c]
  BY <1>1, AcceptCasts DEF Inv
<1>4. \A c \in Clients : \A i \in 1..Len(sending[c]) :
        i \in 1..Len(sending'[c]) /\ sending'[c][i] = sending[c][i]
  BY <1>1, AcceptCasts DEF Inv
<1>5. sub' = sub /\ conn' = conn /\ sub \subseteq Clients /\ cast'[t] # Nothing
  BY <1>3, NothingAssumption DEF Accepts, Inv, CastInv, CastOK, Broadcast
<1>6. LeftSending'
  <2> SUFFICES ASSUME NEW u \in Tasks, cast'[u] # Nothing, cast'[u].left # {}
               PROVE  \E c \in Clients : \E i \in 1..Len(sending'[c]) : sending'[c][i] = u
    BY DEF LeftSending, Tasks, Loops
  <2>1. CASE u = t
    BY <1>3, <2>1
  <2>2. CASE u # t
    <3>1. PICK c \in Clients : \E i \in 1..Len(sending[c]) : sending[c][i] = u
      BY <1>3, <2>2 DEF ReachInv, LeftSending
    <3> QED BY <1>4, <3>1
  <2> QED BY <2>1, <2>2
<1>7. NewestReaches'
  <2> SUFFICES ASSUME NEW c \in sub, conn[c] = "open", live' # Nothing
               PROVE  \/ live'.seq \in got'[c]
                      \/ \E u \in Tasks :
                           cast'[u] # Nothing /\ cast'[u].event.seq = live'.seq /\ c \in cast'[u].left
    BY <1>5 DEF NewestReaches, Tasks, Loops
  <2>0. c \in Clients
    BY <1>5
  <2>1. CASE live' = e
    <3>1. c \in cast'[t].left \/ e.seq \in got'[c]
      BY <1>3, <2>0 DEF Receives
    <3> QED BY <1>3, <1>5, <2>1, <3>1
  <2>2. CASE live' = live
    <3>1. CASE live.seq \in got[c]
      BY <1>3, <2>0, <2>2, <3>1
    <3>2. CASE live.seq \notin got[c]
      <4>1. PICK u \in Tasks : cast[u] # Nothing /\ cast[u].event.seq = live.seq /\ c \in cast[u].left
        BY <2>2, <3>2 DEF ReachInv, NewestReaches
      <4> QED BY <1>3, <2>2, <4>1
    <3> QED BY <3>1, <3>2
  <2> QED BY <1>2, <2>1, <2>2
<1> QED BY <1>5, <1>6, <1>7 DEF ReachInv, OutUnsubscribed

LEMMA GoesOnReaches ==
  ASSUME Inv, ReachInv, NEW t \in Tasks, NEW d \in Clients, GoesOn(t, d)
  PROVE  ReachInv'
<1>1. /\ cast[t] \in Broadcast
      /\ cast'[t] \in Broadcast /\ cast'[t].event = cast[t].event
      /\ \A u \in Tasks \ {t} : cast'[u] = cast[u]
      /\ cast'[t].left = {} \/ \E c \in Clients : \E i \in 1..Len(sending'[c]) : sending'[c][i] = t
      /\ \A c \in Clients : got[c] \subseteq got'[c]
      /\ \A c \in cast[t].left : Receives(c) => c \in cast'[t].left \/ cast[t].event.seq \in got'[c]
  BY GoesOnCasts DEF Inv
<1>2. \A c \in Clients : \A i \in 1..Len(sending[c]) :
        sending[c][i] = t \/ \E j \in 1..Len(sending'[c]) : sending'[c][j] = sending[c][i]
  BY GoesOnCasts DEF Inv
<1>3. /\ sub' = sub /\ live' = live /\ sub \subseteq Clients
      /\ \A c \in Clients : conn'[c] = conn[c] \/ (conn'[c] = "closing" /\ conn[c] # "out")
      /\ cast'[t] # Nothing
  <2>1. cast'[t] # Nothing
    BY <1>1, NothingAssumption DEF Broadcast
  <2>2. conn \in [Clients -> {"out", "open", "closing"}] /\ sub \subseteq Clients
    BY DEF Inv, CastInv, CastOK
  <2> QED BY <2>1, <2>2 DEF GoesOn
<1>4. LeftSending'
  <2> SUFFICES ASSUME NEW u \in Tasks, cast'[u] # Nothing, cast'[u].left # {}
               PROVE  \E c \in Clients : \E i \in 1..Len(sending'[c]) : sending'[c][i] = u
    BY DEF LeftSending, Tasks, Loops
  <2>1. CASE u = t
    BY <1>1, <2>1
  <2>2. CASE u # t
    <3>1. PICK c \in Clients : \E i \in 1..Len(sending[c]) : sending[c][i] = u
      BY <1>1, <2>2 DEF ReachInv, LeftSending
    <3> QED BY <1>2, <2>2, <3>1
  <2> QED BY <2>1, <2>2
<1>5. NewestReaches'
  <2> SUFFICES ASSUME NEW c \in sub, conn'[c] = "open", live # Nothing
               PROVE  \/ live.seq \in got'[c]
                      \/ \E u \in Tasks :
                           cast'[u] # Nothing /\ cast'[u].event.seq = live.seq /\ c \in cast'[u].left
    BY <1>3 DEF NewestReaches, Tasks, Loops
  <2>0. c \in Clients /\ conn[c] = "open"
    BY <1>3
  <2>1. CASE live.seq \in got[c]
    BY <1>1, <2>0, <2>1
  <2>2. CASE live.seq \notin got[c]
    <3>1. PICK u \in Tasks : cast[u] # Nothing /\ cast[u].event.seq = live.seq /\ c \in cast[u].left
      BY <2>0, <2>2 DEF ReachInv, NewestReaches
    <3>2. CASE u = t
      <4>1. c \in cast'[t].left \/ cast[t].event.seq \in got'[c]
        BY <1>1, <2>0, <3>1, <3>2 DEF Receives
      <4> QED BY <1>1, <1>3, <3>1, <3>2, <4>1
    <3>3. CASE u # t
      BY <1>1, <3>1, <3>3
    <3> QED BY <3>2, <3>3
  <2> QED BY <2>1, <2>2
<1>6. OutUnsubscribed'
  BY <1>3 DEF ReachInv, OutUnsubscribed
<1> QED BY <1>4, <1>5, <1>6 DEF ReachInv

LEMMA CastDoneReaches ==
  ASSUME Inv, ReachInv, NEW t \in Tasks, CastDone(t)
  PROVE  ReachInv'
<1>1. /\ cast'[t] = Nothing /\ \A u \in Tasks \ {t} : cast'[u] = cast[u]
      /\ \A c \in Clients : \A i \in 1..Len(sending[c]) : sending[c][i] # t
      /\ cast[t] # Nothing
      /\ UNCHANGED <<sending, live, conn, sub, got>>
  BY DEF CastDone, stateVars, clientVars, Inv, CastInv, CastOK
<1>2. cast[t].left = {}
  BY <1>1 DEF ReachInv, LeftSending
<1>3. LeftSending'
  BY <1>1 DEF ReachInv, LeftSending, Tasks, Loops
<1>4. NewestReaches'
  BY <1>1, <1>2 DEF ReachInv, NewestReaches, Tasks, Loops
<1> QED BY <1>1, <1>3, <1>4 DEF ReachInv, OutUnsubscribed

LEMMA ClientReaches ==
  ASSUME Inv, ReachInv, NEW d \in Clients, ClientStep(d)
  PROVE  ReachInv'
<1>0. /\ conn \in [Clients -> {"out", "open", "closing"}] /\ sub \subseteq Clients
      /\ got \in [Clients -> SUBSET (1..eventSeq)]
  BY DEF Inv, CastInv, CastOK
<1>1. CASE Register(d)
  BY <1>0, <1>1 DEF Register, castVars, stateVars, ReachInv, LeftSending, OutUnsubscribed, NewestReaches,
                    Tasks, Loops
<1>2. CASE Subscribe(d)
  BY <1>0, <1>2 DEF Subscribe, castVars, stateVars, ReachInv, LeftSending, OutUnsubscribed, NewestReaches,
                    Tasks, Loops
<1>3. CASE Unsubscribe(d)
  BY <1>0, <1>3 DEF Unsubscribe, Forget, castVars, stateVars, ReachInv, LeftSending, OutUnsubscribed,
                    NewestReaches, Tasks, Loops
<1>4. CASE Unregister(d)
  <2>1. /\ \A t \in Tasks : cast[t] = Nothing => cast'[t] = Nothing
        /\ \A t \in Tasks : cast[t] # Nothing =>
             /\ cast'[t] # Nothing
             /\ cast'[t].event = cast[t].event
             /\ cast'[t].left = cast[t].left \ {d}
    BY <1>4, UnregisterFacts DEF Inv
  <2>2. /\ UNCHANGED <<sending, live>> /\ sub' = sub \ {d}
        /\ \A c \in Clients \ {d} : conn'[c] = conn[c] /\ got'[c] = got[c]
    BY <1>0, <1>4 DEF Unregister, Forget, stateVars
  <2>3. LeftSending'
    BY <2>1, <2>2 DEF ReachInv, LeftSending, Tasks, Loops
  <2>4. OutUnsubscribed'
    BY <1>0, <2>2 DEF ReachInv, OutUnsubscribed
  <2>5. NewestReaches'
    <3> SUFFICES ASSUME NEW c \in sub', conn'[c] = "open", live # Nothing
                 PROVE  \/ live.seq \in got'[c]
                        \/ \E u \in Tasks :
                             cast'[u] # Nothing /\ cast'[u].event.seq = live.seq /\ c \in cast'[u].left
      BY <2>2 DEF NewestReaches, Tasks, Loops
    <3>1. c \in sub /\ c # d /\ conn[c] = "open" /\ got'[c] = got[c]
      BY <1>0, <2>2
    <3>2. CASE live.seq \in got[c]
      BY <3>1, <3>2
    <3>3. CASE live.seq \notin got[c]
      <4>1. PICK u \in Tasks : cast[u] # Nothing /\ cast[u].event.seq = live.seq /\ c \in cast[u].left
        BY <3>1, <3>3 DEF ReachInv, NewestReaches
      <4> QED BY <2>1, <3>1, <4>1
    <3> QED BY <3>2, <3>3
  <2> QED BY <2>3, <2>4, <2>5 DEF ReachInv
<1> QED BY <1>1, <1>2, <1>3, <1>4 DEF ClientStep

(* Nothing falls between a client's snapshot and its first event: once it  *)
(* is subscribed it has the newest candle state, or a broadcast still has  *)
(* it to come.                                                             *)
THEOREM NewestReachesHolds == Spec => []NewestReaches
<1>1. Init => ReachInv
  BY DEF Init, ReachInv, LeftSending, OutUnsubscribed, NewestReaches
<1>2. Inv /\ ReachInv /\ [Next]_vars => ReachInv'
  <2> SUFFICES ASSUME Inv, ReachInv, [Next]_vars PROVE ReachInv'
    OBVIOUS
  <2>1. CASE Quiet
    BY <2>1 DEF Quiet, ReachInv, LeftSending, OutUnsubscribed, NewestReaches, Tasks, Loops
  <2> QED BY <2>1, StepKinds, AcceptReaches, GoesOnReaches, CastDoneReaches, ClientReaches DEF Inv
<1>3. ReachInv => NewestReaches
  BY DEF ReachInv
<1> QED BY <1>1, <1>2, <1>3, InvHolds, PTL DEF Spec
=============================================================================
