----------------------------- MODULE ChartFanout -----------------------------
(***************************************************************************)
(* The browser half of the chart path, for one symbol and timeframe: the   *)
(* API process's gateway (backend/app/api/services/                        *)
(* chart_nats_active_gateway.py), which reads the partial and the critical *)
(* stream in two loops, the in-memory candle state and the websocket       *)
(* clients of backend/app/api/ws/chart_candles.py, and the HTTP handler    *)
(* /internal/candle-rest-confirmed of backend/app/api_app.py.              *)
(*                                                                         *)
(* All of it runs on one event loop.  A step is what runs between two      *)
(* awaits: _STATE_LOCK is never waited for, because nothing is awaited     *)
(* under it, so a step changes the state and writes the event to the first *)
(* client.  Each send then waits until that client's buffer has room, and  *)
(* other handlers run meanwhile.                                           *)
(*                                                                         *)
(* When a fetch raises, asyncio.gather() leaves the other loop running: it *)
(* works off the batch it holds while the new connection's loops start.    *)
(***************************************************************************)
EXTENDS Integers, Sequences, FiniteSets

CONSTANTS
  Clients,         \* websocket clients, numbered as list(_CHART_CANDLE_CLIENTS) has them
  FinalizedLimit,  \* _FINALIZED_BAR_LIMIT
  FetchBatch,      \* fetch_batch
  MaxBar,          \* bound: bars, numbered in time order
  MaxMessages,     \* bound: messages the ingest service publishes
  MaxConnects,     \* bound: connections of the gateway to NATS
  MaxRedelivered,  \* bound: redeliveries
  MaxRest,         \* bound: calls of /internal/candle-rest-confirmed
  MaxExtra,        \* bound: reconnections, redeliveries and REST calls together
  Nothing          \* no candle, no broadcast

ASSUME FanoutAssumption ==
  /\ Clients \subseteq Nat
  /\ FinalizedLimit \in Nat \ {0}
  /\ FetchBatch \in Nat \ {0}
  /\ MaxBar \in Nat \ {0}
  /\ {MaxMessages, MaxConnects, MaxRedelivered, MaxRest, MaxExtra} \subseteq Nat

VARIABLES
  openBar,      \* the bar the exchange is at
  nextSrc,      \* source_seq of the next message
  inbox,        \* per lane: what the consumer has not delivered
  linked,       \* the gateway is connected
  gen,          \* its connections so far
  redelivered,  \* redeliveries so far
  rests,        \* calls of the HTTP handler so far
  batch,        \* per consumer loop: the fetched messages not yet acked
  cast,         \* per task: the broadcast it is in, or Nothing
  sending,      \* per client: the tasks whose send to it has not returned
  live,         \* _CHART_CANDLE_LIVE_STATE: the latest event, or Nothing
  finalized,    \* _CHART_CANDLE_FINALIZED_ORDER: finalized bars, oldest first
  lastSrc,      \* _CHART_CANDLE_SOURCE_SEQ, 0 when unset
  eventSeq,     \* _EVENT_SEQ
  conn,         \* per client: out, open, or closing after a failed send
  sub,          \* the clients subscribed to this symbol and timeframe
  got           \* history: per client, the seqs that arrived since it last subscribed

feedVars   == <<openBar, nextSrc>>
natsVars   == <<inbox, linked, gen, redelivered>>
castVars   == <<cast, sending>>
stateVars  == <<live, finalized, lastSrc, eventSeq>>
clientVars == <<conn, sub, got>>
vars == <<openBar, nextSrc, inbox, linked, gen, redelivered, rests, batch, cast, sending,
          live, finalized, lastSrc, eventSeq, conn, sub, got>>

-----------------------------------------------------------------------------
Lanes == {"partial", "critical"}
Kinds == {"partial", "final", "reconcile"}
Bars  == 1..MaxBar

\* src is 0 when there is no source_seq
Message == [kind : Kinds, bar : Bars, src : 0..MaxMessages]

\* what is broadcast: a message and the gateway's own sequence number
Event == [msg : Message, seq : Nat]

ASSUME NothingAssumption ==
  Nothing \notin Event \cup [event : Event, left : SUBSET Clients]

Lane(m) == IF m.kind = "partial" THEN "partial" ELSE "critical"

Loops == Lanes \X (1..MaxConnects)
Rest  == <<"rest", 0>>
Tasks == Loops \cup {Rest}

(* The bound on reconnections, redeliveries and REST confirmations together. *)
Affordable ==
  (IF gen = 0 THEN 0 ELSE gen - 1) + redelivered + rests < MaxExtra

Finalized == {finalized[i] : i \in 1..Len(finalized)}

-----------------------------------------------------------------------------
Init ==
  /\ openBar = 1
  /\ nextSrc = 1
  /\ inbox = [l \in Lanes |-> <<>>]
  /\ linked = FALSE
  /\ gen = 0
  /\ redelivered = 0
  /\ rests = 0
  /\ batch = [t \in Loops |-> <<>>]
  /\ cast = [t \in Tasks |-> Nothing]
  /\ sending = [c \in Clients |-> <<>>]
  /\ live = Nothing
  /\ finalized = <<>>
  /\ lastSrc = 0
  /\ eventSeq = 0
  /\ conn = [c \in Clients |-> "out"]
  /\ sub = {}
  /\ got = [c \in Clients |-> {}]

(***************************************************************************)
(* The ingest service publishes: updates of the open bar, its final, which *)
(* opens the next bar, and corrections of earlier bars.                    *)
(***************************************************************************)
Publish(kind, bar) ==
  /\ nextSrc <= MaxMessages
  /\ IF kind = "reconcile" THEN bar < openBar ELSE bar = openBar
  /\ kind = "final" => openBar < MaxBar
  /\ openBar' = IF kind = "final" THEN openBar + 1 ELSE openBar
  /\ nextSrc' = nextSrc + 1
  /\ LET m == [kind |-> kind, bar |-> bar, src |-> nextSrc] IN
       inbox' = [inbox EXCEPT ![Lane(m)] = Append(@, m)]
  /\ UNCHANGED <<linked, gen, redelivered, rests, batch, castVars, stateVars, clientVars>>

-----------------------------------------------------------------------------
(***************************************************************************)
(* _connect(): the consumers are deleted and created anew with             *)
(* DeliverPolicy.NEW, so what is in the streams already is never seen.     *)
(***************************************************************************)
Connect ==
  /\ ~linked
  /\ gen < MaxConnects
  /\ gen = 0 \/ Affordable
  /\ linked' = TRUE
  /\ gen' = gen + 1
  /\ inbox' = [l \in Lanes |-> <<>>]
  /\ UNCHANGED <<feedVars, redelivered, rests, batch, castVars, stateVars, clientVars>>

(***************************************************************************)
(* A fetch raises in the loop of lane l, which therefore holds nothing.    *)
(***************************************************************************)
ConnectionFails(l) ==
  /\ linked
  /\ batch[<<l, gen>>] = <<>>
  /\ linked' = FALSE
  /\ UNCHANGED <<feedVars, inbox, gen, redelivered, rests, batch, castVars,
                 stateVars, clientVars>>

Fetch(l) ==
  /\ linked
  /\ batch[<<l, gen>>] = <<>>
  /\ \E n \in 1..FetchBatch :
       /\ n <= Len(inbox[l])
       /\ batch' = [batch EXCEPT ![<<l, gen>>] = SubSeq(inbox[l], 1, n)]
       /\ inbox' = [inbox EXCEPT ![l] = SubSeq(@, n + 1, Len(@))]
  /\ UNCHANGED <<feedVars, linked, gen, redelivered, rests, castVars, stateVars, clientVars>>

(***************************************************************************)
(* ack_wait runs out while a loop holds the message, or its ack fails.     *)
(***************************************************************************)
Redeliver(l, i) ==
  /\ linked
  /\ redelivered < MaxRedelivered
  /\ Affordable
  /\ i <= Len(batch[<<l, gen>>])
  /\ redelivered' = redelivered + 1
  /\ inbox' = [inbox EXCEPT ![l] = Append(@, batch[<<l, gen>>][i])]
  /\ UNCHANGED <<feedVars, linked, gen, rests, batch, castVars, stateVars, clientVars>>

-----------------------------------------------------------------------------
(***************************************************************************)
(* upsert_chart_candle_live_event(): what is refused.                      *)
(***************************************************************************)
OldPartial(m) ==
  /\ m.kind = "partial"
  /\ m.src # 0
  /\ lastSrc # 0
  /\ m.src <= lastSrc

\* Mutant: the sequence guard is applied to finals as well.
RefusedBySeq(m) ==
  /\ m.kind # "reconcile"
  /\ \/ m.bar \in Finalized
     \/ m.src # 0 /\ lastSrc # 0 /\ m.src <= lastSrc

\* Mutant: no sequence guard.
RefusedIfFinalized(m) ==
  /\ m.kind # "reconcile"
  /\ m.bar \in Finalized

Refused(m) ==
  /\ m.kind # "reconcile"
  /\ m.bar \in Finalized \/ OldPartial(m)

(***************************************************************************)
(* _remember_finalized_bar(): a bounded first-in first-out set.            *)
(***************************************************************************)
Remember(b) ==
  LET order == Append(finalized, b) IN
  finalized' = IF Len(order) > FinalizedLimit THEN Tail(order) ELSE order

\* Mutant: the event is given its number and broadcast, the state not kept.
BroadcastOnly(m) ==
  /\ eventSeq' = eventSeq + 1
  /\ finalized' = Append(finalized, m.bar)
  /\ UNCHANGED <<live, lastSrc>>

(***************************************************************************)
(* The state an accepted event leaves.  A reconcile leaves none: it is     *)
(* only numbered and broadcast.                                            *)
(***************************************************************************)
KeepState(m) ==
  /\ eventSeq' = eventSeq + 1
  /\ live' = IF live = Nothing \/ m.bar >= live.msg.bar
               THEN [msg |-> m, seq |-> eventSeq + 1] ELSE live
  /\ IF m.kind = "final" THEN Remember(m.bar) ELSE UNCHANGED finalized
  /\ lastSrc' = IF m.src > lastSrc THEN m.src ELSE lastSrc

(***************************************************************************)
(* _broadcast_to_matching_clients(): from the clients still to come, those *)
(* not subscribed or closing are passed over and the event is written to   *)
(* the next one, which can take it at once.                                *)
(***************************************************************************)
Receives(c) == conn[c] = "open" /\ c \in sub

Arrives(c, e) == got' = [got EXCEPT ![c] = @ \cup {e.seq}]

Broadcasting(t, e, ahead, queue) ==
  LET to == {c \in ahead : Receives(c)} IN
  \/ /\ to = {}
     /\ cast' = [cast EXCEPT ![t] = [event |-> e, left |-> {}]]
     /\ sending' = queue
     /\ UNCHANGED got
  \/ \E c \in to :
       /\ \A d \in to : c <= d
       /\ cast' = [cast EXCEPT ![t] =
                     [event |-> e, left |-> {d \in ahead : d > c}]]
       /\ sending' = [queue EXCEPT ![c] = Append(@, t)]
       /\ Arrives(c, e)

Registered == {c \in Clients : conn[c] # "out"}

Accept(t, m) ==
  /\ ~Refused(m)
  /\ IF m.kind = "reconcile"
       THEN eventSeq' = eventSeq + 1 /\ UNCHANGED <<live, finalized, lastSrc>>
       ELSE KeepState(m)
  /\ Broadcasting(t, [msg |-> m, seq |-> eventSeq + 1], Registered, sending)

(***************************************************************************)
(* _handle_msg(): up to the first send, or to the ack of a refused event.  *)
(***************************************************************************)
Handle(t) ==
  /\ cast[t] = Nothing
  /\ batch[t] # <<>>
  /\ \/ /\ Refused(Head(batch[t]))
        /\ batch' = [batch EXCEPT ![t] = Tail(@)]
        /\ UNCHANGED <<stateVars, castVars, got>>
     \/ /\ Accept(t, Head(batch[t]))
        /\ UNCHANGED batch
  /\ UNCHANGED <<feedVars, natsVars, rests, conn, sub>>

(***************************************************************************)
(* /internal/candle-rest-confirmed: a closed bar, without a source_seq.    *)
(***************************************************************************)
RestConfirmed(bar) ==
  /\ rests < MaxRest
  /\ Affordable
  /\ bar <= openBar
  /\ cast[Rest] = Nothing
  /\ rests' = rests + 1
  /\ LET m == [kind |-> "final", bar |-> bar, src |-> 0] IN
       \/ Refused(m) /\ UNCHANGED <<stateVars, castVars, got>>
       \/ Accept(Rest, m)
  /\ UNCHANGED <<feedVars, natsVars, batch, conn, sub>>

-----------------------------------------------------------------------------
(***************************************************************************)
(* A send returns, or raises and the client is marked as closing; the      *)
(* broadcast goes on.  Sends to one client return in the order of their    *)
(* writes, because they queue for its transport.                           *)
(***************************************************************************)
Waits(t, c) == sending[c] # <<>> /\ Head(sending[c]) = t

SendReturns(t, c) ==
  /\ Waits(t, c)
  /\ Broadcasting(t, cast[t].event, cast[t].left, [sending EXCEPT ![c] = Tail(@)])
  /\ UNCHANGED <<feedVars, natsVars, rests, batch, stateVars, conn, sub>>

\* Mutant: the exception leaves the loop over the clients.
RaiseEndsCast(t, c) ==
  /\ Waits(t, c)
  /\ conn[c] # "out"
  /\ conn' = [conn EXCEPT ![c] = "closing"]
  /\ Broadcasting(t, cast[t].event, {}, [sending EXCEPT ![c] = Tail(@)])
  /\ UNCHANGED <<feedVars, natsVars, rests, batch, stateVars, sub>>

SendRaises(t, c) ==
  /\ Waits(t, c)
  /\ conn[c] # "out"
  /\ conn' = [conn EXCEPT ![c] = "closing"]
  /\ Broadcasting(t, cast[t].event, cast[t].left, [sending EXCEPT ![c] = Tail(@)])
  /\ UNCHANGED <<feedVars, natsVars, rests, batch, stateVars, sub>>

(***************************************************************************)
(* The broadcast returns, and a consumer loop acks its message.            *)
(***************************************************************************)
CastDone(t) ==
  /\ cast[t] # Nothing
  /\ \A c \in Clients : \A i \in 1..Len(sending[c]) : sending[c][i] # t
  /\ cast' = [cast EXCEPT ![t] = Nothing]
  /\ batch' = IF t = Rest THEN batch ELSE [batch EXCEPT ![t] = Tail(@)]
  /\ UNCHANGED <<feedVars, natsVars, rests, sending, stateVars, clientVars>>

-----------------------------------------------------------------------------
(***************************************************************************)
(* Clients.  A number is used again once no send to its last bearer waits. *)
(***************************************************************************)
Register(c) ==
  /\ conn[c] = "out"
  /\ sending[c] = <<>>
  /\ conn' = [conn EXCEPT ![c] = "open"]
  /\ UNCHANGED <<feedVars, natsVars, rests, batch, castVars, stateVars, sub, got>>

(***************************************************************************)
(* handle_chart_candle_client_message() and _send_snapshot_ack(): nothing  *)
(* is awaited between the subscription, the snapshot and its write.  A     *)
(* client may subscribe again.                                             *)
(***************************************************************************)
Subscribe(c) ==
  /\ conn[c] = "open"
  /\ sub' = sub \cup {c}
  /\ got' = [got EXCEPT ![c] = IF live = Nothing THEN {} ELSE {live.seq}]
  /\ UNCHANGED <<feedVars, natsVars, rests, batch, castVars, stateVars, conn>>

Forget(c) ==
  /\ sub' = sub \ {c}
  /\ got' = [got EXCEPT ![c] = {}]

Unsubscribe(c) ==
  /\ c \in sub
  /\ Forget(c)
  /\ UNCHANGED <<feedVars, natsVars, rests, batch, castVars, stateVars, conn>>

(***************************************************************************)
(* unregister_chart_candle_client(), from the client's receive loop or at  *)
(* the end of a broadcast that found it closing.                           *)
(***************************************************************************)
Unregister(c) ==
  /\ conn[c] # "out"
  /\ conn' = [conn EXCEPT ![c] = "out"]
  /\ Forget(c)
  /\ cast' = [t \in Tasks |-> IF cast[t] = Nothing THEN Nothing
                              ELSE [cast[t] EXCEPT !.left = @ \ {c}]]
  /\ UNCHANGED <<feedVars, natsVars, rests, batch, sending, stateVars>>

-----------------------------------------------------------------------------
Sends(t) == \E c \in Clients : SendReturns(t, c) \/ SendRaises(t, c)

TaskStep(t) == Sends(t) \/ CastDone(t) \/ (t \in Loops /\ Handle(t))

ClientStep(c) == Register(c) \/ Subscribe(c) \/ Unsubscribe(c) \/ Unregister(c)

Next ==
  \/ \E kind \in Kinds, bar \in Bars : Publish(kind, bar)
  \/ Connect
  \/ \E l \in Lanes : ConnectionFails(l) \/ Fetch(l)
  \/ \E l \in Lanes, i \in 1..MaxMessages : Redeliver(l, i)
  \/ \E bar \in Bars : RestConfirmed(bar)
  \/ \E t \in Tasks : TaskStep(t)
  \/ \E c \in Clients : ClientStep(c)

Spec == Init /\ [][Next]_vars

(***************************************************************************)
(* The event loop runs every task, a send to a client returns or raises    *)
(* (uvicorn's pings close a dead connection), and JetStream delivers.      *)
(***************************************************************************)
Fairness ==
  /\ \A t \in Tasks : WF_vars(TaskStep(t))
  /\ \A l \in Lanes : WF_vars(Fetch(l))

LiveSpec == Spec /\ Fairness

-----------------------------------------------------------------------------
(***************************************************************************)
(* Properties.                                                             *)
(***************************************************************************)
TypeOK ==
  /\ openBar \in Bars
  /\ nextSrc \in 1..(MaxMessages + 1)
  /\ inbox \in [Lanes -> Seq(Message)]
  /\ linked \in BOOLEAN
  /\ gen \in 0..MaxConnects
  /\ redelivered \in 0..MaxRedelivered
  /\ rests \in 0..MaxRest
  /\ batch \in [Loops -> Seq(Message)]
  /\ cast \in [Tasks -> {Nothing} \cup [event : Event, left : SUBSET Clients]]
  /\ sending \in [Clients -> Seq(Tasks)]
  /\ live \in {Nothing} \cup Event
  /\ finalized \in Seq(Bars) /\ Len(finalized) <= FinalizedLimit
  /\ lastSrc \in 0..MaxMessages
  /\ eventSeq \in Nat
  /\ conn \in [Clients -> {"out", "open", "closing"}]
  /\ sub \subseteq Clients
  /\ got \in [Clients -> SUBSET (1..eventSeq)]

(***************************************************************************)
(* A subscribed client has received the newest candle state, as its        *)
(* snapshot or as an event, or a broadcast is still on its way to it:      *)
(* none falls between the snapshot and the first event.                    *)
(***************************************************************************)
NewestReaches ==
  \A c \in sub :
    conn[c] = "open" /\ live # Nothing =>
      \/ live.seq \in got[c]
      \/ \E t \in Tasks :
           cast[t] # Nothing /\ cast[t].event.seq = live.seq /\ c \in cast[t].left

(***************************************************************************)
(* Whatever is redelivered, replayed by a left-over loop or confirmed over *)
(* HTTP, the candle state never goes back: not to an earlier bar, not from *)
(* a final it remembers, not to an earlier update of the same bar.         *)
(***************************************************************************)
Later(new, old) ==
  \/ new.bar > old.bar
  \/ /\ new.bar = old.bar
     /\ old.bar \notin Finalized
     /\ new.kind = "final" \/ new.src > old.src

LiveNeverRegresses ==
  [][live # Nothing /\ live' # live => Later(live'.msg, live.msg)]_live

(***************************************************************************)
(* A final that is delivered over a connection finalizes its bar, however  *)
(* late it comes, unless the connection fails first.                       *)
(***************************************************************************)
Delivering(b) ==
  \E i \in 1..Len(inbox["critical"]) :
    inbox["critical"][i].kind = "final" /\ inbox["critical"][i].bar = b

FinalFinalizes ==
  \A b \in Bars \ {MaxBar} : (linked /\ Delivering(b)) ~> (b \in Finalized \/ ~linked)

=============================================================================
