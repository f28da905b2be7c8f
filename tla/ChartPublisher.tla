--------------------------- MODULE ChartPublisher ---------------------------
(***************************************************************************)
(* The producer half of the chart path: the ingest service that reads      *)
(* Bybit's kline stream (backend/app/api/services/chart_ingest_shadow.py)  *)
(* hands every candle event to NatsJetStreamChartEventPublisher            *)
(* (backend/app/api/services/chart_broker_shadow.py), which has two        *)
(* bounded queues, one publisher task, retries with a timeout, and a close *)
(* that polls until the queues are empty or a deadline passes, cancels the *)
(* task, awaits it and then drains the connection, neither under a timeout.*)
(*                                                                         *)
(* Below it is JetStream: a connection that delivers in order but may drop *)
(* what is in flight or lose an answer, and a stream per lane that forgets *)
(* a Nats-Msg-Id after its duplicate window.                               *)
(*                                                                         *)
(* Events are numbered in the order the ingest service saw them.  Time is  *)
(* not modelled: a timeout may strike whenever no answer has arrived.      *)
(***************************************************************************)
EXTENDS Integers, Sequences, FiniteSets

CONSTANTS
  Bars,         \* candle keys
  Capacity,     \* [Lanes -> Nat \ {0}]: queue_max and critical_queue_max
  Retries,      \* [Lanes -> Nat \ {0}]: partial and final retry attempts
  MaxEvents,    \* bound: events the ingest service sees
  MaxExpiries   \* bound: times the duplicate window forgets an id

Lanes == {"critical", "partial"}

ASSUME PublisherAssumption ==
  /\ Capacity \in [Lanes -> Nat \ {0}]
  /\ Retries \in [Lanes -> Nat \ {0}]
  /\ MaxEvents \in Nat
  /\ MaxExpiries \in Nat

VARIABLES
  events,     \* the events seen so far, with their bars and lanes
  phase,      \* the process: running, in close() polling the queues, awaiting
              \* the cancelled task or draining the connection, or stopped
  queue,      \* the two asyncio queues, of event numbers
  pc,         \* the publisher task
  cur,        \* the event the task is publishing, 0 when there is none
  attempt,    \* which attempt at it this is
  js,         \* whether the task has a JetStream context
  answered,   \* whether the answer to this attempt has arrived
  cancelled,  \* close() has cancelled the task, which has not run since
  wire,       \* attempts written to the connection, not yet at the server
  stream,     \* CHART_PARTIAL and CHART_CRITICAL, of event numbers
  ids,        \* the Nats-Msg-Ids JetStream remembers
  expiries,   \* history: how often each bar's id was forgotten
  success,    \* events counted in broker_publish_success_total
  failed,     \* finals counted in broker_publish_final_failure_total
  abandoned   \* history: finals the end of the task left unpublished

clientVars == <<phase, queue, pc, cur, attempt, js, answered, cancelled>>
brokerVars == <<wire, stream, ids, expiries>>
countVars  == <<success, failed, abandoned>>
vars == <<events, phase, queue, pc, cur, attempt, js, answered, cancelled,
          wire, stream, ids, expiries, success, failed, abandoned>>

-----------------------------------------------------------------------------
Event   == [bar : Bars, lane : Lanes]
Numbers == 1..MaxEvents

Lane(n) == events[n].lane
Bar(n)  == events[n].bar

Finals == {n \in 1..Len(events) : Lane(n) = "critical"}

Elements(q) == {q[i] : i \in 1..Len(q)}

\* Mutant: the publish time is part of every id.
MsgIdOfAttempt(m) == <<Lane(m.ev), m.ev, m.try>>

(***************************************************************************)
(* nats_msg_id_for_payload(): a final's id is its candle key and type, so  *)
(* every attempt has the same one; a partial's holds the publish time.     *)
(***************************************************************************)
MsgId(m) ==
  IF Lane(m.ev) = "critical" THEN <<"final", Bar(m.ev)>>
                              ELSE <<"partial", m.ev, m.try>>

(* The task exists and its next step is not the one that finds it cancelled. *)
TaskRuns == phase \in {"running", "draining", "awaiting"} /\ ~cancelled

QueueDepth ==
  Len(queue["critical"]) + Len(queue["partial"]) + (IF cur = 0 THEN 0 ELSE 1)

-----------------------------------------------------------------------------
Init ==
  /\ events = <<>>
  /\ phase = "running"
  /\ queue = [l \in Lanes |-> <<>>]
  /\ pc = "idle"
  /\ cur = 0
  /\ attempt = 0
  /\ js = FALSE
  /\ answered = FALSE
  /\ cancelled = FALSE
  /\ wire = <<>>
  /\ stream = [l \in Lanes |-> <<>>]
  /\ ids = {}
  /\ expiries = [b \in Bars |-> 0]
  /\ success = {}
  /\ failed = {}
  /\ abandoned = {}

-----------------------------------------------------------------------------
\* Mutant: the bound of the queue is off by one.
AcceptOneMore(n, l) ==
  /\ Len(queue[l]) <= Capacity[l]
  /\ queue' = [queue EXCEPT ![l] = Append(@, n)]
  /\ UNCHANGED failed

(***************************************************************************)
(* _handle_message() and enqueue_event(): a full queue refuses the event;  *)
(* a refused final is counted, a refused partial is forgotten.             *)
(***************************************************************************)
Accept(n, l) ==
  /\ Len(queue[l]) < Capacity[l]
  /\ queue' = [queue EXCEPT ![l] = Append(@, n)]
  /\ UNCHANGED failed

Refuse(n, l) ==
  /\ Len(queue[l]) >= Capacity[l]
  /\ failed' = IF l = "critical" THEN failed \cup {n} ELSE failed
  /\ UNCHANGED queue

Offer(e) ==
  /\ phase = "running"
  /\ Len(events) < MaxEvents
  /\ events' = Append(events, e)
  /\ Accept(Len(events) + 1, e.lane) \/ Refuse(Len(events) + 1, e.lane)
  /\ UNCHANGED <<phase, pc, cur, attempt, js, answered, cancelled, brokerVars,
                 success, abandoned>>

(***************************************************************************)
(* _next_item(): the critical queue first.                                 *)
(***************************************************************************)
Take(l) ==
  /\ TaskRuns
  /\ pc = "idle"
  /\ queue[l] # <<>>
  /\ l = "partial" => queue["critical"] = <<>>
  /\ cur' = Head(queue[l])
  /\ queue' = [queue EXCEPT ![l] = Tail(@)]
  /\ attempt' = 1
  /\ pc' = "connect"
  /\ UNCHANGED <<events, phase, js, answered, cancelled, brokerVars, countVars>>

\* Mutant: a failed attempt sends the event to the back of its queue.
RequeueFailed ==
  /\ queue' = [queue EXCEPT ![Lane(cur)] = Append(@, cur)]
  /\ cur' = 0
  /\ attempt' = 0
  /\ pc' = "idle"
  /\ UNCHANGED failed

\* Mutant: a failed connect is tried again without counting the attempt.
RetryUncounted ==
  /\ pc' = "connect"
  /\ UNCHANGED <<queue, cur, attempt, failed>>

\* Mutant: the last failed attempt leaves without counting the final.
GiveUpUncounted ==
  /\ IF attempt < Retries[Lane(cur)]
       THEN pc' = "connect" /\ attempt' = attempt + 1 /\ UNCHANGED cur
       ELSE pc' = "idle" /\ attempt' = 0 /\ cur' = 0
  /\ UNCHANGED <<queue, failed>>

(***************************************************************************)
(* _publish_item(): an attempt failed.  The next one follows after a pause *)
(* or the event is given up; only a final is counted then.                 *)
(***************************************************************************)
Retry ==
  /\ attempt < Retries[Lane(cur)]
  /\ attempt' = attempt + 1
  /\ pc' = "connect"
  /\ UNCHANGED <<cur, failed>>

GiveUp ==
  /\ attempt >= Retries[Lane(cur)]
  /\ failed' = IF Lane(cur) = "critical" THEN failed \cup {cur} ELSE failed
  /\ cur' = 0
  /\ attempt' = 0
  /\ pc' = "idle"

AttemptFails ==
  /\ Retry \/ GiveUp
  /\ UNCHANGED queue

(***************************************************************************)
(* _jetstream(): nats.connect() retries for as long as there is no server, *)
(* or it raises; within the backoff after that it is not tried at all.     *)
(***************************************************************************)
Connect ==
  /\ TaskRuns
  /\ pc = "connect"
  /\ ~js
  /\ js' = TRUE
  /\ UNCHANGED <<events, phase, queue, pc, cur, attempt, answered, cancelled, brokerVars,
                 countVars>>

ConnectFails ==
  /\ TaskRuns
  /\ pc = "connect"
  /\ ~js
  /\ AttemptFails
  /\ UNCHANGED <<events, phase, js, answered, cancelled, brokerVars, success, abandoned>>

(***************************************************************************)
(* js.publish(): the message is written, the answer awaited.               *)
(***************************************************************************)
Send ==
  /\ TaskRuns
  /\ pc = "connect"
  /\ js
  /\ wire' = Append(wire, [ev |-> cur, try |-> attempt])
  /\ answered' = FALSE
  /\ pc' = "wait"
  /\ UNCHANGED <<events, phase, queue, cur, attempt, js, cancelled, stream, ids, expiries,
                 countVars>>

\* Mutant: the call is counted as published without waiting for the answer.
SucceedUnanswered ==
  /\ pc = "wait"
  /\ TaskRuns
  /\ cancelled' = FALSE
  /\ success' = success \cup {cur}
  /\ pc' = "idle"
  /\ cur' = 0
  /\ attempt' = 0
  /\ UNCHANGED <<events, phase, queue, js, answered, brokerVars, failed, abandoned>>

(***************************************************************************)
(* asyncio.wait_for() returns the answer.  It does so even when the task   *)
(* has been cancelled in the meantime: in Python 3.10 a cancellation that  *)
(* finds the awaited call done is dropped, and the task goes on.           *)
(***************************************************************************)
Succeed ==
  /\ pc = "wait"
  /\ answered
  /\ cancelled' = FALSE
  /\ success' = success \cup {cur}
  /\ pc' = "idle"
  /\ cur' = 0
  /\ attempt' = 0
  /\ UNCHANGED <<events, phase, queue, js, answered, brokerVars, failed, abandoned>>

Timeout ==
  /\ TaskRuns
  /\ pc = "wait"
  /\ ~answered
  /\ AttemptFails
  /\ UNCHANGED <<events, phase, js, answered, cancelled, brokerVars, success, abandoned>>

-----------------------------------------------------------------------------
(***************************************************************************)
(* The connection and JetStream.  The first message on the wire reaches    *)
(* the server, which stores it unless it remembers its id; the answer      *)
(* reaches the task if that is still waiting for this very attempt, or is  *)
(* lost.                                                                   *)
(***************************************************************************)
Answer(m) ==
  \/ /\ pc = "wait" /\ cur = m.ev /\ attempt = m.try
     /\ answered' = TRUE
  \/ UNCHANGED answered

ServerReceives ==
  /\ wire # <<>>
  /\ LET m == Head(wire) IN
       /\ ids' = ids \cup {MsgId(m)}
       /\ stream' = IF MsgId(m) \in ids
                      THEN stream
                      ELSE [stream EXCEPT ![Lane(m.ev)] = Append(@, m.ev)]
       /\ Answer(m)
  /\ wire' = Tail(wire)
  /\ UNCHANGED <<events, phase, queue, pc, cur, attempt, js, cancelled, expiries, countVars>>

ConnectionDrops ==
  /\ wire # <<>>
  /\ wire' = <<>>
  /\ UNCHANGED <<events, clientVars, stream, ids, expiries, countVars>>

WindowExpires(b) ==
  /\ <<"final", b>> \in ids
  /\ expiries[b] < MaxExpiries
  /\ ids' = ids \ {<<"final", b>>}
  /\ expiries' = [expiries EXCEPT ![b] = @ + 1]
  /\ UNCHANGED <<events, clientVars, wire, stream, countVars>>

-----------------------------------------------------------------------------
(***************************************************************************)
(* shutdown_chart_ingest_shadow(): the reader is closed first, so nothing  *)
(* is handed over any more; close() then polls the queues and the task.    *)
(***************************************************************************)
BeginClose ==
  /\ phase = "running"
  /\ phase' = "draining"
  /\ UNCHANGED <<events, queue, pc, cur, attempt, js, answered, cancelled, brokerVars,
                 countVars>>

\* Mutant: close() has no deadline.
CancelWhenEmpty ==
  /\ phase = "draining"
  /\ QueueDepth = 0
  /\ phase' = "awaiting"
  /\ cancelled' = TRUE
  /\ UNCHANGED <<events, queue, pc, cur, attempt, js, answered, brokerVars, countVars>>

(***************************************************************************)
(* Nothing is left or the drain timeout has passed: the task is cancelled, *)
(* once, and awaited.                                                      *)
(***************************************************************************)
CancelTask ==
  /\ phase = "draining"
  /\ phase' = "awaiting"
  /\ cancelled' = TRUE
  /\ UNCHANGED <<events, queue, pc, cur, attempt, js, answered, brokerVars, countVars>>

(***************************************************************************)
(* The task ends; what is left in the queues is never read.                *)
(***************************************************************************)
EndTask ==
  /\ queue' = [l \in Lanes |-> <<>>]
  /\ pc' = "idle"
  /\ cur' = 0
  /\ attempt' = 0
  /\ answered' = FALSE
  /\ cancelled' = FALSE
  /\ abandoned' = abandoned \cup
       {n \in Finals : n = cur \/ n \in Elements(queue["critical"])}
  /\ UNCHANGED <<events, brokerVars, success, failed>>

(***************************************************************************)
(* The cancellation is raised where the task waits, in the pause between   *)
(* attempts, in nats.connect() or for an answer, and nothing catches it.   *)
(***************************************************************************)
TaskCancelled ==
  /\ cancelled
  /\ EndTask
  /\ phase' = "flushing"
  /\ UNCHANGED js

(***************************************************************************)
(* nats_client.drain() returns or raises; there is none to call when the   *)
(* task had no connection.                                                 *)
(***************************************************************************)
FinishClose ==
  /\ phase = "flushing"
  /\ phase' = "stopped"
  /\ js' = FALSE
  /\ UNCHANGED <<events, queue, pc, cur, attempt, answered, cancelled, brokerVars, countVars>>

(* The process dies.                                                       *)
Crash ==
  /\ phase # "stopped"
  /\ EndTask
  /\ phase' = "stopped"
  /\ js' = FALSE

(* A new process starts; what the old one wrote has arrived or is lost.    *)
Start ==
  /\ phase = "stopped"
  /\ wire = <<>>
  /\ phase' = "running"
  /\ UNCHANGED <<events, queue, pc, cur, attempt, js, answered, cancelled, brokerVars,
                 countVars>>

-----------------------------------------------------------------------------
TaskStep ==
  \/ \E l \in Lanes : Take(l)
  \/ Send
  \/ Succeed
  \/ Timeout
  \/ TaskCancelled

Next ==
  \/ \E e \in Event : Offer(e)
  \/ TaskStep
  \/ Connect
  \/ ConnectFails
  \/ ServerReceives
  \/ ConnectionDrops
  \/ \E b \in Bars : WindowExpires(b)
  \/ BeginClose
  \/ CancelTask
  \/ FinishClose
  \/ Crash
  \/ Start

Spec == Init /\ [][Next]_vars

(***************************************************************************)
(* The event loop runs the publisher task and close(), and timeouts fire.  *)
(* Nothing is assumed of the server or the connection: neither that        *)
(* nats.connect() returns nor that drain() does.                           *)
(***************************************************************************)
Fairness ==
  /\ WF_vars(TaskStep)
  /\ WF_vars(CancelTask)
  /\ WF_vars(FinishClose /\ ~js)

LiveSpec == Spec /\ Fairness

-----------------------------------------------------------------------------
(***************************************************************************)
(* Properties.                                                             *)
(***************************************************************************)
TypeOK ==
  /\ events \in Seq(Event) /\ Len(events) <= MaxEvents
  /\ phase \in {"running", "draining", "awaiting", "flushing", "stopped"}
  /\ queue \in [Lanes -> Seq(Numbers)]
  /\ \A l \in Lanes : Len(queue[l]) <= Capacity[l]
  /\ pc \in {"idle", "connect", "wait"}
  /\ cur \in {0} \cup Numbers
  /\ attempt \in 0..(IF cur = 0 THEN 0 ELSE Retries[Lane(cur)])
  /\ js \in BOOLEAN
  /\ answered \in BOOLEAN
  /\ cancelled \in BOOLEAN
  /\ wire \in Seq([ev : Numbers, try : Nat])
  /\ stream \in [Lanes -> Seq(Numbers)]
  /\ expiries \in [Bars -> 0..MaxExpiries]
  /\ success \cup failed \cup abandoned \subseteq Numbers

(***************************************************************************)
(* Every final the service saw is in exactly one place: queued, being      *)
(* published, counted as published, counted as failed, or abandoned when   *)
(* the task ended.  While it runs, none is lost uncounted.                 *)
(***************************************************************************)
Queued    == Finals \cap Elements(queue["critical"])
InFlight  == Finals \cap {cur}

FinalsAccounted ==
  /\ Finals = Queued \cup InFlight \cup (success \cap Finals) \cup failed \cup abandoned
  /\ Cardinality(Finals) =
       Len(queue["critical"]) + Cardinality(InFlight) + Cardinality(success \cap Finals)
         + Cardinality(failed) + Cardinality(abandoned)

(***************************************************************************)
(* A final counted as published is in CHART_CRITICAL: itself, or, when     *)
(* JetStream dropped it as a duplicate, another final of the same bar.     *)
(***************************************************************************)
SuccessIsStored ==
  \A n \in success \cap Finals :
    \E i \in 1..Len(stream["critical"]) : Bar(stream["critical"][i]) = Bar(n)

(***************************************************************************)
(* Each lane's stream keeps the order the service saw, whatever was lost,  *)
(* retried or stored late after it was given up.                           *)
(***************************************************************************)
StreamInOrder ==
  \A l \in Lanes : \A i, j \in 1..Len(stream[l]) : i < j => stream[l][i] <= stream[l][j]

(***************************************************************************)
(* Retries, lost answers and restarts never store a second final of a bar  *)
(* within the duplicate window.                                            *)
(***************************************************************************)
OneCopyPerWindow ==
  \A b \in Bars :
    Cardinality({i \in 1..Len(stream["critical"]) : Bar(stream["critical"][i]) = b})
      <= 1 + expiries[b]

(***************************************************************************)
(* An accepted final is counted as published or failed, or its process     *)
(* stops, unless the task is in nats.connect() for ever: that call is not  *)
(* under publish_timeout_seconds.                                          *)
(***************************************************************************)
Settled(n) == n \in success \cup failed \cup abandoned

AcceptedFinalSettles ==
  \A n \in Numbers :
    (n \in Queued \cup InFlight) ~> (Settled(n) \/ [](pc = "connect" /\ ~js))

(***************************************************************************)
(* close() returns, or gets as far as nats_client.drain(), whatever the    *)
(* task is doing and even when the server is gone.  The one exception is a *)
(* cancellation that meets the answer to a publish and is dropped: the     *)
(* task then runs on and close() waits for it.                             *)
(***************************************************************************)
CancelDropped == phase = "awaiting" /\ ~cancelled

CloseReturns ==
  (phase = "draining") ~> (phase = "stopped" \/ (phase = "flushing" /\ js) \/ CancelDropped)
=============================================================================
