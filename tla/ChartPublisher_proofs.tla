----------------------- MODULE ChartPublisher_proofs -----------------------
(***************************************************************************)
(* Proofs about ChartPublisher, for any bars, capacities, retries, events  *)
(* and expiries of the duplicate window.                                   *)
(***************************************************************************)
EXTENDS ChartPublisher, TLAPS, FiniteSetTheorems

(***************************************************************************)
(* Sequences.                                                              *)
(***************************************************************************)

(* Taking the head off a non-empty sequence.                               *)
LEMMA TailFacts ==
  ASSUME NEW S, NEW q \in Seq(S), q # <<>>
  PROVE  /\ Head(q) \in S
         /\ Head(q) = q[1]
         /\ 1 \in 1..Len(q)
         /\ Tail(q) \in Seq(S)
         /\ Len(Tail(q)) = Len(q) - 1
         /\ \A i \in 1..Len(Tail(q)) : Tail(q)[i] = q[i + 1] /\ i + 1 \in 1..Len(q)
  OBVIOUS

(* Putting an element at the end of one.                                   *)
LEMMA AppendFacts ==
  ASSUME NEW S, NEW q \in Seq(S), NEW e \in S
  PROVE  /\ Append(q, e) \in Seq(S)
         /\ Len(Append(q, e)) = Len(q) + 1
         /\ \A i \in 1..Len(q) : Append(q, e)[i] = q[i]
         /\ Append(q, e)[Len(q) + 1] = e
         /\ \A i \in 1..(Len(q) + 1) : i \in 1..Len(q) \/ i = Len(q) + 1
  OBVIOUS

(***************************************************************************)
(* The steps by what they do to the events: most invariants do not tell    *)
(* the two failures, the two ends of the task or the other steps apart.    *)
(***************************************************************************)
Fails ==
  /\ pc \in {"connect", "wait"}
  /\ AttemptFails
  /\ UNCHANGED <<events, phase, js, answered, cancelled, brokerVars, success, abandoned>>

Phases == {"running", "draining", "awaiting", "flushing", "stopped"}

Ends ==
  /\ EndTask
  /\ phase' \in Phases
  /\ js' \in {js, FALSE}

Quiet ==
  /\ phase' \in {phase} \cup Phases
  /\ js' \in {js} \cup BOOLEAN
  /\ cancelled' \in {cancelled, TRUE}
  /\ UNCHANGED <<events, queue, pc, cur, attempt, answered, brokerVars, countVars>>

LEMMA StepKinds ==
  ASSUME [Next]_vars
  PROVE  \/ \E e \in Event : Offer(e)
         \/ \E l \in Lanes : Take(l)
         \/ Fails
         \/ Send
         \/ Succeed
         \/ ServerReceives
         \/ ConnectionDrops
         \/ \E b \in Bars : WindowExpires(b)
         \/ Ends
         \/ Quiet
<1>1. ConnectFails \/ Timeout => Fails
  BY DEF ConnectFails, Timeout, Fails
<1>2. Connect \/ BeginClose \/ CancelTask \/ FinishClose \/ Start \/ UNCHANGED vars => Quiet
  BY DEF Connect, BeginClose, CancelTask, FinishClose, Start, vars, Quiet, Phases, brokerVars,
         countVars
<1>3. TaskCancelled \/ Crash => Ends
  BY DEF TaskCancelled, Crash, Ends, Phases
<1> QED BY <1>1, <1>2, <1>3 DEF Next, TaskStep

(***************************************************************************)
(* Types.  Every number anywhere is that of an event the service has seen, *)
(* in the lane it is found in.                                             *)
(***************************************************************************)
Seen == 1..Len(events)

KnownEvents ==
  /\ cur \in Seen \cup {0}
  /\ pc = "idle" <=> cur = 0
  /\ \A l \in Lanes : \A i \in 1..Len(queue[l]) : queue[l][i] \in Seen /\ Lane(queue[l][i]) = l
  /\ \A l \in Lanes : \A i \in 1..Len(stream[l]) : stream[l][i] \in Seen /\ Lane(stream[l][i]) = l
  /\ \A i \in 1..Len(wire) : wire[i].ev \in Seen
  /\ success \subseteq Seen
  /\ failed \cup abandoned \subseteq Finals

LEMMA EventFacts ==
  ASSUME TypeOK
  PROVE  /\ Len(events) \in Nat
         /\ \A n \in Seen : n \in Numbers /\ n \in Nat /\ n <= Len(events)
         /\ \A n \in Seen : Lane(n) \in Lanes /\ Bar(n) \in Bars
         /\ Finals \subseteq Seen
         /\ 0 \notin Seen
         /\ \A n \in Seen : n \in Finals <=> Lane(n) = "critical"
<1>1. events \in Seq(Event) /\ Len(events) \in Nat /\ Len(events) <= MaxEvents
  BY DEF TypeOK
<1>2. \A n \in Seen : events[n] \in Event
  BY <1>1 DEF Seen
<1>3. \A n \in Seen : n \in Numbers /\ n \in Nat /\ n <= Len(events)
  BY <1>1, PublisherAssumption DEF Seen, Numbers
<1>4. 0 \notin Seen
  BY <1>1 DEF Seen
<1> QED BY <1>1, <1>2, <1>3, <1>4 DEF Lane, Bar, Event, Finals, Seen

(* A new event, numbered n, leaves the lanes and bars of the others alone. *)
LEMMA OfferFacts ==
  ASSUME TypeOK, NEW e \in Event, Offer(e), NEW n, n = Len(events) + 1
  PROVE  /\ n \in Numbers /\ n \in Nat
         /\ \A m \in Seen : m < n
         /\ Seen' = Seen \cup {n}
         /\ \A m \in Seen : Lane(m)' = Lane(m) /\ Bar(m)' = Bar(m)
         /\ Lane(n)' = e.lane
         /\ Finals' = IF e.lane = "critical" THEN Finals \cup {n} ELSE Finals
         /\ e.lane \in Lanes
         /\ events' \in Seq(Event) /\ Len(events') <= MaxEvents
<1>1. events \in Seq(Event) /\ Len(events) \in Nat /\ Len(events) < MaxEvents
  BY DEF TypeOK, Offer
<1>2. /\ events' \in Seq(Event)
      /\ Len(events') = n
      /\ \A i \in 1..Len(events) : events'[i] = events[i]
      /\ events'[n] = e
  BY <1>1, AppendFacts DEF Offer
<1>3. n \in Numbers /\ n \in Nat /\ (\A m \in Seen : m < n) /\ Len(events') <= MaxEvents
  BY <1>1, <1>2, PublisherAssumption DEF Seen, Numbers
<1>4. Seen' = Seen \cup {n}
  BY <1>1, <1>2 DEF Seen
<1>5. /\ \A m \in Seen : Lane(m)' = Lane(m) /\ Bar(m)' = Bar(m)
      /\ Lane(n)' = e.lane
  BY <1>2 DEF Seen, Lane, Bar
<1>6. Finals' = IF e.lane = "critical" THEN Finals \cup {n} ELSE Finals
  <2>1. Finals' = {m \in Seen \cup {n} : Lane(m)' = "critical"}
    BY <1>4 DEF Finals, Seen
  <2>2. Finals = {m \in Seen : Lane(m) = "critical"}
    BY DEF Finals, Seen
  <2> QED BY <2>1, <2>2, <1>5
<1> QED BY <1>2, <1>3, <1>4, <1>5, <1>6 DEF Event

LEMMA SameEvents ==
  ASSUME events' = events
  PROVE  /\ Seen' = Seen /\ Finals' = Finals
         /\ \A n : Lane(n)' = Lane(n) /\ Bar(n)' = Bar(n)
  BY DEF Seen, Finals, Lane, Bar

(* What becomes of the queues.                                             *)
LEMMA OfferQueue ==
  ASSUME TypeOK, NEW e \in Event, Offer(e), NEW n, n = Len(events) + 1
  PROVE  \/ /\ queue'[e.lane] = Append(queue[e.lane], n)
            /\ \A l \in Lanes \ {e.lane} : queue'[l] = queue[l]
            /\ queue' \in [Lanes -> Seq(Numbers)]
            /\ Len(queue[e.lane]) < Capacity[e.lane]
            /\ failed' = failed
         \/ /\ queue' = queue
            /\ failed' = IF e.lane = "critical" THEN failed \cup {n} ELSE failed
<1>1. n \in Numbers /\ e.lane \in Lanes
  BY OfferFacts
<1>2. queue \in [Lanes -> Seq(Numbers)] /\ Append(queue[e.lane], n) \in Seq(Numbers)
  BY <1>1, AppendFacts DEF TypeOK
<1>3. CASE Accept(n, e.lane)
  BY <1>1, <1>2, <1>3 DEF Accept
<1>4. CASE Refuse(n, e.lane)
  BY <1>4 DEF Refuse
<1> QED BY <1>3, <1>4 DEF Offer

LEMMA TakeFacts ==
  ASSUME TypeOK, KnownEvents, NEW l \in Lanes, Take(l)
  PROVE  /\ cur = 0 /\ pc = "idle"
         /\ cur' \in Seen /\ Lane(cur') = l
         /\ 1 \in 1..Len(queue[l]) /\ cur' = queue[l][1]
         /\ queue' \in [Lanes -> Seq(Numbers)]
         /\ \A k \in Lanes \ {l} : queue'[k] = queue[k]
         /\ Len(queue'[l]) = Len(queue[l]) - 1
         /\ \A i \in 1..Len(queue'[l]) : queue'[l][i] = queue[l][i + 1] /\ i + 1 \in 1..Len(queue[l])
<1>1. queue[l] \in Seq(Numbers) /\ queue[l] # <<>>
  BY DEF TypeOK, Take
<1>2. /\ queue' \in [Lanes -> Seq(Numbers)]
      /\ queue'[l] = Tail(queue[l])
      /\ \A k \in Lanes \ {l} : queue'[k] = queue[k]
  BY <1>1, TailFacts DEF TypeOK, Take
<1> QED BY <1>1, <1>2, TailFacts DEF KnownEvents, Take

LEMMA ReceiveFacts ==
  ASSUME TypeOK, KnownEvents, ServerReceives
  PROVE  /\ Head(wire) = wire[1] /\ 1 \in 1..Len(wire)
         /\ wire[1].ev \in Seen /\ Lane(wire[1].ev) \in Lanes
         /\ wire' \in Seq([ev : Numbers, try : Nat])
         /\ \A i \in 1..Len(wire') : wire'[i] = wire[i + 1] /\ i + 1 \in 1..Len(wire)
         /\ ids' = ids \cup {MsgId(wire[1])}
         /\ \/ stream' = stream /\ MsgId(wire[1]) \in ids
            \/ /\ MsgId(wire[1]) \notin ids
               /\ stream'[Lane(wire[1].ev)] = Append(stream[Lane(wire[1].ev)], wire[1].ev)
               /\ \A l \in Lanes \ {Lane(wire[1].ev)} : stream'[l] = stream[l]
               /\ stream' \in [Lanes -> Seq(Numbers)]
<1>1. wire \in Seq([ev : Numbers, try : Nat]) /\ wire # <<>> /\ wire' = Tail(wire)
  BY DEF TypeOK, ServerReceives
<1>2. /\ Head(wire) = wire[1] /\ 1 \in 1..Len(wire)
      /\ wire' \in Seq([ev : Numbers, try : Nat])
      /\ \A i \in 1..Len(wire') : wire'[i] = wire[i + 1] /\ i + 1 \in 1..Len(wire)
  BY <1>1, TailFacts
<1>3. wire[1].ev \in Seen /\ Lane(wire[1].ev) \in Lanes /\ wire[1].ev \in Numbers
  BY <1>2, EventFacts DEF KnownEvents
<1>4. stream[Lane(wire[1].ev)] \in Seq(Numbers)
  BY <1>3 DEF TypeOK
<1>5. Append(stream[Lane(wire[1].ev)], wire[1].ev) \in Seq(Numbers)
  BY <1>3, <1>4, AppendFacts
<1> QED BY <1>2, <1>3, <1>5 DEF TypeOK, ServerReceives

(* The end of the task empties the queues and its hands.                   *)
LEMMA EndsFacts ==
  ASSUME TypeOK, KnownEvents, Ends
  PROVE  /\ queue' = [l \in Lanes |-> <<>>]
         /\ \A l \in Lanes : queue'[l] = <<>> /\ Len(queue'[l]) = 0
         /\ abandoned' \subseteq Finals
  BY DEF Ends, EndTask, KnownEvents, Finals

LEMMA TypeInit == Init => TypeOK /\ KnownEvents
<1> SUFFICES ASSUME Init PROVE TypeOK /\ KnownEvents
  OBVIOUS
<1>1. TypeOK
  <2>1. \A l \in Lanes : queue[l] = <<>> /\ Len(queue[l]) = 0 /\ Len(queue[l]) <= Capacity[l]
    BY PublisherAssumption DEF Init
  <2>2. queue \in [Lanes -> Seq(Numbers)] /\ stream \in [Lanes -> Seq(Numbers)]
    BY DEF Init
  <2>3. events \in Seq(Event) /\ Len(events) <= MaxEvents
    BY PublisherAssumption DEF Init
  <2>4. attempt \in 0..(IF cur = 0 THEN 0 ELSE Retries[Lane(cur)])
    BY DEF Init
  <2>5. expiries \in [Bars -> 0..MaxExpiries]
    BY PublisherAssumption DEF Init
  <2>6. wire \in Seq([ev : Numbers, try : Nat])
    BY DEF Init
  <2>7. /\ phase \in {"running", "draining", "awaiting", "flushing", "stopped"}
        /\ cancelled \in BOOLEAN
        /\ pc \in {"idle", "connect", "wait"}
        /\ cur \in {0} \cup Numbers
        /\ js \in BOOLEAN /\ answered \in BOOLEAN
        /\ success \cup failed \cup abandoned \subseteq Numbers
    BY DEF Init
  <2> QED BY <2>1, <2>2, <2>3, <2>4, <2>5, <2>6, <2>7 DEF TypeOK
<1>2. KnownEvents
  BY DEF Init, KnownEvents, Seen, Finals
<1> QED BY <1>1, <1>2

LEMMA TypeNext ==
  ASSUME TypeOK, KnownEvents, [Next]_vars
  PROVE  TypeOK' /\ KnownEvents'
<1> USE EventFacts
<1>1. ASSUME NEW e \in Event, Offer(e)
      PROVE  TypeOK' /\ KnownEvents'
  <2>0. PICK n : n = Len(events) + 1
    OBVIOUS
  <2>1. /\ n \in Numbers /\ n \in Nat
        /\ Seen' = Seen \cup {n}
        /\ \A m \in Seen : Lane(m)' = Lane(m)
        /\ Lane(n)' = e.lane
        /\ Finals' = IF e.lane = "critical" THEN Finals \cup {n} ELSE Finals
        /\ e.lane \in Lanes
        /\ events' \in Seq(Event) /\ Len(events') <= MaxEvents
    BY <1>1, <2>0, OfferFacts
  <2>2. \/ /\ queue'[e.lane] = Append(queue[e.lane], n)
           /\ \A l \in Lanes \ {e.lane} : queue'[l] = queue[l]
           /\ queue' \in [Lanes -> Seq(Numbers)]
           /\ Len(queue[e.lane]) < Capacity[e.lane]
           /\ failed' = failed
        \/ /\ queue' = queue
           /\ failed' = IF e.lane = "critical" THEN failed \cup {n} ELSE failed
    BY <1>1, <2>0, OfferQueue
  <2>3. UNCHANGED <<phase, pc, cur, attempt, js, answered, cancelled, brokerVars, success,
                    abandoned>>
    BY <1>1 DEF Offer
  <2>4. /\ queue' \in [Lanes -> Seq(Numbers)]
        /\ \A l \in Lanes : Len(queue'[l]) <= Capacity[l]
        /\ \A l \in Lanes : \A i \in 1..Len(queue'[l]) :
             queue'[l][i] \in Seen' /\ events'[queue'[l][i]].lane = l
    <3>1. CASE queue' = queue
      BY <3>1, <2>1 DEF TypeOK, KnownEvents, Lane
    <3>2. CASE /\ queue'[e.lane] = Append(queue[e.lane], n)
               /\ \A l \in Lanes \ {e.lane} : queue'[l] = queue[l]
               /\ queue' \in [Lanes -> Seq(Numbers)]
               /\ Len(queue[e.lane]) < Capacity[e.lane]
      <4>1. queue[e.lane] \in Seq(Numbers) /\ Len(queue[e.lane]) \in Nat
        BY <2>1 DEF TypeOK
      <4>2. /\ Len(queue'[e.lane]) = Len(queue[e.lane]) + 1
            /\ \A i \in 1..Len(queue[e.lane]) : queue'[e.lane][i] = queue[e.lane][i]
            /\ queue'[e.lane][Len(queue[e.lane]) + 1] = n
            /\ \A i \in 1..(Len(queue[e.lane]) + 1) :
                 i \in 1..Len(queue[e.lane]) \/ i = Len(queue[e.lane]) + 1
        BY <3>2, <4>1, <2>1, AppendFacts
      <4>3. Capacity[e.lane] \in Nat
        BY <2>1, PublisherAssumption
      <4>4. ASSUME NEW l \in Lanes
            PROVE  Len(queue'[l]) <= Capacity[l]
        <5>1. CASE l # e.lane
          BY <5>1, <3>2 DEF TypeOK
        <5>2. CASE l = e.lane
          BY <5>2, <3>2, <4>1, <4>2, <4>3
        <5> QED BY <5>1, <5>2
      <4>5. ASSUME NEW l \in Lanes, NEW i \in 1..Len(queue'[l])
            PROVE  queue'[l][i] \in Seen' /\ events'[queue'[l][i]].lane = l
        <5>1. CASE l # e.lane
          <6>1. queue'[l] = queue[l]
            BY <5>1, <3>2
          <6>2. queue[l][i] \in Seen /\ events[queue[l][i]].lane = l
            BY <6>1, <4>5 DEF KnownEvents, Lane
          <6> QED BY <6>1, <6>2, <2>1 DEF Lane
        <5>2. CASE l = e.lane
          <6>1. CASE i \in 1..Len(queue[l])
            <7>1. queue'[l][i] = queue[l][i]
              BY <5>2, <6>1, <4>2
            <7>2. queue[l][i] \in Seen /\ events[queue[l][i]].lane = l
              BY <6>1 DEF KnownEvents, Lane
            <7> QED BY <7>1, <7>2, <2>1 DEF Lane
          <6>2. CASE i = Len(queue[l]) + 1
            BY <5>2, <6>2, <4>2, <2>1 DEF Lane
          <6> QED BY <5>2, <4>2, <6>1, <6>2
        <5> QED BY <5>1, <5>2
      <4> QED BY <3>2, <4>4, <4>5
    <3> QED BY <2>2, <3>1, <3>2
  <2>5. attempt' \in 0..(IF cur' = 0 THEN 0 ELSE Retries[Lane(cur)'])
    BY <2>1, <2>3 DEF TypeOK, KnownEvents
  <2>6. failed' \subseteq Finals' /\ abandoned' \subseteq Finals'
    BY <2>1, <2>2, <2>3 DEF KnownEvents
  <2>7. TypeOK'
    <3>1. success' \cup failed' \cup abandoned' \subseteq Numbers
      BY <2>1, <2>2, <2>3 DEF TypeOK
    <3>2. \A l \in Lanes : Len(queue[l])' <= Capacity[l]
      BY <2>4
    <3> QED BY <2>1, <2>3, <2>4, <2>5, <3>1 DEF TypeOK, brokerVars, Lane
  <2>8. KnownEvents'
    <3>1. cur' \in Seen' \cup {0} /\ (pc' = "idle" <=> cur' = 0)
      BY <2>1, <2>3 DEF KnownEvents
    <3>2. \A l \in Lanes : \A i \in 1..Len(stream'[l]) :
            stream'[l][i] \in Seen' /\ events'[stream'[l][i]].lane = l
      BY <2>1, <2>3 DEF KnownEvents, brokerVars, Lane
    <3>3. \A i \in 1..Len(wire') : wire'[i].ev \in Seen'
      BY <2>1, <2>3 DEF KnownEvents, brokerVars
    <3>4. success' \subseteq Seen'
      BY <2>1, <2>3 DEF KnownEvents
    <3> QED BY <2>4, <2>6, <3>1, <3>2, <3>3, <3>4 DEF KnownEvents, Lane
  <2> QED BY <2>7, <2>8
<1>2. ASSUME NEW l \in Lanes, Take(l)
      PROVE  TypeOK' /\ KnownEvents'
  <2>1. /\ cur' \in Seen /\ Lane(cur') = l
        /\ queue' \in [Lanes -> Seq(Numbers)]
        /\ \A k \in Lanes \ {l} : queue'[k] = queue[k]
        /\ Len(queue'[l]) = Len(queue[l]) - 1
        /\ \A i \in 1..Len(queue'[l]) : queue'[l][i] = queue[l][i + 1] /\ i + 1 \in 1..Len(queue[l])
    BY <1>2, TakeFacts
  <2>2. /\ attempt' = 1 /\ pc' = "connect"
        /\ UNCHANGED <<events, phase, js, answered, cancelled, brokerVars, countVars>>
    BY <1>2 DEF Take
  <2>3. Seen' = Seen /\ Finals' = Finals /\ \A n : Lane(n)' = Lane(n)
    BY <2>2, SameEvents
  <2>4. Retries[l] \in Nat \ {0} /\ Capacity[l] \in Nat /\ Len(queue[l]) \in Nat
    BY PublisherAssumption DEF TypeOK
  <2>5. \A k \in Lanes : Len(queue'[k]) <= Capacity[k]
    <3>1. ASSUME NEW k \in Lanes PROVE Len(queue'[k]) <= Capacity[k]
      <4>1. CASE k # l
        BY <4>1, <2>1 DEF TypeOK
      <4>2. CASE k = l
        BY <4>2, <2>1, <2>4 DEF TypeOK
      <4> QED BY <4>1, <4>2
    <3> QED BY <3>1
  <2>6. attempt' \in 0..(IF cur' = 0 THEN 0 ELSE Retries[events'[cur'].lane])
    BY <2>1, <2>2, <2>4 DEF Lane
  <2>7. TypeOK'
    BY <2>1, <2>2, <2>5, <2>6 DEF TypeOK, brokerVars, countVars, Lane
  <2>8. KnownEvents'
    <3>1. \A k \in Lanes : \A i \in 1..Len(queue'[k]) :
            queue'[k][i] \in Seen /\ Lane(queue'[k][i]) = k
      <4>1. ASSUME NEW k \in Lanes, NEW i \in 1..Len(queue'[k])
            PROVE  queue'[k][i] \in Seen /\ Lane(queue'[k][i]) = k
        <5>1. CASE k # l
          BY <5>1, <2>1 DEF KnownEvents
        <5>2. CASE k = l
          <6>1. queue'[k][i] = queue[k][i + 1] /\ i + 1 \in 1..Len(queue[k])
            BY <5>2, <2>1
          <6> QED BY <6>1 DEF KnownEvents
        <5> QED BY <5>1, <5>2
      <4> QED BY <4>1
    <3> QED BY <2>1, <2>2, <2>3, <3>1 DEF KnownEvents, brokerVars, countVars, Lane
  <2> QED BY <2>7, <2>8
<1>3. ASSUME Fails
      PROVE  TypeOK' /\ KnownEvents'
  <2>1. /\ UNCHANGED <<events, phase, queue, js, answered, cancelled, brokerVars, success,
                       abandoned>>
        /\ cur \in Seen
        /\ Retries[Lane(cur)] \in Nat /\ attempt \in Nat
    BY <1>3, PublisherAssumption DEF Fails, AttemptFails, KnownEvents, TypeOK
  <2>2. Seen' = Seen /\ Finals' = Finals /\ \A n : Lane(n)' = Lane(n)
    BY <2>1, SameEvents
  <2>3. CASE Retry
    <3>1. attempt' \in 0..(IF cur' = 0 THEN 0 ELSE Retries[events'[cur'].lane])
      BY <2>1, <2>3 DEF Retry, Lane, TypeOK
    <3>2. TypeOK'
      BY <2>1, <2>3, <3>1 DEF Retry, TypeOK, brokerVars, Lane
    <3>3. KnownEvents'
      BY <2>1, <2>2, <2>3 DEF Retry, KnownEvents, brokerVars, Lane
    <3> QED BY <3>2, <3>3
  <2>4. CASE GiveUp
    <3>1. failed' \subseteq Finals
      BY <2>1, <2>4 DEF GiveUp, KnownEvents
    <3>2. failed' \subseteq Numbers
      BY <3>1
    <3>3. TypeOK'
      BY <2>1, <2>4, <3>2 DEF GiveUp, TypeOK, brokerVars, Lane
    <3>4. KnownEvents'
      BY <2>1, <2>2, <2>4, <3>1 DEF GiveUp, KnownEvents, brokerVars, Lane
    <3> QED BY <3>3, <3>4
  <2> QED BY <1>3, <2>3, <2>4 DEF Fails, AttemptFails
<1>4. ASSUME Send
      PROVE  TypeOK' /\ KnownEvents'
  <2>1. /\ wire' = Append(wire, [ev |-> cur, try |-> attempt])
        /\ answered' = FALSE /\ pc' = "wait"
        /\ UNCHANGED <<events, phase, queue, cur, attempt, js, cancelled, stream, ids, expiries,
                       countVars>>
        /\ cur \in Seen /\ attempt \in Nat
        /\ wire \in Seq([ev : Numbers, try : Nat])
    BY <1>4, PublisherAssumption DEF Send, KnownEvents, TypeOK
  <2>2. Seen' = Seen /\ Finals' = Finals /\ \A n : Lane(n)' = Lane(n)
    BY <2>1, SameEvents
  <2>3. [ev |-> cur, try |-> attempt] \in [ev : Numbers, try : Nat]
    BY <2>1
  <2>4. /\ wire' \in Seq([ev : Numbers, try : Nat])
        /\ Len(wire') = Len(wire) + 1
        /\ \A i \in 1..Len(wire) : wire'[i] = wire[i]
        /\ wire'[Len(wire) + 1] = [ev |-> cur, try |-> attempt]
        /\ \A i \in 1..(Len(wire) + 1) : i \in 1..Len(wire) \/ i = Len(wire) + 1
    BY <2>1, <2>3, AppendFacts
  <2>5. TypeOK'
    BY <2>1, <2>4 DEF TypeOK, countVars, Lane
  <2>6. KnownEvents'
    BY <2>1, <2>2, <2>4 DEF KnownEvents, countVars, Lane
  <2> QED BY <2>5, <2>6
<1>5. ASSUME Succeed
      PROVE  TypeOK' /\ KnownEvents'
  <2>1. /\ success' = success \cup {cur} /\ pc' = "idle" /\ cur' = 0 /\ attempt' = 0
        /\ UNCHANGED <<events, phase, queue, js, answered, brokerVars, failed, abandoned>>
        /\ cancelled' \in BOOLEAN
        /\ cur \in Seen
    BY <1>5 DEF Succeed, KnownEvents
  <2>2. Seen' = Seen /\ Finals' = Finals /\ \A n : Lane(n)' = Lane(n)
    BY <2>1, SameEvents
  <2>3. success' \cup failed' \cup abandoned' \subseteq Numbers
    BY <2>1 DEF TypeOK
  <2>4. TypeOK'
    BY <2>1, <2>3 DEF TypeOK, brokerVars, Lane
  <2>5. KnownEvents'
    BY <2>1, <2>2 DEF KnownEvents, brokerVars, Lane
  <2> QED BY <2>4, <2>5
<1>6. ASSUME ServerReceives
      PROVE  TypeOK' /\ KnownEvents'
  <2>0. PICK k : k = Lane(wire[1].ev)
    OBVIOUS
  <2>1. /\ wire[1].ev \in Seen /\ k \in Lanes
        /\ wire' \in Seq([ev : Numbers, try : Nat])
        /\ \A i \in 1..Len(wire') : wire'[i] = wire[i + 1] /\ i + 1 \in 1..Len(wire)
        /\ \/ stream' = stream
           \/ /\ stream'[k] = Append(stream[k], wire[1].ev)
              /\ \A l \in Lanes \ {k} : stream'[l] = stream[l]
              /\ stream' \in [Lanes -> Seq(Numbers)]
    BY <1>6, <2>0, ReceiveFacts
  <2>2. /\ UNCHANGED <<events, phase, queue, pc, cur, attempt, js, cancelled, expiries, countVars>>
        /\ answered' \in BOOLEAN
    BY <1>6 DEF ServerReceives, Answer, TypeOK
  <2>3. Seen' = Seen /\ Finals' = Finals /\ \A n : Lane(n)' = Lane(n)
    BY <2>2, SameEvents
  <2>4. TypeOK'
    BY <2>1, <2>2 DEF TypeOK, countVars, Lane
  <2>5. \A l \in Lanes : \A i \in 1..Len(stream'[l]) :
          stream'[l][i] \in Seen /\ Lane(stream'[l][i]) = l
    <3>1. CASE stream' = stream
      BY <3>1 DEF KnownEvents
    <3>2. CASE /\ stream'[k] = Append(stream[k], wire[1].ev)
               /\ \A l \in Lanes \ {k} : stream'[l] = stream[l]
      <4>1. stream[k] \in Seq(Numbers) /\ wire[1].ev \in Numbers
        BY <2>1 DEF TypeOK
      <4>2. /\ Len(stream'[k]) = Len(stream[k]) + 1
            /\ \A i \in 1..Len(stream[k]) : stream'[k][i] = stream[k][i]
            /\ stream'[k][Len(stream[k]) + 1] = wire[1].ev
            /\ \A i \in 1..(Len(stream[k]) + 1) : i \in 1..Len(stream[k]) \/ i = Len(stream[k]) + 1
        BY <3>2, <4>1, AppendFacts
      <4>3. ASSUME NEW l \in Lanes, NEW i \in 1..Len(stream'[l])
            PROVE  stream'[l][i] \in Seen /\ Lane(stream'[l][i]) = l
        <5>1. CASE l # k
          BY <5>1, <3>2 DEF KnownEvents
        <5>2. CASE l = k
          <6>1. CASE i \in 1..Len(stream[k])
            <7>1. stream'[k][i] = stream[k][i]
              BY <6>1, <4>2
            <7>2. stream[k][i] \in Seen /\ Lane(stream[k][i]) = k
              BY <6>1, <2>1 DEF KnownEvents
            <7> QED BY <5>2, <7>1, <7>2
          <6>2. CASE i = Len(stream[k]) + 1
            BY <5>2, <6>2, <4>2, <2>0, <2>1
          <6> QED BY <5>2, <4>2, <6>1, <6>2
        <5> QED BY <5>1, <5>2
      <4> QED BY <4>3
    <3> QED BY <2>1, <3>1, <3>2
  <2>6. \A i \in 1..Len(wire') : wire'[i].ev \in Seen
    BY <2>1 DEF KnownEvents
  <2>7. KnownEvents'
    BY <2>2, <2>3, <2>5, <2>6 DEF KnownEvents, countVars, Lane
  <2> QED BY <2>4, <2>7
<1>7. ASSUME ConnectionDrops
      PROVE  TypeOK' /\ KnownEvents'
  <2>1. UNCHANGED <<events, clientVars, stream, ids, expiries, countVars>> /\ wire' = <<>>
    BY <1>7 DEF ConnectionDrops
  <2>2. wire' \in Seq([ev : Numbers, try : Nat]) /\ \A i \in 1..Len(wire') : FALSE
    BY <2>1
  <2>3. TypeOK'
    BY <2>1, <2>2 DEF TypeOK, clientVars, countVars, Lane
  <2>4. KnownEvents'
    BY <2>1, <2>2, SameEvents DEF KnownEvents, clientVars, countVars, Lane
  <2> QED BY <2>3, <2>4
<1>8. ASSUME NEW b \in Bars, WindowExpires(b)
      PROVE  TypeOK' /\ KnownEvents'
  <2>1. expiries' \in [Bars -> 0..MaxExpiries]
    BY <1>8, PublisherAssumption DEF WindowExpires, TypeOK
  <2>2. UNCHANGED <<events, clientVars, wire, stream, countVars>>
    BY <1>8 DEF WindowExpires
  <2> QED BY <2>1, <2>2, SameEvents DEF TypeOK, KnownEvents, clientVars, countVars, Lane
<1>9. ASSUME Ends
      PROVE  TypeOK' /\ KnownEvents'
  <2>1. /\ queue' = [l \in Lanes |-> <<>>]
        /\ \A l \in Lanes : queue'[l] = <<>> /\ Len(queue'[l]) = 0
        /\ abandoned' \subseteq Finals
    BY <1>9, EndsFacts
  <2>2. /\ phase' \in Phases /\ pc' = "idle" /\ cur' = 0 /\ attempt' = 0 /\ js' \in BOOLEAN
        /\ answered' = FALSE /\ cancelled' = FALSE
        /\ UNCHANGED <<events, brokerVars, success, failed>>
    BY <1>9 DEF Ends, EndTask, TypeOK
  <2>3. Seen' = Seen /\ Finals' = Finals /\ \A n : Lane(n)' = Lane(n)
    BY <2>2, SameEvents
  <2>4. /\ abandoned' \subseteq Numbers
        /\ queue' \in [Lanes -> Seq(Numbers)]
        /\ \A l \in Lanes : Len(queue[l])' <= Capacity[l]
    BY <2>1, PublisherAssumption
  <2>5. TypeOK'
    <3>1. attempt' \in 0..(IF cur' = 0 THEN 0 ELSE Retries[events'[cur'].lane])
      BY <2>2
    <3>2. success' \cup failed' \cup abandoned' \subseteq Numbers
      BY <2>2, <2>4 DEF TypeOK
    <3> QED BY <2>2, <2>4, <3>1, <3>2 DEF TypeOK, Phases, brokerVars, Lane
  <2>6. KnownEvents'
    BY <2>1, <2>2, <2>3 DEF KnownEvents, brokerVars, Lane
  <2> QED BY <2>5, <2>6
<1>10. ASSUME Quiet
       PROVE  TypeOK' /\ KnownEvents'
  BY <1>10, SameEvents DEF Quiet, Phases, TypeOK, KnownEvents, brokerVars, countVars, Lane
<1> QED BY <1>1, <1>2, <1>3, <1>4, <1>5, <1>6, <1>7, <1>8, <1>9, <1>10, StepKinds

(* The type invariant.                                                     *)
THEOREM TypeCorrect == Spec => []TypeOK
<1>1. TypeOK /\ KnownEvents /\ [Next]_vars => (TypeOK /\ KnownEvents)'
  BY TypeNext
<1> QED BY <1>1, TypeInit, PTL DEF Spec

-----------------------------------------------------------------------------
(***************************************************************************)
(* Order.  In each lane the numbers grow from the stream over the wire and *)
(* the task's hands to the queue; only an event that is tried again may    *)
(* be in the first three places at once.                                   *)
(***************************************************************************)
QueueInOrder ==
  \A l \in Lanes : \A i, j \in 1..Len(queue[l]) : i < j => queue[l][i] < queue[l][j]

CurInOrder ==
  \A l \in Lanes : cur # 0 /\ Lane(cur) = l => \A j \in 1..Len(queue[l]) : cur < queue[l][j]

WireInOrder ==
  \A l \in Lanes : \A i \in 1..Len(wire) : Lane(wire[i].ev) = l =>
    /\ \A j \in 1..Len(wire) : i < j /\ Lane(wire[j].ev) = l => wire[i].ev <= wire[j].ev
    /\ cur # 0 /\ Lane(cur) = l => wire[i].ev <= cur
    /\ \A j \in 1..Len(queue[l]) : wire[i].ev < queue[l][j]

StreamFirst ==
  \A l \in Lanes : \A i \in 1..Len(stream[l]) :
    /\ \A j \in 1..Len(wire) : Lane(wire[j].ev) = l => stream[l][i] <= wire[j].ev
    /\ cur # 0 /\ Lane(cur) = l => stream[l][i] <= cur
    /\ \A j \in 1..Len(queue[l]) : stream[l][i] < queue[l][j]

Ordered == QueueInOrder /\ CurInOrder /\ WireInOrder /\ StreamFirst /\ StreamInOrder

(* An event that leaves the task's hands, or nothing of interest.          *)
LEMMA OrderedHands ==
  ASSUME Ordered, cur' \in {cur, 0}, UNCHANGED <<events, queue, wire, stream>>
  PROVE  Ordered'
  BY DEF Ordered, QueueInOrder, CurInOrder, WireInOrder, StreamFirst, StreamInOrder, Lane

(* A new event has a greater number than all others.                       *)
LEMMA OrderedOffer ==
  ASSUME TypeOK, KnownEvents, Ordered, NEW e \in Event, Offer(e)
  PROVE  Ordered'
<1>0. PICK n : n = Len(events) + 1
  OBVIOUS
<1>1. /\ n \in Nat /\ e.lane \in Lanes
      /\ \A m \in Seen : m < n /\ m \in Nat
      /\ \A m \in Seen : events'[m].lane = events[m].lane
  BY <1>0, OfferFacts, EventFacts DEF Lane
<1>2. UNCHANGED <<cur, wire, stream>>
  BY DEF Offer, brokerVars
<1>3. \A l \in Lanes : \A i \in 1..Len(queue'[l]) :
        \/ i \in 1..Len(queue[l]) /\ queue'[l][i] = queue[l][i]
        \/ (\A j \in 1..Len(queue[l]) : j < i) /\ queue'[l][i] = n /\ i = Len(queue[l]) + 1
  <2>1. CASE queue' = queue
    BY <2>1
  <2>2. CASE /\ queue'[e.lane] = Append(queue[e.lane], n)
             /\ \A l \in Lanes \ {e.lane} : queue'[l] = queue[l]
    <3>1. queue[e.lane] \in Seq(Numbers) /\ n \in Numbers /\ Len(queue[e.lane]) \in Nat
      BY <1>0, <1>1, OfferFacts DEF TypeOK
    <3>2. /\ Len(queue'[e.lane]) = Len(queue[e.lane]) + 1
          /\ \A i \in 1..Len(queue[e.lane]) : queue'[e.lane][i] = queue[e.lane][i]
          /\ queue'[e.lane][Len(queue[e.lane]) + 1] = n
          /\ \A i \in 1..(Len(queue[e.lane]) + 1) :
               i \in 1..Len(queue[e.lane]) \/ i = Len(queue[e.lane]) + 1
      BY <2>2, <3>1, AppendFacts
    <3>3. ASSUME NEW l \in Lanes, NEW i \in 1..Len(queue'[l])
          PROVE  \/ i \in 1..Len(queue[l]) /\ queue'[l][i] = queue[l][i]
                 \/ (\A j \in 1..Len(queue[l]) : j < i) /\ queue'[l][i] = n /\ i = Len(queue[l]) + 1
      <4>1. CASE l = e.lane
        BY <4>1, <3>1, <3>2
      <4>2. CASE l # e.lane
        BY <4>2, <2>2
      <4> QED BY <4>1, <4>2
    <3> QED BY <3>3
  <2> QED BY <1>0, OfferQueue, <2>1, <2>2
<1>4. \A l \in Lanes : \A i \in 1..Len(queue[l]) : queue[l][i] \in Seen
  BY DEF KnownEvents
<1>5. QueueInOrder'
  <2> SUFFICES ASSUME NEW l \in Lanes, NEW i \in 1..Len(queue'[l]), NEW j \in 1..Len(queue'[l]), i < j
               PROVE  queue'[l][i] < queue'[l][j]
    BY DEF QueueInOrder
  <2>1. Len(queue[l]) \in Nat
    BY DEF TypeOK
  <2>2. CASE i \in 1..Len(queue[l]) /\ queue'[l][i] = queue[l][i]
    <3>1. queue[l][i] \in Seen
      BY <2>2, <1>4
    <3>2. CASE j \in 1..Len(queue[l]) /\ queue'[l][j] = queue[l][j]
      BY <2>2, <3>2 DEF Ordered, QueueInOrder
    <3>3. CASE queue'[l][j] = n
      BY <2>2, <3>1, <3>3, <1>1
    <3> QED BY <3>2, <3>3, <1>3
  <2>3. CASE i = Len(queue[l]) + 1
    BY <2>3, <2>1, <1>3
  <2> QED BY <2>2, <2>3, <1>3
<1>6. ASSUME NEW m \in Seen, NEW l \in Lanes, \A j \in 1..Len(queue[l]) : m < queue[l][j]
      PROVE  \A j \in 1..Len(queue'[l]) : m < queue'[l][j]
  BY <1>1, <1>3, <1>6
<1>7. CurInOrder'
  <2> SUFFICES ASSUME NEW l \in Lanes, cur # 0, events'[cur].lane = l
               PROVE  \A j \in 1..Len(queue'[l]) : cur < queue'[l][j]
    BY <1>2 DEF CurInOrder, Lane
  <2>1. cur \in Seen /\ Lane(cur) = l
    BY <1>1 DEF KnownEvents, Lane
  <2> QED BY <2>1, <1>6 DEF Ordered, CurInOrder
<1>8. WireInOrder'
  <2>1. \A i \in 1..Len(wire) : wire[i].ev \in Seen
    BY DEF KnownEvents
  <2>2. cur \in Seen \cup {0}
    BY DEF KnownEvents
  <2> SUFFICES ASSUME NEW l \in Lanes, NEW i \in 1..Len(wire), events'[wire[i].ev].lane = l
               PROVE  /\ \A j \in 1..Len(wire) : i < j /\ events'[wire[j].ev].lane = l =>
                                                   wire[i].ev <= wire[j].ev
                      /\ cur # 0 /\ events'[cur].lane = l => wire[i].ev <= cur
                      /\ \A j \in 1..Len(queue'[l]) : wire[i].ev < queue'[l][j]
    BY <1>2 DEF WireInOrder, Lane
  <2>3. wire[i].ev \in Seen /\ Lane(wire[i].ev) = l
    BY <2>1, <1>1 DEF Lane
  <2>4. /\ \A j \in 1..Len(wire) : i < j /\ Lane(wire[j].ev) = l => wire[i].ev <= wire[j].ev
        /\ cur # 0 /\ Lane(cur) = l => wire[i].ev <= cur
        /\ \A j \in 1..Len(queue[l]) : wire[i].ev < queue[l][j]
    BY <2>3 DEF Ordered, WireInOrder
  <2> QED BY <2>1, <2>2, <2>3, <2>4, <1>1, <1>6 DEF Lane
<1>9. StreamFirst'
  <2> SUFFICES ASSUME NEW l \in Lanes, NEW i \in 1..Len(stream[l])
               PROVE  /\ \A j \in 1..Len(wire) : events'[wire[j].ev].lane = l =>
                                                   stream[l][i] <= wire[j].ev
                      /\ cur # 0 /\ events'[cur].lane = l => stream[l][i] <= cur
                      /\ \A j \in 1..Len(queue'[l]) : stream[l][i] < queue'[l][j]
    BY <1>2 DEF StreamFirst, Lane
  <2>1. \A j \in 1..Len(wire) : wire[j].ev \in Seen
    BY DEF KnownEvents
  <2>2. cur \in Seen \cup {0} /\ stream[l][i] \in Seen
    BY DEF KnownEvents
  <2>3. /\ \A j \in 1..Len(wire) : Lane(wire[j].ev) = l => stream[l][i] <= wire[j].ev
        /\ cur # 0 /\ Lane(cur) = l => stream[l][i] <= cur
        /\ \A j \in 1..Len(queue[l]) : stream[l][i] < queue[l][j]
    BY DEF Ordered, StreamFirst
  <2> QED BY <2>1, <2>2, <2>3, <1>1, <1>6 DEF Lane
<1>10. StreamInOrder'
  BY <1>2 DEF Ordered, StreamInOrder
<1> QED BY <1>5, <1>7, <1>8, <1>9, <1>10 DEF Ordered

(* The event taken was the first of its queue.                             *)
LEMMA OrderedTake ==
  ASSUME TypeOK, KnownEvents, Ordered, NEW k \in Lanes, Take(k)
  PROVE  Ordered'
<1>1. /\ cur = 0
      /\ cur' \in Seen /\ Lane(cur') = k
      /\ 1 \in 1..Len(queue[k]) /\ cur' = queue[k][1]
      /\ \A l \in Lanes \ {k} : queue'[l] = queue[l]
      /\ Len(queue'[k]) = Len(queue[k]) - 1
      /\ \A i \in 1..Len(queue'[k]) : queue'[k][i] = queue[k][i + 1] /\ i + 1 \in 1..Len(queue[k])
  BY TakeFacts
<1>2. UNCHANGED <<events, wire, stream>>
  BY DEF Take, brokerVars
<1>3. ASSUME NEW m, NEW l \in Lanes, \A j \in 1..Len(queue[l]) : m < queue[l][j]
      PROVE  \A j \in 1..Len(queue'[l]) : m < queue'[l][j]
  BY <1>1, <1>3
<1>4. QueueInOrder'
  <2> SUFFICES ASSUME NEW l \in Lanes, NEW i \in 1..Len(queue'[l]), NEW j \in 1..Len(queue'[l]), i < j
               PROVE  queue'[l][i] < queue'[l][j]
    BY DEF QueueInOrder
  <2>1. CASE l = k
    BY <2>1, <1>1 DEF Ordered, QueueInOrder
  <2>2. CASE l # k
    BY <2>2, <1>1 DEF Ordered, QueueInOrder
  <2> QED BY <2>1, <2>2
<1>5. CurInOrder'
  <2> SUFFICES ASSUME NEW j \in 1..Len(queue'[k])
               PROVE  cur' < queue'[k][j]
    BY <1>1, <1>2 DEF CurInOrder, Lane
  <2>1. queue'[k][j] = queue[k][j + 1] /\ j + 1 \in 1..Len(queue[k]) /\ 1 < j + 1
    BY <1>1
  <2> QED BY <2>1, <1>1 DEF Ordered, QueueInOrder
<1>6. WireInOrder'
  <2>1. \A i \in 1..Len(wire) : wire[i].ev \in Nat
    BY EventFacts DEF KnownEvents
  <2>2. cur' \in Nat
    BY <1>1, EventFacts
  <2> SUFFICES ASSUME NEW l \in Lanes, NEW i \in 1..Len(wire), Lane(wire[i].ev) = l
               PROVE  /\ \A j \in 1..Len(wire) : i < j /\ Lane(wire[j].ev) = l =>
                                                   wire[i].ev <= wire[j].ev
                      /\ l = k => wire[i].ev <= cur'
                      /\ \A j \in 1..Len(queue'[l]) : wire[i].ev < queue'[l][j]
    BY <1>1, <1>2 DEF WireInOrder, Lane
  <2>3. /\ \A j \in 1..Len(wire) : i < j /\ Lane(wire[j].ev) = l => wire[i].ev <= wire[j].ev
        /\ \A j \in 1..Len(queue[l]) : wire[i].ev < queue[l][j]
    BY DEF Ordered, WireInOrder
  <2>4. l = k => wire[i].ev < cur'
    BY <2>3, <1>1
  <2> QED BY <2>1, <2>2, <2>3, <2>4, <1>3
<1>7. StreamFirst'
  <2> SUFFICES ASSUME NEW l \in Lanes, NEW i \in 1..Len(stream[l])
               PROVE  /\ \A j \in 1..Len(wire) : Lane(wire[j].ev) = l => stream[l][i] <= wire[j].ev
                      /\ l = k => stream[l][i] <= cur'
                      /\ \A j \in 1..Len(queue'[l]) : stream[l][i] < queue'[l][j]
    BY <1>1, <1>2 DEF StreamFirst, Lane
  <2>1. stream[l][i] \in Nat /\ cur' \in Nat
    BY <1>1, EventFacts DEF KnownEvents
  <2>2. /\ \A j \in 1..Len(wire) : Lane(wire[j].ev) = l => stream[l][i] <= wire[j].ev
        /\ \A j \in 1..Len(queue[l]) : stream[l][i] < queue[l][j]
    BY DEF Ordered, StreamFirst
  <2>3. l = k => stream[l][i] < cur'
    BY <2>2, <1>1
  <2> QED BY <2>1, <2>2, <2>3, <1>3
<1>8. StreamInOrder'
  BY <1>2 DEF Ordered, StreamInOrder
<1> QED BY <1>4, <1>5, <1>6, <1>7, <1>8 DEF Ordered

(* The event in hand goes to the end of the wire.                          *)
LEMMA OrderedSend ==
  ASSUME TypeOK, KnownEvents, Ordered, Send
  PROVE  Ordered'
<1>1. /\ cur \in Seen /\ cur # 0 /\ cur \in Nat
      /\ UNCHANGED <<events, cur, queue, stream>>
  BY EventFacts DEF Send, KnownEvents
<1>2. \A i \in 1..Len(wire') :
        \/ i \in 1..Len(wire) /\ wire'[i] = wire[i]
        \/ (\A j \in 1..Len(wire) : j < i) /\ wire'[i].ev = cur /\ i = Len(wire) + 1
  <2>1. /\ wire \in Seq([ev : Numbers, try : Nat]) /\ Len(wire) \in Nat
        /\ [ev |-> cur, try |-> attempt] \in [ev : Numbers, try : Nat]
    BY <1>1, EventFacts, PublisherAssumption DEF TypeOK
  <2>2. wire' = Append(wire, [ev |-> cur, try |-> attempt])
    BY DEF Send
  <2>3. /\ Len(wire') = Len(wire) + 1
        /\ \A i \in 1..Len(wire) : wire'[i] = wire[i]
        /\ wire'[Len(wire) + 1] = [ev |-> cur, try |-> attempt]
        /\ \A i \in 1..(Len(wire) + 1) : i \in 1..Len(wire) \/ i = Len(wire) + 1
    BY <2>1, <2>2, AppendFacts
  <2> QED BY <2>1, <2>3
<1>3. WireInOrder'
  <2> SUFFICES ASSUME NEW l \in Lanes, NEW i \in 1..Len(wire'), Lane(wire'[i].ev) = l
               PROVE  /\ \A j \in 1..Len(wire') : i < j /\ Lane(wire'[j].ev) = l =>
                                                    wire'[i].ev <= wire'[j].ev
                      /\ Lane(cur) = l => wire'[i].ev <= cur
                      /\ \A j \in 1..Len(queue[l]) : wire'[i].ev < queue[l][j]
    BY <1>1 DEF WireInOrder, Lane
  <2>1. CASE i \in 1..Len(wire) /\ wire'[i] = wire[i]
    <3>1. /\ \A j \in 1..Len(wire) : i < j /\ Lane(wire[j].ev) = l => wire[i].ev <= wire[j].ev
          /\ Lane(cur) = l => wire[i].ev <= cur
          /\ \A j \in 1..Len(queue[l]) : wire[i].ev < queue[l][j]
      BY <2>1, <1>1 DEF Ordered, WireInOrder
    <3> QED BY <2>1, <3>1, <1>1, <1>2
  <2>2. CASE wire'[i].ev = cur /\ i = Len(wire) + 1
    <3>0. Len(wire) \in Nat
      BY DEF TypeOK
    <3>1. \A j \in 1..Len(wire') : j <= Len(wire) + 1
      BY <3>0, <1>2
    <3>2. \A j \in 1..Len(wire') : ~(i < j)
      BY <3>0, <3>1, <2>2
    <3> QED BY <2>2, <3>2, <1>1 DEF Ordered, CurInOrder
  <2> QED BY <2>1, <2>2, <1>2
<1>4. StreamFirst'
  <2> SUFFICES ASSUME NEW l \in Lanes, NEW i \in 1..Len(stream[l])
               PROVE  \A j \in 1..Len(wire') : Lane(wire'[j].ev) = l => stream[l][i] <= wire'[j].ev
    BY <1>1 DEF Ordered, StreamFirst, Lane
  <2> QED BY <1>1, <1>2 DEF Ordered, StreamFirst
<1> QED BY <1>1, <1>3, <1>4 DEF Ordered, QueueInOrder, CurInOrder, StreamInOrder, Lane

(* The first event on the wire goes to the end of the stream, or nowhere.  *)
LEMMA OrderedReceive ==
  ASSUME TypeOK, KnownEvents, Ordered, ServerReceives
  PROVE  Ordered'
<1>0. PICK m, k : m = wire[1].ev /\ k = Lane(wire[1].ev)
  OBVIOUS
<1>1. /\ 1 \in 1..Len(wire) /\ m \in Seen /\ k \in Lanes /\ m \in Numbers
      /\ \A i \in 1..Len(wire') : wire'[i] = wire[i + 1] /\ i + 1 \in 1..Len(wire)
      /\ \/ stream' = stream
         \/ /\ stream'[k] = Append(stream[k], m)
            /\ \A l \in Lanes \ {k} : stream'[l] = stream[l]
  BY <1>0, ReceiveFacts, EventFacts
<1>2. UNCHANGED <<events, cur, queue>>
  BY DEF ServerReceives
<1>3. /\ \A j \in 1..Len(wire) : 1 < j /\ Lane(wire[j].ev) = k => m <= wire[j].ev
      /\ cur # 0 /\ Lane(cur) = k => m <= cur
      /\ \A j \in 1..Len(queue[k]) : m < queue[k][j]
  BY <1>0, <1>1 DEF Ordered, WireInOrder
<1>4. \A l \in Lanes : \A i \in 1..Len(stream'[l]) :
        \/ i \in 1..Len(stream[l]) /\ stream'[l][i] = stream[l][i]
        \/ l = k /\ stream'[l][i] = m /\ i = Len(stream[l]) + 1
  <2>1. CASE stream' = stream
    BY <2>1
  <2>2. CASE /\ stream'[k] = Append(stream[k], m)
             /\ \A l \in Lanes \ {k} : stream'[l] = stream[l]
    <3>1. stream[k] \in Seq(Numbers)
      BY <1>1 DEF TypeOK
    <3>2. /\ Len(stream'[k]) = Len(stream[k]) + 1
          /\ \A i \in 1..Len(stream[k]) : stream'[k][i] = stream[k][i]
          /\ stream'[k][Len(stream[k]) + 1] = m
          /\ \A i \in 1..(Len(stream[k]) + 1) : i \in 1..Len(stream[k]) \/ i = Len(stream[k]) + 1
      BY <2>2, <3>1, <1>1, AppendFacts
    <3>3. ASSUME NEW l \in Lanes, NEW i \in 1..Len(stream'[l])
          PROVE  \/ i \in 1..Len(stream[l]) /\ stream'[l][i] = stream[l][i]
                 \/ l = k /\ stream'[l][i] = m /\ i = Len(stream[l]) + 1
      <4>1. CASE l = k
        BY <4>1, <3>2
      <4>2. CASE l # k
        BY <4>2, <2>2
      <4> QED BY <4>1, <4>2
    <3> QED BY <3>3
  <2> QED BY <1>1, <2>1, <2>2
<1>5. WireInOrder'
  <2> SUFFICES ASSUME NEW l \in Lanes, NEW i \in 1..Len(wire'), Lane(wire'[i].ev) = l
               PROVE  /\ \A j \in 1..Len(wire') : i < j /\ Lane(wire'[j].ev) = l =>
                                                    wire'[i].ev <= wire'[j].ev
                      /\ cur # 0 /\ Lane(cur) = l => wire'[i].ev <= cur
                      /\ \A j \in 1..Len(queue[l]) : wire'[i].ev < queue[l][j]
    BY <1>2 DEF WireInOrder, Lane
  <2>1. wire'[i] = wire[i + 1] /\ i + 1 \in 1..Len(wire)
    BY <1>1
  <2>2. /\ \A j \in 1..Len(wire) : i + 1 < j /\ Lane(wire[j].ev) = l => wire[i + 1].ev <= wire[j].ev
        /\ cur # 0 /\ Lane(cur) = l => wire[i + 1].ev <= cur
        /\ \A j \in 1..Len(queue[l]) : wire[i + 1].ev < queue[l][j]
    BY <2>1 DEF Ordered, WireInOrder
  <2> QED BY <2>1, <2>2, <1>1
<1>6. StreamFirst'
  <2> SUFFICES ASSUME NEW l \in Lanes, NEW i \in 1..Len(stream'[l])
               PROVE  /\ \A j \in 1..Len(wire') : Lane(wire'[j].ev) = l => stream'[l][i] <= wire'[j].ev
                      /\ cur # 0 /\ Lane(cur) = l => stream'[l][i] <= cur
                      /\ \A j \in 1..Len(queue[l]) : stream'[l][i] < queue[l][j]
    BY <1>2 DEF StreamFirst, Lane
  <2>1. CASE i \in 1..Len(stream[l]) /\ stream'[l][i] = stream[l][i]
    BY <2>1, <1>1 DEF Ordered, StreamFirst
  <2>2. CASE l = k /\ stream'[l][i] = m
    <3>1. \A j \in 1..Len(wire') : wire'[j] = wire[j + 1] /\ j + 1 \in 1..Len(wire) /\ 1 < j + 1
      BY <1>1
    <3> QED BY <2>2, <3>1, <1>3
  <2> QED BY <2>1, <2>2, <1>4
<1>7. StreamInOrder'
  <2> SUFFICES ASSUME NEW l \in Lanes, NEW i \in 1..Len(stream'[l]), NEW j \in 1..Len(stream'[l]), i < j
               PROVE  stream'[l][i] <= stream'[l][j]
    BY DEF StreamInOrder
  <2>1. Len(stream[l]) \in Nat
    BY DEF TypeOK
  <2>2. i \in 1..Len(stream[l]) /\ stream'[l][i] = stream[l][i]
    BY <2>1, <1>4
  <2>3. CASE j \in 1..Len(stream[l]) /\ stream'[l][j] = stream[l][j]
    BY <2>2, <2>3 DEF Ordered, StreamInOrder
  <2>4. CASE l = k /\ stream'[l][j] = m
    BY <2>2, <2>4, <1>0, <1>1 DEF Ordered, StreamFirst
  <2> QED BY <2>3, <2>4, <1>4
<1> QED BY <1>2, <1>5, <1>6, <1>7 DEF Ordered, QueueInOrder, CurInOrder, Lane

LEMMA OrderedNext ==
  ASSUME TypeOK, KnownEvents, Ordered, [Next]_vars
  PROVE  Ordered'
<1>1. CASE Fails \/ Succeed \/ Quiet \/ \E b \in Bars : WindowExpires(b)
  <2>1. cur' \in {cur, 0} /\ UNCHANGED <<events, queue, wire, stream>>
    BY <1>1 DEF Fails, AttemptFails, Retry, GiveUp, Succeed, Quiet, WindowExpires,
                brokerVars, clientVars
  <2> QED BY <2>1, OrderedHands
<1>2. CASE ConnectionDrops
  <2>1. UNCHANGED <<events, cur, queue, stream>> /\ Len(wire') = 0
    BY <1>2 DEF ConnectionDrops, clientVars
  <2>2. \A i \in 1..Len(wire') : FALSE
    BY <2>1
  <2>3. WireInOrder'
    BY <2>2 DEF WireInOrder
  <2>4. StreamFirst'
    BY <2>1, <2>2 DEF Ordered, StreamFirst, Lane
  <2> QED BY <2>1, <2>3, <2>4 DEF Ordered, QueueInOrder, CurInOrder, StreamInOrder, Lane
<1>3. CASE Ends
  <2>1. UNCHANGED <<events, wire, stream>> /\ cur' = 0
    BY <1>3 DEF Ends, EndTask, brokerVars
  <2>2. \A l \in Lanes : \A i \in 1..Len(queue'[l]) : FALSE
    BY <1>3, EndsFacts
  <2>3. QueueInOrder' /\ CurInOrder'
    BY <2>2 DEF QueueInOrder, CurInOrder
  <2>4. WireInOrder'
    BY <2>1, <2>2 DEF Ordered, WireInOrder, Lane
  <2>5. StreamFirst'
    BY <2>1, <2>2 DEF Ordered, StreamFirst, Lane
  <2> QED BY <2>1, <2>3, <2>4, <2>5 DEF Ordered, StreamInOrder
<1> QED BY <1>1, <1>2, <1>3, OrderedOffer, OrderedTake, OrderedSend, OrderedReceive, StepKinds

(* Each lane's stream keeps the order in which the service saw the events. *)
THEOREM StreamInOrderHolds == Spec => []StreamInOrder
<1>1. Init => TypeOK /\ KnownEvents /\ Ordered
  <2>1. Init => Ordered
    BY DEF Init, Ordered, QueueInOrder, CurInOrder, WireInOrder, StreamFirst, StreamInOrder
  <2> QED BY <2>1, TypeInit
<1>2. (TypeOK /\ KnownEvents /\ Ordered) /\ [Next]_vars => (TypeOK /\ KnownEvents /\ Ordered)'
  BY TypeNext, OrderedNext
<1>3. TypeOK /\ KnownEvents /\ Ordered => StreamInOrder
  BY DEF Ordered
<1> QED BY <1>1, <1>2, <1>3, PTL DEF Spec

-----------------------------------------------------------------------------
(***************************************************************************)
(* What is stored.  JetStream remembers the id of a final only while a     *)
(* final of that bar is in the stream, so an answer, be it to the first    *)
(* attempt or to a duplicate, says that there is one.                      *)
(***************************************************************************)
InCritical(b) == \E i \in 1..Len(stream["critical"]) : Bar(stream["critical"][i]) = b

IdsStored ==
  /\ \A b \in Bars : <<"final", b>> \in ids => InCritical(b)
  /\ pc = "wait" /\ answered /\ Lane(cur) = "critical" => InCritical(Bar(cur))

LEMMA FinalId ==
  ASSUME TypeOK, NEW m, m.ev \in Seen
  PROVE  /\ Lane(m.ev) = "critical" => MsgId(m) = <<"final", Bar(m.ev)>>
         /\ Lane(m.ev) # "critical" => \A b : MsgId(m) # <<"final", b>>
  BY DEF MsgId

(* The critical stream after a message has arrived.                        *)
LEMMA ReceiveCritical ==
  ASSUME TypeOK, KnownEvents, ServerReceives
  PROVE  /\ Len(stream["critical"]) \in Nat
         /\ \/ /\ stream'["critical"] = stream["critical"]
               /\ Lane(wire[1].ev) = "critical" => <<"final", Bar(wire[1].ev)>> \in ids
            \/ /\ Lane(wire[1].ev) = "critical"
               /\ <<"final", Bar(wire[1].ev)>> \notin ids
               /\ Len(stream'["critical"]) = Len(stream["critical"]) + 1
               /\ \A i \in 1..Len(stream["critical"]) : stream'["critical"][i] = stream["critical"][i]
               /\ stream'["critical"][Len(stream["critical"]) + 1] = wire[1].ev
         /\ \A b \in Bars : <<"final", b>> \in ids' <=>
              <<"final", b>> \in ids \/ (Lane(wire[1].ev) = "critical" /\ b = Bar(wire[1].ev))
<1>0. PICK m, k : m = wire[1] /\ k = Lane(wire[1].ev)
  OBVIOUS
<1>1. /\ m.ev \in Seen /\ k \in Lanes /\ m.ev \in Numbers
      /\ ids' = ids \cup {MsgId(m)}
      /\ \/ stream' = stream /\ MsgId(m) \in ids
         \/ /\ MsgId(m) \notin ids
            /\ stream'[k] = Append(stream[k], m.ev)
            /\ \A l \in Lanes \ {k} : stream'[l] = stream[l]
  BY <1>0, ReceiveFacts, EventFacts
<1>2. /\ k = "critical" => MsgId(m) = <<"final", Bar(m.ev)>>
      /\ k # "critical" => \A b : MsgId(m) # <<"final", b>>
  BY <1>0, <1>1, FinalId
<1>3. stream["critical"] \in Seq(Numbers) /\ "critical" \in Lanes
  BY DEF TypeOK, Lanes
<1>4. \A b \in Bars : <<"final", b>> \in ids' <=>
        <<"final", b>> \in ids \/ (k = "critical" /\ b = Bar(m.ev))
  BY <1>1, <1>2
<1>5. CASE stream' = stream /\ MsgId(m) \in ids
  BY <1>0, <1>2, <1>3, <1>4, <1>5
<1>6. CASE k # "critical" /\ \A l \in Lanes \ {k} : stream'[l] = stream[l]
  BY <1>0, <1>3, <1>4, <1>6
<1>7. CASE k = "critical" /\ MsgId(m) \notin ids /\ stream'[k] = Append(stream[k], m.ev)
  <2>1. /\ Len(stream'["critical"]) = Len(stream["critical"]) + 1
        /\ \A i \in 1..Len(stream["critical"]) : stream'["critical"][i] = stream["critical"][i]
        /\ stream'["critical"][Len(stream["critical"]) + 1] = m.ev
    BY <1>1, <1>3, <1>7, AppendFacts
  <2> QED BY <2>1, <1>0, <1>2, <1>3, <1>4, <1>7
<1> QED BY <1>1, <1>5, <1>6, <1>7

Stored == IdsStored /\ SuccessIsStored

LEMMA StoredReceive ==
  ASSUME TypeOK, KnownEvents, Stored, ServerReceives
  PROVE  Stored'
<1>0. PICK m, L : m = wire[1] /\ L = Len(stream["critical"])
  OBVIOUS
<1>1. UNCHANGED <<events, pc, cur, success>> /\ Head(wire) = m
  BY <1>0, ReceiveFacts DEF ServerReceives, countVars
<1>2. /\ L \in Nat
      /\ \/ /\ stream'["critical"] = stream["critical"]
            /\ Lane(m.ev) = "critical" => <<"final", Bar(m.ev)>> \in ids
         \/ /\ Lane(m.ev) = "critical"
            /\ Len(stream'["critical"]) = L + 1
            /\ \A i \in 1..L : stream'["critical"][i] = stream["critical"][i]
            /\ stream'["critical"][L + 1] = m.ev
      /\ \A b \in Bars : <<"final", b>> \in ids' =>
           <<"final", b>> \in ids \/ (Lane(m.ev) = "critical" /\ b = Bar(m.ev))
  BY <1>0, ReceiveCritical
<1>3. m.ev \in Seen /\ Bar(m.ev) \in Bars
  BY <1>0, ReceiveFacts, EventFacts
<1>4. ASSUME NEW b, InCritical(b)
      PROVE  InCritical(b)'
  <2>1. PICK i \in 1..L : Bar(stream["critical"][i]) = b
    BY <1>0, <1>4 DEF InCritical
  <2>2. i \in 1..Len(stream'["critical"]) /\ stream'["critical"][i] = stream["critical"][i]
    BY <1>0, <1>2
  <2> QED BY <2>1, <2>2, <1>1 DEF InCritical, Bar
<1>5. Lane(m.ev) = "critical" => InCritical(Bar(m.ev))'
  <2> SUFFICES ASSUME Lane(m.ev) = "critical"
               PROVE  \E i \in 1..Len(stream'["critical"]) :
                        events[stream'["critical"][i]].bar = events'[m.ev].bar
    BY <1>1 DEF InCritical, Bar
  <2>1. CASE <<"final", Bar(m.ev)>> \in ids /\ stream'["critical"] = stream["critical"]
    BY <2>1, <1>1, <1>3 DEF Stored, IdsStored, InCritical, Bar
  <2>2. CASE Len(stream'["critical"]) = L + 1 /\ stream'["critical"][L + 1] = m.ev
    BY <2>2, <1>1, <1>2 DEF Bar
  <2> QED BY <2>1, <2>2, <1>2
<1>6. \A b \in Bars : <<"final", b>> \in ids' => InCritical(b)'
  <2> SUFFICES ASSUME NEW b \in Bars, <<"final", b>> \in ids' PROVE InCritical(b)'
    OBVIOUS
  <2>1. CASE <<"final", b>> \in ids
    BY <2>1, <1>4 DEF Stored, IdsStored
  <2>2. CASE Lane(m.ev) = "critical" /\ b = Bar(m.ev)
    BY <2>2, <1>1, <1>5 DEF InCritical, Bar
  <2> QED BY <2>1, <2>2, <1>2
<1>7. pc' = "wait" /\ answered' /\ Lane(cur)' = "critical" => InCritical(Bar(cur))'
  <2> SUFFICES ASSUME pc = "wait", answered', Lane(cur) = "critical"
               PROVE  \E i \in 1..Len(stream'["critical"]) :
                        events'[stream'["critical"][i]].bar = Bar(cur)
    BY <1>1 DEF InCritical, Bar, Lane
  <2>1. CASE answered
    <3>1. PICK b : b = Bar(cur)
      OBVIOUS
    <3>2. InCritical(b)
      BY <2>1, <3>1 DEF Stored, IdsStored, InCritical
    <3> QED BY <3>1, <3>2, <1>4 DEF InCritical, Bar
  <2>2. CASE cur = m.ev
    BY <2>2, <1>1, <1>5 DEF InCritical, Bar
  <2> QED BY <2>1, <2>2, <1>1 DEF ServerReceives, Answer
<1>8. SuccessIsStored'
  <2> SUFFICES ASSUME NEW n \in success \cap Finals
               PROVE  \E i \in 1..Len(stream'["critical"]) :
                        events'[stream'["critical"][i]].bar = Bar(n)
    BY <1>1, SameEvents DEF SuccessIsStored, Bar
  <2>1. PICK b : b = Bar(n)
    OBVIOUS
  <2>2. InCritical(b)
    BY <2>1 DEF Stored, SuccessIsStored, InCritical
  <2> QED BY <2>1, <2>2, <1>4 DEF InCritical, Bar
<1> QED BY <1>6, <1>7, <1>8 DEF Stored, IdsStored

LEMMA StoredNext ==
  ASSUME TypeOK, KnownEvents, Stored, [Next]_vars
  PROVE  Stored'
<1>1. ASSUME NEW e \in Event, Offer(e)
      PROVE  Stored'
  <2>0. PICK n : n = Len(events) + 1
    OBVIOUS
  <2>1. /\ \A m \in Seen : m # n /\ events'[m].bar = events[m].bar /\ events'[m].lane = events[m].lane
        /\ Finals' \subseteq Finals \cup {n}
    BY <2>0, <1>1, OfferFacts, EventFacts DEF Lane, Bar
  <2>2. UNCHANGED <<pc, cur, answered, stream, ids, success>>
    BY <1>1 DEF Offer, brokerVars
  <2>3. \A i \in 1..Len(stream["critical"]) : stream["critical"][i] \in Seen
    BY DEF KnownEvents, Lanes
  <2>4. success \subseteq Seen /\ cur \in Seen \cup {0} /\ (pc = "wait" => cur \in Seen)
    BY DEF KnownEvents
  <2>5. ASSUME NEW b PROVE InCritical(b)' = InCritical(b)
    BY <2>1, <2>2, <2>3 DEF InCritical, Bar
  <2>6. \A b \in Bars : <<"final", b>> \in ids' => InCritical(b)'
    BY <2>2, <2>5 DEF Stored, IdsStored
  <2>7. pc' = "wait" /\ answered' /\ Lane(cur)' = "critical" => InCritical(Bar(cur))'
    <3> SUFFICES ASSUME pc = "wait", answered, Lane(cur)' = "critical"
                 PROVE  \E i \in 1..Len(stream["critical"]) :
                          events'[stream["critical"][i]].bar = events'[cur].bar
      BY <2>2 DEF InCritical, Bar
    <3>1. Lane(cur) = "critical"
      BY <2>1, <2>2, <2>4 DEF Lane
    <3>2. PICK i \in 1..Len(stream["critical"]) : Bar(stream["critical"][i]) = Bar(cur)
      BY <3>1 DEF Stored, IdsStored, InCritical
    <3> QED BY <3>2, <2>1, <2>3, <2>4 DEF Bar
  <2>8. SuccessIsStored'
    <3> SUFFICES ASSUME NEW m \in success \cap Finals
                 PROVE  \E i \in 1..Len(stream["critical"]) :
                          events'[stream["critical"][i]].bar = events'[m].bar
      BY <2>1, <2>2, <2>4 DEF SuccessIsStored, Bar
    <3>1. PICK i \in 1..Len(stream["critical"]) : Bar(stream["critical"][i]) = Bar(m)
      BY DEF Stored, SuccessIsStored
    <3> QED BY <3>1, <2>1, <2>3, <2>4 DEF Bar
  <2> QED BY <2>6, <2>7, <2>8 DEF Stored, IdsStored
<1>2. ASSUME UNCHANGED <<events, stream, success>>, ids' \subseteq ids,
             pc' # "wait" \/ ~answered' \/ UNCHANGED <<pc, cur, answered>>
      PROVE  Stored'
  <2>1. \A b \in Bars : <<"final", b>> \in ids' => InCritical(b)'
    BY <1>2 DEF Stored, IdsStored, InCritical, Bar
  <2>2. pc' = "wait" /\ answered' /\ Lane(cur)' = "critical" => InCritical(Bar(cur))'
    BY <1>2 DEF Stored, IdsStored, InCritical, Bar, Lane
  <2>3. SuccessIsStored'
    BY <1>2, SameEvents DEF Stored, SuccessIsStored, Bar
  <2> QED BY <2>1, <2>2, <2>3 DEF Stored, IdsStored
<1>3. CASE Succeed
  <2>1. /\ UNCHANGED <<events, stream, ids>> /\ pc' = "idle"
        /\ success' = success \cup {cur}
        /\ pc = "wait" /\ answered
    BY <1>3 DEF Succeed, brokerVars
  <2>2. \A b \in Bars : <<"final", b>> \in ids' => InCritical(b)'
    BY <2>1 DEF Stored, IdsStored, InCritical, Bar
  <2>3. SuccessIsStored'
    <3> SUFFICES ASSUME NEW n \in (success \cup {cur}) \cap Finals
                 PROVE  \E i \in 1..Len(stream["critical"]) : Bar(stream["critical"][i]) = Bar(n)
      BY <2>1, SameEvents DEF SuccessIsStored, Bar
    <3>1. CASE n \in success
      BY <3>1 DEF Stored, SuccessIsStored
    <3>2. CASE n = cur
      BY <3>2, <2>1 DEF Stored, IdsStored, InCritical, Finals
    <3> QED BY <3>1, <3>2
  <2> QED BY <2>1, <2>2, <2>3 DEF Stored, IdsStored
<1>4. CASE \E l \in Lanes : Take(l)
  BY <1>2, <1>4 DEF Take, brokerVars, countVars
<1>5. CASE Fails
  BY <1>2, <1>5 DEF Fails, AttemptFails, Retry, GiveUp, brokerVars
<1>6. CASE Send
  BY <1>2, <1>6 DEF Send, countVars
<1>7. CASE ConnectionDrops \/ \E b \in Bars : WindowExpires(b)
  BY <1>2, <1>7 DEF ConnectionDrops, WindowExpires, clientVars, countVars
<1>8. CASE Ends \/ Quiet
  BY <1>2, <1>8 DEF Ends, EndTask, Quiet, brokerVars, countVars
<1> QED BY <1>1, <1>3, <1>4, <1>5, <1>6, <1>7, <1>8, StoredReceive, StepKinds

(* A final counted as published is in CHART_CRITICAL, or one of its bar.   *)
THEOREM SuccessIsStoredHolds == Spec => []SuccessIsStored
<1>1. Init => TypeOK /\ KnownEvents /\ Stored
  <2>1. Init => Stored
    BY DEF Init, Stored, IdsStored, SuccessIsStored
  <2> QED BY <2>1, TypeInit
<1>2. (TypeOK /\ KnownEvents /\ Stored) /\ [Next]_vars => (TypeOK /\ KnownEvents /\ Stored)'
  BY TypeNext, StoredNext
<1>3. TypeOK /\ KnownEvents /\ Stored => SuccessIsStored
  BY DEF Stored
<1> QED BY <1>1, <1>2, <1>3, PTL DEF Spec

-----------------------------------------------------------------------------
(***************************************************************************)
(* Copies.  Each copy of a bar but the last was followed by the end of its *)
(* duplicate window, and so was the last once its id is forgotten.         *)
(***************************************************************************)
Copies(b) == {i \in 1..Len(stream["critical"]) : Bar(stream["critical"][i]) = b}

Remembered(b) == IF <<"final", b>> \in ids THEN 1 ELSE 0

CopiesCounted == \A b \in Bars : Cardinality(Copies(b)) <= expiries[b] + Remembered(b)

LEMMA CopiesFinite ==
  ASSUME TypeOK, NEW b
  PROVE  IsFiniteSet(Copies(b)) /\ Cardinality(Copies(b)) \in Nat
<1>1. Len(stream["critical"]) \in Nat
  BY DEF TypeOK, Lanes
<1>2. IsFiniteSet(1..Len(stream["critical"]))
  BY <1>1, FS_Interval
<1> QED BY <1>2, FS_Subset, FS_CardinalityType DEF Copies

LEMMA CopiesReceive ==
  ASSUME TypeOK, KnownEvents, CopiesCounted, ServerReceives
  PROVE  CopiesCounted'
<1>0. PICK m, L : m = wire[1].ev /\ L = Len(stream["critical"])
  OBVIOUS
<1>1. UNCHANGED <<events, expiries>>
  BY DEF ServerReceives
<1>2. /\ L \in Nat
      /\ \/ stream'["critical"] = stream["critical"]
         \/ /\ Lane(m) = "critical" /\ <<"final", Bar(m)>> \notin ids
            /\ Len(stream'["critical"]) = L + 1
            /\ \A i \in 1..L : stream'["critical"][i] = stream["critical"][i]
            /\ stream'["critical"][L + 1] = m
      /\ \A b \in Bars : <<"final", b>> \in ids' <=>
           <<"final", b>> \in ids \/ (Lane(m) = "critical" /\ b = Bar(m))
  BY <1>0, ReceiveCritical
<1> SUFFICES ASSUME NEW b \in Bars
             PROVE  Cardinality({i \in 1..Len(stream'["critical"]) :
                                   events[stream'["critical"][i]].bar = b})
                      <= expiries[b] + IF <<"final", b>> \in ids' THEN 1 ELSE 0
  BY <1>1 DEF CopiesCounted, Copies, Remembered, Bar
<1>3. Cardinality(Copies(b)) <= expiries[b] + Remembered(b) /\ expiries[b] \in Nat
  BY PublisherAssumption DEF CopiesCounted, TypeOK
<1>4. IsFiniteSet(Copies(b)) /\ Cardinality(Copies(b)) \in Nat
  BY CopiesFinite
<1>5. CASE stream'["critical"] = stream["critical"]
  BY <1>2, <1>3, <1>4, <1>5 DEF Copies, Remembered, Bar
<1>6. CASE /\ Lane(m) = "critical" /\ <<"final", Bar(m)>> \notin ids
           /\ Len(stream'["critical"]) = L + 1
           /\ \A i \in 1..L : stream'["critical"][i] = stream["critical"][i]
           /\ stream'["critical"][L + 1] = m
  <2> DEFINE new == {i \in 1..Len(stream'["critical"]) : events[stream'["critical"][i]].bar = b}
  <2>1. CASE b # Bar(m)
    <3>1. new = Copies(b)
      <4>1. events[stream'["critical"][L + 1]].bar # b
        BY <1>6, <2>1 DEF Bar
      <4>2. \A i \in 1..(L + 1) : i \in 1..L \/ i = L + 1
        BY <1>2
      <4>3. \A i \in 1..L : i \in 1..(L + 1)
        BY <1>2
      <4> QED BY <4>1, <4>2, <4>3, <1>0, <1>6 DEF Copies, Bar
    <3>2. Remembered(b) = IF <<"final", b>> \in ids' THEN 1 ELSE 0
      BY <1>2, <2>1 DEF Remembered
    <3> QED BY <3>1, <3>2, <1>3
  <2>2. CASE b = Bar(m)
    <3>1. new = Copies(b) \cup {L + 1}
      <4>1. events[stream'["critical"][L + 1]].bar = b
        BY <1>6, <2>2 DEF Bar
      <4>2. \A i \in 1..(L + 1) : i \in 1..L \/ i = L + 1
        BY <1>2
      <4>3. L + 1 \in 1..(L + 1) /\ \A i \in 1..L : i \in 1..(L + 1)
        BY <1>2
      <4> QED BY <4>1, <4>2, <4>3, <1>0, <1>6 DEF Copies, Bar
    <3>2. Cardinality(Copies(b) \cup {L + 1}) <= Cardinality(Copies(b)) + 1
      BY <1>4, FS_AddElement
    <3>3. Remembered(b) = 0 /\ <<"final", b>> \in ids'
      BY <1>2, <1>6, <2>2 DEF Remembered
    <3>4. Cardinality(new) <= expiries[b] + 1
      <4> HIDE DEF new
      <4>1. IsFiniteSet(Copies(b) \cup {L + 1})
        BY <1>4, FS_AddElement
      <4>2. Cardinality(Copies(b) \cup {L + 1}) \in Nat
        BY <4>1, FS_CardinalityType
      <4> QED BY <3>1, <3>2, <3>3, <4>2, <1>3, <1>4
    <3> QED BY <3>3, <3>4
  <2> QED BY <2>1, <2>2
<1> QED BY <1>2, <1>5, <1>6

LEMMA CopiesNext ==
  ASSUME TypeOK, KnownEvents, CopiesCounted, [Next]_vars
  PROVE  CopiesCounted'
<1>1. ASSUME NEW e \in Event, Offer(e)
      PROVE  CopiesCounted'
  <2>1. \A m \in Seen : events'[m].bar = events[m].bar
    BY <1>1, OfferFacts DEF Bar
  <2>2. UNCHANGED <<stream, ids, expiries>>
    BY <1>1 DEF Offer, brokerVars
  <2>3. \A i \in 1..Len(stream["critical"]) : stream["critical"][i] \in Seen
    BY DEF KnownEvents, Lanes
  <2>4. ASSUME NEW b PROVE Copies(b)' = Copies(b)
    BY <2>1, <2>2, <2>3 DEF Copies, Bar
  <2>5. ASSUME NEW b PROVE Remembered(b)' = Remembered(b)
    BY <2>2 DEF Remembered
  <2> QED BY <2>2, <2>4, <2>5 DEF CopiesCounted
<1>2. ASSUME NEW b \in Bars, WindowExpires(b)
      PROVE  CopiesCounted'
  <2>1. /\ UNCHANGED <<events, stream>>
        /\ <<"final", b>> \in ids
        /\ ids' = ids \ {<<"final", b>>}
        /\ expiries'[b] = expiries[b] + 1
        /\ \A c \in Bars \ {b} : expiries'[c] = expiries[c]
    BY <1>2 DEF WindowExpires, TypeOK
  <2> SUFFICES ASSUME NEW c \in Bars
               PROVE  Cardinality(Copies(c)) <= expiries'[c] + IF <<"final", c>> \in ids' THEN 1 ELSE 0
    BY <2>1 DEF CopiesCounted, Copies, Remembered, Bar
  <2>2. Cardinality(Copies(c)) <= expiries[c] + Remembered(c) /\ expiries[c] \in Nat
    BY PublisherAssumption DEF CopiesCounted, TypeOK
  <2>3. CASE c = b
    BY <2>1, <2>2, <2>3 DEF Remembered
  <2>4. CASE c # b
    BY <2>1, <2>2, <2>4 DEF Remembered
  <2> QED BY <2>3, <2>4
<1>3. ASSUME UNCHANGED <<events, stream, ids, expiries>>
      PROVE  CopiesCounted'
  BY <1>3 DEF CopiesCounted, Copies, Remembered, Bar
<1>4. CASE \E l \in Lanes : Take(l)
  BY <1>3, <1>4 DEF Take, brokerVars
<1>5. CASE Fails \/ Send \/ Succeed
  BY <1>3, <1>5 DEF Fails, Send, Succeed, brokerVars
<1>6. CASE ConnectionDrops \/ Ends \/ Quiet
  BY <1>3, <1>6 DEF ConnectionDrops, Ends, EndTask, Quiet, brokerVars
<1> QED BY <1>1, <1>2, <1>4, <1>5, <1>6, CopiesReceive, StepKinds

(* Retries, lost answers and restarts store no second final of a bar       *)
(* within its duplicate window.                                            *)
THEOREM OneCopyPerWindowHolds == Spec => []OneCopyPerWindow
<1>1. Init => TypeOK /\ KnownEvents /\ CopiesCounted
  <2>1. ASSUME Init, NEW b \in Bars PROVE Cardinality(Copies(b)) <= expiries[b] + Remembered(b)
    <3>1. Copies(b) = {} /\ expiries[b] = 0 /\ Remembered(b) = 0
      BY <2>1 DEF Init, Copies, Remembered, Lanes
    <3> QED BY <3>1, FS_EmptySet
  <2> QED BY <2>1, TypeInit DEF CopiesCounted
<1>2. (TypeOK /\ KnownEvents /\ CopiesCounted) /\ [Next]_vars
        => (TypeOK /\ KnownEvents /\ CopiesCounted)'
  BY TypeNext, CopiesNext
<1>3. TypeOK /\ KnownEvents /\ CopiesCounted => OneCopyPerWindow
  <2> SUFFICES ASSUME TypeOK, CopiesCounted, NEW b \in Bars
               PROVE  Cardinality(Copies(b)) <= 1 + expiries[b]
    BY DEF OneCopyPerWindow, Copies
  <2>1. Cardinality(Copies(b)) \in Nat /\ expiries[b] \in Nat
    BY CopiesFinite, PublisherAssumption DEF TypeOK
  <2>2. Cardinality(Copies(b)) <= expiries[b] + Remembered(b)
    BY DEF CopiesCounted
  <2>3. Remembered(b) \in {0, 1}
    BY DEF Remembered
  <2> QED BY <2>1, <2>2, <2>3
<1> QED BY <1>1, <1>2, <1>3, PTL DEF Spec

-----------------------------------------------------------------------------
(***************************************************************************)
(* Accounting.  A final is in the queue or in the task's hands and counted *)
(* nowhere, or it is counted once.  That it is not in the queue twice, nor *)
(* there and in the task's hands, is a matter of order.                    *)
(***************************************************************************)
InQueue == Elements(queue["critical"])

Accounted ==
  /\ Finals \subseteq InQueue \cup {cur} \cup success \cup failed \cup abandoned
  /\ Finals \cap (InQueue \cup {cur}) \cap (success \cup failed \cup abandoned) = {}
  /\ Finals \cap success \cap (failed \cup abandoned) = {}
  /\ failed \cap abandoned = {}

LEMMA InQueueFacts ==
  ASSUME TypeOK, KnownEvents, Ordered
  PROVE  InQueue \subseteq Finals /\ (cur \in Finals => cur \notin InQueue)
<1>1. InQueue \subseteq Finals
  BY EventFacts DEF InQueue, Elements, KnownEvents, Lanes
<1>2. cur \in Finals => cur # 0 /\ Lane(cur) = "critical" /\ cur \in Nat
  BY EventFacts
<1>3. cur \in Finals => \A i \in 1..Len(queue["critical"]) : cur < queue["critical"][i]
  BY <1>2 DEF Ordered, CurInOrder, Lanes
<1> QED BY <1>1, <1>2, <1>3 DEF InQueue, Elements

LEMMA AccountedOffer ==
  ASSUME TypeOK, KnownEvents, Ordered, Accounted, NEW e \in Event, Offer(e)
  PROVE  Accounted'
<1>0. PICK n : n = Len(events) + 1
  OBVIOUS
<1>1. /\ n \notin Seen /\ n # 0 /\ n \in Numbers
      /\ Finals' = IF e.lane = "critical" THEN Finals \cup {n} ELSE Finals
  BY <1>0, OfferFacts, EventFacts
<1>2. UNCHANGED <<cur, success, abandoned>>
  BY DEF Offer
<1>3. \/ /\ failed' = failed
         /\ InQueue' = IF e.lane = "critical" THEN InQueue \cup {n} ELSE InQueue
      \/ /\ InQueue' = InQueue
         /\ failed' = IF e.lane = "critical" THEN failed \cup {n} ELSE failed
  <2>1. CASE queue' = queue
    BY <1>0, <2>1, OfferQueue DEF InQueue
  <2>2. CASE /\ queue'[e.lane] = Append(queue[e.lane], n) /\ failed' = failed
             /\ \A l \in Lanes \ {e.lane} : queue'[l] = queue[l]
    <3>1. CASE e.lane = "critical"
      <4>1. queue["critical"] \in Seq(Numbers)
        BY DEF TypeOK, Lanes
      <4>2. /\ Len(queue'["critical"]) = Len(queue["critical"]) + 1
            /\ Len(queue["critical"]) \in Nat
            /\ \A i \in 1..Len(queue["critical"]) : queue'["critical"][i] = queue["critical"][i]
            /\ queue'["critical"][Len(queue["critical"]) + 1] = n
        BY <2>2, <3>1, <4>1, <1>1, AppendFacts
      <4>3. InQueue' = InQueue \cup {n}
        BY <4>2 DEF InQueue, Elements
      <4> QED BY <2>2, <3>1, <4>3
    <3>2. CASE e.lane # "critical"
      BY <2>2, <3>2 DEF InQueue, Lanes
    <3> QED BY <3>1, <3>2
  <2> QED BY <1>0, <2>1, <2>2, OfferQueue
<1>4. /\ InQueue \subseteq Seen /\ cur \in Seen \cup {0} /\ Finals \subseteq Seen
      /\ success \subseteq Seen /\ failed \subseteq Seen /\ abandoned \subseteq Seen
  BY InQueueFacts, EventFacts DEF KnownEvents
<1> QED BY <1>1, <1>2, <1>3, <1>4 DEF Accounted

LEMMA AccountedTake ==
  ASSUME TypeOK, KnownEvents, Ordered, Accounted, NEW l \in Lanes, Take(l)
  PROVE  Accounted'
<1>1. /\ cur = 0 /\ cur' \in Seen /\ Lane(cur') = l
      /\ 1 \in 1..Len(queue[l]) /\ cur' = queue[l][1]
      /\ \A k \in Lanes \ {l} : queue'[k] = queue[k]
      /\ Len(queue'[l]) = Len(queue[l]) - 1
      /\ \A i \in 1..Len(queue'[l]) : queue'[l][i] = queue[l][i + 1] /\ i + 1 \in 1..Len(queue[l])
  BY TakeFacts
<1>2. UNCHANGED <<success, failed, abandoned>> /\ Finals' = Finals
  BY SameEvents DEF Take, countVars
<1>3. CASE l = "critical"
  <2>1. \A i \in 1..Len(queue[l]) : i = 1 \/ i - 1 \in 1..Len(queue'[l])
    BY <1>1
  <2>2. InQueue = InQueue' \cup {cur'}
    <3>1. ASSUME NEW x \in InQueue PROVE x \in InQueue' \cup {cur'}
      <4>1. PICK i \in 1..Len(queue[l]) : x = queue[l][i]
        BY <1>3, <3>1 DEF InQueue, Elements
      <4>2. CASE i = 1
        BY <4>1, <4>2, <1>1
      <4>3. CASE i - 1 \in 1..Len(queue'[l])
        <5>1. queue'[l][i - 1] = queue[l][(i - 1) + 1] /\ (i - 1) + 1 = i
          BY <4>1, <4>3, <1>1
        <5> QED BY <4>1, <4>3, <5>1, <1>3 DEF InQueue, Elements
      <4> QED BY <4>1, <4>2, <4>3, <2>1
    <3>2. ASSUME NEW x \in InQueue' PROVE x \in InQueue
      <4>1. PICK i \in 1..Len(queue'[l]) : x = queue'[l][i]
        BY <1>3, <3>2 DEF InQueue, Elements
      <4>2. x = queue[l][i + 1] /\ i + 1 \in 1..Len(queue[l])
        BY <4>1, <1>1
      <4> QED BY <4>2, <1>3 DEF InQueue, Elements
    <3>3. cur' \in InQueue
      BY <1>1, <1>3 DEF InQueue, Elements
    <3> QED BY <3>1, <3>2, <3>3
  <2>3. cur \notin Finals
    BY <1>1, EventFacts
  <2> QED BY <1>2, <2>2, <2>3 DEF Accounted
<1>4. CASE l # "critical"
  <2>1. InQueue' = InQueue
    BY <1>1, <1>4 DEF InQueue, Lanes
  <2>2. cur \notin Finals /\ cur' \notin Finals
    BY <1>1, <1>4, EventFacts
  <2> QED BY <1>2, <2>1, <2>2 DEF Accounted
<1> QED BY <1>3, <1>4

LEMMA AccountedNext ==
  ASSUME TypeOK, KnownEvents, Ordered, Accounted, [Next]_vars
  PROVE  Accounted'
<1>1. ASSUME UNCHANGED <<events, queue, cur, success, failed, abandoned>>
      PROVE  Accounted'
  BY <1>1, SameEvents DEF Accounted, InQueue
<1>2. CASE Fails
  <2>1. UNCHANGED <<events, queue, success, abandoned>>
    BY <1>2 DEF Fails, AttemptFails
  <2>2. CASE Retry
    BY <2>1, <2>2, <1>1 DEF Retry
  <2>3. CASE GiveUp
    <3>1. /\ cur' = 0 /\ failed' = IF cur \in Finals THEN failed \cup {cur} ELSE failed
          /\ Finals' = Finals /\ InQueue' = InQueue /\ 0 \notin Finals
      BY <1>2, <2>1, <2>3, SameEvents, EventFacts DEF GiveUp, KnownEvents, Fails, InQueue
    <3> QED BY <2>1, <3>1, InQueueFacts DEF Accounted
  <2> QED BY <1>2, <2>2, <2>3 DEF Fails, AttemptFails
<1>3. CASE Succeed
  <2>1. /\ success' = success \cup {cur} /\ cur' = 0
        /\ UNCHANGED <<failed, abandoned>>
        /\ Finals' = Finals /\ InQueue' = InQueue /\ 0 \notin Finals
    BY <1>3, SameEvents, EventFacts DEF Succeed, InQueue
  <2> QED BY <2>1, InQueueFacts DEF Accounted
<1>4. CASE Ends
  <2>1. /\ cur' = 0 /\ UNCHANGED <<success, failed>>
        /\ abandoned' = abandoned \cup {n \in Finals : n = cur \/ n \in InQueue}
        /\ Finals' = Finals /\ 0 \notin Finals
    BY <1>4, SameEvents, EventFacts DEF Ends, EndTask, InQueue
  <2>2. InQueue' = {}
    BY <1>4, EndsFacts DEF InQueue, Elements, Lanes
  <2> QED BY <2>1, <2>2 DEF Accounted, KnownEvents
<1>5. CASE Send \/ Quiet
  BY <1>1, <1>5 DEF Send, Quiet, countVars
<1>6. CASE ServerReceives \/ ConnectionDrops \/ \E b \in Bars : WindowExpires(b)
  BY <1>1, <1>6 DEF ServerReceives, ConnectionDrops, WindowExpires, clientVars, countVars
<1> QED BY <1>2, <1>3, <1>4, <1>5, <1>6, AccountedOffer, AccountedTake, StepKinds

(* A queue in order has as many elements as places.                        *)
LEMMA QueueCardinality ==
  ASSUME TypeOK, QueueInOrder
  PROVE  IsFiniteSet(InQueue) /\ Cardinality(InQueue) = Len(queue["critical"])
<1> DEFINE q == queue["critical"]
<1>1. q \in Seq(Numbers) /\ Len(q) \in Nat /\ "critical" \in Lanes
  BY DEF TypeOK, Lanes
<1>2. q \in [1..Len(q) -> InQueue]
  BY <1>1 DEF InQueue, Elements
<1>3. \A i, j \in 1..Len(q) : q[i] = q[j] => i = j
  <2> SUFFICES ASSUME NEW i \in 1..Len(q), NEW j \in 1..Len(q), q[i] = q[j], i < j PROVE FALSE
    OBVIOUS
  <2>1. q[i] < q[j] /\ q[i] \in Numbers
    BY <1>1 DEF QueueInOrder
  <2> QED BY <2>1 DEF Numbers
<1>4. \A x \in InQueue : \E i \in 1..Len(q) : q[i] = x
  BY DEF InQueue, Elements
<1>5. ExistsBijection(1..Len(q), InQueue)
  <2>1. q \in Bijection(1..Len(q), InQueue)
    BY <1>2, <1>3, <1>4 DEF Bijection, Injection, Surjection, IsInjective
  <2> QED BY <2>1 DEF ExistsBijection
<1>6. Cardinality(InQueue) = Len(q)
  BY <1>1, <1>5, FS_CountingElements
<1>7. IsFiniteSet(1..Len(q))
  BY <1>1, FS_Interval
<1>8. IsFiniteSet(InQueue)
  BY <1>5, <1>7, FS_Bijection
<1> QED BY <1>6, <1>8

(* Two sets with nothing in common.                                        *)
LEMMA DisjointCardinality ==
  ASSUME NEW S, NEW T, IsFiniteSet(S), IsFiniteSet(T), S \cap T = {}
  PROVE  /\ IsFiniteSet(S \cup T)
         /\ Cardinality(S \cup T) = Cardinality(S) + Cardinality(T)
         /\ Cardinality(S) \in Nat /\ Cardinality(T) \in Nat
<1>1. Cardinality(S) \in Nat /\ Cardinality(T) \in Nat
  BY FS_CardinalityType
<1> QED BY <1>1, FS_Union, FS_EmptySet

LEMMA AccountedIsExact ==
  ASSUME TypeOK, KnownEvents, Ordered, Accounted
  PROVE  FinalsAccounted
<1> DEFINE A == InQueue
           B == InFlight
           C == success \cap Finals
<1>1. Queued = A
  BY InQueueFacts DEF Queued, InQueue
<1>2. Finals = A \cup B \cup C \cup failed \cup abandoned
  BY InQueueFacts DEF Accounted, InFlight, KnownEvents
<1>3. /\ A \cap B = {}
      /\ (A \cup B) \cap C = {}
      /\ (A \cup B \cup C) \cap failed = {}
      /\ (A \cup B \cup C \cup failed) \cap abandoned = {}
  BY InQueueFacts DEF Accounted, InFlight, KnownEvents
<1>4. IsFiniteSet(Finals)
  <2>1. IsFiniteSet(Seen)
    BY EventFacts, FS_Interval DEF Seen
  <2> QED BY <2>1, EventFacts, FS_Subset
<1>5. IsFiniteSet(A) /\ IsFiniteSet(B) /\ IsFiniteSet(C) /\ IsFiniteSet(failed) /\ IsFiniteSet(abandoned)
  BY <1>2, <1>4, FS_Subset
<1>6. Cardinality(A) = Len(queue["critical"])
  BY QueueCardinality DEF Ordered
<1> HIDE DEF A, B, C
<1>7. IsFiniteSet(A \cup B) /\ Cardinality(A \cup B) = Cardinality(A) + Cardinality(B)
  BY <1>3, <1>5, DisjointCardinality
<1>8. /\ IsFiniteSet(A \cup B \cup C)
      /\ Cardinality(A \cup B \cup C) = Cardinality(A) + Cardinality(B) + Cardinality(C)
  BY <1>3, <1>5, <1>7, DisjointCardinality
<1>9. /\ IsFiniteSet(A \cup B \cup C \cup failed)
      /\ Cardinality(A \cup B \cup C \cup failed)
           = Cardinality(A) + Cardinality(B) + Cardinality(C) + Cardinality(failed)
  BY <1>3, <1>5, <1>8, DisjointCardinality
<1>10. Cardinality(A \cup B \cup C \cup failed \cup abandoned)
         = Cardinality(A) + Cardinality(B) + Cardinality(C) + Cardinality(failed)
             + Cardinality(abandoned)
  BY <1>3, <1>5, <1>9, DisjointCardinality
<1> QED BY <1>1, <1>2, <1>6, <1>10 DEF FinalsAccounted, A, B, C

(* Every final the service saw is in exactly one place, and the counts add *)
(* up: none is lost uncounted, whatever overflows, fails or stops.         *)
THEOREM FinalsAccountedHolds == Spec => []FinalsAccounted
<1>1. Init => TypeOK /\ KnownEvents /\ Ordered /\ Accounted
  <2>1. Init => Ordered
    BY DEF Init, Ordered, QueueInOrder, CurInOrder, WireInOrder, StreamFirst, StreamInOrder
  <2>2. Init => Accounted
    BY DEF Init, Accounted, Finals
  <2> QED BY <2>1, <2>2, TypeInit
<1>2. (TypeOK /\ KnownEvents /\ Ordered /\ Accounted) /\ [Next]_vars
        => (TypeOK /\ KnownEvents /\ Ordered /\ Accounted)'
  BY TypeNext, OrderedNext, AccountedNext
<1>3. TypeOK /\ KnownEvents /\ Ordered /\ Accounted => FinalsAccounted
  BY AccountedIsExact
<1> QED BY <1>1, <1>2, <1>3, PTL DEF Spec
=============================================================================
