------------------------ MODULE ChartStorage_proofs ------------------------
(***************************************************************************)
(* Proofs about ChartStorage, for any number of workers, bars, values,     *)
(* messages and faults.  IInv is inductive; the safety properties follow   *)
(* from it, and so does the refinement of ExactlyOnceStore.                *)
(***************************************************************************)
EXTENDS ChartStorage, TLAPS

(***************************************************************************)
(* Sequences.                                                              *)
(***************************************************************************)

(* Taking the head off a non-empty sequence.                               *)
LEMMA TailFacts ==
  ASSUME NEW S, NEW q \in Seq(S), q # <<>>
  PROVE  /\ Head(q) \in S
         /\ Head(q) = q[1]
         /\ 1 \in 1..Len(q)
         /\ Tail(q) \in Seq(S)
         /\ Len(Tail(q)) = Len(q) - 1
         /\ \A i \in 1..Len(Tail(q)) : Tail(q)[i] = q[i + 1] /\ i + 1 \in 1..Len(q)
  OBVIOUS

(* Putting an element at the end of one.                                   *)
LEMMA AppendFacts ==
  ASSUME NEW S, NEW q \in Seq(S), NEW e \in S
  PROVE  /\ Append(q, e) \in Seq(S)
         /\ Append(q, e) # <<>>
         /\ Len(Append(q, e)) = Len(q) + 1
         /\ \A i \in 1..Len(q) : Append(q, e)[i] = q[i]
         /\ Append(q, e)[Len(q) + 1] = e
  OBVIOUS

(***************************************************************************)
(* What a busy worker holds.                                               *)
(***************************************************************************)

(* The sequences of the stored messages.                                   *)
LEMMA LogRange ==
  ASSUME TypeOK
  PROVE  /\ Len(log) \in 0..MaxLog
         /\ \A s \in 1..Len(log) : s \in Seqs
         /\ \A s \in Seqs : s \in 1..Len(log) <=> s <= Len(log)
         /\ \A s \in 1..Len(log) : log[s] \in Message
         /\ \A w \in Workers : Len(batch[w]) \in Nat
         /\ \A w \in Workers : \A i \in 1..Len(batch[w]) : batch[w][i] \in Seqs
<1>1. /\ Len(log) \in 0..MaxLog
      /\ \A s \in 1..Len(log) : log[s] \in Message
  BY ConstantsAssumption DEF TypeOK
<1>2. /\ \A s \in 1..Len(log) : s \in Seqs
      /\ \A s \in Seqs : s \in 1..Len(log) <=> s <= Len(log)
  BY <1>1, ConstantsAssumption DEF Seqs
<1>3. \A w \in Workers : batch[w] \in Seq(Seqs)
  BY DEF TypeOK
<1> QED BY <1>1, <1>2, <1>3

(* A worker with a batch holds a message that is in the stream.            *)
LEMMA CurrentInLog ==
  ASSUME TypeOK, BatchesFromLog, NEW w \in Workers, batch[w] # <<>>
  PROVE  /\ Current(w) \in 1..Len(log)
         /\ Current(w) \in Seqs
         /\ Holds(w, Current(w))
         /\ CurrentEvent(w) \in Message
         /\ IsValid(CurrentEvent(w)) => CurrentEvent(w) \in Event
         /\ IsValid(CurrentEvent(w)) => EventId(CurrentEvent(w)) \in Bars \X Kinds
<1>1. batch[w] \in Seq(Seqs)
  BY DEF TypeOK
<1>2. Current(w) \in Seqs /\ Current(w) = batch[w][1] /\ 1 \in 1..Len(batch[w])
  BY <1>1, TailFacts DEF Current
<1>3. Current(w) \in 1..Len(log)
  BY <1>2 DEF BatchesFromLog, Seqs
<1>4. CurrentEvent(w) \in Message
  BY <1>3 DEF TypeOK, CurrentEvent
<1>5. IsValid(CurrentEvent(w)) => CurrentEvent(w) \in Event
  BY <1>4 DEF Message, Event, IsValid, Kinds
<1>6. Holds(w, Current(w))
  BY <1>2 DEF Holds
<1> QED BY <1>2, <1>3, <1>4, <1>5, <1>6 DEF Event, EventId

(* After NextMessage the batch is the tail of the old one.                 *)
LEMMA NextMessageFacts ==
  ASSUME TypeOK, BatchesFromLog, NEW w \in Workers, batch[w] # <<>>, NextMessage(w)
  PROVE  /\ batch' \in [Workers -> Seq(Seqs)]
         /\ pc' \in [Workers -> WorkerStates]
         /\ \A v \in Workers \ {w} : pc'[v] = pc[v] /\ batch'[v] = batch[v]
         /\ pc'[w] \in {"fetch", "handle"}
         /\ pc'[w] = "handle" => batch'[w] # <<>>
         /\ \A i \in 1..Len(batch'[w]) : batch'[w][i] <= Len(log)
         /\ \A s \in Seqs : Held(s) /\ s # Current(w) => Held(s)'
<1>1. batch[w] \in Seq(Seqs)
  BY DEF TypeOK
<1>2. /\ Tail(batch[w]) \in Seq(Seqs)
      /\ Len(Tail(batch[w])) = Len(batch[w]) - 1
      /\ \A i \in 1..Len(Tail(batch[w])) : /\ Tail(batch[w])[i] = batch[w][i + 1]
                                           /\ i + 1 \in 1..Len(batch[w])
  BY <1>1, TailFacts
<1>3. batch'[w] = Tail(batch[w]) /\ \A v \in Workers \ {w} : batch'[v] = batch[v]
  BY DEF NextMessage, TypeOK
<1>4. /\ pc'[w] = IF Tail(batch[w]) = <<>> THEN "fetch" ELSE "handle"
      /\ \A v \in Workers \ {w} : pc'[v] = pc[v]
  BY DEF NextMessage, TypeOK
<1>5. batch' \in [Workers -> Seq(Seqs)]
  BY <1>2 DEF NextMessage, TypeOK
<1>6. pc' \in [Workers -> WorkerStates]
  BY DEF NextMessage, TypeOK, WorkerStates
<1>7. \A i \in 1..Len(batch'[w]) : batch'[w][i] <= Len(log)
  BY <1>2, <1>3 DEF BatchesFromLog
<1>8. ASSUME NEW s \in Seqs, Held(s), s # Current(w)
      PROVE  Held(s)'
  <2>1. PICK v \in Workers : Holds(v, s)
    BY <1>8 DEF Held
  <2>2. PICK i \in 1..Len(batch[v]) : batch[v][i] = s
    BY <2>1 DEF Holds
  <2>3. CASE v # w
    BY <2>2, <2>3, <1>3 DEF Held, Holds
  <2>4. CASE v = w
    <3>1. i # 1
      BY <2>2, <2>4, <1>1, <1>8, TailFacts DEF Current
    <3>2. i - 1 \in 1..Len(Tail(batch[w]))
      BY <3>1, <2>2, <2>4, <1>1, <1>2
    <3>3. Tail(batch[w])[i - 1] = batch[w][i]
      BY <3>2, <1>2
    <3> QED BY <3>2, <3>3, <2>2, <2>4, <1>3 DEF Held, Holds
  <2> QED BY <2>3, <2>4
<1> QED BY <1>3, <1>4, <1>5, <1>6, <1>7, <1>8

-----------------------------------------------------------------------------
(***************************************************************************)
(* The invariant holds initially, and every step keeps it.                 *)
(***************************************************************************)

(* The empty stream, tables and consumer satisfy the invariant.            *)
LEMMA InitIInv == Init => IInv
<1> SUFFICES ASSUME Init PROVE IInv
  OBVIOUS
<1>1. log \in Seq(Message) /\ Len(log) = 0
  BY DEF Init
<1>2. TypeOK
  BY <1>1, ConstantsAssumption
  DEF Init, TypeOK, DeliveryStates, WorkerStates
<1>3. BatchesFromLog /\ TransactionsExclusive
  BY DEF Init, BatchesFromLog, TransactionsExclusive, InTransaction
<1>4. NothingBeforeConsumer /\ DeliveryCounted
  BY DEF Init, NothingBeforeConsumer, DeliveryCounted
<1>5. SettledIsDurable /\ TablesAgree /\ DeliveriesPaidByFaults
  BY <1>1 DEF Init, SettledIsDurable, TablesAgree, DeliveriesPaidByFaults
<1> QED BY <1>2, <1>3, <1>4, <1>5 DEF IInv

(* A message is stored in the stream: what was there before keeps its
   place, and the consumer knows nothing of the new sequence.              *)
LEMMA PublishKeeps ==
  ASSUME IInv, NEW m \in Message, Publish(m)
  PROVE  IInv'
<1> USE DEF IInv
<1>1. /\ log' \in Seq(Message)
      /\ Len(log') = Len(log) + 1
      /\ Len(log') <= MaxLog
      /\ \A s \in 1..Len(log) : log'[s] = log[s]
  BY ConstantsAssumption, AppendFacts DEF Publish, TypeOK
<1>2. Len(log) + 1 \in Seqs
  BY <1>1, ConstantsAssumption DEF TypeOK, Seqs
<1>3. /\ delivery' \in [Seqs -> DeliveryStates]
      /\ \A s \in Seqs : s # Len(log) + 1 => delivery'[s] = delivery[s]
      /\ delivery'[Len(log) + 1] \in {"waiting", "skipped"}
      /\ consumer = NoConsumer => delivery' = delivery
  BY <1>2 DEF Publish, TypeOK, DeliveryStates, DeliveryCounted
<1>4. UNCHANGED <<consumer, attempts, pc, batch, dedupe, candles, faults>>
  BY DEF Publish, workerVars, dbVars
<1>5. TypeOK'
  BY <1>1, <1>3, <1>4 DEF TypeOK
<1>6. BatchesFromLog'
  <2>1. ASSUME NEW w \in Workers, NEW i \in 1..Len(batch[w])
        PROVE  batch[w][i] <= Len(log')
    <3>1. batch[w][i] \in Nat /\ batch[w][i] <= Len(log)
      BY LogRange DEF BatchesFromLog, Seqs
    <3> QED BY <3>1, <1>1, LogRange
  <2> QED BY <2>1, <1>4 DEF BatchesFromLog
<1>7. \A w \in Workers : batch[w] # <<>> =>
         /\ CurrentEvent(w)' = CurrentEvent(w)
         /\ Current(w) \in 1..Len(log)
         /\ Current(w)' = Current(w)
         /\ Stored(Current(w))' = Stored(Current(w))
  BY <1>1, <1>4, CurrentInLog DEF CurrentEvent, Current, Stored, EventId
<1>8. TransactionsExclusive'
  BY <1>4, <1>7 DEF TransactionsExclusive, BatchesFromLog, InTransaction, IsValid, EventId
<1>9. NothingBeforeConsumer'
  BY <1>3, <1>4 DEF NothingBeforeConsumer
<1>10. DeliveryCounted'
  BY <1>1, <1>2, <1>3, <1>4 DEF DeliveryCounted, TypeOK, Seqs
<1>11. SettledIsDurable'
  <2>1. \A s \in 1..Len(log') : s \in 1..Len(log) \/ s = Len(log) + 1
    BY <1>1 DEF TypeOK
  <2>2. \A s \in 1..Len(log) : s \in Seqs /\ s # Len(log) + 1
    BY LogRange
  <2> QED BY <1>1, <1>3, <1>4, <2>1, <2>2 DEF SettledIsDurable, Stored, EventId, IsValid
<1>12. TablesAgree'
  <2>1. \A s \in 1..Len(log) : s \in 1..Len(log')
    BY <1>1 DEF TypeOK
  <2> QED BY <1>1, <1>4, <2>1 DEF TablesAgree, EventId
<1>13. DeliveriesPaidByFaults'
  <2> SUFFICES ASSUME NEW s \in 1..Len(log'), IsValid(log'[s]), ~Stored(s)'
               PROVE  attempts[s] <= faults + (IF delivery'[s] = "pending" /\ Held(s)
                                                 THEN 1 ELSE 0)
    BY <1>4 DEF DeliveriesPaidByFaults, Held, Holds
  <2>1. CASE s = Len(log) + 1
    <3>1. delivery[s] = "waiting" /\ attempts[s] = 0
      BY <2>1, <1>2, LogRange DEF DeliveryCounted
    <3> QED BY <3>1 DEF TypeOK
  <2>2. CASE s \in 1..Len(log)
    <3>1. delivery'[s] = delivery[s] /\ log'[s] = log[s]
      BY <2>2, <1>1, <1>3, LogRange
    <3>2. IsValid(log[s]) /\ ~Stored(s)
      BY <3>1, <1>4 DEF Stored, EventId, IsValid
    <3> QED BY <2>2, <3>1, <3>2 DEF DeliveriesPaidByFaults
  <2> QED BY <2>1, <2>2, <1>1 DEF TypeOK
<1> QED BY <1>5, <1>6, <1>8, <1>9, <1>10, <1>11, <1>12, <1>13

(* The durable consumer is created before anything was delivered.          *)
LEMMA CreateConsumerKeeps ==
  ASSUME IInv, NEW w \in Workers, CreateConsumer(w)
  PROVE  IInv'
<1> USE DEF IInv
<1>1. /\ consumer = NoConsumer
      /\ consumer' \in SUBSET Bars
      /\ pc' = [pc EXCEPT ![w] = "fetch"]
      /\ UNCHANGED <<log, attempts, batch, dedupe, candles, faults>>
  BY ConstantsAssumption DEF CreateConsumer, dbVars
<1>2. \A s \in Seqs : attempts[s] = 0
  BY <1>1 DEF NothingBeforeConsumer, DeliveryCounted
<1>3. /\ delivery' \in [Seqs -> {"waiting", "skipped"}]
      /\ \A s \in Seqs : s > Len(log) => delivery'[s] = "waiting"
  BY <1>1 DEF CreateConsumer, NothingBeforeConsumer, TypeOK, Seqs
<1>4. \A v \in Workers : pc'[v] \in {"down", "fetch"} /\ batch[v] = <<>>
  BY <1>1 DEF NothingBeforeConsumer, BatchesFromLog, TypeOK
<1>5. TypeOK'
  BY <1>1, <1>3 DEF TypeOK, DeliveryStates, WorkerStates
<1>6. BatchesFromLog' /\ TransactionsExclusive'
  BY <1>1, <1>4 DEF BatchesFromLog, TransactionsExclusive, InTransaction
<1>7. NothingBeforeConsumer'
  BY <1>1, ConstantsAssumption DEF NothingBeforeConsumer
<1>8. DeliveryCounted'
  BY <1>1, <1>2, <1>3, ConstantsAssumption DEF DeliveryCounted
<1>9. SettledIsDurable'
  BY <1>1, <1>3, LogRange DEF SettledIsDurable
<1>10. TablesAgree'
  BY <1>1 DEF TablesAgree
<1>11. DeliveriesPaidByFaults'
  <2>1. \A s \in 1..Len(log) : attempts[s] = 0 /\ delivery'[s] # "pending"
    BY <1>2, <1>3, LogRange
  <2>2. faults \in Nat
    BY DEF TypeOK
  <2> QED BY <1>1, <2>1, <2>2 DEF DeliveriesPaidByFaults
<1> QED BY <1>5, <1>6, <1>7, <1>8, <1>9, <1>10, <1>11

(* A step that only moves one worker from one point of its program to
   another touches neither the broker's books nor the tables.              *)
LEMMA MovePC ==
  ASSUME IInv, NEW w \in Workers, NEW p \in WorkerStates,
         pc' = [pc EXCEPT ![w] = p],
         consumer # NoConsumer,
         UNCHANGED <<brokerVars, batch, dbVars, faults>>
  PROVE  /\ TypeOK'
         /\ NothingBeforeConsumer'
         /\ DeliveryCounted'
         /\ SettledIsDurable'
         /\ TablesAgree'
         /\ DeliveriesPaidByFaults'
<1> USE DEF IInv, brokerVars, dbVars
<1>1. TypeOK'
  BY DEF TypeOK
<1>2. NothingBeforeConsumer' /\ DeliveryCounted'
  BY DEF NothingBeforeConsumer, DeliveryCounted
<1>3. SettledIsDurable' /\ TablesAgree'
  BY DEF SettledIsDurable, TablesAgree, Stored
<1>4. DeliveriesPaidByFaults'
  BY DEF DeliveriesPaidByFaults, Stored, Held, Holds
<1> QED BY <1>1, <1>2, <1>3, <1>4

(* A worker attaches to the consumer with nothing in its batch.            *)
LEMMA AttachConsumerKeeps ==
  ASSUME IInv, NEW w \in Workers, AttachConsumer(w)
  PROVE  IInv'
<1>1. pc[w] = "down" /\ pc' = [pc EXCEPT ![w] = "fetch"] /\ consumer # NoConsumer
  BY DEF AttachConsumer
<1>2. UNCHANGED <<brokerVars, batch, dbVars, faults>>
  BY DEF AttachConsumer
<1>3. BatchesFromLog' /\ TransactionsExclusive'
  BY <1>1, <1>2 DEF IInv, TypeOK, BatchesFromLog, TransactionsExclusive, InTransaction,
                    Stored, Current, CurrentEvent, brokerVars, dbVars
<1>4. "fetch" \in WorkerStates
  BY DEF WorkerStates
<1> QED BY <1>1, <1>2, <1>3, <1>4, MovePC DEF IInv

(* fetch() returns: the worker turns to the messages it was given.         *)
LEMMA FetchReturnsKeeps ==
  ASSUME IInv, NEW w \in Workers, FetchReturns(w)
  PROVE  IInv'
<1>1. pc[w] = "fetch" /\ pc' = [pc EXCEPT ![w] = "handle"] /\ batch[w] # <<>>
  BY DEF FetchReturns
<1>2. UNCHANGED <<brokerVars, batch, dbVars, faults>>
  BY DEF FetchReturns
<1>3. BatchesFromLog' /\ TransactionsExclusive'
  BY <1>1, <1>2 DEF IInv, TypeOK, BatchesFromLog, TransactionsExclusive, InTransaction,
                    Stored, Current, CurrentEvent, brokerVars, dbVars
<1>4. "handle" \in WorkerStates /\ consumer # NoConsumer
  BY <1>1 DEF WorkerStates, IInv, NothingBeforeConsumer
<1> QED BY <1>1, <1>2, <1>3, <1>4, MovePC DEF IInv

(* The dedupe row is inserted only when nobody stored the event and nobody
   else is storing it; otherwise it is known to be stored.                 *)
LEMMA InsertDedupeKeeps ==
  ASSUME IInv, NEW w \in Workers, InsertDedupe(w)
  PROVE  IInv'
<1> DEFINE p == IF EventId(CurrentEvent(w)) \in dedupe THEN "ack" ELSE "upsert"
<1>1. pc[w] = "handle" /\ pc' = [pc EXCEPT ![w] = p] /\ DedupeRowFree(w)
  BY DEF InsertDedupe
<1>2. UNCHANGED <<brokerVars, batch, dbVars, faults>> /\ IsValid(CurrentEvent(w))
  BY DEF InsertDedupe
<1>3. p \in WorkerStates /\ consumer # NoConsumer /\ batch[w] # <<>>
  BY <1>1 DEF WorkerStates, IInv, NothingBeforeConsumer, BatchesFromLog
<1>4. BatchesFromLog'
  BY <1>1, <1>2, <1>3 DEF IInv, TypeOK, BatchesFromLog, brokerVars
<1>5. /\ pc'[w] = p
      /\ \A v \in Workers \ {w} : pc'[v] = pc[v]
      /\ \A v \in Workers : /\ Current(v)' = Current(v)
                            /\ CurrentEvent(v)' = CurrentEvent(v)
                            /\ Stored(Current(v))' = Stored(Current(v))
  BY <1>1, <1>2 DEF IInv, TypeOK, Current, CurrentEvent, Stored, brokerVars, dbVars
<1>6. Stored(Current(w)) <=> EventId(CurrentEvent(w)) \in dedupe
  BY DEF Stored, CurrentEvent
<1>7. TransactionsExclusive'
  <2> SUFFICES ASSUME NEW u \in Workers
               PROVE  /\ InTransaction(u)' =>
                           /\ IsValid(CurrentEvent(u))
                           /\ ~Stored(Current(u))
                           /\ \A v \in Workers \ {u} : InTransaction(v)' =>
                                EventId(CurrentEvent(v)) # EventId(CurrentEvent(u))
                      /\ pc'[u] = "ack" => IsValid(CurrentEvent(u)) /\ Stored(Current(u))
    BY <1>5 DEF TransactionsExclusive, EventId, IsValid
  <2>1. \A v \in Workers \ {w} : InTransaction(v)' <=> InTransaction(v)
    BY <1>5 DEF InTransaction
  <2>2. CASE u = w
    BY <2>1, <2>2, <1>1, <1>2, <1>5, <1>6 DEF DedupeRowFree, InTransaction
  <2>3. CASE u # w
    BY <2>1, <2>3, <1>1, <1>5 DEF DedupeRowFree, IInv, TransactionsExclusive
  <2> QED BY <2>2, <2>3
<1> QED BY <1>1, <1>2, <1>3, <1>4, <1>7, MovePC DEF IInv

(* The candle is written inside the open transaction.                      *)
LEMMA UpsertCandleKeeps ==
  ASSUME IInv, NEW w \in Workers, UpsertCandle(w)
  PROVE  IInv'
<1>1. pc[w] = "upsert" /\ pc' = [pc EXCEPT ![w] = "commit"]
  BY DEF UpsertCandle
<1>2. UNCHANGED <<brokerVars, batch, dbVars, faults>>
  BY DEF UpsertCandle
<1>3. "commit" \in WorkerStates /\ consumer # NoConsumer /\ batch[w] # <<>>
  BY <1>1 DEF WorkerStates, IInv, NothingBeforeConsumer, BatchesFromLog
<1>4. BatchesFromLog'
  BY <1>1, <1>2, <1>3 DEF IInv, TypeOK, BatchesFromLog, brokerVars
<1>5. \A v \in Workers : /\ InTransaction(v)' <=> InTransaction(v)
                         /\ pc'[v] = "ack" <=> pc[v] = "ack"
                         /\ Current(v)' = Current(v)
                         /\ CurrentEvent(v)' = CurrentEvent(v)
                         /\ Stored(Current(v))' = Stored(Current(v))
  BY <1>1, <1>2 DEF IInv, TypeOK, InTransaction, Current, CurrentEvent, Stored,
                    brokerVars, dbVars
<1>6. TransactionsExclusive'
  BY <1>5 DEF IInv, TransactionsExclusive, EventId, IsValid
<1> QED BY <1>1, <1>2, <1>3, <1>4, <1>6, MovePC DEF IInv

(* A delivery is counted and lands at the end of the worker's batch; when
   the message was delivered before, that delivery has been paid for.      *)
LEMMA DeliverKeeps ==
  ASSUME IInv, NEW w \in Workers, NEW s \in Seqs, Deliver(w, s)
  PROVE  IInv'
<1> USE DEF IInv
<1>1. /\ pc[w] = "fetch"
      /\ delivery[s] \in {"redeliver", "waiting"}
      /\ s \in 1..Len(log)
      /\ UNCHANGED <<log, consumer, pc, dedupe, candles, faults>>
  <2>1. s <= Len(log)
    BY LogRange DEF Deliver, DeliveryCounted, Seqs
  <2> QED BY <2>1, LogRange DEF Deliver, dbVars
<1>2. /\ delivery' \in [Seqs -> DeliveryStates]
      /\ delivery'[s] = "pending"
      /\ \A r \in Seqs \ {s} : delivery'[r] = delivery[r]
  BY DEF Deliver, TypeOK, DeliveryStates
<1>3. /\ attempts'[s] = attempts[s] + 1
      /\ \A r \in Seqs \ {s} : attempts'[r] = attempts[r]
      /\ attempts'[s] \in 0..MaxDeliver
      /\ attempts' \in [Seqs -> 0..MaxDeliver]
  <2>1. attempts[s] \in 0..MaxDeliver /\ attempts[s] + 1 \in 0..MaxDeliver
    BY <1>1, ConstantsAssumption DEF TypeOK, DeliveryCounted
  <2> QED BY <2>1 DEF Deliver, TypeOK
<1>4. /\ batch' \in [Workers -> Seq(Seqs)]
      /\ batch'[w] = Append(batch[w], s)
      /\ \A v \in Workers \ {w} : batch'[v] = batch[v]
      /\ \A i \in 1..Len(batch[w]) : batch'[w][i] = batch[w][i]
      /\ Len(batch'[w]) = Len(batch[w]) + 1
      /\ batch'[w][Len(batch[w]) + 1] = s
  <2>1. batch[w] \in Seq(Seqs)
    BY DEF TypeOK
  <2>2. batch' = [batch EXCEPT ![w] = Append(batch[w], s)]
    BY DEF Deliver
  <2> QED BY <2>1, <2>2, AppendFacts DEF TypeOK
<1>5. TypeOK'
  BY <1>1, <1>2, <1>3, <1>4 DEF TypeOK
<1>6. BatchesFromLog'
  <2>1. \A i \in 1..Len(batch'[w]) : i \in 1..Len(batch[w]) \/ i = Len(batch[w]) + 1
    BY <1>4, LogRange
  <2>2. s <= Len(log)
    BY <1>1, LogRange
  <2>3. \A i \in 1..Len(batch'[w]) : batch'[w][i] <= Len(log)
    BY <2>1, <2>2, <1>4 DEF BatchesFromLog
  <2> QED BY <2>3, <1>1, <1>4 DEF BatchesFromLog
<1>7. TransactionsExclusive'
  <2>1. \A v \in Workers : InTransaction(v)' = InTransaction(v)
    BY <1>1 DEF InTransaction
  <2>2. \A v \in Workers : InTransaction(v) \/ pc[v] = "ack" =>
          v # w /\ CurrentEvent(v)' = CurrentEvent(v) /\ Stored(Current(v))' = Stored(Current(v))
    BY <1>1, <1>4 DEF InTransaction, CurrentEvent, Current, Stored
  <2> QED BY <2>1, <2>2, <1>1 DEF TransactionsExclusive, EventId, IsValid
<1>8. NothingBeforeConsumer'
  BY <1>1 DEF NothingBeforeConsumer
<1>9. DeliveryCounted'
  BY <1>1, <1>2, <1>3 DEF DeliveryCounted
<1>10. SettledIsDurable' /\ TablesAgree'
  BY <1>1, <1>2, LogRange DEF SettledIsDurable, TablesAgree, Stored
<1>11. DeliveriesPaidByFaults'
  <2> SUFFICES ASSUME NEW r \in 1..Len(log), IsValid(log[r]), ~Stored(r)
               PROVE  attempts'[r] <= faults + (IF delivery'[r] = "pending" /\ Held(r)'
                                                  THEN 1 ELSE 0)
    BY <1>1 DEF DeliveriesPaidByFaults, Stored, IsValid, EventId
  <2>1. CASE r = s
    <3>1. Held(s)'
      BY <1>4, LogRange DEF Held, Holds
    <3>2. attempts[s] <= faults
      <4>1. CASE delivery[s] = "redeliver"
        BY <4>1, <2>1 DEF DeliveriesPaidByFaults, TypeOK
      <4>2. CASE delivery[s] = "waiting"
        BY <4>2 DEF DeliveryCounted, TypeOK
      <4> QED BY <4>1, <4>2, <1>1
    <3> QED BY <2>1, <3>1, <3>2, <1>2, <1>3 DEF TypeOK
  <2>2. CASE r # s
    <3>1. Held(r) => Held(r)'
      <4>1. \A i \in 1..Len(batch[w]) : i \in 1..Len(batch'[w])
        BY <1>4, LogRange
      <4> QED BY <4>1, <1>4 DEF Held, Holds
    <3>2. delivery'[r] = delivery[r] /\ attempts'[r] = attempts[r]
      BY <2>2, <1>2, <1>3, LogRange
    <3>3. attempts[r] \in Nat /\ faults \in Nat
      BY LogRange DEF TypeOK
    <3> QED BY <3>1, <3>2, <3>3 DEF DeliveriesPaidByFaults
  <2> QED BY <2>1, <2>2
<1> QED BY <1>5, <1>6, <1>7, <1>8, <1>9, <1>10, <1>11

(* A worker finishes with its message without writing: the message may be
   settled, and if it is valid and not stored a fault has happened.        *)
LEMMA FinishKeeps ==
  ASSUME IInv, NEW w \in Workers, batch[w] # <<>>, pc[w] # "down", NextMessage(w),
         UNCHANGED <<log, consumer, attempts, dbVars>>,
         faults' \in {faults, faults + 1}, faults' <= MaxFaults,
         NEW d \in {"acked", "termed"},
         delivery' = delivery
           \/ (Current(w) \in Outstanding /\ delivery' = [delivery EXCEPT ![Current(w)] = d]),
         d = "acked" => IsValid(CurrentEvent(w)) /\ Stored(Current(w)),
         d = "termed" => ~IsValid(CurrentEvent(w)) \/ delivery' = delivery,
         IsValid(CurrentEvent(w)) => Stored(Current(w)) \/ faults' = faults + 1
  PROVE  IInv'
<1> USE DEF IInv, dbVars
<1>1. /\ Current(w) \in 1..Len(log)
      /\ Current(w) \in Seqs
      /\ CurrentEvent(w) = log[Current(w)]
  BY CurrentInLog DEF CurrentEvent
<1>2. /\ \A v \in Workers \ {w} : pc'[v] = pc[v] /\ batch'[v] = batch[v]
      /\ pc'[w] \in {"fetch", "handle"}
      /\ pc'[w] = "handle" => batch'[w] # <<>>
      /\ \A i \in 1..Len(batch'[w]) : batch'[w][i] <= Len(log)
      /\ \A s \in Seqs : Held(s) /\ s # Current(w) => Held(s)'
  BY NextMessageFacts
<1>3. /\ delivery' \in [Seqs -> DeliveryStates]
      /\ \A s \in Seqs : delivery'[s] # delivery[s] =>
           s = Current(w) /\ delivery'[s] = d
  BY <1>1 DEF TypeOK, DeliveryStates
<1>4. faults \in Nat /\ faults' \in 0..MaxFaults
  BY ConstantsAssumption DEF TypeOK
<1>5. TypeOK'
  BY <1>3, <1>4, NextMessageFacts DEF TypeOK
<1>6. BatchesFromLog'
  BY <1>2 DEF BatchesFromLog
<1>7. TransactionsExclusive'
  <2>1. \A v \in Workers \ {w} : /\ InTransaction(v)' = InTransaction(v)
                                 /\ CurrentEvent(v)' = CurrentEvent(v)
                                 /\ Stored(Current(v))' = Stored(Current(v))
    BY <1>2 DEF InTransaction, CurrentEvent, Current, Stored
  <2>2. ~InTransaction(w)' /\ pc'[w] # "ack"
    BY <1>2 DEF InTransaction
  <2> QED BY <2>1, <2>2, <1>2 DEF TransactionsExclusive, EventId, IsValid
<1>8. NothingBeforeConsumer'
  BY DEF NothingBeforeConsumer
<1>9. DeliveryCounted'
  BY <1>1, <1>3, LogRange DEF DeliveryCounted, Seqs
<1>10. SettledIsDurable'
  BY <1>1, <1>3, LogRange DEF SettledIsDurable, Stored
<1>11. TablesAgree'
  BY DEF TablesAgree
<1>12. DeliveriesPaidByFaults'
  <2> SUFFICES ASSUME NEW s \in 1..Len(log), IsValid(log[s]), ~Stored(s)
               PROVE  attempts[s] <= faults' + (IF delivery'[s] = "pending" /\ Held(s)'
                                                  THEN 1 ELSE 0)
    BY DEF DeliveriesPaidByFaults, Stored, IsValid, EventId
  <2>1. attempts[s] \in Nat /\ s \in Seqs
    BY LogRange DEF TypeOK
  <2>2. attempts[s] <= faults + (IF delivery[s] = "pending" /\ Held(s) THEN 1 ELSE 0)
    BY DEF DeliveriesPaidByFaults
  <2>3. CASE s = Current(w)
    BY <2>1, <2>2, <2>3, <1>1, <1>4
  <2>4. CASE s # Current(w)
    BY <2>1, <2>2, <2>4, <1>2, <1>3, <1>4
  <2> QED BY <2>3, <2>4
<1> QED BY <1>5, <1>6, <1>7, <1>8, <1>9, <1>10, <1>11, <1>12

(* A message that cannot be parsed is terminated or left pending.          *)
LEMMA RejectInvalidKeeps ==
  ASSUME IInv, NEW w \in Workers, RejectInvalid(w)
  PROVE  IInv'
<1>1. batch[w] # <<>> /\ pc[w] # "down" /\ NextMessage(w) /\ ~IsValid(CurrentEvent(w))
  BY DEF RejectInvalid, IInv, BatchesFromLog
<1>2. UNCHANGED <<log, consumer, attempts, dbVars, faults>>
  BY DEF RejectInvalid
<1>3. \/ delivery' = delivery
      \/ /\ Current(w) \in Outstanding
         /\ delivery' = [delivery EXCEPT ![Current(w)] = "termed"]
  BY DEF RejectInvalid
<1>4. faults' \in {faults, faults + 1} /\ faults' <= MaxFaults
  BY <1>2, ConstantsAssumption DEF IInv, TypeOK
<1> QED BY <1>1, <1>2, <1>3, <1>4, FinishKeeps

(* The ack of a stored event.                                              *)
LEMMA AckKeeps ==
  ASSUME IInv, NEW w \in Workers, Ack(w)
  PROVE  IInv'
<1>1. batch[w] # <<>> /\ pc[w] # "down" /\ NextMessage(w)
  BY DEF Ack, IInv, BatchesFromLog
<1>2. IsValid(CurrentEvent(w)) /\ Stored(Current(w))
  BY DEF Ack, IInv, TransactionsExclusive
<1>3. UNCHANGED <<log, consumer, attempts, dbVars, faults>>
  BY DEF Ack
<1>4. \/ delivery' = delivery
      \/ /\ Current(w) \in Outstanding
         /\ delivery' = [delivery EXCEPT ![Current(w)] = "acked"]
  BY DEF Ack
<1>5. faults' \in {faults, faults + 1} /\ faults' <= MaxFaults
  BY <1>3, ConstantsAssumption DEF IInv, TypeOK
<1> QED BY <1>1, <1>2, <1>3, <1>4, <1>5, FinishKeeps

(* A failed write and a lost ack are faults that leave the message pending.*)
LEMMA WriteFailsKeeps ==
  ASSUME IInv, NEW w \in Workers, WriteFails(w) \/ AckLost(w)
  PROVE  IInv'
<1>1. batch[w] # <<>> /\ pc[w] # "down" /\ NextMessage(w)
  BY DEF WriteFails, AckLost, InTransaction, IInv, BatchesFromLog
<1>2. /\ UNCHANGED <<log, consumer, attempts, dbVars>>
      /\ delivery' = delivery
      /\ faults' = faults + 1
      /\ faults' <= MaxFaults
  BY ConstantsAssumption DEF WriteFails, AckLost, Fault, brokerVars, IInv, TypeOK
<1> QED BY <1>1, <1>2, FinishKeeps

(* Committing the two rows of an event nobody has stored.                  *)
LEMMA CommitRowsFacts ==
  ASSUME IInv, NEW w \in Workers, pc[w] = "commit", CommitRows(w), UNCHANGED log
  PROVE  /\ dedupe' \in SUBSET (Bars \X Kinds)
         /\ candles' \in [Bars -> Event \cup {NoCandle, OtherCandle}]
         /\ TablesAgree'
         /\ \A s : Stored(s) => Stored(s)'
         /\ EventId(CurrentEvent(w)) \in dedupe'
         /\ IsValid(CurrentEvent(w))
         /\ batch[w] # <<>>
         /\ \A v \in Workers \ {w} :
              InTransaction(v) => EventId(CurrentEvent(v)) \notin dedupe'
<1> USE DEF IInv
<1>1. batch[w] # <<>> /\ IsValid(CurrentEvent(w))
  BY DEF BatchesFromLog, TransactionsExclusive, InTransaction
<1>2. /\ CurrentEvent(w) \in Event
      /\ EventId(CurrentEvent(w)) \in Bars \X Kinds
      /\ Current(w) \in 1..Len(log)
      /\ CurrentEvent(w) = log[Current(w)]
      /\ CurrentEvent(w).bar \in Bars
      /\ EventId(CurrentEvent(w)) = <<CurrentEvent(w).bar, CurrentEvent(w).kind>>
  BY <1>1, CurrentInLog DEF CurrentEvent, Event, EventId
<1>3. /\ dedupe' = dedupe \cup {EventId(CurrentEvent(w))}
      /\ candles' = [candles EXCEPT ![CurrentEvent(w).bar] = CurrentEvent(w)]
  BY DEF CommitRows
<1>4. dedupe' \in SUBSET (Bars \X Kinds) /\ candles' \in [Bars -> Event \cup {NoCandle, OtherCandle}]
  BY <1>2, <1>3 DEF TypeOK
<1>5. TablesAgree'
  <2> SUFFICES ASSUME NEW b \in Bars
               PROVE  /\ candles'[b] = NoCandle => \A k \in Kinds : <<b, k>> \notin dedupe'
                      /\ candles'[b] \notin {NoCandle, OtherCandle} =>
                           /\ candles'[b].bar = b
                           /\ EventId(candles'[b]) \in dedupe'
                           /\ \E s \in 1..Len(log) : log[s] = candles'[b]
    BY DEF TablesAgree, EventId
  <2>1. CASE b = CurrentEvent(w).bar
    <3>1. candles'[b] = CurrentEvent(w) /\ CurrentEvent(w) # NoCandle
      BY <2>1, <1>2, <1>3, ConstantsAssumption DEF TypeOK, Event, Kinds
    <3> QED BY <2>1, <3>1, <1>2, <1>3
  <2>2. CASE b # CurrentEvent(w).bar
    <3>1. candles'[b] = candles[b]
      BY <2>2, <1>3 DEF TypeOK
    <3>2. \A k \in Kinds : <<b, k>> \in dedupe' => <<b, k>> \in dedupe
      BY <2>2, <1>2, <1>3
    <3> QED BY <3>1, <3>2, <1>3 DEF TablesAgree
  <2> QED BY <2>1, <2>2
<1>6. \A s : Stored(s) => Stored(s)'
  BY <1>3 DEF Stored, EventId
<1>7. EventId(CurrentEvent(w)) \in dedupe'
  BY <1>3
<1>8. \A v \in Workers \ {w} : InTransaction(v) => EventId(CurrentEvent(v)) \notin dedupe'
  BY <1>3 DEF TransactionsExclusive, InTransaction, Stored, CurrentEvent
<1> QED BY <1>1, <1>4, <1>5, <1>6, <1>7, <1>8

(* The part of the invariant a commit keeps whatever the worker does next. *)
LEMMA CommitRowsKeep ==
  ASSUME IInv, NEW w \in Workers, pc[w] = "commit", CommitRows(w),
         UNCHANGED brokerVars, faults' \in {faults, faults + 1}, faults' <= MaxFaults,
         \A s \in Seqs : Held(s) /\ s # Current(w) => Held(s)',
         \A v \in Workers : pc'[v] = "down" <=> pc[v] = "down"
  PROVE  /\ NothingBeforeConsumer'
         /\ DeliveryCounted'
         /\ SettledIsDurable'
         /\ TablesAgree'
         /\ DeliveriesPaidByFaults'
<1> USE DEF IInv, brokerVars
<1>1. /\ TablesAgree'
      /\ \A s : Stored(s) => Stored(s)'
      /\ EventId(CurrentEvent(w)) \in dedupe'
  BY CommitRowsFacts
<1>2. NothingBeforeConsumer'
  BY DEF NothingBeforeConsumer
<1>3. DeliveryCounted'
  BY DEF DeliveryCounted
<1>4. SettledIsDurable'
  BY <1>1 DEF SettledIsDurable, Stored, IsValid
<1>5. DeliveriesPaidByFaults'
  <2> SUFFICES ASSUME NEW s \in 1..Len(log), IsValid(log[s]), EventId(log[s]) \notin dedupe'
               PROVE  attempts[s] <= faults' + (IF delivery[s] = "pending" /\ Held(s)'
                                                  THEN 1 ELSE 0)
    BY DEF DeliveriesPaidByFaults, Stored, IsValid, EventId
  <2>1. s # Current(w)
    BY <1>1 DEF CurrentEvent
  <2>2. ~Stored(s)
    BY DEF CommitRows, Stored
  <2>3. attempts[s] \in Nat /\ s \in Seqs /\ faults \in Nat
    BY LogRange DEF TypeOK
  <2> QED BY <2>1, <2>2, <2>3 DEF DeliveriesPaidByFaults
<1> QED BY <1>1, <1>2, <1>3, <1>4, <1>5

(* The transaction commits; the ack is next.                               *)
LEMMA CommitKeeps ==
  ASSUME IInv, NEW w \in Workers, Commit(w)
  PROVE  IInv'
<1> USE DEF IInv
<1>1. /\ pc[w] = "commit" /\ CommitRows(w)
      /\ pc' = [pc EXCEPT ![w] = "ack"]
      /\ UNCHANGED <<log, consumer, delivery, attempts, batch, faults>>
  BY DEF Commit, brokerVars
<1>2. /\ dedupe' \in SUBSET (Bars \X Kinds)
      /\ candles' \in [Bars -> Event \cup {NoCandle, OtherCandle}]
      /\ \A s : Stored(s) => Stored(s)'
      /\ EventId(CurrentEvent(w)) \in dedupe'
      /\ IsValid(CurrentEvent(w))
      /\ \A v \in Workers \ {w} : InTransaction(v) => EventId(CurrentEvent(v)) \notin dedupe'
  BY <1>1, CommitRowsFacts
<1>3. /\ faults' \in {faults, faults + 1} /\ faults' <= MaxFaults
      /\ \A s \in Seqs : Held(s) => Held(s)'
      /\ \A v \in Workers : pc'[v] = "down" <=> pc[v] = "down"
  BY <1>1, ConstantsAssumption DEF TypeOK, Held, Holds
<1>4. TypeOK'
  BY <1>1, <1>2 DEF TypeOK, WorkerStates
<1>5. BatchesFromLog'
  BY <1>1 DEF BatchesFromLog, TypeOK
<1>6. TransactionsExclusive'
  <2>1. /\ pc'[w] = "ack" /\ ~InTransaction(w)'
        /\ \A v \in Workers \ {w} : /\ pc'[v] = pc[v]
                                    /\ InTransaction(v)' = InTransaction(v)
        /\ \A v \in Workers : /\ CurrentEvent(v)' = CurrentEvent(v)
                              /\ Stored(Current(v))' <=> EventId(CurrentEvent(v)) \in dedupe'
                              /\ Stored(Current(v)) <=> EventId(CurrentEvent(v)) \in dedupe
    BY <1>1 DEF TypeOK, InTransaction, CurrentEvent, Current, Stored, EventId
  <2>2. \A v \in Workers \ {w} : pc[v] = "ack" => EventId(CurrentEvent(v)) \in dedupe'
    BY <2>1, <1>1 DEF TransactionsExclusive, CommitRows
  <2>3. \A v \in Workers \ {w} : InTransaction(v)' =>
          /\ IsValid(CurrentEvent(v))'
          /\ ~Stored(Current(v))'
    BY <2>1, <1>2 DEF TransactionsExclusive, IsValid
  <2>4. \A v, u \in Workers \ {w} :
          v # u /\ InTransaction(v)' /\ InTransaction(u)' =>
            EventId(CurrentEvent(u))' # EventId(CurrentEvent(v))'
    <3> SUFFICES ASSUME NEW v \in Workers \ {w}, NEW u \in Workers \ {w}, v # u,
                        InTransaction(v)', InTransaction(u)'
                 PROVE  EventId(CurrentEvent(u))' # EventId(CurrentEvent(v))'
      OBVIOUS
    <3>1. EventId(CurrentEvent(u)) # EventId(CurrentEvent(v))
      BY <2>1 DEF TransactionsExclusive
    <3>2. CurrentEvent(u)' = CurrentEvent(u) /\ CurrentEvent(v)' = CurrentEvent(v)
      BY <2>1
    <3> QED BY <3>1, <3>2 DEF EventId
  <2>5. \A v \in Workers : pc'[v] = "ack" =>
          IsValid(CurrentEvent(v))' /\ Stored(Current(v))'
    BY <2>1, <2>2, <1>2 DEF TransactionsExclusive, IsValid
  <2> QED BY <2>1, <2>3, <2>4, <2>5 DEF TransactionsExclusive
<1> QED BY <1>1, <1>3, <1>4, <1>5, <1>6, CommitRowsKeep DEF brokerVars

(* The transaction commits and the worker does not hear of it.             *)
LEMMA CommitAnswerLostKeeps ==
  ASSUME IInv, NEW w \in Workers, CommitAnswerLost(w)
  PROVE  IInv'
<1> USE DEF IInv
<1>1. /\ pc[w] = "commit" /\ CommitRows(w) /\ NextMessage(w)
      /\ UNCHANGED <<log, consumer, delivery, attempts>>
  BY DEF CommitAnswerLost, brokerVars
<1>2. faults' = faults + 1 /\ faults' \in 0..MaxFaults /\ faults' <= MaxFaults
  BY ConstantsAssumption DEF CommitAnswerLost, Fault, TypeOK
<1>3. /\ dedupe' \in SUBSET (Bars \X Kinds)
      /\ candles' \in [Bars -> Event \cup {NoCandle, OtherCandle}]
      /\ batch[w] # <<>>
      /\ \A v \in Workers \ {w} : InTransaction(v) => EventId(CurrentEvent(v)) \notin dedupe'
  BY <1>1, CommitRowsFacts
<1>4. /\ batch' \in [Workers -> Seq(Seqs)]
      /\ pc' \in [Workers -> WorkerStates]
      /\ \A v \in Workers \ {w} : pc'[v] = pc[v] /\ batch'[v] = batch[v]
      /\ pc'[w] \in {"fetch", "handle"}
      /\ pc'[w] = "handle" => batch'[w] # <<>>
      /\ \A i \in 1..Len(batch'[w]) : batch'[w][i] <= Len(log)
      /\ \A s \in Seqs : Held(s) /\ s # Current(w) => Held(s)'
  BY <1>1, <1>3, NextMessageFacts
<1>5. TypeOK'
  BY <1>1, <1>2, <1>3, <1>4 DEF TypeOK
<1>6. BatchesFromLog'
  BY <1>1, <1>4 DEF BatchesFromLog
<1>7. TransactionsExclusive'
  <2>1. /\ pc'[w] # "ack" /\ ~InTransaction(w)'
        /\ \A v \in Workers \ {w} :
             /\ InTransaction(v)' = InTransaction(v)
             /\ CurrentEvent(v)' = CurrentEvent(v)
             /\ Stored(Current(v))' <=> EventId(CurrentEvent(v)) \in dedupe'
             /\ Stored(Current(v)) <=> EventId(CurrentEvent(v)) \in dedupe
    BY <1>1, <1>4 DEF InTransaction, CurrentEvent, Current, Stored, EventId
  <2>2. \A v \in Workers \ {w} : pc[v] = "ack" => EventId(CurrentEvent(v)) \in dedupe'
    BY <2>1, <1>1 DEF TransactionsExclusive, CommitRows
  <2>3. \A v \in Workers \ {w} : InTransaction(v)' =>
          /\ IsValid(CurrentEvent(v))'
          /\ ~Stored(Current(v))'
    BY <2>1, <1>3, <1>4 DEF TransactionsExclusive, IsValid
  <2>4. \A v, u \in Workers \ {w} :
          v # u /\ InTransaction(v)' /\ InTransaction(u)' =>
            EventId(CurrentEvent(u))' # EventId(CurrentEvent(v))'
    <3> SUFFICES ASSUME NEW v \in Workers \ {w}, NEW u \in Workers \ {w}, v # u,
                        InTransaction(v)', InTransaction(u)'
                 PROVE  EventId(CurrentEvent(u))' # EventId(CurrentEvent(v))'
      OBVIOUS
    <3>1. EventId(CurrentEvent(u)) # EventId(CurrentEvent(v))
      BY <2>1 DEF TransactionsExclusive
    <3>2. CurrentEvent(u)' = CurrentEvent(u) /\ CurrentEvent(v)' = CurrentEvent(v)
      BY <2>1
    <3> QED BY <3>1, <3>2 DEF EventId
  <2>5. \A v \in Workers : pc'[v] = "ack" =>
          IsValid(CurrentEvent(v))' /\ Stored(Current(v))'
    BY <2>1, <2>2, <1>3, <1>4 DEF TransactionsExclusive, IsValid
  <2> QED BY <2>1, <2>3, <2>4, <2>5 DEF TransactionsExclusive
<1>8. \A v \in Workers : pc'[v] = "down" <=> pc[v] = "down"
  BY <1>1, <1>4
<1> QED BY <1>1, <1>2, <1>4, <1>5, <1>6, <1>7, <1>8, CommitRowsKeep DEF brokerVars

(* A crash forgets the whole batch; the one fault pays for every delivery
   in it.                                                                  *)
LEMMA CrashKeeps ==
  ASSUME IInv, NEW w \in Workers, Crash(w)
  PROVE  IInv'
<1> USE DEF IInv
<1>1. /\ pc[w] # "down"
      /\ pc' = [pc EXCEPT ![w] = "down"]
      /\ batch' = [batch EXCEPT ![w] = <<>>]
      /\ UNCHANGED <<log, consumer, delivery, attempts, dedupe, candles>>
      /\ faults' = faults + 1 /\ faults' \in 0..MaxFaults
  BY ConstantsAssumption DEF Crash, Fault, TypeOK, brokerVars, dbVars
<1>2. /\ pc'[w] = "down" /\ batch'[w] = <<>>
      /\ \A v \in Workers \ {w} : pc'[v] = pc[v] /\ batch'[v] = batch[v]
  BY <1>1 DEF TypeOK
<1>3. TypeOK'
  BY <1>1 DEF TypeOK, WorkerStates
<1>4. BatchesFromLog'
  BY <1>1, <1>2 DEF BatchesFromLog
<1>5. TransactionsExclusive'
  <2>1. /\ pc'[w] # "ack" /\ ~InTransaction(w)'
        /\ \A v \in Workers \ {w} : /\ InTransaction(v)' = InTransaction(v)
                                    /\ CurrentEvent(v)' = CurrentEvent(v)
                                    /\ Stored(Current(v))' = Stored(Current(v))
    BY <1>1, <1>2 DEF InTransaction, CurrentEvent, Current, Stored
  <2> QED BY <2>1, <1>2 DEF TransactionsExclusive, EventId, IsValid
<1>6. NothingBeforeConsumer'
  BY <1>1, <1>2 DEF NothingBeforeConsumer
<1>7. DeliveryCounted' /\ SettledIsDurable' /\ TablesAgree'
  BY <1>1 DEF DeliveryCounted, SettledIsDurable, TablesAgree, Stored
<1>8. DeliveriesPaidByFaults'
  <2>1. \A s \in 1..Len(log) : attempts[s] \in Nat /\ faults \in Nat
    BY LogRange DEF TypeOK
  <2>2. \A s \in 1..Len(log) : IsValid(log[s]) /\ ~Stored(s) => attempts[s] <= faults + 1
    BY <2>1 DEF DeliveriesPaidByFaults
  <2> QED BY <2>1, <2>2, <1>1 DEF DeliveriesPaidByFaults, Stored, IsValid, EventId
<1> QED BY <1>3, <1>4, <1>5, <1>6, <1>7, <1>8

(* ack_wait runs out: a fault if a worker still has the message.           *)
LEMMA AckWaitExpiresKeeps ==
  ASSUME IInv, NEW s \in Seqs, AckWaitExpires(s)
  PROVE  IInv'
<1> USE DEF IInv
<1>1. /\ delivery[s] = "pending"
      /\ UNCHANGED <<log, consumer, attempts, pc, batch, dedupe, candles>>
      /\ \A r \in Seqs : Held(r)' = Held(r)
  BY DEF AckWaitExpires, workerVars, dbVars, Held, Holds
<1>2. /\ faults \in Nat /\ faults' \in 0..MaxFaults
      /\ faults <= faults'
      /\ Held(s) => faults' = faults + 1
  BY ConstantsAssumption DEF AckWaitExpires, Fault, TypeOK
<1>3. /\ delivery' \in [Seqs -> DeliveryStates]
      /\ \A r \in Seqs \ {s} : delivery'[r] = delivery[r]
      /\ delivery'[s] \in {"redeliver", "exhausted"}
      /\ delivery'[s] = "redeliver" => attempts[s] < MaxDeliver
      /\ delivery'[s] = "exhausted" => attempts[s] = MaxDeliver
  BY ConstantsAssumption DEF AckWaitExpires, TypeOK, DeliveryStates
<1>4. TypeOK'
  BY <1>1, <1>2, <1>3 DEF TypeOK
<1>5. BatchesFromLog' /\ TransactionsExclusive'
  BY <1>1 DEF BatchesFromLog, TransactionsExclusive, InTransaction, Stored, Current,
              CurrentEvent, EventId, IsValid
<1>6. NothingBeforeConsumer'
  BY <1>1 DEF NothingBeforeConsumer
<1>7. DeliveryCounted'
  BY <1>1, <1>3 DEF DeliveryCounted
<1>8. SettledIsDurable' /\ TablesAgree'
  BY <1>1, <1>3, LogRange DEF SettledIsDurable, TablesAgree, Stored
<1>9. DeliveriesPaidByFaults'
  <2> SUFFICES ASSUME NEW r \in 1..Len(log), IsValid(log[r]), ~Stored(r)
               PROVE  attempts[r] <= faults' + (IF delivery'[r] = "pending" /\ Held(r)
                                                  THEN 1 ELSE 0)
    BY <1>1, LogRange DEF DeliveriesPaidByFaults, Stored, IsValid, EventId
  <2>1. attempts[r] \in Nat /\ r \in Seqs
    BY LogRange DEF TypeOK
  <2>2. attempts[r] <= faults + (IF delivery[r] = "pending" /\ Held(r) THEN 1 ELSE 0)
    BY DEF DeliveriesPaidByFaults
  <2> QED BY <2>1, <2>2, <1>1, <1>2, <1>3
<1> QED BY <1>4, <1>5, <1>6, <1>7, <1>8, <1>9

(* Another writer's row says nothing of this path's, and takes none away.  *)
LEMMA OtherWritesKeeps ==
  ASSUME IInv, NEW b \in Bars, OtherWrites(b)
  PROVE  IInv'
<1> USE DEF IInv
<1>1. /\ UNCHANGED <<log, consumer, delivery, attempts, pc, batch, dedupe, faults>>
      /\ candles' = [candles EXCEPT ![b] = OtherCandle]
  BY DEF OtherWrites, brokerVars, workerVars
<1>2. TypeOK'
  BY <1>1 DEF TypeOK
<1>3. BatchesFromLog' /\ TransactionsExclusive'
  BY <1>1 DEF BatchesFromLog, TransactionsExclusive, InTransaction, Stored, EventId, IsValid,
              CurrentEvent, Current
<1>4. NothingBeforeConsumer' /\ DeliveryCounted'
  BY <1>1 DEF NothingBeforeConsumer, DeliveryCounted
<1>5. SettledIsDurable' /\ DeliveriesPaidByFaults'
  BY <1>1 DEF SettledIsDurable, DeliveriesPaidByFaults, Stored, EventId, IsValid, Held, Holds
<1>6. TablesAgree'
  <2> SUFFICES ASSUME NEW d \in Bars
               PROVE  /\ candles'[d] = NoCandle => \A k \in Kinds : <<d, k>> \notin dedupe'
                      /\ candles'[d] \notin {NoCandle, OtherCandle} =>
                           /\ candles'[d].bar = d
                           /\ EventId(candles'[d]) \in dedupe'
                           /\ \E s \in 1..Len(log) : log[s] = candles'[d]
    BY <1>1 DEF TablesAgree, EventId
  <2>1. candles'[d] = IF d = b THEN OtherCandle ELSE candles[d]
    BY <1>1 DEF TypeOK
  <2> QED BY <1>1, <2>1, ConstantsAssumption DEF TablesAgree, EventId
<1> QED BY <1>2, <1>3, <1>4, <1>5, <1>6

(* Every step keeps the invariant.                                         *)
LEMMA NextIInv == IInv /\ [Next]_vars => IInv'
<1> SUFFICES ASSUME IInv, [Next]_vars PROVE IInv'
  OBVIOUS
<1>1. CASE \E m \in Message : Publish(m)
  BY <1>1, PublishKeeps
<1>2. ASSUME NEW w \in Workers, WorkerStep(w)
      PROVE  IInv'
  BY <1>2, CreateConsumerKeeps, AttachConsumerKeeps, DeliverKeeps, FetchReturnsKeeps,
     RejectInvalidKeeps, InsertDedupeKeeps, UpsertCandleKeeps, CommitKeeps, AckKeeps
  DEF WorkerStep
<1>3. ASSUME NEW w \in Workers, FaultStep(w)
      PROVE  IInv'
  BY <1>3, WriteFailsKeeps, CommitAnswerLostKeeps, CrashKeeps DEF FaultStep
<1>4. CASE \E s \in Seqs : AckWaitExpires(s)
  BY <1>4, AckWaitExpiresKeeps
<1>5. CASE UNCHANGED vars
  <2>1. TypeOK' /\ BatchesFromLog' /\ TransactionsExclusive' /\ NothingBeforeConsumer'
    BY <1>5 DEF vars, IInv, TypeOK, BatchesFromLog, TransactionsExclusive, InTransaction,
       NothingBeforeConsumer, Stored, Current, CurrentEvent, EventId, IsValid
  <2>2. DeliveryCounted' /\ SettledIsDurable' /\ DeliveriesPaidByFaults'
    BY <1>5 DEF vars, IInv, DeliveryCounted, SettledIsDurable, DeliveriesPaidByFaults,
       Stored, Held, Holds, EventId, IsValid
  <2>3. TablesAgree'
    BY <1>5 DEF vars, IInv, TablesAgree, EventId
  <2> QED BY <2>1, <2>2, <2>3 DEF IInv
<1>6. CASE \E b \in Bars : OtherWrites(b)
  BY <1>6, OtherWritesKeeps
<1> QED BY <1>1, <1>2, <1>3, <1>4, <1>5, <1>6 DEF Next

-----------------------------------------------------------------------------
(***************************************************************************)
(* What follows for every behaviour.                                       *)
(***************************************************************************)

(* The inductive invariant holds in every reachable state.                 *)
THEOREM Invariance == Spec => []IInv
BY InitIInv, NextIInv, PTL DEF Spec

(* Every variable keeps its type; no message is delivered more than
   max_deliver times.                                                      *)
THEOREM TypeCorrect == Spec => []TypeOK
<1>1. IInv => TypeOK
  BY DEF IInv
<1> QED BY <1>1, Invariance, PTL

(* _handle_msg acks after the commit: an acked event is in MySQL, whatever
   crashes, redeliveries and lost answers came before.                     *)
THEOREM SettledIsDurableHolds == Spec => []SettledIsDurable
<1>1. IInv => SettledIsDurable
  BY DEF IInv
<1> QED BY <1>1, Invariance, PTL

(* write_event's transaction: whatever the other writers of candles put
   over them, the rows of this path never disagree with its dedupe rows.   *)
THEOREM TablesAgreeHolds == Spec => []TablesAgree
<1>1. IInv => TablesAgree
  BY DEF IInv
<1> QED BY <1>1, Invariance, PTL

(* JetStream gives up on an event that is not in MySQL only after at least
   max_deliver faults.                                                     *)
THEOREM GivenUpOnlyAfterFaultsHolds == Spec => []GivenUpOnlyAfterFaults
<1>1. IInv => GivenUpOnlyAfterFaults
  <2> SUFFICES ASSUME IInv, NEW s \in 1..Len(log), delivery[s] = "exhausted",
                      IsValid(log[s]), ~Stored(s)
               PROVE  faults >= MaxDeliver
    BY DEF GivenUpOnlyAfterFaults
  <2>1. attempts[s] = MaxDeliver
    BY LogRange DEF IInv, DeliveryCounted
  <2>2. attempts[s] <= faults
    <3>1. attempts[s] <= faults + (IF delivery[s] = "pending" /\ Held(s) THEN 1 ELSE 0)
      BY DEF IInv, DeliveriesPaidByFaults
    <3>2. faults \in Nat
      BY DEF IInv, TypeOK
    <3> QED BY <3>1, <3>2
  <2> QED BY <2>1, <2>2, ConstantsAssumption DEF IInv, TypeOK
<1> QED BY <1>1, Invariance, PTL

(* The consumer, its workers and its faults implement the exactly-once
   store: Publish offers, a commit applies, another writer's row is one
   there too, and nothing else shows.                                      *)
THEOREM ImplementsExactlyOnce == Spec => ExactlyOnce
<1> DEFINE handed == {log[s] : s \in {i \in 1..Len(log) : IsValid(log[i])}}
<1>1. Init => Abstract!Init
  BY DEF Init, Abstract!Init
<1>2. IInv /\ [Next]_vars => [Abstract!Next]_Abstract!vars
  <2> SUFFICES ASSUME IInv, [Next]_vars
               PROVE  [Abstract!Next]_Abstract!vars
    OBVIOUS
  <2>1. ASSUME NEW m \in Message, Publish(m)
        PROVE  [Abstract!Next]_Abstract!vars
    <3>1. /\ log \in Seq(Message)
          /\ Len(log') = Len(log) + 1
          /\ \A s \in 1..Len(log) : log'[s] = log[s]
          /\ log'[Len(log) + 1] = m
      BY <2>1, AppendFacts DEF Publish, IInv, TypeOK
    <3>2. \A s : s \in 1..Len(log') <=> s \in 1..Len(log) \/ s = Len(log) + 1
      BY <3>1
    <3>3. handed' = IF IsValid(m) THEN handed \cup {m} ELSE handed
      BY <3>1, <3>2 DEF IsValid
    <3>4. UNCHANGED <<dedupe, candles>>
      BY <2>1 DEF Publish, dbVars
    <3>5. CASE IsValid(m)
      <4>1. m \in Event
        BY <3>5 DEF Message, Event, IsValid, Kinds
      <4>2. Abstract!Offer(m)
        BY <3>3, <3>4, <3>5 DEF Abstract!Offer
      <4> QED BY <4>1, <4>2 DEF Abstract!Next
    <3>6. CASE ~IsValid(m)
      BY <3>3, <3>4, <3>6 DEF Abstract!vars
    <3> QED BY <3>5, <3>6
  <2>2. ASSUME NEW w \in Workers, pc[w] = "commit", CommitRows(w), UNCHANGED log
        PROVE  [Abstract!Next]_Abstract!vars
    <3>1. batch[w] # <<>> /\ IsValid(CurrentEvent(w)) /\ ~Stored(Current(w))
      BY <2>2 DEF IInv, BatchesFromLog, TransactionsExclusive, InTransaction
    <3>2. /\ CurrentEvent(w) \in Event
          /\ CurrentEvent(w) \in handed
          /\ EventId(CurrentEvent(w)) \notin dedupe
      BY <3>1, CurrentInLog DEF IInv, CurrentEvent, Stored
    <3>3. handed' = handed
      BY <2>2
    <3>4. Abstract!Apply(CurrentEvent(w))
      BY <2>2, <3>2, <3>3 DEF CommitRows, Abstract!Apply
    <3> QED BY <3>2, <3>4 DEF Abstract!Next
  <2>3. ASSUME UNCHANGED <<log, dedupe, candles>>
        PROVE  [Abstract!Next]_Abstract!vars
    BY <2>3 DEF Abstract!vars
  <2>4. ASSUME NEW w \in Workers, WorkerStep(w)
        PROVE  \/ UNCHANGED <<log, dedupe, candles>>
               \/ pc[w] = "commit" /\ CommitRows(w) /\ UNCHANGED log
    BY <2>4 DEF WorkerStep, CreateConsumer, AttachConsumer, Deliver, FetchReturns,
       RejectInvalid, InsertDedupe, UpsertCandle, Commit, Ack, dbVars, brokerVars
  <2>5. ASSUME NEW w \in Workers, FaultStep(w)
        PROVE  \/ UNCHANGED <<log, dedupe, candles>>
               \/ pc[w] = "commit" /\ CommitRows(w) /\ UNCHANGED log
    BY <2>5 DEF FaultStep, WriteFails, CommitAnswerLost, AckLost, Crash, dbVars, brokerVars
  <2>6. ASSUME NEW s \in Seqs, AckWaitExpires(s)
        PROVE  UNCHANGED <<log, dedupe, candles>>
    BY <2>6 DEF AckWaitExpires, dbVars
  <2>7. CASE UNCHANGED vars
    BY <2>3, <2>7 DEF vars
  <2>8. ASSUME NEW b \in Bars, OtherWrites(b)
        PROVE  [Abstract!Next]_Abstract!vars
    <3>1. Abstract!Overwrite(b)
      BY <2>8 DEF OtherWrites, brokerVars, workerVars, Abstract!Overwrite
    <3> QED BY <3>1 DEF Abstract!Next
  <2> QED BY <2>1, <2>2, <2>3, <2>4, <2>5, <2>6, <2>7, <2>8 DEF Next
<1> QED BY <1>1, <1>2, Invariance, PTL DEF Spec, ExactlyOnce, Abstract!Spec
=============================================================================
