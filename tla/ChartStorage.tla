---------------------------- MODULE ChartStorage ----------------------------
(***************************************************************************)
(* The durable half of the chart path: the JetStream stream CHART_CRITICAL,*)
(* the durable pull consumer "chart-storage-final-reconcile", the worker   *)
(* processes that read it (backend/app/api/services/                       *)
(* chart_nats_final_durable.py: the chart-storage container and, when it   *)
(* is switched on, the task embedded in the API process) and the two MySQL *)
(* tables they write in one transaction, chart_event_dedupe and candles.   *)
(*                                                                         *)
(* Several workers may share the consumer, crash at any step and be        *)
(* restarted; MySQL may fail any statement, or commit and lose the answer; *)
(* an ack may be lost; ack_wait may run out while a worker still holds the *)
(* message, which is then delivered a second time.                         *)
(*                                                                         *)
(* They are not the only writers of candles: the trading bot upserts the   *)
(* same rows from its own stream and from REST (backend/core/persistence/  *)
(* candles_repo.py), and so does the backfill tool.  Neither looks at the  *)
(* dedupe table.  OtherWrites is any such write, at any time.              *)
(*                                                                         *)
(* Time is not modelled.  A nak with delay leaves the message pending with *)
(* a shorter timer, so a nak and a lost ack both end in AckWaitExpires.    *)
(***************************************************************************)
EXTENDS Integers, Sequences, FiniteSets

CONSTANTS
  Bars,           \* candle keys (exchange:symbol:tf:bar_time)
  Values,         \* OHLCV payloads, told apart and nothing more
  Workers,        \* worker processes
  Filter,         \* [Workers -> SUBSET Bars]: subjects each is configured for
  DeliverAll,     \* deliver_policy: TRUE for "all", FALSE for "new"
  TermInvalid,    \* term_invalid_messages
  FetchBatch,     \* fetch_batch
  MaxDeliver,     \* max_deliver
  MaxAckPending,  \* max_ack_pending
  MaxLog,         \* bound: messages ever stored in the stream
  MaxFaults,      \* bound: infrastructure faults
  NoCandle,       \* an absent candles row
  OtherCandle,    \* a candles row with the source of another writer
  NoConsumer      \* the durable consumer does not exist

ASSUME ConstantsAssumption ==
  /\ Filter \in [Workers -> SUBSET Bars]
  /\ DeliverAll \in BOOLEAN
  /\ TermInvalid \in BOOLEAN
  /\ FetchBatch \in Nat \ {0}
  /\ MaxDeliver \in Nat \ {0}
  /\ MaxAckPending \in Nat \ {0}
  /\ MaxLog \in Nat
  /\ MaxFaults \in Nat
  /\ {NoCandle, OtherCandle} \cap [bar : Bars, kind : {"final", "reconcile"}, val : Values] = {}
  /\ NoCandle # OtherCandle
  /\ \A F \in SUBSET Bars : F # NoConsumer

VARIABLES
  log,        \* the stream: messages in the order JetStream stored them
  consumer,   \* the durable consumer's filter, or NoConsumer
  delivery,   \* what the consumer knows of each stream sequence
  attempts,   \* times each stream sequence was delivered
  pc,         \* where each worker is
  batch,      \* the messages the worker fetched and has not finished
  dedupe,     \* committed chart_event_dedupe rows
  candles,    \* committed candles rows
  faults      \* history: infrastructure faults so far

brokerVars == <<log, consumer, delivery, attempts>>
workerVars == <<pc, batch>>
dbVars     == <<dedupe, candles>>
vars       == <<log, consumer, delivery, attempts, pc, batch, dedupe, candles, faults>>

-----------------------------------------------------------------------------
(***************************************************************************)
(* Messages.  A message that fails validation is of kind "invalid".        *)
(***************************************************************************)
Kinds  == {"final", "reconcile"}
Event  == [bar : Bars, kind : Kinds, val : Values]
Message == Event \cup [bar : Bars, kind : {"invalid"}, val : Values]
Seqs   == 1..MaxLog

IsValid(m) == m.kind \in Kinds

EventId(m) == <<m.bar, m.kind>>

Current(w) == Head(batch[w])

CurrentEvent(w) == log[Current(w)]

Holds(w, s) == \E i \in 1..Len(batch[w]) : batch[w][i] = s

Held(s) == \E w \in Workers : Holds(w, s)

Outstanding == {s \in Seqs : delivery[s] \in {"pending", "redeliver"}}

Fault ==
  /\ faults < MaxFaults
  /\ faults' = faults + 1

-----------------------------------------------------------------------------
Init ==
  /\ log = <<>>
  /\ consumer = NoConsumer
  /\ delivery = [s \in Seqs |-> "waiting"]
  /\ attempts = [s \in Seqs |-> 0]
  /\ pc = [w \in Workers |-> "down"]
  /\ batch = [w \in Workers |-> <<>>]
  /\ dedupe = {}
  /\ candles = [b \in Bars |-> NoCandle]
  /\ faults = 0

(***************************************************************************)
(* JetStream stores a message.  One that the consumer's filter does not    *)
(* match is never offered to it.                                           *)
(***************************************************************************)
Publish(m) ==
  /\ Len(log) < MaxLog
  /\ log' = Append(log, m)
  /\ delivery' = IF consumer # NoConsumer /\ m.bar \notin consumer
                   THEN [delivery EXCEPT ![Len(log) + 1] = "skipped"]
                   ELSE delivery
  /\ UNCHANGED <<consumer, attempts, workerVars, dbVars, faults>>

(***************************************************************************)
(* setup(): the first worker creates the durable consumer; with policy     *)
(* "new" what is in the stream already is never delivered.                 *)
(***************************************************************************)
CreateConsumer(w) ==
  /\ pc[w] = "down"
  /\ consumer = NoConsumer
  /\ consumer' = Filter[w]
  /\ delivery' = [s \in Seqs |->
                    IF s <= Len(log) /\ (~DeliverAll \/ log[s].bar \notin Filter[w])
                      THEN "skipped" ELSE delivery[s]]
  /\ pc' = [pc EXCEPT ![w] = "fetch"]
  /\ UNCHANGED <<log, attempts, batch, dbVars, faults>>

(***************************************************************************)
(* setup() on an existing consumer: a worker configured for another filter *)
(* raises DurableConsumerConfigMismatchError and stays down.               *)
(***************************************************************************)
AttachConsumer(w) ==
  /\ pc[w] = "down"
  /\ consumer # NoConsumer
  /\ Filter[w] = consumer
  /\ pc' = [pc EXCEPT ![w] = "fetch"]
  /\ UNCHANGED <<brokerVars, batch, dbVars, faults>>

-----------------------------------------------------------------------------
(***************************************************************************)
(* consume_once(): JetStream fills the pull request one message at a time, *)
(* redeliveries before new messages, new ones in stream order and within   *)
(* max_ack_pending; fetch() then returns what arrived.                     *)
(***************************************************************************)
Deliver(w, s) ==
  /\ pc[w] = "fetch"
  /\ Len(batch[w]) < FetchBatch
  /\ \/ delivery[s] = "redeliver"
     \/ /\ delivery[s] = "waiting"
        /\ s <= Len(log)
        /\ \A r \in Seqs : delivery[r] # "redeliver"
        /\ \A r \in 1..(s - 1) : delivery[r] # "waiting"
        /\ Cardinality(Outstanding) < MaxAckPending
  /\ delivery' = [delivery EXCEPT ![s] = "pending"]
  /\ attempts' = [attempts EXCEPT ![s] = @ + 1]
  /\ batch' = [batch EXCEPT ![w] = Append(@, s)]
  /\ UNCHANGED <<log, consumer, pc, dbVars, faults>>

FetchReturns(w) ==
  /\ pc[w] = "fetch"
  /\ batch[w] # <<>>
  /\ pc' = [pc EXCEPT ![w] = "handle"]
  /\ UNCHANGED <<brokerVars, batch, dbVars, faults>>

\* Mutant: an early return abandons the rest of the fetched batch.
ForgetRestOfBatch(w) ==
  /\ batch' = [batch EXCEPT ![w] = <<>>]
  /\ pc' = [pc EXCEPT ![w] = "fetch"]

(***************************************************************************)
(* The worker is done with its current message, one way or another.        *)
(***************************************************************************)
NextMessage(w) ==
  /\ batch' = [batch EXCEPT ![w] = Tail(@)]
  /\ pc' = [pc EXCEPT ![w] = IF Tail(batch[w]) = <<>> THEN "fetch" ELSE "handle"]

\* Mutant: the validation error leaves the handler and the message stays.
PoisonMessage(w) ==
  /\ pc[w] = "handle"
  /\ ~IsValid(CurrentEvent(w))
  /\ UNCHANGED vars

(***************************************************************************)
(* _handle_invalid_message(): term, or nak when term_invalid_messages is   *)
(* off.  A term for a message that is no longer pending changes nothing.   *)
(***************************************************************************)
RejectInvalid(w) ==
  /\ pc[w] = "handle"
  /\ ~IsValid(CurrentEvent(w))
  /\ delivery' = IF TermInvalid /\ Current(w) \in Outstanding
                   THEN [delivery EXCEPT ![Current(w)] = "termed"]
                   ELSE delivery
  /\ NextMessage(w)
  /\ UNCHANGED <<log, consumer, attempts, dbVars, faults>>

(***************************************************************************)
(* write_event(): INSERT chart_event_dedupe.  InnoDB makes the insert wait *)
(* while another open transaction holds the same primary key.              *)
(***************************************************************************)
InTransaction(w) == pc[w] \in {"upsert", "commit"}

DedupeRowFree(w) ==
  \A v \in Workers \ {w} :
    InTransaction(v) => EventId(CurrentEvent(v)) # EventId(CurrentEvent(w))

\* Mutant: the ack is sent before the MySQL write.
AckBeforeWrite(w) ==
  /\ pc[w] = "handle"
  /\ IsValid(CurrentEvent(w))
  /\ pc' = [pc EXCEPT ![w] = "ack"]
  /\ UNCHANGED <<brokerVars, batch, dbVars, faults>>

\* Mutant: error 1062 is ignored and the candle is written again.
NoDuplicateCheck(w) ==
  /\ pc[w] = "handle"
  /\ IsValid(CurrentEvent(w))
  /\ pc' = [pc EXCEPT ![w] = "upsert"]
  /\ UNCHANGED <<brokerVars, batch, dbVars, faults>>

InsertDedupe(w) ==
  /\ pc[w] = "handle"
  /\ IsValid(CurrentEvent(w))
  /\ DedupeRowFree(w)
  /\ pc' = [pc EXCEPT ![w] = IF EventId(CurrentEvent(w)) \in dedupe
                               THEN "ack"       \* error 1062: a duplicate
                               ELSE "upsert"]
  /\ UNCHANGED <<brokerVars, batch, dbVars, faults>>

(***************************************************************************)
(* write_event(): INSERT candles ... ON DUPLICATE KEY UPDATE, which waits  *)
(* for another open transaction that has written the same bar.             *)
(***************************************************************************)
UpsertCandle(w) ==
  /\ pc[w] = "upsert"
  /\ \A v \in Workers \ {w} :
       pc[v] = "commit" => CurrentEvent(v).bar # CurrentEvent(w).bar
  /\ pc' = [pc EXCEPT ![w] = "commit"]
  /\ UNCHANGED <<brokerVars, batch, dbVars, faults>>

(***************************************************************************)
(* cx.commit(): both rows become visible together.                         *)
(***************************************************************************)
CommitRows(w) ==
  /\ dedupe' = dedupe \cup {EventId(CurrentEvent(w))}
  /\ candles' = [candles EXCEPT ![CurrentEvent(w).bar] = CurrentEvent(w)]

Commit(w) ==
  /\ pc[w] = "commit"
  /\ CommitRows(w)
  /\ pc' = [pc EXCEPT ![w] = "ack"]
  /\ UNCHANGED <<brokerVars, batch, faults>>

(***************************************************************************)
(* msg.ack(): an ack that comes after ack_wait still settles the message   *)
(* unless JetStream has given it up.                                       *)
(***************************************************************************)
Ack(w) ==
  /\ pc[w] = "ack"
  /\ delivery' = IF Current(w) \in Outstanding
                   THEN [delivery EXCEPT ![Current(w)] = "acked"]
                   ELSE delivery
  /\ NextMessage(w)
  /\ UNCHANGED <<log, consumer, attempts, dbVars, faults>>

-----------------------------------------------------------------------------
(***************************************************************************)
(* The bot or the backfill tool upserts the bar's row: one statement, in   *)
(* autocommit mode, that waits for a transaction which has written it.     *)
(***************************************************************************)
OtherWrites(b) ==
  /\ \A w \in Workers : pc[w] = "commit" => CurrentEvent(w).bar # b
  /\ candles' = [candles EXCEPT ![b] = OtherCandle]
  /\ UNCHANGED <<brokerVars, workerVars, dedupe, faults>>

-----------------------------------------------------------------------------
(***************************************************************************)
(* Faults.                                                                 *)
(***************************************************************************)

\* Mutant: the connection is in autocommit mode, so the dedupe row survives.
AutocommitWriteFails(w) ==
  /\ Fault
  /\ InTransaction(w)
  /\ dedupe' = dedupe \cup {EventId(CurrentEvent(w))}
  /\ NextMessage(w)
  /\ UNCHANGED <<brokerVars, candles>>

(* write_event() raises before the commit took effect: rollback and nak.   *)
WriteFails(w) ==
  /\ Fault
  /\ \/ pc[w] = "handle" /\ IsValid(CurrentEvent(w))
     \/ InTransaction(w)
  /\ NextMessage(w)
  /\ UNCHANGED <<brokerVars, dbVars>>

(* The commit took effect but its answer was lost: the worker naks.        *)
CommitAnswerLost(w) ==
  /\ Fault
  /\ pc[w] = "commit"
  /\ CommitRows(w)
  /\ NextMessage(w)
  /\ UNCHANGED brokerVars

(* The ack fails (then nak, also lost) or never reaches JetStream.         *)
AckLost(w) ==
  /\ Fault
  /\ pc[w] = "ack"
  /\ NextMessage(w)
  /\ UNCHANGED <<brokerVars, dbVars>>

(***************************************************************************)
(* The process dies, or run_forever() leaves on an error of fetch(): what  *)
(* it had fetched is forgotten and an open transaction rolls back.         *)
(***************************************************************************)
Crash(w) ==
  /\ Fault
  /\ pc[w] # "down"
  /\ pc' = [pc EXCEPT ![w] = "down"]
  /\ batch' = [batch EXCEPT ![w] = <<>>]
  /\ UNCHANGED <<brokerVars, dbVars>>

\* Mutant: max_deliver is compared off by one.
RedeliverPastMax(s) ==
  /\ delivery[s] = "pending"
  /\ IF Held(s) THEN Fault ELSE UNCHANGED faults
  /\ delivery' = [delivery EXCEPT ![s] =
                    IF attempts[s] <= MaxDeliver THEN "redeliver" ELSE "exhausted"]
  /\ UNCHANGED <<log, consumer, attempts, workerVars, dbVars>>

(***************************************************************************)
(* ack_wait (or the nak delay) runs out.  It is a fault only while a       *)
(* worker is still busy with the message.                                  *)
(***************************************************************************)
AckWaitExpires(s) ==
  /\ delivery[s] = "pending"
  /\ IF Held(s) THEN Fault ELSE UNCHANGED faults
  /\ delivery' = [delivery EXCEPT ![s] =
                    IF attempts[s] < MaxDeliver THEN "redeliver" ELSE "exhausted"]
  /\ UNCHANGED <<log, consumer, attempts, workerVars, dbVars>>

-----------------------------------------------------------------------------
WorkerStep(w) ==
  \/ CreateConsumer(w)
  \/ AttachConsumer(w)
  \/ \E s \in Seqs : Deliver(w, s)
  \/ FetchReturns(w)
  \/ RejectInvalid(w)
  \/ InsertDedupe(w)
  \/ UpsertCandle(w)
  \/ Commit(w)
  \/ Ack(w)

FaultStep(w) ==
  \/ WriteFails(w)
  \/ CommitAnswerLost(w)
  \/ AckLost(w)
  \/ Crash(w)

Next ==
  \/ \E m \in Message : Publish(m)
  \/ \E w \in Workers : WorkerStep(w) \/ FaultStep(w)
  \/ \E s \in Seqs : AckWaitExpires(s)
  \/ \E b \in Bars : OtherWrites(b)

Spec == Init /\ [][Next]_vars

(***************************************************************************)
(* Docker restarts the worker (restart: unless-stopped), a running event   *)
(* loop and MySQL make progress, and JetStream's timers fire.              *)
(***************************************************************************)
Fairness ==
  /\ \A w \in Workers : WF_vars(WorkerStep(w))
  /\ \A s \in Seqs : WF_vars(AckWaitExpires(s) /\ ~Held(s))

LiveSpec == Spec /\ Fairness

-----------------------------------------------------------------------------
(***************************************************************************)
(* Properties.                                                             *)
(***************************************************************************)

DeliveryStates ==
  {"waiting", "pending", "redeliver", "acked", "termed", "exhausted", "skipped"}

WorkerStates == {"down", "fetch", "handle", "upsert", "commit", "ack"}

TypeOK ==
  /\ log \in Seq(Message)
  /\ Len(log) <= MaxLog
  /\ consumer \in {NoConsumer} \cup SUBSET Bars
  /\ delivery \in [Seqs -> DeliveryStates]
  /\ attempts \in [Seqs -> 0..MaxDeliver]
  /\ pc \in [Workers -> WorkerStates]
  /\ batch \in [Workers -> Seq(Seqs)]
  /\ dedupe \in SUBSET (Bars \X Kinds)
  /\ candles \in [Bars -> Event \cup {NoCandle, OtherCandle}]
  /\ faults \in 0..MaxFaults

Stored(s) == EventId(log[s]) \in dedupe

(***************************************************************************)
(* A message leaves the consumer only once its work is durable: an acked   *)
(* message has its dedupe row committed, and only a message that cannot be *)
(* parsed is terminated.                                                   *)
(***************************************************************************)
SettledIsDurable ==
  \A s \in 1..Len(log) :
    /\ delivery[s] = "acked" => IsValid(log[s]) /\ Stored(s)
    /\ delivery[s] = "termed" => ~IsValid(log[s])

(***************************************************************************)
(* The two tables agree on what this path wrote: a bar with a dedupe row   *)
(* has a candle, its own or one another writer put over it; and a candle   *)
(* that bears this path's source is an event of the stream, of that bar,   *)
(* whose dedupe row is there too.  No crash between the two statements     *)
(* shows.                                                                  *)
(***************************************************************************)
TablesAgree ==
  \A b \in Bars :
    /\ candles[b] = NoCandle => \A k \in Kinds : <<b, k>> \notin dedupe
    /\ candles[b] \notin {NoCandle, OtherCandle} =>
         /\ candles[b].bar = b
         /\ EventId(candles[b]) \in dedupe
         /\ \E s \in 1..Len(log) : log[s] = candles[b]

(***************************************************************************)
(* JetStream gives up on a valid event that was not stored only after      *)
(* max_deliver faults: no path through the worker burns a delivery unless  *)
(* something outside it failed.                                            *)
(***************************************************************************)
GivenUpOnlyAfterFaults ==
  \A s \in 1..Len(log) :
    delivery[s] = "exhausted" /\ IsValid(log[s]) /\ ~Stored(s) => faults >= MaxDeliver

(***************************************************************************)
(* What holds besides, and makes the properties above inductive.           *)
(***************************************************************************)

(* A busy worker holds a message, and only messages of the stream.         *)
BatchesFromLog ==
  \A w \in Workers :
    /\ pc[w] = "down" => batch[w] = <<>>
    /\ pc[w] \notin {"down", "fetch"} => batch[w] # <<>>
    /\ \A i \in 1..Len(batch[w]) : batch[w][i] <= Len(log)

(* An open transaction is about a valid event nobody has stored and nobody
   else is storing; an ack is about one that is stored.                    *)
TransactionsExclusive ==
  \A w \in Workers :
    /\ InTransaction(w) =>
         /\ IsValid(CurrentEvent(w))
         /\ ~Stored(Current(w))
         /\ \A v \in Workers \ {w} :
              InTransaction(v) => EventId(CurrentEvent(v)) # EventId(CurrentEvent(w))
    /\ pc[w] = "ack" => IsValid(CurrentEvent(w)) /\ Stored(Current(w))

(* Nothing is delivered, and no worker runs, before the consumer exists.   *)
NothingBeforeConsumer ==
  consumer = NoConsumer =>
    /\ \A w \in Workers : pc[w] = "down"
    /\ \A s \in Seqs : delivery[s] = "waiting"

(* The consumer's counters fit its states.                                 *)
DeliveryCounted ==
  \A s \in Seqs :
    /\ delivery[s] = "waiting" => attempts[s] = 0
    /\ delivery[s] = "redeliver" => attempts[s] < MaxDeliver
    /\ delivery[s] = "exhausted" => attempts[s] = MaxDeliver
    /\ s > Len(log) => delivery[s] = "waiting"

(* Every delivery of an unstored event but the running one cost a fault.   *)
DeliveriesPaidByFaults ==
  \A s \in 1..Len(log) :
    IsValid(log[s]) /\ ~Stored(s) =>
      attempts[s] <= faults + (IF delivery[s] = "pending" /\ Held(s) THEN 1 ELSE 0)

IInv ==
  /\ TypeOK
  /\ BatchesFromLog
  /\ TransactionsExclusive
  /\ NothingBeforeConsumer
  /\ DeliveryCounted
  /\ SettledIsDurable
  /\ TablesAgree
  /\ DeliveriesPaidByFaults

(***************************************************************************)
(* Every valid event the consumer was offered reaches MySQL, as long as    *)
(* there are fewer faults than deliveries.                                 *)
(***************************************************************************)
Offered(s) ==
  /\ s <= Len(log)
  /\ consumer # NoConsumer
  /\ delivery[s] # "skipped"

EventuallyStored ==
  \A s \in Seqs :
    (Offered(s) /\ IsValid(log[s])) ~> ((s <= Len(log) /\ Stored(s)) \/ faults >= MaxDeliver)

(***************************************************************************)
(* The durable path implements the exactly-once store: each event is       *)
(* applied once, and between two of them only others write the row.        *)
(***************************************************************************)
Abstract ==
  INSTANCE ExactlyOnceStore
    WITH Events <- Event, Id <- EventId,
         offered <- {log[s] : s \in {i \in 1..Len(log) : IsValid(log[i])}},
         applied <- dedupe, rows <- candles

ExactlyOnce == Abstract!Spec
=============================================================================
