------------------------- MODULE ExactlyOnceStore -------------------------
(***************************************************************************)
(* What the durable chart path promises to a reader of the MySQL tables:   *)
(* every event handed to the CHART_CRITICAL stream is applied to `candles` *)
(* at most once, the candle row and the dedupe row of an event appear in   *)
(* one step, and a row that bears this path's source never holds anything  *)
(* that was not handed over.  The rows are shared: other writers overwrite *)
(* them when they like.                                                    *)
(*                                                                         *)
(* This is the abstract specification; ChartStorage, the JetStream         *)
(* consumer with its crashes and redeliveries, implements it.              *)
(***************************************************************************)

CONSTANTS
  Bars,       \* candle keys (exchange:symbol:tf:bar_time)
  Events,     \* valid final/reconcile events, records with a field "bar"
  Id(_),      \* event_id of an event, the primary key of chart_event_dedupe
  NoCandle,   \* an absent `candles` row
  OtherCandle \* a row with the source of another writer

VARIABLES
  offered,    \* events that reached the stream
  applied,    \* rows of chart_event_dedupe
  rows        \* rows of candles, by bar

vars == <<offered, applied, rows>>

Init ==
  /\ offered = {}
  /\ applied = {}
  /\ rows = [b \in Bars |-> NoCandle]

(***************************************************************************)
(* The producer side hands an event over.                                  *)
(***************************************************************************)
Offer(e) ==
  /\ offered' = offered \cup {e}
  /\ UNCHANGED <<applied, rows>>

(***************************************************************************)
(* An event whose id was never applied overwrites its bar's row.           *)
(***************************************************************************)
Apply(e) ==
  /\ e \in offered
  /\ Id(e) \notin applied
  /\ applied' = applied \cup {Id(e)}
  /\ rows' = [rows EXCEPT ![e.bar] = e]
  /\ UNCHANGED offered

(***************************************************************************)
(* Another writer of the table overwrites a row, or inserts it.            *)
(***************************************************************************)
Overwrite(b) ==
  /\ rows' = [rows EXCEPT ![b] = OtherCandle]
  /\ UNCHANGED <<offered, applied>>

Next ==
  \/ \E e \in Events : Offer(e) \/ Apply(e)
  \/ \E b \in Bars : Overwrite(b)

Spec == Init /\ [][Next]_vars
=============================================================================
