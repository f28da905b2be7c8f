--------------------------- MODULE ExecutionStore ---------------------------
(***************************************************************************)
(* The bot's record of its positions on one symbol and side: the           *)
(* execution_data_store in memory, its JSON file, the rows of positions    *)
(* and fills in MySQL and the zone_state switch, all written by the        *)
(* handlers of Bybit's private stream (backend/core/ws/handlers/           *)
(* execution_handler.py and position_handler.py, on one connection).       *)
(*                                                                         *)
(* The exchange holds one position per side.  It reports every fill of an  *)
(* order on the execution topic and the resulting size on the position     *)
(* topic.  The handlers never yield, so one message is computed at once;   *)
(* the writes it makes outside memory are queued in the order of the code  *)
(* and done one at a time, and the process can die between two of them.    *)
(*                                                                         *)
(* Left out: prices and fees, funding (a fill of quantity 0), alerts and   *)
(* overlay notices, and the pruning above EXEC_STORE_MAX records or        *)
(* EXEC_FILLS_MAX fills, which the instances stay far below.               *)
(***************************************************************************)
EXTENDS Integers, Sequences, FiniteSets, Functions

CONSTANTS
  Zones,          \* orderLinkIds of zone entries, one order each
  Manual,         \* the key all manual entries of the side share
  None,           \* no record, no row, no key
  Reconcile,      \* reconcile_closed_from_fills_on_start
  SameSecond,     \* the fills of one order may carry the same second
  PositionFirst,  \* the size may be reported before the fills that led to it
  MaxQty,         \* bound: quantity of one entry order
  MaxOrders,      \* bound: orders executed by the exchange
  MaxLag,         \* bound: messages unread when the next order is executed
  MaxFaults       \* bound: crashes, reconnects, failed writes

ASSUME ConstantsAssumption ==
  /\ Manual \notin Zones
  /\ None \notin Zones \cup {Manual}
  /\ {Reconcile, SameSecond, PositionFirst} \subseteq BOOLEAN
  /\ MaxQty \in Nat \ {0}
  /\ {MaxOrders, MaxLag, MaxFaults} \subseteq Nat

Keys == Zones \cup {Manual}

(* Records and rows.  A fill's label is its kind and, where there may be
   several of the kind, its second: an order has two fills at most.        *)
Seconds == 1..(2 * MaxOrders)

Labels == {<<"Exit", 0>>, <<"SL", 0>>} \cup ({"TP", "Reduce"} \X Seconds)

Records(labels) ==
  [entry : Nat \ {0}, cur : Nat, fills : [labels -> Nat \ {0}],
   closed : BOOLEAN, outside : BOOLEAN, time : Seconds]

Rows == [qty : Nat \ {0}, out : Nat, closed : BOOLEAN]

ASSUME NoneAssumption ==
  /\ None \notin Rows
  /\ \A labels \in SUBSET Labels : None \notin Records(labels)

VARIABLES
  held,      \* the exchange: size of the position
  ordered,   \* the exchange: zone orders it has seen
  orders,    \* the exchange: orders executed so far
  now,       \* the exchange: the current second
  feed,      \* messages of the private stream on their way to the bot
  up,        \* the process is running and connected
  store,     \* execution_data_store in memory
  todo,      \* outside writes the running handler has still to make
  disk,      \* execution_data_store in its file
  rows,      \* positions, with the sum of their fills
  active,    \* zones that zone_state lets trade
  faults,    \* history: faults so far
  overlapped \* history: two records were open at once

exchangeVars == <<held, ordered, orders, now>>
dbVars == <<disk, rows, active>>
vars == <<held, ordered, orders, now, feed, up, store, todo, disk, rows, active,
          faults, overlapped>>

-----------------------------------------------------------------------------
(***************************************************************************)
(* Records.                                                                *)
(***************************************************************************)
Total(fills) == FoldFunction(+, 0, fills)

IsOpen(k) == store[k] # None /\ ~store[k].closed

OpenKeys == {k \in Keys : IsOpen(k)}

NewRecord(m) ==
  [entry |-> m.qty, cur |-> m.qty, fills |-> <<>>, closed |-> FALSE,
   outside |-> FALSE, time |-> m.time]

(* recalc_current_size_from_fills(): what entries and fills say is left.   *)
LeftOf(r) == IF r.entry > Total(r.fills) THEN r.entry - Total(r.fills) ELSE 0

(* A fill is booked under a label; a label that is there is replaced.      *)
Booked(fills, label, q) ==
  [l \in DOMAIN fills \cup {label} |-> IF l = label THEN q ELSE fills[l]]

Least(a, b) == IF a < b THEN a ELSE b

\* Mutant: a size may go below zero.
NotClamped(n) == n

AtLeastZero(n) == IF n > 0 THEN n ELSE 0

(* The newest open record; records of the same second come in any order.   *)
Newest == {k \in OpenKeys : \A j \in OpenKeys : store[j].time <= store[k].time}

(* resolve_position_key_for_close(): closing orders carry keys of their own. *)
CloseTargets == IF OpenKeys = {} THEN {None} ELSE Newest

(* resolve_open_position_key_for_update(): the manual record comes first.  *)
UpdateTargets == IF IsOpen(Manual) THEN {Manual} ELSE CloseTargets

-----------------------------------------------------------------------------
(***************************************************************************)
(* Writes outside memory.                                                  *)
(***************************************************************************)
Save(image)  == [op |-> "save", image |-> image]
Upsert(k, q) == [op |-> "upsert", key |-> k, qty |-> q]
Fill(k, q)   == [op |-> "fill", key |-> k, qty |-> q]
Finalize(k)  == [op |-> "finalize", key |-> k]
Deactivate(k) == [op |-> "deactivate", key |-> k]

When(condition, writes) == IF condition THEN writes ELSE <<>>

Applied(w) ==
  /\ disk' = IF w.op = "save" THEN w.image ELSE disk
  /\ active' = IF w.op = "deactivate" THEN active \ {w.key} ELSE active
  /\ rows' =
       CASE w.op = "upsert" /\ rows[w.key] = None ->
              [rows EXCEPT ![w.key] = [qty |-> w.qty, out |-> 0, closed |-> FALSE]]
         [] w.op = "upsert" /\ rows[w.key] # None ->
              [rows EXCEPT ![w.key].qty = @ + w.qty]
         [] w.op = "fill" /\ rows[w.key] # None ->
              [rows EXCEPT ![w.key].out = @ + w.qty]
         [] w.op = "finalize" /\ rows[w.key] # None ->
              [rows EXCEPT ![w.key].closed = TRUE]
         [] OTHER -> rows

Write ==
  /\ up
  /\ todo # <<>>
  /\ Applied(Head(todo))
  /\ todo' = Tail(todo)
  /\ UNCHANGED <<exchangeVars, feed, up, store, faults, overlapped>>

-----------------------------------------------------------------------------
Init ==
  /\ held = 0
  /\ ordered = {}
  /\ orders = 0
  /\ now = 1
  /\ feed = <<>>
  /\ up = TRUE
  /\ store = [k \in Keys |-> None]
  /\ todo = <<>>
  /\ disk = [k \in Keys |-> None]
  /\ rows = [k \in Keys |-> None]
  /\ active = Zones
  /\ faults = 0
  /\ overlapped = FALSE

(***************************************************************************)
(* The exchange executes an order in one fill or in two, one second each   *)
(* unless SameSecond, and reports the fills and the new size.  What it     *)
(* reports while the bot is not connected is lost.                         *)
(***************************************************************************)
Fills(n) == {<<n>>} \cup {<<i, n - i>> : i \in 1..(n - 1)}

Execute(kind, k, qs, size, outside) ==
  \E step \in IF SameSecond THEN {0, 1} ELSE {1} :
    LET fills == [i \in 1..Len(qs) |->
                    [kind |-> kind, key |-> k, qty |-> qs[i], outside |-> outside,
                     time |-> now + (i - 1) * step]]
        report == <<[kind |-> "Position", qty |-> size]>>
    IN /\ orders < MaxOrders
       /\ Len(feed) <= MaxLag
       /\ orders' = orders + 1
       /\ held' = size
       /\ now' = now + Len(qs)
       /\ \/ feed' = IF up THEN feed \o fills \o report ELSE feed
          \/ /\ PositionFirst
             /\ feed' = IF up THEN feed \o report \o fills ELSE feed
       /\ UNCHANGED <<up, store, todo, dbVars, faults, overlapped>>

(* place_order(): the bot enters only while the side is flat.              *)
EnterZone(z, n) ==
  /\ z \notin ordered
  /\ held = 0
  /\ ordered' = ordered \cup {z}
  /\ \E qs \in Fills(n) : Execute("Open", z, qs, n, FALSE)

EnterManually(n) ==
  /\ \E qs \in Fills(n) : Execute("Open", Manual, qs, held + n, FALSE)
  /\ UNCHANGED ordered

(* A market close or a take profit, of all or part of the position; a zone's
   dynamic stop is a market close outside its base SL.                     *)
Reduce(kind, n, outside) ==
  /\ \E qs \in Fills(n) : Execute(kind, None, qs, held - n, outside)
  /\ UNCHANGED ordered

(* The stop loss is set in mode Full: it closes the whole position.        *)
StopOut ==
  /\ held > 0
  /\ \E qs \in Fills(held) : Execute("StopLoss", None, qs, 0, FALSE)
  /\ UNCHANGED ordered

-----------------------------------------------------------------------------
(***************************************************************************)
(* handle_private_ws_message(): the next message, once the writes of the   *)
(* one before it are done.                                                 *)
(***************************************************************************)
Handling(kind) ==
  /\ up
  /\ todo = <<>>
  /\ feed # <<>>
  /\ Head(feed).kind = kind
  /\ feed' = Tail(feed)
  /\ UNCHANGED <<exchangeVars, up, dbVars, faults>>

Recorded(k, r) ==
  /\ store' = [store EXCEPT ![k] = r]
  /\ overlapped' = (overlapped \/ Cardinality(OpenKeys \cup {k}) > 1)

\* Mutant: only a new record is saved.
SaveOnlyNew ==
  /\ Handling("Open")
  /\ LET m == Head(feed)
         r == IF IsOpen(m.key)
                THEN [store[m.key] EXCEPT !.entry = @ + m.qty, !.cur = @ + m.qty]
                ELSE NewRecord(m)
     IN /\ Recorded(m.key, r)
        /\ todo' = <<Upsert(m.key, m.qty)>> \o When(~IsOpen(m.key), <<Save(store')>>)

(* is_open_position: a further entry into an open record accumulates.      *)
HandleOpen ==
  /\ Handling("Open")
  /\ LET m == Head(feed)
         r == IF IsOpen(m.key)
                THEN [store[m.key] EXCEPT !.entry = @ + m.qty, !.cur = @ + m.qty]
                ELSE NewRecord(m)
     IN /\ Recorded(m.key, r)
        /\ todo' = <<Upsert(m.key, m.qty), Save(store')>>

(* No open record of the side: the fill is logged and skipped.             *)
Skip(kind, targets) ==
  /\ Handling(kind)
  /\ targets = {None}
  /\ UNCHANGED <<store, todo, overlapped>>

(* is_close_position: the smaller of the two sizes is taken for the truth. *)
HandleClose ==
  /\ Handling("Close")
  /\ \E k \in CloseTargets \ {None} :
       LET m     == Head(feed)
           new   == Least(store[k].cur, LeftOf(store[k])) - m.qty
           full  == new <= 0
           stop  == full /\ k \in Zones /\ m.outside
           label == IF full THEN <<"Exit", 0>> ELSE <<"Reduce", m.time>>
           r     == [store[k] EXCEPT
                       !.cur = AtLeastZero(new),
                       !.fills = Booked(@, label, m.qty),
                       !.closed = full,
                       !.outside = stop]
       IN /\ Recorded(k, r)
          /\ todo' = When(stop, <<Deactivate(k)>>) \o <<Fill(k, m.qty)>>
                       \o When(full, <<Finalize(k)>>) \o <<Save(store')>>

\* Mutant: the fill is booked and then deducted once more.
DeductTwice ==
  /\ Handling("TakeProfit")
  /\ \E k \in CloseTargets \ {None} :
       LET m   == Head(feed)
           b   == [store[k] EXCEPT !.fills = Booked(@, <<"TP", m.time>>, m.qty)]
           r   == [b EXCEPT !.cur = AtLeastZero(Least(b.cur, LeftOf(b)) - m.qty)]
           end == [r EXCEPT !.closed = (r.cur = 0)]
       IN /\ Recorded(k, end)
          /\ todo' = <<Save([store EXCEPT ![k] = r]), Fill(k, m.qty)>>
                       \o When(end.closed, <<Finalize(k), Save(store')>>)

(* A take profit, market or limit: the fill is booked first, saved, and the
   record closed and saved again when nothing is left.                     *)
HandleTakeProfit ==
  /\ Handling("TakeProfit")
  /\ \E k \in CloseTargets \ {None} :
       LET m   == Head(feed)
           b   == [store[k] EXCEPT !.fills = Booked(@, <<"TP", m.time>>, m.qty)]
           r   == [b EXCEPT !.cur = Least(b.cur, LeftOf(b))]
           end == [r EXCEPT !.closed = (r.cur = 0)]
       IN /\ Recorded(k, end)
          /\ todo' = <<Save([store EXCEPT ![k] = r]), Fill(k, m.qty)>>
                       \o When(end.closed, <<Finalize(k), Save(store')>>)

\* Mutant: the position row is left open.
StopWithoutFinalize ==
  /\ Handling("StopLoss")
  /\ \E k \in CloseTargets \ {None} :
       LET m == Head(feed)
           r == [store[k] EXCEPT !.closed = TRUE,
                                 !.fills = Booked(@, <<"SL", 0>>, m.qty)]
       IN /\ Recorded(k, r)
          /\ todo' = <<Save(store'), Fill(k, m.qty)>>

(* A stop loss fill closes the record and the zone, whatever its size.     *)
HandleStopLoss ==
  /\ Handling("StopLoss")
  /\ \E k \in CloseTargets \ {None} :
       LET m == Head(feed)
           r == [store[k] EXCEPT !.closed = TRUE,
                                 !.fills = Booked(@, <<"SL", 0>>, m.qty)]
       IN /\ Recorded(k, r)
          /\ todo' = When(k \in Zones, <<Deactivate(k)>>)
                       \o <<Save(store'), Fill(k, m.qty), Finalize(k)>>

(* handle_position_message(): size 0 is left to the execution stream.      *)
HandlePosition ==
  /\ Handling("Position")
  /\ LET size == Head(feed).qty
     IN \E k \in UpdateTargets :
          IF size > 0 /\ k # None /\ store[k].cur # size
            THEN /\ Recorded(k, [store[k] EXCEPT !.cur = size])
                 /\ todo' = <<Save(store')>>
            ELSE UNCHANGED <<store, todo, overlapped>>

-----------------------------------------------------------------------------
(***************************************************************************)
(* Start and faults.                                                       *)
(***************************************************************************)

\* Mutant: the file is taken as it is.
NotReconciled(image) == image

(* _reconcile_execution_store_from_fills(): a record whose fills cover its
   entries is closed.                                                      *)
Reconciled(image) ==
  IF ~Reconcile THEN image
  ELSE [k \in Keys |->
          IF image[k] = None THEN None
          ELSE IF LeftOf(image[k]) > 0 THEN image[k]
          ELSE [image[k] EXCEPT !.cur = 0, !.closed = TRUE]]

Start ==
  /\ ~up
  /\ up' = TRUE
  /\ store' = Reconciled(disk)
  /\ todo' = When(Reconcile, <<Save(store')>>)
  /\ UNCHANGED <<exchangeVars, feed, dbVars, faults, overlapped>>

Fault ==
  /\ faults < MaxFaults
  /\ faults' = faults + 1

(* The process dies: memory, pending writes and the stream are gone.       *)
Crash ==
  /\ Fault
  /\ up
  /\ up' = FALSE
  /\ feed' = <<>>
  /\ store' = [k \in Keys |-> None]
  /\ todo' = <<>>
  /\ UNCHANGED <<exchangeVars, dbVars, overlapped>>

(* The socket drops and is opened again: Bybit does not repeat messages.   *)
Reconnect ==
  /\ Fault
  /\ up
  /\ feed # <<>>
  /\ feed' = <<>>
  /\ UNCHANGED <<exchangeVars, up, store, todo, dbVars, overlapped>>

(* A write raises: the handler logs it and goes on.                        *)
WriteFails ==
  /\ Fault
  /\ up
  /\ todo # <<>>
  /\ todo' = Tail(todo)
  /\ UNCHANGED <<exchangeVars, feed, up, store, dbVars, overlapped>>

-----------------------------------------------------------------------------
Exchange ==
  \/ \E n \in 1..MaxQty : EnterManually(n) \/ \E z \in Zones : EnterZone(z, n)
  \/ \E n \in 1..held :
       \/ Reduce("Close", n, TRUE)
       \/ Reduce("Close", n, FALSE)
       \/ Reduce("TakeProfit", n, FALSE)
  \/ StopOut

Handler ==
  \/ HandleOpen
  \/ HandleClose
  \/ HandleTakeProfit
  \/ HandleStopLoss
  \/ HandlePosition
  \/ \E kind \in {"Close", "TakeProfit", "StopLoss"} : Skip(kind, CloseTargets)

Next == Exchange \/ Handler \/ Write \/ Start \/ Crash \/ Reconnect \/ WriteFails

Spec == Init /\ [][Next]_vars

-----------------------------------------------------------------------------
(***************************************************************************)
(* Properties.                                                             *)
(***************************************************************************)
IsRecord(r) ==
  DOMAIN r.fills \subseteq Labels /\ r \in Records(DOMAIN r.fills)

IsImage(image) ==
  /\ DOMAIN image = Keys
  /\ \A k \in Keys : image[k] = None \/ IsRecord(image[k])

TypeOK ==
  /\ held \in 0..(MaxQty * MaxOrders)
  /\ ordered \subseteq Zones
  /\ orders \in 0..MaxOrders
  /\ up \in BOOLEAN
  /\ IsImage(store) /\ IsImage(disk)
  /\ ~up => todo = <<>> /\ feed = <<>> /\ OpenKeys = {}
  /\ rows \in [Keys -> Rows \cup {None}]
  /\ active \subseteq Zones
  /\ faults \in 0..MaxFaults

(* Every message was handled and every write done.                         *)
Idle == up /\ feed = <<>> /\ todo = <<>>

NothingLost == faults = 0

SizeOf(keys) == SumFunctionOnSet([k \in Keys |-> IF store[k] = None THEN 0
                                                 ELSE LeftOf(store[k])], keys)

(***************************************************************************)
(* With nothing lost, the open records account for the exchange's position *)
(* at every idle moment: together they never claim less than it holds, and *)
(* as long as no two of them were open at once, the one there is has its   *)
(* size exactly.                                                           *)
(***************************************************************************)
TracksExchange ==
  Idle /\ NothingLost =>
    /\ SizeOf(OpenKeys) >= held
    /\ ~overlapped => /\ SizeOf(OpenKeys) = held
                      /\ \A k \in OpenKeys : store[k].cur = held

(***************************************************************************)
(* No ghost positions: whatever was lost and wherever the bot was killed,  *)
(* an open record has something left by its size and by its fills.         *)
(***************************************************************************)
OpenHasSize ==
  Idle => \A k \in OpenKeys : store[k].cur > 0 /\ LeftOf(store[k]) > 0

(***************************************************************************)
(* A restart of an idle bot resumes with the open records it had.          *)
(***************************************************************************)
RestartKeepsOpen ==
  Idle /\ NothingLost =>
    \A k \in Keys :
      LET r == Reconciled(disk)[k]
      IN IF IsOpen(k) THEN r = store[k] ELSE r = None \/ r.closed

(***************************************************************************)
(* MySQL tells the same story: a zone entry's row has the record's         *)
(* quantity and fills and is closed with it, and the zone is switched off  *)
(* exactly when the position was stopped out.                              *)
(***************************************************************************)
StoppedOut(r) == r.outside \/ <<"SL", 0>> \in DOMAIN r.fills

DatabaseAgrees ==
  Idle /\ NothingLost =>
    \A z \in Zones :
      IF store[z] = None
        THEN rows[z] = None /\ z \in active
        ELSE /\ rows[z] = [qty |-> store[z].entry, out |-> Total(store[z].fills),
                           closed |-> store[z].closed]
             /\ z \in active <=> ~StoppedOut(store[z])

(***************************************************************************)
(* position_handler.py:53: clearing up at size 0 is the execution stream's *)
(* business.  Once it has reported every fill of a flat side, no record is *)
(* open.                                                                   *)
(***************************************************************************)
FlatIsClosed ==
  Idle /\ NothingLost /\ ~overlapped /\ held = 0 => OpenKeys = {}

(***************************************************************************)
(* execution_handler.py:681: messages that come late or out of order are   *)
(* provided for.  A position the exchange still holds has an open record.  *)
(***************************************************************************)
HeldIsOpen ==
  Idle /\ NothingLost /\ ~overlapped /\ held > 0 => OpenKeys # {}
=============================================================================
