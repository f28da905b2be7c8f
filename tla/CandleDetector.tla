--------------------------- MODULE CandleDetector ---------------------------
(***************************************************************************)
(* How the bot decides that a bar of one interval is over                  *)
(* (backend/core/ws/candle_detector.py).  Tasks of one event loop share    *)
(* the pending bars and the end of the last evaluated bar:                 *)
(*                                                                         *)
(*   reader    handle_kline: stores every update of the stream and         *)
(*             evaluates a bar when its confirm arrives                    *)
(*   monitor   monitor_pending_candles: evaluates a pending bar whose      *)
(*             confirm has not come 1200 ms after its end                  *)
(*   checks    delayed_rest_check: one task per evaluated bar that asks    *)
(*             the exchange over REST and repairs the row and the file     *)
(*                                                                         *)
(* Database and file writes run in threads the task awaits, so every write *)
(* is a step of its own and the other tasks run in between.  The candle    *)
(* file is rewritten as a whole: a thread reads it, changes one bar and    *)
(* replaces it, and another thread may have replaced it in between.        *)
(*                                                                         *)
(* A bar is its number; what it holds (OHLCV) is a number that grows with  *)
(* every trade.  Left out: the source column, which nothing reads back;    *)
(* the Bollinger files and the shared_state caches, recomputed from the    *)
(* same candle; the zone update of a check, which reports to ZoneState;    *)
(* the chart-storage worker, which upserts the same rows (ChartStorage):   *)
(* what is said here of the rows is said of the bot's own writes.          *)
(***************************************************************************)
EXTENDS Integers, Sequences

CONSTANTS
  NBars,     \* bound: bars of the exchange
  MaxValue,  \* bound: trades in a bar
  MaxWire,   \* bound: messages unread by the bot
  MaxDrops,  \* bound: lost connections
  MaxFaults  \* bound: failed writes and requests, crashes

ASSUME BoundsAssumption ==
  /\ {NBars, MaxValue, MaxWire} \subseteq Nat \ {0}
  /\ {MaxDrops, MaxFaults} \subseteq Nat

Bars == 1 .. NBars
Nothing == 0                 \* no row, no entry, no trade yet
Corrected == MaxValue + 1    \* an official value the stream never showed

VARIABLES
  traded,     \* the exchange: what the stream says of each bar
  official,   \* the exchange: what REST says of each closed bar
  closed,     \* the exchange: number of closed bars
  due,        \* number of bars that ended at least 1200 ms ago
  wire,       \* messages on their way to the bot
  connected,  \* the stream is up
  reader,     \* handle_kline: where it is and the message it handles
  monitor,    \* monitor_pending_candles, or "dead" once it raised
  pending,    \* pending_kline_map
  lastEnd,    \* last_confirmed_end
  check,      \* delayed_rest_check of each bar: where it is
  row,        \* the candles table
  file,       \* the candle file
  copy,       \* the file as the thread of each task has read it
  told,       \* bars announced on /internal/candle-rest-confirmed
  evals,      \* history: evaluations of each bar
  overdueBy,  \* history: bars evaluated by the monitor
  overlapped, \* history: bars saved last while another thread had the file read
  drops,      \* history: lost connections
  faults      \* history: faults

exchangeVars == <<traded, official, closed, due>>
streamVars == <<wire, connected, drops>>
evalVars == <<lastEnd, evals, overdueBy>>
fileVars == <<file, copy, overlapped>>
storeVars == <<row, file, copy, overlapped>>
vars == <<traded, official, closed, due, wire, connected, reader, monitor,
          pending, lastEnd, check, row, file, copy, told, evals, overdueBy,
          overlapped, drops, faults>>

NoMessage == [bar |-> 0, value |-> Nothing, confirm |-> FALSE]

IdleReader == [pc |-> "idle", msg |-> NoMessage]

IdleMonitor == [pc |-> "idle", bar |-> 0, value |-> Nothing, keys |-> {}]

Messages == [bar : Bars, value : 1 .. MaxValue, confirm : BOOLEAN]

Readers ==
  [pc : {"live", "decide", "row", "read", "file"}, msg : Messages] \cup {IdleReader}

DeadMonitor == [IdleMonitor EXCEPT !.pc = "dead"]

Monitors ==
  [pc : {"row", "read", "file"}, bar : Bars, value : 0 .. MaxValue, keys : SUBSET Bars]
    \cup {IdleMonitor, DeadMonitor}

CheckSteps ==
  {"none", "sleep", "compare", "write", "read", "save", "notify", "done", "gone"}

Running(b) == check[b] \in {"sleep", "compare", "write", "read", "save", "notify"}

(* Who rewrites the file: the reader, the monitor and the check of a bar.  *)
ByReader  == 0
ByMonitor == NBars + 1
Writers   == Bars \cup {ByReader, ByMonitor}

HasRead(w) ==
  \/ w = ByReader /\ reader.pc = "file"
  \/ w = ByMonitor /\ monitor.pc = "file"
  \/ w \in Bars /\ check[w] = "save"

EmptyFile == [b \in Bars |-> Nothing]

Pended == {b \in Bars : pending[b] # Nothing}

Init ==
  /\ traded = [b \in Bars |-> Nothing]
  /\ official = [b \in Bars |-> Nothing]
  /\ closed = 0
  /\ due = 0
  /\ wire = <<>>
  /\ connected = TRUE
  /\ reader = IdleReader
  /\ monitor = IdleMonitor
  /\ pending = [b \in Bars |-> Nothing]
  /\ lastEnd = 0
  /\ check = [b \in Bars |-> "none"]
  /\ row = [b \in Bars |-> Nothing]
  /\ file = EmptyFile
  /\ copy = [w \in Writers |-> EmptyFile]
  /\ overlapped = {}
  /\ told = {}
  /\ evals = [b \in Bars |-> 0]
  /\ overdueBy = {}
  /\ drops = 0
  /\ faults = 0

Fault ==
  /\ faults < MaxFaults
  /\ faults' = faults + 1

-----------------------------------------------------------------------------
(***************************************************************************)
(* The exchange and the connection.                                        *)
(***************************************************************************)
Send(b, value, confirm) ==
  IF connected
  THEN /\ Len(wire) < MaxWire
       /\ wire' = Append(wire, [bar |-> b, value |-> value, confirm |-> confirm])
  ELSE wire' = wire

Trade ==
  LET b == closed + 1 IN
  /\ b \in Bars
  /\ traded[b] < MaxValue
  /\ traded' = [traded EXCEPT ![b] = @ + 1]
  /\ Send(b, traded'[b], FALSE)
  /\ UNCHANGED <<official, closed, due, connected, drops, reader, monitor,
                 pending, evalVars, check, storeVars, told, faults>>

(* The monitor polls every second and a bar lasts 15 minutes or more: when  *)
(* a bar closes, the one before it is past its grace, the monitor has seen  *)
(* it and no handler is still busy with it.                                 *)
Settled ==
  /\ due = closed
  /\ \/ monitor.pc = "dead"
     \/ /\ monitor.pc = "idle"
        /\ \A b \in Pended : b <= due => b <= lastEnd
  /\ reader.msg.bar \in {0, closed + 1}

Close ==
  LET b == closed + 1 IN
  /\ b \in Bars
  /\ traded[b] # Nothing
  /\ Settled
  /\ closed' = b
  /\ \E v \in {traded[b], Corrected} : official' = [official EXCEPT ![b] = v]
  /\ Send(b, traded[b], TRUE)
  /\ UNCHANGED <<traded, due, connected, drops, reader, monitor, pending,
                 evalVars, check, storeVars, told, faults>>

GracePasses ==
  /\ due < closed
  /\ due' = due + 1
  /\ UNCHANGED <<traded, official, closed, streamVars, reader, monitor, pending,
                 evalVars, check, storeVars, told, faults>>

(* What was unread is lost; the handler that runs is not disturbed.        *)
Drop ==
  /\ connected
  /\ drops < MaxDrops
  /\ drops' = drops + 1
  /\ connected' = FALSE
  /\ wire' = <<>>
  /\ UNCHANGED <<exchangeVars, reader, monitor, pending, evalVars, check,
                 storeVars, told, faults>>

Reconnect ==
  /\ ~connected
  /\ connected' = TRUE
  /\ UNCHANGED <<exchangeVars, wire, drops, reader, monitor, pending, evalVars,
                 check, storeVars, told, faults>>

-----------------------------------------------------------------------------
(***************************************************************************)
(* Evaluating a bar: print_candle().  Its caller claims the bar first, so  *)
(* that the other caller leaves it alone while this one awaits its writes. *)
(***************************************************************************)
\* Mutant: the bar is claimed by whoever comes, however late.
AlwaysClaimable(b) == TRUE

Claimable(b) == b > lastEnd

\* Mutant: the end of a bar is taken for the end of the next one.
ClaimLate(b) ==
  /\ Claimable(b)
  /\ lastEnd' = b + 1
  /\ evals' = [evals EXCEPT ![b] = @ + 1]

Claim(b) ==
  /\ Claimable(b)
  /\ lastEnd' = b
  /\ evals' = [evals EXCEPT ![b] = @ + 1]

(* upsert_candle(); a failure is logged and forgotten.                     *)
Upserted(b, value) ==
  \/ /\ row' = [row EXCEPT ![b] = value]
     /\ UNCHANGED faults
  \/ /\ Fault
     /\ UNCHANGED row

(* save_candle_to_file() of bar b in w's thread: first the whole file is   *)
(* read, then it is replaced by what was read with this bar changed.       *)
ReadFile(w) ==
  /\ copy' = [copy EXCEPT ![w] = file]
  /\ UNCHANGED <<file, overlapped>>

Save(w, b, value) ==
  /\ file' = [copy[w] EXCEPT ![b] = value]
  /\ copy' = [copy EXCEPT ![w] = EmptyFile]
  /\ overlapped' = IF \E v \in Writers \ {w} : HasRead(v)
                     THEN overlapped \cup {b} ELSE overlapped \ {b}

(* The check is created right after the file is saved.                     *)
Printed(w, b, value) ==
  /\ Save(w, b, value)
  /\ check' = [check EXCEPT ![b] = "sleep"]

-----------------------------------------------------------------------------
(***************************************************************************)
(* The reader: handle_kline(), one message at a time.                      *)
(***************************************************************************)
Receive ==
  /\ reader.pc = "idle"
  /\ wire # <<>>
  /\ reader' = [pc |-> "live", msg |-> Head(wire)]
  /\ wire' = Tail(wire)
  /\ UNCHANGED <<exchangeVars, connected, drops, monitor, pending, evalVars,
                 check, storeVars, told, faults>>

LiveUpsert ==
  /\ reader.pc = "live"
  /\ Upserted(reader.msg.bar, reader.msg.value)
  /\ reader' = [reader EXCEPT !.pc = "decide"]
  /\ UNCHANGED <<exchangeVars, streamVars, monitor, pending, evalVars, check,
                 fileVars, told>>

\* Mutant: the first message of a bar passes for the end of the one before.
PendAndClose ==
  /\ reader.pc = "decide"
  /\ ~reader.msg.confirm
  /\ pending' = [pending EXCEPT ![reader.msg.bar] = reader.msg.value]
  /\ lastEnd' = IF lastEnd >= reader.msg.bar THEN lastEnd ELSE reader.msg.bar - 1
  /\ reader' = IdleReader
  /\ UNCHANGED <<exchangeVars, streamVars, monitor, evals, overdueBy, check,
                 storeVars, told, faults>>

Pend ==
  /\ reader.pc = "decide"
  /\ ~reader.msg.confirm
  /\ pending' = [pending EXCEPT ![reader.msg.bar] = reader.msg.value]
  /\ reader' = IdleReader
  /\ UNCHANGED <<exchangeVars, streamVars, monitor, evalVars, check, storeVars,
                 told, faults>>

Confirm ==
  /\ reader.pc = "decide"
  /\ reader.msg.confirm
  /\ Claim(reader.msg.bar)
  /\ reader' = [reader EXCEPT !.pc = "row"]
  /\ UNCHANGED <<exchangeVars, streamVars, monitor, pending, overdueBy, check,
                 storeVars, told, faults>>

IgnoreConfirm ==
  /\ reader.pc = "decide"
  /\ reader.msg.confirm
  /\ ~Claimable(reader.msg.bar)
  /\ reader' = IdleReader
  /\ UNCHANGED <<exchangeVars, streamVars, monitor, pending, evalVars, check,
                 storeVars, told, faults>>

\* Mutant: the copy put aside is stored instead of the confirmed bar.
ReaderRowFromPending ==
  /\ reader.pc = "row"
  /\ Upserted(reader.msg.bar, pending[reader.msg.bar])
  /\ reader' = [reader EXCEPT !.pc = "read"]
  /\ UNCHANGED <<exchangeVars, streamVars, monitor, pending, evalVars, check,
                 fileVars, told>>

ReaderRow ==
  /\ reader.pc = "row"
  /\ Upserted(reader.msg.bar, reader.msg.value)
  /\ reader' = [reader EXCEPT !.pc = "read"]
  /\ UNCHANGED <<exchangeVars, streamVars, monitor, pending, evalVars, check,
                 fileVars, told>>

ReaderReads ==
  /\ reader.pc = "read"
  /\ ReadFile(ByReader)
  /\ reader' = [reader EXCEPT !.pc = "file"]
  /\ UNCHANGED <<exchangeVars, streamVars, monitor, pending, evalVars, check, row,
                 told, faults>>

(* A file that cannot be written costs the bar its check.                  *)
ReaderFile ==
  /\ reader.pc = "file"
  /\ \/ /\ Printed(ByReader, reader.msg.bar, reader.msg.value)
        /\ UNCHANGED faults
     \/ /\ Fault
        /\ UNCHANGED <<fileVars, check>>
  /\ reader' = IdleReader
  /\ UNCHANGED <<exchangeVars, streamVars, monitor, pending, evalVars, row, told>>

-----------------------------------------------------------------------------
(***************************************************************************)
(* The monitor.  It walks over the map itself, across awaits: a bar put    *)
(* into the map meanwhile makes the walk raise, and nothing restarts it.   *)
(***************************************************************************)
\* Mutant: the bar that has just ended is left for the next poll.
Overripe == {b \in Pended : b < due /\ Claimable(b)}

Overdue == {b \in Pended : b <= due /\ Claimable(b)}

MonitorPoll ==
  /\ monitor.pc = "idle"
  /\ \E b \in Overdue :
       /\ \A c \in Overdue : b <= c
       /\ Claim(b)
       /\ overdueBy' = overdueBy \cup {b}
       /\ monitor' = [pc |-> "row", bar |-> b, value |-> pending[b],
                      keys |-> Pended]
  /\ UNCHANGED <<exchangeVars, streamVars, reader, pending, check, storeVars,
                 told, faults>>

MonitorRow ==
  /\ monitor.pc = "row"
  /\ Upserted(monitor.bar, monitor.value)
  /\ monitor' = [monitor EXCEPT !.pc = "read"]
  /\ UNCHANGED <<exchangeVars, streamVars, reader, pending, evalVars, check,
                 fileVars, told>>

MonitorReads ==
  /\ monitor.pc = "read"
  /\ ReadFile(ByMonitor)
  /\ monitor' = [monitor EXCEPT !.pc = "file"]
  /\ UNCHANGED <<exchangeVars, streamVars, reader, pending, evalVars, check, row,
                 told, faults>>

(* No second bar is overdue in one walk, for a bar outlasts a walk.        *)
MonitorFile ==
  /\ monitor.pc = "file"
  /\ Printed(ByMonitor, monitor.bar, monitor.value)
  /\ \/ /\ Pended # monitor.keys
        /\ monitor' = DeadMonitor
        /\ UNCHANGED pending
     \/ /\ Pended = monitor.keys
        /\ monitor' = IdleMonitor
        /\ pending' = [pending EXCEPT ![monitor.bar] = Nothing]
  /\ UNCHANGED <<exchangeVars, streamVars, reader, evalVars, row, told, faults>>

(* A file that cannot be written ends the monitor too.                     *)
MonitorFileFails ==
  /\ monitor.pc = "file"
  /\ Fault
  /\ monitor' = DeadMonitor
  /\ UNCHANGED <<exchangeVars, streamVars, reader, pending, evalVars, check,
                 storeVars, told>>

-----------------------------------------------------------------------------
(***************************************************************************)
(* The checks.  The sleep ends after the end of the bar, so REST answers   *)
(* with the official value.                                                *)
(***************************************************************************)
Fetch(b) ==
  /\ check[b] = "sleep"
  /\ check' = [check EXCEPT ![b] = "compare"]
  /\ UNCHANGED <<exchangeVars, streamVars, reader, monitor, pending, evalVars,
                 storeVars, told, faults>>

(* upsert_candle_from_rest_verify() reads the row and writes it if it      *)
(* differs, over two connections.                                          *)
Compare(b) ==
  /\ check[b] = "compare"
  /\ check' = [check EXCEPT ![b] = IF row[b] = official[b] THEN "read" ELSE "write"]
  /\ UNCHANGED <<exchangeVars, streamVars, reader, monitor, pending, evalVars,
                 storeVars, told, faults>>

Repair(b) ==
  /\ check[b] = "write"
  /\ row' = [row EXCEPT ![b] = official[b]]
  /\ check' = [check EXCEPT ![b] = "read"]
  /\ UNCHANGED <<exchangeVars, streamVars, reader, monitor, pending, evalVars,
                 fileVars, told, faults>>

CheckReads(b) ==
  /\ check[b] = "read"
  /\ ReadFile(b)
  /\ check' = [check EXCEPT ![b] = "save"]
  /\ UNCHANGED <<exchangeVars, streamVars, reader, monitor, pending, evalVars,
                 row, told, faults>>

SaveOfficial(b) ==
  /\ check[b] = "save"
  /\ Save(b, b, official[b])
  /\ check' = [check EXCEPT ![b] = "notify"]
  /\ UNCHANGED <<exchangeVars, streamVars, reader, monitor, pending, evalVars,
                 row, told, faults>>

Notify(b) ==
  /\ check[b] = "notify"
  /\ told' = told \cup {b}
  /\ check' = [check EXCEPT ![b] = "done"]
  /\ UNCHANGED <<exchangeVars, streamVars, reader, monitor, pending, evalVars,
                 storeVars, faults>>

\* Mutant: a failed write does not keep the check from announcing the bar.
AnnounceAnyway(b) ==
  /\ Running(b)
  /\ Fault
  /\ check' = [check EXCEPT ![b] = IF @ \in {"write", "read", "save"} THEN "notify" ELSE "gone"]
  /\ UNCHANGED <<exchangeVars, streamVars, reader, monitor, pending, evalVars,
                 storeVars, told>>

(* No answer, a failed write, a failed POST: the check gives up.           *)
GiveUp(b) ==
  /\ Running(b)
  /\ Fault
  /\ check' = [check EXCEPT ![b] = "gone"]
  /\ UNCHANGED <<exchangeVars, streamVars, reader, monitor, pending, evalVars,
                 storeVars, told>>

(* The process dies and starts again; the tables and the file stay.        *)
Crash ==
  /\ Fault
  /\ wire' = <<>>
  /\ connected' = FALSE
  /\ reader' = IdleReader
  /\ monitor' = IdleMonitor
  /\ pending' = [b \in Bars |-> Nothing]
  /\ lastEnd' = 0
  /\ check' = [b \in Bars |-> IF Running(b) THEN "gone" ELSE check[b]]
  /\ UNCHANGED <<exchangeVars, drops, storeVars, told, evals, overdueBy>>

-----------------------------------------------------------------------------
Exchange == Trade \/ Close \/ GracePasses \/ Drop \/ Reconnect
Reader ==
  Receive \/ LiveUpsert \/ Pend \/ Confirm \/ IgnoreConfirm \/ ReaderRow
  \/ ReaderReads \/ ReaderFile
Monitor == MonitorPoll \/ MonitorRow \/ MonitorReads \/ MonitorFile \/ MonitorFileFails
CheckStep(b) ==
  Fetch(b) \/ Compare(b) \/ Repair(b) \/ CheckReads(b) \/ SaveOfficial(b) \/ Notify(b)
Check(b) == CheckStep(b) \/ GiveUp(b)

Next ==
  \/ Exchange
  \/ Reader
  \/ Monitor
  \/ \E b \in Bars : Check(b)
  \/ Crash

Spec == Init /\ [][Next]_vars

(* The event loop runs every task that can go on, and no thread hangs; the *)
(* stream owes nothing, neither a message nor a connection.                *)
Fairness ==
  /\ WF_vars(Receive) /\ WF_vars(LiveUpsert)
  /\ WF_vars(Pend \/ Confirm \/ IgnoreConfirm)
  /\ WF_vars(ReaderRow) /\ WF_vars(ReaderReads) /\ WF_vars(ReaderFile)
  /\ WF_vars(MonitorPoll) /\ WF_vars(MonitorRow)
  /\ WF_vars(MonitorReads) /\ WF_vars(MonitorFile)
  /\ \A b \in Bars : WF_vars(CheckStep(b))

LiveSpec == Spec /\ Fairness

-----------------------------------------------------------------------------
Values == 0 .. Corrected

(* Every variable keeps its type, and every bound that is counted holds.   *)
TypeOK ==
  /\ traded \in [Bars -> 0 .. MaxValue]
  /\ official \in [Bars -> Values]
  /\ closed \in 0 .. NBars
  /\ due \in 0 .. closed
  /\ wire \in Seq(Messages)
  /\ Len(wire) <= MaxWire
  /\ connected \in BOOLEAN
  /\ reader \in Readers
  /\ monitor \in Monitors
  /\ pending \in [Bars -> 0 .. MaxValue]
  /\ lastEnd \in 0 .. NBars
  /\ check \in [Bars -> CheckSteps]
  /\ row \in [Bars -> Values]
  /\ file \in [Bars -> Values]
  /\ copy \in [Writers -> [Bars -> Values]]
  /\ told \subseteq Bars
  /\ evals \in [Bars -> Nat]
  /\ overdueBy \subseteq Bars
  /\ overlapped \subseteq Bars
  /\ drops \in 0 .. MaxDrops
  /\ faults \in 0 .. MaxFaults

(* A bar is evaluated once, although two tasks may do it, each across      *)
(* awaits, and a confirm may arrive after the monitor gave it up: two      *)
(* evaluations would start two checks and move the zones twice.            *)
EvaluatedOnce == \A b \in Bars : evals[b] <= 1

(* No bar the reader has put aside is passed over: when a later bar has    *)
(* been evaluated, so has this one, by its confirm or by the monitor,      *)
(* whatever messages were lost - unless the monitor is dead.               *)
NoBarSkipped ==
  monitor.pc # "dead" =>
    \A b \in Pended : b < lastEnd => evals[b] > 0

(* What a check announces is stored: the file holds the official value     *)
(* for good, whichever task wrote the bar first and whatever is saved of   *)
(* other bars - unless another thread had the file read when this check    *)
(* saved, and may put the older file back; and so does the row, as far as  *)
(* the bot writes it, if the confirm of the bar came in time.              *)
AnnouncedIsStored ==
  \A b \in told :
    /\ b \notin overlapped => file[b] = official[b]
    /\ b \notin overdueBy => row[b] = official[b]

(* The bot never takes the row of a bar back to an older value - as long   *)
(* as the monitor did not evaluate the bar from the copy it had.           *)
RowNeverRegresses ==
  [][\A b \in Bars \ overdueBy' : row'[b] >= row[b]]_vars

(* A bar that is over is announced with its official value, whether or not *)
(* its confirm gets through - unless something fails or the monitor died.  *)
EndedIsAnnounced ==
  \A b \in Bars :
    (b \in Pended /\ b <= due) ~> (b \in told \/ faults > 0 \/ monitor.pc = "dead")

(* "The candle, the bands and the database are always overwritten with the *)
(* REST values" (candle_detector.py, delayed_rest_check): whatever has     *)
(* been announced is what the row says.                                    *)
RestValueStays == \A b \in told : row[b] = official[b]

(* The routine that looks for bars without a confirm loops for ever.       *)
MonitorSurvives == monitor.pc # "dead"
=============================================================================
